---------------------------- MODULE ConsoleProofs ----------------------------
(***************************************************************************)
(* The console keeps its promise, its audit tells the truth and a finished *)
(* record is of one boot, for every number of commands and boots.  The     *)
(* invariant follows the one command that is open: what of it is on its    *)
(* way to the shell (Queued), on its way back (Spoken), or still to come   *)
(* from a session that was given up (Late).                                *)
(***************************************************************************)
EXTENDS Console, SequenceTheorems, FiniteSetTheorems, TLAPS

(* Everything the session has sent and run_result has not used yet.         *)
Wire == buf \o out
Says(l) == l.what \in {"out", "status"}

(* The shell has at most the open command before it, last of all.           *)
Queued == \A i \in DOMAIN inq :
  inq[i] # 0 => inq[i] = n /\ i = Len(inq) /\ pc = "reading" /\ did[n].status = "no" /\ conn = "open"

(* A given up command may still happen, once.                               *)
Late == \A c \in left : told[c] = "unknown" /\ did[c].status = "no"

(* Only the open command speaks, and its status is the end of what is there. *)
Spoken == \A i \in DOMAIN Wire : Says(Wire[i]) =>
  /\ pc = "reading" /\ Wire[i].cmd = n
  /\ Wire[i].what = "status" =>
       /\ i = Len(Wire) /\ i > 1 /\ Wire[i - 1].what = "out"
       /\ Wire[i].status = did[n].status /\ did[n].status # "no"

(* One command is open, and what the caller learned of the others is true.  *)
Learned == \A c \in 1..n :
  /\ told[c] = "sent" <=> c = n /\ pc \in {"call", "reading"}
  /\ told[c] \notin {"sent", "unknown"} => told[c] = did[c].status /\ told[c] \in {"zero", "nonzero"}

Open == /\ pc \in {"call", "reading", "record", "return", "raise"} => n > 0
        /\ pc = "call" => did[n].status = "no"

(* The transcript has at most one piece of a command, and a whole one unless
   its record failed; the audit's last line shows that every line has ended. *)
OnePiece ==
  /\ \A i \in DOMAIN pieces : pieces[i].cmd <= n /\ (pieces[i].cmd = n => pc \notin {"call", "reading", "record"})
  /\ \A i, j \in DOMAIN pieces : pieces[i].cmd = pieces[j].cmd => i = j

Recorded == \A c \in 1..n :
  \/ c \in unrecorded
  \/ c = n /\ pc \in {"call", "reading", "record"}
  \/ \E i \in DOMAIN pieces : /\ pieces[i].cmd = c /\ pieces[i].state = told[c]
                              /\ pieces[i].whole /\ pieces[i].ended

AllEnded == EvidenceValid => \A i \in DOMAIN pieces : pieces[i].ended

(* An action is under way or has an outcome; it is all sections or has none. *)
Running == pc \in {"next", "call", "reading", "record", "return", "raise"}
Idle == /\ outcome # "none" => pc \in {"menu", "connect", "done"}
        /\ Running \/ (pc \in {"menu", "connect"} /\ ~menu) => todo # <<>>
Uniform(steps) == \/ \A i \in DOMAIN steps : steps[i].use = "section"
                  \/ \A i \in DOMAIN steps : steps[i].use # "section"

(* While the session lasts the tablet has not rebooted.                     *)
Heard == pc = "reading" \/ (pc \in {"record", "return"} /\ told[n] # "unknown")
OwnBoot == /\ Heard => conn # "none"
           /\ Heard /\ did[n].status # "no" => did[n].boot # 0 /\ (conn = "open" => did[n].boot = boot)

OneKept == Running /\ Command.use # "section" =>
  \A b \in kept : /\ b # 0 /\ (conn = "open" => b = boot)
                  /\ pc \in {"next", "call"} => conn # "none"
                  /\ Heard /\ did[n].status # "no" => did[n].boot = b
                  /\ \A c \in kept : b = c

Following == Queued /\ Late /\ Spoken /\ Learned /\ Open
Audited   == OnePiece /\ Recorded /\ AllEnded
Booted    == Idle /\ Uniform(todo) /\ OwnBoot /\ OneKept /\ OneBoot
IInv == TypeOK /\ Following /\ Audited /\ Booted

-----------------------------------------------------------------------------
(* The steps of the programs.                                               *)
LEMMA StepsAre == \A s \in Steps : s.skip \in {0, 1} /\ (s.use = "section" <=> s = Section)
BY DEF Steps, Look, Peek, Ask, Section, Until

LEMMA StepsIn == Look \in Steps /\ Peek \in Steps /\ Ask \in Steps /\ Until(0) \in Steps /\ Until(1) \in Steps
                 /\ Section \in Steps
BY Zenon DEF Steps

Plain == {Look, Peek, Ask, Until(0), Until(1)}
LEMMA PlainIs == \A s \in Plain : s \in Steps /\ s.use # "section"
<1>1. Plain \subseteq Steps
  BY Zenon DEF Plain, Steps
<1>2. \A s \in Plain : s.use # "section"
  BY DEF Plain, Look, Peek, Ask, Until
<1>3. QED
  BY <1>1, <1>2

Good(steps) == steps \in Seq(Steps) /\ steps # <<>> /\ Uniform(steps)

LEMMA PlainGood == \A a \in Seq(Plain) : a # <<>> => Good(a)
<1> SUFFICES ASSUME NEW a \in Seq(Plain), a # <<>> PROVE Good(a)
  OBVIOUS
<1>1. a \in Seq(Steps)
  BY PlainIs, SeqMonotonic
<1>2. \A i \in DOMAIN a : a[i] \in Plain
  BY ElementOfSeq, LenProperties
<1>3. Uniform(a)
  BY <1>2, PlainIs DEF Uniform
<1>4. QED
  BY <1>1, <1>3 DEF Good

LEMMA ShortGood ==
  /\ \A s \in Plain : Good(<<s>>)
  /\ \A s, t \in Plain : Good(<<s, t>>)
  /\ \A s, t, u \in Plain : Good(<<s, t, u>>)
  /\ \A s, t, u, v \in Plain : Good(<<s, t, u, v>>)
  /\ \A s, t, u, v, w \in Plain : Good(<<s, t, u, v, w>>)
<1>1. ASSUME NEW s \in Plain PROVE Good(<<s>>)
  <2>1. <<s>> \in Seq(Plain) /\ <<s>> # <<>>
    OBVIOUS
  <2>2. QED
    BY <2>1, PlainGood
<1>2. ASSUME NEW s \in Plain, NEW t \in Plain PROVE Good(<<s, t>>)
  <2>1. <<s, t>> \in Seq(Plain) /\ <<s, t>> # <<>>
    OBVIOUS
  <2>2. QED
    BY <2>1, PlainGood
<1>3. ASSUME NEW s \in Plain, NEW t \in Plain, NEW u \in Plain PROVE Good(<<s, t, u>>)
  <2>1. <<s, t, u>> \in Seq(Plain) /\ <<s, t, u>> # <<>>
    OBVIOUS
  <2>2. QED
    BY <2>1, PlainGood
<1>4. ASSUME NEW s \in Plain, NEW t \in Plain, NEW u \in Plain, NEW v \in Plain PROVE Good(<<s, t, u, v>>)
  <2>1. <<s, t, u, v>> \in Seq(Plain) /\ <<s, t, u, v>> # <<>>
    OBVIOUS
  <2>2. QED
    BY <2>1, PlainGood
<1>5. ASSUME NEW s \in Plain, NEW t \in Plain, NEW u \in Plain, NEW v \in Plain, NEW w \in Plain
      PROVE  Good(<<s, t, u, v, w>>)
  <2>1. <<s, t, u, v, w>> \in Seq(Plain) /\ <<s, t, u, v, w>> # <<>>
    OBVIOUS
  <2>2. QED
    BY <2>1, PlainGood
<1>6. QED
  BY <1>1, <1>2, <1>3, <1>4, <1>5

(* Every action of every program.                                           *)
LEMMA MenuGood == \A a \in MenuActions : Good(a)
<1>1. Look \in Plain /\ Ask \in Plain
  BY Zenon DEF Plain
<1>2. /\ Good(action_kernel_info) /\ Good(action_network_stats) /\ Good(action_backlight_show)
      /\ Good(action_backlight_set) /\ Good(action_rtc_show) /\ Good(action_dmesg_tail)
      /\ Good(action_usb_dmesg) /\ Good(action_bt_dmesg) /\ Good(action_tty_devices) /\ Good(action_bt_status)
  BY Zenon, <1>1, ShortGood DEF action_kernel_info, action_network_stats, action_backlight_show,
     action_backlight_set, action_rtc_show, action_dmesg_tail, action_usb_dmesg, action_bt_dmesg,
     action_tty_devices, action_bt_status
<1>3. /\ Good(action_bt_attach) /\ Good(action_pmu_read) /\ Good(action_charging_observe) /\ Good(action_asp_status)
      /\ Good(action_asp_read_test) /\ Good(action_uptime_mem) /\ Good(action_raw_command)
  BY Zenon, <1>1, ShortGood DEF action_bt_attach, action_pmu_read, action_charging_observe, action_asp_status, Looks,
     action_asp_read_test, action_uptime_mem, action_raw_command
<1>4. Good(collect_snapshot)
  <2>1. Section \in Steps /\ Section.use = "section"
    BY StepsIn DEF Section
  <2>2. collect_snapshot \in Seq(Steps) /\ collect_snapshot # <<>>
    BY <2>1 DEF collect_snapshot
  <2>3. \A i \in DOMAIN collect_snapshot : collect_snapshot[i] = Section
    BY DEF collect_snapshot
  <2>4. QED
    BY <2>1, <2>2, <2>3 DEF Good, Uniform
<1>5. QED
  BY Zenon, <1>2, <1>3, <1>4 DEF MenuActions

FitToRun(p) == p.menu \in BOOLEAN /\ p.evidence \in BOOLEAN /\ \A a \in p.actions : Good(a)

LEMMA ActionsFit ==
  \A actions : (\A a \in actions : Good(a)) =>
    \A lives, writes \in BOOLEAN : FitToRun(Program(actions, lives, writes))
<1> SUFFICES ASSUME NEW actions, \A a \in actions : Good(a), NEW lives \in BOOLEAN, NEW writes \in BOOLEAN
             PROVE  FitToRun(Program(actions, lives, writes))
  OBVIOUS
<1> DEFINE p == Program(actions, lives, writes)
<1>1. p.menu = lives /\ p.evidence = writes /\ p.actions = actions
  BY DEF Program
<1>2. QED
  BY Zenon, <1>1 DEF FitToRun

LEMMA ProgramsGood == \A p \in Programs : FitToRun(p)
<1>1. Peek \in Plain /\ Until(0) \in Plain /\ Until(1) \in Plain
  BY Zenon DEF Plain
<1>2. Good(Peeks) /\ Good(<<Until(0)>>) /\ Good(<<Peek, Until(1), Peek, Until(1), Peek>>)
  BY Zenon, <1>1, ShortGood DEF Peeks
<1>3. <<Until(0)>> \o Peeks \in Seq(Plain) /\ <<Until(0)>> \o Peeks # <<>>
  <2>1. <<Until(0)>> \in Seq(Plain) /\ Len(<<Until(0)>>) = 1
    BY <1>1
  <2>2. Peeks \in Seq(Plain)
    BY <1>1 DEF Peeks
  <2>3. QED
    BY <2>1, <2>2, ConcatProperties, ConcatEqualIffEmpty
<1>4. Good(<<Until(0)>> \o Peeks)
  BY <1>3, PlainGood
<1>5. Good(collect_snapshot)
  BY Zenon, MenuGood DEF MenuActions
<1>6. \A p \in AllPrograms : FitToRun(p)
  BY Zenon, <1>2, <1>4, <1>5, ActionsFit, MenuGood DEF AllPrograms, ipad_console, bt_probe, h1b_run_record,
     h1b_stream, h1b_query, h1b_window_probe, j81_readonly_snapshot
<1>7. QED
  BY Zenon, <1>6, ConsoleAssumption

-----------------------------------------------------------------------------
(* The types, in groups that change together.                               *)
Flags == menu \in BOOLEAN /\ evidence \in BOOLEAN

HostTypes ==
  /\ todo \in Seq(Steps)
  /\ pc \in {"connect", "menu", "next", "call", "reading", "record", "return", "raise", "done"}
  /\ kept \subseteq 0..MaxBoots /\ outcome \in {"none", "finished", "snapshot", "ended"}

SessionTypes == /\ conn \in {"none", "open", "broken"}
                /\ inq \in Seq(0..MaxCommands) /\ out \in Seq(Lines) /\ buf \in Seq(Lines)

CommandTypes == /\ told \in Seq(States) /\ n <= MaxCommands
                /\ did \in Seq(Effects) /\ Len(did) = n /\ left \subseteq 1..n /\ boot \in 1..MaxBoots

RecordTypes == pieces \in Seq(Pieces) /\ unrecorded \subseteq 1..n

LEMMA TypeParts ==
  /\ TypeOK <=> Flags /\ HostTypes /\ SessionTypes /\ CommandTypes /\ RecordTypes
  /\ TypeOK' <=> Flags' /\ HostTypes' /\ SessionTypes' /\ CommandTypes' /\ RecordTypes'
BY Zenon DEF TypeOK, Flags, HostTypes, SessionTypes, CommandTypes, RecordTypes

LEMMA SameTypes ==
  /\ Flags /\ UNCHANGED program => Flags'
  /\ HostTypes /\ UNCHANGED <<todo, pc, kept, outcome>> => HostTypes'
  /\ SessionTypes /\ UNCHANGED session => SessionTypes'
  /\ CommandTypes /\ UNCHANGED <<told, tablet>> => CommandTypes'
  /\ RecordTypes /\ UNCHANGED <<told, records>> => RecordTypes'
<1>1. /\ Flags /\ UNCHANGED program => Flags'
      /\ HostTypes /\ UNCHANGED <<todo, pc, kept, outcome>> => HostTypes'
  BY Zenon DEF Flags, program, HostTypes
<1>2. SessionTypes /\ UNCHANGED session => SessionTypes'
  BY Zenon DEF SessionTypes, session
<1>3. CommandTypes /\ UNCHANGED <<told, tablet>> => CommandTypes'
  BY Zenon DEF CommandTypes, tablet, n
<1>4. RecordTypes /\ UNCHANGED <<told, records>> => RecordTypes'
  BY Zenon DEF RecordTypes, records, n
<1>5. QED
  BY <1>1, <1>2, <1>3, <1>4

LEMMA FlagsStep == ASSUME [Next]_vars PROVE UNCHANGED program
BY DEF Next, Runs, vars, host, program, Connect, Leave, Reconnect, Quit, Choose, Call, Opens, Send, Read, Answered,
       GivesUp, Misread, Unknown, Record, Returns, Raises, Works, WorksLate, Does, NoEcho, Reboot

(* The open command.                                                        *)
LEMMA Numbers ==
  ASSUME TypeOK
  PROVE  /\ n \in 0..MaxCommands /\ DOMAIN told = 1..n /\ DOMAIN did = 1..n
         /\ MaxCommands \in Nat \ {0} /\ MaxBoots \in Nat \ {0}
         /\ \A c \in 1..n : told[c] \in States /\ did[c] \in Effects
<1>1. told \in Seq(States) /\ did \in Seq(Effects) /\ Len(did) = n /\ n <= MaxCommands
  BY DEF TypeOK
<1>2. n \in Nat /\ DOMAIN told = 1..n /\ DOMAIN did = 1..n
  BY <1>1, LenProperties DEF n
<1>3. \A c \in 1..n : told[c] \in States
  BY <1>1, ElementOfSeq DEF n
<1>4. \A c \in 1..n : did[c] \in Effects
  BY <1>1, ElementOfSeq
<1>5. QED
  BY <1>1, <1>2, <1>3, <1>4, ConsoleAssumption

LEMMA Empty == \A S : <<>> \in Seq(S)
BY EmptySeq

LEMMA Banner == Line("banner", 0, "none") \in Lines
BY ConsoleAssumption DEF Line, Lines

LEMMA ConnTypes ==
  ASSUME SessionTypes, Connected \/ Unconnected \/ Closed PROVE SessionTypes'
<1>1. CASE Connected
  <2>1. <<0>> \in Seq(0..MaxCommands) /\ <<Line("banner", 0, "none")>> \in Seq(Lines)
    BY Banner, ConsoleAssumption
  <2>2. conn' = "open" /\ inq' \in {<<>>, <<0>>} /\ out' \in {<<>>, <<Line("banner", 0, "none")>>} /\ buf' = <<>>
    BY <1>1 DEF Connected
  <2>3. QED
    BY Zenon, <2>1, <2>2, Empty DEF SessionTypes
<1>2. CASE Unconnected \/ Closed
  <2>1. conn' \in {"none", "broken"} /\ inq' = <<>> /\ out' = <<>> /\ buf' = <<>>
    BY <1>2 DEF Unconnected, Closed
  <2>2. QED
    BY Zenon, <2>1, Empty DEF SessionTypes
<1>3. QED
  BY <1>1, <1>2

LEMMA ClosedLeft ==
  ASSUME IInv, Closed
  PROVE  /\ \A c \in left' : c \in left \/ (c = n /\ pc = "reading" /\ did[n].status = "no")
         /\ left' \subseteq 1..n
<1>1. TypeOK /\ Queued /\ left \subseteq 1..n /\ inq \in Seq(0..MaxCommands)
  BY DEF IInv, Following, TypeOK
<1>2. ASSUME NEW c \in Range(inq) \ {0}
      PROVE  c = n /\ c \in 1..n /\ pc = "reading" /\ did[n].status = "no"
  <2>1. PICK i \in DOMAIN inq : c = inq[i]
    BY DEF Range
  <2>2. inq[i] # 0 /\ inq[i] \in 0..MaxCommands
    BY <1>1, <2>1, ElementOfSeq, LenProperties
  <2>3. c = n /\ pc = "reading" /\ did[n].status = "no"
    BY <1>1, <2>1, <2>2 DEF Queued
  <2>4. QED
    BY <1>1, <2>1, <2>2, <2>3, Numbers
<1>3. left' = left \cup (Range(inq) \ {0})
  BY DEF Closed
<1>4. QED
  BY <1>1, <1>2, <1>3

LEMMA GoOnTypes ==
  ASSUME NEW steps \in Seq(Steps), GoOn(steps), kept' \subseteq 0..MaxBoots, HostTypes PROVE HostTypes'
<1>1. todo' = steps /\ pc' \in {"menu", "done", "next"} /\ outcome' \in {outcome, "snapshot", "finished"}
  BY DEF GoOn, Stops
<1>2. QED
  BY Zenon, <1>1 DEF HostTypes

LEMMA EndedTypes ==
  ASSUME Ended, kept' \subseteq 0..MaxBoots PROVE HostTypes'
<1>1. todo' = <<>> /\ pc' \in {"menu", "done"} /\ outcome' = "ended"
  BY DEF Ended, Stops
<1>2. QED
  BY Zenon, <1>1, Empty DEF HostTypes

LEMMA IdleTypes ==
  ASSUME IInv, Connect \/ Leave("connect") \/ Leave("done") \/ Choose \/ Opens \/ NoEcho \/ Reboot PROVE TypeOK'
<1> USE TypeParts, SameTypes
<1>1. TypeOK
  BY DEF IInv
<1>2. Flags'
  BY <1>1 DEF Connect, Leave, Choose, Opens, NoEcho, Reboot, host
<1>3. told' = told /\ UNCHANGED records /\ RecordTypes'
  BY <1>1 DEF Connect, Leave, Choose, Opens, NoEcho, Reboot
<1>4. CommandTypes'
  <2>1. did' = did /\ n' = n /\ boot' \in 1..MaxBoots
    <3>1. did' = did /\ (boot' = boot \/ (boot < MaxBoots /\ boot' = boot + 1))
      BY DEF Connect, Leave, Choose, Opens, NoEcho, Reboot, tablet
    <3>2. boot \in 1..MaxBoots /\ MaxBoots \in Nat
      BY <1>1, Numbers DEF CommandTypes
    <3>3. QED
      BY <1>3, <3>1, <3>2 DEF n
  <2>2. left' \subseteq 1..n
    <3>1. left' = left \/ left' = {} \/ Closed
      BY DEF Connect, Connected, Unconnected, Leave, Choose, Opens, NoEcho, Reboot, tablet
    <3>2. QED
      BY <1>1, <3>1, ClosedLeft DEF CommandTypes
  <2>3. QED
    BY Zenon, <1>1, <1>3, <2>1, <2>2 DEF CommandTypes
<1>5. HostTypes'
  <2>1. CASE UNCHANGED <<todo, pc, kept, outcome>>
    BY <1>1, <2>1
  <2>2. CASE UNCHANGED todo /\ UNCHANGED <<kept, outcome>> /\ pc' \in {"menu", "done", "connect"}
    BY Zenon, <1>1, <2>2 DEF HostTypes
  <2>3. CASE Choose
    <3>1. todo' \in Seq(Steps) /\ kept' = {} /\ outcome' = "none" /\ pc' = "next"
      BY <1>1, <2>3, MenuGood DEF Choose, HostTypes, Good
    <3>2. QED
      BY Zenon, <3>1 DEF HostTypes
  <2>4. QED
    BY <2>1, <2>2, <2>3 DEF Connect, Leave, Opens, NoEcho, Reboot, host
<1>6. SessionTypes'
  <2>1. CASE Connected \/ Unconnected \/ Closed
    BY <1>1, <2>1, ConnTypes
  <2>2. CASE Choose
    BY <1>1, <2>2 DEF Choose
  <2>3. CASE NoEcho
    <3>1. inq' \in Seq(0..MaxCommands)
      BY <1>1, <2>3, HeadTailProperties DEF NoEcho, SessionTypes
    <3>2. UNCHANGED <<conn, out, buf>>
      BY <2>3 DEF NoEcho
    <3>3. QED
      BY Zenon, <1>1, <3>1, <3>2 DEF SessionTypes
  <2>4. CASE Reboot
    <3>1. inq' = <<>> /\ UNCHANGED <<out, buf>> /\ conn' \in {"none", "broken"}
      BY <2>4 DEF Reboot
    <3>2. QED
      BY Zenon, <1>1, <3>1, Empty DEF SessionTypes
  <2>5. QED
    BY <2>1, <2>2, <2>3, <2>4 DEF Connect, Leave, Opens
<1>7. QED
  BY <1>2, <1>3, <1>4, <1>5, <1>6

LEMMA CallTypes ==
  ASSUME TypeOK, Call
  PROVE  /\ TypeOK' /\ n' = n + 1 /\ n \in Nat
         /\ \A c \in 1..n : told'[c] = told[c] /\ did'[c] = did[c]
         /\ told'[n + 1] = "sent" /\ did'[n + 1].status = "no"
<1> USE TypeParts, SameTypes
<1>1. /\ told' = Append(told, "sent") /\ did' = Append(did, [status |-> "no", boot |-> 0])
      /\ n < MaxCommands /\ pc' = "call"
      /\ UNCHANGED <<program, todo, kept, outcome, session, left, boot, records>>
  BY DEF Call
<1>2. "sent" \in States /\ [status |-> "no", boot |-> 0] \in Effects
  BY ConsoleAssumption DEF States, Effects
<1>3. /\ told' \in Seq(States) /\ Len(told') = n + 1 /\ told'[n + 1] = "sent"
      /\ \A c \in 1..n : told'[c] = told[c]
  BY <1>1, <1>2, AppendProperties DEF TypeOK, n
<1>4. /\ did' \in Seq(Effects) /\ Len(did') = n + 1 /\ did'[n + 1] = [status |-> "no", boot |-> 0]
      /\ \A c \in 1..n : did'[c] = did[c]
  <2> DEFINE e == [status |-> "no", boot |-> 0]
  <2>1. did \in Seq(Effects) /\ Len(did) = n /\ e \in Effects /\ did' = Append(did, e)
    BY <1>1, <1>2 DEF TypeOK
  <2> HIDE DEF e
  <2>2. /\ did' \in Seq(Effects) /\ Len(did') = Len(did) + 1 /\ did'[Len(did) + 1] = e
        /\ \A c \in 1..Len(did) : did'[c] = did[c]
    BY <2>1, AppendProperties
  <2>3. QED
    BY <2>1, <2>2 DEF e
<1>5. n' = n + 1 /\ n \in Nat
  BY <1>3, Numbers DEF n
<1>6. CommandTypes' /\ unrecorded' \subseteq 1..n'
  <2>1. left \subseteq 1..n /\ unrecorded \subseteq 1..n /\ boot \in 1..MaxBoots
    BY DEF TypeOK
  <2>2. left' \subseteq 1..n' /\ unrecorded' \subseteq 1..n' /\ n' <= MaxCommands /\ boot' = boot
    BY <1>1, <1>5, <2>1, Numbers DEF records
  <2>3. Len(did') = n'
    BY <1>4, <1>5
  <2>4. QED
    BY Zenon, <1>3, <1>4, <2>1, <2>2, <2>3 DEF CommandTypes
<1>7. Flags' /\ SessionTypes'
  BY <1>1
<1>8. HostTypes' /\ RecordTypes'
  BY <1>1, <1>6 DEF HostTypes, RecordTypes, records
<1>9. QED
  BY <1>3, <1>4, <1>5, <1>6, <1>7, <1>8

\* What is there is split where the host stops reading.
LEMMA Received ==
  ASSUME SessionTypes, NEW k \in DOMAIN out
  PROVE  /\ buf \o SubSeq(out, 1, k) \in Seq(Lines) /\ SubSeq(out, k + 1, Len(out)) \in Seq(Lines)
         /\ (buf \o SubSeq(out, 1, k)) \o SubSeq(out, k + 1, Len(out)) = Wire
         /\ Len(buf \o SubSeq(out, 1, k)) = Len(buf) + k
         /\ Len(SubSeq(out, k + 1, Len(out))) = Len(out) - k
<1>1. buf \in Seq(Lines) /\ out \in Seq(Lines) /\ k \in 1..Len(out) /\ Len(out) \in Nat /\ k \in Nat
  BY LenProperties DEF SessionTypes
<1>2. \A i \in 1..Len(out) : out[i] \in Lines
  BY <1>1, ElementOfSeq
<1>3. SubSeq(out, 1, k) \in Seq(Lines) /\ Len(SubSeq(out, 1, k)) = k
  BY <1>1, <1>2, SubSeqProperties
<1>4. SubSeq(out, k + 1, Len(out)) \in Seq(Lines) /\ Len(SubSeq(out, k + 1, Len(out))) = Len(out) - k
  <2>1. \A i \in (k + 1)..Len(out) : out[i] \in Lines
    BY <1>1, <1>2
  <2>2. Len(SubSeq(out, k + 1, Len(out))) = (IF k + 1 <= Len(out) THEN Len(out) - (k + 1) + 1 ELSE 0)
        /\ SubSeq(out, k + 1, Len(out)) \in Seq(Lines)
    BY <1>1, <2>1, SubSeqProperties
  <2>3. QED
    BY <1>1, <2>2
<1>5. SubSeq(out, 1, k) \o SubSeq(out, k + 1, Len(out)) = out
  <2>1. SubSeq(out, 1, k) \o SubSeq(out, k + 1, Len(out)) = SubSeq(out, 1, Len(out))
    <3>1. 1 \in 1..Len(out) + 1 /\ k \in (1 - 1)..Len(out) /\ Len(out) \in k..Len(out)
      BY <1>1
    <3>2. QED
      BY <1>1, <3>1, ConcatAdjacentSubSeq
  <2>2. QED
    BY <1>1, <2>1, SubSeqFull
<1>6. \A s, t \in Seq(Lines) : (buf \o s) \o t = buf \o (s \o t)
  <2>1. \A r, s, t \in Seq(Lines) : (r \o s) \o t = r \o (s \o t)
    BY ConcatAssociative
  <2>2. QED
    BY Zenon, <1>1, <2>1
<1>7. buf \o SubSeq(out, 1, k) \in Seq(Lines) /\ Len(buf \o SubSeq(out, 1, k)) = Len(buf) + k
  BY <1>1, <1>3, ConcatProperties
<1>8. (buf \o SubSeq(out, 1, k)) \o SubSeq(out, k + 1, Len(out)) = Wire
  <2>1. (buf \o SubSeq(out, 1, k)) \o SubSeq(out, k + 1, Len(out))
          = buf \o (SubSeq(out, 1, k) \o SubSeq(out, k + 1, Len(out)))
    BY <1>3, <1>4, <1>6
  <2>2. QED
    BY <1>5, <2>1 DEF Wire
<1>9. QED
  BY Zenon, <1>4, <1>7, <1>8

LEMMA SendTypes == ASSUME IInv, Send PROVE TypeOK'
<1> USE TypeParts, SameTypes
<1>1. TypeOK /\ n \in 0..MaxCommands
  BY Numbers DEF IInv
<1>2. /\ UNCHANGED <<program, todo, kept, outcome, conn, buf, told, tablet, records>> /\ pc' = "reading"
      /\ inq' \in {inq, Append(inq, n)} /\ out' \in {out, Append(out, Line("echo", n, "none"))}
  BY DEF Send
<1>3. inq' \in Seq(0..MaxCommands)
  <2>1. Append(inq, n) \in Seq(0..MaxCommands)
    BY <1>1, AppendProperties DEF SessionTypes
  <2>2. QED
    BY Zenon, <1>1, <1>2, <2>1 DEF SessionTypes
<1>4. out' \in Seq(Lines)
  <2>1. Line("echo", n, "none") \in Lines
    BY <1>1 DEF Line, Lines
  <2>2. Append(out, Line("echo", n, "none")) \in Seq(Lines)
    BY <1>1, <2>1, AppendProperties DEF SessionTypes
  <2>3. QED
    BY Zenon, <1>1, <1>2, <2>2 DEF SessionTypes
<1>5. SessionTypes'
  BY Zenon, <1>1, <1>2, <1>3, <1>4 DEF SessionTypes
<1>6. HostTypes'
  BY Zenon, <1>1, <1>2 DEF HostTypes
<1>7. QED
  BY <1>1, <1>2, <1>5, <1>6

LEMMA ReadTypes == ASSUME TypeOK, Read PROVE TypeOK' /\ Wire' = Wire
<1> USE TypeParts, SameTypes
<1>1. PICK k \in DOMAIN out : buf' = buf \o SubSeq(out, 1, k) /\ out' = SubSeq(out, k + 1, Len(out))
  BY DEF Read
<1>2. /\ buf' \in Seq(Lines) /\ out' \in Seq(Lines) /\ Wire' = Wire
  BY <1>1, Received DEF Wire
<1>3. UNCHANGED <<program, todo, pc, kept, outcome, conn, inq, told, tablet, records>>
  BY DEF Read, host
<1>4. SessionTypes'
  BY Zenon, <1>2, <1>3 DEF SessionTypes
<1>5. QED
  BY <1>2, <1>3, <1>4

\* What run_result takes for its answer: the line i of what is there.
LEMMA Taken ==
  ASSUME TypeOK, NEW k \in DOMAIN out, NEW i \in Trailer(buf \o SubSeq(out, 1, k))
  PROVE  LET lines == buf \o SubSeq(out, 1, k) IN
         /\ i \in DOMAIN Wire /\ i \in 1..Len(lines) /\ Len(lines) <= Len(Wire)
         /\ \A j \in 1..Len(lines) : lines[j] = Wire[j] /\ j \in DOMAIN Wire
         /\ Wire[i].what = "status" /\ Wire[i].cmd = n /\ Wire[i].status \in {"none", "zero", "nonzero"}
         /\ i = Len(Wire) => SubSeq(out, k + 1, Len(out)) = <<>>
<1> DEFINE lines == buf \o SubSeq(out, 1, k)
           rest  == SubSeq(out, k + 1, Len(out))
<1>1. /\ lines \in Seq(Lines) /\ rest \in Seq(Lines) /\ lines \o rest = Wire
      /\ Len(rest) = Len(out) - k /\ out \in Seq(Lines) /\ k \in 1..Len(out) /\ Len(out) \in Nat
  BY TypeParts, Received, LenProperties DEF SessionTypes
<1> HIDE DEF lines, rest
<1>2. /\ Len(lines) \in Nat /\ Len(rest) \in Nat /\ DOMAIN lines = 1..Len(lines)
  BY <1>1, LenProperties
<1>3. /\ Wire \in Seq(Lines) /\ Len(Wire) = Len(lines) + Len(rest)
      /\ \A j \in 1..Len(lines) : Wire[j] = lines[j]
  <2>1. /\ Len(lines \o rest) = Len(lines) + Len(rest) /\ lines \o rest \in Seq(Lines)
        /\ \A j \in 1..(Len(lines) + Len(rest)) : (lines \o rest)[j] = IF j <= Len(lines) THEN lines[j] ELSE rest[j - Len(lines)]
    BY <1>1, ConcatProperties
  <2>2. QED
    BY <1>1, <1>2, <2>1
<1>4. DOMAIN Wire = 1..Len(Wire)
  BY <1>3, LenProperties
<1>5. i \in 1..Len(lines) /\ lines[i].what = "status" /\ lines[i].cmd = n
  BY <1>2 DEF Trailer, lines
<1>6. lines[i].status \in {"none", "zero", "nonzero"}
  <2>1. lines[i] \in Lines
    BY <1>1, <1>5, ElementOfSeq
  <2>2. QED
    BY <2>1 DEF Lines
<1>7. i = Len(Wire) => rest = <<>>
  <2>1. i = Len(Wire) => Len(rest) = 0
    BY <1>2, <1>3, <1>5
  <2>2. QED
    BY <1>1, <2>1, EmptySeq
<1>8. /\ i \in DOMAIN Wire /\ i \in 1..Len(lines) /\ Len(lines) <= Len(Wire)
      /\ \A j \in 1..Len(lines) : lines[j] = Wire[j] /\ j \in DOMAIN Wire
      /\ Wire[i].what = "status" /\ Wire[i].cmd = n /\ Wire[i].status \in {"none", "zero", "nonzero"}
  BY <1>2, <1>3, <1>4, <1>5, <1>6
<1>9. QED
  BY Zenon, <1>7, <1>8 DEF lines, rest

\* The answer is the open command's own, and nothing is left on the session.
LEMMA AnsweredIs ==
  ASSUME IInv, Answered
  PROVE  /\ told' = [told EXCEPT ![n] = did[n].status] /\ did[n].status \in {"zero", "nonzero"} /\ n \in 1..n
         /\ out' = <<>> /\ buf' = <<>> /\ pc' = "record" /\ pc = "reading" /\ n' = n
         /\ UNCHANGED <<program, todo, kept, outcome, conn, inq, tablet, records>>
<1>1. TypeOK /\ Spoken /\ pc = "reading" /\ n \in 1..n
  BY Numbers DEF IInv, Following, Open, Answered
<1>2. PICK k \in DOMAIN out :
        /\ out' = SubSeq(out, k + 1, Len(out))
        /\ \E i \in Trailer(buf \o SubSeq(out, 1, k)) :
             told' = [told EXCEPT ![n] = IF Output(SubSeq(buf \o SubSeq(out, 1, k), 1, i)) = {n}
                                         THEN (buf \o SubSeq(out, 1, k))[i].status ELSE "mixed"]
  BY DEF Answered
<1> DEFINE lines == buf \o SubSeq(out, 1, k)
<1>3. PICK i \in Trailer(lines) :
        told' = [told EXCEPT ![n] = IF Output(SubSeq(lines, 1, i)) = {n} THEN lines[i].status ELSE "mixed"]
  BY <1>2
<1>4. /\ i \in DOMAIN Wire /\ i \in 1..Len(lines) /\ Len(lines) <= Len(Wire)
      /\ \A j \in 1..Len(lines) : lines[j] = Wire[j] /\ j \in DOMAIN Wire
      /\ Wire[i].what = "status" /\ Wire[i].status \in {"none", "zero", "nonzero"}
      /\ i = Len(Wire) => SubSeq(out, k + 1, Len(out)) = <<>>
  BY <1>1, Taken
<1>5. lines \in Seq(Lines) /\ Len(lines) \in Nat
  BY <1>1, TypeParts, Received, LenProperties
<1> HIDE DEF lines
<1>6. /\ i = Len(Wire) /\ i > 1 /\ Wire[i - 1].what = "out" /\ Wire[i].status = did[n].status /\ did[n].status # "no"
  BY <1>1, <1>4 DEF Spoken, Says
<1>7. Output(SubSeq(lines, 1, i)) = {n}
  <2> DEFINE head == SubSeq(lines, 1, i)
  <2>1. \A j \in 1..i : lines[j] \in Lines
    BY <1>4, <1>5, ElementOfSeq
  <2>2. head \in Seq(Lines) /\ Len(head) = i /\ \A j \in 1..i : head[j] = lines[j]
    BY <1>4, <1>5, <2>1, SubSeqProperties
  <2>3. DOMAIN head = 1..i
    BY <2>2, LenProperties
  <2> HIDE DEF head
  <2>4. \A j \in 1..i : head[j] = Wire[j] /\ j \in DOMAIN Wire
    BY <1>4, <1>5, <2>2
  <2>5. \A j \in 1..i : head[j].what = "out" => head[j].cmd = n
    BY <1>1, <2>4 DEF Spoken, Says
  <2>6. i - 1 \in 1..i /\ head[i - 1].what = "out"
    BY <1>4, <1>5, <1>6, <2>4
  <2>7. QED
    BY <2>3, <2>5, <2>6 DEF Output, head
<1>8. told' = [told EXCEPT ![n] = did[n].status] /\ out' = <<>>
  BY <1>2, <1>3, <1>4, <1>6, <1>7
<1>9. did[n].status \in {"zero", "nonzero"}
  <2>1. did[n] \in Effects
    BY <1>1, Numbers
  <2>2. QED
    BY <1>6, <2>1 DEF Effects
<1>10. n' = n
  BY <1>1, <1>8, <1>9, ExceptSeq DEF n, TypeOK, States
<1>11. QED
  BY <1>1, <1>8, <1>9, <1>10 DEF Answered

\* One command's outcome changes.
LEMMA ToldTypes ==
  ASSUME TypeOK, NEW s \in States, told' = [told EXCEPT ![n] = s], n \in 1..n
  PROVE  /\ told' \in Seq(States) /\ n' = n
         /\ \A c \in 1..n : told'[c] = IF c = n THEN s ELSE told[c]
BY ExceptSeq DEF TypeOK, n

LEMMA AnsweredTypes == ASSUME IInv, Answered PROVE TypeOK'
<1> USE TypeParts, SameTypes
<1>1. /\ told' = [told EXCEPT ![n] = did[n].status] /\ did[n].status \in {"zero", "nonzero"} /\ n \in 1..n
      /\ out' = <<>> /\ buf' = <<>> /\ pc' = "record" /\ n' = n /\ TypeOK
      /\ UNCHANGED <<program, todo, kept, outcome, conn, inq, tablet, records>>
  BY AnsweredIs DEF IInv
<1>2. told' \in Seq(States)
  BY <1>1, ToldTypes DEF States
<1>3. CommandTypes' /\ RecordTypes'
  BY Zenon, <1>1, <1>2 DEF CommandTypes, RecordTypes, tablet, records
<1>4. SessionTypes'
  BY Zenon, <1>1, Empty DEF SessionTypes
<1>5. HostTypes'
  BY Zenon, <1>1 DEF HostTypes
<1>6. QED
  BY <1>1, <1>3, <1>4, <1>5

LEMMA GivenUp ==
  ASSUME IInv, GivesUp \/ Misread
  PROVE  /\ told' = [told EXCEPT ![n] = "unknown"] /\ n \in 1..n /\ n' = n
         /\ \A c \in 1..n : told'[c] = IF c = n THEN "unknown" ELSE told[c]
         /\ pc \in {"call", "reading"} /\ pc' = "record" /\ Closed
         /\ UNCHANGED <<program, todo, kept, outcome, did, boot, records>>
<1>1. /\ told' = [told EXCEPT ![n] = "unknown"] /\ pc \in {"call", "reading"} /\ pc' = "record" /\ Closed
      /\ UNCHANGED <<program, todo, kept, outcome, did, boot, records>>
  BY DEF GivesUp, Misread, Unknown
<1>2. n \in 1..n /\ TypeOK
  BY <1>1, Numbers DEF IInv, Following, Open
<1>3. n' = n /\ \A c \in 1..n : told'[c] = IF c = n THEN "unknown" ELSE told[c]
  BY <1>1, <1>2, ToldTypes DEF States
<1>4. QED
  BY <1>1, <1>2, <1>3

LEMMA GivenUpTypes == ASSUME IInv, GivesUp \/ Misread PROVE TypeOK'
<1> USE TypeParts, SameTypes
<1>1. /\ told' = [told EXCEPT ![n] = "unknown"] /\ n \in 1..n /\ n' = n /\ pc' = "record" /\ Closed /\ TypeOK
      /\ UNCHANGED <<program, todo, kept, outcome, did, boot, records>>
  BY GivenUp DEF IInv
<1>2. told' \in Seq(States)
  BY <1>1, ToldTypes DEF States
<1>3. left' \subseteq 1..n
  BY <1>1, ClosedLeft
<1>4. CommandTypes' /\ RecordTypes'
  BY Zenon, <1>1, <1>2, <1>3 DEF CommandTypes, RecordTypes, records
<1>5. HostTypes'
  BY Zenon, <1>1 DEF HostTypes
<1>6. QED
  BY <1>1, <1>4, <1>5, ConnTypes

LEMMA RecordStepTypes == ASSUME IInv, Record PROVE TypeOK'
<1> USE TypeParts, SameTypes
<1>1. TypeOK /\ n \in 1..n /\ n \in 1..MaxCommands /\ told[n] \in States
  BY Numbers DEF IInv, Following, Open, Record
<1>2. \A whole, ended \in BOOLEAN : Piece(whole, ended) \in Pieces
  BY Zenon, <1>1 DEF Piece, Pieces
<1>3. \A p \in Pieces : Append(pieces, p) \in Seq(Pieces)
  BY <1>1, AppendProperties DEF RecordTypes
<1>4. pieces' \in Seq(Pieces)
  BY Zenon, <1>1, <1>2, <1>3 DEF Record, RecordTypes
<1>5. unrecorded' \subseteq 1..n
  BY <1>1 DEF Record, RecordTypes
<1>6. UNCHANGED <<program, todo, kept, outcome, session, told, tablet>> /\ n' = n /\ pc' \in {"return", "raise"}
  BY DEF Record, n
<1>7. HostTypes' /\ RecordTypes'
  BY Zenon, <1>1, <1>4, <1>5, <1>6 DEF HostTypes, RecordTypes
<1>8. QED
  BY <1>1, <1>6, <1>7

LEMMA ReturnTypes == ASSUME IInv, Returns \/ Raises PROVE TypeOK'
<1> USE TypeParts, SameTypes
<1>1. TypeOK /\ todo # <<>> /\ n \in 1..n
  BY Numbers DEF IInv, Following, Open, Booted, Idle, Running, Returns, Raises
<1>2. UNCHANGED <<program, session, told, tablet, records>>
  BY DEF Returns, Raises
<1>3. kept' \subseteq 0..MaxBoots
  <2>1. did[n].boot \in 0..MaxBoots /\ 0 \in 0..MaxBoots
    <3>1. did[n] \in Effects
      BY <1>1, Numbers
    <3>2. QED
      BY <1>1, <3>1, Numbers DEF Effects
  <2>2. kept' \in {kept \cup {0}, kept \cup {did[n].boot}}
    BY DEF Returns, Raises
  <2>3. QED
    BY <1>1, <2>1, <2>2 DEF HostTypes
<1>4. Head(todo) \in Steps /\ Tail(todo) \in Seq(Steps) /\ Len(todo) \in Nat
  BY <1>1, HeadTailProperties, LenProperties DEF HostTypes
<1>5. SubSeq(todo, 2 + Command.skip, Len(todo)) \in Seq(Steps)
  <2>1. Command.skip \in {0, 1}
    BY <1>4, StepsAre DEF Command
  <2>2. \A i \in 1..Len(todo) : todo[i] \in Steps
    BY <1>1, ElementOfSeq DEF HostTypes
  <2>3. \A i \in (2 + Command.skip)..Len(todo) : todo[i] \in Steps
    BY <2>1, <2>2
  <2>4. QED
    BY <1>4, <2>1, <2>3, SubSeqProperties
<1>6. HostTypes'
  <2>1. Ended \/ \E s \in Seq(Steps) : GoOn(s)
    BY Zenon, <1>1, <1>4, <1>5 DEF Returns, Raises, HostTypes
  <2>2. QED
    BY Zenon, <1>1, <1>3, <2>1, GoOnTypes, EndedTypes
<1>7. QED
  BY <1>1, <1>2, <1>6

\* A command happens on the tablet: the open one, or one that was given up.
LEMMA Happening ==
  ASSUME IInv, Works \/ WorksLate
  PROVE  \E c \in 1..n : \E s \in {"zero", "nonzero"} :
           /\ did' = [did EXCEPT ![c] = [status |-> s, boot |-> boot]] /\ did[c].status = "no"
           /\ UNCHANGED <<host, conn, buf, told, boot, records>>
           /\ \/ c \in left /\ told[c] = "unknown" /\ left' = left \ {c} /\ UNCHANGED <<inq, out>>
              \/ /\ c = n /\ pc = "reading" /\ told[c] = "sent" /\ conn = "open" /\ inq # <<>> /\ inq' = <<>>
                 /\ left' = left /\ out' = out \o <<Line("out", c, "none"), Line("status", c, s)>>
<1>1. TypeOK /\ Queued /\ Late /\ Learned /\ Open
  BY DEF IInv, Following
<1>2. left \subseteq 1..n /\ inq \in Seq(0..MaxCommands)
  BY <1>1 DEF TypeOK
<1>3. CASE WorksLate
  BY <1>1, <1>2, <1>3 DEF WorksLate, Does, Late
<1>4. CASE Works
  <2>1. inq # <<>> /\ Head(inq) # 0 /\ Does(Head(inq))
    BY <1>4 DEF Works
  <2>2. Len(inq) \in Nat /\ Len(inq) >= 1 /\ DOMAIN inq = 1..Len(inq) /\ Head(inq) = inq[1]
    BY <1>2, <2>1, LenProperties, EmptySeq
  <2>3. inq[1] = n /\ Len(inq) = 1 /\ pc = "reading" /\ did[n].status = "no" /\ conn = "open"
    BY <1>1, <2>1, <2>2 DEF Queued
  <2>4. n \in 1..n /\ told[n] = "sent" /\ n \notin left
    BY <1>1, <2>3, Numbers DEF Learned, Open, Late
  <2>5. Tail(inq) = <<>>
    <3>1. Len(Tail(inq)) = 0 /\ Tail(inq) \in Seq(0..MaxCommands)
      BY <1>2, <2>1, <2>3, HeadTailProperties
    <3>2. QED
      BY <3>1, EmptySeq
  <2>6. QED
    BY <2>1, <2>2, <2>3, <2>4, <2>5 DEF Does
<1>5. QED
  BY <1>3, <1>4

LEMMA HappeningTypes == ASSUME IInv, Works \/ WorksLate PROVE TypeOK'
<1> USE TypeParts, SameTypes
<1>1. TypeOK
  BY DEF IInv
<1>2. PICK c \in 1..n, s \in {"zero", "nonzero"} :
           /\ did' = [did EXCEPT ![c] = [status |-> s, boot |-> boot]] /\ did[c].status = "no"
           /\ UNCHANGED <<host, conn, buf, told, boot, records>>
           /\ \/ c \in left /\ told[c] = "unknown" /\ left' = left \ {c} /\ UNCHANGED <<inq, out>>
              \/ /\ c = n /\ pc = "reading" /\ told[c] = "sent" /\ conn = "open" /\ inq # <<>> /\ inq' = <<>>
                 /\ left' = left /\ out' = out \o <<Line("out", c, "none"), Line("status", c, s)>>
  BY Happening
<1>3. did' \in Seq(Effects) /\ Len(did') = n
  <2>1. [status |-> s, boot |-> boot] \in Effects /\ c \in 1..Len(did) /\ did \in Seq(Effects) /\ Len(did) = n
    BY <1>1, Numbers DEF CommandTypes, Effects
  <2>2. QED
    BY <1>2, <2>1, ExceptSeq
<1>4. left' \subseteq 1..n /\ n' = n
  BY <1>1, <1>2 DEF CommandTypes, n
<1>5. CommandTypes'
  BY Zenon, <1>1, <1>2, <1>3, <1>4 DEF CommandTypes
<1>6. SessionTypes'
  <2>1. Line("out", c, "none") \in Lines /\ Line("status", c, s) \in Lines
    <3>1. c \in 0..MaxCommands
      BY <1>1, <1>2, Numbers
    <3>2. QED
      BY <3>1 DEF Line, Lines
  <2>2. <<Line("out", c, "none"), Line("status", c, s)>> \in Seq(Lines)
    BY <2>1
  <2>3. out \o <<Line("out", c, "none"), Line("status", c, s)>> \in Seq(Lines)
    BY <1>1, <2>2, ConcatProperties DEF SessionTypes
  <2>4. out' \in Seq(Lines) /\ inq' \in Seq(0..MaxCommands)
    BY Zenon, <1>1, <1>2, <2>3, Empty DEF SessionTypes
  <2>5. QED
    BY Zenon, <1>1, <1>2, <2>4 DEF SessionTypes
<1>7. QED
  BY <1>1, <1>2, <1>5, <1>6 DEF host

LEMMA NextTypes == ASSUME IInv, [Next]_vars PROVE TypeOK'
<1>1. CASE UNCHANGED vars
  BY <1>1, TypeParts, SameTypes DEF IInv, vars, host
<1>2. CASE Next
  <2>1. ASSUME Opens \/ Connect \/ Reconnect \/ Quit \/ Choose \/ NoEcho \/ Reboot PROVE TypeOK'
    BY <2>1, IdleTypes DEF Reconnect, Quit
  <2>2. ASSUME Runs PROVE TypeOK'
    BY <2>1, <2>2, CallTypes, SendTypes, ReadTypes, AnsweredTypes, GivenUpTypes, RecordStepTypes, ReturnTypes
       DEF Runs, IInv
  <2>3. QED
    BY <1>2, <2>1, <2>2, HappeningTypes DEF Next
<1>3. QED
  BY <1>1, <1>2

-----------------------------------------------------------------------------
(* The session.  Between commands the shell has nothing to do and nothing   *)
(* it says is on its way.                                                   *)
LEMMA Silent ==
  ASSUME Queued, Spoken, pc # "reading"
  PROVE  (\A i \in DOMAIN inq : inq[i] = 0) /\ (\A i \in DOMAIN Wire : ~Says(Wire[i]))
BY DEF Queued, Spoken

LEMMA Emptied == <<>> \o <<>> = <<>> /\ DOMAIN <<>> = {}
OBVIOUS

LEMMA ConnSilent ==
  ASSUME Connected \/ Unconnected \/ Closed
  PROVE  (\A i \in DOMAIN inq' : inq'[i] = 0) /\ (\A i \in DOMAIN Wire' : ~Says(Wire'[i]))
<1>1. inq' \in {<<>>, <<0>>} /\ buf' = <<>> /\ out' \in {<<>>, <<Line("banner", 0, "none")>>}
  BY DEF Connected, Unconnected, Closed
<1>2. \A i \in DOMAIN inq' : inq'[i] = 0
  BY <1>1
<1>3. Wire' \in {<<>>, <<Line("banner", 0, "none")>>}
  <2>1. <<>> \o <<Line("banner", 0, "none")>> = <<Line("banner", 0, "none")>>
    BY Banner, ConcatEmptySeq
  <2>2. QED
    BY Zenon, <1>1, <2>1, Emptied DEF Wire
<1>4. \A i \in DOMAIN Wire' : Wire'[i] = Line("banner", 0, "none")
  BY <1>3
<1>5. QED
  BY <1>2, <1>4 DEF Says, Line

\* A step between commands.
LEMMA QuietFollowing ==
  ASSUME IInv, UNCHANGED <<told, did>>, pc \notin {"call", "reading"}, pc' \notin {"call", "reading"},
         \A i \in DOMAIN inq' : inq'[i] = 0, \A i \in DOMAIN Wire' : ~Says(Wire'[i]),
         left' \subseteq left, pc' \in {"record", "return", "raise"} => n > 0
  PROVE  Following'
<1>1. n' = n
  BY DEF n
<1>2. Queued' /\ Spoken'
  BY DEF Queued, Spoken
<1>3. QED
  BY <1>1, <1>2 DEF IInv, Following, Late, Learned, Open

LEMMA BetweenFollowing ==
  ASSUME IInv, Connect \/ Leave("connect") \/ Leave("done") \/ Choose \/ Record \/ Returns \/ Raises PROVE Following'
<1>1. /\ UNCHANGED <<told, did>> /\ pc \notin {"call", "reading"} /\ pc' \notin {"call", "reading"}
      /\ pc' \in {"record", "return", "raise"} => pc \in {"record", "return", "raise"}
  BY DEF Connect, Leave, Choose, Record, Returns, Raises, GoOn, Ended, Stops, tablet
<1>2. UNCHANGED <<session, left>> \/ Connected \/ Unconnected \/ Closed
  BY DEF Connect, Leave, Choose, Record, Returns, Raises, tablet
<1>3. (\A i \in DOMAIN inq' : inq'[i] = 0) /\ (\A i \in DOMAIN Wire' : ~Says(Wire'[i]))
  <2>1. CASE UNCHANGED <<session, left>>
    <3>1. inq' = inq /\ Wire' = Wire
      BY <2>1 DEF session, Wire
    <3>2. QED
      BY <1>1, <3>1, Silent DEF IInv, Following
  <2>2. CASE Connected \/ Unconnected \/ Closed
    BY <2>2, ConnSilent
  <2>3. QED
    BY <1>2, <2>1, <2>2
<1>4. left' \subseteq left
  <2>1. CASE Closed
    BY <1>1, <2>1, ClosedLeft
  <2>2. CASE UNCHANGED left
    BY <2>2
  <2>3. QED
    BY <1>2, <2>1, <2>2 DEF Connected, Unconnected
<1>5. pc' \in {"record", "return", "raise"} => n > 0
  BY <1>1 DEF IInv, Following, Open
<1>6. QED
  BY <1>1, <1>3, <1>4, <1>5, QuietFollowing

LEMMA CallFollowing == ASSUME IInv, Call PROVE Following'
<1>1. /\ n' = n + 1 /\ n \in Nat
      /\ \A c \in 1..n : told'[c] = told[c] /\ did'[c] = did[c]
      /\ told'[n + 1] = "sent" /\ did'[n + 1].status = "no"
  <2>1. TypeOK
    BY DEF IInv
  <2>2. QED
    BY <2>1, CallTypes
<1>2. pc = "next" /\ pc' = "call" /\ inq' = inq /\ Wire' = Wire /\ left' = left /\ left \subseteq 1..n
  <2>1. pc = "next" /\ pc' = "call" /\ UNCHANGED <<inq, buf, out, left>>
    BY DEF Call, session
  <2>2. left \subseteq 1..n
    BY DEF IInv, TypeOK
  <2>3. QED
    BY <2>1, <2>2 DEF Wire
<1>3. Queued' /\ Spoken'
  BY <1>2, Silent DEF IInv, Following, Queued, Spoken
<1>4. Late' /\ Open'
  BY <1>1, <1>2 DEF IInv, Following, Late, Open
<1>5. ASSUME NEW c \in 1..n'
      PROVE  /\ told'[c] = "sent" <=> c = n' /\ pc' \in {"call", "reading"}
             /\ told'[c] \notin {"sent", "unknown"} => told'[c] = did'[c].status /\ told'[c] \in {"zero", "nonzero"}
  <2>1. CASE c = n + 1
    BY <1>1, <1>2, <2>1
  <2>2. CASE c \in 1..n
    BY <1>1, <1>2, <2>2 DEF IInv, Following, Learned
  <2>3. QED
    BY <1>1, <2>1, <2>2
<1>6. QED
  BY <1>3, <1>4, <1>5 DEF Following, Learned

\* A step of the open command that neither answers nor loses it.
LEMMA OpenFollowing ==
  ASSUME IInv, UNCHANGED <<told, did, left>>, pc \in {"call", "reading"}, pc' \in {"call", "reading"},
         pc' = "call" => pc = "call", Queued', Spoken'
  PROVE  Following'
<1>1. n' = n
  BY DEF n
<1>2. QED
  BY <1>1 DEF IInv, Following, Late, Learned, Open

LEMMA SendFollowing == ASSUME IInv, Send PROVE Following'
<1>1. /\ pc = "call" /\ pc' = "reading" /\ UNCHANGED <<conn, buf, told, did, left>>
      /\ inq' \in {inq, Append(inq, n)} /\ (inq' = inq \/ conn = "open")
      /\ out' \in {out, Append(out, Line("echo", n, "none"))}
  BY DEF Send, tablet
<1>2. /\ TypeOK /\ n \in 1..n /\ n \in 0..MaxCommands /\ n' = n /\ did[n].status = "no"
      /\ (\A i \in DOMAIN inq : inq[i] = 0) /\ (\A i \in DOMAIN Wire : ~Says(Wire[i]))
  BY <1>1, Silent, Numbers DEF IInv, Following, Open, n
<1>3. Queued'
  <2>1. CASE inq' = inq
    BY <1>2, <2>1 DEF Queued
  <2>2. CASE inq' = Append(inq, n) /\ conn = "open"
    <3>1. inq \in Seq(0..MaxCommands) /\ Len(inq) \in Nat /\ DOMAIN inq = 1..Len(inq)
      BY <1>2, LenProperties DEF TypeOK
    <3>2. /\ Len(inq') = Len(inq) + 1 /\ inq'[Len(inq) + 1] = n
          /\ \A i \in 1..Len(inq) : inq'[i] = 0
      BY <1>2, <2>2, <3>1, AppendProperties
    <3>3. DOMAIN inq' = 1..(Len(inq) + 1)
      BY <1>2, <2>2, <3>1, AppendProperties
    <3>4. QED
      BY <1>1, <1>2, <2>2, <3>1, <3>2, <3>3 DEF Queued
  <2>3. QED
    BY <1>1, <2>1, <2>2
<1>4. Spoken'
  <2>1. CASE out' = out
    BY <1>1, <1>2, <2>1 DEF Spoken, Wire
  <2>2. CASE out' = Append(out, Line("echo", n, "none"))
    <3>1. Line("echo", n, "none") \in Lines /\ ~Says(Line("echo", n, "none"))
      BY <1>2 DEF Line, Lines, Says
    <3>2. buf \in Seq(Lines) /\ out \in Seq(Lines)
      BY <1>2 DEF TypeOK
    <3>3. Wire' = Append(Wire, Line("echo", n, "none")) /\ Wire \in Seq(Lines)
      <4>1. out' = out \o <<Line("echo", n, "none")>> /\ <<Line("echo", n, "none")>> \in Seq(Lines)
        BY <2>2, <3>1, <3>2, AppendIsConcat
      <4>2. Wire \in Seq(Lines)
        BY <3>2, ConcatProperties DEF Wire
      <4>3. \A s, t \in Seq(Lines) : (buf \o s) \o t = buf \o (s \o t)
        BY <3>2, ConcatAssociative
      <4>4. Wire' = Wire \o <<Line("echo", n, "none")>>
        BY <1>1, <3>2, <4>1, <4>3 DEF Wire
      <4>5. QED
        BY <3>1, <4>2, <4>4, AppendIsConcat
    <3>4. \A i \in DOMAIN Wire' : ~Says(Wire'[i])
      <4>1. \A i \in 1..Len(Wire) : ~Says(Wire[i])
        BY <1>2, <3>3, LenProperties
      <4>2. /\ Len(Wire') = Len(Wire) + 1 /\ Wire'[Len(Wire) + 1] = Line("echo", n, "none")
            /\ \A i \in 1..Len(Wire) : Wire'[i] = Wire[i]
            /\ DOMAIN Wire' = 1..(Len(Wire) + 1) /\ Len(Wire) \in Nat
        BY <3>1, <3>3, AppendProperties, LenProperties
      <4>3. QED
        BY <3>1, <4>1, <4>2
    <3>5. QED
      BY <3>4 DEF Spoken
  <2>3. QED
    BY <1>1, <2>1, <2>2
<1>5. QED
  BY <1>1, <1>3, <1>4, OpenFollowing

LEMMA OpensFollowing == ASSUME IInv, Opens PROVE Following'
<1>1. /\ pc = "call" /\ pc' = "call" /\ UNCHANGED <<told, did, left>> /\ Connected
  BY DEF Opens, host, Connected
<1>2. Queued' /\ Spoken'
  BY <1>1, ConnSilent DEF Queued, Spoken
<1>3. QED
  BY <1>1, <1>2, OpenFollowing

LEMMA ReadFollowing == ASSUME IInv, Read PROVE Following'
<1>1. pc = "reading" /\ UNCHANGED <<pc, conn, inq, told, did, left>> /\ Wire' = Wire /\ n' = n
  BY ReadTypes DEF Read, host, tablet, IInv, n
<1>2. Queued' /\ Spoken'
  BY <1>1 DEF IInv, Following, Queued, Spoken
<1>3. QED
  BY <1>1, <1>2, OpenFollowing

LEMMA AnsweredFollowing == ASSUME IInv, Answered PROVE Following'
<1>1. /\ told' = [told EXCEPT ![n] = did[n].status] /\ did[n].status \in {"zero", "nonzero"} /\ n \in 1..n
      /\ out' = <<>> /\ buf' = <<>> /\ pc' = "record" /\ pc = "reading" /\ n' = n
      /\ UNCHANGED <<inq, did, left>>
  BY AnsweredIs DEF tablet
<1>2. \A c \in 1..n : told'[c] = IF c = n THEN did[n].status ELSE told[c]
  BY <1>1, ToldTypes DEF IInv, States
<1>3. Wire' = <<>>
  BY Zenon, <1>1, Emptied DEF Wire
<1>4. Queued' /\ Spoken'
  BY <1>1, <1>3 DEF IInv, Following, Queued, Spoken
<1>5. Late'
  BY <1>1, <1>2 DEF IInv, Following, Late, TypeOK, Learned
<1>6. Learned' /\ Open'
  BY <1>1, <1>2 DEF IInv, Following, Learned, Open
<1>7. QED
  BY <1>4, <1>5, <1>6 DEF Following

LEMMA GivenUpFollowing == ASSUME IInv, GivesUp \/ Misread PROVE Following'
<1>1. /\ n \in 1..n /\ n' = n /\ \A c \in 1..n : told'[c] = IF c = n THEN "unknown" ELSE told[c]
      /\ pc \in {"call", "reading"} /\ pc' = "record" /\ Closed /\ did' = did
  BY GivenUp
<1>2. Queued' /\ Spoken'
  BY <1>1, ConnSilent DEF Queued, Spoken
<1>3. Late'
  BY <1>1, ClosedLeft DEF IInv, Following, Late
<1>4. Learned' /\ Open'
  BY <1>1 DEF IInv, Following, Learned, Open
<1>5. QED
  BY <1>2, <1>3, <1>4 DEF Following

LEMMA HappeningFollowing == ASSUME IInv, Works \/ WorksLate PROVE Following'
<1>1. PICK c \in 1..n, s \in {"zero", "nonzero"} :
           /\ did' = [did EXCEPT ![c] = [status |-> s, boot |-> boot]] /\ did[c].status = "no"
           /\ UNCHANGED <<host, conn, buf, told, boot, records>>
           /\ \/ c \in left /\ told[c] = "unknown" /\ left' = left \ {c} /\ UNCHANGED <<inq, out>>
              \/ /\ c = n /\ pc = "reading" /\ told[c] = "sent" /\ conn = "open" /\ inq # <<>> /\ inq' = <<>>
                 /\ left' = left /\ out' = out \o <<Line("out", c, "none"), Line("status", c, s)>>
  BY Happening
<1>2. /\ UNCHANGED <<pc, conn, buf, told>> /\ n' = n /\ TypeOK /\ n \in Nat
      /\ \A d \in 1..n : did'[d] = IF d = c THEN [status |-> s, boot |-> boot] ELSE did[d]
      /\ left \subseteq 1..n
  <2>1. UNCHANGED <<pc, conn, buf, told>> /\ n' = n
    BY <1>1 DEF host, n
  <2>2. TypeOK /\ DOMAIN did = 1..n /\ n \in Nat
    BY Numbers DEF IInv
  <2>3. left \subseteq 1..n
    BY <2>2 DEF TypeOK
  <2>4. QED
    BY <1>1, <2>1, <2>2, <2>3
<1>3. Learned' /\ Open'
  BY <1>1, <1>2 DEF IInv, Following, Learned, Open
<1>4. CASE c \in left /\ told[c] = "unknown" /\ left' = left \ {c} /\ UNCHANGED <<inq, out>>
  <2>1. Late'
    BY <1>2, <1>4 DEF IInv, Following, Late
  <2>2. Wire' = Wire /\ inq' = inq
    BY <1>2, <1>4 DEF Wire
  <2>3. pc = "reading" => n \in 1..n /\ c # n /\ did'[n] = did[n]
    BY <1>2, <1>4 DEF IInv, Following, Learned, Open
  <2>4. Queued' /\ Spoken'
    BY <1>2, <2>2, <2>3 DEF IInv, Following, Queued, Spoken
  <2>5. QED
    BY <1>3, <2>1, <2>4 DEF Following
<1>5. CASE /\ c = n /\ pc = "reading" /\ told[c] = "sent" /\ inq' = <<>> /\ left' = left
           /\ out' = out \o <<Line("out", c, "none"), Line("status", c, s)>>
  <2> DEFINE ends == <<Line("out", n, "none"), Line("status", n, s)>>
  <2>1. Late'
    BY <1>2, <1>5 DEF IInv, Following, Late
  <2>2. Queued'
    BY <1>5 DEF Queued
  <2>3. /\ ends \in Seq(Lines) /\ Len(ends) = 2
        /\ ends[1] = Line("out", n, "none") /\ ends[2] = Line("status", n, s)
    <3>1. n \in 0..MaxCommands
      BY <1>2, Numbers
    <3>2. Line("out", n, "none") \in Lines /\ Line("status", n, s) \in Lines
      BY <3>1 DEF Line, Lines
    <3>3. QED
      BY <3>2
  <2> HIDE DEF ends
  <2>4. buf \in Seq(Lines) /\ out \in Seq(Lines)
    BY <1>2 DEF TypeOK
  <2>5. Wire \in Seq(Lines) /\ Len(Wire) \in Nat /\ DOMAIN Wire = 1..Len(Wire)
    BY <2>4, ConcatProperties, LenProperties DEF Wire
  <2>6. Wire' = Wire \o ends
    <3>1. (buf \o out) \o ends = buf \o (out \o ends)
      BY <2>3, <2>4, ConcatAssociative
    <3>2. out' = out \o ends /\ buf' = buf
      BY <1>2, <1>5 DEF ends
    <3>3. QED
      BY <2>3, <2>4, <3>1, <3>2 DEF Wire
  <2>7. /\ Len(Wire') = Len(Wire) + 2 /\ DOMAIN Wire' = 1..(Len(Wire) + 2)
        /\ \A i \in 1..Len(Wire) : Wire'[i] = Wire[i]
        /\ Wire'[Len(Wire) + 1] = Line("out", n, "none") /\ Wire'[Len(Wire) + 2] = Line("status", n, s)
    <3>1. /\ Len(Wire \o ends) = Len(Wire) + 2 /\ Wire \o ends \in Seq(Lines)
          /\ \A i \in 1..(Len(Wire) + 2) : (Wire \o ends)[i] = IF i <= Len(Wire) THEN Wire[i] ELSE ends[i - Len(Wire)]
      <4>1. /\ Len(Wire \o ends) = Len(Wire) + Len(ends) /\ Wire \o ends \in Seq(Lines)
            /\ \A i \in 1..(Len(Wire) + Len(ends)) : (Wire \o ends)[i] = IF i <= Len(Wire) THEN Wire[i] ELSE ends[i - Len(Wire)]
        BY <2>3, <2>5, ConcatProperties
      <4>2. QED
        BY <2>3, <4>1
    <3>2. DOMAIN (Wire \o ends) = 1..(Len(Wire) + 2)
      BY <3>1, LenProperties
    <3>3. QED
      BY <2>3, <2>5, <2>6, <3>1, <3>2
  <2>8. did'[n].status = s /\ n \in 1..n
    BY <1>1, <1>2, <1>5
  <2>9. \A i \in 1..Len(Wire) : Says(Wire[i]) => Wire[i].cmd = n /\ Wire[i].what # "status"
    BY <1>1, <1>5, <2>5 DEF IInv, Following, Spoken
  <2>10. ASSUME NEW i \in DOMAIN Wire', Says(Wire'[i])
         PROVE  /\ Wire'[i].cmd = n
                /\ Wire'[i].what = "status" =>
                     /\ i = Len(Wire') /\ i > 1 /\ Wire'[i - 1].what = "out"
                     /\ Wire'[i].status = did'[n].status /\ did'[n].status # "no"
    <3>1. CASE i \in 1..Len(Wire)
      BY <2>7, <2>9, <2>10, <3>1
    <3>2. CASE i = Len(Wire) + 1
      BY <2>7, <3>2 DEF Line
    <3>3. CASE i = Len(Wire) + 2
      BY <1>1, <2>5, <2>7, <2>8, <3>3 DEF Line
    <3>4. QED
      BY <2>5, <2>7, <3>1, <3>2, <3>3
  <2>11. Spoken'
    BY <1>2, <1>5, <2>10 DEF Spoken
  <2>12. QED
    BY <1>3, <2>1, <2>2, <2>11 DEF Following
<1>6. QED
  BY <1>1, <1>4, <1>5

LEMMA NoEchoFollowing == ASSUME IInv, NoEcho PROVE Following'
<1>1. /\ UNCHANGED <<pc, conn, out, buf, told, did, left>> /\ inq # <<>> /\ inq' = Tail(inq) /\ n' = n
      /\ inq \in Seq(0..MaxCommands)
  <2>1. inq \in Seq(0..MaxCommands)
    BY DEF IInv, TypeOK
  <2>2. QED
    BY <2>1 DEF NoEcho, host, tablet, n
<1>2. /\ Len(inq') = Len(inq) - 1 /\ Len(inq) \in Nat /\ DOMAIN inq = 1..Len(inq)
      /\ DOMAIN inq' = 1..(Len(inq) - 1) /\ \A i \in 1..(Len(inq) - 1) : inq'[i] = inq[i + 1]
  BY <1>1, HeadTailProperties, LenProperties
<1>3. Queued'
  BY <1>1, <1>2 DEF IInv, Following, Queued
<1>4. Spoken' /\ Late' /\ Learned' /\ Open'
  BY <1>1 DEF IInv, Following, Spoken, Wire, Late, Learned, Open
<1>5. QED
  BY <1>3, <1>4 DEF Following

LEMMA RebootFollowing == ASSUME IInv, Reboot PROVE Following'
<1>1. UNCHANGED <<pc, out, buf, told, did>> /\ inq' = <<>> /\ left' = {} /\ n' = n
  BY DEF Reboot, host, n
<1>2. QED
  BY <1>1 DEF IInv, Following, Queued, Spoken, Wire, Late, Learned, Open

LEMMA NextFollowing == ASSUME IInv, [Next]_vars PROVE Following'
<1>1. CASE UNCHANGED vars
  BY <1>1 DEF vars, host, session, tablet, IInv, Following, Queued, Spoken, Wire, Late, Learned, Open, n
<1>2. CASE Next
  <2>1. CASE Runs
    BY <2>1, CallFollowing, OpensFollowing, SendFollowing, ReadFollowing, AnsweredFollowing, GivenUpFollowing,
       BetweenFollowing DEF Runs
  <2>2. CASE Connect \/ Reconnect \/ Quit \/ Choose
    BY <2>2, BetweenFollowing DEF Reconnect, Quit
  <2>3. QED
    BY <1>2, <2>1, <2>2, HappeningFollowing, NoEchoFollowing, RebootFollowing DEF Next
<1>3. QED
  BY <1>1, <1>2

-----------------------------------------------------------------------------
(* The transcript.                                                          *)
Unfinished == {"call", "reading", "record"}

LEMMA SameAudit ==
  ASSUME IInv, UNCHANGED records, n' = n, pc \in Unfinished <=> pc' \in Unfinished,
         \A c \in 1..n : told'[c] = told[c] \/ (c = n /\ pc' = "record")
  PROVE  Audited'
<1>1. pieces' = pieces /\ unrecorded' = unrecorded
  BY DEF records
<1>2. OnePiece'
  BY <1>1 DEF IInv, Audited, OnePiece, Unfinished
<1>3. Recorded'
  <2> SUFFICES ASSUME NEW c \in 1..n
               PROVE  \/ c \in unrecorded
                      \/ c = n /\ pc' \in {"call", "reading", "record"}
                      \/ \E i \in DOMAIN pieces : /\ pieces[i].cmd = c /\ pieces[i].state = told'[c]
                                                  /\ pieces[i].whole /\ pieces[i].ended
    BY <1>1 DEF Recorded
  <2>1. CASE c = n /\ pc' = "record"
    BY <2>1
  <2>2. CASE told'[c] = told[c]
    BY <2>2 DEF IInv, Audited, Recorded, Unfinished
  <2>3. QED
    BY <2>1, <2>2
<1>4. AllEnded'
  BY <1>1 DEF IInv, Audited, AllEnded, EvidenceValid, Decoded, Starts
<1>5. QED
  BY <1>2, <1>3, <1>4 DEF Audited

LEMMA CallAudit == ASSUME IInv, Call PROVE Audited'
<1>1. TypeOK
  BY DEF IInv
<1>2. /\ n' = n + 1 /\ n \in Nat /\ \A c \in 1..n : told'[c] = told[c]
      /\ pc = "next" /\ pc' = "call" /\ pieces' = pieces /\ unrecorded' = unrecorded
  BY <1>1, CallTypes DEF Call, records
<1>3. \A i \in DOMAIN pieces : pieces[i].cmd <= n /\ pieces[i].cmd \in 1..MaxCommands
  <2>1. \A i \in DOMAIN pieces : pieces[i] \in Pieces
    BY <1>1, ElementOfSeq, LenProperties DEF TypeOK
  <2>2. QED
    BY <2>1 DEF Pieces, IInv, Audited, OnePiece
<1>4. OnePiece'
  BY <1>2, <1>3 DEF IInv, Audited, OnePiece
<1>5. Recorded'
  <2> SUFFICES ASSUME NEW c \in 1..n
               PROVE  \/ c \in unrecorded
                      \/ \E i \in DOMAIN pieces : /\ pieces[i].cmd = c /\ pieces[i].state = told'[c]
                                                  /\ pieces[i].whole /\ pieces[i].ended
    BY <1>2 DEF Recorded
  <2>1. QED
    BY <1>2 DEF IInv, Audited, Recorded
<1>6. AllEnded'
  BY <1>2 DEF IInv, Audited, AllEnded, EvidenceValid, Decoded, Starts
<1>7. QED
  BY <1>4, <1>5, <1>6 DEF Audited

\* An audit that accepts one more piece accepted the ones before it.
LEMMA PieceAdded ==
  ASSUME IInv, NEW p \in Pieces, pieces' = Append(pieces, p)
  PROVE  /\ AllEnded'
         /\ DOMAIN pieces' = DOMAIN pieces \cup {Len(pieces) + 1} /\ Len(pieces) + 1 \notin DOMAIN pieces
         /\ pieces'[Len(pieces) + 1] = p /\ \A i \in DOMAIN pieces : pieces'[i] = pieces[i]
<1>1. pieces \in Seq(Pieces)
  BY DEF IInv, TypeOK
<1>2. /\ Len(pieces) \in Nat /\ DOMAIN pieces = 1..Len(pieces)
      /\ Len(pieces') = Len(pieces) + 1 /\ pieces'[Len(pieces) + 1] = p
      /\ \A i \in 1..Len(pieces) : pieces'[i] = pieces[i]
  BY <1>1, AppendProperties, LenProperties
<1>3. DOMAIN pieces' = 1..(Len(pieces) + 1)
  BY <1>1, <1>2, AppendProperties, LenProperties
<1>4. ASSUME EvidenceValid' PROVE \A i \in DOMAIN pieces' : pieces'[i].ended
  <2>1. \A i \in DOMAIN pieces' : Starts(i)' <=> i = 1 \/ pieces'[i - 1].ended
    BY DEF Starts
  <2>2. ASSUME NEW i \in 1..Len(pieces), Starts(i) PROVE i \in Decoded /\ pieces[i].ended
    <3>1. Starts(i)' /\ i \in DOMAIN pieces'
      <4>1. i # 1 => i - 1 \in 1..Len(pieces)
        BY <1>2
      <4>2. i \in DOMAIN pieces' /\ (i # 1 => pieces'[i - 1] = pieces[i - 1])
        BY <1>2, <1>3, <4>1
      <4>3. QED
        BY <2>1, <2>2, <4>2 DEF Starts
    <3>2. i \in Decoded' /\ pieces'[i].ended
      BY <1>4, <3>1 DEF EvidenceValid
    <3>3. pieces'[i] = pieces[i]
      BY <1>2
    <3>4. pieces[i].whole /\ pieces[i].ended
      BY <3>2, <3>3 DEF Decoded
    <3>5. QED
      BY <1>2, <2>2, <3>4 DEF Decoded
  <2>3. EvidenceValid
    BY <1>2, <2>2 DEF EvidenceValid
  <2>4. \A i \in 1..Len(pieces) : pieces[i].ended
    BY <1>2, <2>3 DEF IInv, Audited, AllEnded
  <2>5. pieces'[Len(pieces) + 1].ended
    <3>1. PICK k \in Nat : k = Len(pieces) + 1
      BY <1>2
    <3>2. k \in DOMAIN pieces'
      BY <1>2, <1>3, <3>1
    <3>3. k = 1 \/ pieces'[k - 1].ended
      <4>1. k # 1 => k - 1 \in 1..Len(pieces)
        BY <1>2, <3>1
      <4>2. \A i \in 1..Len(pieces) : pieces'[i].ended
        BY <1>2, <2>4
      <4>3. QED
        BY <4>1, <4>2, Zenon
    <3>4. \A i \in DOMAIN pieces' : (i = 1 \/ pieces'[i - 1].ended) => pieces'[i].ended
      BY <1>4, <2>1 DEF EvidenceValid
    <3>5. pieces'[k].ended
      BY <3>2, <3>3, <3>4, Zenon
    <3>6. QED
      BY <3>1, <3>5, Zenon
  <2>6. QED
    BY <1>2, <1>3, <2>4, <2>5
<1>5. QED
  BY <1>2, <1>3, <1>4 DEF AllEnded

LEMMA RecordAudit == ASSUME IInv, Record PROVE Audited'
<1>1. /\ n' = n /\ told' = told /\ pc = "record" /\ pc' \in {"return", "raise"}
      /\ n \in 1..n /\ n \in 1..MaxCommands /\ told[n] \in States
  <2>1. TypeOK /\ n > 0
    BY DEF IInv, Following, Open, Record
  <2>2. told' = told /\ pc = "record" /\ pc' \in {"return", "raise"}
    BY DEF Record
  <2>3. QED
    BY <2>1, <2>2, Numbers DEF n
<1>2. \A whole, ended \in BOOLEAN : Piece(whole, ended) \in Pieces
  BY Zenon, <1>1 DEF Piece, Pieces
<1>3. CASE pieces' = pieces /\ unrecorded' = unrecorded \cup {n}
  <2>1. OnePiece' /\ Recorded'
    BY <1>1, <1>3 DEF IInv, Audited, OnePiece, Recorded
  <2>2. AllEnded'
    BY <1>3 DEF IInv, Audited, AllEnded, EvidenceValid, Decoded, Starts
  <2>3. QED
    BY <2>1, <2>2 DEF Audited
<1>4. ASSUME NEW p \in Pieces, pieces' = Append(pieces, p), p.cmd = n,
             \/ unrecorded' = unrecorded /\ p.state = told[n] /\ p.whole /\ p.ended
             \/ unrecorded' = unrecorded \cup {n}
      PROVE  Audited'
  <2>1. /\ AllEnded'
        /\ DOMAIN pieces' = DOMAIN pieces \cup {Len(pieces) + 1} /\ Len(pieces) + 1 \notin DOMAIN pieces
        /\ pieces'[Len(pieces) + 1] = p /\ \A i \in DOMAIN pieces : pieces'[i] = pieces[i]
    BY <1>4, PieceAdded
  <2> DEFINE m == Len(pieces) + 1
  <2> HIDE DEF m
  <2>2. /\ DOMAIN pieces' = DOMAIN pieces \cup {m} /\ m \notin DOMAIN pieces
        /\ pieces'[m] = p /\ \A i \in DOMAIN pieces : pieces'[i] = pieces[i]
    BY <2>1 DEF m
  <2>3. \A i \in DOMAIN pieces : pieces[i].cmd <= n /\ pieces[i].cmd # n
    BY <1>1 DEF IInv, Audited, OnePiece
  <2>4. n <= n
    BY <1>1
  <2>5. OnePiece'
    <3>1. ASSUME NEW i \in DOMAIN pieces'
          PROVE  pieces'[i].cmd <= n' /\ (pieces'[i].cmd = n' => pc' \notin {"call", "reading", "record"})
      BY <1>1, <1>4, <2>2, <2>3, <2>4
    <3>2. ASSUME NEW i \in DOMAIN pieces', NEW j \in DOMAIN pieces', pieces'[i].cmd = pieces'[j].cmd PROVE i = j
      BY <1>4, <2>2, <2>3, <3>2 DEF IInv, Audited, OnePiece
    <3>3. QED
      BY <3>1, <3>2 DEF OnePiece
  <2>6. Recorded'
    <3> SUFFICES ASSUME NEW c \in 1..n, c \notin unrecorded'
                 PROVE  \E i \in DOMAIN pieces' : /\ pieces'[i].cmd = c /\ pieces'[i].state = told[c]
                                                  /\ pieces'[i].whole /\ pieces'[i].ended
      BY <1>1 DEF Recorded
    <3>1. CASE c = n
      BY <1>4, <2>2, <3>1
    <3>2. CASE c # n
      <4>1. c \notin unrecorded
        BY <1>4
      <4>2. PICK i \in DOMAIN pieces : /\ pieces[i].cmd = c /\ pieces[i].state = told[c]
                                       /\ pieces[i].whole /\ pieces[i].ended
        BY <1>1, <3>2, <4>1 DEF IInv, Audited, Recorded
      <4>3. QED
        BY <2>2, <4>2
    <3>3. QED
      BY <3>1, <3>2
  <2>7. QED
    BY <2>1, <2>5, <2>6 DEF Audited
<1>5. CASE pieces' = Append(pieces, Piece(TRUE, TRUE)) /\ unrecorded' = unrecorded
  <2>1. Piece(TRUE, TRUE) \in Pieces
    BY Zenon, <1>2
  <2>2. /\ Piece(TRUE, TRUE).cmd = n /\ Piece(TRUE, TRUE).state = told[n]
        /\ Piece(TRUE, TRUE).whole /\ Piece(TRUE, TRUE).ended
    BY DEF Piece
  <2>3. QED
    BY <1>4, <1>5, <2>1, <2>2
<1>6. ASSUME NEW whole \in BOOLEAN, NEW ended \in BOOLEAN,
             pieces' = Append(pieces, Piece(whole, ended)), unrecorded' = unrecorded \cup {n}
      PROVE  Audited'
  <2>1. Piece(whole, ended) \in Pieces
    BY Zenon, <1>2
  <2>2. Piece(whole, ended).cmd = n
    BY DEF Piece
  <2>3. QED
    BY <1>4, <1>6, <2>1, <2>2
<1>7. QED
  BY Zenon, <1>3, <1>5, <1>6 DEF Record

LEMMA NextAudited == ASSUME IInv, [Next]_vars PROVE Audited'
<1>1. CASE Connect \/ Reconnect \/ Quit \/ Choose \/ Returns \/ Raises
  <2>1. /\ told' = told /\ UNCHANGED records /\ n' = n
        /\ pc \notin Unfinished /\ pc' \notin Unfinished
    BY <1>1 DEF Connect, Reconnect, Quit, Leave, Choose, Returns, Raises, GoOn, Ended, Stops, Unfinished, n
  <2>2. QED
    BY <2>1, SameAudit
<1>2. CASE Opens \/ Send \/ Read
  <2>1. /\ told' = told /\ UNCHANGED records /\ n' = n
        /\ pc \in Unfinished /\ pc' \in Unfinished
    BY <1>2 DEF Opens, Send, Read, host, Unfinished, n
  <2>2. QED
    BY <2>1, SameAudit
<1>3. CASE Answered
  <2>1. /\ \A c \in 1..n : told'[c] = told[c] \/ c = n
        /\ n' = n /\ UNCHANGED records /\ pc = "reading" /\ pc' = "record"
    BY <1>3, AnsweredIs, ToldTypes DEF IInv, States
  <2>2. QED
    BY <2>1, SameAudit DEF Unfinished
<1>4. CASE GivesUp \/ Misread
  <2>1. /\ \A c \in 1..n : told'[c] = told[c] \/ c = n
        /\ n' = n /\ UNCHANGED records /\ pc \in {"call", "reading"} /\ pc' = "record"
    BY <1>4, GivenUp
  <2>2. QED
    BY <2>1, SameAudit DEF Unfinished
<1>5. CASE Works \/ WorksLate \/ NoEcho \/ Reboot \/ UNCHANGED vars
  <2>1. told' = told /\ UNCHANGED records /\ n' = n /\ pc' = pc
    BY <1>5 DEF Works, WorksLate, Does, NoEcho, Reboot, vars, host, n
  <2>2. QED
    BY <2>1, SameAudit
<1>6. QED
  BY <1>1, <1>2, <1>3, <1>4, <1>5, CallAudit, RecordAudit DEF Next, Runs

-----------------------------------------------------------------------------
(* The boots.  What is left of an action is of its kind.                    *)
LEMMA PartUniform ==
  ASSUME TypeOK, Uniform(todo), todo # <<>>, NEW m \in Nat \ {0}
  PROVE  /\ Uniform(SubSeq(todo, m, Len(todo)))
         /\ SubSeq(todo, m, Len(todo)) # <<>> =>
              (Head(SubSeq(todo, m, Len(todo))).use = "section" <=> Command.use = "section")
<1> DEFINE part == SubSeq(todo, m, Len(todo))
<1>1. todo \in Seq(Steps) /\ Len(todo) \in Nat /\ DOMAIN todo = 1..Len(todo)
  BY LenProperties DEF TypeOK
<1>2. \A i \in m..Len(todo) : todo[i] \in Steps /\ i \in DOMAIN todo
  BY <1>1, ElementOfSeq
<1>3. /\ part \in Seq(Steps) /\ Len(part) = (IF m <= Len(todo) THEN Len(todo) - m + 1 ELSE 0)
      /\ \A i \in 1..(Len(todo) - m + 1) : part[i] = todo[m + i - 1]
  BY <1>1, <1>2, SubSeqProperties
<1>4. DOMAIN part = 1..Len(part) /\ (part # <<>> => Len(part) # 0)
  BY <1>3, LenProperties, EmptySeq
<1> HIDE DEF part
<1>5. \A i \in DOMAIN part : \E j \in DOMAIN todo : part[i] = todo[j]
  <2>1. ASSUME NEW i \in DOMAIN part PROVE part[i] = todo[m + i - 1] /\ m + i - 1 \in DOMAIN todo
    BY <1>1, <1>3, <1>4
  <2>2. QED
    BY <2>1
<1>6. Uniform(part)
  BY <1>5 DEF Uniform
<1>7. Command = todo[1] /\ 1 \in DOMAIN todo
  <2>1. Len(todo) # 0
    BY <1>1, EmptySeq
  <2>2. QED
    BY <1>1, <2>1 DEF Command
<1>8. part # <<>> => (Head(part).use = "section" <=> Command.use = "section")
  <2> SUFFICES ASSUME part # <<>> PROVE Head(part).use = "section" <=> Command.use = "section"
    OBVIOUS
  <2>1. Head(part) = part[1] /\ 1 \in DOMAIN part
    BY <1>1, <1>3, <1>4
  <2>2. PICK j \in DOMAIN todo : part[1] = todo[j]
    BY <1>5, <2>1
  <2>3. QED
    BY <1>7, <2>1, <2>2 DEF Uniform
<1>9. QED
  BY <1>6, <1>8 DEF part

LEMMA TailIsPart == ASSUME TypeOK, todo # <<>> PROVE Tail(todo) = SubSeq(todo, 2, Len(todo))
BY TailIsSubSeq DEF TypeOK

\* A step with no action under way before or after it, or with the first of one.
LEMMA AsideBooted ==
  ASSUME IInv, Connect \/ Leave("connect") \/ Leave("done") \/ Choose PROVE Booted'
<1>1. CASE Choose
  <2>1. Good(todo')
    <3>1. ~menu => Uniform(todo) /\ todo # <<>> /\ todo \in Seq(Steps)
      BY <1>1 DEF Choose, IInv, Booted, Idle, TypeOK
    <3>2. todo' \in MenuActions \/ (~menu /\ todo' = todo)
      BY <1>1 DEF Choose
    <3>3. QED
      BY <3>1, <3>2, MenuGood DEF Good
  <2>2. kept' = {} /\ outcome' = "none" /\ pc' = "next"
    BY <1>1 DEF Choose
  <2>3. QED
    BY <2>1, <2>2 DEF Booted, Good, Idle, Running, OwnBoot, Heard, OneKept, OneBoot
<1>2. CASE Connect \/ Leave("connect") \/ Leave("done")
  <2>1. /\ UNCHANGED <<menu, todo, kept, outcome>> /\ pc \in {"connect", "menu"} /\ pc' \in {"menu", "connect", "done"}
        /\ pc' \in {"menu", "connect"} /\ ~menu => pc \in {"menu", "connect"}
    BY <1>2 DEF Connect, Leave, program
  <2>2. Idle' /\ Uniform(todo')
    BY <2>1 DEF IInv, Booted, Idle, Running
  <2>3. OwnBoot' /\ OneKept' /\ OneBoot'
    BY <2>1 DEF IInv, Booted, Running, OwnBoot, Heard, OneKept, OneBoot
  <2>4. QED
    BY <2>2, <2>3 DEF Booted
<1>3. QED
  BY <1>1, <1>2

\* A step within an action, which changes neither its steps nor its boots.
LEMMA WithinBooted ==
  ASSUME IInv, UNCHANGED <<menu, todo, kept, outcome>>,
         Running, Running', OwnBoot', OneKept'
  PROVE  Booted'
<1>1. Idle' /\ Uniform(todo)'
  BY DEF IInv, Booted, Idle, Running
<1>2. OneBoot'
  BY DEF IInv, Booted, OneBoot
<1>3. QED
  BY <1>1, <1>2 DEF Booted

LEMMA CommandBooted ==
  ASSUME IInv, Call \/ Opens \/ Send \/ Read \/ Answered \/ GivesUp \/ Misread \/ Record PROVE Booted'
<1>1. /\ UNCHANGED <<menu, todo, kept, outcome, boot>> /\ Running /\ Running' /\ Command' = Command
      /\ UNCHANGED did \/ Call
  BY DEF Call, Opens, Send, Read, Answered, GivesUp, Misread, Unknown, Record, host, program, tablet, Running, Command
<1>2. OwnBoot /\ OneKept /\ Open
  BY DEF IInv, Booted, Following
<1>3. CASE Call
  <2>1. pc = "next" /\ pc' = "call" /\ conn' = conn
    BY <1>3 DEF Call, session
  <2>2. OwnBoot' /\ OneKept'
    BY <1>1, <1>2, <2>1 DEF OwnBoot, OneKept, Heard, Running
  <2>3. QED
    BY <1>1, <2>2, WithinBooted
<1>4. CASE Opens
  <2>1. pc = "call" /\ pc' = "call" /\ conn = "none"
    BY <1>4 DEF Opens, host
  <2>2. OwnBoot' /\ OneKept'
    BY <1>1, <1>2, <2>1 DEF OwnBoot, OneKept, Heard, Running
  <2>3. QED
    BY <1>1, <2>2, WithinBooted
<1>5. CASE Send
  <2>1. pc = "call" /\ pc' = "reading" /\ conn # "none" /\ conn' = conn /\ did' = did /\ n' = n
    BY <1>5 DEF Send, tablet, n
  <2>2. OwnBoot' /\ OneKept'
    BY <1>1, <1>2, <2>1 DEF Open, OwnBoot, OneKept, Heard, Running
  <2>3. QED
    BY <1>1, <2>2, WithinBooted
<1>6. CASE Read \/ Answered \/ Record
  <2>1. conn' = conn /\ did' = did /\ n' = n /\ (Heard' => Heard) /\ pc' \notin {"next", "call"}
    <3>1. CASE Read
      BY <3>1 DEF Read, host, tablet, Heard, n
    <3>2. CASE Answered
      BY <3>2, AnsweredIs DEF tablet, Heard
    <3>3. CASE Record
      BY <3>3 DEF Record, session, tablet, Heard, n
    <3>4. QED
      BY <1>6, <3>1, <3>2, <3>3
  <2>2. OwnBoot' /\ OneKept'
    BY <1>1, <1>2, <2>1 DEF OwnBoot, OneKept
  <2>3. QED
    BY <1>1, <2>2, WithinBooted
<1>7. CASE GivesUp \/ Misread
  <2>1. conn' = "none" /\ ~Heard' /\ pc' = "record"
    BY <1>7, GivenUp DEF Closed, Heard
  <2>2. OwnBoot' /\ OneKept'
    BY <1>1, <1>2, <2>1 DEF OwnBoot, OneKept
  <2>3. QED
    BY <1>1, <2>2, WithinBooted
<1>8. QED
  BY <1>3, <1>4, <1>5, <1>6, <1>7

\* The tablet's steps, whatever the host is doing.
LEMMA TabletBooted ==
  ASSUME IInv, Works \/ WorksLate \/ NoEcho \/ Reboot \/ UNCHANGED vars PROVE Booted'
<1>1. /\ UNCHANGED <<menu, todo, pc, kept, outcome, told>> /\ n' = n /\ Command' = Command
      /\ Running' = Running /\ Heard' = Heard
  BY DEF Works, WorksLate, Does, NoEcho, Reboot, vars, host, program, n, Command, Running, Heard
<1>2. Idle' /\ Uniform(todo)' /\ OneBoot'
  BY <1>1 DEF IInv, Booted, Idle, Uniform, OneBoot
<1>3. OwnBoot /\ OneKept /\ Learned /\ TypeOK /\ Open
  BY DEF IInv, Booted, Following
<1>4. CASE Works \/ WorksLate
  <2>1. PICK c \in 1..n, s \in {"zero", "nonzero"} :
           /\ did' = [did EXCEPT ![c] = [status |-> s, boot |-> boot]] /\ UNCHANGED <<conn, boot>>
           /\ told[c] = "unknown" \/ (c = n /\ pc = "reading" /\ conn = "open")
    BY <1>4, Happening
  <2>2. boot # 0 /\ DOMAIN did = 1..n /\ n \in Nat
    BY <1>3, Numbers DEF TypeOK
  <2>3. Heard => n \in 1..n
    BY <1>3, <2>2 DEF Open, Heard
  <2>4. CASE told[c] = "unknown" /\ Heard
    <3>1. c # n
      BY <1>3, <2>3, <2>4 DEF Heard, Learned
    <3>2. did'[n] = did[n]
      BY <2>1, <2>2, <2>3, <2>4, <3>1
    <3>3. OwnBoot' /\ OneKept'
      BY <1>1, <1>3, <2>1, <3>2 DEF OwnBoot, OneKept
    <3>4. QED
      BY <1>2, <3>3 DEF Booted
  <2>5. CASE c = n /\ pc = "reading" /\ conn = "open"
    <3>1. did'[n].boot = boot
      BY <2>1, <2>2, <2>5
    <3>2. OwnBoot' /\ OneKept'
      BY <1>1, <1>3, <2>1, <2>2, <2>5, <3>1 DEF OwnBoot, OneKept
    <3>3. QED
      BY <1>2, <3>2 DEF Booted
  <2>6. CASE ~Heard
    <3>1. OwnBoot' /\ OneKept'
      BY <1>1, <1>3, <2>1, <2>6 DEF OwnBoot, OneKept
    <3>2. QED
      BY <1>2, <3>1 DEF Booted
  <2>7. QED
    BY <2>1, <2>4, <2>5, <2>6
<1>5. CASE NoEcho \/ UNCHANGED vars
  <2>1. UNCHANGED <<did, conn, boot>>
    BY <1>5 DEF NoEcho, vars, session, tablet
  <2>2. OwnBoot' /\ OneKept'
    BY <1>1, <1>3, <2>1 DEF OwnBoot, OneKept
  <2>3. QED
    BY <1>2, <2>2 DEF Booted
<1>6. CASE Reboot
  <2>1. did' = did /\ conn' # "open" /\ (conn # "none" => conn' # "none")
    BY <1>6 DEF Reboot
  <2>2. OwnBoot' /\ OneKept'
    BY <1>1, <1>3, <2>1 DEF OwnBoot, OneKept
  <2>3. QED
    BY <1>2, <2>2 DEF Booted
<1>7. QED
  BY <1>4, <1>5, <1>6

\* What a returned command leaves: an end of the action, or more of its steps.
LEMMA GoOnBooted ==
  ASSUME IInv, Running, NEW m \in Nat \ {0}, GoOn(SubSeq(todo, m, Len(todo))),
         UNCHANGED <<menu, told, conn, boot>>,
         \/ Command.use = "section"
         \/ \E b : b # 0 /\ kept' = {b} /\ conn # "none" /\ (conn = "open" => b = boot)
  PROVE  Booted'
<1> DEFINE steps == SubSeq(todo, m, Len(todo))
<1>1. /\ TypeOK /\ todo # <<>> /\ Uniform(steps) /\ outcome = "none"
      /\ steps # <<>> => (Head(steps).use = "section" <=> Command.use = "section")
  BY PartUniform DEF IInv, Booted, Idle, Running
<1>2. /\ todo' = steps
      /\ steps = <<>> => /\ pc' = IF menu THEN "menu" ELSE "done"
                         /\ outcome' = IF Command.use = "section" THEN "snapshot" ELSE "finished"
      /\ steps # <<>> => pc' = "next" /\ outcome' = outcome
  BY DEF GoOn, Stops
<1> HIDE DEF steps
<1>3. ~Heard' /\ Uniform(todo') /\ OwnBoot'
  BY <1>1, <1>2 DEF Heard, OwnBoot
<1>4. Idle'
  BY <1>1, <1>2 DEF Idle, Running
<1>5. OneKept'
  BY <1>1, <1>2, <1>3 DEF OneKept, Running, Command
<1>6. OneBoot'
  <2> SUFFICES ASSUME outcome' = "finished" PROVE 0 \notin kept' /\ Cardinality(kept') = 1
    BY DEF OneBoot
  <2>1. PICK b : b # 0 /\ kept' = {b}
    BY <1>1, <1>2
  <2>2. QED
    BY <2>1, FS_Singleton
<1>7. QED
  BY <1>3, <1>4, <1>5, <1>6 DEF Booted

LEMMA EndedBooted == ASSUME IInv, Ended, menu' = menu PROVE Booted'
<1>1. todo' = <<>> /\ outcome' = "ended" /\ pc' = (IF menu THEN "menu" ELSE "done")
  BY DEF Ended, Stops
<1>2. QED
  BY <1>1 DEF Booted, Idle, Running, Uniform, OwnBoot, Heard, OneKept, OneBoot

LEMMA ReturnBooted == ASSUME IInv, Returns PROVE Booted'
<1>1. /\ UNCHANGED <<menu, told, conn, boot>> /\ kept' = kept \cup {did[n].boot}
      /\ pc = "return" /\ told[n] # "unknown"
      /\ \/ Ended
         \/ GoOn(Tail(todo)) \/ GoOn(todo) \/ GoOn(SubSeq(todo, 2 + Command.skip, Len(todo)))
  BY DEF Returns, program, session, tablet
<1>2. TypeOK /\ Running /\ Heard /\ n \in 1..n /\ todo # <<>>
  BY <1>1, Numbers DEF IInv, Following, Open, Booted, Idle, Running, Heard
<1>3. did[n].status # "no"
  BY <1>1, <1>2 DEF IInv, Following, Learned
<1>4. /\ did[n].boot # 0 /\ conn # "none" /\ (conn = "open" => did[n].boot = boot)
      /\ Command.use # "section" => kept' = {did[n].boot}
  BY <1>1, <1>2, <1>3 DEF IInv, Booted, OwnBoot, OneKept
<1>5. Command.use = "section" \/ \E b : b # 0 /\ kept' = {b} /\ conn # "none" /\ (conn = "open" => b = boot)
  BY <1>4
<1>6. todo \in Seq(Steps) /\ Command.skip \in {0, 1}
  <2>1. todo \in Seq(Steps)
    BY <1>2 DEF TypeOK
  <2>2. Command \in Steps
    BY <1>2, <2>1, HeadTailProperties DEF Command
  <2>3. QED
    BY <2>1, <2>2, StepsAre
<1>7. Ended \/ \E m \in Nat \ {0} : GoOn(SubSeq(todo, m, Len(todo)))
  <2>1. Tail(todo) = SubSeq(todo, 2, Len(todo)) /\ todo = SubSeq(todo, 1, Len(todo))
    BY <1>2, <1>6, TailIsPart, SubSeqFull
  <2>2. 1 \in Nat \ {0} /\ 2 \in Nat \ {0} /\ 2 + Command.skip \in Nat \ {0}
    BY <1>6
  <2>3. QED
    BY Zenon, <1>1, <2>1, <2>2
<1>8. QED
  BY <1>1, <1>2, <1>5, <1>7, GoOnBooted, EndedBooted

LEMMA RaiseBooted == ASSUME IInv, Raises PROVE Booted'
<1>1. UNCHANGED <<menu, told, conn, boot>> /\ pc \in {"raise", "return"}
  BY DEF Raises, program, session, tablet
<1>2. Running /\ TypeOK /\ todo # <<>>
  BY <1>1 DEF IInv, Booted, Idle, Running
<1>3. CASE Command.use = "section"
  <2>1. GoOn(SubSeq(todo, 2, Len(todo)))
    BY <1>2, <1>3, TailIsPart DEF Raises
  <2>2. QED
    BY <1>1, <1>2, <1>3, <2>1, GoOnBooted
<1>4. CASE Command.use # "section"
  BY <1>1, <1>4, EndedBooted DEF Raises
<1>5. QED
  BY <1>3, <1>4

LEMMA NextBooted == ASSUME IInv, [Next]_vars PROVE Booted'
BY AsideBooted, CommandBooted, TabletBooted, ReturnBooted, RaiseBooted DEF Next, Runs, Reconnect, Quit

-----------------------------------------------------------------------------
(* Nothing is sent, told or recorded before the first connection.           *)
LEMMA InitIInv == Init => IInv
<1> SUFFICES ASSUME Init PROVE IInv
  OBVIOUS
<1>1. PICK p \in Programs : menu = p.menu /\ evidence = p.evidence /\ todo \in IF p.menu THEN {<<>>} ELSE p.actions
  BY DEF Init
<1>2. /\ pc = "connect" /\ conn = "none" /\ inq = <<>> /\ out = <<>> /\ buf = <<>> /\ told = <<>> /\ did = <<>>
      /\ left = {} /\ boot = 1 /\ kept = {} /\ outcome = "none" /\ pieces = <<>> /\ unrecorded = {}
  BY DEF Init
<1>3. menu \in BOOLEAN /\ evidence \in BOOLEAN /\ (todo = <<>> \/ (~menu /\ Good(todo)))
  <2>1. p.menu \in BOOLEAN /\ p.evidence \in BOOLEAN /\ \A a \in p.actions : Good(a)
    BY ProgramsGood DEF FitToRun
  <2>2. QED
    BY Zenon, <1>1, <2>1
<1>4. todo \in Seq(Steps) /\ Uniform(todo) /\ (~menu => todo # <<>>)
  <2>1. CASE todo = <<>>
    <3>1. menu
      BY <1>1, <2>1, ProgramsGood DEF FitToRun, Good
    <3>2. QED
      BY <2>1, <3>1, Empty, Emptied DEF Uniform
  <2>2. CASE ~menu /\ Good(todo)
    BY <2>2 DEF Good
  <2>3. QED
    BY <1>3, <2>1, <2>2
<1>5. n = 0
  BY <1>2 DEF n
<1>6. TypeOK
  <2>1. HostTypes
    BY Zenon, <1>2, <1>4 DEF HostTypes
  <2>2. SessionTypes
    BY Zenon, <1>2, Empty DEF SessionTypes
  <2>3. Len(did) = n /\ n <= MaxCommands /\ boot \in 1..MaxBoots /\ left \subseteq 1..n /\ unrecorded \subseteq 1..n
    BY <1>2, <1>5, ConsoleAssumption
  <2>4. CommandTypes
    BY Zenon, <1>2, <2>3, Empty DEF CommandTypes
  <2>5. RecordTypes
    BY Zenon, <1>2, <2>3, Empty DEF RecordTypes
  <2>6. QED
    BY Zenon, <1>3, <2>1, <2>2, <2>4, <2>5, TypeParts DEF Flags
<1>7. Following
  <2>1. Wire = <<>> /\ DOMAIN inq = {} /\ DOMAIN Wire = {} /\ 1..n = {}
    BY <1>2, <1>5, Emptied DEF Wire
  <2>2. QED
    BY Zenon, <1>2, <2>1 DEF Following, Queued, Late, Spoken, Learned, Open
<1>8. Audited
  <2>1. DOMAIN pieces = {} /\ 1..n = {}
    BY <1>2, <1>5
  <2>2. QED
    BY Zenon, <2>1 DEF Audited, OnePiece, Recorded, AllEnded
<1>9. Booted
  BY Zenon, <1>2, <1>4 DEF Booted, Idle, OwnBoot, Heard, OneKept, Running, OneBoot
<1>10. QED
  BY <1>6, <1>7, <1>8, <1>9 DEF IInv

(* The invariant holds whatever the session loses and the tablet does.      *)
THEOREM Invariance == Spec => []IInv
<1>1. IInv /\ [Next]_vars => IInv'
  BY Zenon, NextTypes, NextFollowing, NextAudited, NextBooted DEF IInv
<1>2. QED
  BY <1>1, InitIInv, PTL DEF Spec

(* Session, commands, boots and records stay what the programs take them for. *)
THEOREM TypeCorrect == Spec => []TypeOK
<1>1. IInv => TypeOK
  BY DEF IInv
<1>2. QED
  BY <1>1, Invariance, PTL

(* A record that h1b_run_record.py and its like finish is of one boot: a
   reset loses the session, and the lost command ends the record.           *)
THEOREM OneBootTheorem == Spec => []OneBoot
<1>1. IInv => OneBoot
  BY DEF IInv, Booted
<1>2. QED
  BY <1>1, Invariance, PTL

(* audit_session.py accepts no transcript that leaves a command out, has it
   twice or tells another status than the one it had.                       *)
THEOREM AuditTheorem == Spec => []AuditTrue
<1>1. IInv => AuditTrue
  <2> SUFFICES ASSUME IInv, EvidenceValid, NEW c \in 1..n, c \notin unrecorded,
                      ~(c = n /\ pc \in {"call", "reading", "record"})
               PROVE  \E i \in Counted({told[c]}) :
                        /\ pieces[i].cmd = c
                        /\ \A j \in Decoded : pieces[j].cmd = c => j = i
                        /\ told[c] = "unknown" \/ told[c] = did[c].status
    BY DEF AuditTrue
  <2>1. OnePiece /\ Recorded /\ Learned /\ \A i \in DOMAIN pieces : pieces[i].ended
    BY DEF IInv, Audited, Following, AllEnded
  <2>2. PICK i \in DOMAIN pieces : pieces[i].cmd = c /\ pieces[i].state = told[c] /\ pieces[i].whole /\ pieces[i].ended
    BY <2>1 DEF Recorded
  <2>3. DOMAIN pieces = 1..Len(pieces) /\ Len(pieces) \in Nat
    BY LenProperties DEF IInv, TypeOK
  <2>4. Starts(i)
    BY <2>1, <2>3 DEF Starts
  <2>5. i \in Counted({told[c]})
    BY <2>2, <2>4 DEF Counted, Decoded
  <2>6. \A j \in Decoded : pieces[j].cmd = c => j = i
    BY <2>1, <2>2 DEF OnePiece, Decoded
  <2>7. told[c] = "unknown" \/ told[c] = did[c].status
    BY <2>1 DEF Learned
  <2>8. QED
    BY <2>2, <2>5, <2>6, <2>7
<1>2. QED
  BY <1>1, Invariance, PTL

-----------------------------------------------------------------------------
(* run_result keeps its promise: every step issues, answers, loses or does   *)
(* one command of RemoteCommand, or none.                                    *)
Learnt == [c \in 1..MaxCommands |-> IF c <= n THEN told[c] ELSE "new"]
Done   == [c \in 1..MaxCommands |-> IF c <= n THEN did[c].status ELSE "no"]

LEMMA PromiseInit == Init => Promise!Init
<1>1. Init => n = 0 /\ \A c \in 1..MaxCommands : ~(c <= n)
  BY DEF Init, n
<1>2. QED
  BY <1>1 DEF Promise!Init

LEMMA InBounds ==
  ASSUME IInv
  PROVE  /\ n \in 0..MaxCommands /\ MaxCommands \in Nat /\ TypeOK
         /\ \A c \in 1..MaxCommands : c <= n => c \in 1..n
         /\ \A c \in 1..n : c \in 1..MaxCommands /\ c <= n
BY Numbers DEF IInv

LEMMA Stutters ==
  ASSUME IInv, n' = n, \A c \in 1..n : told'[c] = told[c] /\ did'[c].status = did[c].status
  PROVE  UNCHANGED Promise!vars
<1>1. Learnt' = Learnt /\ Done' = Done
  BY InBounds DEF Learnt, Done
<1>2. QED
  BY <1>1 DEF Promise!vars, Learnt, Done

LEMMA Issues == ASSUME IInv, Call PROVE \E c \in 1..MaxCommands : Promise!Issue(c)
<1>1. /\ n' = n + 1 /\ n \in Nat /\ \A c \in 1..n : told'[c] = told[c] /\ did'[c] = did[c]
      /\ told'[n + 1] = "sent" /\ did'[n + 1].status = "no"
  BY CallTypes, InBounds
<1>2. n < MaxCommands /\ pc = "next" /\ Learned
  BY DEF Call, IInv, Following
<1>3. \A c \in 1..n : told[c] # "sent"
  BY <1>2 DEF Learned
<1>4. Learnt[n + 1] = "new" /\ \A c \in 1..MaxCommands : Learnt[c] # "sent"
  BY <1>1, <1>2, <1>3, InBounds DEF Learnt
<1>5. Learnt' = [Learnt EXCEPT ![n + 1] = "sent"]
  <2>1. ASSUME NEW c \in 1..MaxCommands
        PROVE  (IF c <= n' THEN told'[c] ELSE "new") = IF c = n + 1 THEN "sent" ELSE Learnt[c]
    <3>1. c = n + 1 \/ c \in 1..n \/ (~(c <= n + 1) /\ ~(c <= n))
      BY <1>1, InBounds
    <3>2. QED
      BY <1>1, <3>1, InBounds DEF Learnt
  <2>2. Learnt' = [c \in 1..MaxCommands |-> IF c <= n' THEN told'[c] ELSE "new"]
    BY DEF Learnt
  <2>3. QED
    BY <2>1, <2>2 DEF Learnt
<1>6. Done' = Done
  BY <1>1, <1>2, InBounds DEF Done
<1>7. PICK c \in 1..MaxCommands : c = n + 1
  BY <1>1, <1>2, InBounds
<1>8. Promise!Issue(c)
  BY <1>4, <1>5, <1>6, <1>7 DEF Promise!Issue, Learnt, Done
<1>9. QED
  BY <1>8

LEMMA Answers == ASSUME IInv, Answered PROVE \E c \in 1..MaxCommands : Promise!Answer(c)
<1>1. /\ told' = [told EXCEPT ![n] = did[n].status] /\ did[n].status \in {"zero", "nonzero"} /\ n \in 1..n
      /\ pc = "reading" /\ n' = n /\ did' = did
  BY AnsweredIs DEF tablet
<1>2. told[n] = "sent"
  BY <1>1 DEF IInv, Following, Learned
<1>3. \A c \in 1..n : told'[c] = IF c = n THEN did[n].status ELSE told[c]
  BY <1>1, InBounds, ToldTypes DEF States
<1>4. Learnt[n] = "sent" /\ Done[n] = did[n].status
  BY <1>1, <1>2, InBounds DEF Learnt, Done
<1>5. Learnt' = [Learnt EXCEPT ![n] = Done[n]]
  BY <1>1, <1>3, <1>4, InBounds DEF Learnt
<1>6. Done' = Done
  BY <1>1, InBounds DEF Done
<1>7. PICK c \in 1..MaxCommands : c = n
  BY <1>1, InBounds
<1>8. Promise!Answer(c)
  BY <1>1, <1>4, <1>5, <1>6, <1>7 DEF Promise!Answer, Learnt, Done
<1>9. QED
  BY <1>8

LEMMA Loses == ASSUME IInv, GivesUp \/ Misread PROVE \E c \in 1..MaxCommands : Promise!Lose(c)
<1>1. /\ n \in 1..n /\ n' = n /\ \A c \in 1..n : told'[c] = IF c = n THEN "unknown" ELSE told[c]
      /\ pc \in {"call", "reading"} /\ did' = did
  BY GivenUp
<1>2. told[n] = "sent"
  BY <1>1 DEF IInv, Following, Learned
<1>3. Learnt[n] = "sent"
  BY <1>1, <1>2, InBounds DEF Learnt
<1>4. Learnt' = [Learnt EXCEPT ![n] = "unknown"]
  BY <1>1, InBounds DEF Learnt
<1>5. Done' = Done
  BY <1>1, InBounds DEF Done
<1>6. PICK c \in 1..MaxCommands : c = n
  BY <1>1, InBounds
<1>7. Promise!Lose(c)
  BY <1>3, <1>4, <1>5, <1>6 DEF Promise!Lose, Learnt, Done
<1>8. QED
  BY <1>7

LEMMA Occurs == ASSUME IInv, Works \/ WorksLate PROVE \E c \in 1..MaxCommands : Promise!Happens(c)
<1>1. PICK c \in 1..n : \E s \in {"zero", "nonzero"} :
        /\ did' = [did EXCEPT ![c] = [status |-> s, boot |-> boot]] /\ did[c].status = "no"
        /\ told' = told /\ told[c] \in {"sent", "unknown"}
  BY Happening
<1>2. PICK s \in {"zero", "nonzero"} : did' = [did EXCEPT ![c] = [status |-> s, boot |-> boot]]
  BY <1>1
<1>3. n' = n /\ \A d \in 1..n : did'[d].status = IF d = c THEN s ELSE did[d].status
  BY <1>1, <1>2, InBounds, Numbers DEF n
<1>4. Learnt[c] \in {"sent", "unknown"} /\ Done[c] = "no" /\ c \in 1..MaxCommands
  BY <1>1, InBounds DEF Learnt, Done
<1>5. Learnt' = Learnt
  BY <1>1, <1>3, InBounds DEF Learnt
<1>6. Done' = [Done EXCEPT ![c] = s]
  BY <1>3, <1>4, InBounds DEF Done
<1>7. Promise!Happens(c)
  BY <1>4, <1>5, <1>6 DEF Promise!Happens, Promise!Status, Learnt, Done
<1>8. QED
  BY <1>4, <1>7

LEMMA PromiseStep == ASSUME IInv, [Next]_vars PROVE Promise!Next \/ UNCHANGED Promise!vars
<1>1. CASE Call \/ Answered \/ GivesUp \/ Misread \/ Works \/ WorksLate
  <2>1. CASE Call
    BY Zenon, <2>1, Issues DEF Promise!Next
  <2>2. CASE Answered
    BY Zenon, <2>2, Answers DEF Promise!Next
  <2>3. CASE GivesUp \/ Misread
    BY Zenon, <2>3, Loses DEF Promise!Next
  <2>4. CASE Works \/ WorksLate
    BY Zenon, <2>4, Occurs DEF Promise!Next
  <2>5. QED
    BY <1>1, <2>1, <2>2, <2>3, <2>4
<1>2. CASE ~(Call \/ Answered \/ GivesUp \/ Misread \/ Works \/ WorksLate)
  <2>1. told' = told /\ did' = did
    BY <1>2 DEF Next, Runs, vars, tablet, Connect, Reconnect, Quit, Leave, Choose, Opens, Send, Read, Record, Returns,
                Raises, NoEcho, Reboot
  <2>2. QED
    BY <2>1, Stutters DEF n
<1>3. QED
  BY <1>1, <1>2

(* "Return output and POSIX shell status; never replay a command"
   (run_result): a command happens at most once, whatever session it was sent
   on, and the caller learns its own status or that nobody knows.            *)
THEOREM PromiseKept == Spec => KeepsPromise
<1>1. IInv /\ [Next]_vars => [Promise!Next]_(Promise!vars)
  BY PromiseStep
<1>2. QED
  BY <1>1, PromiseInit, Invariance, PTL DEF Spec, KeepsPromise, Promise!Spec
=============================================================================
