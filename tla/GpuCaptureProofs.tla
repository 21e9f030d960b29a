-------------------------- MODULE GpuCaptureProofs --------------------------
(***************************************************************************)
(* The safety properties of GpuCapture for every choice of the scripts,    *)
(* every number of polls and of runs.  For the programs that ask before an *)
(* access the argument has four parts: what is on the session at each      *)
(* place of the program (Link), what the marks of this boot keep from      *)
(* being made again (Marked), what has been made and found right           *)
(* (Progress), and who is in the way of the next access once a result was  *)
(* wrong (Halted).  The program that asks for nothing has an invariant of  *)
(* its own (StreamInv): what it read is what it carries to the script, and *)
(* a wrong reading is still on its way when its last line is.              *)
(***************************************************************************)
EXTENDS GpuCapture, SequenceTheorems, TLAPS

Got == {"right", "wrong", "busy"}

Tablets == {"off", "asking", "announce", "waiting", "hung", "finish", "disarm", "stuck", "exited"} \cup Got

Lines == {"open", "armed", "before", "after", "finished", "disarmed"} \X (0..N) \X Got
Words == {"arm", "go", "feed"} \X (0..N)

TypeOK ==
  /\ script \in Scripts /\ guarded \in script.supervised
  /\ host \in {"idle", "run", "ok", "failed", "stalled"} /\ conn \in BOOLEAN
  /\ at \in {"idle", "open", "armed", "before", "after", "finished", "disarmed"} \X (0..N)
  /\ net \in Seq(Lines) /\ acks \in Seq(Words)
  /\ tablet \in Tablets /\ k \in 1..N + 1 /\ tries \in Nat
  /\ once \in BOOLEAN /\ wd \in {"off", "armed"}
  /\ made \in Seq(1..N) /\ right \subseteq 1..N /\ wrong \in BOOLEAN

-----------------------------------------------------------------------------
(* The session.  The script has heard of everything, or its next line is   *)
(* the armed line, or a result the program did not wait to be fed for.     *)
Announced == Line("before", k, "right")
Ended     == Line("finished", 0, "right")
Awaited   == IF k <= N THEN <<"before", k>> ELSE <<"finished", 0>>
After(g)  == Line("after", k, g)

Unread == IF tries > 0 THEN k ELSE k - 1

Lagging(g) == ~guarded /\ Unread >= 1 /\ (g = "busy" <=> tries > 0)

Trail(rest) ==
  \/ at = Awaited /\ net = rest
  \/ guarded /\ k = 1 /\ at = <<"armed", 0>> /\ net = <<Line("armed", 0, "right")>> \o rest
  \/ \E g \in Got : /\ Lagging(g) /\ at = <<"after", Unread>>
                    /\ net = <<Line("after", Unread, g)>> \o rest

Live == host = "run" /\ conn

(* The places of the program where the script may lag behind, with the
   line it has said since.                                                  *)
Said(rest) ==
  \/ tablet \in {"announce", "finish", "stuck"} /\ rest = <<>>
  \/ tablet = "waiting" /\ acks = <<>> /\ rest = <<Announced>>
  \/ tablet = "exited" /\ ~guarded /\ rest = <<>>
  \/ tablet = "exited" /\ ~guarded /\ rest = <<Ended>> /\ k = N + 1 /\ script.ends = "finished"

Goes == \E rest \in {<<>>, <<Announced>>, <<Ended>>} : Said(rest) /\ Trail(rest)

Asks == /\ tablet = "asking"
        /\ \/ at = <<"open", 0>> /\ net = <<Line("open", 0, "right")>> /\ acks = <<>>
           \/ at = <<"armed", 0>> /\ net = <<>> /\ acks = <<<<"arm", 0>>>>

Allowed  == tablet = "waiting" /\ acks = <<<<"go", k>>>> /\ net = <<>> /\ at = <<"after", k>>
Lost     == tablet = "hung" /\ net = <<>> /\ at = <<"after", k>>
Reported == tablet \in Got /\ acks = <<>> /\ net = <<After(tablet)>> /\ at = <<"after", k>>

Onward == IF tablet = "busy" THEN <<"before", k>>
          ELSE IF k < N THEN <<"before", k + 1>> ELSE <<"finished", 0>>

Passing == /\ tablet \in Got /\ net = <<>> /\ at = Onward
           /\ acks = IF guarded THEN <<<<"feed", k>>>> ELSE <<>>

Closing == /\ tablet \in {"disarm", "stuck"} /\ guarded
           /\ \/ at = <<"finished", 0>> /\ net = <<Ended>>
              \/ at = <<"disarmed", 0>> /\ net = <<>>

Closed == /\ tablet = "exited" /\ guarded
          /\ \/ at = <<"armed", 0>> /\ net = <<>>
             \/ /\ k = N + 1 /\ script.ends = "finished"
                /\ \/ at = <<"finished", 0>> /\ net = <<Ended, Line("disarmed", 0, "right")>>
                   \/ at = <<"disarmed", 0>> /\ net = <<Line("disarmed", 0, "right")>>

Link == Goes \/ Asks \/ Allowed \/ Lost \/ Reported \/ Passing \/ Closing \/ Closed

(* The words to the program are the one it waits for, or none.              *)
Spoken ==
  /\ tablet = "asking"         => acks \in {<<>>, <<<<"arm", 0>>>>}
  /\ tablet = "waiting"        => acks \in {<<>>, <<<<"go", k>>>>}
  /\ tablet \in Got /\ guarded => acks \in {<<>>, <<<<"feed", k>>>>}
  /\ \/ tablet \notin {"asking", "waiting"} \cup Got
     \/ tablet \in Got /\ ~guarded
     => acks = <<>>

(* Outside of a session nothing is on its way; a session that is broken
   while the script still runs is one of before the reboot.                 *)
Down ==
  /\ ~conn => net = <<>>
  /\ host = "run" /\ ~conn => tablet = "off"
  /\ host \in {"idle", "failed", "stalled"} => ~conn
  /\ tablet = "off" => made = <<>> /\ right = {} /\ ~wrong /\ acks = <<>> /\ ~conn

(* Where the program can be.                                                *)
Places ==
  /\ tablet \in {"waiting", "hung"} \cup Got => k <= N
  /\ tablet = "announce" => k <= N
  /\ tablet \in {"finish", "disarm"} => k = N + 1
  /\ tablet \in {"asking", "disarm", "stuck"} => guarded
  /\ tablet = "asking" => k = 1
  /\ tablet = "asking" => tries = 0
  /\ tablet = "disarm" => script.ends = "finished"
  /\ tablet \in {"finish", "disarm"} => tries = 0
  /\ tries > 0 /\ tablet # "off" => k <= N /\ Plan[k].poll
  /\ tablet = "busy" => Plan[k].poll

(* The watchdog is armed from Arms to Disarms or the reset.                 *)
Watched == wd = IF guarded /\ tablet \notin {"off", "asking", "exited"} THEN "armed" ELSE "off"

(* A second write is kept off by the mark: the program that looks for it
   is still before the place where it looks, or the device has it.          *)
Passed(p) == k > p \/ (k = p /\ (tablet # "announce" \/ tries > 0))

Active == tablet \in {"announce", "waiting"} \cup Got

Marked ==
  /\ tablet # "hung" => \A n \in 1..Len(made) : Plan[made[n]].write => once
  /\ Active => \A p \in 1..N : script.mark = Program(p) /\ Passed(p) => once
  /\ Active =>
       \A n \in 1..Len(made) : Plan[made[n]].write =>
         \/ made[n] < k
         \/ made[n] = k /\ tablet \in Got
         \/ \E p \in 1..N : script.mark = Program(p) /\ ~Passed(p)
         \/ script.mark = Device(made[n])
  /\ NothingTwice

(* What is done of the plan.                                                *)
AllRight(m) == 1..m \subseteq Range(made) /\ \A i \in 1..m : Plan[i].judges # {} => i \in right

Progress ==
  ~wrong /\ tablet # "off" =>
            /\ AllRight(k - 1)
            /\ tablet \in {"right", "wrong"} => AllRight(k)

(* A wrong result: the script does not pass it, or the program will not or
   did not go on.                                                           *)
Unpassed == /\ net # <<>> /\ at[1] = "after" /\ Head(net) = Line("after", at[2], "wrong")
            /\ "host" \in Plan[at[2]].judges

Halted ==
  wrong => /\ host # "ok"
           /\ \/ tablet \in {"wrong", "exited", "stuck"}
              \/ ~guarded /\ tablet \in {"announce", "waiting", "finish"} /\ acks = <<>>
           /\ guarded /\ tablet = "wrong" /\ acks # <<>> => "program" \in Plan[k].judges
           /\ Live => \/ Unpassed
                      \/ guarded /\ tablet = "wrong" /\ "program" \in Plan[k].judges
                      \/ guarded /\ tablet = "stuck" /\ net = <<>>

(* What the script's verdicts rest on.                                      *)
Verdicts ==
  /\ host = "ok" =>
       /\ ~wrong /\ AllRight(N) /\ net = <<>> /\ acks = <<>>
       /\ tablet \in {"right", "wrong", "finish", "exited"}
       /\ tablet # "exited" => ~guarded /\ script.ends = "result"
       /\ tablet \in {"right", "wrong"} => k = N
  /\ host = "stalled" =>
       /\ guarded /\ script.ends = "stall"
       /\ tablet \notin {"asking", "exited"}

IInv == /\ script.asks
        /\ TypeOK /\ Spoken /\ Down /\ Places /\ Watched /\ Marked /\ Progress /\ Halted /\ Verdicts
        /\ Live => Link

-----------------------------------------------------------------------------
(* What the plans are plans of.                                             *)
Sets == (SUBSET {"host", "program"}) \cup {Bits}
Reads == [judges : Sets, write : {FALSE}, poll : {FALSE}]
Kinds == Reads \cup {Write, Power, Poll}

Judged(plan) == \A i \in 1..Len(plan) : plan[i].judges = {} \/ "host" \in plan[i].judges

Sealed(s) ==
  \/ \A i \in 1..Len(s.plan) : ~s.plan[i].write
  \/ \E p \in 1..Len(s.plan) :
       \/ s.mark = Program(p) /\ \A i \in 1..p - 1 : ~s.plan[i].write
       \/ s.mark = Device(p) /\ \A i \in 1..Len(s.plan) : s.plan[i].write => i = p

(* A program that asks for nothing has nothing to write, no watchdog and no
   mark, and every reading of it is judged by the script.                   *)
Streams(s) ==
  /\ s.supervised = {FALSE} /\ s.ends = "finished" /\ s.mark = Nobody
  /\ \A i \in 1..Len(s.plan) : s.plan[i] = Read(Host)

Sound(s) ==
  /\ s.plan \in Seq(Kinds) /\ s.supervised \subseteq BOOLEAN
  /\ s.ends \in {"finished", "result", "stall"}
  /\ Len(s.plan) > 0
  /\ TRUE \in s.supervised => s.ends # "result"
  /\ FALSE \in s.supervised => s.ends # "stall" /\ Judged(s.plan)
  /\ ~s.asks => Streams(s)
  /\ \A p \in 1..Len(s.plan) : s.mark = Device(p) => "host" \in s.plan[p].judges
  /\ Sealed(s)

LEMMA ScriptsSound == \A s \in AllScripts : Sound(s)
<1> USE DEF Sound, Sealed, Judged, Streams, Kinds, Reads, Sets, Capture, Read, Host, Both, Bits, Write, Power, Poll, Nobody, Program, Device
<1>1. Sound(gpu_bridge_first)
  BY DEF gpu_bridge_first
<1>2. Sound(gpu_bridge_segment)
  BY DEF gpu_bridge_segment
<1>3. Sound(gpu_bridge_peek)
  BY DEF gpu_bridge_peek
<1>4. Sound(gpu_bridge_postgpc)
  BY DEF gpu_bridge_postgpc
<1>5. Sound(gpu_core_revision)
  BY DEF gpu_core_revision
<1>6. Sound(gpu_fender_status)
  <2>1. /\ Len(gpu_fender_status.plan) = 3 /\ gpu_fender_status.plan \in Seq(Kinds)
        /\ \A i \in 1..3 : gpu_fender_status.plan[i] = Read(Host)
        /\ gpu_fender_status.supervised = {FALSE} /\ gpu_fender_status.ends = "finished"
        /\ gpu_fender_status.mark = Nobody
    BY DEF gpu_fender_status
  <2>2. Judged(gpu_fender_status.plan) /\ Sealed(gpu_fender_status) /\ Streams(gpu_fender_status)
    BY <2>1
  <2> HIDE DEF Judged, Sealed, Streams, Kinds, Nobody, Read
  <2>3. \A p : Nobody # Device(p)
    BY DEF Nobody
  <2>4. QED
    BY <2>1, <2>2, <2>3
<1>7. Sound(gpu_fender_wake)
  BY DEF gpu_fender_wake
<1>8. Sound(gpu_gpc)
  BY DEF gpu_gpc
<1>9. Sound(gpu_gpc_state_only)
  BY DEF gpu_gpc_state_only
<1>10. Sound(gpu_gpc_init)
  BY DEF gpu_gpc_init
<1>11. Sound(gpu_id)
  BY DEF gpu_id
<1>12. Sound(gpu_pmgr)
  BY DEF gpu_pmgr
<1>13. Sound(gpu_pmgr_cycle)
  BY DEF gpu_pmgr_cycle
<1>14. Sound(gpu_power)
  <2>1. /\ 2 \in 1..Len(gpu_power.plan) /\ gpu_power.mark = Device(2)
        /\ \A i \in 1..Len(gpu_power.plan) : gpu_power.plan[i].write => i = 2
    BY DEF gpu_power
  <2> HIDE DEF Sealed
  <2>2. Sound(gpu_power) <=> Sealed(gpu_power)
    BY DEF gpu_power
  <2> HIDE DEF Sound, Power, Device, Write, Capture
  <2>3. Sealed(gpu_power)
    BY <2>1, Zenon DEF Sealed
  <2>4. QED
    BY <2>2, <2>3
<1>15. Sound(gpu_watchdog_ok)
  BY DEF gpu_watchdog_ok
<1>16. Sound(gpu_watchdog_stall)
  BY DEF gpu_watchdog_stall
<1>17. Sound(j81_mcc)
  BY DEF j81_mcc
<1> HIDE DEF Sound
<1>18. QED
  BY <1>1, <1>2, <1>3, <1>4, <1>5, <1>6, <1>7, <1>8, <1>9, <1>10, <1>11, <1>12, <1>13, <1>14, <1>15,
     <1>16, <1>17 DEF AllScripts

(* What a proof needs to know of the script that runs.                      *)
LEMMA PlanFacts ==
  TypeOK => /\ N \in Nat /\ \A i \in 1..N : Plan[i] \in Kinds
            /\ guarded \in BOOLEAN
            /\ N > 0 /\ (guarded => script.ends # "result")
            /\ ~guarded => script.ends # "stall" /\ Judged(Plan)
            /\ ~script.asks => Streams(script)
            /\ \A p \in 1..N : script.mark = Device(p) => "host" \in Plan[p].judges
            /\ Sealed(script) /\ k \in Nat
<1> SUFFICES ASSUME TypeOK PROVE /\ N \in Nat /\ \A i \in 1..N : Plan[i] \in Kinds
                                 /\ guarded \in BOOLEAN
                                 /\ N > 0 /\ (guarded => script.ends # "result")
                                 /\ ~guarded => script.ends # "stall" /\ Judged(Plan)
                                 /\ ~script.asks => Streams(script)
                                 /\ \A p \in 1..N : script.mark = Device(p) => "host" \in Plan[p].judges
                                 /\ Sealed(script) /\ k \in Nat
  OBVIOUS
<1>1. Sound(script) /\ guarded \in script.supervised
  BY Zenon, ScriptsSound, CaptureAssumption DEF TypeOK
<1>2. Plan \in Seq(Kinds) /\ Sealed(script) /\ guarded \in BOOLEAN
  BY <1>1, Zenon DEF Sound, Plan
<1>3. N \in Nat /\ \A i \in 1..N : Plan[i] \in Kinds
  BY <1>2, ElementOfSeq DEF N
<1>4. /\ N > 0
      /\ guarded => script.ends # "result"
      /\ ~guarded => script.ends # "stall" /\ Judged(Plan)
  <2>1. CASE guarded
    BY <1>1, <2>1 DEF Sound, N, Plan
  <2>2. CASE ~guarded
    <3>1. guarded = FALSE
      BY <1>2, <2>2, Zenon
    <3>2. QED
      BY <1>1, <3>1, Zenon DEF Sound, N, Plan
  <2>3. QED
    BY <2>1, <2>2
<1>5. ~script.asks => Streams(script)
  BY <1>1, Zenon DEF Sound
<1>6. k \in Nat
  BY <1>3 DEF TypeOK
<1>7. \A p \in 1..N : script.mark = Device(p) => "host" \in Plan[p].judges
  BY <1>1, Zenon DEF Sound, N, Plan
<1>8. QED
  BY <1>2, <1>3, <1>4, <1>5, <1>6, <1>7, Zenon

LEMMA KindFacts == \A s \in Kinds : /\ s.judges \subseteq {"host", "program"} \/ "host" \in s.judges
                                    /\ s.poll => ~s.write /\ s # Write
                                    /\ s = Power => s.judges = {"host"} /\ s # Write
<1> TAKE s \in Kinds
<1>1. /\ Write.judges = {} /\ Write.write = TRUE /\ Write.poll = FALSE
      /\ Power.judges = {"host"} /\ Power.write = TRUE /\ Power.poll = FALSE
      /\ Poll.judges = {"host", "program"} /\ Poll.write = FALSE
  BY DEF Write, Power, Poll
<1>2. s \in Reads => s.poll = FALSE /\ s.write = FALSE /\ s.judges \in Sets
  BY DEF Reads
<1>3. s \in Reads \/ s = Write \/ s = Power \/ s = Poll
  BY DEF Kinds
<1>4. s.judges \subseteq {"host", "program"} \/ "host" \in s.judges
  BY <1>1, <1>2, <1>3 DEF Sets, Bits
<1>5. s.poll => ~s.write /\ s # Write
  BY <1>1, <1>2, <1>3
<1>6. s = Power => s.judges = {"host"} /\ s # Write
  BY <1>1
<1>7. QED
  BY <1>4, <1>5, <1>6

-----------------------------------------------------------------------------
(* Short sequences.                                                         *)
LEMMA OfOne == ASSUME NEW x PROVE Head(<<x>>) = x /\ Tail(<<x>>) = <<>> /\ <<x>> # <<>>
OBVIOUS

LEMMA OntoNone == ASSUME NEW x PROVE Append(<<>>, x) = <<x>>
<1>1. <<>> \in Seq({x}) /\ x \in {x} /\ <<x>> \in Seq({x}) /\ Len(<<x>>) = 1
  OBVIOUS
<1>2. Append(<<>>, x) \in Seq({x}) /\ Len(Append(<<>>, x)) = 1 /\ Append(<<>>, x)[1] = x
  BY <1>1, AppendProperties
<1>3. \A i \in 1..1 : Append(<<>>, x)[i] = <<x>>[i]
  BY <1>2
<1>4. QED
  BY <1>1, <1>2, <1>3, SeqEqual

LEMMA OntoOne == ASSUME NEW x, NEW y PROVE Append(<<x>>, y) = <<x, y>>
<1>1. <<x>> \in Seq({x, y}) /\ Len(<<x>>) = 1 /\ <<x>>[1] = x
  OBVIOUS
<1>2. <<x, y>> \in Seq({x, y}) /\ Len(<<x, y>>) = 2 /\ <<x, y>>[1] = x /\ <<x, y>>[2] = y
  OBVIOUS
<1>3. /\ Append(<<x>>, y) \in Seq({x, y}) /\ Len(Append(<<x>>, y)) = 2
      /\ Append(<<x>>, y)[1] = x /\ Append(<<x>>, y)[2] = y
  BY <1>1, AppendProperties
<1>4. \A i \in 1..2 : Append(<<x>>, y)[i] = <<x, y>>[i]
  BY <1>2, <1>3
<1>5. QED
  BY <1>2, <1>3, <1>4, SeqEqual

(* A line before others: what is read first, and what is written last.      *)
LEMMA OneBefore ==
  ASSUME NEW S, NEW a \in S, NEW rest \in Seq(S), NEW x \in S
  PROVE  /\ <<a>> \o rest # <<>> /\ Head(<<a>> \o rest) = a /\ Tail(<<a>> \o rest) = rest
         /\ Append(<<a>> \o rest, x) = <<a>> \o Append(rest, x)
<1>1. /\ <<a>> \in Seq(S) /\ Len(<<a>>) = 1 /\ <<a>>[1] = a
  OBVIOUS
<1>2. /\ <<a>> \o rest \in Seq(S) /\ Len(<<a>> \o rest) = Len(rest) + 1
      /\ (<<a>> \o rest)[1] = a
      /\ \A i \in 1..Len(rest) : (<<a>> \o rest)[i + 1] = rest[i]
  <2>1. /\ <<a>> \o rest \in Seq(S) /\ Len(<<a>> \o rest) = Len(<<a>>) + Len(rest)
        /\ \A i \in 1..Len(<<a>>) + Len(rest) :
             (<<a>> \o rest)[i] = IF i <= Len(<<a>>) THEN <<a>>[i] ELSE rest[i - Len(<<a>>)]
    BY <1>1, ConcatProperties
  <2>2. Len(rest) \in Nat
    BY LenProperties
  <2>3. \A i \in 1..Len(rest) + 1 : (<<a>> \o rest)[i] = IF i <= 1 THEN a ELSE rest[i - 1]
    BY <1>1, <2>1, <2>2
  <2>4. QED
    BY <1>1, <2>1, <2>2, <2>3
<1>3. Len(rest) \in Nat /\ <<a>> \o rest # <<>>
  BY <1>2, LenProperties, EmptySeq
<1>4. Head(<<a>> \o rest) = a
  BY <1>2, <1>3, HeadTailProperties
<1>5. Tail(<<a>> \o rest) = rest
  <2>1. /\ Tail(<<a>> \o rest) \in Seq(S) /\ Len(Tail(<<a>> \o rest)) = Len(rest)
        /\ \A i \in 1..Len(rest) : Tail(<<a>> \o rest)[i] = (<<a>> \o rest)[i + 1]
    BY <1>2, <1>3, HeadTailProperties
  <2>2. QED
    BY <1>2, <2>1, SeqEqual
<1>6. Append(<<a>> \o rest, x) = <<a>> \o Append(rest, x)
  <2>1. <<x>> \in Seq(S)
    OBVIOUS
  <2>2. (<<a>> \o rest) \o <<x>> = <<a>> \o (rest \o <<x>>)
    BY <1>1, <2>1, ConcatAssociative
  <2>3. Append(<<a>> \o rest, x) = (<<a>> \o rest) \o <<x>> /\ Append(rest, x) = rest \o <<x>>
    BY <1>2, AppendIsConcat
  <2>4. QED
    BY <2>2, <2>3
<1>7. QED
  BY <1>3, <1>4, <1>5, <1>6

-----------------------------------------------------------------------------
(* Who leaves what alone.                                                   *)
Hears == ArmsWatchdog \/ Armed \/ Checkpoint \/ Result \/ Finished \/ Disarmed

Moves == \/ \E ok \in BOOLEAN : Arms(ok) \/ Disarms(ok)
         \/ Announces \/ Refuses \/ Accesses \/ Hangs \/ Judges \/ Finishes \/ HearsNothing

LEMMA Steps4 == Next => Connect \/ Hears \/ Ends \/ Moves \/ Reboots
BY Zenon DEF Next, Script, Tablet, Hears, Moves

LEMMA HostLeaves ==
  /\ Hears \/ Ends => UNCHANGED <<script, guarded, sessions, tablet, k, tries, once, wd, made, right, wrong>>
  /\ Hears => host = "run" /\ net # <<>> /\ net' = Tail(net) /\ conn' = conn
<1>1. ASSUME Hears PROVE UNCHANGED <<script, guarded, sessions, tablet, k, tries, once, wd, made, right, wrong>>
  BY <1>1, Zenon DEF Hears, ArmsWatchdog, Armed, Checkpoint, Result, Finished, Disarmed, progVars, hist
<1>2. Ends => UNCHANGED <<script, guarded, sessions, tablet, k, tries, once, wd, made, right, wrong>>
  BY DEF Ends, progVars, hist
<1>3. Hears => host = "run" /\ net # <<>> /\ net' = Tail(net) /\ conn' = conn
  BY Zenon DEF Hears, ArmsWatchdog, Armed, Checkpoint, Result, Finished, Disarmed, Expects
<1>4. QED
  BY <1>1, <1>2, <1>3

LEMMA TabletLeaves == Moves => UNCHANGED <<script, guarded, host, at, sessions, conn>>
BY Zenon DEF Moves, Arms, Disarms, Announces, Refuses, Accesses, Hangs, Judges, Finishes, HearsNothing, hostVars, link

LEMMA ScriptStays == Next \/ UNCHANGED vars => script' = script /\ guarded' = guarded /\ Plan' = Plan /\ N' = N
<1>1. Next \/ UNCHANGED vars => script' = script /\ guarded' = guarded
  BY Steps4, HostLeaves, TabletLeaves DEF Connect, Reboots, hostVars, vars
<1>2. QED
  BY <1>1 DEF Plan, N

-----------------------------------------------------------------------------
(* The types, in groups that change together.                               *)
Flags     == conn \in BOOLEAN /\ once \in BOOLEAN /\ wrong \in BOOLEAN
HostTypes == /\ host \in {"idle", "run", "ok", "failed", "stalled"}
             /\ at \in {"idle", "open", "armed", "before", "after", "finished", "disarmed"} \X (0..N)
LinkTypes == net \in Seq(Lines) /\ acks \in Seq(Words)
ProgTypes == tablet \in Tablets /\ k \in 1..N + 1 /\ tries \in Nat /\ wd \in {"off", "armed"}
HistTypes == made \in Seq(1..N) /\ right \subseteq 1..N
Fixed     == script \in Scripts /\ guarded \in script.supervised

LEMMA TypeParts ==
  /\ TypeOK <=> Fixed /\ Flags /\ HostTypes /\ LinkTypes /\ ProgTypes /\ HistTypes
  /\ TypeOK' <=> Fixed' /\ Flags' /\ HostTypes' /\ LinkTypes' /\ ProgTypes' /\ HistTypes'
BY Zenon DEF TypeOK, Fixed, Flags, HostTypes, LinkTypes, ProgTypes, HistTypes

LEMMA FlagTypes == TypeOK /\ Next => Flags'
<1> SUFFICES ASSUME Flags, Next PROVE Flags'
  BY TypeParts
<1>1. conn' \in BOOLEAN
  BY Zenon DEF Flags, Next, Script, Tablet, Connect, ArmsWatchdog, Armed, Checkpoint, Result, Finished, Disarmed,
     Ends, Arms, Disarms, Announces, Refuses, Accesses, Hangs, Judges, Finishes, HearsNothing, Reboots, link
<1>2. once' \in BOOLEAN
  BY Zenon DEF Flags, Next, Script, Tablet, Connect, ArmsWatchdog, Armed, Checkpoint, Result, Finished, Disarmed,
     Ends, Arms, Disarms, Announces, Refuses, Accesses, Hangs, Judges, Finishes, HearsNothing, Reboots, progVars
<1>3. wrong' \in BOOLEAN
  BY Zenon DEF Flags, Next, Script, Tablet, Connect, ArmsWatchdog, Armed, Checkpoint, Result, Finished, Disarmed,
     Ends, Arms, Disarms, Announces, Refuses, Accesses, Hangs, Judges, Finishes, HearsNothing, Reboots, hist
<1>4. QED
  BY <1>1, <1>2, <1>3 DEF Flags

(* Every line and word that is sent.                                        *)
LEMMA LinesAre ==
  ASSUME TypeOK
  PROVE  /\ Line("open", 0, "right") \in Lines /\ Line("armed", 0, "right") \in Lines
         /\ Line("finished", 0, "right") \in Lines /\ Line("disarmed", 0, "right") \in Lines
         /\ \A i \in 0..N : Line("before", i, "right") \in Lines
         /\ \A i \in 0..N, g \in Got : Line("after", i, g) \in Lines
         /\ <<"arm", 0>> \in Words
         /\ \A i \in 0..N : <<"go", i>> \in Words /\ <<"feed", i>> \in Words
BY PlanFacts DEF Line, Lines, Words, Got

-----------------------------------------------------------------------------
(* What the script may hear, and where the program is when it does.         *)
LEMMA Online == IInv /\ host = "run" /\ net # <<>> => Live /\ Link
BY DEF IInv, Down, Live

(* What the program has said since the script last kept up.                 *)
LEMMA RestTyped ==
  ASSUME IInv, NEW rest \in {<<>>, <<Announced>>, <<Ended>>}, Said(rest)
  PROVE  /\ rest \in Seq(Lines)
         /\ rest = <<Announced>> => k <= N
<1>1. k \in 1..N + 1 /\ N \in Nat
  BY PlanFacts DEF IInv, TypeOK
<1>2. rest = <<Announced>> => k <= N
  <2>1. rest = <<Announced>> => rest # <<>> /\ rest # <<Ended>>
    BY DEF Announced, Ended, Line
  <2>2. rest = <<Announced>> => tablet = "waiting"
    BY <2>1, Zenon DEF Said
  <2>3. QED
    BY <2>2 DEF IInv, Places
<1>3. Ended \in Lines /\ (k <= N => Announced \in Lines)
  BY <1>1, LinesAre DEF IInv, Ended, Announced
<1>4. CASE rest = <<Announced>>
  BY <1>2, <1>3, <1>4
<1>5. CASE rest = <<Ended>>
  BY <1>2, <1>3, <1>5
<1>6. CASE rest = <<>>
  <2>1. rest # <<Announced>>
    BY <1>6
  <2>2. rest \in Seq(Lines)
    BY <1>6
  <2>3. QED
    BY <2>1, <2>2
<1>7. QED
  BY <1>4, <1>5, <1>6, Zenon

(* The three ways to lag, told apart by what the script waits for.          *)
LEMMA TrailAt ==
  ASSUME NEW rest, Trail(rest)
  PROVE  \/ at[1] \in {"before", "finished"} /\ at = Awaited /\ net = rest
         \/ at[1] = "armed" /\ guarded /\ k = 1 /\ net = <<Line("armed", 0, "right")>> \o rest
         \/ at[1] = "after" /\ \E g \in Got : /\ Lagging(g) /\ at = <<"after", Unread>>
                                             /\ net = <<Line("after", Unread, g)>> \o rest
<1>1. CASE at = Awaited /\ net = rest
  <2>1. at[1] \in {"before", "finished"}
    BY <1>1 DEF Awaited
  <2>2. QED
    BY <1>1, <2>1
<1>2. CASE guarded /\ k = 1 /\ at = <<"armed", 0>> /\ net = <<Line("armed", 0, "right")>> \o rest
  <2>1. at[1] = "armed"
    BY <1>2
  <2>2. QED
    BY <1>2, <2>1
<1>3. CASE \E g \in Got : /\ Lagging(g) /\ at = <<"after", Unread>>
                         /\ net = <<Line("after", Unread, g)>> \o rest
  <2>1. at = <<"after", Unread>>
    BY <1>3, Zenon
  <2>2. at[1] = "after"
    BY <2>1
  <2>3. QED
    BY <1>3, <2>2, Zenon
<1>4. QED
  BY <1>1, <1>2, <1>3, Zenon DEF Trail

(* The next line is the one of the script's place, kept or not.             *)
LEMMA Placed == IInv /\ host = "run" /\ net # <<>> => at = <<Head(net)[1], Heard>>
<1> SUFFICES ASSUME IInv, host = "run", net # <<>> PROVE at = <<Head(net)[1], Heard>>
  OBVIOUS
<1>1. Link /\ TypeOK
  BY Online DEF IInv
<1>2. ASSUME NEW kind, NEW i, NEW g, Head(net) = Line(kind, i, g), at = <<kind, i>> PROVE at = <<Head(net)[1], Heard>>
  BY <1>2 DEF Line, Heard
<1>3. CASE Goes
  <2>1. PICK rest \in {<<>>, <<Announced>>, <<Ended>>} : Said(rest) /\ Trail(rest)
    BY <1>3 DEF Goes
  <2>2. rest \in Seq(Lines) /\ (rest = <<Announced>> => k <= N)
    BY <2>1, RestTyped
  <2>3. CASE at = Awaited /\ net = rest
    <3>1. CASE rest = <<Announced>>
      <4>1. at = <<"before", k>> /\ Head(net) = Announced
        BY <2>2, <2>3, <3>1, OfOne DEF Awaited
      <4>2. QED
        BY <1>2, <4>1 DEF Announced
    <3>2. CASE rest = <<Ended>> /\ rest # <<Announced>>
      <4>1. k = N + 1
        <5>1. rest # <<>>
          BY <3>2
        <5>2. QED
          BY <2>1, <3>2, <5>1, Zenon DEF Said
      <4>2. ~(k <= N)
        BY <4>1, PlanFacts, <1>1
      <4>3. at = <<"finished", 0>> /\ Head(net) = Ended
        BY <2>3, <3>2, <4>2, OfOne DEF Awaited
      <4>4. QED
        BY <1>2, <4>3 DEF Ended
    <3>3. QED
      BY <2>1, <2>3, <3>1, <3>2
  <2>4. CASE at = <<"armed", 0>> /\ net = <<Line("armed", 0, "right")>> \o rest
    <3>1. Head(net) = Line("armed", 0, "right")
      BY <1>1, <2>2, <2>4, LinesAre, OneBefore
    <3>2. QED
      BY <1>2, <2>4, <3>1
  <2>5. CASE \E g \in Got : /\ Lagging(g) /\ at = <<"after", Unread>>
                            /\ net = <<Line("after", Unread, g)>> \o rest
    <3>1. PICK g \in Got : /\ Lagging(g) /\ at = <<"after", Unread>>
                           /\ net = <<Line("after", Unread, g)>> \o rest
      BY <2>5
    <3>2. at[2] = Unread /\ at[2] \in 0..N
      BY <1>1, <3>1 DEF TypeOK
    <3>3. Head(net) = Line("after", Unread, g)
      <4>1. Line("after", Unread, g) \in Lines
        BY <1>1, <3>2, LinesAre
      <4>2. QED
        BY <2>2, <3>1, <4>1, OneBefore
    <3>4. QED
      BY <1>2, <3>1, <3>3
  <2>6. QED
    BY <2>1, <2>3, <2>4, <2>5, Zenon DEF Trail
<1>4. CASE Asks
  <2>1. at = <<"open", 0>> /\ Head(net) = Line("open", 0, "right")
    BY <1>4, OfOne DEF Asks
  <2>2. QED
    BY <1>2, <2>1
<1>5. CASE Reported
  <2>1. at = <<"after", k>> /\ Head(net) = Line("after", k, tablet)
    BY <1>5, OfOne DEF Reported, After
  <2>2. QED
    BY <1>2, <2>1
<1>6. CASE Closing
  <2>1. at = <<"finished", 0>> /\ Head(net) = Line("finished", 0, "right")
    BY <1>6, OfOne DEF Closing, Ended
  <2>2. QED
    BY <1>2, <2>1
<1>7. CASE Closed
  <2>1. \/ at = <<"finished", 0>> /\ Head(net) = Line("finished", 0, "right")
        \/ at = <<"disarmed", 0>> /\ Head(net) = Line("disarmed", 0, "right")
    BY <1>7, OfOne DEF Closed, Ended
  <2>2. QED
    BY <1>2, <2>1
<1>8. QED
  BY <1>1, <1>3, <1>4, <1>5, <1>6, <1>7 DEF Link, Allowed, Lost, Passing

LEMMA Taken ==
  ASSUME IInv, NEW kind, Expects(kind)
  PROVE  /\ host = "run" /\ net # <<>> /\ Head(net)[1] = kind /\ net' = Tail(net)
         /\ at[1] = kind /\ at[2] = Heard
BY Placed DEF Expects

(* The words of a program that asks.                                        *)
LEMMA Asked ==
  ASSUME IInv
  PROVE  /\ Checkpoint => Expects("before") /\ Answer("go", at[2]) /\ at' = <<"after", at[2]>>
         /\ Result => Expects("after") /\ Heard = at[2]
         /\ Permitted => Word("go")
<1>1. script.asks
  BY DEF IInv
<1>2. Checkpoint => Expects("before") /\ Answer("go", at[2]) /\ at' = <<"after", at[2]>>
  <2> SUFFICES ASSUME Checkpoint PROVE Expects("before") /\ Answer("go", at[2]) /\ at' = <<"after", at[2]>>
    OBVIOUS
  <2>1. Expects("before") /\ Heard = at[2]
    BY Taken DEF Checkpoint
  <2>2. QED
    BY <1>1, <2>1 DEF Checkpoint
<1>3. Result => Expects("after") /\ Heard = at[2]
  BY Taken DEF Result
<1>4. Permitted => Word("go")
  BY <1>1, Zenon DEF Permitted
<1>5. QED
  BY <1>2, <1>3, <1>4

(* Where the program goes from a value.                                     *)
LEMMA JudgesTo ==
  ASSUME IInv, Judges
  PROVE  /\ \/ tablet' = GivenUp
            \/ tablet' = "announce" /\ (k < N \/ tablet = "busy")
            \/ tablet' = "finish" /\ ~(k < N) /\ tablet # "busy"
         /\ tablet = "wrong" /\ "program" \in Plan[k].judges => tablet' = GivenUp
<1>1. PICK found \in BOOLEAN :
        tablet' = IF Balks(found) THEN GivenUp
                  ELSE IF k < N \/ tablet = "busy" THEN (IF script.asks THEN "announce" ELSE "waiting")
                  ELSE "finish"
  BY DEF Judges
<1>2. script.asks
  BY DEF IInv
<1>3. tablet = "wrong" /\ "program" \in Plan[k].judges => Balks(found)
  BY DEF Balks
<1>4. QED
  BY <1>1, <1>2, <1>3

LEMMA HeardOpen ==
  IInv /\ Expects("open") => tablet = "asking" /\ acks = <<>> /\ net = <<Line("open", 0, "right")>>
<1> SUFFICES ASSUME IInv, Expects("open") PROVE tablet = "asking" /\ acks = <<>> /\ net = <<Line("open", 0, "right")>>
  OBVIOUS
<1>1. Link /\ at[1] = "open" /\ net # <<>>
  BY Online, Taken
<1>2. ~Goes
  <2> SUFFICES ASSUME NEW rest, Trail(rest) PROVE FALSE
    BY DEF Goes
  <2>1. at[1] \in {"before", "finished", "armed", "after"}
    BY TrailAt, Zenon
  <2>2. QED
    BY <1>1, <2>1
<1>3. Asks
  BY <1>1, <1>2 DEF Link, Allowed, Lost, Reported, Passing, Closing, Closed
<1>4. QED
  BY <1>1, <1>3 DEF Asks

Armed1 == Line("armed", 0, "right")

LEMMA HeardArmed ==
  IInv /\ Expects("armed") =>
    /\ guarded /\ k = 1 /\ N > 0
    /\ \E rest \in {<<>>, <<Announced>>, <<Ended>>} : Said(rest) /\ net = <<Armed1>> \o rest
<1> SUFFICES ASSUME IInv, Expects("armed")
             PROVE  /\ guarded /\ k = 1 /\ N > 0
                    /\ \E rest \in {<<>>, <<Announced>>, <<Ended>>} : Said(rest) /\ net = <<Armed1>> \o rest
  OBVIOUS
<1>1. Link /\ at[1] = "armed" /\ net # <<>>
  BY Online, Taken
<1>2. Goes
  BY <1>1 DEF Link, Asks, Allowed, Lost, Reported, Passing, Closing, Closed
<1>3. PICK rest \in {<<>>, <<Announced>>, <<Ended>>} : Said(rest) /\ Trail(rest)
  BY <1>2 DEF Goes
<1>4. guarded /\ k = 1 /\ net = <<Armed1>> \o rest
  <2>1. at[1] \notin {"before", "finished", "after"}
    BY <1>1
  <2>2. QED
    BY <1>3, <2>1, TrailAt, Zenon DEF Armed1
<1>5. QED
  BY <1>3, <1>4, PlanFacts DEF IInv

LEMMA HeardBefore ==
  IInv /\ Expects("before") =>
    tablet = "waiting" /\ acks = <<>> /\ at = <<"before", k>> /\ net = <<Announced>>
<1> SUFFICES ASSUME IInv, Expects("before")
             PROVE  tablet = "waiting" /\ acks = <<>> /\ at = <<"before", k>> /\ net = <<Announced>>
  OBVIOUS
<1>1. Link /\ at[1] = "before" /\ net # <<>> /\ Head(net)[1] = "before"
  BY Online, Taken
<1>2. Goes
  BY <1>1 DEF Link, Asks, Allowed, Lost, Reported, Passing, Closing, Closed
<1>3. PICK rest \in {<<>>, <<Announced>>, <<Ended>>} : Said(rest) /\ Trail(rest)
  BY <1>2 DEF Goes
<1>4. at = Awaited /\ net = rest
  <2>1. at[1] \notin {"armed", "after"}
    BY <1>1
  <2>2. QED
    BY <1>3, <2>1, TrailAt, Zenon
<1>5. at = <<"before", k>>
  BY <1>1, <1>4 DEF Awaited
<1>6. rest # <<Ended>> /\ rest # <<>>
  BY <1>1, <1>4 DEF Ended, Line
<1>7. rest = <<Announced>> /\ Announced # Ended
  BY <1>3, <1>6 DEF Announced, Ended, Line
<1>8. QED
  BY <1>3, <1>4, <1>5, <1>6, <1>7 DEF Said

LEMMA HeardAfter ==
  ASSUME IInv, Expects("after")
  PROVE  \/ Reported
         \/ \E rest \in {<<>>, <<Announced>>, <<Ended>>}, g \in Got :
              /\ Said(rest) /\ Lagging(g) /\ at = <<"after", Unread>>
              /\ net = <<Line("after", Unread, g)>> \o rest
<1>1. Link /\ at[1] = "after" /\ net # <<>>
  BY Online, Taken
<1>2. Goes \/ Reported
  BY <1>1 DEF Link, Asks, Allowed, Lost, Reported, Passing, Closing, Closed
<1>3. CASE Goes
  <2>1. PICK rest \in {<<>>, <<Announced>>, <<Ended>>} : Said(rest) /\ Trail(rest)
    BY <1>3 DEF Goes
  <2>2. \E g \in Got : /\ Lagging(g) /\ at = <<"after", Unread>>
                       /\ net = <<Line("after", Unread, g)>> \o rest
    <3>1. at[1] \notin {"before", "finished", "armed"}
      BY <1>1
    <3>2. QED
      BY <2>1, <3>1, TrailAt, Zenon
  <2>3. QED
    BY <2>1, <2>2, Zenon
<1>4. QED
  BY <1>2, <1>3

LEMMA HeardFinished ==
  IInv /\ Expects("finished") =>
    /\ k = N + 1 \/ guarded
    /\ \/ tablet = "exited" /\ ~guarded /\ k = N + 1 /\ net = <<Ended>>
       \/ tablet \in {"disarm", "stuck"} /\ guarded /\ net = <<Ended>>
       \/ /\ tablet = "exited" /\ guarded /\ k = N + 1 /\ script.ends = "finished"
          /\ net = <<Ended, Line("disarmed", 0, "right")>>
<1> SUFFICES ASSUME IInv, Expects("finished")
             PROVE  /\ k = N + 1 \/ guarded
                    /\ \/ tablet = "exited" /\ ~guarded /\ k = N + 1 /\ net = <<Ended>>
                       \/ tablet \in {"disarm", "stuck"} /\ guarded /\ net = <<Ended>>
                       \/ /\ tablet = "exited" /\ guarded /\ k = N + 1 /\ script.ends = "finished"
                          /\ net = <<Ended, Line("disarmed", 0, "right")>>
  OBVIOUS
<1>1. Link /\ at[1] = "finished" /\ net # <<>> /\ Head(net)[1] = "finished"
  BY Online, Taken
<1>2. CASE Goes
  <2>1. PICK rest \in {<<>>, <<Announced>>, <<Ended>>} : Said(rest) /\ Trail(rest)
    BY <1>2 DEF Goes
  <2>2. net = rest
    <3>1. at[1] \notin {"armed", "after"}
      BY <1>1
    <3>2. QED
      BY <2>1, <3>1, TrailAt, Zenon
  <2>3. rest # <<Announced>> /\ rest # <<>>
    BY <1>1, <2>2 DEF Announced, Line
  <2>4. QED
    BY <2>1, <2>2, <2>3 DEF Said
<1>3. CASE Closing
  BY <1>1, <1>3 DEF Closing
<1>4. CASE Closed
  BY <1>1, <1>4 DEF Closed
<1>5. QED
  BY <1>1, <1>2, <1>3, <1>4 DEF Link, Asks, Allowed, Lost, Reported, Passing

LEMMA HeardDisarmed ==
  IInv /\ Expects("disarmed") =>
    tablet = "exited" /\ guarded /\ k = N + 1 /\ net = <<Line("disarmed", 0, "right")>>
<1> SUFFICES ASSUME IInv, Expects("disarmed")
             PROVE  tablet = "exited" /\ guarded /\ k = N + 1 /\ net = <<Line("disarmed", 0, "right")>>
  OBVIOUS
<1>1. Link /\ at[1] = "disarmed" /\ net # <<>>
  BY Online, Taken
<1>2. ~Goes
  <2> SUFFICES ASSUME NEW rest, Trail(rest) PROVE FALSE
    BY DEF Goes
  <2>1. at[1] \in {"before", "finished", "armed", "after"}
    BY TrailAt, Zenon
  <2>2. QED
    BY <1>1, <2>1
<1>3. Closed
  BY <1>1, <1>2 DEF Link, Asks, Allowed, Lost, Reported, Passing, Closing
<1>4. QED
  BY <1>1, <1>3 DEF Closed

LEMMA HostTyped == IInv /\ Next => HostTypes'
<1> SUFFICES ASSUME IInv, TypeOK, Next PROVE HostTypes'
  BY DEF IInv
<1>0. N' = N /\ N \in Nat /\ HostTypes
  BY ScriptStays, PlanFacts, TypeParts
<1>1. at[2] \in 0..N
  BY <1>0 DEF HostTypes
<1>2. ASSUME NEW n \in 0..N, NEW kind \in {"open", "armed", "before", "after", "finished", "disarmed"}
      PROVE  <<kind, n>> \in {"idle", "open", "armed", "before", "after", "finished", "disarmed"} \X (0..N')
  BY <1>0, <1>2
<1>3. CASE Connect
  <2>1. 1 \in 0..N
    BY <1>0, PlanFacts
  <2>2. /\ host' = "run"
        /\ at' = <<"open", 0>> \/ at' = <<"before", 1>>
    BY <1>3 DEF Connect
  <2>3. QED
    BY <1>0, <1>2, <2>1, <2>2 DEF HostTypes
<1>4. CASE Hears
  <2>1. host' \in {"run", "ok"}
    BY <1>4, HostLeaves, Zenon DEF Hears, ArmsWatchdog, Armed, Checkpoint, Result, Finished, Disarmed
  <2>2. CASE ArmsWatchdog \/ Armed \/ Finished \/ Disarmed
    <3>1. at' = <<"armed", 0>> \/ at' = <<"before", 1>> \/ at' = <<"disarmed", 0>> \/ at' = at
      BY <2>2 DEF ArmsWatchdog, Armed, Finished, Disarmed
    <3>2. 0 \in 0..N
      BY <1>0
    <3>3. Armed => 1 \in 0..N
      BY <1>0, HeardArmed DEF Armed
    <3>5. at' = <<"before", 1>> => Armed \/ at' = at
      BY <2>2 DEF ArmsWatchdog, Finished, Disarmed
    <3>4. QED
      BY <1>0, <1>2, <2>1, <3>1, <3>2, <3>3, <3>5 DEF HostTypes
  <2>3. CASE Checkpoint
    BY <1>0, <1>1, <1>2, <2>1, <2>3, Asked DEF HostTypes
  <2>4. CASE Result
    <3>1. at' = <<"before", at[2]>> \/ (at[2] < N /\ at' = <<"before", at[2] + 1>>) \/ at' = <<"finished", 0>>
      BY <2>4, Asked DEF Result, Following
    <3>2. 0 \in 0..N /\ (at[2] < N => at[2] + 1 \in 0..N)
      BY <1>0, <1>1
    <3>3. QED
      BY <1>0, <1>1, <1>2, <2>1, <3>1, <3>2 DEF HostTypes
  <2>5. QED
    BY <1>4, <2>2, <2>3, <2>4 DEF Hears
<1>5. CASE Ends
  BY <1>0, <1>5 DEF Ends, HostTypes
<1>6. CASE Moves \/ Reboots
  <2>1. host' = host /\ at' = at
    BY <1>6, TabletLeaves DEF Reboots, hostVars
  <2>2. QED
    BY <1>0, <2>1 DEF HostTypes
<1>7. QED
  BY <1>3, <1>4, <1>5, <1>6, Steps4

LEMMA LinkTyped == IInv /\ Next => LinkTypes'
<1> SUFFICES ASSUME IInv, TypeOK, Next PROVE LinkTypes'
  BY DEF IInv
<1>0. Lines' = Lines /\ Words' = Words /\ LinkTypes
  BY ScriptStays, TypeParts DEF Lines, Words
<1>1. \A x \in Lines : Append(net, x) \in Seq(Lines)
  BY <1>0 DEF LinkTypes
<1>2. \A x \in Words : Append(acks, x) \in Seq(Words)
  BY <1>0 DEF LinkTypes
<1>3. /\ net # <<>> => Tail(net) \in Seq(Lines)
      /\ acks # <<>> => Tail(acks) \in Seq(Words)
  BY <1>0, HeadTailProperties DEF LinkTypes
<1>4. CASE Connect
  BY <1>0, <1>4, LinesAre DEF Connect, LinkTypes
<1>5. CASE Hears
  <2>1. at[2] \in 0..N
    BY TypeParts DEF HostTypes
  <2>2. \/ acks' = acks \/ acks' = Append(acks, <<"arm", 0>>)
        \/ acks' = Append(acks, <<"go", at[2]>>) \/ acks' = Append(acks, <<"feed", at[2]>>)
    <3>1. CASE Checkpoint
      BY <3>1, Asked DEF Answer
    <3>2. CASE Result
      <4>1. Heard = at[2]
        BY <3>2, Asked
      <4>2. QED
        BY <3>2, <4>1 DEF Result, Answer
    <3>3. QED
      BY <1>5, <3>1, <3>2, Zenon DEF Hears, ArmsWatchdog, Armed, Finished, Disarmed, Answer
  <2>3. acks' \in Seq(Words)
    BY <1>0, <1>2, <2>1, <2>2, LinesAre DEF LinkTypes
  <2>4. QED
    BY <1>0, <1>3, <1>5, <2>3, HostLeaves, Zenon DEF LinkTypes
<1>6. CASE Ends
  <2>1. PICK m \in 0..Len(acks) : acks' = SubSeq(acks, 1, m)
    BY <1>6 DEF Ends
  <2>2. acks' \in Seq(Words)
    BY <1>0, <2>1, SubSeqProperties DEF LinkTypes
  <2>3. net' = <<>>
    BY <1>6 DEF Ends
  <2>4. QED
    BY <1>0, <2>2, <2>3 DEF LinkTypes
<1>7. CASE Moves
  <2>1. acks' = acks \/ (acks # <<>> /\ acks' = Tail(acks))
    BY <1>7, Zenon DEF Moves, Arms, Disarms, Announces, Refuses, Accesses, Hangs, Judges, Finishes, HearsNothing, Permitted, Word, link
  <2>2. net' = net \/ \E x \in Lines : net' = Append(net, x)
    <3>0. k \in 0..N \/ k = N + 1
      BY PlanFacts DEF TypeOK
    <3>1. CASE \E ok \in BOOLEAN : Arms(ok) \/ Disarms(ok)
      BY <3>1, LinesAre, Zenon DEF Arms, Disarms, Say
    <3>2. CASE Announces
      <4>1. k \in 0..N
        BY <3>0, <3>2, PlanFacts DEF Announces
      <4>2. QED
        BY <3>2, <4>1, LinesAre, Zenon DEF Announces, Say
    <3>3. CASE Accesses
      <4>1. PICK g \in Got : net' = IF conn THEN Append(net, Line("after", k, g)) ELSE net
        BY <3>3 DEF Accesses, Say, Got
      <4>2. k \in 0..N
        BY <3>0, <3>3, PlanFacts DEF IInv, Places, Accesses
      <4>3. QED
        BY <4>1, <4>2, LinesAre
    <3>4. CASE Refuses \/ Hangs \/ Judges \/ HearsNothing
      BY <3>4 DEF Refuses, Hangs, Judges, HearsNothing, link
    <3>5. CASE Finishes
      BY <3>5, LinesAre, Zenon DEF Finishes, Say
    <3>6. QED
      BY <1>7, <3>1, <3>2, <3>3, <3>4, <3>5 DEF Moves
  <2>3. QED
    BY <1>0, <1>1, <1>3, <2>1, <2>2, Zenon DEF LinkTypes
<1>8. CASE Reboots
  BY <1>8 DEF Reboots, LinkTypes
<1>9. QED
  BY <1>4, <1>5, <1>6, <1>7, <1>8, Steps4

LEMMA ProgTyped == IInv /\ Next => ProgTypes'
<1> SUFFICES ASSUME IInv, TypeOK, Next PROVE ProgTypes'
  BY DEF IInv
<1>0. N' = N /\ N \in Nat /\ ProgTypes
  BY ScriptStays, PlanFacts, TypeParts
<1>1. CASE Connect \/ Reboots
  BY <1>0, <1>1 DEF Connect, Reboots, ProgTypes, Tablets
<1>2. CASE Hears \/ Ends
  BY <1>0, <1>2, HostLeaves DEF ProgTypes
<1>3. CASE \E ok \in BOOLEAN : Arms(ok) \/ Disarms(ok)
  BY <1>0, <1>3 DEF Arms, Disarms, ProgTypes, Tablets
<1>4. CASE Announces \/ Refuses
  BY <1>0, <1>4 DEF Announces, Refuses, GivenUp, ProgTypes, Tablets
<1>5. CASE Accesses
  <2>1. tablet' \in Got /\ UNCHANGED <<k, tries, wd>>
    BY <1>5 DEF Accesses, Got
  <2>2. QED
    BY <1>0, <2>1 DEF ProgTypes, Tablets
<1>6. CASE Hangs \/ Finishes \/ HearsNothing
  BY <1>0, <1>6 DEF Hangs, Finishes, HearsNothing, GivenUp, ProgTypes, Tablets
<1>7. CASE Judges
  <2>1. k \in 1..N
    BY <1>0, <1>7 DEF Judges, IInv, Places, Got, ProgTypes
  <2>2. k' \in 1..N + 1 /\ tries' \in Nat
    BY <1>0, <1>7, <2>1 DEF Judges, ProgTypes
  <2>3. tablet' \in {"stuck", "exited", "announce", "finish"} /\ wd' = wd
    BY <1>7, JudgesTo DEF Judges, GivenUp
  <2>4. QED
    BY <1>0, <2>2, <2>3 DEF ProgTypes, Tablets
<1>8. QED
  BY <1>1, <1>2, <1>3, <1>4, <1>5, <1>6, <1>7, Steps4 DEF Moves

LEMMA HistTyped == IInv /\ Next => HistTypes'
<1> SUFFICES ASSUME IInv, TypeOK, Next PROVE HistTypes'
  BY DEF IInv
<1>0. N' = N /\ HistTypes
  BY ScriptStays, TypeParts
<1>1. CASE Connect \/ Reboots
  <2>1. (made' = made \/ made' = <<>>) /\ right' = {}
    BY <1>1 DEF Connect, Reboots
  <2>2. <<>> \in Seq(1..N)
    OBVIOUS
  <2>3. QED
    BY <1>0, <2>1, <2>2, Zenon DEF HistTypes
<1>2. CASE Hears \/ Ends
  BY <1>0, <1>2, HostLeaves DEF HistTypes
<1>3. CASE Accesses \/ Hangs
  <2>1. k \in 1..N
    BY <1>3, TypeParts DEF IInv, Places, Accesses, Hangs, ProgTypes
  <2>2. Append(made, k) \in Seq(1..N)
    BY <1>0, <2>1, AppendProperties DEF HistTypes
  <2>3. /\ made' = made \/ made' = Append(made, k)
        /\ right' = right \/ right' = right \cup {k}
    BY <1>3 DEF Accesses, Hangs
  <2>4. QED
    BY <1>0, <2>1, <2>2, <2>3 DEF HistTypes
<1>4. CASE Moves /\ ~Accesses /\ ~Hangs
  <2>1. made' = made /\ right' = right
    BY <1>4, Zenon DEF Moves, Arms, Disarms, Announces, Refuses, Judges, Finishes, HearsNothing, hist
  <2>2. QED
    BY <1>0, <2>1 DEF HistTypes
<1>5. QED
  BY <1>1, <1>2, <1>3, <1>4, Steps4 DEF Moves

LEMMA Typed == IInv /\ Next => TypeOK'
<1> SUFFICES ASSUME IInv, TypeOK, Next PROVE TypeOK'
  BY DEF IInv
<1>1. Fixed'
  BY ScriptStays, TypeParts DEF Fixed
<1>2. QED
  BY <1>1, FlagTypes, HostTyped, LinkTyped, ProgTyped, HistTyped, TypeParts

-----------------------------------------------------------------------------
(* There is at most one word on the session, and it is taken whole.         *)
LEMMA WordTaken ==
  ASSUME IInv, NEW w, Word(w)
  PROVE  /\ acks' = <<>>
         /\ tablet = "asking" => w = "arm"
         /\ tablet = "waiting" => acks = <<<<"go", k>>>>
         /\ tablet \in Got => guarded /\ acks = <<<<"feed", k>>>>
<1>1. acks # <<>> /\ Head(acks)[1] = w /\ acks' = Tail(acks) /\ Spoken
  BY DEF Word, IInv
<1>2. CASE tablet = "asking"
  <2>1. acks = <<<<"arm", 0>>>>
    BY <1>1, <1>2 DEF Spoken
  <2>2. acks' = <<>> /\ w = "arm"
    BY <1>1, <2>1, OfOne
  <2>3. QED
    BY <1>2, <2>2 DEF Got
<1>3. CASE tablet = "waiting"
  <2>1. acks = <<<<"go", k>>>>
    BY <1>1, <1>3 DEF Spoken
  <2>2. acks' = <<>>
    BY <1>1, <2>1, OfOne
  <2>3. QED
    BY <1>3, <2>1, <2>2 DEF Got
<1>4. CASE tablet \in Got
  <2>1. guarded /\ acks = <<<<"feed", k>>>>
    BY <1>1, <1>4 DEF Spoken, Got
  <2>2. QED
    BY <1>1, <1>4, <2>1, OfOne DEF Got
<1>5. QED
  BY <1>1, <1>2, <1>3, <1>4, Zenon DEF Spoken

(* A result the script reads, as it finds the program.                      *)
LEMMA ResultFinds ==
  ASSUME IInv, Result
  PROVE  \/ tablet \in Got /\ Head(net) = After(tablet) /\ net' = <<>> /\ at = <<"after", k>> /\ acks = <<>>
         \/ /\ ~guarded /\ acks = <<>> /\ tablet \in {"announce", "waiting", "finish", "exited"} /\ at = <<"after", Unread>>
            /\ \E rest \in {<<>>, <<Announced>>, <<Ended>>}, g \in Got :
                 Said(rest) /\ Lagging(g) /\ Head(net) = Line("after", Unread, g) /\ net' = rest
<1>1. Expects("after")
  BY DEF Result
<1>2. CASE Reported
  BY <1>1, <1>2, OfOne DEF Reported, Expects
<1>3. CASE ~Reported
  <2>1. PICK rest \in {<<>>, <<Announced>>, <<Ended>>}, g \in Got :
              /\ Said(rest) /\ Lagging(g) /\ at = <<"after", Unread>>
              /\ net = <<Line("after", Unread, g)>> \o rest
    BY <1>1, <1>3, HeardAfter, Zenon
  <2>2. ~guarded /\ Unread \in 0..N /\ k \in 0..N + 1
    <3>1. k \in 1..N + 1 /\ N \in Nat /\ tries \in Nat
      BY PlanFacts DEF IInv, TypeOK
    <3>2. tablet # "off"
      BY <2>1 DEF Said
    <3>3. tries > 0 => k <= N
      BY <3>2 DEF IInv, Places
    <3>4. QED
      BY <2>1, <3>1, <3>3 DEF Lagging, Unread
  <2>3. rest \in Seq(Lines) /\ Line("after", Unread, g) \in Lines
    BY <2>1, <2>2, RestTyped, LinesAre DEF IInv
  <2>4. Head(net) = Line("after", Unread, g) /\ net' = rest
    BY <1>1, <2>1, <2>3, OneBefore DEF Expects
  <2>5. tablet \in {"announce", "waiting", "finish", "exited"} /\ acks = <<>>
    <3>1. tablet # "stuck"
      BY <2>2 DEF IInv, Places
    <3>2. tablet \in {"announce", "waiting", "finish", "exited"} /\ (tablet = "waiting" => acks = <<>>)
      BY <2>1, <3>1 DEF Said
    <3>3. QED
      BY <3>2 DEF IInv, Spoken, Got
  <2>6. QED
    BY <2>1, <2>2, <2>4, <2>5, Zenon
<1>4. QED
  BY <1>2, <1>3

(* All but the last of one word, or it: what a broken session loses.        *)
LEMMA PrefixOfOne ==
  ASSUME NEW x, NEW m \in 0..Len(<<x>>) PROVE SubSeq(<<x>>, 1, m) \in {<<>>, <<x>>}
<1>1. <<x>> \in Seq({x}) /\ Len(<<x>>) = 1
  OBVIOUS
<1>2. SubSeq(<<x>>, 1, 1) = <<x>>
  BY <1>1, SubSeqFull, Zenon
<1>3. SubSeq(<<x>>, 1, 0) = <<>>
  BY <1>1, SubSeqEmpty
<1>4. m = 0 \/ m = 1
  BY <1>1
<1>5. QED
  BY <1>2, <1>3, <1>4

LEMMA EndsLoses == IInv /\ Ends => acks' = <<>> \/ acks' = acks
<1> SUFFICES ASSUME IInv, Ends PROVE acks' = <<>> \/ acks' = acks
  OBVIOUS
<1>1. PICK m \in 0..Len(acks) : acks' = SubSeq(acks, 1, m)
  BY DEF Ends
<1>2. acks = <<>> \/ \E x : acks = <<x>>
  BY DEF IInv, Spoken, Got
<1>3. CASE acks = <<>>
  <2>1. Len(acks) = 0
    BY <1>3
  <2>2. m = 0
    BY <1>1, <2>1
  <2>3. QED
    BY <1>1, <2>2, SubSeqEmpty
<1>4. CASE \E x : acks = <<x>>
  BY <1>1, <1>4, PrefixOfOne
<1>5. QED
  BY <1>2, <1>3, <1>4

LEMMA SpokenKeeps == IInv /\ Next => Spoken'
<1> SUFFICES ASSUME IInv, Spoken, Next PROVE Spoken'
  BY DEF IInv
<1> USE DEF Got
<1>1. CASE Connect \/ Reboots
  BY <1>1 DEF Connect, Reboots, Spoken
<1>2. CASE Hears
  <2>0. UNCHANGED <<guarded, tablet, k>>
    BY <1>2, HostLeaves
  <2>1. CASE ArmsWatchdog
    BY <2>0, <2>1, HeardOpen, OntoNone DEF ArmsWatchdog, Answer, Spoken
  <2>2. CASE Checkpoint
    <3>1. tablet = "waiting" /\ acks = <<>> /\ at[2] = k
      BY <2>2, Asked, HeardBefore
    <3>2. acks' = <<<<"go", k>>>>
      BY <2>2, <3>1, Asked, OntoNone DEF Answer
    <3>3. QED
      BY <2>0, <3>1, <3>2 DEF Spoken
  <2>3. CASE Result
    <3>1. CASE guarded
      <4>1. tablet \in Got /\ at[2] = k /\ acks = <<>>
        BY <2>3, <3>1, ResultFinds
      <4>2. acks' = <<<<"feed", k>>>>
        BY <2>3, <3>1, <4>1, Asked, OntoNone DEF Result, Answer
      <4>3. QED
        BY <2>0, <3>1, <4>1, <4>2 DEF Spoken
    <3>2. CASE ~guarded
      BY <2>0, <2>3, <3>2 DEF Result, Spoken
    <3>3. QED
      BY <3>1, <3>2
  <2>4. CASE Armed \/ Finished \/ Disarmed
    BY <2>0, <2>4 DEF Armed, Finished, Disarmed, Spoken
  <2>5. QED
    BY <1>2, <2>1, <2>2, <2>3, <2>4 DEF Hears
<1>3. CASE Ends
  <2>1. acks' = <<>> \/ acks' = acks
    BY <1>3, EndsLoses
  <2>2. UNCHANGED <<guarded, tablet, k>>
    BY <1>3, HostLeaves
  <2>3. QED
    BY <2>1, <2>2 DEF Spoken
<1>4. CASE Moves
  <2>0. guarded' = guarded
    BY <1>4, TabletLeaves
  <2>1. CASE \E ok \in BOOLEAN : Arms(ok)
    BY <2>1, WordTaken DEF Arms, Spoken
  <2>2. CASE Announces \/ Refuses
    BY <2>2 DEF Announces, Refuses, GivenUp, link, Spoken
  <2>3. CASE Accesses \/ Hangs
    BY <2>3, Asked, WordTaken DEF Accesses, Hangs, Spoken
  <2>4. CASE Judges
    <3>1. acks' = <<>>
      BY <2>4, WordTaken DEF Judges, Spoken
    <3>2. QED
      BY <3>1 DEF Spoken
  <2>5. CASE Finishes \/ \E ok \in BOOLEAN : Disarms(ok)
    <3>1. acks' = acks /\ tablet \in {"finish", "announce", "disarm"}
      BY <2>5 DEF Finishes, Disarms
    <3>2. QED
      BY <3>1 DEF Spoken
  <2>6. CASE HearsNothing
    BY <2>6 DEF HearsNothing, GoneSilent, link, Spoken
  <2>7. QED
    BY <1>4, <2>1, <2>2, <2>3, <2>4, <2>5, <2>6 DEF Moves
<1>5. QED
  BY <1>1, <1>2, <1>3, <1>4, Steps4

LEMMA DownKeeps == IInv /\ Next => Down'
<1> SUFFICES ASSUME IInv, Down, Next PROVE Down'
  BY DEF IInv
<1>1. CASE Connect \/ Reboots
  BY <1>1 DEF Connect, Reboots, Down, hostVars
<1>2. CASE Hears
  <2>1. conn /\ conn' = conn /\ host = "run" /\ tablet # "off"
    BY <1>2, HostLeaves DEF Down
  <2>2. host' \in {"run", "ok"}
    BY <1>2, HostLeaves, Zenon DEF Hears, ArmsWatchdog, Armed, Checkpoint, Result, Finished, Disarmed
  <2>3. QED
    BY <1>2, <2>1, <2>2, HostLeaves DEF Down
<1>3. CASE Ends
  <2>1. host = "run" /\ ~conn' /\ net' = <<>> /\ host' \in {"stalled", "failed"}
    BY <1>3 DEF Ends
  <2>2. acks = <<>> => acks' = <<>>
    BY <1>3, EndsLoses
  <2>3. QED
    BY <1>3, <2>1, <2>2, HostLeaves DEF Down
<1>4. CASE Moves
  <2>1. UNCHANGED <<host, conn>>
    BY <1>4, TabletLeaves
  <2>2. ~conn => net' = net
    BY <1>4, Zenon DEF Moves, Arms, Disarms, Announces, Refuses, Accesses, Hangs, Judges, Finishes, HearsNothing, Say, link
  <2>3. tablet # "off" /\ tablet' # "off"
    <3>1. CASE \E ok \in BOOLEAN : Arms(ok) \/ Disarms(ok)
      BY <3>1 DEF Arms, Disarms
    <3>2. CASE Announces \/ Refuses \/ Judges \/ HearsNothing
      BY <3>2 DEF Announces, Refuses, Judges, HearsNothing, GivenUp
    <3>3. CASE Accesses \/ Hangs \/ Finishes
      BY <3>3 DEF Accesses, Hangs, Finishes
    <3>4. QED
      BY <1>4, <3>1, <3>2, <3>3 DEF Moves
  <2>4. QED
    BY <2>1, <2>2, <2>3 DEF Down
<1>5. QED
  BY <1>1, <1>2, <1>3, <1>4, Steps4

-----------------------------------------------------------------------------
(* What the script does is nothing to the program.                          *)
LEMMA Undisturbed == IInv /\ (Hears \/ Ends) => Places' /\ Watched' /\ Marked' /\ Progress'
<1> SUFFICES ASSUME IInv, Hears \/ Ends PROVE Places' /\ Watched' /\ Marked' /\ Progress'
  OBVIOUS
<1>1. UNCHANGED <<script, guarded, tablet, k, tries, once, wd, made, right, wrong>>
  BY HostLeaves
<1>2. Plan' = Plan /\ N' = N
  BY <1>1 DEF Plan, N
<1>3. Places' /\ Watched'
  BY <1>1, <1>2 DEF IInv, Places, Watched
<1>4. \A p : Passed(p)' <=> Passed(p)
  BY <1>1 DEF Passed
<1>5. Marked'
  BY <1>1, <1>2, <1>4 DEF IInv, Marked, NothingTwice, Active
<1>6. \A m : AllRight(m)' <=> AllRight(m)
  BY <1>1, <1>2 DEF AllRight
<1>7. Progress'
  BY <1>1, <1>6 DEF IInv, Progress
<1>8. QED
  BY <1>3, <1>5, <1>7

LEMMA PlacesKeeps == IInv /\ Next => Places'
<1> SUFFICES ASSUME IInv, Places, Next PROVE Places'
  BY DEF IInv
<1> USE DEF Got
<1>0. /\ Plan' = Plan /\ N' = N /\ script' = script /\ guarded' = guarded
      /\ N \in Nat /\ k \in 1..N + 1 /\ tries \in Nat
      /\ N > 0 /\ (guarded => script.ends # "result")
      /\ ~guarded => script.ends # "stall"
  BY ScriptStays, PlanFacts DEF IInv, TypeOK
<1>1. script.ends \in {"finished", "result", "stall"}
  BY Zenon, ScriptsSound, CaptureAssumption DEF IInv, TypeOK, Sound
<1>2. CASE Connect \/ Reboots
  BY <1>0, <1>2 DEF Connect, Reboots, Places
<1>3. CASE Hears \/ Ends
  BY <1>3, Undisturbed
<1>4. CASE \E ok \in BOOLEAN : Arms(ok) \/ Disarms(ok)
  BY <1>0, <1>4 DEF Arms, Disarms, Places
<1>5. CASE Announces \/ Refuses \/ HearsNothing
  BY <1>0, <1>5 DEF Announces, Refuses, HearsNothing, GivenUp, Places
<1>6. CASE Accesses
  <2>1. /\ tablet = "waiting" /\ tablet' \in Got /\ UNCHANGED <<k, tries>>
        /\ tablet' = "busy" => Plan[k].poll
    <3>1. tablet = "waiting" /\ UNCHANGED <<k, tries>>
      BY <1>6 DEF Accesses
    <3>2. PICK got \in (IF script.mark = Device(k) /\ once THEN {"wrong"}
                        ELSE IF Plan[k].poll THEN {"right", "busy", "wrong"}
                        ELSE IF Plan[k] = Write THEN {"right"} ELSE {"right", "wrong"}) : tablet' = got
      BY <1>6, Zenon DEF Accesses
    <3>3. QED
      BY <3>1, <3>2
  <2>2. QED
    BY <1>0, <2>1 DEF Places
<1>7. CASE Hangs
  BY <1>0, <1>7 DEF Hangs, Places
<1>8. CASE Judges
  <2>1. CASE tablet = "busy"
    <3>1. k' = k /\ tries' = tries + 1 /\ tablet' \in {"announce", "stuck", "exited"} /\ (tablet' = "stuck" => guarded)
      BY <1>8, <2>1, JudgesTo DEF Judges, GivenUp
    <3>2. QED
      BY <1>0, <2>1, <3>1 DEF Places
  <2>2. CASE tablet # "busy"
    <3>1. /\ k \in 1..N /\ k' = k + 1 /\ tries' = 0
          /\ \/ tablet' = GivenUp
             \/ tablet' = "announce" /\ k < N
             \/ tablet' = "finish" /\ k = N
      BY <1>0, <1>8, <2>2, JudgesTo DEF Judges, Places
    <3>2. QED
      BY <1>0, <3>1 DEF GivenUp, Places
  <2>3. QED
    BY <2>1, <2>2
<1>9. CASE Finishes
  <2>1. /\ UNCHANGED <<k, tries>>
        /\ \/ tablet' = "stuck" /\ script.ends = "stall"
           \/ tablet' = "disarm" /\ guarded /\ script.ends # "stall"
           \/ tablet' = "exited"
        /\ k = N + 1 /\ tries = 0
    <3>1. tablet = "finish"
      BY <1>9 DEF Finishes
    <3>3. k = N + 1 /\ tries = 0
      BY <1>0, <3>1 DEF Places
    <3>4. QED
      BY <1>9, <3>3 DEF Finishes
  <2>2. QED
    BY <1>0, <1>1, <2>1 DEF Places
<1>10. QED
  BY <1>2, <1>3, <1>4, <1>5, <1>6, <1>7, <1>8, <1>9, Steps4 DEF Moves

LEMMA WatchedKeeps == IInv /\ Next => Watched'
<1> SUFFICES ASSUME IInv, Watched, Places, Next PROVE Watched'
  BY DEF IInv
<1> USE DEF Got
<1>0. guarded' = guarded
  BY ScriptStays
<1>1. CASE Connect \/ Reboots
  BY <1>0, <1>1 DEF Connect, Reboots, Watched
<1>2. CASE Hears \/ Ends
  BY <1>2, Undisturbed
<1>3. CASE \E ok \in BOOLEAN : Arms(ok) \/ Disarms(ok)
  BY <1>0, <1>3 DEF Arms, Disarms, Places, Watched
<1>4. CASE Announces \/ Refuses \/ HearsNothing
  BY <1>0, <1>4 DEF Announces, Refuses, HearsNothing, GivenUp, Watched
<1>5. CASE Accesses
  <2>1. tablet = "waiting" /\ tablet' \in Got /\ wd' = wd
    BY <1>5 DEF Accesses
  <2>2. QED
    BY <1>0, <2>1 DEF Watched
<1>6. CASE Hangs \/ Judges
  BY <1>0, <1>6 DEF Hangs, Judges, GivenUp, Watched
<1>7. CASE Finishes
  <2>1. ~guarded => script.ends # "stall"
    BY PlanFacts DEF IInv
  <2>2. QED
    BY <1>0, <1>7, <2>1 DEF Finishes, Watched
<1>8. QED
  BY <1>1, <1>2, <1>3, <1>4, <1>5, <1>6, <1>7, Steps4 DEF Moves

-----------------------------------------------------------------------------
(* One more access.                                                         *)
LEMMA OneMore ==
  ASSUME TypeOK, k \in 1..N
  PROVE  /\ Len(made) \in Nat /\ Len(Append(made, k)) = Len(made) + 1
         /\ \A n \in 1..Len(made) : made[n] \in 1..N /\ Append(made, k)[n] = made[n]
         /\ Append(made, k)[Len(made) + 1] = k
         /\ Range(Append(made, k)) = Range(made) \cup {k}
<1>1. made \in Seq(1..N)
  BY DEF TypeOK
<1>2. /\ Len(made) \in Nat /\ DOMAIN made = 1..Len(made)
      /\ \A n \in 1..Len(made) : made[n] \in 1..N
  BY <1>1, LenProperties, ElementOfSeq
<1>3. /\ Append(made, k) \in Seq(1..N) /\ Len(Append(made, k)) = Len(made) + 1
      /\ \A n \in 1..Len(made) : Append(made, k)[n] = made[n]
      /\ Append(made, k)[Len(made) + 1] = k
  BY <1>1, AppendProperties
<1>4. DOMAIN Append(made, k) = 1..Len(made) + 1
  BY <1>3, LenProperties
<1>5. Range(Append(made, k)) = Range(made) \cup {k}
  <2>1. \A n \in 1..Len(made) + 1 : n \in 1..Len(made) \/ n = Len(made) + 1
    BY <1>2
  <2>2. \A n \in 1..Len(made) : n \in 1..Len(made) + 1
    BY <1>2
  <2>3. Len(made) + 1 \in 1..Len(made) + 1
    BY <1>2
  <2>4. QED
    BY <1>2, <1>3, <1>4, <2>1, <2>2, <2>3, Zenon DEF Range
<1>6. QED
  BY <1>2, <1>3, <1>5

LEMMA ProgressKeeps == IInv /\ Next => Progress'
<1> SUFFICES ASSUME IInv, Progress, Next PROVE Progress'
  BY DEF IInv
<1> USE DEF Got
<1>0. /\ Plan' = Plan /\ N' = N /\ N \in Nat /\ k \in 1..N + 1 /\ TypeOK
      /\ \A p \in 1..N : script.mark = Device(p) => "host" \in Plan[p].judges
  BY ScriptStays, PlanFacts DEF IInv, TypeOK
<1>1. CASE Connect
  <2>1. k' - 1 = 0 /\ tablet' \notin {"right", "wrong"}
    BY <1>1 DEF Connect
  <2>2. AllRight(0)'
    BY <1>0 DEF AllRight
  <2>3. QED
    BY <2>1, <2>2 DEF Progress
<1>2. CASE Reboots
  BY <1>2 DEF Reboots, Progress
<1>3. CASE Hears \/ Ends
  BY <1>3, Undisturbed
<1>4. CASE Moves /\ ~Accesses /\ ~Hangs
  <2>1. UNCHANGED <<made, right, wrong>>
    BY <1>4, Zenon DEF Moves, Arms, Disarms, Announces, Refuses, Judges, Finishes, HearsNothing, hist
  <2>2. \A m : AllRight(m)' <=> AllRight(m)
    BY <1>0, <2>1 DEF AllRight
  <2>3. tablet # "off" /\ tablet' \notin {"right", "wrong"}
    BY <1>4 DEF Moves, Arms, Disarms, Announces, Refuses, Judges, Finishes, HearsNothing, GivenUp
  <2>4. CASE Judges /\ tablet \in {"right", "wrong"}
    <3>1. k' = k + 1 /\ k' - 1 = k
      BY <1>0, <2>4 DEF Judges
    <3>2. QED
      BY <2>1, <2>2, <2>3, <2>4, <3>1 DEF Progress
  <2>5. CASE ~(Judges /\ tablet \in {"right", "wrong"})
    <3>1. k' = k
      BY <1>4, <2>5 DEF Moves, Arms, Disarms, Announces, Refuses, Judges, Finishes, HearsNothing
    <3>2. QED
      BY <2>1, <2>2, <2>3, <3>1 DEF Progress
  <2>6. QED
    BY <2>4, <2>5
<1>5. CASE Accesses
  <2>1. /\ tablet = "waiting" /\ k' = k /\ k \in 1..N
        /\ made' = made \/ made' = Append(made, k)
        /\ right' = right \/ right' = right \cup {k}
        /\ tablet' = "right" => right' = right \cup {k} /\ made' = Append(made, k)
        /\ ~wrong' => ~wrong /\ (tablet' = "wrong" => Plan[k].judges = {})
        /\ made' = made => script.mark = Device(k)
    <3>1. tablet = "waiting" /\ k' = k /\ k \in 1..N
      BY <1>0, <1>5 DEF Accesses, IInv, Places
    <3>2. made' = IF script.mark = Device(k) /\ once THEN made ELSE Append(made, k)
      BY <1>5 DEF Accesses
    <3>3. PICK got \in (IF script.mark = Device(k) /\ once THEN {"wrong"}
                        ELSE IF Plan[k].poll THEN {"right", "busy", "wrong"}
                        ELSE IF Plan[k] = Write THEN {"right"} ELSE {"right", "wrong"}) :
                 /\ tablet' = got
                 /\ right' = IF got = "right" THEN right \cup {k} ELSE right
                 /\ wrong' = (wrong \/ (got = "wrong" /\ Plan[k].judges # {}))
      BY <1>5, Zenon DEF Accesses
    <3>4. got = "right" => ~(script.mark = Device(k) /\ once)
      BY <3>3
    <3>5. made' = made => script.mark = Device(k)
      BY <1>0, <3>1, <3>2, OneMore
    <3>6. ~wrong' => ~wrong /\ (tablet' = "wrong" => Plan[k].judges = {})
      BY <3>3, Zenon
    <3>7. QED
      BY <3>1, <3>2, <3>3, <3>4, <3>5, <3>6
  <2>2. /\ Range(made) \subseteq Range(made')
        /\ made' = Append(made, k) => k \in Range(made')
    BY <1>0, <2>1, OneMore
  <2>3. ASSUME NEW m, AllRight(m) PROVE AllRight(m)'
    BY <1>0, <2>1, <2>2, <2>3 DEF AllRight
  <2>4. ~wrong' => AllRight(k - 1) /\ AllRight(k - 1)'
    BY <2>1, <2>3 DEF Progress
  <2>5. ASSUME ~wrong', tablet' \in {"right", "wrong"} PROVE AllRight(k)'
    <3>1. k \in Range(made') /\ (Plan[k].judges # {} => k \in right')
      BY <1>0, <2>1, <2>2, <2>5
    <3>2. /\ 1..k - 1 \subseteq Range(made')
          /\ \A i \in 1..k - 1 : Plan[i].judges # {} => i \in right'
      <4>1. AllRight(k - 1)'
        BY <2>4, <2>5
      <4>2. QED
        BY <1>0, <2>1, <4>1 DEF AllRight
    <3>3. ASSUME NEW i \in 1..k PROVE i \in Range(made') /\ (Plan[i].judges # {} => i \in right')
      <4>1. i = k \/ i \in 1..k - 1
        BY <2>1, <1>0
      <4>2. QED
        BY <3>1, <3>2, <4>1, Zenon
    <3>4. QED
      BY <1>0, <2>1, <3>3 DEF AllRight
  <2>6. QED
    BY <2>1, <2>4, <2>5 DEF Progress
<1>6. CASE Hangs
  <2>1. /\ tablet = "waiting" /\ tablet' = "hung" /\ k' = k /\ k \in 1..N
        /\ made' = Append(made, k) /\ UNCHANGED <<right, wrong>>
    BY <1>0, <1>6 DEF Hangs, IInv, Places
  <2>2. Range(made) \subseteq Range(made')
    BY <1>0, <2>1, OneMore
  <2>3. QED
    BY <1>0, <2>1, <2>2 DEF Progress, AllRight
<1>7. QED
  BY <1>1, <1>2, <1>3, <1>4, <1>5, <1>6, Steps4 DEF Moves

(* A write that is allowed has not been made before, and leaves its mark.   *)
LEMMA FirstWrite ==
  ASSUME IInv, tablet = "waiting", ~(script.mark = Device(k) /\ once), Plan[k].write
  PROVE  /\ once \/ script.mark = Device(k)
         /\ \A n \in 1..Len(made) : made[n] # k
<1>1. k \in 1..N /\ TypeOK /\ N \in Nat /\ Marked
  BY PlanFacts DEF IInv, Places, TypeOK
<1>2. \A n \in 1..Len(made) : made[n] \in 1..N
  BY <1>1, OneMore
<1>3. CASE script.mark = Device(k)
  BY <1>1, <1>3 DEF Marked
<1>4. CASE \E p \in 1..N : script.mark = Program(p) /\ \A i \in 1..p - 1 : ~Plan[i].write
  <2>1. PICK p \in 1..N : script.mark = Program(p) /\ \A i \in 1..p - 1 : ~Plan[i].write
    BY <1>4
  <2>2. k >= p
    BY <1>1, <2>1
  <2>3. Passed(p) /\ Active
    BY <1>1, <2>1, <2>2 DEF Passed, Active
  <2>4. once
    BY <1>1, <2>1, <2>3, Zenon DEF Marked
  <2>5. ASSUME NEW n \in 1..Len(made), made[n] = k PROVE FALSE
    <3>1. ~(made[n] < k)
      BY <1>1, <2>5
    <3>2. ~(tablet \in Got)
      BY DEF Got
    <3>3. \A q \in 1..N : script.mark = Program(q) => q = p
      BY <2>1 DEF Program
    <3>4. ~\E q \in 1..N : script.mark = Program(q) /\ ~Passed(q)
      BY <2>3, <3>3, Zenon
    <3>5. script.mark # Device(made[n])
      BY <2>1 DEF Program, Device
    <3>6. QED
      BY <1>1, <2>3, <2>5, <3>1, <3>2, <3>4, <3>5, Zenon DEF Marked
  <2>6. QED
    BY <2>4, <2>5
<1>5. CASE \E p \in 1..N : script.mark = Device(p) /\ \A i \in 1..N : Plan[i].write => i = p
  BY <1>1, <1>3, <1>5
<1>6. QED
  BY <1>1, <1>3, <1>4, <1>5, PlanFacts DEF Sealed, N, Plan

LEMMA OnlyOnce ==
  ASSUME IInv, tablet = "waiting", ~(script.mark = Device(k) /\ once), made' = Append(made, k), Plan' = Plan
  PROVE  NothingTwice'
<1>1. k \in 1..N /\ TypeOK /\ NothingTwice
  BY PlanFacts DEF IInv, Places, TypeOK, Marked
<1>2. /\ Len(made') = Len(made) + 1 /\ Len(made) \in Nat /\ made'[Len(made) + 1] = k
      /\ \A n \in 1..Len(made) : made'[n] = made[n]
  BY <1>1, OneMore
<1>3. ASSUME NEW m \in 1..Len(made'), NEW n \in 1..Len(made'), m < n, Plan[made'[m]].write PROVE made'[m] # made'[n]
  <2>1. m \in 1..Len(made) /\ made'[m] = made[m]
    BY <1>2, <1>3
  <2>2. CASE n = Len(made) + 1
    BY <1>2, <1>3, <2>1, <2>2, FirstWrite
  <2>3. CASE n \in 1..Len(made)
    BY <1>1, <1>2, <1>3, <2>1, <2>3 DEF NothingTwice
  <2>4. QED
    BY <1>2, <1>3, <2>2, <2>3
<1>4. QED
  BY <1>3 DEF NothingTwice

(* At the head of the plan nothing is passed.                               *)
LEMMA AtHead ==
  ASSUME TypeOK, NEW n \in 1..N, Plan[n].write
  PROVE  (\E p \in 1..N : script.mark = Program(p)) \/ script.mark = Device(n)
BY PlanFacts DEF Sealed, N, Plan

LEMMA MarkedKeeps == IInv /\ Next => Marked'
<1> SUFFICES ASSUME IInv, Marked, Next PROVE Marked'
  BY DEF IInv
<1>0. /\ Plan' = Plan /\ N' = N /\ script' = script /\ N \in Nat /\ k \in 1..N + 1 /\ TypeOK /\ tries \in Nat
      /\ \A n \in 1..Len(made) : made[n] \in 1..N
  <2>1. made \in Seq(1..N)
    BY DEF IInv, TypeOK
  <2>2. QED
    BY <2>1, ScriptStays, PlanFacts, ElementOfSeq DEF IInv, TypeOK
<1>1. CASE Reboots
  <2>1. Len(made') = 0 /\ tablet' = "off"
    BY <1>1 DEF Reboots
  <2>2. QED
    BY <2>1 DEF Marked, NothingTwice, Active, Got
<1>2. CASE Hears \/ Ends
  BY <1>2, Undisturbed
<1>3. ASSUME UNCHANGED <<made, once>>, k' = 1, tries' = 0, tablet' = "announce", tablet # "hung" PROVE Marked'
  <2>1. \A p \in 1..N : ~Passed(p)'
    BY <1>3 DEF Passed
  <2>2. \A n \in 1..Len(made) : Plan[made[n]].write =>
          (\E p \in 1..N : script.mark = Program(p)) \/ script.mark = Device(made[n])
    BY <1>0, AtHead
  <2>3. \A n \in 1..Len(made') : Plan'[made'[n]].write =>
          (\E p \in 1..N' : script'.mark = Program(p) /\ ~Passed(p)') \/ script'.mark = Device(made'[n])
    BY <1>0, <1>3, <2>1, <2>2
  <2>4. QED
    BY <1>0, <1>3, <2>1, <2>3 DEF Marked, NothingTwice
<1>4. ASSUME UNCHANGED <<made, once>>, tablet' \notin {"announce", "waiting"} \cup Got, tablet # "hung" PROVE Marked'
  BY <1>0, <1>4 DEF Marked, NothingTwice, Active
<1>5. CASE Connect
  <2>1. UNCHANGED <<made, once>> /\ k' = 1 /\ tries' = 0 /\ tablet' \in {"asking", "announce"} /\ tablet # "hung"
    BY <1>5 DEF Connect
  <2>2. QED
    BY <1>3, <1>4, <2>1 DEF Got
<1>6. CASE \E ok \in BOOLEAN : Arms(ok)
  <2>1. /\ UNCHANGED <<made, once, k, tries>> /\ tablet' \in {"exited", "announce"} /\ tablet = "asking"
    BY <1>6 DEF Arms, hist
  <2>2. k = 1 /\ tries = 0
    BY <2>1 DEF IInv, Places
  <2>3. QED
    BY <1>3, <1>4, <2>1, <2>2 DEF Got
<1>7. CASE (\E ok \in BOOLEAN : Disarms(ok)) \/ Refuses \/ Finishes \/ HearsNothing
  <2>1. UNCHANGED <<made, once>> /\ tablet' \in {"exited", "stuck", "disarm"} /\ tablet # "hung"
    BY <1>7 DEF Disarms, Refuses, Finishes, HearsNothing, GivenUp, hist
  <2>2. QED
    BY <1>4, <2>1 DEF Got
<1>8. CASE Announces
  <2>1. CASE script.mark = Program(k) /\ tries = 0 /\ once
    BY <1>4, <1>8, <2>1 DEF Announces, GivenUp, hist, Got
  <2>2. CASE ~(script.mark = Program(k) /\ tries = 0 /\ once)
    <3>1. /\ tablet' = "waiting" /\ tablet = "announce" /\ UNCHANGED <<made, k, tries>>
          /\ once' = (once \/ script.mark = Program(k))
      BY <1>8, <2>2 DEF Announces, hist
    <3>2. \A n \in 1..Len(made) : Plan[made[n]].write => once
      BY <3>1 DEF Marked
    <3>3. \A p \in 1..N : script.mark = Program(p) /\ Passed(p)' => once'
      <4> SUFFICES ASSUME NEW p \in 1..N, script.mark = Program(p), Passed(p)', p # k PROVE once'
        BY <3>1
      <4>1. k > p
        BY <3>1 DEF Passed
      <4>2. once
        BY <3>1, <4>1 DEF Marked, Active, Passed
      <4>3. QED
        BY <3>1, <4>2
    <3>4. \A n \in 1..Len(made) : Plan[made[n]].write =>
             \/ made[n] < k
             \/ \E p \in 1..N : script.mark = Program(p) /\ ~Passed(p)'
             \/ script.mark = Device(made[n])
      <4> SUFFICES ASSUME NEW n \in 1..Len(made), Plan[made[n]].write, ~(made[n] < k), script.mark # Device(made[n])
                   PROVE  \E p \in 1..N : script.mark = Program(p) /\ ~Passed(p)'
        OBVIOUS
      <4>1. PICK p \in 1..N : script.mark = Program(p) /\ ~Passed(p)
        <5>1. Active /\ tablet \notin Got
          BY <3>1 DEF Active, Got
        <5>2. QED
          BY <5>1, Zenon DEF Marked
      <4>2. once
        BY <3>2
      <4>3. p # k
        <5>1. p = k => tries = 0
          BY <1>0, <4>1 DEF Passed
        <5>2. QED
          BY <2>2, <4>1, <4>2, <5>1
      <4>4. ~Passed(p)'
        BY <1>0, <3>1, <4>1, <4>3 DEF Passed
      <4>5. QED
        BY <4>1, <4>4
    <3>5. Marked'
      BY <1>0, <3>1, <3>2, <3>3, <3>4 DEF Marked, NothingTwice
    <3>6. QED
      BY <3>5
  <2>3. QED
    BY <2>1, <2>2
<1>9. CASE Accesses
  <2>1. /\ tablet = "waiting" /\ tablet' \in Got /\ k \in 1..N /\ UNCHANGED <<k, tries>>
        /\ once' = (once \/ script.mark = Device(k))
        /\ made' = IF script.mark = Device(k) /\ once THEN made ELSE Append(made, k)
    <3>1. k \in 1..N
      BY <1>0, <1>9 DEF Accesses, IInv, Places
    <3>2. QED
      BY <1>9, <3>1 DEF Accesses, Got
  <2>2. \A p : Passed(p)' <=> Passed(p)
    BY <2>1 DEF Passed, Got
  <2>3. \A p \in 1..N : script.mark = Program(p) /\ Passed(p)' => once'
    BY <2>1, <2>2 DEF Marked, Active
  <2>4. \A n \in 1..Len(made) : Plan[made[n]].write =>
          /\ once
          /\ \/ made[n] < k
             \/ \E p \in 1..N : script.mark = Program(p) /\ ~Passed(p)
             \/ script.mark = Device(made[n])
    <3>1. tablet # "hung" /\ Active /\ tablet \notin Got
      BY <2>1 DEF Active, Got
    <3>2. QED
      BY <3>1, Zenon DEF Marked
  <2>5. CASE script.mark = Device(k) /\ once
    BY <1>0, <2>1, <2>2, <2>3, <2>4, <2>5 DEF Marked, NothingTwice
  <2>6. CASE ~(script.mark = Device(k) /\ once)
    <3>1. NothingTwice'
      BY <1>0, <2>1, <2>6, OnlyOnce
    <3>2. /\ Len(made') = Len(made) + 1 /\ Len(made) \in Nat /\ made'[Len(made) + 1] = k
          /\ \A n \in 1..Len(made) : made'[n] = made[n]
      BY <1>0, <2>1, <2>6, OneMore
    <3>3. ASSUME NEW n \in 1..Len(made'), Plan[made'[n]].write
          PROVE  /\ once'
                 /\ \/ made'[n] < k'
                    \/ made'[n] = k'
                    \/ \E p \in 1..N : script.mark = Program(p) /\ ~Passed(p)'
                    \/ script.mark = Device(made'[n])
      <4>1. CASE n = Len(made) + 1
        BY <2>1, <2>6, <3>2, <3>3, <4>1, FirstWrite
      <4>2. CASE n \in 1..Len(made)
        BY <2>1, <2>2, <2>4, <3>2, <3>3, <4>2
      <4>3. QED
        BY <3>2, <3>3, <4>1, <4>2
    <3>4. QED
      BY <1>0, <2>1, <2>3, <3>1, <3>3 DEF Marked
  <2>7. QED
    BY <2>5, <2>6
<1>10. CASE Hangs
  <2>1. NothingTwice'
    BY <1>0, <1>10, OnlyOnce DEF Hangs
  <2>2. tablet' = "hung"
    BY <1>10 DEF Hangs
  <2>3. QED
    BY <2>1, <2>2 DEF Marked, Active, Got
<1>11. CASE Judges
  <2>0. UNCHANGED <<made, once>> /\ tablet \in Got /\ tablet # "hung" /\ Active
    BY <1>11 DEF Judges, hist, Got, Active
  <2>1. CASE tablet' # "announce"
    <3>1. tablet' \notin {"announce", "waiting"} \cup Got
      BY <1>11, <2>1, JudgesTo DEF GivenUp, Got
    <3>2. QED
      BY <1>4, <2>0, <3>1
  <2>2. CASE tablet' = "announce"
    <3>1. /\ tablet = "busy" => k' = k /\ Plan[k].poll /\ k \in 1..N
          /\ tablet # "busy" => k' = k + 1 /\ tries' = 0
      BY <1>0, <1>11 DEF Judges, IInv, Places, Got
    <3>2. \A p \in 1..N : Passed(p)' => Passed(p)
      BY <1>0, <2>0, <2>2, <3>1 DEF Passed, Got
    <3>3. \A n \in 1..Len(made) : Plan[made[n]].write /\ made[n] = k => k' = k + 1
      BY <1>0, <3>1, KindFacts, PlanFacts
    <3>4. \A n \in 1..Len(made) : Plan[made[n]].write =>
            \/ made[n] < k'
            \/ \E p \in 1..N : script.mark = Program(p) /\ ~Passed(p)'
            \/ script.mark = Device(made[n])
      <4> SUFFICES ASSUME NEW n \in 1..Len(made), Plan[made[n]].write, ~(made[n] < k'), script.mark # Device(made[n])
                   PROVE  \E p \in 1..N : script.mark = Program(p) /\ ~Passed(p)'
        OBVIOUS
      <4>1. ~(made[n] < k) /\ made[n] # k
        BY <1>0, <3>1, <3>3
      <4>2. \E p \in 1..N : script.mark = Program(p) /\ ~Passed(p)
        BY <2>0, <4>1, Zenon DEF Marked
      <4>3. QED
        BY <3>2, <4>2
    <3>5. \A n \in 1..Len(made) : Plan[made[n]].write => once
      BY <2>0, Zenon DEF Marked
    <3>6. \A p \in 1..N : script.mark = Program(p) /\ Passed(p)' => once
      BY <2>0, <3>2, Zenon DEF Marked
    <3>7. QED
      BY <1>0, <2>0, <2>2, <3>4, <3>5, <3>6 DEF Marked, NothingTwice
  <2>3. QED
    BY <2>1, <2>2
<1>12. QED
  BY <1>1, <1>2, <1>5, <1>6, <1>7, <1>8, <1>9, <1>10, <1>11, Steps4 DEF Moves

-----------------------------------------------------------------------------
(* A line more, and nothing new, behind a script that lags.                 *)
LEMMA TrailSame ==
  ASSUME NEW rest, Trail(rest), UNCHANGED <<at, net, k, tries, guarded>>, N' = N PROVE Trail(rest)'
<1>1. Awaited' = Awaited /\ Unread' = Unread /\ \A g : Lagging(g)' <=> Lagging(g)
  BY DEF Awaited, Unread, Lagging
<1>2. QED
  BY <1>1, Zenon DEF Trail, Line

LEMMA TrailSay ==
  ASSUME TypeOK, Trail(<<>>), NEW x \in Lines, net' = Append(net, x),
         UNCHANGED <<at, k, tries, guarded>>, N' = N, tries > 0 => k <= N
  PROVE  Trail(<<x>>)'
<1>1. Awaited' = Awaited /\ Unread' = Unread /\ \A g : Lagging(g)' <=> Lagging(g)
  BY DEF Awaited, Unread, Lagging
<1>2. CASE at = Awaited /\ net = <<>>
  BY <1>1, <1>2, OntoNone DEF Trail
<1>3. ASSUME NEW a \in Lines, net = <<a>> \o <<>> PROVE net' = <<a>> \o <<x>>
  <2>1. <<>> \in Seq(Lines)
    OBVIOUS
  <2>2. Append(<<a>> \o <<>>, x) = <<a>> \o Append(<<>>, x)
    BY <2>1, OneBefore
  <2>3. QED
    BY <1>3, <2>2, OntoNone
<1>4. CASE guarded /\ k = 1 /\ at = <<"armed", 0>> /\ net = <<Line("armed", 0, "right")>> \o <<>>
  <2>1. Line("armed", 0, "right") \in Lines
    BY LinesAre
  <2>2. net' = <<Line("armed", 0, "right")>> \o <<x>>
    BY <1>3, <1>4, <2>1
  <2>3. QED
    BY <1>4, <2>2, Zenon DEF Trail, Line
<1>5. CASE \E g \in Got : /\ Lagging(g) /\ at = <<"after", Unread>>
                         /\ net = <<Line("after", Unread, g)>> \o <<>>
  <2>1. PICK g \in Got : /\ Lagging(g) /\ at = <<"after", Unread>>
                         /\ net = <<Line("after", Unread, g)>> \o <<>>
    BY <1>5
  <2>2. Unread \in 0..N
    BY PlanFacts DEF TypeOK, Unread
  <2>3. Line("after", Unread, g) \in Lines
    BY <2>2, LinesAre
  <2>4. net' = <<Line("after", Unread, g)>> \o <<x>>
    BY <1>3, <2>1, <2>3
  <2>5. QED
    BY <1>1, <2>1, <2>4, Zenon DEF Trail, Line
<1>6. QED
  BY <1>2, <1>4, <1>5, Zenon DEF Trail

(* The program's place tells what it can have said that is still unread.    *)
LEMMA InStep ==
  ASSUME Link, tablet \in {"announce", "finish"} PROVE Trail(<<>>)
<1>1. Goes
  BY DEF Link, Asks, Allowed, Lost, Reported, Passing, Closing, Closed, Got
<1>2. PICK rest \in {<<>>, <<Announced>>, <<Ended>>} : Said(rest) /\ Trail(rest)
  BY <1>1 DEF Goes
<1>3. rest = <<>>
  BY <1>2 DEF Said
<1>4. QED
  BY <1>2, <1>3

LEMMA GoesOn ==
  ASSUME NEW rest \in {<<>>, <<Announced>>, <<Ended>>}, Said(rest), Trail(rest)',
         UNCHANGED <<tablet, acks, guarded, k, script>>
  PROVE  Link'
<1>1. Announced' = Announced /\ Ended' = Ended /\ N' = N
  BY DEF Announced, Ended, Line, N, Plan
<1>2. Said(rest)'
  BY <1>1 DEF Said
<1>3. rest \in {<<>>, <<Announced'>>, <<Ended'>>}
  BY <1>1
<1>4. Goes'
  BY <1>2, <1>3 DEF Goes
<1>5. QED
  BY <1>4 DEF Link

LEMMA LinkConnect == IInv /\ Connect => Link'
<1> SUFFICES ASSUME IInv, Connect PROVE Link'
  OBVIOUS
<1>0. N' = N /\ N \in Nat /\ guarded \in BOOLEAN /\ N > 0 /\ guarded' = guarded
  BY ScriptStays, PlanFacts DEF IInv, Next, Script
<1>1. CASE guarded
  <2>1. tablet' = "asking" /\ at' = <<"open", 0>> /\ net' = <<Line("open", 0, "right")>> /\ acks' = <<>>
    BY <1>1 DEF Connect
  <2>2. Asks'
    BY <2>1 DEF Asks, Line
  <2>3. QED
    BY <2>2 DEF Link
<1>2. CASE ~guarded
  <2>1. tablet' = "announce" /\ net' = <<>> /\ k' = 1 /\ at' = <<"before", 1>>
    BY <1>2 DEF Connect
  <2>2. Trail(<<>>)' /\ Said(<<>>)'
    BY <1>0, <2>1 DEF Trail, Awaited, Said
  <2>3. QED
    BY <2>2 DEF Link, Goes
<1>3. QED
  BY <1>1, <1>2

LEMMA LinkHears == IInv /\ Hears => (Live' => Link')
<1> SUFFICES ASSUME IInv, Hears, host' = "run" PROVE Link'
  BY DEF Live
<1>0. /\ UNCHANGED <<script, guarded, tablet, k, tries>> /\ N' = N /\ Plan' = Plan
      /\ k \in 1..N + 1 /\ N \in Nat /\ tries \in Nat
  BY HostLeaves, ScriptStays, PlanFacts DEF IInv, TypeOK, N, Plan
<1>1. CASE ArmsWatchdog
  <2>1. tablet = "asking" /\ acks = <<>> /\ net' = <<>> /\ at' = <<"armed", 0>>
    BY <1>1, HeardOpen, OfOne DEF ArmsWatchdog, Expects
  <2>2. acks' = <<<<"arm", 0>>>>
    BY <1>1, <2>1, OntoNone DEF ArmsWatchdog, Answer
  <2>3. Asks'
    BY <1>0, <2>1, <2>2 DEF Asks
  <2>4. QED
    BY <2>3 DEF Link
<1>2. CASE Armed
  <2>1. PICK rest \in {<<>>, <<Announced>>, <<Ended>>} : Said(rest) /\ net = <<Armed1>> \o rest
    BY <1>2, HeardArmed DEF Armed
  <2>2. guarded /\ k = 1 /\ N > 0 /\ at' = <<"before", 1>> /\ net' = Tail(net) /\ acks' = acks
    BY <1>2, HeardArmed DEF Armed, Expects
  <2>3. rest \in Seq(Lines) /\ Armed1 \in Lines
    <3>1. k \in 0..N
      BY <1>0, <2>2
    <3>2. Ended \in Lines /\ Announced \in Lines /\ Armed1 \in Lines
      BY <3>1, LinesAre DEF IInv, Ended, Announced, Armed1
    <3>3. <<>> \in Seq(Lines) /\ <<Announced>> \in Seq(Lines) /\ <<Ended>> \in Seq(Lines)
      BY <3>2
    <3>4. QED
      BY <2>1, <3>2, <3>3, Zenon
  <2>4. net' = rest
    BY <2>1, <2>2, <2>3, OneBefore
  <2>5. Trail(rest)'
    BY <1>0, <2>2, <2>4 DEF Trail, Awaited
  <2>6. QED
    BY <2>1, <2>2, <2>5, GoesOn, <1>0
<1>3. CASE Checkpoint
  <2>1. tablet = "waiting" /\ at = <<"before", k>> /\ acks = <<>> /\ net' = <<>>
    BY <1>3, Asked, HeardBefore, OfOne DEF Expects
  <2>2. acks' = <<<<"go", k>>>> /\ at' = <<"after", k>>
    BY <1>3, <2>1, Asked, OntoNone DEF Answer
  <2>3. Allowed'
    BY <1>0, <2>1, <2>2 DEF Allowed
  <2>4. QED
    BY <2>3 DEF Link
<1>4. CASE Result
  <2>0. PICK got : /\ got = Head(net)[3]
                   /\ at' = IF got = "busy" THEN <<"before", at[2]>> ELSE Following
                   /\ acks' = IF guarded THEN Append(acks, <<"feed", at[2]>>) ELSE acks
                   /\ Heard = at[2]
    BY <1>4, Asked DEF Result, Answer
  <2>1. CASE tablet \in Got /\ Head(net) = After(tablet) /\ net' = <<>> /\ at = <<"after", k>> /\ acks = <<>>
    <3>1. got = tablet /\ at[2] = k /\ Heard = k
      BY <2>0, <2>1 DEF After, Line
    <3>2. at' = Onward'
      BY <1>0, <2>0, <3>1 DEF Onward, Following
    <3>3. acks' = IF guarded THEN <<<<"feed", k>>>> ELSE <<>>
      BY <2>0, <2>1, <3>1, OntoNone
    <3>4. Passing'
      BY <1>0, <2>1, <3>2, <3>3 DEF Passing
    <3>5. QED
      BY <3>4 DEF Link
  <2>2. CASE /\ ~guarded /\ acks = <<>> /\ at = <<"after", Unread>>
             /\ \E rest \in {<<>>, <<Announced>>, <<Ended>>}, g \in Got :
                  Said(rest) /\ Lagging(g) /\ Head(net) = Line("after", Unread, g) /\ net' = rest
    <3>1. PICK rest \in {<<>>, <<Announced>>, <<Ended>>}, g \in Got :
                 Said(rest) /\ Lagging(g) /\ Head(net) = Line("after", Unread, g) /\ net' = rest
      BY <2>2
    <3>2. got = g /\ at[2] = Unread /\ Heard = Unread /\ acks' = acks
      BY <2>0, <2>2, <3>1 DEF Line
    <3>3. tablet # "off"
      BY <3>1 DEF Said
    <3>4. tries > 0 => k <= N
      BY <3>3 DEF IInv, Places
    <3>5. at' = Awaited
      <4>1. CASE tries > 0
        <5>1. got = "busy" /\ Unread = k
          BY <3>1, <3>2, <4>1 DEF Lagging, Unread
        <5>2. QED
          BY <2>0, <3>2, <3>4, <4>1, <5>1 DEF Awaited
      <4>2. CASE ~(tries > 0)
        <5>1. got # "busy" /\ Unread = k - 1
          BY <3>1, <3>2, <4>2 DEF Lagging, Unread
        <5>2. QED
          BY <1>0, <2>0, <3>2, <4>2, <5>1 DEF Awaited, Following
      <4>3. QED
        BY <4>1, <4>2
    <3>6. Trail(rest)'
      BY <1>0, <3>1, <3>5 DEF Trail, Awaited
    <3>7. QED
      BY <1>0, <3>1, <3>2, <3>6, GoesOn
  <2>3. QED
    BY <1>4, <2>1, <2>2, ResultFinds
<1>5. CASE Finished
  <2>1. guarded /\ at' = <<"disarmed", 0>> /\ net' = Tail(net)
    BY <1>5 DEF Finished, Expects
  <2>2. CASE tablet \in {"disarm", "stuck"} /\ net = <<Ended>>
    <3>1. net' = <<>>
      BY <2>1, <2>2, OfOne
    <3>2. Closing'
      BY <1>0, <2>1, <2>2, <3>1 DEF Closing
    <3>3. QED
      BY <3>2 DEF Link
  <2>3. CASE /\ tablet = "exited" /\ k = N + 1 /\ script.ends = "finished"
             /\ net = <<Ended, Line("disarmed", 0, "right")>>
    <3>1. net' = <<Line("disarmed", 0, "right")>>
      BY <2>1, <2>3
    <3>2. Closed'
      BY <1>0, <2>1, <2>3, <3>1 DEF Closed, Line
    <3>3. QED
      BY <3>2 DEF Link
  <2>4. QED
    BY <1>5, <2>1, <2>2, <2>3, HeardFinished DEF Finished
<1>6. CASE Disarmed
  BY <1>6 DEF Disarmed
<1>7. QED
  BY <1>1, <1>2, <1>3, <1>4, <1>5, <1>6 DEF Hears

LEMMA JudgedLate ==
  ASSUME NEW g \in Got, Lagging(g)', Unread' = k, at' = <<"after", k>>,
         net' = <<Line("after", k, g)>> \o <<>>
  PROVE  Trail(<<>>)'
BY Zenon DEF Trail, Line

LEMMA AtAccess ==
  Link /\ tablet = "waiting" /\ acks = <<<<"go", k>>>> => net = <<>> /\ at = <<"after", k>>
BY DEF Link, Goes, Said, Asks, Allowed, Lost, Reported, Passing, Closing, Closed, Got

LEMMA LinkMoves == IInv /\ Moves => (Live' => Link')
<1> SUFFICES ASSUME IInv, Moves, Live, Link, conn = TRUE PROVE Link'
  <2>1. Moves => UNCHANGED <<host, conn>>
    BY TabletLeaves
  <2>2. IInv => conn \in BOOLEAN
    BY TypeParts, Zenon DEF IInv, Flags
  <2>3. IInv /\ Live => Link
    BY Zenon DEF IInv
  <2>4. QED
    BY <2>1, <2>2, <2>3 DEF Live
<1>0. /\ UNCHANGED <<script, guarded, at>> /\ N' = N /\ Plan' = Plan
      /\ k \in 1..N + 1 /\ N \in Nat /\ tries \in Nat /\ TypeOK
      /\ N > 0 /\ (guarded => script.ends # "result")
      /\ ~guarded => script.ends # "stall"
  BY TabletLeaves, PlanFacts DEF IInv, TypeOK, N, Plan
<1>1. ASSUME UNCHANGED <<k, tries>>, tablet \in {"announce", "finish"}, tablet' = GivenUp, net' = net PROVE Link'
  <2>1. Trail(<<>>)'
    BY <1>0, <1>1, InStep, TrailSame
  <2>2. Said(<<>>)'
    BY <1>0, <1>1 DEF GivenUp, Said
  <2>3. QED
    BY <2>1, <2>2 DEF Link, Goes
<1>2. ASSUME NEW ok \in BOOLEAN, Arms(ok) PROVE Link'
  <2>1. tablet = "asking" /\ acks # <<>> /\ acks' = <<>> /\ UNCHANGED <<k, tries>>
    BY <1>2, WordTaken DEF Arms, Word
  <2>2. net = <<>> /\ at = <<"armed", 0>>
    BY <2>1 DEF Link, Goes, Said, Asks, Allowed, Lost, Reported, Passing, Closing, Closed, Got
  <2>3. guarded /\ k = 1
    BY <2>1 DEF IInv, Places
  <2>4. CASE ok
    <3>1. tablet' = "announce" /\ net' = <<Line("armed", 0, "right")>>
      BY <1>2, <2>2, <2>4, OntoNone DEF Arms, Say
    <3>2. <<Line("armed", 0, "right")>> = <<Line("armed", 0, "right")>> \o <<>>
      <4>1. <<Line("armed", 0, "right")>> \in Seq({Line("armed", 0, "right")})
        OBVIOUS
      <4>2. QED
        BY <4>1, ConcatEmptySeq
    <3>3. Trail(<<>>)'
      BY <1>0, <2>1, <2>2, <2>3, <3>1, <3>2 DEF Trail, Line
    <3>4. Said(<<>>)'
      BY <3>1 DEF Said
    <3>5. QED
      BY <3>3, <3>4 DEF Link, Goes
  <2>5. CASE ~ok
    <3>1. tablet' = "exited" /\ net' = <<>>
      BY <1>2, <2>2, <2>5 DEF Arms
    <3>2. Closed'
      BY <1>0, <2>2, <2>3, <3>1 DEF Closed
    <3>3. QED
      BY <3>2 DEF Link
  <2>6. QED
    BY <2>4, <2>5
<1>3. CASE Announces
  <2>0. tablet = "announce" /\ k <= N /\ k \in 0..N /\ UNCHANGED <<k, tries, acks>>
    BY <1>0, <1>3 DEF Announces
  <2>1. CASE script.mark = Program(k) /\ tries = 0 /\ once
    BY <1>1, <1>3, <2>0, <2>1 DEF Announces
  <2>2. CASE ~(script.mark = Program(k) /\ tries = 0 /\ once)
    <3>1. tablet' = "waiting" /\ net' = Append(net, Announced)
      BY <1>3, <2>2 DEF Announces, Say, Announced
    <3>2. Announced \in Lines
      BY <1>0, <2>0, LinesAre DEF Announced
    <3>3. acks' = <<>> /\ Announced' = Announced
      BY <2>0 DEF IInv, Spoken, Got, Announced, Line
    <3>4. Trail(<<Announced>>)'
      <4>1. PICK x \in Lines : x = Announced
        BY <3>2
      <4>2. Trail(<<x>>)'
        BY <1>0, <2>0, <3>1, <4>1, InStep, TrailSay
      <4>3. <<x>> = <<Announced'>>
        BY <3>3, <4>1
      <4>4. QED
        BY <4>2, <4>3, Zenon DEF Trail
    <3>5. Said(<<Announced>>)'
      BY <3>1, <3>3 DEF Said
    <3>6. QED
      BY <3>3, <3>4, <3>5 DEF Link, Goes
  <2>3. QED
    BY <2>1, <2>2
<1>4. CASE Refuses
  BY <1>1, <1>4 DEF Refuses, link
<1>5. CASE Accesses
  <2>1. tablet = "waiting" /\ acks = <<<<"go", k>>>> /\ acks' = <<>> /\ k' = k
    BY <1>5, Asked, WordTaken DEF Accesses
  <2>2. net = <<>> /\ at = <<"after", k>>
    BY <2>1, AtAccess
  <2>3. tablet' \in Got /\ net' = Append(net, Line("after", k, tablet'))
    <3>1. PICK got \in (IF script.mark = Device(k) /\ once THEN {"wrong"}
                        ELSE IF Plan[k].poll THEN {"right", "busy", "wrong"}
                        ELSE IF Plan[k] = Write THEN {"right"} ELSE {"right", "wrong"}) :
               tablet' = got /\ Say("after", k, got)
      BY <1>5, Zenon DEF Accesses
    <3>2. QED
      BY <3>1 DEF Got, Say
  <2>4. net' = <<After(tablet)'>>
    BY <2>1, <2>2, <2>3, OntoNone DEF After, Line
  <2>5. Reported'
    BY <1>0, <2>1, <2>2, <2>3, <2>4 DEF Reported
  <2>6. QED
    BY <2>5 DEF Link
<1>6. CASE Hangs
  <2>1. tablet = "waiting" /\ acks = <<<<"go", k>>>> /\ k' = k /\ tablet' = "hung" /\ net' = net
    BY <1>6, Asked, WordTaken DEF Hangs
  <2>2. net = <<>> /\ at = <<"after", k>>
    BY <2>1, AtAccess
  <2>3. Lost'
    BY <1>0, <2>1, <2>2 DEF Lost
  <2>4. QED
    BY <2>3 DEF Link
<1>7. CASE Judges
  <2>1. /\ tablet \in Got /\ k \in 1..N /\ net' = net
        /\ tablet = "busy" => k' = k /\ tries' = tries + 1
        /\ tablet # "busy" => k' = k + 1 /\ tries' = 0
    BY <1>0, <1>7 DEF Judges, IInv, Places, Got
  <2>2. \/ tablet' = GivenUp
        \/ tablet' = "announce"
        \/ tablet' = "finish"
    BY <1>7, JudgesTo
  <2>3. Said(<<>>)'
    BY <1>0, <2>2 DEF GivenUp, Said
  <2>4. Reported \/ Passing
    BY <2>1 DEF Link, Goes, Said, Asks, Allowed, Lost, Closing, Closed, Got
  <2>5. CASE Passing
    <3>1. at' = Awaited' /\ net' = <<>>
      BY <1>0, <2>1, <2>5 DEF Passing, Onward, Awaited
    <3>2. QED
      BY <2>3, <3>1 DEF Link, Goes, Trail
  <2>6. CASE Reported /\ ~guarded
    <3>0. PICK g \in Got : g = tablet
      BY <2>1
    <3>1. net = <<Line("after", k, g)>> /\ at' = <<"after", k>>
      BY <1>0, <2>6, <3>0 DEF Reported, After
    <3>2. Unread' = k /\ Lagging(g)'
      BY <1>0, <2>1, <2>6, <3>0 DEF Unread, Lagging
    <3>3. net' = <<Line("after", k, g)>> \o <<>>
      <4>1. <<Line("after", k, g)>> \in Seq({Line("after", k, g)})
        OBVIOUS
      <4>2. QED
        BY <2>1, <3>1, <4>1, ConcatEmptySeq
    <3>4. Trail(<<>>)'
      BY <2>1, <3>1, <3>2, <3>3, JudgedLate
    <3>5. QED
      BY <2>3, <3>4 DEF Link, Goes
  <2>7. CASE guarded /\ ~Passing
    BY <1>7, <2>4, <2>7 DEF Judges, Word, Reported
  <2>8. QED
    BY <2>4, <2>5, <2>6, <2>7
<1>8. CASE Finishes
  <2>1. tablet \in {"announce", "finish"} /\ k = N + 1 /\ tries = 0 /\ UNCHANGED <<k, tries, acks>>
    <3>1. tablet = "finish"
      BY <1>8 DEF Finishes
    <3>3. k = N + 1 /\ tries = 0
      BY <1>0, <3>1 DEF IInv, Places
    <3>4. QED
      BY <1>8, <3>1, <3>3 DEF Finishes
  <2>2. CASE script.ends = "finished"
    <3>1. net' = Append(net, Ended) /\ tablet' = IF guarded THEN "disarm" ELSE "exited"
      BY <1>8, <2>2 DEF Finishes, Say, Ended
    <3>2. Ended \in Lines /\ Ended' = Ended
      BY <1>0, LinesAre DEF Ended, Line
    <3>3. CASE guarded
      <4>1. at = Awaited /\ net = <<>>
        BY <1>0, <2>1, <3>3, InStep DEF Trail, Lagging
      <4>2. at' = <<"finished", 0>> /\ net' = <<Ended>>
        BY <1>0, <2>1, <3>1, <4>1, OntoNone DEF Awaited
      <4>3. Closing'
        BY <1>0, <3>1, <3>2, <3>3, <4>2 DEF Closing
      <4>4. QED
        BY <4>3 DEF Link
    <3>4. CASE ~guarded
      <4>1. Trail(<<Ended>>)'
        BY <1>0, <2>1, <3>1, <3>2, InStep, TrailSay
      <4>2. Said(<<Ended>>)'
        BY <1>0, <2>1, <2>2, <3>1, <3>2, <3>4 DEF Said
      <4>3. QED
        BY <3>2, <4>1, <4>2 DEF Link, Goes
    <3>5. QED
      BY <3>3, <3>4
  <2>3. CASE script.ends # "finished"
    <3>1. net' = net /\ tablet' = IF guarded THEN "stuck" ELSE "exited"
      <4>1. script.ends \in {"finished", "result", "stall"}
        BY Zenon, ScriptsSound, CaptureAssumption DEF IInv, TypeOK, Sound
      <4>2. QED
        BY <1>0, <1>8, <2>3, <4>1 DEF Finishes
    <3>2. QED
      BY <1>1, <2>1, <3>1 DEF GivenUp
  <2>4. QED
    BY <2>2, <2>3
<1>9. ASSUME NEW ok \in BOOLEAN, Disarms(ok) PROVE Link'
  <2>1. tablet = "disarm" /\ guarded /\ k = N + 1 /\ script.ends = "finished" /\ k' = k
    BY <1>9 DEF Disarms, IInv, Places
  <2>2. Closing
    BY <2>1 DEF Link, Goes, Said, Asks, Allowed, Lost, Reported, Passing, Closed, Got
  <2>3. Ended' = Ended
    BY DEF Ended, Line
  <2>4. CASE ok
    <3>1. tablet' = "exited" /\ net' = Append(net, Line("disarmed", 0, "right"))
      BY <1>9, <2>4 DEF Disarms, Say
    <3>2. Append(<<Ended>>, Line("disarmed", 0, "right")) = <<Ended, Line("disarmed", 0, "right")>>
      BY OntoOne
    <3>3. Closed'
      BY <1>0, <2>1, <2>2, <2>3, <3>1, <3>2, OntoNone DEF Closing, Closed, Line
    <3>4. QED
      BY <3>3 DEF Link
  <2>5. CASE ~ok
    <3>1. tablet' = "stuck" /\ net' = net
      BY <1>9, <2>5 DEF Disarms
    <3>2. Closing'
      BY <1>0, <2>1, <2>2, <2>3, <3>1 DEF Closing
    <3>3. QED
      BY <3>2 DEF Link
  <2>6. QED
    BY <2>4, <2>5
<1>10. CASE HearsNothing
  BY <1>10 DEF HearsNothing, GoneSilent
<1>11. QED
  BY <1>2, <1>3, <1>4, <1>5, <1>6, <1>7, <1>8, <1>9, <1>10 DEF Moves

LEMMA LinkKeeps == IInv /\ Next => (Live' => Link')
<1>1. Ends \/ Reboots => ~Live'
  BY DEF Ends, Reboots, Live
<1>2. QED
  BY <1>1, LinkConnect, LinkHears, LinkMoves, Steps4

-----------------------------------------------------------------------------
(* After a wrong result.                                                    *)
LEMMA HeadStays ==
  ASSUME TypeOK, net # <<>>, NEW x \in Lines PROVE Append(net, x) # <<>> /\ Head(Append(net, x)) = Head(net)
<1>1. net \in Seq(Lines) /\ Len(net) \in Nat /\ Len(net) # 0
  BY LenProperties, EmptySeq DEF TypeOK
<1>2. /\ Append(net, x) \in Seq(Lines) /\ Len(Append(net, x)) = Len(net) + 1
      /\ Append(net, x)[1] = net[1]
  BY <1>1, AppendProperties
<1>3. Append(net, x) # <<>>
  BY <1>1, <1>2, EmptySeq
<1>4. QED
  BY <1>1, <1>2, <1>3, HeadTailProperties

(* The script does not pass a result that is wrong by its own judgement.    *)
LEMMA Refused ==
  ASSUME IInv, Hears, wrong
  PROVE  Result /\ guarded /\ tablet = "wrong" /\ "program" \in Plan[k].judges
<1>1. Live /\ net # <<>>
  BY HostLeaves, Online
<1>2. ~Unpassed
  <2> SUFFICES ASSUME Unpassed PROVE FALSE
    OBVIOUS
  <2>1. at[1] = "after" /\ Head(net)[3] = "wrong" /\ "host" \in Plan[at[2]].judges
    BY DEF Unpassed, Line
  <2>2. Result
    <3>1. \/ Result
          \/ \E kind \in {"open", "armed", "before", "finished", "disarmed"} : Expects(kind)
      BY DEF Hears, ArmsWatchdog, Armed, Checkpoint, Finished, Disarmed
    <3>2. QED
      BY <2>1, <3>1, Taken
  <2>3. QED
    BY <2>1, <2>2, Asked DEF Result
<1>3. guarded /\ tablet = "wrong" /\ "program" \in Plan[k].judges
  BY <1>1, <1>2 DEF IInv, Halted
<1>4. /\ ArmsWatchdog => FALSE
      /\ Checkpoint => FALSE
      /\ Finished => FALSE
      /\ Disarmed => FALSE
  BY <1>3, HeardOpen, HeardBefore, HeardFinished, HeardDisarmed DEF ArmsWatchdog, Checkpoint, Finished, Disarmed
<1>5. Armed => FALSE
  BY <1>3, HeardArmed DEF Armed, Said
<1>6. QED
  BY <1>3, <1>4, <1>5 DEF Hears

LEMMA HaltedKeeps == IInv /\ Next => Halted'
<1> SUFFICES ASSUME IInv, Halted, Next, wrong' PROVE Halted'
  BY DEF IInv, Halted
<1>0. /\ Plan' = Plan /\ N' = N /\ guarded' = guarded /\ script' = script /\ TypeOK
      /\ k \in 1..N + 1 /\ N \in Nat
      /\ ~guarded => Judged(Plan) /\ script.ends # "stall"
      /\ guarded => script.ends # "result"
  BY ScriptStays, PlanFacts DEF IInv, TypeOK
<1>1. CASE Connect \/ Reboots
  BY <1>1 DEF Connect, Reboots
<1>2. CASE Hears
  <2>1. UNCHANGED <<tablet, k, wrong>>
    BY <1>2, HostLeaves
  <2>2. Result /\ guarded /\ tablet = "wrong" /\ "program" \in Plan[k].judges
    BY <1>2, <2>1, Refused
  <2>3. host' # "ok"
    BY <1>0, <2>2 DEF Result
  <2>4. QED
    BY <1>0, <2>1, <2>2, <2>3 DEF Halted
<1>3. CASE Ends
  <2>1. UNCHANGED <<tablet, k, wrong>>
    BY <1>3, HostLeaves
  <2>2. acks' = <<>> \/ acks' = acks
    BY <1>3, EndsLoses
  <2>3. host' # "ok" /\ ~Live'
    BY <1>3 DEF Ends, Live
  <2>4. QED
    BY <1>0, <2>1, <2>2, <2>3 DEF Halted
<1>4. CASE Moves
  <2>0. UNCHANGED <<host, at, conn>> /\ (Live' <=> Live)
    BY <1>4, TabletLeaves DEF Live
  <2>1. CASE Accesses
    <3>1. tablet = "waiting" /\ acks = <<<<"go", k>>>> /\ acks' = <<>> /\ k' = k /\ k \in 1..N
      BY <1>0, <2>1, Asked, WordTaken DEF Accesses, IInv, Places
    <3>2. ~wrong
      BY <3>1 DEF Halted
    <3>3. /\ tablet' = "wrong" /\ Plan[k].judges # {}
          /\ net' = IF conn THEN Append(net, Line("after", k, "wrong")) ELSE net
      <4>1. PICK got \in (IF script.mark = Device(k) /\ once THEN {"wrong"}
                          ELSE IF Plan[k].poll THEN {"right", "busy", "wrong"}
                          ELSE IF Plan[k] = Write THEN {"right"} ELSE {"right", "wrong"}) :
                   /\ Say("after", k, got) /\ tablet' = got
                   /\ wrong' = (wrong \/ (got = "wrong" /\ Plan[k].judges # {}))
        BY <2>1, Zenon DEF Accesses
      <4>2. got = "wrong" /\ Plan[k].judges # {}
        BY <3>2, <4>1, Zenon
      <4>3. QED
        BY <4>1, <4>2 DEF Say
    <3>4. host' # "ok"
      BY <2>0, <3>1 DEF IInv, Verdicts
    <3>5. ASSUME Live, "host" \in Plan[k].judges PROVE Unpassed'
      <4>1. net = <<>> /\ at = <<"after", k>> /\ conn
        BY <3>1, <3>5, AtAccess DEF IInv, Live
      <4>2. net' = <<Line("after", k, "wrong")>>
        BY <3>3, <4>1, OntoNone
      <4>3. QED
        BY <1>0, <2>0, <3>5, <4>1, <4>2, OfOne DEF Unpassed, Line
    <3>6. "host" \in Plan[k].judges \/ (guarded /\ "program" \in Plan[k].judges)
      <4>1. Plan[k].judges \subseteq {"host", "program"} \/ "host" \in Plan[k].judges
        BY <1>0, <3>1, KindFacts, PlanFacts
      <4>2. ~guarded => "host" \in Plan[k].judges
        BY <1>0, <3>1, <3>3 DEF Judged, N
      <4>3. QED
        BY <3>3, <4>1, <4>2
    <3>7. QED
      BY <1>0, <2>0, <3>1, <3>3, <3>4, <3>5, <3>6 DEF Halted
  <2>2. ASSUME ~Accesses PROVE wrong /\ wrong' = wrong
    BY <1>4, <2>2, Zenon DEF Moves, Arms, Disarms, Announces, Refuses, Hangs, Judges, Finishes, HearsNothing, hist
  <2>3. CASE (\E ok \in BOOLEAN : Arms(ok) \/ Disarms(ok)) \/ Hangs
    <3>1. tablet \in {"asking", "disarm", "waiting"} /\ (tablet = "waiting" => acks # <<>>)
      BY <2>3, Asked DEF Arms, Disarms, Hangs, Word
    <3>2. ~Accesses
      BY <2>3 DEF Accesses, Arms, Disarms, Hangs, Got
    <3>3. QED
      BY <2>2, <3>1, <3>2 DEF Halted
  <2>4. ASSUME wrong, wrong' = wrong, ~guarded, tablet' \in {"announce", "waiting", "finish", "exited"}, acks' = <<>>,
               net' = net \/ \E x \in Lines : net' = Append(net, x)
        PROVE  Halted'
    <3>1. Live => Unpassed
      BY <2>4 DEF Halted
    <3>2. Unpassed => Unpassed'
      BY <1>0, <2>0, <2>4, HeadStays DEF Unpassed, Line
    <3>3. QED
      BY <1>0, <2>0, <2>4, <3>1, <3>2 DEF Halted
  <2>5. CASE (Announces \/ Refuses \/ Finishes) /\ ~Accesses
    <3>1. ~guarded /\ acks = <<>> /\ acks' = acks /\ wrong /\ wrong' = wrong
      BY <2>2, <2>5 DEF Halted, Announces, Refuses, Finishes, link
    <3>2. tablet' \in {"waiting", "exited"}
      BY <1>0, <2>5, <3>1 DEF Announces, Refuses, Finishes, GivenUp
    <3>3. net' = net \/ \E x \in Lines : net' = Append(net, x)
      <4>1. Ended \in Lines /\ (k <= N => Announced \in Lines)
        BY <1>0, LinesAre DEF Announced, Ended
      <4>2. QED
        BY <2>5, <4>1, Zenon DEF Announces, Refuses, Finishes, Say, Announced, Ended, link
    <3>4. QED
      BY <2>4, <3>1, <3>2, <3>3
  <2>6. CASE Judges /\ ~Accesses
    <3>1. tablet = "wrong" /\ wrong /\ wrong' = wrong /\ net' = net
      BY <2>2, <2>6 DEF Halted, Judges
    <3>2. CASE guarded
      <4>1. acks # <<>> /\ acks' = <<>>
        BY <2>6, <3>1, <3>2, WordTaken DEF Judges, Word
      <4>2. "program" \in Plan[k].judges
        BY <3>1, <3>2, <4>1 DEF Halted
      <4>3. tablet' = "stuck"
        BY <2>6, <3>1, <3>2, <4>2, JudgesTo DEF GivenUp
      <4>4. Live => net' = <<>>
        BY <3>1, <4>1 DEF IInv, Link, Goes, Said, Asks, Allowed, Lost, Reported, Passing, Closing, Closed, Got
      <4>5. QED
        BY <1>0, <2>0, <3>1, <3>2, <4>1, <4>3, <4>4 DEF Halted
    <3>3. CASE ~guarded
      <4>1. acks' = <<>>
        BY <2>6, <3>1, <3>3 DEF Judges, IInv, Spoken, Got
      <4>2. tablet' \in {"announce", "finish", "exited"}
        BY <2>6, <3>3, JudgesTo DEF GivenUp
      <4>3. QED
        BY <2>4, <3>1, <3>3, <4>1, <4>2
    <3>4. QED
      BY <3>2, <3>3
  <2>7. CASE HearsNothing /\ ~Accesses
    <3>1. wrong /\ wrong' = wrong /\ ~Live /\ host # "ok" /\ acks' = <<>>
      BY <2>2, <2>7 DEF HearsNothing, GoneSilent, Halted, Live, link
    <3>2. tablet' \in {"exited", "stuck"}
      BY <2>7 DEF HearsNothing, GivenUp
    <3>3. QED
      BY <1>0, <2>0, <3>1, <3>2 DEF Halted
  <2>8. QED
    BY <1>4, <2>1, <2>3, <2>5, <2>6, <2>7 DEF Moves
<1>5. QED
  BY <1>1, <1>2, <1>3, <1>4, Steps4

-----------------------------------------------------------------------------
(* What the script says at the end.                                         *)
LEMMA VerdictGiven == IInv /\ Hears /\ host' = "ok" =>
  /\ ~wrong /\ AllRight(N) /\ net' = <<>> /\ acks' = <<>>
  /\ tablet \in {"right", "wrong", "finish", "exited"}
  /\ tablet # "exited" => ~guarded /\ script.ends = "result"
  /\ tablet \in {"right", "wrong"} => k = N
<1> SUFFICES ASSUME IInv, Hears, host' = "ok"
             PROVE  /\ ~wrong /\ AllRight(N) /\ net' = <<>> /\ acks' = <<>>
                    /\ tablet \in {"right", "wrong", "finish", "exited"}
                    /\ tablet # "exited" => ~guarded /\ script.ends = "result"
                    /\ tablet \in {"right", "wrong"} => k = N
  OBVIOUS
<1>0. /\ k \in 1..N + 1 /\ N \in Nat /\ tries \in Nat
      /\ guarded => script.ends # "result"
  BY PlanFacts DEF IInv, TypeOK
<1>1. ~wrong
  BY <1>0, Refused DEF Result
<1>2. CASE Result
  <2>1. at[2] = N /\ script.ends = "result" /\ ~guarded /\ Head(net)[3] # "busy" /\ acks' = acks
    BY <1>0, <1>2, Asked DEF Result
  <2>2. CASE tablet \in Got /\ Head(net) = After(tablet) /\ net' = <<>> /\ at = <<"after", k>> /\ acks = <<>>
    <3>1. k = N /\ tablet \in {"right", "wrong"}
      BY <2>1, <2>2 DEF After, Line, Got
    <3>2. AllRight(N)
      BY <1>1, <3>1 DEF IInv, Progress
    <3>3. QED
      BY <1>1, <2>1, <2>2, <3>1, <3>2
  <2>3. CASE /\ acks = <<>> /\ tablet \in {"announce", "waiting", "finish", "exited"} /\ at = <<"after", Unread>>
             /\ \E rest \in {<<>>, <<Announced>>, <<Ended>>}, g \in Got :
                  Said(rest) /\ Lagging(g) /\ Head(net) = Line("after", Unread, g) /\ net' = rest
    <3>1. PICK rest \in {<<>>, <<Announced>>, <<Ended>>}, g \in Got :
                 Said(rest) /\ Lagging(g) /\ Head(net) = Line("after", Unread, g) /\ net' = rest
      BY <2>3
    <3>2. g # "busy"
      BY <2>1, <3>1 DEF Line
    <3>3. k = N + 1
      BY <1>0, <2>1, <2>3, <3>1, <3>2 DEF Lagging, Unread
    <3>4. tablet \in {"finish", "exited"}
      <4>1. ~(k <= N)
        BY <1>0, <3>3
      <4>2. QED
        BY <1>0, <2>1, <2>3, <4>1 DEF IInv, Places
    <3>5. rest = <<>>
      BY <2>1, <3>1, <3>4 DEF Said
    <3>6. AllRight(N)
      <4>1. k - 1 = N
        BY <1>0, <3>3
      <4>2. QED
        BY <1>1, <3>4, <4>1 DEF IInv, Progress
    <3>7. QED
      BY <1>1, <2>1, <2>3, <3>1, <3>4, <3>5, <3>6
  <2>4. QED
    BY <1>2, <2>2, <2>3, ResultFinds
<1>3. ASSUME tablet = "exited", k = N + 1, net' = <<>>, acks' = acks PROVE AllRight(N) /\ acks' = <<>>
  <2>1. k - 1 = N
    BY <1>0, <1>3
  <2>2. AllRight(N)
    BY <1>1, <1>3, <2>1 DEF IInv, Progress
  <2>3. QED
    BY <1>3, <2>2 DEF IInv, Spoken, Got
<1>4. CASE Finished
  <2>1. tablet = "exited" /\ k = N + 1 /\ net = <<Ended>> /\ net' = Tail(net) /\ acks' = acks
    BY <1>4, HeardFinished DEF Finished, Expects
  <2>2. net' = <<>>
    BY <2>1, OfOne
  <2>3. QED
    BY <1>1, <1>3, <2>1, <2>2
<1>5. CASE Disarmed
  <2>1. tablet = "exited" /\ k = N + 1 /\ net = <<Line("disarmed", 0, "right")>> /\ net' = Tail(net) /\ acks' = acks
    BY <1>5, HeardDisarmed DEF Disarmed, Expects
  <2>2. net' = <<>>
    BY <2>1, OfOne
  <2>3. QED
    BY <1>1, <1>3, <2>1, <2>2
<1>6. CASE ArmsWatchdog \/ Armed \/ Checkpoint
  BY <1>6, HostLeaves DEF ArmsWatchdog, Armed, Checkpoint
<1>7. QED
  BY <1>2, <1>4, <1>5, <1>6 DEF Hears

\* The stall test's deadline is not that of a program that has ended.
LEMMA StallSeen == IInv /\ Ends /\ host' = "stalled" =>
  guarded /\ script.ends = "stall" /\ tablet \notin {"asking", "exited"}
<1> SUFFICES ASSUME IInv, Ends, host' = "stalled"
             PROVE  guarded /\ script.ends = "stall" /\ tablet \notin {"asking", "exited"}
  OBVIOUS
<1>1. script.ends = "stall" /\ at[1] = "finished" /\ host = "run"
  BY DEF Ends
<1>2. guarded
  BY <1>1, PlanFacts DEF IInv
<1>3. CASE conn
  <2>1. Link
    BY <1>1, <1>3 DEF IInv, Live
  <2>2. QED
    BY <1>1, <1>2, <2>1 DEF Link, Goes, Said, Asks, Allowed, Lost, Reported, Passing, Closing, Closed, Got
<1>4. CASE ~conn
  BY <1>1, <1>2, <1>4 DEF IInv, Down
<1>5. QED
  BY <1>1, <1>2, <1>3, <1>4

LEMMA VerdictsKeeps == IInv /\ Next => Verdicts'
<1> SUFFICES ASSUME IInv, Verdicts, Next PROVE Verdicts'
  BY DEF IInv
<1>0. /\ Plan' = Plan /\ N' = N /\ guarded' = guarded /\ script' = script /\ TypeOK
      /\ k \in 1..N + 1 /\ N \in Nat
  BY ScriptStays, PlanFacts DEF IInv, TypeOK
<1>1. CASE Connect
  BY <1>1 DEF Connect, Verdicts
<1>2. CASE Hears
  <2>1. host' \in {"run", "ok"}
    BY <1>2, HostLeaves, Zenon DEF Hears, ArmsWatchdog, Armed, Checkpoint, Result, Finished, Disarmed
  <2>2. UNCHANGED <<tablet, k, made, right, wrong>> /\ (AllRight(N)' <=> AllRight(N))
    BY <1>0, <1>2, HostLeaves DEF AllRight
  <2>3. QED
    BY <1>0, <1>2, <2>1, <2>2, VerdictGiven DEF Verdicts
<1>3. CASE Ends
  <2>1. host' # "ok" /\ tablet' = tablet
    BY <1>3, HostLeaves DEF Ends
  <2>2. QED
    BY <1>0, <1>3, <2>1, StallSeen DEF Verdicts
<1>4. CASE Reboots
  <2>1. host' = host /\ tablet' = "off"
    BY <1>4 DEF Reboots, hostVars
  <2>2. host # "ok"
    <3>1. host = "ok" => wd = "off" /\ tablet # "hung"
      BY DEF Verdicts, IInv, Watched
    <3>2. QED
      BY <1>4, <3>1 DEF Reboots
  <2>3. QED
    BY <1>0, <2>1, <2>2 DEF Verdicts
<1>5. CASE Moves
  <2>1. host' = host
    BY <1>5, TabletLeaves
  <2>2. ASSUME host = "ok" PROVE (Judges \/ Finishes) /\ UNCHANGED <<made, right, wrong, acks, net>>
    <3>1. /\ tablet \in {"right", "wrong", "finish", "exited"} /\ (tablet # "exited" => ~guarded /\ script.ends = "result")
      BY <2>2 DEF Verdicts
    <3>2. CASE Judges
      BY <3>1, <3>2 DEF Judges, hist, Got
    <3>3. CASE Finishes
      BY <3>1, <3>3 DEF Finishes, hist
    <3>4. CASE ~(Judges \/ Finishes)
      <4>1. HearsNothing => FALSE
        BY <3>1 DEF HearsNothing
      <4>2. QED
        BY <1>5, <3>1, <3>4, <4>1 DEF Moves, Arms, Disarms, Announces, Refuses, Accesses, Hangs
    <3>5. QED
      BY <3>2, <3>3, <3>4
  <2>3. ASSUME host = "ok", Judges \/ Finishes
        PROVE  /\ tablet' \in {"finish", "exited"}
               /\ tablet' # "exited" => ~guarded /\ script.ends = "result"
    <3>1. /\ tablet \in {"right", "wrong", "finish", "exited"} /\ (tablet # "exited" => ~guarded /\ script.ends = "result")
          /\ tablet \in {"right", "wrong"} => k = N
      BY <2>3 DEF Verdicts
    <3>2. CASE Judges
      BY <1>0, <3>1, <3>2 DEF Judges, GivenUp
    <3>3. CASE Finishes
      BY <3>1, <3>3 DEF Finishes
    <3>4. QED
      BY <2>3, <3>2, <3>3
  <2>4. ASSUME host = "stalled" PROVE tablet' \notin {"asking", "exited"}
    <3>1. guarded /\ script.ends = "stall" /\ tablet \notin {"asking", "exited"}
      BY <2>4 DEF Verdicts
    <3>2. tablet # "disarm"
      BY <3>1 DEF IInv, Places
    <3>3. CASE \E ok \in BOOLEAN : Arms(ok) \/ Disarms(ok)
      BY <3>1, <3>2, <3>3 DEF Arms, Disarms
    <3>4. CASE Announces \/ Refuses \/ Hangs
      BY <3>1, <3>4 DEF Announces, Refuses, Hangs, GivenUp
    <3>5. CASE Accesses
      BY <3>5 DEF Accesses
    <3>6. CASE Judges \/ Finishes \/ HearsNothing
      BY <3>1, <3>6 DEF Judges, Finishes, HearsNothing, GivenUp
    <3>7. QED
      BY <1>5, <3>3, <3>4, <3>5, <3>6 DEF Moves
  <2>5. host' = "ok" => AllRight(N)' /\ ~wrong' /\ net' = <<>> /\ acks' = <<>>
    BY <1>0, <2>1, <2>2 DEF Verdicts, AllRight
  <2>6. QED
    BY <1>0, <2>1, <2>2, <2>3, <2>4, <2>5 DEF Verdicts
<1>6. QED
  BY <1>1, <1>2, <1>3, <1>4, <1>5, Steps4

-----------------------------------------------------------------------------
LEMMA InitIInv == Init /\ script.asks => IInv
<1> SUFFICES ASSUME Init, script.asks PROVE IInv
  OBVIOUS
<1>0. script \in Scripts /\ guarded \in script.supervised
  BY DEF Init
<1>1. /\ host = "idle" /\ at = <<"idle", 0>> /\ ~conn /\ conn = FALSE /\ net = <<>> /\ acks = <<>>
      /\ tablet = "off" /\ k = 1 /\ tries = 0 /\ once = FALSE /\ wd = "off"
      /\ made = <<>> /\ right = {} /\ wrong = FALSE
  BY DEF Init
<1>2. N \in Nat
  <2>1. Sound(script)
    BY <1>0, Zenon, ScriptsSound, CaptureAssumption
  <2>2. Plan \in Seq(Kinds)
    BY <2>1, Zenon DEF Sound, Plan
  <2>3. QED
    BY <2>2, LenProperties DEF N
<1>3. Flags /\ Fixed
  BY <1>0, <1>1 DEF Flags, Fixed
<1>4. HostTypes /\ ProgTypes
  BY <1>1, <1>2 DEF HostTypes, ProgTypes, Tablets
<1>5. net \in Seq(Lines)
  BY <1>1
<1>6. acks \in Seq(Words)
  BY <1>1
<1>7. made \in Seq(1..N) /\ right \subseteq 1..N
  BY <1>1
<1>8. TypeOK
  BY <1>3, <1>4, <1>5, <1>6, <1>7, TypeParts DEF LinkTypes, HistTypes
<1>9. Spoken /\ Down /\ Places /\ Watched
  BY <1>1 DEF Spoken, Down, Places, Watched, Got
<1>10. Marked
  <2>1. Len(made) = 0
    BY <1>1
  <2>2. QED
    BY <1>1, <2>1 DEF Marked, NothingTwice, Active, Got
<1>11. Progress /\ Halted /\ Verdicts /\ ~Live
  BY <1>1 DEF Progress, Halted, Verdicts, Live
<1>12. QED
  BY <1>8, <1>9, <1>10, <1>11 DEF IInv

LEMMA LinkStays ==
  ASSUME Link, UNCHANGED <<script, guarded, at, net, acks>>, UNCHANGED <<tablet, k, tries>> PROVE Link'
<1>1. /\ N' = N /\ Announced' = Announced /\ Ended' = Ended /\ Onward' = Onward
      /\ \A g : After(g)' = After(g)
  BY DEF N, Plan, Announced, Ended, Line, Onward, After
<1>2. Goes => Goes'
  <2> SUFFICES ASSUME NEW rest \in {<<>>, <<Announced>>, <<Ended>>}, Said(rest), Trail(rest) PROVE Goes'
    BY DEF Goes
  <2>1. Trail(rest)' /\ Said(rest)'
    BY <1>1, TrailSame DEF Said
  <2>2. rest \in {<<>>, <<Announced'>>, <<Ended'>>}
    BY <1>1
  <2>3. QED
    BY <2>1, <2>2 DEF Goes
<1>3. Reported => Reported'
  BY <1>1 DEF Reported, After, Line
<1>4. Asks \/ Allowed \/ Lost \/ Passing \/ Closing \/ Closed
        => Asks' \/ Allowed' \/ Lost' \/ Passing' \/ Closing' \/ Closed'
  BY <1>1 DEF Asks, Allowed, Lost, Passing, Closing, Closed, Line
<1>5. QED
  BY <1>2, <1>3, <1>4, Zenon DEF Link

LEMMA StutterIInv == IInv /\ UNCHANGED vars => IInv'
<1> SUFFICES ASSUME IInv, UNCHANGED vars PROVE IInv'
  OBVIOUS
<1>1. /\ UNCHANGED <<script, guarded, host, at, conn, net, acks>>
      /\ UNCHANGED <<tablet, k, tries, once, wd, made, right, wrong>>
  BY DEF vars, hostVars, link, progVars, hist
<1>2. Plan' = Plan /\ N' = N
  BY <1>1 DEF Plan, N
<1>3. TypeOK'
  BY <1>1, <1>2, Zenon DEF IInv, TypeOK, Lines, Words
<1>4. Spoken' /\ Down' /\ Places' /\ Watched'
  BY <1>1, <1>2 DEF IInv, Spoken, Down, Places, Watched
<1>5. Marked' /\ Progress'
  <2>1. (\A p : Passed(p)' <=> Passed(p)) /\ (\A m : AllRight(m)' <=> AllRight(m)) /\ (Active' <=> Active)
    BY <1>1, <1>2 DEF Passed, AllRight, Active
  <2>2. QED
    BY <1>1, <1>2, <2>1 DEF IInv, Marked, NothingTwice, Progress
<1>6. (Live' <=> Live) /\ (Unpassed' <=> Unpassed) /\ (AllRight(N)' <=> AllRight(N))
  BY <1>1, <1>2 DEF Live, Unpassed, Line, AllRight
<1>7. Halted' /\ Verdicts'
  BY <1>1, <1>2, <1>6 DEF IInv, Halted, Verdicts
<1>8. Live' => Link'
  <2>1. Link => Link'
    BY <1>1, <1>2, LinkStays
  <2>2. QED
    BY <1>6, <2>1 DEF IInv
<1>9. QED
  BY <1>1, <1>3, <1>4, <1>5, <1>7, <1>8, Zenon DEF IInv

-----------------------------------------------------------------------------
(* The program that asks for nothing: the session carries what it reads,   *)
(* in the order it reads it, and a wrong reading stands in the script's    *)
(* way.                                                                    *)
Readings == ({"before", "after"} \X (1..N) \X {"right", "wrong"}) \cup {Ended}

Carried ==
  /\ net \in Seq(Readings) /\ acks = <<>> /\ (~conn => net = <<>>)
  /\ \A j \in 1..Len(net) : net[j][1] = "finished" => j = Len(net) /\ tablet = "exited" /\ k = N + 1

Underway ==
  /\ guarded = FALSE /\ wd = "off" /\ tries = 0
  /\ \/ tablet \in {"off", "exited", "hung"}
     \/ tablet = "announce" /\ k = 1
     \/ tablet \in {"waiting", "right", "wrong"} /\ k <= N
     \/ tablet = "finish" /\ k = N + 1

Found ==
  /\ right \subseteq Range(made)
  /\ ~wrong /\ tablet # "off" =>
       1..k - 1 \subseteq right /\ (tablet = "right" => k \in right) /\ tablet # "wrong"

Faulty == \E j \in 1..Len(net) : net[j][1] = "after" /\ net[j][3] = "wrong"

Judgement ==
  /\ wrong /\ host = "run" /\ conn => Faulty
  /\ host = "ok" => tablet = "exited" /\ ~wrong /\ 1..N \subseteq right
  /\ host # "stalled"

StreamInv == ~script.asks /\ TypeOK /\ Carried /\ Underway /\ Found /\ Judgement

LEMMA StreamFacts ==
  ASSUME StreamInv
  PROVE  /\ N \in Nat /\ N > 0 /\ k \in 1..N + 1 /\ script.mark = Nobody /\ script.ends = "finished"
         /\ \A i \in 1..N : Plan[i] = Read(Host)
<1>1. /\ TypeOK /\ Streams(script) /\ N \in Nat /\ N > 0
  BY PlanFacts DEF StreamInv
<1>2. k \in 1..N + 1
  BY <1>1 DEF TypeOK
<1>3. QED
  BY <1>1, <1>2, Zenon DEF Streams, Plan, N

LEMMA ReadHost ==
  /\ Read(Host).judges = {"host"} /\ Read(Host).write = FALSE /\ Read(Host).poll = FALSE /\ Read(Host) # Write
BY DEF Read, Host, Write

LEMMA ALine ==
  /\ \A i \in 1..N : Line("before", i, "right") \in Readings
  /\ \A i \in 1..N : \A r \in {"right", "wrong"} : Line("after", i, r) \in Readings
<1>1. \A i \in 1..N : \A r \in {"right", "wrong"} : \A w \in {"before", "after"} :
        <<w, i, r>> \in {"before", "after"} \X (1..N) \X {"right", "wrong"}
  OBVIOUS
<1>2. QED
  BY <1>1 DEF Readings, Line

(* The script's next line.                                                  *)
LEMMA StreamHead ==
  ASSUME StreamInv, net # <<>>
  PROVE  /\ Head(net) \in Readings /\ Head(net) = net[1]
         /\ Len(net) \in Nat /\ Len(net) >= 1 /\ Tail(net) \in Seq(Readings) /\ Len(Tail(net)) = Len(net) - 1
         /\ \A j \in 1..Len(net) - 1 : Tail(net)[j] = net[j + 1]
<1>1. net \in Seq(Readings)
  BY DEF StreamInv, Carried
<1>2. Len(net) \in Nat /\ Len(net) # 0
  BY <1>1, LenProperties, EmptySeq
<1>3. QED
  BY <1>1, <1>2, HeadTailProperties, ElementOfSeq

(* A line that is no end drops out, and the rest stays as it is.            *)
LEMMA StreamHears ==
  ASSUME StreamInv, net # <<>>, net' = Tail(net), UNCHANGED <<script, conn, acks, tablet, k>>
  PROVE  /\ Carried'
         /\ Faulty /\ ~(Head(net)[1] = "after" /\ Head(net)[3] = "wrong") => Faulty'
<1>0. N' = N /\ Readings' = Readings
  BY DEF N, Plan, Readings, Ended, Line
<1>1. /\ Head(net) = net[1] /\ Len(net) \in Nat /\ Len(net) >= 1 /\ net' \in Seq(Readings) /\ Len(net') = Len(net) - 1
      /\ \A j \in 1..Len(net) - 1 : net'[j] = net[j + 1]
  BY StreamHead
<1>2. \A j \in 1..Len(net') : net'[j][1] = "finished" => j = Len(net') /\ tablet = "exited" /\ k = N + 1
  <2> SUFFICES ASSUME NEW j \in 1..Len(net'), net'[j][1] = "finished"
               PROVE  j = Len(net') /\ tablet = "exited" /\ k = N + 1
    OBVIOUS
  <2>1. j + 1 \in 1..Len(net) /\ net[j + 1][1] = "finished"
    BY <1>1
  <2>2. j + 1 = Len(net) /\ tablet = "exited" /\ k = N + 1
    BY <2>1 DEF StreamInv, Carried
  <2>3. j \in Nat /\ Len(net') = Len(net) - 1
    BY <1>1
  <2>4. j = Len(net')
    BY <2>2, <2>3
  <2>5. QED
    BY <2>2, <2>4
<1>3. conn
  BY DEF StreamInv, Carried
<1>4. Carried'
  BY <1>0, <1>1, <1>2, <1>3 DEF StreamInv, Carried
<1>5. ASSUME Faulty, ~(Head(net)[1] = "after" /\ Head(net)[3] = "wrong") PROVE Faulty'
  <2>1. PICK j \in 1..Len(net) : net[j][1] = "after" /\ net[j][3] = "wrong"
    BY <1>5 DEF Faulty
  <2>2. j # 1
    BY <1>1, <1>5, <2>1
  <2>3. j - 1 \in 1..Len(net') /\ net'[j - 1] = net[j]
    BY <1>1, <2>2
  <2>4. QED
    BY <2>1, <2>3 DEF Faulty
<1>6. QED
  BY <1>4, <1>5

(* A line more.                                                             *)
LEMMA StreamSays ==
  ASSUME StreamInv, NEW x \in Readings, net' = (IF conn THEN Append(net, x) ELSE net),
         UNCHANGED <<script, conn, acks, k>>, tablet # "exited",
         x[1] = "finished" => tablet' = "exited" /\ k = N + 1
  PROVE  /\ Carried'
         /\ Faulty => Faulty'
         /\ conn /\ x[1] = "after" /\ x[3] = "wrong" => Faulty'
<1>0. N' = N /\ Readings' = Readings
  BY DEF N, Plan, Readings, Ended, Line
<1>1. net \in Seq(Readings) /\ Len(net) \in Nat /\ \A j \in 1..Len(net) : net[j][1] # "finished"
  <2>1. net \in Seq(Readings)
    BY DEF StreamInv, Carried
  <2>2. QED
    BY <2>1, LenProperties DEF StreamInv, Carried
<1>2. CASE conn
  <2>1. /\ net' \in Seq(Readings) /\ Len(net') = Len(net) + 1 /\ net'[Len(net) + 1] = x
        /\ \A j \in 1..Len(net) : net'[j] = net[j]
    BY <1>1, <1>2, AppendProperties
  <2>2. ASSUME NEW j \in 1..Len(net'), net'[j][1] = "finished" PROVE j = Len(net') /\ tablet' = "exited" /\ k = N + 1
    BY <1>1, <2>1, <2>2
  <2>3. Carried'
    BY <1>0, <1>2, <2>1, <2>2 DEF StreamInv, Carried
  <2>4. Faulty => Faulty'
    <3> SUFFICES ASSUME NEW j \in 1..Len(net), net[j][1] = "after" /\ net[j][3] = "wrong" PROVE Faulty'
      BY DEF Faulty
    <3>1. j \in 1..Len(net') /\ net'[j] = net[j]
      BY <1>1, <2>1
    <3>2. QED
      BY <3>1 DEF Faulty
  <2>5. x[1] = "after" /\ x[3] = "wrong" => Faulty'
    <3>1. Len(net) + 1 \in 1..Len(net')
      BY <1>1, <2>1
    <3>2. QED
      BY <2>1, <3>1 DEF Faulty
  <2>6. QED
    BY <2>3, <2>4, <2>5
<1>3. CASE ~conn
  <2>1. Carried' /\ net' = net
    BY <1>0, <1>1, <1>3 DEF StreamInv, Carried
  <2>2. QED
    BY <1>3, <2>1 DEF Faulty
<1>4. QED
  BY <1>2, <1>3

LEMMA StreamHost == StreamInv /\ (Hears \/ Ends) => StreamInv'
<1> SUFFICES ASSUME StreamInv, Hears \/ Ends PROVE StreamInv'
  OBVIOUS
<1>0. /\ UNCHANGED <<script, guarded, sessions, tablet, k, tries, once, wd, made, right, wrong>>
      /\ N' = N /\ Plan' = Plan /\ Readings' = Readings
  BY HostLeaves DEF N, Plan, Readings, Ended, Line
<1>1. /\ TypeOK /\ N \in Nat /\ N > 0 /\ script.ends = "finished" /\ guarded = FALSE /\ ~script.asks
      /\ \A i \in 1..N : Plan[i] = Read(Host)
  BY StreamFacts DEF StreamInv, Underway
<1>2. Underway' /\ Found'
  BY <1>0 DEF StreamInv, Underway, Found
<1>3. ASSUME Carried', Judgement', host' \in {"run", "ok", "failed"}, conn' \in BOOLEAN,
             at' \in {"before", "after", "finished", "disarmed"} \X (0..N) \/ at' = at
      PROVE  StreamInv'
  <2>1. net' \in Seq(Lines') /\ acks' \in Seq(Words')
    <3>1. Readings \subseteq Lines /\ Lines' = Lines
      BY <1>0, <1>1 DEF Readings, Ended, Line, Lines, Got
    <3>2. net' \in Seq(Readings) /\ acks' = <<>>
      BY <1>0, <1>3 DEF Carried
    <3>3. QED
      BY <3>1, <3>2
  <2>2. Lines' = Lines /\ Words' = Words
    BY <1>0 DEF Lines, Words
  <2>3. HostTypes'
    BY <1>0, <1>1, <1>3, TypeParts DEF HostTypes
  <2>4. Flags' /\ Fixed' /\ ProgTypes' /\ HistTypes'
    BY <1>0, <1>1, <1>3, TypeParts, FlagTypes DEF Flags, Fixed, ProgTypes, HistTypes, Tablets
  <2>5. TypeOK'
    BY <2>1, <2>3, <2>4, TypeParts DEF LinkTypes
  <2>6. QED
    BY <1>0, <1>1, <1>2, <1>3, <2>5 DEF StreamInv
<1>4. CASE Ends
  <2>1. host' = "failed" /\ net' = <<>> /\ conn' = FALSE /\ at' = at
    BY <1>1, <1>4 DEF Ends
  <2>2. acks' = <<>>
    <3>1. PICK m \in 0..Len(acks) : acks' = SubSeq(acks, 1, m)
      BY <1>4 DEF Ends
    <3>2. acks = <<>> /\ Len(acks) = 0
      BY DEF StreamInv, Carried
    <3>3. QED
      BY <3>1, <3>2, SubSeqEmpty
  <2>3. Carried'
    BY <2>1, <2>2 DEF Carried
  <2>4. Judgement'
    BY <2>1 DEF Judgement
  <2>5. QED
    BY <1>3, <2>1, <2>3, <2>4
<1>5. CASE Hears
  <2>1. host = "run" /\ net # <<>> /\ net' = Tail(net) /\ conn' = conn /\ conn = TRUE
    BY <1>1, <1>5, HostLeaves DEF StreamInv, Carried, TypeOK
  <2>2. Head(net) \in Readings
    BY <2>1, StreamHead
  <2>3. Checkpoint \/ Result \/ Finished
    <3>1. Head(net)[1] \in {"before", "after", "finished"}
      BY <2>2 DEF Readings, Ended, Line
    <3>2. ~Expects("open") /\ ~Expects("armed") /\ ~Expects("disarmed")
      BY <3>1 DEF Expects
    <3>3. QED
      BY <1>5, <3>2 DEF Hears, ArmsWatchdog, Armed, Disarmed
  <2>4. acks' = acks
    BY <1>1, <2>3 DEF Checkpoint, Result, Finished
  <2>5. Carried' /\ (Faulty /\ ~(Head(net)[1] = "after" /\ Head(net)[3] = "wrong") => Faulty')
    BY <1>0, <2>1, <2>4, StreamHears
  <2>6. CASE Checkpoint
    <3>1. host' = "run" /\ Head(net)[1] = "before" /\ at' = <<"after", Heard>>
      BY <2>1, <2>6 DEF Checkpoint, Expects
    <3>2. Heard \in 0..N
      BY <1>1, <2>2, <3>1 DEF Readings, Ended, Line, Heard
    <3>3. Judgement'
      BY <1>0, <2>1, <2>5, <3>1 DEF StreamInv, Judgement
    <3>4. QED
      BY <1>3, <2>1, <2>5, <3>1, <3>2, <3>3
  <2>7. CASE Result
    <3>1. Head(net)[1] = "after"
      BY <2>7 DEF Result, Expects
    <3>2. Heard \in 1..N /\ Head(net)[3] \in {"right", "wrong"}
      BY <2>2, <3>1 DEF Readings, Ended, Line, Heard
    <3>3. Head(net)[3] = "right"
      <4>1. "host" \in Plan[Heard].judges
        BY <1>1, <3>2, ReadHost
      <4>2. QED
        BY <2>7, <3>2, <4>1 DEF Result
    <3>4. host' = "run" /\ at' = Following
      BY <1>1, <2>1, <2>7, <3>3 DEF Result
    <3>5. at' \in {"before", "after", "finished", "disarmed"} \X (0..N)
      BY <1>1, <3>2, <3>4 DEF Following
    <3>6. Judgement'
      BY <1>0, <2>1, <2>5, <3>3, <3>4 DEF StreamInv, Judgement
    <3>7. QED
      BY <1>3, <2>1, <2>5, <3>4, <3>5, <3>6
  <2>8. CASE Finished
    <3>1. host' = "ok" /\ Head(net)[1] = "finished" /\ at' = <<"disarmed", 0>>
      BY <1>1, <2>8 DEF Finished, Expects
    <3>2. /\ Len(net) = 1 /\ net[1][1] = "finished" /\ tablet = "exited" /\ k = N + 1
      <4>1. Head(net) = net[1] /\ 1 \in 1..Len(net)
        BY <2>1, StreamHead
      <4>2. QED
        BY <3>1, <4>1 DEF StreamInv, Carried
    <3>3. ~wrong
      <4>1. ~Faulty
        BY <3>2 DEF Faulty
      <4>2. QED
        BY <2>1, <4>1 DEF StreamInv, Judgement
    <3>4. 1..N \subseteq right
      <4>1. k - 1 = N
        BY <1>1, <3>2
      <4>2. QED
        BY <3>2, <3>3, <4>1 DEF StreamInv, Found
    <3>5. Judgement'
      BY <1>0, <3>1, <3>2, <3>3, <3>4 DEF Judgement
    <3>6. QED
      BY <1>1, <1>3, <2>1, <2>5, <3>1, <3>5
  <2>9. QED
    BY <2>3, <2>6, <2>7, <2>8
<1>6. QED
  BY <1>4, <1>5

(* The program reads on.                                                    *)
LEMMA StreamTypes ==
  ASSUME StreamInv, Carried', UNCHANGED <<script, guarded, host, at, conn>>, ProgTypes', HistTypes',
         once' \in BOOLEAN, wrong' \in BOOLEAN
  PROVE  TypeOK'
<1>0. /\ N' = N /\ N \in Nat /\ TypeOK
  BY StreamFacts DEF StreamInv, N, Plan
<1>1. LinkTypes'
  <2>1. Readings' \subseteq Lines'
    BY <1>0 DEF Readings, Ended, Line, Lines, Got
  <2>2. net' \in Seq(Readings') /\ acks' = <<>>
    BY DEF Carried
  <2>3. QED
    BY <2>1, <2>2 DEF LinkTypes
<1>2. Fixed' /\ Flags' /\ HostTypes'
  BY <1>0, TypeParts DEF Fixed, Flags, HostTypes
<1>3. QED
  BY <1>1, <1>2, TypeParts

LEMMA StreamReads ==
  ASSUME StreamInv, Accesses PROVE StreamInv'
<1>0. /\ N \in Nat /\ TypeOK /\ ~script.asks /\ script.mark = Nobody /\ k \in 1..N
      /\ Plan[k] = Read(Host) /\ tablet = "waiting" /\ once \in BOOLEAN
  <2>1. tablet = "waiting"
    BY Zenon DEF Accesses
  <2>2. N \in Nat /\ k \in 1..N + 1 /\ script.mark = Nobody /\ \A i \in 1..N : Plan[i] = Read(Host)
    BY StreamFacts
  <2>3. k <= N
    BY <2>1 DEF StreamInv, Underway
  <2>4. k \in 1..N
    BY <2>2, <2>3
  <2>5. once \in BOOLEAN
    BY DEF StreamInv, TypeOK
  <2>6. QED
    BY <2>1, <2>2, <2>4, <2>5, Zenon DEF StreamInv
<1>1. script.mark # Device(k)
  BY <1>0 DEF Nobody, Device
<1>2. /\ made' = Append(made, k) /\ once' = once /\ acks' = acks
      /\ UNCHANGED <<script, guarded, host, at, conn, k, tries, wd>>
  <2>1. /\ made' = (IF script.mark = Device(k) /\ once THEN made ELSE Append(made, k))
        /\ once' = (once \/ script.mark = Device(k)) /\ Permitted
        /\ UNCHANGED <<hostVars, conn, k, tries, wd>>
    BY Zenon DEF Accesses
  <2>2. made' = Append(made, k) /\ once' = once
    BY <1>0, <1>1, <2>1
  <2>3. acks' = acks
    BY <1>0, <2>1 DEF Permitted
  <2>4. QED
    BY <2>1, <2>2, <2>3 DEF hostVars
<1>3. PICK got \in {"right", "wrong"} :
        /\ Say("after", k, got) /\ tablet' = got
        /\ right' = IF got = "right" THEN right \cup {k} ELSE right
        /\ wrong' = (wrong \/ (got = "wrong" /\ Plan[k].judges # {}))
  <2>1. PICK got \in (IF script.mark = Device(k) /\ once THEN {"wrong"}
                      ELSE IF Plan[k].poll THEN {"right", "busy", "wrong"}
                      ELSE IF Plan[k] = Write THEN {"right"} ELSE {"right", "wrong"}) :
             /\ Say("after", k, got) /\ tablet' = got
             /\ right' = IF got = "right" THEN right \cup {k} ELSE right
             /\ wrong' = (wrong \/ (got = "wrong" /\ Plan[k].judges # {}))
    BY Zenon DEF Accesses
  <2>2. Plan[k].poll = FALSE /\ Plan[k] # Write
    BY <1>0, ReadHost
  <2>3. got \in {"right", "wrong"}
    BY <1>1, <2>1, <2>2
  <2>4. QED
    BY <2>1, <2>3, Zenon
<1>4. wrong' = (wrong \/ got = "wrong")
  <2>1. (Plan[k].judges # {}) = TRUE
    BY <1>0, ReadHost
  <2>2. QED
    BY <1>3, <2>1, Zenon
<1>5. Carried' /\ (Faulty => Faulty') /\ (conn /\ got = "wrong" => Faulty')
  <2>1. PICK x \in Readings : x = Line("after", k, got)
    BY <1>0, <1>3, ALine
  <2>2. net' = IF conn THEN Append(net, x) ELSE net
    BY <1>3, <2>1 DEF Say
  <2>3. x[1] = "after" /\ x[3] = got
    BY <2>1 DEF Line
  <2>4. QED
    BY <1>0, <1>2, <2>2, <2>3, StreamSays
<1>6. Range(made') = Range(made) \cup {k} /\ made' \in Seq(1..N)
  <2>1. made \in Seq(1..N)
    BY <1>0 DEF TypeOK
  <2>2. QED
    BY <1>0, <1>2, <2>1, OneMore, AppendProperties
<1>7. N' = N
  BY <1>2 DEF N, Plan
<1>8. Underway'
  BY <1>0, <1>2, <1>3, <1>7 DEF StreamInv, Underway
<1>9. Found'
  <2>1. right \subseteq Range(made) /\ (~wrong => 1..k - 1 \subseteq right)
    BY <1>0 DEF StreamInv, Found
  <2>2. /\ right' \subseteq Range(made')
        /\ ~wrong' => got = "right" /\ 1..k - 1 \subseteq right' /\ k \in right'
    <3>1. right' = IF got = "right" THEN right \cup {k} ELSE right
      BY <1>3
    <3>2. right' \subseteq Range(made')
      BY <1>6, <2>1, <3>1
    <3>3. ~wrong' => ~wrong /\ got = "right"
      BY <1>3, <1>4
    <3>4. QED
      BY <2>1, <3>1, <3>2, <3>3
  <2>3. QED
    BY <1>2, <1>3, <2>2 DEF Found
<1>10. Judgement'
  BY <1>0, <1>2, <1>3, <1>4, <1>5, <1>7 DEF StreamInv, Judgement
<1>11. TypeOK'
  <2>1. ProgTypes' /\ HistTypes'
    <3>1. right' \subseteq 1..N /\ tablet' \in Tablets
      <4>1. right \subseteq 1..N
        BY <1>0 DEF TypeOK
      <4>2. right' \subseteq right \cup {k}
        BY <1>3
      <4>3. QED
        BY <1>0, <1>3, <4>1, <4>2 DEF Tablets, Got
    <3>2. ProgTypes
      BY <1>0, TypeParts
    <3>3. QED
      BY <1>2, <1>6, <1>7, <3>1, <3>2 DEF ProgTypes, HistTypes
  <2>2. wrong' \in BOOLEAN /\ once' \in BOOLEAN
    BY <1>0, <1>2, <1>4 DEF TypeOK
  <2>3. QED
    BY <1>2, <1>5, <2>1, <2>2, StreamTypes
<1>12. QED
  BY <1>0, <1>2, <1>5, <1>8, <1>9, <1>10, <1>11 DEF StreamInv

LEMMA StreamMoves == StreamInv /\ Moves => StreamInv'
<1> SUFFICES ASSUME StreamInv, Moves, ~Accesses PROVE StreamInv'
  BY StreamReads
<1>0. /\ N \in Nat /\ TypeOK /\ ~script.asks /\ script.mark = Nobody /\ script.ends = "finished" /\ k \in 1..N + 1
      /\ guarded = FALSE /\ acks = <<>> /\ tries = 0 /\ wd = "off" /\ once \in BOOLEAN
      /\ \A i \in 1..N : Plan[i] = Read(Host)
  BY StreamFacts DEF StreamInv, Underway, Carried, TypeOK
<1>1. UNCHANGED <<script, guarded, host, at, conn, right, wrong>>
  BY TabletLeaves, Zenon DEF Moves, Arms, Disarms, Announces, Refuses, Hangs, Judges, Finishes, HearsNothing, hist
<1>2. N' = N /\ Plan' = Plan
  BY <1>1 DEF N, Plan
<1>3. script.mark # Program(k) /\ script.mark # Device(k)
  BY <1>0 DEF Nobody, Program, Device
<1>4. ASSUME Carried', Underway', Found', made' \in Seq(1..N), once' \in BOOLEAN, k' \in 1..N + 1,
             host = "ok" => tablet' = "exited", Faulty => Faulty'
      PROVE  StreamInv'
  <2>1. ProgTypes' /\ HistTypes'
    BY <1>0, <1>1, <1>2, <1>4, TypeParts DEF Underway, ProgTypes, HistTypes, Tablets, Got
  <2>2. TypeOK'
    BY <1>0, <1>1, <1>4, <2>1, StreamTypes DEF TypeOK
  <2>3. Judgement'
    BY <1>1, <1>2, <1>4 DEF StreamInv, Judgement
  <2>4. QED
    BY <1>0, <1>1, <1>4, <2>2, <2>3 DEF StreamInv
<1>5. ASSUME net' = net, acks' = acks, k' = k, tablet # "exited" \/ tablet' = "exited" PROVE Carried' /\ (Faulty => Faulty')
  BY <1>1, <1>2, <1>5 DEF StreamInv, Carried, Faulty, Readings, Ended, Line
<1>6. ~\E ok \in BOOLEAN : Arms(ok) \/ Disarms(ok)
  BY DEF StreamInv, Underway, Arms, Disarms
<1>7. CASE Announces
  <2>1. tablet = "announce" /\ k = 1 /\ k <= N
    BY <1>7 DEF Announces, StreamInv, Underway
  <2>2. /\ tablet' = "waiting" /\ once' = once /\ made' = made /\ UNCHANGED <<acks, k, tries, wd>>
        /\ net' = IF conn THEN Append(net, Line("before", k, "right")) ELSE net
    BY <1>0, <1>3, <1>7 DEF Announces, Say, hist
  <2>3. Carried' /\ (Faulty => Faulty')
    <3>1. PICK x \in Readings : x = Line("before", k, "right")
      BY <2>1, <1>0, ALine
    <3>2. x[1] = "before"
      BY <3>1 DEF Line
    <3>3. QED
      BY <1>1, <2>1, <2>2, <3>1, <3>2, StreamSays
  <2>4. Underway' /\ Found'
    BY <1>0, <1>1, <1>2, <2>1, <2>2 DEF StreamInv, Underway, Found
  <2>5. host = "ok" => FALSE
    BY <2>1 DEF StreamInv, Judgement
  <2>6. made' \in Seq(1..N) /\ once' \in BOOLEAN /\ k' \in 1..N + 1
    BY <1>0, <2>2 DEF TypeOK
  <2>7. QED
    BY <1>4, <2>3, <2>4, <2>5, <2>6
<1>8. CASE Refuses \/ HearsNothing
  <2>1. /\ tablet' = "exited" /\ UNCHANGED <<net, acks, k, tries, once, wd, made>>
    BY <1>0, <1>8 DEF Refuses, HearsNothing, GivenUp, link, hist
  <2>2. tablet \in {"announce", "waiting"}
    BY <1>0, <1>8 DEF Refuses, HearsNothing, StreamInv, Underway
  <2>3. Underway' /\ Found'
    BY <1>0, <1>1, <1>2, <2>1, <2>2 DEF StreamInv, Underway, Found
  <2>4. made' \in Seq(1..N) /\ once' \in BOOLEAN /\ k' \in 1..N + 1
    BY <1>0, <2>1 DEF TypeOK
  <2>5. Carried' /\ (Faulty => Faulty')
    BY <1>5, <2>1
  <2>6. QED
    BY <1>4, <2>1, <2>3, <2>4, <2>5
<1>9. CASE Hangs
  <2>1. /\ tablet = "waiting" /\ tablet' = "hung" /\ made' = Append(made, k)
        /\ UNCHANGED <<net, acks, k, tries, once, wd>>
    BY <1>0, <1>9 DEF Hangs, Permitted
  <2>2. k \in 1..N
    BY <1>0, <2>1 DEF StreamInv, Underway
  <2>3. Range(made') = Range(made) \cup {k} /\ made' \in Seq(1..N)
    BY <1>0, <2>1, <2>2, OneMore DEF TypeOK
  <2>4. Underway' /\ Found'
    BY <1>0, <1>1, <1>2, <2>1, <2>2, <2>3 DEF StreamInv, Underway, Found
  <2>5. host = "ok" => FALSE
    BY <2>1 DEF StreamInv, Judgement
  <2>6. Carried' /\ (Faulty => Faulty') /\ once' \in BOOLEAN /\ k' \in 1..N + 1
    BY <1>0, <1>5, <2>1
  <2>7. QED
    BY <1>4, <2>3, <2>4, <2>5, <2>6
<1>10. CASE Judges
  <2>1. tablet \in {"right", "wrong"} /\ k \in 1..N
    BY <1>0, <1>10 DEF Judges, StreamInv, Underway
  <2>2. /\ k' = k + 1 /\ tries' = 0 /\ UNCHANGED <<net, acks, once, wd, made>>
    BY <1>0, <1>10, <2>1 DEF Judges, hist
  <2>3. tablet' = IF k < N THEN "waiting" ELSE "finish"
    <3>1. PICK found \in BOOLEAN :
            tablet' = IF Balks(found) THEN GivenUp
                      ELSE IF k < N \/ tablet = "busy" THEN (IF script.asks THEN "announce" ELSE "waiting")
                      ELSE "finish"
      BY <1>10 DEF Judges
    <3>2. Plan[k].judges = {"host"}
      BY <1>0, <2>1, ReadHost
    <3>3. ~Balks(found)
      BY <2>1, <3>2 DEF Balks
    <3>4. QED
      BY <1>0, <2>1, <3>1, <3>3
  <2>4. Underway'
    BY <1>0, <1>1, <1>2, <2>1, <2>2, <2>3 DEF Underway
  <2>5. Found'
    <3>1. ~wrong => 1..k \subseteq right
      BY <1>0, <2>1 DEF StreamInv, Found
    <3>2. k' - 1 = k /\ tablet' \notin {"right", "wrong"}
      BY <1>0, <2>1, <2>2, <2>3
    <3>3. QED
      BY <1>1, <2>2, <3>1, <3>2 DEF StreamInv, Found
  <2>6. host = "ok" => FALSE
    BY <2>1 DEF StreamInv, Judgement
  <2>7. made' \in Seq(1..N) /\ once' \in BOOLEAN /\ k' \in 1..N + 1
    BY <1>0, <2>1, <2>2 DEF TypeOK
  <2>8. Carried' /\ (Faulty => Faulty')
    <3>1. \A j \in 1..Len(net) : net[j][1] # "finished"
      BY <2>1 DEF StreamInv, Carried
    <3>2. QED
      BY <1>1, <1>2, <2>2, <3>1 DEF StreamInv, Carried, Faulty, Readings, Ended, Line
  <2>9. QED
    BY <1>4, <2>4, <2>5, <2>6, <2>7, <2>8
<1>11. CASE Finishes
  <2>1. tablet = "finish" /\ k = N + 1
    BY <1>11 DEF Finishes, StreamInv, Underway
  <2>2. /\ tablet' = "exited" /\ made' = made /\ UNCHANGED <<acks, k, tries, once, wd>>
        /\ net' = IF conn THEN Append(net, Ended) ELSE net
    BY <1>0, <1>11 DEF Finishes, Say, Ended, hist
  <2>3. Carried' /\ (Faulty => Faulty')
    <3>1. PICK x \in Readings : x = Ended
      BY DEF Readings
    <3>2. QED
      BY <1>1, <2>1, <2>2, <3>1, StreamSays
  <2>4. Underway' /\ Found'
    BY <1>0, <1>1, <1>2, <2>1, <2>2 DEF StreamInv, Underway, Found
  <2>5. made' \in Seq(1..N) /\ once' \in BOOLEAN /\ k' \in 1..N + 1
    BY <1>0, <2>2 DEF TypeOK
  <2>6. QED
    BY <1>4, <2>2, <2>3, <2>4, <2>5
<1>12. QED
  BY <1>6, <1>7, <1>8, <1>9, <1>10, <1>11 DEF Moves

LEMMA StreamBegins == StreamInv /\ (Connect \/ Reboots) => StreamInv'
<1> SUFFICES ASSUME StreamInv, Connect \/ Reboots PROVE StreamInv'
  OBVIOUS
<1>0. /\ script' = script /\ guarded' = guarded /\ N' = N /\ N \in Nat /\ N > 0 /\ TypeOK /\ guarded = FALSE /\ ~script.asks
      /\ tries = 0 /\ wd = "off"
  BY ScriptStays, StreamFacts DEF StreamInv, Underway, Next, Script, Tablet
<1>1. /\ net' = <<>> /\ acks' = <<>> /\ right' = {} /\ wrong' = FALSE /\ tries' = 0 /\ wd' = "off" /\ conn' \in BOOLEAN
      /\ made' = made \/ made' = <<>>
      /\ once' \in BOOLEAN
      /\ (tablet' = "off" /\ k' = k) \/ (tablet' = "announce" /\ k' = 1)
  <2>1. once \in BOOLEAN
    BY <1>0 DEF TypeOK
  <2>2. CASE Connect
    <3>1. /\ conn' = TRUE /\ acks' = <<>> /\ k' = 1 /\ tries' = 0 /\ right' = {} /\ wrong' = FALSE
          /\ once' = once /\ wd' = wd /\ made' = made
          /\ net' = IF guarded THEN <<Line("open", 0, "right")>> ELSE <<>>
          /\ tablet' = IF guarded THEN "asking" ELSE "announce"
      BY <2>2, Zenon DEF Connect
    <3>2. net' = <<>> /\ tablet' = "announce"
      BY <1>0, <3>1
    <3>3. QED
      BY <1>0, <2>1, <3>1, <3>2
  <2>3. CASE Reboots
    BY <1>0, <2>1, <2>3 DEF Reboots
  <2>4. QED
    BY <2>2, <2>3
<1>2. \/ host' = "run" /\ at' = <<"before", 1>>
      \/ (host' = host /\ at' = at /\ Reboots)
  BY <1>0 DEF Connect, Reboots, hostVars
<1>3. Carried'
  BY <1>1 DEF Carried
<1>4. Underway'
  BY <1>0, <1>1 DEF Underway
<1>5. Found'
  BY <1>1 DEF Found
<1>6. Judgement'
  <2>1. Reboots => tablet = "hung"
    BY <1>0 DEF Reboots
  <2>2. host' = "run" \/ (host' = host /\ host # "ok" /\ host # "stalled")
    BY <1>2, <2>1 DEF StreamInv, Judgement
  <2>3. QED
    BY <1>1, <2>2 DEF Judgement
<1>7. TypeOK'
  <2>1. HistTypes' /\ ProgTypes'
    <3>1. made' \in Seq(1..N)
      <4>1. made \in Seq(1..N) /\ <<>> \in Seq(1..N)
        BY <1>0 DEF TypeOK
      <4>2. QED
        BY <1>1, <4>1
    <3>2. k' \in 1..N + 1
      <4>1. k \in 1..N + 1
        BY <1>0 DEF TypeOK
      <4>2. QED
        BY <1>0, <1>1, <4>1
    <3>3. QED
      BY <1>0, <1>1, <3>1, <3>2 DEF HistTypes, ProgTypes, Tablets
  <2>2. Flags' /\ Fixed'
    BY <1>0, <1>1, TypeParts DEF Flags, Fixed
  <2>3. LinkTypes'
    BY <1>1 DEF LinkTypes
  <2>4. HostTypes'
    BY <1>0, <1>2, TypeParts DEF HostTypes
  <2>5. QED
    BY <2>1, <2>2, <2>3, <2>4, TypeParts
<1>8. QED
  BY <1>0, <1>3, <1>4, <1>5, <1>6, <1>7 DEF StreamInv

LEMMA StreamStutter == StreamInv /\ UNCHANGED vars => StreamInv'
<1> SUFFICES ASSUME StreamInv, UNCHANGED vars PROVE StreamInv'
  OBVIOUS
<1>1. /\ UNCHANGED <<script, guarded, host, at, conn, net, acks>>
      /\ UNCHANGED <<tablet, k, tries, once, wd, made, right, wrong>>
  BY DEF vars, hostVars, link, progVars, hist
<1>2. Plan' = Plan /\ N' = N /\ Readings' = Readings
  BY <1>1 DEF Plan, N, Readings, Ended, Line
<1>3. TypeOK'
  BY <1>1, <1>2, Zenon DEF StreamInv, TypeOK, Lines, Words
<1>4. Carried' /\ Underway' /\ Found'
  BY <1>1, <1>2 DEF StreamInv, Carried, Underway, Found
<1>5. Judgement'
  BY <1>1, <1>2 DEF StreamInv, Judgement, Faulty
<1>6. QED
  BY <1>1, <1>3, <1>4, <1>5 DEF StreamInv

LEMMA StreamInit == Init /\ ~script.asks => StreamInv
<1> SUFFICES ASSUME Init, ~script.asks PROVE StreamInv
  OBVIOUS
<1>0. script \in Scripts /\ guarded \in script.supervised
  BY DEF Init
<1>1. /\ host = "idle" /\ at = <<"idle", 0>> /\ conn = FALSE /\ net = <<>> /\ acks = <<>>
      /\ tablet = "off" /\ k = 1 /\ tries = 0 /\ once = FALSE /\ wd = "off"
      /\ made = <<>> /\ right = {} /\ wrong = FALSE
  BY DEF Init
<1>2. Streams(script) /\ N \in Nat
  <2>1. Sound(script)
    BY <1>0, Zenon, ScriptsSound, CaptureAssumption
  <2>2. Plan \in Seq(Kinds) /\ Streams(script)
    BY <2>1, Zenon DEF Sound, Plan
  <2>3. QED
    BY <2>2, LenProperties DEF N
<1>3. guarded = FALSE
  BY <1>0, <1>2 DEF Streams
<1>4. TypeOK
  <2>1. Flags /\ Fixed
    BY <1>0, <1>1 DEF Flags, Fixed
  <2>2. HostTypes /\ ProgTypes
    BY <1>1, <1>2 DEF HostTypes, ProgTypes, Tablets
  <2>3. LinkTypes /\ HistTypes
    BY <1>1 DEF LinkTypes, HistTypes
  <2>4. QED
    BY <2>1, <2>2, <2>3, TypeParts
<1>5. Carried /\ Underway /\ Found /\ Judgement
  BY <1>1, <1>2, <1>3 DEF Carried, Underway, Found, Judgement
<1>6. QED
  BY <1>4, <1>5 DEF StreamInv

(* The session, the program and the history of every state.                 *)
Inv == IInv \/ StreamInv

THEOREM Invariance == Spec => []Inv
<1>1. IInv /\ Next => IInv'
  BY ScriptStays, Typed, SpokenKeeps, DownKeeps, PlacesKeeps, WatchedKeeps, MarkedKeeps, ProgressKeeps, HaltedKeeps,
     VerdictsKeeps, LinkKeeps, Zenon DEF IInv
<1>2. IInv /\ [Next]_vars => IInv'
  BY <1>1, StutterIInv
<1>3. StreamInv /\ [Next]_vars => StreamInv'
  BY Steps4, StreamHost, StreamMoves, StreamBegins, StreamStutter, Zenon
<1>4. Init => Inv
  BY InitIInv, StreamInit DEF Inv
<1>5. Inv /\ [Next]_vars => Inv'
  BY <1>2, <1>3 DEF Inv
<1>6. QED
  BY <1>4, <1>5, PTL DEF Spec

-----------------------------------------------------------------------------
(* The types, whatever the scripts.                                         *)
THEOREM TypeCorrect == Spec => []TypeOK
<1>1. Inv => TypeOK
  BY DEF Inv, IInv, StreamInv
<1>2. QED
  BY <1>1, Invariance, PTL

(* A program that waits for a permission finds the word for the access it
   announced on its input, or none: no earlier program's, no earlier
   step's.                                                                  *)
THEOREM OwnWordsHold == Spec => []OwnWords
<1>1. IInv => OwnWords
  BY Zenon DEF IInv, Spoken, OwnWords
<1>2. StreamInv => OwnWords
  BY DEF StreamInv, Carried, OwnWords
<1>3. QED
  BY <1>1, <1>2, Invariance, PTL DEF Inv

(* No register is written twice in one boot, however often the script is
   run: of every plan with a write, the mark that the program or the device
   keeps stands before the first of them.                                   *)
THEOREM NothingTwiceHolds == Spec => []NothingTwice
<1>1. IInv => NothingTwice
  BY DEF IInv, Marked
<1>2. StreamInv => NothingTwice
  <2> SUFFICES ASSUME StreamInv, NEW n \in 1..Len(made) PROVE ~Plan[made[n]].write
    BY DEF NothingTwice
  <2>1. made \in Seq(1..N)
    BY DEF StreamInv, TypeOK
  <2>2. made[n] \in 1..N
    BY <2>1, ElementOfSeq
  <2>3. QED
    BY <2>2, StreamFacts, ReadHost
<1>3. QED
  BY <1>1, <1>2, Invariance, PTL DEF Inv

(* A script reports a complete capture only when every access was made,
   each judged result was right and the watchdog is off; the stall test
   never reports a machine whose watchdog was disarmed.  The scripts that
   keep their place owe it to their own order of lines; the two that do not
   owe it to the program, whose last line goes out only after the last
   result (Progress and Found), and to the check of each line.              *)
THEOREM CompleteIsTrueHolds == Spec => []CompleteIsTrue
<1>1. IInv => CompleteIsTrue
  <2> SUFFICES ASSUME IInv PROVE CompleteIsTrue
    OBVIOUS
  <2>1. host = "ok" => AllRight(N) /\ ~wrong /\ wd = "off"
    BY DEF IInv, Verdicts, Watched
  <2>2. host = "stalled" /\ made # <<>> => wd = "armed"
    BY DEF IInv, Verdicts, Watched, Down
  <2>3. QED
    BY <2>1, <2>2 DEF CompleteIsTrue, AllRight
<1>2. StreamInv => CompleteIsTrue
  <2> SUFFICES ASSUME StreamInv, host = "ok" PROVE CompleteIsTrue
    BY DEF StreamInv, Judgement, CompleteIsTrue
  <2>1. ~wrong /\ wd = "off" /\ 1..N \subseteq right /\ right \subseteq Range(made)
    BY DEF StreamInv, Judgement, Underway, Found
  <2>2. QED
    BY <2>1 DEF CompleteIsTrue
<1>3. QED
  BY <1>1, <1>2, Invariance, PTL DEF Inv

(* Once script or program knows of a wrong result, no access follows in
   that session, in every capture whose program waits for a word.           *)
THEOREM StopsAtWrongHolds == Spec => StopsAtWrong
<1>1. IInv /\ [Next]_vars => (wrong /\ made' # made => made' = <<>> \/ sessions' # sessions)
  <2> SUFFICES ASSUME IInv, Next \/ UNCHANGED vars, wrong, made' # made PROVE made' = <<>>
    OBVIOUS
  <2>1. ~(tablet = "waiting" /\ Word("go"))
    BY DEF IInv, Halted, Word
  <2>2. ~Accesses /\ ~Hangs
    BY <2>1, Asked DEF Accesses, Hangs
  <2>3. Hears \/ Ends \/ Connect \/ UNCHANGED vars => made' = made
    BY HostLeaves DEF Connect, vars, hist
  <2>4. Moves => made' = made
    BY <2>2, Zenon DEF Moves, Arms, Disarms, Announces, Refuses, Judges, Finishes, HearsNothing, hist
  <2>5. Reboots
    BY <2>3, <2>4, Steps4
  <2>6. QED
    BY <2>5 DEF Reboots
<1>2. StreamInv => ~script.asks
  BY DEF StreamInv
<1>3. Inv /\ [Next]_vars => (script.asks /\ wrong /\ made' # made => made' = <<>> \/ sessions' # sessions)
  BY <1>1, <1>2 DEF Inv
<1>4. QED
  BY <1>3, Invariance, PTL DEF Spec, StopsAtWrong
=============================================================================
