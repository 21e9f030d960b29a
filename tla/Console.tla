------------------------------ MODULE Console ------------------------------
(***************************************************************************)
(* The console's session with the tablet (boot/ipad_console.py), the       *)
(* programs that run commands over it, the transcript they leave           *)
(* (session_evidence.py) and its audit (audit_session.py).  A command and  *)
(* a trailer that prints its status under a fresh token go out on one      *)
(* telnet session; answers may be late, sessions break and tablets reboot; *)
(* a command given up may still run, and its record may be torn.           *)
(***************************************************************************)
EXTENDS Naturals, Sequences, FiniteSets, Functions

CONSTANTS Programs,      \* the programs that may be run, of the records below
          MaxCommands,   \* bound: commands of one behaviour
          MaxBoots       \* bound: the tablet's boots

VARIABLES menu, evidence,          \* the console's menu runs; a transcript is kept
          todo,                    \* the steps left of the action that runs
          pc,
          conn, inq, out,          \* the session: state, lines to the shell, lines to the host
          buf,                     \* what run_result has read
          told, did,               \* of each command: what the caller learned, what happened, when
          left,                    \* commands in sessions the host has closed
          boot,
          kept,                    \* the boots the action's answers came from; 0 for none
          outcome,
          pieces, unrecorded       \* the transcript; commands whose record was refused

program == <<menu, evidence>>
host    == <<program, todo, pc, kept, outcome>>
session == <<conn, inq, out, buf>>
tablet  == <<did, left, boot>>
records == <<pieces, unrecorded>>
vars    == <<host, session, told, tablet, records>>

(***************************************************************************)
(* A program runs actions, sequences of steps.  A step is one command:     *)
(* what a nonzero status does, and how the answer is used.                 *)
(***************************************************************************)
Look        == [check |-> TRUE,  use |-> "show", skip |-> 0]     \* a nonzero status raises
Peek        == [check |-> FALSE, use |-> "show", skip |-> 0]
Ask         == [check |-> TRUE,  use |-> "decide", skip |-> 0]   \* the answer may end the action
Section     == [check |-> TRUE,  use |-> "section", skip |-> 0]  \* whatever is raised is its text
Until(skip) == [check |-> FALSE, use |-> "repeat", skip |-> skip] \* again, until seen or too late

\* The fixed lists of commands are long (8 to 22); two stand for them.
Looks == <<Look, Look>>
Peeks == <<Peek, Peek>>

action_kernel_info      == <<Look, Look>>
action_network_stats    == <<Look>>
action_backlight_show   == <<Look, Look>>
action_backlight_set    == <<Ask, Look>>
action_rtc_show         == <<Look, Look>>
action_dmesg_tail       == <<Look>>
action_usb_dmesg        == <<Look>>
action_bt_dmesg         == <<Look>>
action_tty_devices      == <<Look, Look>>
action_bt_status        == <<Look>>
action_bt_attach        == <<Ask, Look, Look, Look, Look>>
action_pmu_read         == <<Look>>
action_charging_observe == <<Look, Look, Look, Look>>
action_asp_status       == Looks
action_asp_read_test    == <<Ask, Look, Look>>
action_uptime_mem       == <<Look, Look>>
action_raw_command      == <<Look>>
collect_snapshot        == <<Section, Section>>

MenuActions == {action_kernel_info, action_network_stats, action_backlight_show, action_backlight_set,
            action_rtc_show, action_dmesg_tail, action_usb_dmesg, action_bt_dmesg, action_tty_devices,
            action_bt_status, action_bt_attach, action_pmu_read, action_charging_observe,
            action_asp_status, action_asp_read_test, action_uptime_mem, action_raw_command, collect_snapshot}

\* The console's menu lives on after an error; the other programs end with it.
Program(actions, lives, writes) == [actions |-> actions, menu |-> lives, evidence |-> writes]

ipad_console          == Program(MenuActions, TRUE, TRUE)
bt_probe              == Program({collect_snapshot}, FALSE, FALSE)
h1b_run_record        == Program({Peeks, <<Until(0)>> \o Peeks}, FALSE, TRUE)
h1b_stream            == Program({<<Until(0)>>}, FALSE, TRUE)
h1b_query             == Program({Peeks}, FALSE, TRUE)
h1b_window_probe      == Program({<<Peek, Until(1), Peek, Until(1), Peek>>}, FALSE, TRUE)
j81_readonly_snapshot == Program({Peeks}, FALSE, FALSE)

AllPrograms == {ipad_console, bt_probe, h1b_run_record, h1b_stream, h1b_query, h1b_window_probe,
                j81_readonly_snapshot}

ASSUME ConsoleAssumption == /\ Programs \subseteq AllPrograms
                            /\ MaxCommands \in Nat \ {0} /\ MaxBoots \in Nat \ {0}

n       == Len(told)        \* the command run_result works on, or was last given
Command == Head(todo)

\* The artifacts are hashed and the transcript is created before any session.
Init == /\ \E p \in Programs : menu = p.menu /\ evidence = p.evidence /\ todo \in IF p.menu THEN {<<>>} ELSE p.actions
        /\ pc = "connect"
        /\ conn = "none" /\ inq = <<>> /\ out = <<>> /\ buf = <<>>
        /\ told = <<>> /\ did = <<>> /\ left = {} /\ boot = 1
        /\ kept = {} /\ outcome = "none" /\ pieces = <<>> /\ unrecorded = {}

-----------------------------------------------------------------------------
(* Connecting: IPadShell.connect and close.                                *)

\* A line that comes from the tablet.
Line(what, cmd, status) == [what |-> what, cmd |-> cmd, status |-> status]

\* The banner and the shell's "stty -echo" may come, and be done, after the
\* drains have given up.
Connected == /\ conn' = "open" /\ buf' = <<>>
             /\ \E late \in BOOLEAN : /\ inq' = IF late THEN <<0>> ELSE <<>>
                                      /\ out' = IF late THEN <<Line("banner", 0, "none")>> ELSE <<>>
             /\ UNCHANGED left

\* The host's end is gone.  The shell may still read what was sent to it.
Closed == /\ conn' = "none" /\ inq' = <<>> /\ out' = <<>> /\ buf' = <<>>
          /\ left' = left \cup (Range(inq) \ {0})

\* Nobody there: no socket.  A session that fails in the drains leaves one.
Unconnected == /\ conn' \in {"none", "broken"}
               /\ inq' = <<>> /\ out' = <<>> /\ buf' = <<>> /\ UNCHANGED left

\* The console takes a failure as well; the user may reconnect from its menu.
Connect == /\ pc = "connect"
           /\ \/ Connected /\ pc' = "menu"
              \/ Unconnected /\ pc' = IF menu THEN "menu" ELSE "done"
           /\ UNCHANGED <<program, todo, kept, outcome, told, did, boot, records>>

Leave(to) == /\ pc = "menu" /\ menu /\ pc' = to /\ Closed
             /\ UNCHANGED <<program, todo, kept, outcome, told, did, boot, records>>

Reconnect == Leave("connect")
Quit      == Leave("done")

-----------------------------------------------------------------------------
(* One command: run_result.                                                *)

Choose == /\ pc = "menu" /\ todo' \in IF menu THEN MenuActions ELSE {todo}
          /\ kept' = {} /\ outcome' = "none" /\ pc' = "next"
          /\ UNCHANGED <<program, session, told, tablet, records>>

Call == /\ pc = "next" /\ n < MaxCommands /\ pc' = "call"
        /\ told' = Append(told, "sent") /\ did' = Append(did, [status |-> "no", boot |-> 0])
        /\ UNCHANGED <<program, todo, kept, outcome, session, left, boot, records>>

Opens == /\ pc = "call" /\ conn = "none" /\ Connected
         /\ UNCHANGED <<host, told, did, boot, records>>

\* The command and its trailer.  The trailer's text holds the token: echoed,
\* it looks like the end of the answer.
Send == /\ pc = "call" /\ conn # "none" /\ pc' = "reading"
        /\ \E echoed \in BOOLEAN :
             /\ echoed => inq # <<>>
             /\ out' = IF echoed THEN Append(out, Line("echo", n, "none")) ELSE out
        /\ inq' = IF conn = "open" THEN Append(inq, n) ELSE inq
        /\ UNCHANGED <<program, todo, kept, outcome, conn, buf, told, tablet, records>>

Ends(lines)    == \E i \in DOMAIN lines : lines[i].what # "out" /\ lines[i].cmd = n
Trailer(lines) == {i \in DOMAIN lines : lines[i].what = "status" /\ lines[i].cmd = n}
Output(lines)  == {lines[i].cmd : i \in {j \in DOMAIN lines : lines[j].what = "out"}}

\* One recv: some of what is there, and no sign of the token yet.
Read == /\ pc = "reading"
        /\ \E k \in DOMAIN out : /\ buf' = buf \o SubSeq(out, 1, k)
                                 /\ out' = SubSeq(out, k + 1, Len(out))
        /\ ~Ends(buf')
        /\ UNCHANGED <<host, conn, inq, told, tablet, records>>

\* The token, in a status line: everything before it is the command's output.
Answered == /\ pc = "reading"
            /\ \E k \in DOMAIN out :
                 LET lines == buf \o SubSeq(out, 1, k)
                 IN  /\ Ends(lines) /\ out' = SubSeq(out, k + 1, Len(out))
                     /\ \E i \in Trailer(lines) :
                          told' = [told EXCEPT ![n] =
                                     IF Output(SubSeq(lines, 1, i)) = {n} THEN lines[i].status ELSE "mixed"]
            /\ buf' = <<>> /\ pc' = "record"
            /\ UNCHANGED <<program, todo, kept, outcome, conn, inq, tablet, records>>

Unknown == /\ told' = [told EXCEPT ![n] = "unknown"] /\ pc' = "record"
           /\ UNCHANGED <<program, todo, kept, outcome, did, boot, records>>

\* Mutant: the session is kept for the next command.
GivesUpOpen == /\ pc \in {"call", "reading"} /\ Unknown
               /\ buf' = <<>> /\ UNCHANGED <<conn, inq, out, left>>

\* Mutant: no deadline.
GivesUpBroken == /\ pc \in {"call", "reading"} /\ conn = "broken" /\ Closed /\ Unknown

\* The deadline, a lost session, an error of connect or send.
GivesUp == /\ pc \in {"call", "reading"} /\ Closed /\ Unknown

\* The token without a status: "invalid command status trailer".
Misread == /\ pc = "reading"
           /\ \E k \in DOMAIN out : LET lines == buf \o SubSeq(out, 1, k)
                                    IN  Ends(lines) /\ Trailer(lines) = {}
           /\ Closed /\ Unknown

-----------------------------------------------------------------------------
(* Its record, and what the caller does then.                              *)

\* What of a record is in the file; the write or the fsync may report an error
\* whatever it left there, and the caller then gets that error instead.
Piece(whole, ended) == [cmd |-> n, state |-> told[n], whole |-> whole, ended |-> ended]

Record == /\ pc = "record"
          /\ \/ /\ evidence /\ pieces' = Append(pieces, Piece(TRUE, TRUE))
                /\ pc' = "return" /\ UNCHANGED unrecorded
             \/ /\ evidence /\ pc' = "raise" /\ unrecorded' = unrecorded \cup {n}
                /\ \/ UNCHANGED pieces
                   \/ \E whole, ended \in BOOLEAN :
                        /\ ended => whole
                        /\ pieces' = Append(pieces, Piece(whole, ended))
             \/ /\ ~evidence /\ pc' = "return" /\ unrecorded' = unrecorded \cup {n}
                /\ UNCHANGED pieces
          /\ UNCHANGED <<program, todo, kept, outcome, session, told, tablet>>

Stops == pc' = IF menu THEN "menu" ELSE "done"

GoOn(steps) == /\ todo' = steps
               /\ IF steps = <<>>
                  THEN Stops /\ outcome' = IF Command.use = "section" THEN "snapshot" ELSE "finished"
                  ELSE pc' = "next" /\ UNCHANGED outcome

Ended == Stops /\ outcome' = "ended" /\ todo' = <<>>

Fails == Command.check /\ Command.use # "section" /\ told[n] = "nonzero"

\* ShellCommandFailed for a status that is checked; else the answer is used.
Returns == /\ pc = "return" /\ told[n] # "unknown"
           /\ \/ Fails /\ Ended
              \/ ~Fails /\ GoOn(Tail(todo))
              \/ ~Fails /\ Command.use = "decide" /\ Ended
              \/ Command.use = "repeat" /\ GoOn(todo)
              \/ Command.use = "repeat" /\ GoOn(SubSeq(todo, 2 + Command.skip, Len(todo)))
           /\ kept' = kept \cup {did[n].boot}
           /\ UNCHANGED <<program, session, told, tablet, records>>

\* Mutant: the programs go on after a lost command.
RaisesOn == /\ pc = "raise" \/ (pc = "return" /\ told[n] = "unknown")
            /\ GoOn(Tail(todo)) /\ kept' = kept \cup {0}
            /\ UNCHANGED <<program, session, told, tablet, records>>

\* The session of a lost command is already closed; an error of the record
\* keeps it.
Raises == /\ pc = "raise" \/ (pc = "return" /\ told[n] = "unknown")
          /\ IF Command.use = "section" THEN GoOn(Tail(todo)) ELSE Ended
          /\ kept' = kept \cup {0}
          /\ UNCHANGED <<program, session, told, tablet, records>>

-----------------------------------------------------------------------------
(* The tablet.                                                             *)

Does(c) == \E s \in {"zero", "nonzero"} :
             /\ did' = [did EXCEPT ![c] = [status |-> s, boot |-> boot]]
             /\ UNCHANGED <<host, conn, buf, told, boot, records>>
             /\ IF c \in left
                THEN left' = left \ {c} /\ UNCHANGED <<inq, out>>
                ELSE /\ inq' = Tail(inq) /\ UNCHANGED left
                     /\ out' = out \o <<Line("out", c, "none"), Line("status", c, s)>>

Works == inq # <<>> /\ Head(inq) # 0 /\ Does(Head(inq))

WorksLate == \E c \in left : Does(c)

NoEcho == /\ inq # <<>> /\ Head(inq) = 0 /\ inq' = Tail(inq)
          /\ UNCHANGED <<host, conn, out, buf, told, tablet, records>>

\* The sessions die; the lines on their way may still come, the rest never.
Reboot == /\ boot < MaxBoots /\ boot' = boot + 1
          /\ left' = {} /\ inq' = <<>> /\ conn' = IF conn = "none" THEN "none" ELSE "broken"
          /\ UNCHANGED <<host, out, buf, told, did, records>>

-----------------------------------------------------------------------------
Runs == Call \/ Opens \/ Send \/ Read \/ Answered \/ GivesUp \/ Misread \/ Record \/ Returns \/ Raises

Next == Connect \/ Reconnect \/ Quit \/ Choose \/ Runs \/ Works \/ WorksLate \/ NoEcho \/ Reboot

Spec == Init /\ [][Next]_vars

\* The host goes on; a read has a deadline.
FairSpec == Spec /\ WF_vars(Runs)

-----------------------------------------------------------------------------
(* The audit: audit_session.audit.                                         *)

Starts(i) == i = 1 \/ pieces[i - 1].ended
Decoded   == {i \in DOMAIN pieces : Starts(i) /\ pieces[i].whole /\ (pieces[i].ended \/ i = Len(pieces))}

\* Mutant: a line that is no JSON is skipped without an issue.
LastEnded == \A i \in Decoded : pieces[i].ended

\* No line that is not JSON, no missing newline.
EvidenceValid == \A i \in DOMAIN pieces : Starts(i) => i \in Decoded /\ pieces[i].ended

Counted(states) == {i \in Decoded : pieces[i].state \in states}

-----------------------------------------------------------------------------
(* Properties.                                                             *)

Steps   == {Look, Peek, Ask, Section, Until(0), Until(1)}
Lines   == [what : {"banner", "echo", "out", "status"}, cmd : 0..MaxCommands, status : {"none", "zero", "nonzero"}]
States  == {"sent", "unknown", "zero", "nonzero", "mixed"}
Effects == [status : {"no", "zero", "nonzero"}, boot : 0..MaxBoots]
Pieces  == [cmd : 1..MaxCommands, state : States, whole : BOOLEAN, ended : BOOLEAN]

TypeOK == /\ menu \in BOOLEAN /\ evidence \in BOOLEAN /\ todo \in Seq(Steps)
          /\ pc \in {"connect", "menu", "next", "call", "reading", "record", "return", "raise", "done"}
          /\ conn \in {"none", "open", "broken"}
          /\ inq \in Seq(0..MaxCommands) /\ out \in Seq(Lines) /\ buf \in Seq(Lines)
          /\ told \in Seq(States) /\ n <= MaxCommands
          /\ did \in Seq(Effects) /\ Len(did) = n /\ left \subseteq 1..n /\ boot \in 1..MaxBoots
          /\ kept \subseteq 0..MaxBoots /\ outcome \in {"none", "finished", "snapshot", "ended"}
          /\ pieces \in Seq(Pieces) /\ unrecorded \subseteq 1..n

\* run_result keeps its promise, over sessions that are late, lost and opened
\* anew: a command happens at most once, and its answer is its own.
Promise == INSTANCE RemoteCommand WITH
             Commands <- 1..MaxCommands,
             told <- [c \in 1..MaxCommands |-> IF c <= n THEN told[c] ELSE "new"],
             did  <- [c \in 1..MaxCommands |-> IF c <= n THEN did[c].status ELSE "no"]
KeepsPromise == Promise!Spec

\* A transcript the audit accepts tells of every command, once and truly,
\* except those for which the console said that the record failed.
AuditTrue ==
  EvidenceValid => \A c \in 1..n :
    \/ c \in unrecorded
    \/ c = n /\ pc \in {"call", "reading", "record"}
    \/ \E i \in Counted({told[c]}) :
         /\ pieces[i].cmd = c /\ \A j \in Decoded : pieces[j].cmd = c => j = i
         /\ told[c] = "unknown" \/ told[c] = did[c].status

\* A program that finishes its record has every answer, all from one boot; only
\* the Bluetooth snapshot, which goes on after errors, may miss some or mix two.
OneBoot == outcome = "finished" => 0 \notin kept /\ Cardinality(kept) = 1

\* Every command comes to an end for its caller, whatever the tablet does.
AlwaysAnswers == pc \in {"call", "reading"} ~> pc \in {"return", "raise"}
=============================================================================
