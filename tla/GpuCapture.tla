----------------------------- MODULE GpuCapture -----------------------------
(***************************************************************************)
(* The other fifteen capture scripts of boot/gpu_*_capture.py and          *)
(* boot/j81_mcc_capture.py (GuardedRun has gpu_bridge_capture in detail).  *)
(* Each sends one command to the tablet, whose program announces every     *)
(* access and waits for a word before it; the script logs, answers, judges *)
(* the results and says at the end whether the capture is complete.  Two   *)
(* differ: the bridge segment's script answers a line wherever it comes,   *)
(* and the Fender status program announces itself once and then reads on.  *)
(* Supervised ones run below the watchdog of GuardedRun, seen here as one  *)
(* with the program.  The operator may run the script again.               *)
(***************************************************************************)
EXTENDS Naturals, Sequences, Functions

CONSTANTS Scripts,       \* the scripts that may be run, of the records below
          MaxPoll,       \* the polls of one loop (64 in the code)
          MaxSessions    \* bound: runs of the script

VARIABLES script, guarded,   \* the script, and whether it runs supervised
          host, at, polls,   \* the script's state, its place in the plan, polls so far
          conn, net, acks,   \* the session, lines to the host, words to the tablet
          tablet, k, tries,  \* the program: its state, its place, polls so far
          once,              \* the one-shot mark of this boot
          wd,                \* the watchdog
          sessions,
          made,              \* history: the accesses of this boot
          right, wrong       \* history: steps whose result was right in this session, one was wrong

hostVars == <<script, guarded, host, at, polls, sessions>>
link     == <<conn, net, acks>>
progVars == <<tablet, k, tries, once, wd>>
hist     == <<made, right, wrong>>
vars     == <<hostVars, link, progVars, hist>>

(***************************************************************************)
(* A step is one access.  Who judges its result: the script, the program,  *)
(* both, or nobody because any value will do; "partly" is a program that   *)
(* looks at some bits of a value the script wants whole.                   *)
(***************************************************************************)
Read(who) == [judges |-> who, write |-> FALSE, poll |-> FALSE]
Write     == [judges |-> {}, write |-> TRUE, poll |-> FALSE]          \* reported as it was written
Power     == [judges |-> {"host"}, write |-> TRUE, poll |-> FALSE]    \* reported with its exit status
Poll      == [judges |-> {"host", "program"}, write |-> FALSE, poll |-> TRUE]

Host == {"host"}
Both == {"host", "program"}
Bits == {"host", "partly"}

\* What a second run in the same boot meets: a mark the program looks for
\* before it announces step i, or a device that refuses the write of step i.
Nobody     == <<"nobody", 0>>
Program(i) == <<"program", i>>
Device(i)  == <<"device", i>>

\* A script that "keeps" its place takes only the line it waits for; a
\* program that "asks" waits for a word before each access.
Capture(supervised, plan, mark, ends) ==
  [supervised |-> supervised, plan |-> plan, mark |-> mark, ends |-> ends, keeps |-> TRUE, asks |-> TRUE]

gpu_bridge_first    == Capture({TRUE}, <<Read(Host), Read(Both), Write>>, Program(2), "finished")
gpu_bridge_segment  == [supervised |-> {TRUE}, plan |-> <<Read(Host), Read(Both), Write, Write>>, mark |-> Program(2),
                        ends |-> "finished", keeps |-> FALSE, asks |-> TRUE]
gpu_bridge_peek     == Capture({TRUE}, <<Read(Host), Read({"program"}), Read({})>>, Program(2), "finished")
gpu_bridge_postgpc  == Capture(BOOLEAN, <<Read(Host), Read(Both), Read(Bits), Read({}), Read({})>>, Program(2), "finished")
gpu_core_revision   == Capture({TRUE}, <<Read(Host), Read(Both), Read(Both), Read(Both), Read(Both)>>, Program(2), "finished")
gpu_fender_status   == [supervised |-> {FALSE}, plan |-> <<Read(Host), Read(Host), Read(Host)>>, mark |-> Nobody,
                        ends |-> "finished", keeps |-> FALSE, asks |-> FALSE]
gpu_fender_wake     == Capture({FALSE}, <<Read(Both), Write, Poll, Write, Poll, Write, Read(Both), Write, Write, Write, Poll>>, Program(1), "finished")
gpu_gpc             == Capture({FALSE}, <<Read(Host), Read(Both), Read({})>>, Program(2), "result")
gpu_gpc_state_only  == Capture({FALSE}, <<Read(Host), Read({})>>, Program(2), "result")
gpu_gpc_init        == Capture(BOOLEAN, <<Read(Host), Read(Both), Write, Write, Write, Poll>>, Program(2), "finished")
gpu_id              == Capture({FALSE}, <<Read(Host), Read(Both), Read(Both), Read(Both), Read({})>>, Program(2), "finished")
gpu_pmgr            == Capture({FALSE}, <<Read({})>>, Nobody, "result")
gpu_pmgr_cycle      == Capture({FALSE}, <<Read(Host), Power>>, Program(1), "result")
gpu_power           == Capture({FALSE}, <<Read(Host), Power>>, Device(2), "result")
gpu_watchdog_ok     == Capture({TRUE}, <<Read({})>>, Nobody, "finished")
gpu_watchdog_stall  == Capture({TRUE}, <<Read({})>>, Nobody, "stall")
j81_mcc             == Capture({TRUE}, <<Read({})>>, Program(1), "finished")

AllScripts == {gpu_bridge_first, gpu_bridge_segment, gpu_bridge_peek, gpu_bridge_postgpc, gpu_core_revision,
               gpu_fender_status, gpu_fender_wake, gpu_gpc, gpu_gpc_state_only, gpu_gpc_init, gpu_id, gpu_pmgr,
               gpu_pmgr_cycle, gpu_power, gpu_watchdog_ok, gpu_watchdog_stall, j81_mcc}

ASSUME CaptureAssumption == /\ Scripts \subseteq AllScripts
                            /\ MaxPoll \in Nat \ {0} /\ MaxSessions \in Nat \ {0}

Plan == script.plan
N    == Len(Plan)

Line(kind, i, result) == <<kind, i, result>>

Init == /\ script \in Scripts /\ guarded \in script.supervised
        /\ host = "idle" /\ at = <<"idle", 0>> /\ polls = 0 /\ sessions = 0
        /\ conn = FALSE /\ net = <<>> /\ acks = <<>>
        /\ tablet = "off" /\ k = 1 /\ tries = 0 /\ once = FALSE /\ wd = "off"
        /\ made = <<>> /\ right = {} /\ wrong = FALSE

-----------------------------------------------------------------------------
(* The script: capture().  Its place is the next line it waits for:        *)
(* <<"open">>, <<"armed">>, <<"before", i>>, <<"after", i>>, "finished",   *)
(* "disarmed"; for one that keeps no place, what would follow the last     *)
(* line it heard.                                                          *)

Connect == /\ host # "run" /\ sessions < MaxSessions /\ tablet \in {"off", "exited"}
           /\ sessions' = sessions + 1 /\ host' = "run" /\ polls' = 0
           /\ at' = IF guarded THEN <<"open", 0>> ELSE <<"before", 1>>
           /\ conn' = TRUE /\ net' = IF guarded THEN <<Line("open", 0, "right")>> ELSE <<>>
           /\ acks' = <<>>
           /\ tablet' = IF guarded THEN "asking" ELSE "announce"
           /\ k' = 1 /\ tries' = 0 /\ right' = {} /\ wrong' = FALSE
           /\ UNCHANGED <<script, guarded, once, wd, made>>

Answer(word, i) == acks' = Append(acks, <<word, i>>)
Heard           == Head(net)[2]
Expects(kind)   == /\ host = "run" /\ net # <<>> /\ Head(net)[1] = kind /\ net' = Tail(net)
                   /\ script.keeps => at = <<kind, Heard>>

ArmsWatchdog == /\ Expects("open") /\ Answer("arm", 0) /\ at' = <<"armed", 0>>
                /\ UNCHANGED <<script, guarded, host, polls, sessions, conn, progVars, hist>>

Armed == /\ Expects("armed") /\ at' = <<"before", 1>> /\ UNCHANGED acks
         /\ UNCHANGED <<script, guarded, host, polls, sessions, conn, progVars, hist>>

\* A checkpoint is logged and its access allowed.
Checkpoint == /\ Expects("before") /\ at' = <<"after", Heard>>
              /\ IF script.asks THEN Answer("go", Heard) ELSE UNCHANGED acks
              /\ UNCHANGED <<script, guarded, host, polls, sessions, conn, progVars, hist>>

Following == IF Heard < N THEN <<"before", Heard + 1>> ELSE <<"finished", 0>>

\* Mutant: the result is fed and the next step waited for, whatever it is.
ResultUnjudged ==
  /\ Expects("after")
  /\ at' = Following /\ polls' = 0
  /\ host' = IF Heard = N /\ script.ends = "result" THEN "ok" ELSE "run"
  /\ IF guarded THEN Answer("feed", Heard) ELSE UNCHANGED acks
  /\ UNCHANGED <<script, guarded, sessions, conn, progVars, hist>>

\* Mutant: the word for the next access goes out with the judgement.
ResultAhead ==
  /\ Expects("after") /\ Head(net)[3] = "right"
  /\ at' = Following /\ polls' = 0
  /\ host' = IF Heard = N /\ script.ends = "result" THEN "ok" ELSE "run"
  /\ acks' = (IF guarded THEN Append(acks, <<"feed", Heard>>) ELSE acks) \o <<<<"go", Heard + 1>>>>
  /\ UNCHANGED <<script, guarded, sessions, conn, progVars, hist>>

\* A result that passes; a poll that found the device busy is asked again.
\* The feeds are numbered, by the place or by the count of the results.
Result ==
  /\ Expects("after")
  /\ LET got == Head(net)[3]
     IN  /\ got = "wrong" => "host" \notin Plan[Heard].judges
         /\ got = "busy"  => polls + 1 < MaxPoll
         /\ polls' = IF got = "busy" THEN polls + 1 ELSE 0
         /\ at' = IF got = "busy" THEN <<"before", Heard>> ELSE Following
         /\ host' = IF got # "busy" /\ Heard = N /\ script.ends = "result" THEN "ok" ELSE "run"
  /\ IF guarded THEN Answer("feed", Heard) ELSE UNCHANGED acks
  /\ UNCHANGED <<script, guarded, sessions, conn, progVars, hist>>

\* Mutant: a supervised script is content with the program's last line.
FinishedIsEnough ==
  /\ Expects("finished") /\ at' = <<"disarmed", 0>> /\ host' = "ok" /\ UNCHANGED acks
  /\ UNCHANGED <<script, guarded, polls, sessions, conn, progVars, hist>>

\* The status reader's script asks for the announcement and some reading.
SomethingSeen == at \notin {<<"before", 1>>, <<"after", 1>>}

Finished == /\ Expects("finished") /\ at' = <<"disarmed", 0>> /\ UNCHANGED acks
            /\ script.asks \/ SomethingSeen
            /\ host' = IF guarded THEN "run" ELSE "ok"
            /\ UNCHANGED <<script, guarded, polls, sessions, conn, progVars, hist>>

Disarmed == /\ Expects("disarmed") /\ host' = "ok" /\ UNCHANGED acks
            /\ UNCHANGED <<script, guarded, at, polls, sessions, conn, progVars, hist>>

\* The deadline, a lost session or a line that was not expected; the stall
\* test has seen what it wanted when all its lines came.
Ends == /\ host = "run" /\ conn' = FALSE /\ net' = <<>>
        /\ host' = IF script.ends = "stall" /\ at = <<"finished", 0>> THEN "stalled" ELSE "failed"
        /\ \E n \in 0..Len(acks) : acks' = SubSeq(acks, 1, n)
        /\ UNCHANGED <<script, guarded, at, polls, sessions, progVars, hist>>

-----------------------------------------------------------------------------
(* The tablet: the wrapper, its programs and, when guarded, the supervisor.*)

Say(kind, i, result) == net' = IF conn THEN Append(net, Line(kind, i, result)) ELSE net
Word(word)  == acks # <<>> /\ Head(acks)[1] = word /\ acks' = Tail(acks)
Permitted   == IF script.asks THEN Word("go") ELSE UNCHANGED acks
GoneSilent  == acks = <<>> /\ ~conn

\* When a program ends without success the supervisor goes on holding the watchdog.
GivenUp == IF guarded THEN "stuck" ELSE "exited"

Arms(ok) == /\ tablet = "asking" /\ Word("arm")
            /\ IF ok THEN wd' = "armed" /\ tablet' = "announce" /\ Say("armed", 0, "right")
                     ELSE tablet' = "exited" /\ UNCHANGED <<wd, net>>
            /\ UNCHANGED <<hostVars, conn, k, tries, once, hist>>

\* Mutant: no one-shot mark.
BeginsAgain == /\ tablet = "announce" /\ k <= N /\ tablet' = "waiting" /\ Say("before", k, "right")
               /\ UNCHANGED <<hostVars, conn, acks, k, tries, once, wd, hist>>

\* The next access is announced, unless this program has run in this boot.
Announces == /\ tablet = "announce" /\ k <= N
             /\ IF script.mark = Program(k) /\ tries = 0 /\ once
                THEN tablet' = GivenUp /\ UNCHANGED <<net, once>>
                ELSE tablet' = "waiting" /\ Say("before", k, "right") /\ once' = (once \/ script.mark = Program(k))
             /\ UNCHANGED <<hostVars, conn, acks, k, tries, wd, hist>>

\* A hash, a mount or a mapping is not as it must be.
Refuses == /\ tablet = "announce" /\ tries = 0 /\ k \in {1, 2} /\ tablet' = GivenUp
           /\ UNCHANGED <<hostVars, link, k, tries, once, wd, hist>>

\* The access; the device's own mark refuses a second write.
Accesses == /\ tablet = "waiting" /\ Permitted
            /\ LET refused == script.mark = Device(k) /\ once
               IN  /\ made' = IF refused THEN made ELSE Append(made, k)
                   /\ once' = (once \/ script.mark = Device(k))
                   /\ \E got \in (IF refused THEN {"wrong"}
                                  ELSE IF Plan[k].poll THEN {"right", "busy", "wrong"}
                                  ELSE IF Plan[k] = Write THEN {"right"} ELSE {"right", "wrong"}) :
                        /\ Say("after", k, got) /\ tablet' = got
                        /\ right' = IF got = "right" THEN right \cup {k} ELSE right
                        /\ wrong' = (wrong \/ (got = "wrong" /\ Plan[k].judges # {}))
            /\ UNCHANGED <<hostVars, conn, k, tries, wd>>

\* ... or the machine does not come back from it.
Hangs == /\ tablet = "waiting" /\ Permitted /\ ~(script.mark = Device(k) /\ once) /\ tablet' = "hung" /\ made' = Append(made, k)
         /\ UNCHANGED <<hostVars, conn, net, k, tries, once, wd, right, wrong>>

\* What the program makes of the value, after the supervisor was fed for it.
Balks(found) == \/ tablet = "wrong" /\ ("program" \in Plan[k].judges \/ (found /\ "partly" \in Plan[k].judges))
                \/ tablet = "busy" /\ tries + 1 = MaxPoll

Judges == /\ tablet \in {"right", "wrong", "busy"}
          /\ IF guarded THEN Word("feed") ELSE UNCHANGED acks
          /\ k' = IF tablet = "busy" THEN k ELSE k + 1
          /\ tries' = IF tablet = "busy" THEN tries + 1 ELSE 0
          /\ \E found \in BOOLEAN :
               tablet' = IF Balks(found) THEN GivenUp
                         ELSE IF k < N \/ tablet = "busy" THEN (IF script.asks THEN "announce" ELSE "waiting")
                         ELSE "finish"
          /\ UNCHANGED <<hostVars, conn, net, once, wd, hist>>

Finishes == /\ tablet = "finish"
            /\ IF script.ends = "finished" THEN Say("finished", 0, "right") ELSE UNCHANGED net
            /\ tablet' = IF script.ends = "stall" THEN "stuck" ELSE IF guarded THEN "disarm" ELSE "exited"
            /\ UNCHANGED <<hostVars, conn, acks, k, tries, once, wd, hist>>

Disarms(ok) == /\ tablet = "disarm"
               /\ IF ok THEN tablet' = "exited" /\ wd' = "off" /\ Say("disarmed", 0, "right")
                        ELSE tablet' = "stuck" /\ UNCHANGED <<wd, net>>
               /\ UNCHANGED <<hostVars, conn, acks, k, tries, once, hist>>

\* End of file where a word was waited for, or the end of the session.
HearsNothing == /\ GoneSilent
                /\ \/ tablet = "asking" /\ tablet' = "exited"
                   \/ tablet = "waiting" /\ tablet' = GivenUp
                   \/ tablet \in {"right", "wrong", "busy"} /\ guarded /\ tablet' = "stuck"
                /\ UNCHANGED <<hostVars, link, k, tries, once, wd, hist>>

\* The watchdog, or the operator's hand for a machine nobody guards.
Reboots == /\ wd = "armed" \/ tablet = "hung"
           /\ wd' = "off" /\ tablet' = "off" /\ once' = FALSE
           /\ conn' = FALSE /\ net' = <<>> /\ acks' = <<>>
           /\ made' = <<>> /\ right' = {} /\ wrong' = FALSE
           /\ UNCHANGED <<hostVars, k, tries>>

-----------------------------------------------------------------------------
Script == \/ Connect \/ ArmsWatchdog \/ Armed \/ Checkpoint \/ Result \/ Finished \/ Disarmed \/ Ends

Tablet == \/ \E ok \in BOOLEAN : Arms(ok) \/ Disarms(ok)
          \/ Announces \/ Refuses \/ Accesses \/ Hangs \/ Judges \/ Finishes \/ HearsNothing \/ Reboots

Next == Script \/ Tablet

Spec == Init /\ [][Next]_vars

-----------------------------------------------------------------------------
(* Properties.                                                             *)

\* A word reaches the program that asked for it, and at the access it asked
\* for: the two programs of a wrapper share one input, and a word too many
\* would be a permission nobody gave.
OwnWords == tablet = "waiting" => acks \in {<<>>, <<<<"go", k>>>>}

\* However often the script is run in one boot, no register is written twice.
NothingTwice ==
  \A m, n \in 1..Len(made) : (m < n /\ Plan[made[m]].write) => made[m] # made[n]

\* After a result that script or program knows to be wrong nothing is
\* accessed any more in that session, whichever of the two it is that knows.
\* (The Fender status program is the exception: it only reads, and waits for
\* nobody.)
StopsAtWrong == [][script.asks /\ wrong /\ made' # made => made' = <<>> \/ sessions' # sessions]_vars

\* "Complete" means that every access of the plan was made and its result was
\* acceptable, and that the watchdog, if there was one, is off again; the
\* stall test never reports a machine whose watchdog was disarmed.  Scripts
\* that keep no place, or count no results, owe it to the program's order.
CompleteIsTrue ==
  /\ host = "ok" => /\ 1..N \subseteq Range(made) /\ ~wrong /\ wd = "off"
                    /\ \A i \in 1..N : Plan[i].judges # {} => i \in right
  /\ host = "stalled" /\ made # <<>> => wd = "armed"
=============================================================================
