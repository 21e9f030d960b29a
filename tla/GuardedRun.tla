----------------------------- MODULE GuardedRun -----------------------------
(***************************************************************************)
(* An experiment with registers that may hang the machine, run under a     *)
(* watchdog: boot/gpu_bridge_capture.py on the host logs every checkpoint  *)
(* to disk before it lets the next step happen, boot/gpu-watchdog-         *)
(* supervisor.c on the tablet relays checkpoints and permissions and feeds *)
(* the watchdog for results the host has verified, and a worker            *)
(* (gpu-bridge-once-run with gpu-pmgr-peek and gpu-bridge-once) makes one  *)
(* access at a time.  Two pipes and a TCP session carry the lines.         *)
(*                                                                         *)
(* Access 0 reads the power state, access 1 reads the GPC state, the       *)
(* others write the bridge tables.  What they read is right or wrong; the  *)
(* words READ and ACCESS are one permission here.                          *)
(***************************************************************************)
EXTENDS Naturals, Sequences

CONSTANTS N,           \* the accesses are 0..N
          Timeout,     \* of the watchdog, in ticks
          MaxSessions  \* bound: runs of the capture script

ASSUME RunAssumption == N \in Nat \ {0} /\ Timeout \in Nat \ {0} /\ MaxSessions \in Nat

VARIABLES host, expect,      \* the script's state and the line it waits for
          logged,            \* accesses of this boot whose checkpoint is on its disk
          verified,          \* results it has verified in this session
          sessions,
          conn,              \* the session is up
          net, replies,      \* lines to the host, replies to the supervisor
          sup, fed, finish,  \* the supervisor, its feeds (n) and saw_finish
          up, acks,          \* lines and permissions between worker and supervisor
          worker, step, rc,
          guard,             \* the one-shot directory of this boot
          wd, ticks,         \* the watchdog, and the time it has left
          hung,              \* the machine no longer runs
          done               \* history: accesses made in this boot

hostVars == <<host, expect, logged, verified, sessions>>
link     == <<conn, net, replies>>
supVars  == <<sup, fed, finish>>
pipes    == <<up, acks>>
workVars == <<worker, step, rc, guard>>
dog      == <<wd, ticks>>
access   == <<hung, done>>
vars == <<hostVars, link, supVars, pipes, workVars, dog, access>>

Line(k, i) == [kind |-> k, i |-> i]

Init == /\ host = "idle" /\ expect = 1 /\ logged = {} /\ verified = 0 /\ sessions = 0
        /\ conn = FALSE /\ net = <<>> /\ replies = <<>>
        /\ sup = "none" /\ fed = 0 /\ finish = FALSE
        /\ up = <<>> /\ acks = <<>>
        /\ worker = "none" /\ step = 0 /\ rc = 1 /\ guard = FALSE
        /\ wd = "off" /\ ticks = 0 /\ hung = FALSE /\ done = <<>>

-----------------------------------------------------------------------------
(* The host: capture().                                                    *)

Last == 2 * N + 6

\* The lines of a successful run, in order.
Expected(n) == IF n = 1 THEN Line("open", 0)
               ELSE IF n = 2 THEN Line("armed", 0)
               ELSE IF n = Last - 1 THEN Line("finished", 0)
               ELSE IF n = Last THEN Line("disarmed", 0)
               ELSE Line(IF n % 2 = 1 THEN "before" ELSE "after", (n - 3) \div 2)

\* What the host answers to the line it expected.
Answer(line) == IF line.kind = "open" THEN <<Line("arm", 0)>>
                ELSE IF line.kind = "before" THEN <<Line("go", 0)>>
                ELSE IF line.kind = "after" THEN <<Line("feed", line.i + 1)>>
                ELSE <<>>

\* The script connects and starts the supervisor; a supervisor that still
\* holds the watchdog makes the new one give up, which changes nothing here.
Connect == /\ host # "run" /\ sessions < MaxSessions /\ sessions' = sessions + 1
           /\ sup \in {"none", "exited"} /\ ~hung /\ host' = "run" /\ expect' = 1 /\ verified' = 0
           /\ conn' = TRUE /\ net' = <<Line("open", 0)>> /\ replies' = <<>>
           /\ sup' = "asking" /\ fed' = 0 /\ finish' = FALSE
           /\ UNCHANGED <<logged, pipes, workVars, dog, hung, done>>

\* Mutant: the permission is sent before the log is on disk.
CheckpointUnlogged ==
  /\ host = "run" /\ net = <<Expected(expect)>> /\ Head(net).kind = "before"
  /\ replies' = replies \o Answer(Head(net)) /\ net' = <<>>
  /\ expect' = expect + 1
  /\ UNCHANGED <<host, logged, verified, sessions, conn, supVars, pipes, workVars, dog, access>>

\* A checkpoint is logged and synced, then its access is allowed.
Checkpoint == /\ host = "run" /\ net = <<Expected(expect)>> /\ Head(net).kind = "before"
              /\ logged' = logged \cup {Head(net).i}
              /\ replies' = replies \o Answer(Head(net)) /\ net' = <<>>
              /\ expect' = expect + 1
              /\ UNCHANGED <<host, verified, sessions, conn, supVars, pipes, workVars, dog, access>>

\* Any other line that was expected.
Expects == /\ host = "run" /\ net # <<>> /\ Head(net) = Expected(expect) /\ Head(net).kind # "before"
           /\ Head(net).kind = "open" => Len(net) = 1
           /\ verified' = IF Head(net).kind = "after" THEN verified + 1 ELSE verified
           /\ replies' = replies \o Answer(Head(net)) /\ net' = Tail(net)
           /\ expect' = expect + 1
           /\ host' = IF expect = Last THEN "done" ELSE "run"
           /\ conn' = (expect # Last)
           /\ UNCHANGED <<logged, sessions, supVars, pipes, workVars, dog, access>>

\* An unexpected line, the deadline or a lost session ends the script and the
\* session with it; what the supervisor has not read may be lost.
HostFails == /\ host = "run" /\ host' = "failed" /\ conn' = FALSE /\ net' = <<>>
             /\ \E n \in 0..Len(replies) : replies' = SubSeq(replies, 1, n)
             /\ UNCHANGED <<expect, logged, verified, sessions, supVars, pipes, workVars, dog, access>>

-----------------------------------------------------------------------------
(* The supervisor.                                                         *)

Sup(there) == sup' = there

\* Output nobody reads is an error, or is never noticed.
Say(line) == net' = IF conn THEN Append(net, line) ELSE net

\* fgets() from the host: the next reply, or the end of the session.
Reply(r) == replies # <<>> /\ r = Head(replies) /\ replies' = Tail(replies)
HostGone == replies = <<>> /\ ~conn

\* Until the watchdog is armed a lost host just ends the supervisor.
NotArmed == /\ sup = "asking" /\ ~hung /\ HostGone /\ Sup("exited")
            /\ UNCHANGED <<hostVars, link, fed, finish, pipes, workVars, dog, access>>

\* Opening the watchdog starts it, before its timeout is set.
Arm(ok) == /\ sup = "asking" /\ ~hung /\ Reply(Line("arm", 0)) /\ ticks' = Timeout
           /\ IF ok THEN /\ wd' = "armed"
                         /\ Say(Line("armed", 0)) /\ Sup("relay")
                         /\ worker' = "before" /\ step' = 0 /\ rc' = 1
                         /\ up' = <<>> /\ acks' = <<>>
                    ELSE /\ wd' = "opened" /\ Sup("leaving")
                         /\ UNCHANGED <<net, worker, step, rc, pipes>>
           /\ UNCHANGED <<hostVars, conn, fed, finish, guard, access>>

\* A refused timeout: the supervisor disarms it again and is gone; if that
\* fails too the watchdog runs on, until it resets or is opened again.
Leave == /\ sup = "leaving" /\ ~hung /\ Sup("exited")
         /\ (wd' = "off" /\ ticks' = 0) \/ UNCHANGED dog
         /\ UNCHANGED <<hostVars, link, fed, finish, pipes, workVars, access>>

\* A line of the worker is passed on, and then the host's answer is waited for.
Relay == /\ sup = "relay" /\ ~hung /\ up # <<>>
         /\ up' = Tail(up) /\ Say(Head(up))
         /\ finish' = (finish \/ Head(up).kind = "finished")
         /\ fed' = IF Head(up).kind \in {"after", "bad"} THEN fed + 1 ELSE fed
         /\ Sup(IF Head(up).kind = "before" THEN "permission"
                ELSE IF Head(up).kind \in {"after", "bad"} THEN "feed"
                ELSE IF Head(up).kind = "finished" THEN "relay" ELSE "stuck")
         /\ UNCHANGED <<hostVars, conn, replies, acks, workVars, dog, access>>

Permit(r) == /\ sup = "permission" /\ ~hung /\ Reply(r)
             /\ IF r = Line("go", 0) THEN acks' = Append(acks, r) /\ Sup("relay")
                                     ELSE Sup("stuck") /\ UNCHANGED acks
             /\ UNCHANGED <<hostVars, conn, net, fed, finish, up, workVars, dog, access>>

Feed(r) == /\ sup = "feed" /\ ~hung /\ Reply(r)
           /\ IF r = Line("feed", fed) THEN ticks' = Timeout /\ Sup("relay")
                                       ELSE Sup("stuck") /\ UNCHANGED ticks
           /\ UNCHANGED <<hostVars, conn, net, fed, finish, pipes, workVars, wd, access>>

\* Mutant: the watchdog is kept alive while the host is waited for.
WaitFeeding == /\ sup \in {"permission", "feed"} /\ HostGone /\ ~hung
               /\ ticks' = Timeout
               /\ UNCHANGED <<hostVars, link, supVars, pipes, workVars, wd, access>>

\* fail_closed(): nothing more is done, and the watchdog runs out.
FailClosed == /\ \/ sup \in {"permission", "feed"} /\ HostGone
                 \/ sup = "relay" /\ up # <<>> /\ ~conn
              /\ ~hung /\ Sup("stuck")
              /\ UNCHANGED <<hostVars, link, fed, finish, pipes, workVars, dog, access>>

\* Mutant: how the worker ended is not looked at.
ReapAnyway == /\ sup = "relay" /\ ~hung /\ up = <<>> /\ worker = "exited"
              /\ Sup("disarm")
              /\ UNCHANGED <<hostVars, link, fed, finish, pipes, workVars, dog, access>>

\* The worker is gone: it must have finished, and have been fed for.
Reap == /\ sup = "relay" /\ ~hung /\ up = <<>> /\ worker = "exited"
        /\ Sup(IF rc = 0 /\ finish /\ fed > 0 THEN "disarm" ELSE "stuck")
        /\ UNCHANGED <<hostVars, link, fed, finish, pipes, workVars, dog, access>>

\* A disarm that is refused leaves the watchdog running.
DisarmFails == /\ sup = "disarm" /\ ~hung /\ Sup("stuck")
               /\ UNCHANGED <<hostVars, link, fed, finish, pipes, workVars, dog, access>>

Disarm == /\ sup = "disarm" /\ ~hung
          /\ wd' = "off" /\ ticks' = 0
          /\ Say(Line("disarmed", 0)) /\ Sup("exited")
          /\ UNCHANGED <<hostVars, conn, replies, fed, finish, pipes, workVars, access>>

-----------------------------------------------------------------------------
(* The worker: gpu-pmgr-peek for access 0, then gpu-bridge-once.           *)

Work(there) == worker' = there

Announce == /\ worker = "before" /\ ~hung /\ Work("wait")
            /\ up' = Append(up, Line("before", step))
            /\ UNCHANGED <<hostVars, link, supVars, acks, step, rc, guard, dog, access>>

Allowed == /\ worker = "wait" /\ ~hung /\ acks # <<>> /\ acks' = Tail(acks)
           /\ Work("access")
           /\ UNCHANGED <<hostVars, link, supVars, up, step, rc, guard, dog, access>>

\* The access itself, from which the machine may not come back.
Access(hangs) == /\ worker = "access" /\ ~hung /\ Work("after")
                 /\ done' = Append(done, step) /\ hung' = hangs
                 /\ UNCHANGED <<hostVars, link, supVars, pipes, step, rc, guard, dog>>

\* The result; only the GPC state is judged here, the power state by the host.
Report(ok) == /\ worker = "after" /\ ~hung
              /\ step > 1 => ok
              /\ up' = Append(up, Line(IF ok THEN "after" ELSE "bad", step))
              /\ Work(IF step = 0 THEN "guard"
                      ELSE IF step = N \/ ~ok THEN "finish" ELSE "before")
              /\ step' = IF ok /\ step \in 1..N - 1 THEN step + 1 ELSE step
              /\ rc' = IF ok /\ step = N THEN 0 ELSE rc
              /\ UNCHANGED <<hostVars, link, supVars, acks, guard, dog, hung, done>>

\* Mutant: no one-shot guard.
NoGuard == /\ worker = "guard" /\ ~hung /\ Work("before") /\ step' = 1
           /\ UNCHANGED <<hostVars, link, supVars, pipes, rc, guard, dog, access>>

\* mkdir(): once in a boot, or the worker gives up.
Guard == /\ worker = "guard" /\ ~hung
         /\ IF guard THEN Work("exited") /\ UNCHANGED <<step, guard>>
                     ELSE Work("before") /\ step' = 1 /\ guard' = TRUE
         /\ UNCHANGED <<hostVars, link, supVars, pipes, rc, dog, access>>

\* An identity check, /dev/mem or a mapping fails before the first access of
\* either program; gpu-bridge-once says so once it has its guard.
GivesUp == /\ worker = "before" /\ step \in {0, 1} /\ ~hung
           /\ Work(IF step = 0 THEN "exited" ELSE "finish")
           /\ UNCHANGED <<hostVars, link, supVars, pipes, step, rc, guard, dog, access>>

Finish == /\ worker = "finish" /\ ~hung /\ Work("exited")
          /\ up' = Append(up, Line(IF rc = 0 THEN "finished" ELSE "gaveup", 0))
          /\ UNCHANGED <<hostVars, link, supVars, acks, step, rc, guard, dog, access>>

-----------------------------------------------------------------------------
(* The watchdog.                                                           *)

Tick == /\ wd # "off" /\ ticks > 0 /\ ticks' = ticks - 1
        /\ UNCHANGED <<hostVars, link, supVars, pipes, workVars, wd, access>>

\* Everything on the tablet is lost, /tmp with its guard too.
Reset == /\ wd # "off" /\ ticks = 0
         /\ wd' = "off" /\ conn' = FALSE /\ net' = <<>> /\ replies' = <<>>
         /\ sup' = "none" /\ fed' = 0 /\ finish' = FALSE /\ up' = <<>> /\ acks' = <<>>
         /\ worker' = "none" /\ step' = 0 /\ rc' = 1 /\ guard' = FALSE
         /\ hung' = FALSE /\ done' = <<>> /\ logged' = {}
         /\ UNCHANGED <<host, expect, verified, sessions, ticks>>

-----------------------------------------------------------------------------
Host == Connect \/ Checkpoint \/ Expects \/ HostFails

Supervisor == \/ NotArmed \/ \E ok \in BOOLEAN : Arm(ok)
              \/ Leave \/ Relay
              \/ \E r \in {Line("go", 0)} \cup {Line("feed", n) : n \in 1..N + 1} : Permit(r) \/ Feed(r)
              \/ FailClosed \/ Reap \/ Disarm \/ DisarmFails

Worker == \/ Announce \/ Allowed \/ \E hangs \in BOOLEAN : Access(hangs)
          \/ \E ok \in BOOLEAN : Report(ok)
          \/ Guard \/ GivesUp \/ Finish

Next == Host \/ Supervisor \/ Worker \/ Tick \/ Reset

Spec == Init /\ [][Next]_vars

\* Only time is certain to pass.
FairSpec == Spec /\ WF_vars(Tick \/ Reset)

-----------------------------------------------------------------------------
(* Properties.                                                             *)

Lines == [kind : {"open", "armed", "before", "after", "bad", "finished", "gaveup", "disarmed",
                  "arm", "go", "feed"}, i : 0..N + 1]

TypeOK ==
  /\ host \in {"idle", "run", "done", "failed"} /\ expect \in 1..Last + 1
  /\ logged \subseteq 0..N /\ verified \in 0..N + 1 /\ sessions \in 0..MaxSessions
  /\ conn \in BOOLEAN /\ net \in Seq(Lines) /\ replies \in Seq(Lines)
  /\ up \in Seq(Lines) /\ acks \in Seq(Lines)
  /\ sup \in {"none", "asking", "relay", "permission", "feed", "stuck", "disarm", "leaving", "exited"}
  /\ fed \in 0..N + 1 /\ finish \in BOOLEAN
  /\ worker \in {"none", "before", "wait", "access", "after", "guard", "finish", "exited"}
  /\ step \in 0..N /\ rc \in {0, 1} /\ guard \in BOOLEAN
  /\ wd \in {"off", "opened", "armed"} /\ ticks \in 0..Timeout
  /\ hung \in BOOLEAN /\ done \in Seq(0..N)

\* Whatever hangs the machine, the host's disk names it: no access happens
\* before its checkpoint is on the host's disk.
LoggedFirst == \A n \in 1..Len(done) : done[n] \in logged

\* In one boot, whatever sessions are tried, the accesses after the power
\* state happen in the plan's order, none is skipped and none made twice.
PlanOrder == \A n \in 1..Len(done) : done[n] > 0 =>
               /\ \A m \in 1..n - 1 : done[m] < done[n]
               /\ done[n] > 1 => \E m \in 1..n - 1 : done[m] = done[n] - 1

\* The watchdog is disarmed only with the whole plan done and each of its
\* results verified by the host.
DisarmComplete ==
  [][wd = "armed" /\ wd' = "off" /\ sup' = "exited" => verified = N + 1 /\ Len(done) >= N + 1]_vars

\* A running watchdog ends disarmed or in a reset, also when the host is gone,
\* the worker stalls or the machine hangs.
Resolves == wd # "off" ~> wd = "off"
=============================================================================
