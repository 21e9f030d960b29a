-------------------------- MODULE GuardedRunProofs --------------------------
(***************************************************************************)
(* The safety of GuardedRun for every number of accesses, every timeout    *)
(* and any number of sessions.  Host, supervisor and worker go in lock     *)
(* step over two pipes and a socket, so the proof is about where the one   *)
(* checkpoint and the one result that may be under way can be.  The last   *)
(* section is about the register experiments that run without a watchdog,  *)
(* LiveExperiment, for every selection of the scripts.                     *)
(***************************************************************************)
EXTENDS GuardedRun, LiveExperiment, SequenceTheorems, TLAPS

Armed == {"relay", "permission", "feed", "stuck", "disarm"}

Before == Line("before", step)
Go     == Line("go", 0)

\* A result of the access that the watchdog has not been fed for.
Results == {Line("after", fed), Line("bad", fed)}
Owed    == up # <<>> /\ Head(up) \in Results
Made    == IF Owed THEN fed + 1 ELSE fed

\* What the host may be behind with while nobody waits for it.
Notes == {Line("armed", 0), Line("finished", 0)}
Quiet == {<<>>} \cup {<<q>> : q \in Notes}

(* The watchdog runs from Arm to Disarm, and a worker only meanwhile.       *)
Phases ==
  /\ wd = "armed" <=> sup \in Armed
  /\ wd # "armed" => worker \in {"none", "exited"} /\ up = <<>> /\ acks = <<>>
  /\ wd = "armed" => worker # "none"
  /\ host = "run" => expect <= Last
  /\ ~conn => net = <<>>

(* What the worker has said and the supervisor has not read.                *)
Upward ==
  /\ worker \in {"before", "guard", "finish"} => up = <<>> \/ \E r \in Results : up = <<r>>
  /\ worker = "wait" => \/ up = <<Before>> \/ \E r \in Results : up = <<r, Before>>
                        \/ up = <<>> /\ sup \in {"relay", "permission", "stuck"}
  /\ worker \in {"access", "after"} => up = <<>> /\ sup = "relay"
  /\ worker = "exited" =>
       \/ up = <<>>
       \/ \E r \in Results \cup {Line("finished", 0), Line("gaveup", 0)} : up = <<r>>
       \/ \E r \in Results, e \in {Line("finished", 0), Line("gaveup", 0)} : up = <<r, e>>
  /\ Owed => sup \in {"relay", "stuck"}

(* A permission exists only while the worker waits for it, between the
   supervisor's question and its answer, and only once the host has logged. *)
Permission ==
  /\ acks # <<>> => /\ acks = <<Go>> /\ worker = "wait" /\ up = <<>> /\ sup = "relay"
                    /\ step \in logged
  /\ worker = "wait" /\ up = <<>> /\ acks = <<>> => sup \in {"permission", "stuck"}
  /\ worker = "access" => step \in logged
  /\ sup = "permission" => worker = "wait" /\ up = <<>> /\ acks = <<>>

(* What the host has not read, what it has answered, and what it has
   verified, by what the supervisor waits for.                              *)
Link ==
  /\ sup = "none" => net = <<>> /\ replies = <<>>
  /\ sup = "asking" => /\ fed = 0 /\ verified = 0
                       /\ \/ net = <<Line("open", 0)>> /\ replies = <<>>
                          \/ net = <<>> /\ replies \in {<<>>, <<Line("arm", 0)>>}
  /\ sup = "relay" =>
       /\ verified = fed /\ replies = <<>>
       /\ \/ net = <<>>
          \/ /\ net = <<Line("armed", 0)>> /\ step = 0
             /\ \/ worker \in {"before", "exited"} /\ up = <<>>
                \/ worker = "wait" /\ up = <<Before>>
          \/ net = <<Line("finished", 0)>> /\ worker = "exited" /\ up = <<>>
  /\ sup = "permission" =>
       /\ verified = fed
       /\ \/ net \in {<<Before>>, <<Line("armed", 0), Before>>} /\ replies = <<>>
          \/ net = <<>> /\ replies = <<>>
          \/ net = <<>> /\ replies = <<Go>> /\ step \in logged
  /\ sup = "feed" =>
       /\ fed > 0
       /\ \/ net \in {<<Line("after", fed - 1)>>, <<Line("bad", fed - 1)>>}
             /\ replies = <<>> /\ verified = fed - 1
          \/ net = <<>> /\ replies = <<>> /\ verified \in {fed - 1, fed}
          \/ net = <<>> /\ replies = <<Line("feed", fed)>> /\ verified = fed
  /\ sup = "stuck" => /\ verified <= fed /\ replies = <<>>
                      /\ net \in Quiet \cup {<<Line("gaveup", 0)>>}
  /\ sup = "disarm" => /\ verified = N + 1 /\ replies = <<>> /\ net \in Quiet
                       /\ worker = "exited" /\ up = <<>> /\ rc = 0
  /\ sup = "leaving" => replies = <<>> /\ net = <<>>
  /\ sup = "exited" =>
       /\ replies = <<>>
       /\ net \in {<<>>, <<Line("disarmed", 0)>>} \cup {<<q, Line("disarmed", 0)>> : q \in Notes}

(* Every result of this worker is owed to the watchdog or was fed for.      *)
Counted ==
  wd = "armed" =>
    /\ Made <= N + 1
    /\ worker \in {"before", "wait", "access", "after"} => Made = step
    /\ worker = "guard" => Made = 1 /\ step = 0
    /\ rc = 0 => worker \in {"finish", "exited"} /\ Made = N + 1

(* The accesses of this boot are logged, and at least as many as this
   worker reports.                                                          *)
Logged ==
  /\ LoggedFirst
  /\ wd = "armed" => /\ worker \in {"before", "wait", "access"} => Len(done) >= step
                     /\ worker \in {"after", "guard"} => Len(done) >= step + 1
                     /\ rc = 0 => Len(done) >= N + 1

(* Only the worker that made the guard goes beyond the power state, and it
   has made the accesses before its step.                                   *)
Planned ==
  /\ PlanOrder
  /\ ~guard => step = 0 /\ \A n \in 1..Len(done) : done[n] = 0
  /\ worker \in {"before", "wait", "access"} /\ step > 0 =>
       /\ \A n \in 1..Len(done) : done[n] < step
       /\ step > 1 => \E n \in 1..Len(done) : done[n] = step - 1
  /\ worker = "after" /\ step > 0 =>
       /\ \A n \in 1..Len(done) : done[n] <= step
       /\ \E n \in 1..Len(done) : done[n] = step

LockStep == Phases /\ Upward /\ Permission /\ Link /\ Counted /\ Logged /\ Planned

IInv == TypeOK /\ LockStep

-----------------------------------------------------------------------------
(* A second line goes behind the first.                                     *)
LEMMA OfOne == ASSUME NEW x PROVE Head(<<x>>) = x /\ Tail(<<x>>) = <<>>
OBVIOUS

LEMMA AppendOne == ASSUME NEW x, NEW y PROVE Append(<<x>>, y) = <<x, y>>
<1> DEFINE S == {x, y}
<1>1. /\ <<x>> \in Seq(S) /\ Len(<<x>>) = 1 /\ <<x>>[1] = x
      /\ <<x, y>> \in Seq(S) /\ Len(<<x, y>>) = 2 /\ <<x, y>>[1] = x /\ <<x, y>>[2] = y
      /\ y \in S
  OBVIOUS
<1> HIDE DEF S
<1>2. /\ Append(<<x>>, y) \in Seq(S) /\ Len(Append(<<x>>, y)) = 2
      /\ Append(<<x>>, y)[1] = x /\ Append(<<x>>, y)[2] = y
  BY <1>1, AppendProperties
<1>3. \A i \in 1..2 : Append(<<x>>, y)[i] = <<x, y>>[i]
  BY <1>1, <1>2
<1>4. QED
  BY <1>1, <1>2, <1>3, SeqEqual

(* Of no line or of one, what is lost is all of it or nothing.              *)
LEMMA PrefixOfOne ==
  ASSUME NEW x PROVE /\ SubSeq(<<>>, 1, 0) = <<>>
                     /\ SubSeq(<<x>>, 1, 0) = <<>> /\ SubSeq(<<x>>, 1, 1) = <<x>>
<1>1. <<x>> \in Seq({x}) /\ Len(<<x>>) = 1
  OBVIOUS
<1>2. SubSeq(<<x>>, 1, 1) = <<x>>
  BY <1>1, SubSeqFull, Zenon
<1>3. QED
  BY <1>2, SubSeqEmpty

-----------------------------------------------------------------------------
(* Only the last line expected is the disarm, and a checkpoint never is.    *)
LEMMA ExpectedKinds ==
  \A n \in 1..Last :
    /\ Expected(n).kind \in {"open", "armed", "before", "after", "finished", "disarmed"}
    /\ Expected(n).kind = "disarmed" <=> n = Last
    /\ Expected(n).kind = "before" => n < Last
BY RunAssumption DEF Expected, Last, Line

(* A line the script expected, other than a checkpoint, keeps it.           *)
LEMMA ExpectsKeeps == IInv /\ Expects => LockStep'
<1> SUFFICES ASSUME IInv, Expects PROVE LockStep'
  OBVIOUS
<1>1. UNCHANGED <<logged, sessions, supVars, pipes, workVars, dog, access>>
  BY DEF Expects
<1>2. /\ Head(net).kind \in {"open", "armed", "after", "finished", "disarmed"}
      /\ Head(net).kind = "disarmed" <=> expect = Last
  <2>1. expect \in 1..Last /\ Head(net) = Expected(expect) /\ Head(net).kind # "before"
    BY RunAssumption DEF Expects, IInv, TypeOK, LockStep, Phases, Last
  <2>2. QED
    BY <2>1, ExpectedKinds
<1>3. /\ net' = Tail(net) /\ replies' = replies \o Answer(Head(net)) /\ conn' = (expect # Last)
      /\ verified' = IF Head(net).kind = "after" THEN verified + 1 ELSE verified
      /\ expect' = expect + 1 /\ host' = IF expect = Last THEN "done" ELSE "run"
      /\ host = "run" /\ net # <<>>
  BY DEF Expects
<1>4. Link' /\ (Head(net).kind = "disarmed" => net' = <<>>)
  <2> USE DEF Line
  <2>1. CASE sup = "asking"
    <3>1. net = <<Line("open", 0)>> /\ replies = <<>> /\ fed = 0 /\ verified = 0
      BY <2>1, <1>3 DEF IInv, LockStep, Link
    <3>2. net' = <<>> /\ replies' = <<Line("arm", 0)>> /\ verified' = 0 /\ fed' = 0 /\ sup' = "asking"
      BY <1>1, <1>3, <2>1, <3>1 DEF Answer, supVars
    <3>3. QED
      BY <3>1, <3>2 DEF Link
  <2>2. CASE sup = "relay"
    <3>1. /\ net \in {<<Line("armed", 0)>>, <<Line("finished", 0)>>}
          /\ replies = <<>> /\ fed = verified
      BY <2>2, <1>3 DEF IInv, LockStep, Link
    <3>2. Head(net).kind \in {"armed", "finished"} /\ Tail(net) = <<>>
      <4>1. PICK q \in {Line("armed", 0), Line("finished", 0)} : net = <<q>>
        BY <3>1
      <4>2. q.kind \in {"armed", "finished"}
        OBVIOUS
      <4>3. QED
        BY <4>1, <4>2, OfOne
    <3>3. replies' = <<>>
      BY <1>3, <3>1, <3>2 DEF Answer
    <3>4. net' = <<>> /\ replies' = <<>> /\ verified' = verified /\ fed' = fed /\ sup' = "relay"
      BY <1>1, <1>3, <2>2, <3>2, <3>3 DEF supVars
    <3>5. QED
      BY <3>1, <3>4 DEF Link
  <2>3. CASE sup = "permission"
    <3>1. net = <<Line("armed", 0), Before>> /\ replies = <<>> /\ fed = verified
      BY <2>3, <1>2, <1>3 DEF IInv, LockStep, Link, Before
    <3>2. /\ net' = <<Before>> /\ replies' = <<>> /\ verified' = verified /\ fed' = fed
          /\ sup' = "permission" /\ step' = step /\ Before' = Before
      BY <1>1, <1>3, <2>3, <3>1 DEF Answer, supVars, workVars, Before
    <3>3. QED
      BY <3>1, <3>2 DEF Link
  <2>4. CASE sup = "feed"
    <3>1. /\ net = <<Line("after", fed - 1)>> /\ replies = <<>> /\ verified = fed - 1
          /\ fed > 0 /\ fed \in Nat
      BY <2>4, <1>2, <1>3, RunAssumption DEF IInv, TypeOK, LockStep, Link
    <3>2. /\ net' = <<>> /\ replies' = <<Line("feed", fed)>> /\ verified' = fed /\ fed' = fed
          /\ sup' = "feed"
      BY <1>1, <1>3, <2>4, <3>1 DEF Answer, supVars
    <3>3. QED
      BY <3>1, <3>2 DEF Link
  <2>5. CASE sup \in {"stuck", "disarm"}
    <3>1. \E q \in Notes \cup {Line("gaveup", 0)} : net = <<q>>
      BY <2>5, <1>3 DEF IInv, LockStep, Link, Quiet
    <3>2. net' = <<>> /\ replies' = replies /\ verified' = verified /\ Head(net).kind # "disarmed"
      BY <1>2, <1>3, <2>5, <3>1 DEF Answer, Notes, IInv, LockStep, Link
    <3>3. QED
      BY <1>1, <2>5, <3>2 DEF IInv, LockStep, Link, supVars, workVars, pipes, Quiet
  <2>6. CASE sup = "exited"
    <3>1. /\ \/ net = <<Line("disarmed", 0)>>
             \/ \E q \in Notes : net = <<q, Line("disarmed", 0)>>
          /\ replies = <<>>
      BY <2>6, <1>3 DEF IInv, LockStep, Link
    <3>2. replies' = <<>> /\ sup' = "exited"
      BY <1>1, <1>2, <1>3, <2>6, <3>1 DEF Answer, Notes, supVars
    <3>3. CASE net = <<Line("disarmed", 0)>>
      BY <1>3, <3>2, <3>3 DEF Link
    <3>4. ASSUME NEW q \in Notes, net = <<q, Line("disarmed", 0)>>
          PROVE  net' = <<Line("disarmed", 0)>> /\ Head(net).kind # "disarmed"
      BY <1>3, <3>4 DEF Notes
    <3>5. QED
      BY <3>1, <3>2, <3>3, <3>4 DEF Link
  <2>7. QED
    BY <1>3, <2>1, <2>2, <2>3, <2>4, <2>5, <2>6 DEF IInv, TypeOK, LockStep, Link
<1>5. Phases'
  BY <1>1, <1>2, <1>3, <1>4, RunAssumption DEF IInv, TypeOK, LockStep, Phases, Last, supVars, dog, workVars, pipes, Armed
<1>6. Permission' /\ Upward' /\ Counted'
  BY <1>1 DEF IInv, LockStep, Permission, Upward, Counted, supVars, dog, workVars, pipes, Made, Owed,
     Results, Before, Go
<1>7. Logged' /\ Planned'
  BY <1>1 DEF IInv, LockStep, Logged, LoggedFirst, Planned, PlanOrder, workVars, dog, access
<1>8. QED
  BY <1>4, <1>5, <1>6, <1>7 DEF LockStep

(* A session is opened while nothing runs on the tablet.                    *)
LEMMA ConnectKeeps == IInv /\ Connect => LockStep'
<1> SUFFICES ASSUME IInv, Connect PROVE LockStep'
  OBVIOUS
<1>1. /\ sup \in {"none", "exited"} /\ expect' = 1 /\ verified' = 0
      /\ conn' = TRUE /\ net' = <<Line("open", 0)>> /\ replies' = <<>>
      /\ sup' = "asking" /\ fed' = 0
      /\ UNCHANGED <<logged, pipes, workVars, dog, hung, done>>
  BY DEF Connect
<1>2. wd # "armed" /\ up = <<>> /\ acks = <<>> /\ worker \in {"none", "exited"}
  BY <1>1 DEF IInv, TypeOK, LockStep, Phases, Armed
<1>3. Phases' /\ Link' /\ Permission' /\ Upward'
  BY <1>1, <1>2, RunAssumption DEF Phases, Link, Permission, Upward, Owed, Armed, Last, pipes, workVars, dog
<1>4. Counted' /\ Logged' /\ Planned'
  BY <1>1, <1>2 DEF Counted, Logged, LoggedFirst, Planned, PlanOrder, IInv, LockStep, workVars, dog
<1>5. QED
  BY <1>3, <1>4 DEF LockStep

(* The line that asks for a permission comes alone.                         *)
LEMMA CheckpointIs ==
  ASSUME IInv, Checkpoint
  PROVE  sup = "permission" /\ net = <<Before>> /\ replies = <<>> /\ verified = fed
<1>1. net # <<>> /\ Len(net) = 1 /\ Head(net).kind = "before" /\ Link
  BY DEF Checkpoint, IInv, LockStep
<1>2. sup \in {"none", "asking", "relay", "permission", "feed", "stuck", "disarm", "leaving", "exited"}
  BY DEF IInv, TypeOK
<1>3. \A kind, i : Line(kind, i).kind = kind
  BY DEF Line
<1>4. sup \notin {"none", "asking", "relay"}
  BY <1>1, <1>3 DEF Link
<1>5. sup # "feed"
  BY <1>1, <1>3 DEF Link
<1>6. sup \notin {"stuck", "disarm"}
  BY <1>1, <1>3 DEF Link, Quiet, Notes
<1>7. sup \notin {"leaving", "exited"}
  BY <1>1, <1>3 DEF Link, Notes
<1>8. sup = "permission"
  BY <1>2, <1>4, <1>5, <1>6, <1>7
<1>9. QED
  BY <1>1, <1>8 DEF Link

(* The script's steps keep the invariant.                                   *)
LEMMA HostKeeps == IInv /\ Host => LockStep'
<1> SUFFICES ASSUME IInv, Host PROVE LockStep'
  OBVIOUS
<1> USE RunAssumption DEF IInv, TypeOK, LockStep, Phases, Upward, Permission, Link, Counted, Logged, Planned,
        LoggedFirst, PlanOrder, Armed, Before, Go, Results, Owed, Made, Notes, Quiet, Line, Last,
        hostVars, link, supVars, pipes, workVars, dog, access, Sup, Work
<1>1. CASE Connect
  BY <1>1, ConnectKeeps
<1>2. CASE Checkpoint
  <2>1. sup = "permission" /\ net = <<Before>> /\ replies = <<>> /\ verified = fed
    BY <1>2, CheckpointIs
  <2>2. /\ net' = <<>> /\ replies' = <<Go>> /\ logged' = logged \cup {step}
        /\ UNCHANGED <<host, verified, sessions, conn, supVars, pipes, workVars, dog, access>>
    BY <1>2, <2>1 DEF Checkpoint, Answer
  <2>3. Phases'
    BY <1>2, <2>1, <2>2 DEF Checkpoint, Expected
  <2>4. Link' /\ Permission'
    BY <2>1, <2>2
  <2>5. Upward' /\ Counted'
    BY <2>2
  <2>6. Logged' /\ Planned'
    BY <2>2
  <2>7. QED
    BY <2>3, <2>4, <2>5, <2>6
<1>3. CASE Expects
  BY <1>3, ExpectsKeeps
<1>4. CASE HostFails
  <2>1. /\ net' = <<>> /\ ~conn' /\ host' = "failed"
        /\ UNCHANGED <<expect, logged, verified, sessions, supVars, pipes, workVars, dog, access>>
    BY <1>4 DEF HostFails
  <2>2. replies' = <<>> \/ replies' = replies
    <3>1. PICK n \in 0..Len(replies) : replies' = SubSeq(replies, 1, n)
      BY <1>4 DEF HostFails
    <3>2. replies = <<>> \/ \E r : replies = <<r>>
      OBVIOUS
    <3>3. CASE replies = <<>>
      BY <3>1, <3>3, PrefixOfOne
    <3>4. ASSUME NEW r, replies = <<r>> PROVE replies' = <<>> \/ replies' = replies
      <4>1. Len(replies) = 1
        BY <3>4
      <4>2. n = 0 \/ n = 1
        BY <4>1
      <4>3. QED
        BY <3>1, <3>4, <4>2, PrefixOfOne, Zenon
    <3>5. QED
      BY <3>2, <3>3, <3>4
  <2>3. Phases' /\ Link'
    BY <2>1, <2>2
  <2>4. Permission' /\ Upward' /\ Counted'
    BY <2>1
  <2>5. Logged' /\ Planned'
    BY <2>1
  <2>6. QED
    BY <2>3, <2>4, <2>5
<1>5. QED
  BY <1>1, <1>2, <1>3, <1>4 DEF Host

-----------------------------------------------------------------------------
(* The supervisor passes a line on: a checkpoint, a result, or the end.     *)
LEMMA RelayKeeps == IInv /\ Relay => LockStep'
<1> SUFFICES ASSUME IInv, Relay PROVE LockStep'
  OBVIOUS
<1> USE DEF Line
<1>1. /\ sup = "relay" /\ up # <<>> /\ up' = Tail(up)
      /\ net' = IF conn THEN Append(net, Head(up)) ELSE net
      /\ UNCHANGED <<hostVars, conn, replies, acks, workVars, dog, access>>
  BY DEF Relay, Say
<1>2. verified = fed /\ replies = <<>> /\ acks = <<>> /\ wd = "armed" /\ (~conn => net = <<>>)
      /\ fed \in Nat
  BY <1>1, RunAssumption DEF IInv, TypeOK, LockStep, Link, Permission, Phases, Armed
<1>3. Logged' /\ Planned'
  BY <1>1 DEF IInv, LockStep, Logged, LoggedFirst, Planned, PlanOrder, hostVars, workVars, dog, access
<1>4. CASE up = <<Before>>
  <2>1. worker = "wait" /\ sup' = "permission" /\ fed' = fed /\ up' = <<>>
    <3>1. worker = "wait"
      BY <1>1, <1>2, <1>4 DEF IInv, TypeOK, LockStep, Phases, Upward, Before, Results
    <3>2. up' = <<>> /\ Head(up).kind = "before"
      BY <1>1, <1>4 DEF Before
    <3>3. QED
      BY <3>1, <3>2 DEF Relay, Sup
  <2>2. net \in {<<>>, <<Line("armed", 0)>>}
    BY <1>1, <1>4, <2>1 DEF IInv, LockStep, Link
  <2>3. Before' = Before /\ net' \in {<<>>, <<Before>>, <<Line("armed", 0), Before>>}
    <3>1. Before' = Before
      BY <1>1 DEF Before, workVars
    <3>2. Append(<<>>, Before) = <<Before>>
      OBVIOUS
    <3> DEFINE armed == Line("armed", 0)
    <3> HIDE DEF armed
    <3>3. Append(<<armed>>, Before) = <<armed, Before>>
      BY AppendOne
    <3>4. net \in {<<>>, <<armed>>} /\ Head(up) = Before
      BY <1>4, <2>2 DEF armed
    <3>5. net' = <<>> \/ net' = Append(net, Before)
      BY <1>1, <1>2, <3>4
    <3>6. net' \in {<<>>, <<Before>>, <<armed, Before>>}
      BY <3>2, <3>3, <3>4, <3>5
    <3>7. QED
      BY <3>1, <3>6 DEF armed
  <2>4. ~Owed /\ ~Owed'
    BY <1>4, <2>1 DEF Owed, Results, Before
  <2>5. Link' /\ Phases'
    BY <1>1, <1>2, <2>1, <2>3 DEF Link, Phases, Armed, IInv, LockStep, hostVars, workVars, dog
  <2>6. Upward' /\ Permission'
    BY <1>1, <1>2, <2>1, <2>4 DEF Upward, Permission, workVars
  <2>7. Counted'
    BY <1>1, <1>2, <2>1, <2>4 DEF Counted, Made, IInv, LockStep, workVars, dog
  <2>8. QED
    BY <1>3, <2>5, <2>6, <2>7 DEF LockStep
<1>5. CASE Head(up) \in Results
  <2>1. net = <<>>
    BY <1>1, <1>5 DEF IInv, LockStep, Link, Results, Before
  <2>2. /\ sup' = "feed" /\ fed' = fed + 1
        /\ net' \in {<<>>, <<Line("after", fed)>>, <<Line("bad", fed)>>}
    BY <1>1, <1>5, <2>1 DEF Relay, Sup, Results
  <2>3. /\ worker \in {"before", "guard", "finish", "wait", "exited"}
        /\ worker \in {"before", "guard", "finish"} => up' = <<>>
        /\ worker = "wait" => up' = <<Before>>
        /\ worker = "exited" => \/ up' = <<>>
                                \/ \E e \in {Line("finished", 0), Line("gaveup", 0)} : up' = <<e>>
    <3>1. worker \in {"before", "guard", "finish", "wait", "exited"}
      BY <1>1, <1>2 DEF IInv, TypeOK, LockStep, Phases, Upward
    <3>2. ASSUME worker \in {"before", "guard", "finish"} PROVE up' = <<>>
      <4>1. \E r : up = <<r>>
        BY <1>1, <3>2 DEF IInv, LockStep, Upward
      <4>2. QED
        BY <1>1, <4>1
    <3>3. ASSUME worker = "wait" PROVE up' = <<Before>>
      <4>1. up # <<Before>>
        BY <1>5 DEF Results, Before
      <4>2. \E r : up = <<r, Before>>
        BY <1>1, <3>3, <4>1 DEF IInv, LockStep, Upward
      <4>3. QED
        BY <1>1, <4>2
    <3>4. ASSUME worker = "exited"
          PROVE  up' = <<>> \/ \E e \in {Line("finished", 0), Line("gaveup", 0)} : up' = <<e>>
      <4>1. \/ \E r : up = <<r>>
            \/ \E r, e : up = <<r, e>> /\ e \in {Line("finished", 0), Line("gaveup", 0)}
        BY <1>1, <3>4 DEF IInv, LockStep, Upward
      <4>2. CASE \E r : up = <<r>>
        BY <1>1, <4>2
      <4>3. CASE \E r, e : up = <<r, e>> /\ e \in {Line("finished", 0), Line("gaveup", 0)}
        BY <1>1, <4>3
      <4>4. QED
        BY <4>1, <4>2, <4>3
    <3>5. QED
      BY <3>1, <3>2, <3>3, <3>4
  <2>4. Owed /\ ~Owed' /\ Before' = Before
    <3>1. \/ up' = <<>>
          \/ \E e : up' = <<e>> /\ e.kind \in {"before", "finished", "gaveup"}
      BY <2>3 DEF Before
    <3>2. \A r \in Results' : r.kind \in {"after", "bad"}
      BY DEF Results
    <3>3. ~Owed'
      BY <3>1, <3>2 DEF Owed
    <3>4. QED
      BY <1>1, <1>5, <3>3 DEF Owed, Before, workVars
  <2>5. Link' /\ Phases'
    BY <1>1, <1>2, <2>2 DEF Link, Phases, Armed, IInv, LockStep, hostVars, workVars, dog
  <2>6. Upward' /\ Permission'
    <3>1. worker' = worker /\ acks' = <<>> /\ sup' = "feed" /\ step' = step
      BY <1>1, <1>2, <2>2 DEF workVars
    <3>2. Upward'
      BY <2>3, <2>4, <3>1 DEF Upward
    <3>3. Permission'
      BY <2>3, <3>1 DEF Permission
    <3>4. QED
      BY <3>2, <3>3
  <2>7. Counted'
    BY <1>1, <1>2, <2>2, <2>4 DEF Counted, Made, IInv, LockStep, workVars, dog
  <2>8. QED
    BY <1>3, <2>5, <2>6, <2>7 DEF LockStep
<1>6. CASE up \in {<<Line("finished", 0)>>, <<Line("gaveup", 0)>>}
  <2>0. Upward /\ Link /\ wd = "armed" /\ worker # "none"
    BY <1>2 DEF IInv, LockStep, Phases
  <2>1. worker = "exited" /\ up' = <<>> /\ net = <<>> /\ fed' = fed
    <3>1. worker = "exited"
      BY <1>1, <1>6, <2>0 DEF Upward, Results, Before, IInv, TypeOK
    <3>2. up' = <<>>
      <4>1. PICK e : up = <<e>>
        BY <1>6
      <4>2. QED
        BY <1>1, <4>1, OfOne
    <3>3. net = <<>>
      <4>1. up # <<>> /\ up # <<Before>>
        <5>1. PICK e \in {Line("finished", 0), Line("gaveup", 0)} : up = <<e>>
          BY <1>6
        <5>2. e # Before
          BY DEF Before, Line
        <5>3. QED
          BY <5>1, <5>2
      <4>2. sup = "relay"
        BY <1>1
      <4>3. QED
        BY <2>0, <4>1, <4>2, Zenon DEF Link
    <3>4. fed' = fed
      BY <1>1, <1>6 DEF Relay
    <3>5. QED
      BY <3>1, <3>2, <3>3, <3>4
  <2>2. \/ sup' = "relay" /\ net' \in {<<>>, <<Line("finished", 0)>>}
        \/ sup' = "stuck" /\ net' \in {<<>>, <<Line("gaveup", 0)>>}
    BY <1>1, <1>6, <2>1 DEF Relay, Sup
  <2>3. ~Owed /\ ~Owed'
    BY <1>6, <2>1 DEF Owed, Results
  <2>4. Link' /\ Phases'
    BY <1>1, <1>2, <2>1, <2>2 DEF Link, Phases, Armed, Notes, Quiet, IInv, LockStep, hostVars, workVars, dog
  <2>5. Upward' /\ Permission'
    BY <1>1, <1>2, <2>1, <2>2, <2>3 DEF Upward, Permission, workVars
  <2>6. Counted'
    BY <1>1, <1>2, <2>1, <2>3 DEF Counted, Made, IInv, LockStep, workVars, dog
  <2>7. QED
    BY <1>3, <2>4, <2>5, <2>6 DEF LockStep
<1>7. QED
  <2>1. worker \in {"before", "guard", "finish", "wait", "exited"}
    BY <1>1, <1>2 DEF IInv, TypeOK, LockStep, Phases, Upward
  <2>2. \/ up = <<Before>> \/ Head(up) \in Results
        \/ up \in {<<Line("finished", 0)>>, <<Line("gaveup", 0)>>}
    BY <1>1, <2>1 DEF IInv, LockStep, Upward
  <2>3. QED
    BY <1>4, <1>5, <1>6, <2>2

(* It arms the watchdog and starts a worker, or gives up.                   *)
LEMMA ArmKeeps == ASSUME IInv, NEW ok \in BOOLEAN, Arm(ok) PROVE LockStep'
<1> USE DEF Line
<1>1. /\ sup = "asking" /\ wd # "armed" /\ replies # <<>> /\ replies' = Tail(replies)
      /\ UNCHANGED <<hostVars, conn, fed, finish, guard, access>>
  BY DEF Arm, Reply, IInv, LockStep, Phases, Armed
<1>2. net = <<>> /\ replies' = <<>> /\ fed = 0 /\ verified = 0
  <2>1. net = <<>> /\ replies = <<Line("arm", 0)>> /\ fed = 0 /\ verified = 0
    BY <1>1 DEF IInv, LockStep, Link
  <2>2. QED
    BY <1>1, <2>1
<1>3. CASE ok
  <2>1. /\ wd' = "armed" /\ sup' = "relay" /\ worker' = "before" /\ step' = 0 /\ rc' = 1
        /\ up' = <<>> /\ acks' = <<>> /\ net' \in {<<>>, <<Line("armed", 0)>>} /\ (~conn => net' = <<>>)
    BY <1>2, <1>3 DEF Arm, Sup, Say
  <2>2. ~Owed' /\ Made' = 0
    BY <1>1, <1>2, <2>1 DEF Owed, Made
  <2>3. Phases' /\ Link' /\ Upward' /\ Permission'
    BY <1>1, <1>2, <2>1, <2>2 DEF Phases, Link, Upward, Permission, Armed, IInv, LockStep, hostVars
  <2>4. Counted' /\ Logged'
    BY <1>1, <2>1, <2>2, RunAssumption DEF Counted, Logged, LoggedFirst, IInv, TypeOK, LockStep, hostVars, access
  <2>5. Planned'
    BY <1>1, <2>1 DEF Planned, PlanOrder, IInv, LockStep, access
  <2>6. QED
    BY <2>3, <2>4, <2>5 DEF LockStep
<1>4. CASE ~ok
  <2>1. sup' = "leaving" /\ wd' = "opened" /\ UNCHANGED <<net, worker, step, rc, pipes>>
    BY <1>4 DEF Arm, Sup
  <2>2. Phases' /\ Link' /\ Upward' /\ Permission'
    BY <1>1, <1>2, <2>1 DEF Phases, Link, Upward, Permission, Armed, Owed, IInv, LockStep, hostVars, pipes
  <2>3. Counted' /\ Logged' /\ Planned'
    BY <1>1, <2>1 DEF Counted, Logged, LoggedFirst, Planned, PlanOrder, IInv, LockStep, hostVars, access
  <2>4. QED
    BY <2>2, <2>3 DEF LockStep
<1>5. QED
  BY <1>3, <1>4

(* It hands a permission down.                                              *)
LEMMA PermitKeeps == ASSUME IInv, NEW r, Permit(r) PROVE LockStep'
<1> USE DEF Line
<1>1. /\ sup = "permission" /\ replies # <<>> /\ r = Head(replies) /\ replies' = Tail(replies)
      /\ UNCHANGED <<hostVars, conn, net, fed, finish, up, workVars, dog, access>>
  BY DEF Permit, Reply
<1>2. /\ r = Go /\ replies' = <<>> /\ net = <<>> /\ verified = fed /\ step \in logged
      /\ worker = "wait" /\ up = <<>> /\ acks = <<>>
  <2>1. replies = <<Go>> /\ net = <<>> /\ verified = fed /\ step \in logged
    BY <1>1 DEF IInv, LockStep, Link
  <2>2. worker = "wait" /\ up = <<>> /\ acks = <<>>
    BY <1>1 DEF IInv, LockStep, Permission
  <2>3. QED
    BY <1>1, <2>1, <2>2
<1>3. acks' = <<Go>> /\ sup' = "relay"
  BY <1>2 DEF Permit, Sup, Go
<1>4. Phases' /\ Link' /\ Upward' /\ Permission'
  BY <1>1, <1>2, <1>3 DEF Phases, Link, Upward, Permission, Armed, Owed, IInv, LockStep, hostVars,
     workVars, dog, Go
<1>5. Counted' /\ Logged' /\ Planned'
  BY <1>1, <1>2 DEF Counted, Made, Owed, Logged, LoggedFirst, Planned, PlanOrder, IInv, LockStep, hostVars,
     workVars, dog, access
<1>6. QED
  BY <1>4, <1>5 DEF LockStep

(* It feeds the watchdog for a verified result.                             *)
LEMMA FeedKeeps == ASSUME IInv, NEW r, Feed(r) PROVE LockStep'
<1> USE DEF Line
<1>1. /\ sup = "feed" /\ replies # <<>> /\ r = Head(replies) /\ replies' = Tail(replies)
      /\ UNCHANGED <<hostVars, conn, net, fed, finish, pipes, workVars, wd, access>>
  BY DEF Feed, Reply
<1>2. r = Line("feed", fed) /\ replies' = <<>> /\ net = <<>> /\ verified = fed
  <2>1. replies = <<Line("feed", fed)>> /\ net = <<>> /\ verified = fed
    BY <1>1 DEF IInv, LockStep, Link
  <2>2. QED
    BY <1>1, <2>1
<1>3. sup' = "relay"
  BY <1>2 DEF Feed, Sup
<1>4. Results' = Results /\ Before' = Before /\ Owed' = Owed
  BY <1>1 DEF Results, Before, Owed, pipes, workVars
<1>5. Phases' /\ Link'
  BY <1>1, <1>2, <1>3 DEF Phases, Link, Armed, IInv, LockStep, hostVars, workVars, pipes
<1>6. Upward' /\ Permission'
  BY <1>1, <1>3, <1>4 DEF Upward, Permission, IInv, LockStep, hostVars, workVars, pipes
<1>7. Counted' /\ Logged' /\ Planned'
  BY <1>1, <1>4 DEF Counted, Made, Logged, LoggedFirst, Planned, PlanOrder, IInv, LockStep, hostVars,
     workVars, access
<1>8. QED
  BY <1>5, <1>6, <1>7 DEF LockStep

(* It disarms and says so.                                                  *)
LEMMA DisarmKeeps == IInv /\ Disarm => LockStep'
<1> SUFFICES ASSUME IInv, Disarm PROVE LockStep'
  OBVIOUS
<1> DEFINE disarmed == Line("disarmed", 0)
<1>1. /\ sup = "disarm" /\ sup' = "exited" /\ wd' = "off"
      /\ net' = IF conn THEN Append(net, disarmed) ELSE net
      /\ UNCHANGED <<hostVars, conn, replies, fed, finish, pipes, workVars, access>>
  BY DEF Disarm, Sup, Say
<1>2. /\ replies = <<>> /\ net \in Quiet /\ worker = "exited" /\ up = <<>> /\ acks = <<>>
      /\ ~conn => net = <<>>
  BY <1>1 DEF IInv, LockStep, Link, Permission, Phases
<1>3. net' \in {<<>>, <<disarmed>>} \cup {<<q, disarmed>> : q \in Notes}
  <2> HIDE DEF disarmed
  <2>1. CASE net = <<>>
    <3>1. Append(<<>>, disarmed) = <<disarmed>>
      OBVIOUS
    <3>2. QED
      BY <1>1, <2>1, <3>1
  <2>2. ASSUME NEW q \in Notes, net = <<q>>
        PROVE  net' \in {<<>>, <<disarmed>>} \cup {<<p, disarmed>> : p \in Notes}
    <3>1. Append(<<q>>, disarmed) = <<q, disarmed>>
      BY AppendOne
    <3>2. net' = <<q, disarmed>>
      BY <1>1, <1>2, <2>2, <3>1
    <3>3. QED
      BY <2>2, <3>2
  <2>3. QED
    BY <1>2, <2>1, <2>2 DEF Quiet
<1>4. Phases' /\ Link' /\ Upward' /\ Permission'
  BY <1>1, <1>2, <1>3 DEF Phases, Link, Upward, Permission, Armed, Owed, IInv, LockStep, hostVars,
     workVars, pipes
<1>5. Counted' /\ Logged' /\ Planned'
  BY <1>1 DEF Counted, Logged, LoggedFirst, Planned, PlanOrder, IInv, LockStep, hostVars, workVars, access
<1>6. QED
  BY <1>4, <1>5 DEF LockStep

(* It stops, one way or the other, or goes on to disarm.                    *)
LEMMA StopsKeep == IInv /\ (NotArmed \/ FailClosed \/ Reap \/ DisarmFails \/ Leave) => LockStep'
<1> SUFFICES ASSUME IInv, NotArmed \/ FailClosed \/ Reap \/ DisarmFails \/ Leave PROVE LockStep'
  OBVIOUS
<1> USE RunAssumption DEF IInv, TypeOK, LockStep, Phases, Upward, Permission, Link, Counted, Logged, Planned,
        LoggedFirst, PlanOrder, Armed, Before, Go, Results, Owed, Made, Notes, Quiet, Line, Last,
        hostVars, link, supVars, pipes, workVars, dog, access, Sup, HostGone
<1>1. CASE NotArmed
  BY <1>1 DEF NotArmed
<1>2. CASE FailClosed
  <2>1. /\ sup \in {"permission", "feed", "relay"} /\ sup' = "stuck" /\ ~conn
        /\ sup # "relay" => replies = <<>>
        /\ UNCHANGED <<hostVars, link, fed, finish, pipes, workVars, dog, access>>
    BY <1>2 DEF FailClosed
  <2>2. net = <<>> /\ replies = <<>> /\ verified <= fed
    <3>1. net = <<>>
      BY <2>1
    <3>2. CASE sup = "feed"
      BY <2>1, <3>1, <3>2
    <3>3. CASE sup \in {"permission", "relay"}
      BY <2>1, <3>1, <3>3
    <3>4. QED
      BY <2>1, <3>2, <3>3
  <2>3. sup = "relay" => up # <<>>
    BY <1>2 DEF FailClosed
  <2>4. Phases' /\ Link'
    BY <2>1, <2>2
  <2>5. Upward' /\ Permission'
    BY <2>1, <2>3
  <2>6. Counted' /\ Logged' /\ Planned'
    BY <2>1
  <2>7. QED
    BY <2>4, <2>5, <2>6
<1>3. CASE Reap
  BY <1>3 DEF Reap
<1>4. CASE DisarmFails
  BY <1>4 DEF DisarmFails
<1>5. CASE Leave
  <2>1. /\ sup = "leaving" /\ sup' = "exited" /\ wd # "armed" /\ wd' # "armed"
        /\ UNCHANGED <<hostVars, link, fed, finish, pipes, workVars, access>>
    BY <1>5 DEF Leave
  <2>2. QED
    BY <2>1
<1>6. QED
  BY <1>1, <1>2, <1>3, <1>4, <1>5

(* The supervisor's steps keep the invariant.                               *)
LEMMA SupervisorKeeps == IInv /\ Supervisor => LockStep'
BY StopsKeep, RelayKeeps, ArmKeeps, PermitKeeps, FeedKeeps, DisarmKeeps DEF Supervisor

-----------------------------------------------------------------------------
(* The worker announces an access and waits.                                *)
LEMMA AnnounceKeeps == IInv /\ Announce => LockStep'
<1> SUFFICES ASSUME IInv, Announce PROVE LockStep'
  OBVIOUS
<1>1. /\ worker = "before" /\ worker' = "wait" /\ up' = Append(up, Before)
      /\ UNCHANGED <<hostVars, link, supVars, acks, step, rc, guard, dog, access>>
  BY DEF Announce, Work, Before
<1>2. acks = <<>> /\ Before' = Before /\ Results' = Results /\ Go' = Go
  BY <1>1 DEF IInv, LockStep, Permission, Before, Results, Go, Line, supVars
<1>3. CASE up = <<>>
  <2>1. up' = <<Before>>
    BY <1>1, <1>3
  <2>2. ~Owed /\ ~Owed'
    BY <1>2, <1>3, <2>1 DEF Owed, Results, Before, Line
  <2>3. Upward' /\ Permission'
    <3>1. up' # <<>> /\ acks' = <<>> /\ sup' = sup /\ sup # "permission" /\ worker' = "wait"
      BY <1>1, <1>2, <2>1 DEF IInv, LockStep, Permission, supVars
    <3>2. Upward'
      BY <1>2, <2>1, <2>2, <3>1, Zenon DEF Upward
    <3>3. Permission'
      BY <3>1 DEF Permission
    <3>4. QED
      BY <3>2, <3>3
  <2>4. Link' /\ Phases'
    BY <1>1, <1>2, <1>3, <2>1 DEF Link, Phases, Armed, IInv, LockStep, Permission, hostVars, link, supVars, dog, Line
  <2>5. Counted'
    BY <1>1, <2>2 DEF Counted, Made, IInv, LockStep, supVars, dog
  <2>6. Logged' /\ Planned'
    BY <1>1 DEF Logged, LoggedFirst, Planned, PlanOrder, IInv, LockStep, hostVars, dog, access
  <2>7. QED
    BY <2>3, <2>4, <2>5, <2>6 DEF LockStep
<1>4. ASSUME NEW r \in Results, up = <<r>> PROVE LockStep'
  <2>1. up' = <<r, Before>>
    BY <1>1, <1>4, AppendOne
  <2>2. Owed /\ Owed' /\ sup \in {"relay", "stuck"}
    BY <1>2, <1>4, <2>1 DEF Owed, IInv, LockStep, Upward
  <2>3. Upward' /\ Permission'
    <3>1. up' # <<>> /\ acks' = <<>> /\ sup' = sup /\ sup # "permission" /\ worker' = "wait"
      BY <1>1, <1>2, <2>1, <2>2 DEF supVars
    <3>2. Upward'
      BY <1>2, <1>4, <2>1, <2>2, <3>1 DEF Upward
    <3>3. Permission'
      BY <3>1 DEF Permission
    <3>4. QED
      BY <3>2, <3>3
  <2>4. Link' /\ Phases'
    <3>1. CASE sup = "relay"
      <4>1. net = <<>> /\ verified = fed /\ replies = <<>>
        BY <1>1, <1>4, <3>1 DEF IInv, LockStep, Link
      <4>2. QED
        BY <1>1, <3>1, <4>1 DEF Link, Phases, Armed, IInv, LockStep, hostVars, link, supVars, dog
    <3>2. CASE sup = "stuck"
      BY <1>1, <3>2 DEF Link, Phases, Armed, Quiet, IInv, LockStep, hostVars, link, supVars, dog
    <3>3. QED
      BY <2>2, <3>1, <3>2
  <2>5. Counted'
    BY <1>1, <2>2 DEF Counted, Made, IInv, LockStep, supVars, dog
  <2>6. Logged' /\ Planned'
    BY <1>1 DEF Logged, LoggedFirst, Planned, PlanOrder, IInv, LockStep, hostVars, dog, access
  <2>7. QED
    BY <2>3, <2>4, <2>5, <2>6 DEF LockStep
<1>5. QED
  BY <1>1, <1>3, <1>4 DEF IInv, LockStep, Upward

(* It takes the permission.                                                 *)
LEMMA AllowedKeeps == IInv /\ Allowed => LockStep'
<1> SUFFICES ASSUME IInv, Allowed PROVE LockStep'
  OBVIOUS
<1>1. /\ worker = "wait" /\ worker' = "access" /\ acks # <<>> /\ acks' = Tail(acks)
      /\ UNCHANGED <<hostVars, link, supVars, up, step, rc, guard, dog, access>>
  BY DEF Allowed, Work
<1>2. acks = <<Go>> /\ up = <<>> /\ sup = "relay" /\ step \in logged
  BY <1>1 DEF IInv, LockStep, Permission
<1>3. acks' = <<>> /\ net = <<>> /\ replies = <<>> /\ verified = fed
  BY <1>1, <1>2 DEF IInv, LockStep, Link
<1>4. Phases' /\ Link' /\ Upward' /\ Permission'
  BY <1>1, <1>2, <1>3 DEF Phases, Link, Upward, Permission, Armed, Owed, IInv, LockStep, hostVars, link,
     supVars, dog
<1>5. Counted' /\ Logged' /\ Planned'
  BY <1>1, <1>2 DEF Counted, Made, Owed, Logged, LoggedFirst, Planned, PlanOrder, IInv, LockStep,
     hostVars, supVars, dog, access
<1>6. QED
  BY <1>4, <1>5 DEF LockStep

(* It makes the access, which is in the host's log and next in the plan.    *)
LEMMA AccessKeeps == ASSUME IInv, NEW hangs, Access(hangs) PROVE LockStep'
<1>1. /\ worker = "access" /\ worker' = "after" /\ done' = Append(done, step)
      /\ UNCHANGED <<hostVars, link, supVars, pipes, step, rc, guard, dog>>
  BY DEF Access, Work
<1>2. up = <<>> /\ acks = <<>> /\ sup = "relay" /\ step \in logged /\ wd = "armed"
  BY <1>1 DEF IInv, LockStep, Upward, Permission, Phases, Armed
<1>3. /\ done \in Seq(0..N) /\ step \in 0..N /\ Len(done) \in Nat /\ Len(done') = Len(done) + 1
      /\ \A n \in 1..Len(done) : done'[n] = done[n] /\ done[n] \in 0..N
      /\ done'[Len(done) + 1] = step
  <2>1. done \in Seq(0..N) /\ step \in 0..N
    BY DEF IInv, TypeOK
  <2>2. /\ Len(done) \in Nat /\ Len(done') = Len(done) + 1
        /\ \A n \in 1..Len(done) : done'[n] = done[n]
        /\ done'[Len(done) + 1] = step
    BY <1>1, <2>1, AppendProperties
  <2>3. QED
    BY <2>1, <2>2, ElementOfSeq
<1>4. Phases' /\ Link' /\ Upward' /\ Permission'
  BY <1>1, <1>2 DEF Phases, Link, Upward, Permission, Armed, Owed, IInv, LockStep, hostVars, link,
     supVars, pipes, dog
<1>5. Counted' /\ Logged'
  BY <1>1, <1>2, <1>3 DEF Counted, Made, Owed, Logged, LoggedFirst, IInv, LockStep, hostVars, supVars, pipes, dog
<1>6. PlanOrder'
  <2> SUFFICES ASSUME NEW n \in 1..Len(done'), done'[n] > 0
               PROVE  /\ \A m \in 1..n - 1 : done'[m] < done'[n]
                      /\ done'[n] > 1 => \E m \in 1..n - 1 : done'[m] = done'[n] - 1
    BY DEF PlanOrder
  <2>1. CASE n \in 1..Len(done)
    <3>1. done'[n] = done[n] /\ \A m \in 1..n - 1 : m \in 1..Len(done) /\ done'[m] = done[m]
      BY <1>3, <2>1
    <3>2. PlanOrder
      BY DEF IInv, LockStep, Planned
    <3>3. QED
      BY <2>1, <3>1, <3>2 DEF PlanOrder
  <2>2. CASE n = Len(done) + 1
    BY <1>1, <1>3, <2>2 DEF IInv, LockStep, Planned
  <2>3. QED
    BY <1>3, <2>1, <2>2
<1>7. Planned'
  BY <1>1, <1>3, <1>6 DEF Planned, IInv, LockStep
<1>8. QED
  BY <1>4, <1>5, <1>7 DEF LockStep

(* It reports the result.                                                   *)
LEMMA ReportKeeps == ASSUME IInv, NEW ok \in BOOLEAN, Report(ok) PROVE LockStep'
<1> DEFINE result == Line(IF ok THEN "after" ELSE "bad", step)
<1>1. /\ worker = "after" /\ up' = Append(up, result) /\ (step > 1 => ok)
      /\ UNCHANGED <<hostVars, link, supVars, acks, guard, dog, hung, done>>
  BY DEF Report
<1>2. up = <<>> /\ acks = <<>> /\ sup = "relay" /\ wd = "armed" /\ step = fed /\ step \in 0..N /\ rc # 0
  BY <1>1 DEF IInv, TypeOK, LockStep, Upward, Permission, Phases, Counted, Made, Owed, Armed
<1>3. net = <<>> /\ replies = <<>> /\ verified = fed
  BY <1>1, <1>2 DEF IInv, LockStep, Link
<1>4. /\ up' = <<result>> /\ result \in Results /\ Results' = Results
      /\ Owed' /\ Made' = step + 1
  BY <1>1, <1>2 DEF Results, Owed, Made, supVars
<1>5. \/ step = 0 /\ worker' = "guard" /\ step' = 0 /\ rc' = rc
      \/ step \in 1..N - 1 /\ ok /\ worker' = "before" /\ step' = step + 1 /\ rc' = rc
      \/ step = N /\ ok /\ worker' = "finish" /\ step' = step /\ rc' = 0
      \/ step = 1 /\ ~ok /\ worker' = "finish" /\ step' = step /\ rc' = rc
  BY <1>1, <1>2, RunAssumption DEF Report, Work
<1> HIDE DEF result
<1>6. Phases' /\ Link'
  BY <1>1, <1>2, <1>3, <1>5 DEF Phases, Link, Armed, IInv, LockStep, hostVars, link, supVars, dog
<1>7. Upward' /\ Permission'
  BY <1>1, <1>2, <1>4, <1>5 DEF Upward, Permission, supVars
<1>8. Counted'
  BY <1>2, <1>4, <1>5, RunAssumption DEF Counted
<1>9. Logged'
  BY <1>1, <1>2, <1>5, RunAssumption DEF Logged, LoggedFirst, IInv, TypeOK, LockStep, hostVars, dog
<1>10. Planned'
  <2>1. /\ Planned /\ worker = "after" /\ done' = done /\ guard' = guard
    BY <1>1 DEF IInv, LockStep
  <2>2. \A n \in 1..Len(done) : done[n] \in 0..N
    <3>1. done \in Seq(0..N)
      BY Zenon DEF IInv, TypeOK
    <3>2. QED
      BY <3>1, ElementOfSeq
  <2>3. PlanOrder' /\ (guard \/ \A n \in 1..Len(done) : done[n] = 0)
    <3>1. PlanOrder' <=> PlanOrder
      BY <2>1 DEF PlanOrder
    <3>2. QED
      BY <2>1, <3>1 DEF Planned
  <2>4. step > 0 => guard /\ \E n \in 1..Len(done) : done[n] = step
    BY <1>2, <2>1 DEF Planned
  <2>5. step > 0 => \A n \in 1..Len(done) : done[n] < step + 1
    BY <1>2, <2>1, <2>2 DEF Planned
  <2>6. CASE worker' # "before"
    <3>1. worker' \in {"guard", "finish"} /\ step' = step
      BY <1>5, <2>6
    <3>2. QED
      BY <1>2, <2>1, <2>3, <2>4, <3>1 DEF Planned
  <2>7. CASE worker' = "before"
    <3>1. step > 0 /\ step' = step + 1 /\ step' - 1 = step
      BY <1>2, <1>5, <2>7
    <3>2. QED
      BY <2>1, <2>3, <2>4, <2>5, <2>7, <3>1 DEF Planned
  <2>8. QED
    BY <2>6, <2>7
<1>11. QED
  BY <1>6, <1>7, <1>8, <1>9, <1>10 DEF LockStep

(* It says how it ended.                                                    *)
LEMMA FinishKeeps == IInv /\ Finish => LockStep'
<1> SUFFICES ASSUME IInv, Finish PROVE LockStep'
  OBVIOUS
<1> DEFINE end == Line(IF rc = 0 THEN "finished" ELSE "gaveup", 0)
<1>1. /\ worker = "finish" /\ worker' = "exited" /\ up' = Append(up, end)
      /\ UNCHANGED <<hostVars, link, supVars, acks, step, rc, guard, dog, access>>
  BY DEF Finish, Work
<1>2. acks = <<>> /\ Results' = Results /\ end \in {Line("finished", 0), Line("gaveup", 0)}
  BY <1>1 DEF IInv, LockStep, Permission, Results, supVars
<1>3. /\ \/ up = <<>> /\ up' = <<end>>
         \/ \E r \in Results : up = <<r>> /\ up' = <<r, end>>
      /\ Owed' <=> Owed
  <2>1. CASE up = <<>>
    BY <1>1, <1>2, <2>1 DEF Owed, Results, Line
  <2>2. ASSUME NEW r \in Results, up = <<r>> PROVE up' = <<r, end>> /\ Owed /\ Owed'
    <3> HIDE DEF end
    <3>1. up' = <<r, end>>
      BY <1>1, <2>2, AppendOne
    <3>2. QED
      BY <1>2, <2>2, <3>1 DEF Owed
  <2>3. QED
    BY <1>1, <2>1, <2>2 DEF IInv, LockStep, Upward
<1> HIDE DEF end
<1>4. Phases' /\ Permission'
  BY <1>1, <1>2 DEF Phases, Permission, Armed, IInv, LockStep, hostVars, link, supVars, dog
<1>5. Link'
  <2>1. sup \notin {"permission", "disarm"}
    BY <1>1 DEF IInv, LockStep, Permission, Link
  <2>2. sup = "relay" => net = <<>>
    BY <1>1 DEF IInv, LockStep, Link, Before
  <2>3. QED
    BY <1>1, <2>1, <2>2 DEF Link, Quiet, IInv, LockStep, hostVars, link, supVars
<1>6. Upward'
  BY <1>1, <1>2, <1>3 DEF Upward, IInv, LockStep, supVars
<1>7. Counted' /\ Logged' /\ Planned'
  BY <1>1, <1>3 DEF Counted, Made, Logged, LoggedFirst, Planned, PlanOrder, IInv, LockStep, hostVars,
     supVars, dog, access
<1>8. QED
  BY <1>4, <1>5, <1>6, <1>7 DEF LockStep

(* Its guard is made once in a boot.                                        *)
LEMMA GuardKeeps == IInv /\ Guard => LockStep'
<1> SUFFICES ASSUME IInv, Guard PROVE LockStep'
  OBVIOUS
<1>1. /\ worker = "guard"
      /\ \/ guard /\ worker' = "exited" /\ UNCHANGED <<step, guard>>
         \/ ~guard /\ worker' = "before" /\ step' = 1 /\ guard' = TRUE
      /\ UNCHANGED <<hostVars, link, supVars, pipes, rc, dog, access>>
  BY DEF Guard, Work
<1>2. /\ acks = <<>> /\ (up = <<>> \/ \E r \in Results : up = <<r>>) /\ Made = 1 /\ step = 0
      /\ sup \notin {"permission", "disarm"} /\ rc # 0 /\ wd = "armed" /\ Len(done) >= 1
  <2>1. wd = "armed"
    BY <1>1 DEF IInv, TypeOK, LockStep, Phases
  <2>2. QED
    BY <1>1, <2>1 DEF IInv, LockStep, Permission, Upward, Counted, Logged, Link
<1>3. Results' = Results /\ (Owed' <=> Owed) /\ Made' = Made
  BY <1>1 DEF Results, Owed, Made, pipes, supVars
<1>4. Phases' /\ Permission'
  BY <1>1, <1>2 DEF Phases, Permission, Armed, IInv, LockStep, hostVars, link, supVars, dog, pipes
<1>5. Link'
  <2>1. sup = "relay" => net = <<>>
    BY <1>1 DEF IInv, LockStep, Link, Before
  <2>2. QED
    BY <1>1, <1>2, <2>1 DEF Link, Quiet, IInv, LockStep, hostVars, link, supVars
<1>6. Upward'
  <2>1. up' = up /\ sup' = sup /\ (Owed => sup \in {"relay", "stuck"})
    BY <1>1 DEF IInv, LockStep, Upward, supVars, pipes
  <2>2. QED
    BY <1>1, <1>2, <1>3, <2>1 DEF Upward
<1>7. Counted' /\ Logged'
  BY <1>1, <1>2, <1>3, RunAssumption DEF Counted, Logged, LoggedFirst, IInv, LockStep, hostVars, dog, access
<1>8. Planned'
  BY <1>1, <1>2 DEF Planned, PlanOrder, IInv, TypeOK, LockStep, access
<1>9. QED
  BY <1>4, <1>5, <1>6, <1>7, <1>8 DEF LockStep

(* It fails before its first access.                                        *)
LEMMA GivesUpKeeps == IInv /\ GivesUp => LockStep'
<1> SUFFICES ASSUME IInv, GivesUp PROVE LockStep'
  OBVIOUS
<1>1. /\ worker = "before" /\ worker' = IF step = 0 THEN "exited" ELSE "finish"
      /\ UNCHANGED <<hostVars, link, supVars, pipes, step, rc, guard, dog, access>>
  BY DEF GivesUp, Work
<1>2. /\ acks = <<>> /\ (up = <<>> \/ \E r \in Results : up = <<r>>)
      /\ sup \notin {"permission", "disarm"} /\ wd = "armed" /\ rc # 0
  <2>1. wd = "armed"
    BY <1>1 DEF IInv, TypeOK, LockStep, Phases
  <2>2. QED
    BY <1>1, <2>1 DEF IInv, LockStep, Permission, Upward, Counted, Link
<1>3. Results' = Results /\ (Owed' <=> Owed) /\ Made' = Made
  BY <1>1 DEF Results, Owed, Made, pipes, supVars
<1>4. Phases' /\ Permission'
  BY <1>1, <1>2 DEF Phases, Permission, Armed, IInv, LockStep, hostVars, link, supVars, dog, pipes
<1>5. Link'
  <2>1. sup = "relay" => \/ net = <<>>
                         \/ net = <<Line("armed", 0)>> /\ step = 0 /\ up = <<>>
    BY <1>1 DEF IInv, LockStep, Link, Before
  <2>2. QED
    BY <1>1, <1>2, <2>1 DEF Link, Quiet, IInv, LockStep, hostVars, link, supVars, pipes
<1>6. Upward'
  <2>1. up' = up /\ sup' = sup /\ (Owed => sup \in {"relay", "stuck"})
    BY <1>1 DEF IInv, LockStep, Upward, supVars, pipes
  <2>2. QED
    BY <1>1, <1>2, <1>3, <2>1 DEF Upward
<1>7. Counted' /\ Logged' /\ Planned'
  BY <1>1, <1>2, <1>3 DEF Counted, Logged, LoggedFirst, Planned, PlanOrder, IInv, LockStep, hostVars, dog,
     access
<1>8. QED
  BY <1>4, <1>5, <1>6, <1>7 DEF LockStep

(* The watchdog counts down, or a step changes nothing.                     *)
LEMMA TickKeeps == IInv /\ (Tick \/ UNCHANGED vars) => LockStep'
<1> SUFFICES ASSUME IInv, Tick \/ UNCHANGED vars PROVE LockStep'
  OBVIOUS
<1>1. UNCHANGED <<hostVars, link, supVars, pipes, workVars, wd, access>>
  BY DEF Tick, vars, dog
<1>2. Phases' /\ Link' /\ Permission'
  BY <1>1 DEF Phases, Link, Permission, Before, IInv, LockStep, hostVars, link, supVars, pipes, workVars
<1>3. Upward' /\ Counted'
  BY <1>1 DEF Upward, Counted, Made, Owed, Results, Before, IInv, LockStep, supVars, pipes, workVars
<1>4. Logged' /\ Planned'
  BY <1>1 DEF Logged, LoggedFirst, Planned, PlanOrder, IInv, LockStep, hostVars, workVars, access
<1>5. QED
  BY <1>2, <1>3, <1>4 DEF LockStep

(* A reset leaves nothing of this boot.                                     *)
LEMMA ResetKeeps == IInv /\ Reset => LockStep'
<1> SUFFICES ASSUME IInv, Reset PROVE LockStep'
  OBVIOUS
<1>1. /\ wd' = "off" /\ ~conn' /\ net' = <<>> /\ replies' = <<>> /\ sup' = "none"
      /\ up' = <<>> /\ acks' = <<>> /\ worker' = "none" /\ step' = 0 /\ done' = <<>>
      /\ UNCHANGED <<host, expect>>
  BY DEF Reset
<1>2. Phases' /\ Link' /\ Permission' /\ Upward'
  BY <1>1 DEF Phases, Link, Permission, Upward, Owed, Armed, IInv, LockStep
<1>3. Counted' /\ Logged' /\ Planned'
  BY <1>1 DEF Counted, Logged, LoggedFirst, Planned, PlanOrder
<1>4. QED
  BY <1>2, <1>3 DEF LockStep

(* The worker's steps, the watchdog's, and all of them.                     *)
LEMMA StepKeeps == IInv /\ [Next]_vars => LockStep'
BY HostKeeps, SupervisorKeeps, AnnounceKeeps, AllowedKeeps, AccessKeeps, ReportKeeps, FinishKeeps,
   GuardKeeps, GivesUpKeeps, TickKeeps, ResetKeeps DEF Next, Worker

-----------------------------------------------------------------------------
(* Types in two parts, which different provers see to.                      *)
Flags  == conn \in BOOLEAN /\ finish \in BOOLEAN /\ guard \in BOOLEAN /\ hung \in BOOLEAN
Shapes ==
  /\ host \in {"idle", "run", "done", "failed"} /\ expect \in 1..Last + 1
  /\ logged \subseteq 0..N /\ verified \in 0..N + 1 /\ sessions \in 0..MaxSessions
  /\ net \in Seq(Lines) /\ replies \in Seq(Lines) /\ up \in Seq(Lines) /\ acks \in Seq(Lines)
  /\ sup \in {"none", "asking", "relay", "permission", "feed", "stuck", "disarm", "leaving", "exited"}
  /\ fed \in 0..N + 1
  /\ worker \in {"none", "before", "wait", "access", "after", "guard", "finish", "exited"}
  /\ step \in 0..N /\ rc \in {0, 1}
  /\ wd \in {"off", "opened", "armed"} /\ ticks \in 0..Timeout /\ done \in Seq(0..N)

LEMMA TypeParts == (TypeOK <=> Flags /\ Shapes) /\ (TypeOK' <=> Flags' /\ Shapes')
BY Zenon DEF TypeOK, Flags, Shapes

(* No step makes a flag anything but true or false.                         *)
LEMMA FlagTypes == TypeOK /\ [Next]_vars => Flags'
<1> SUFFICES ASSUME Flags, [Next]_vars PROVE Flags'
  BY DEF TypeOK, Flags
<1> USE DEF Flags
<1>1. CASE Host
  <2>1. UNCHANGED <<finish, guard, hung>> \/ Connect
    BY <1>1, Zenon DEF Host, Connect, Checkpoint, Expects, HostFails, supVars, workVars, access
  <2>2. conn' \in BOOLEAN
    BY <1>1, Zenon DEF Host, Connect, Checkpoint, Expects, HostFails
  <2>3. CASE Connect
    BY <2>2, <2>3, Zenon DEF Connect, workVars
  <2>4. QED
    BY <2>1, <2>2, <2>3, Zenon
<1>2. CASE Supervisor
  <2>1. UNCHANGED <<conn, guard, hung>>
    BY <1>2, Zenon DEF Supervisor, NotArmed, Arm, Relay, Permit, Feed, FailClosed, Leave, Reap, Disarm, DisarmFails, link, workVars, access
  <2>2. finish' \in BOOLEAN
    <3>1. CASE Relay
      BY <3>1, Zenon DEF Relay
    <3>2. CASE ~Relay
      BY <1>2, <3>2, Zenon DEF Supervisor, NotArmed, Arm, Permit, Feed, FailClosed, Leave, Reap, Disarm, DisarmFails
    <3>3. QED
      BY <3>1, <3>2
  <2>3. QED
    BY <2>1, <2>2, Zenon
<1>3. CASE Worker
  <2>1. UNCHANGED <<conn, finish>>
    BY <1>3, Zenon DEF Worker, Announce, Allowed, Access, Report, Guard, GivesUp, Finish, link, supVars
  <2>2. guard' \in BOOLEAN
    BY <1>3, Zenon DEF Worker, Announce, Allowed, Access, Report, Guard, GivesUp, Finish
  <2>3. hung' \in BOOLEAN
    BY <1>3, Zenon DEF Worker, Announce, Allowed, Access, Report, Guard, GivesUp, Finish, access
  <2>4. QED
    BY <2>1, <2>2, <2>3, Zenon
<1>4. CASE Tick \/ UNCHANGED vars
  BY <1>4, Zenon DEF Tick, vars, link, supVars, workVars, access
<1>5. CASE Reset
  BY <1>5, Zenon DEF Reset
<1>6. QED
  BY <1>1, <1>2, <1>3, <1>4, <1>5, Zenon DEF Next

(* The lines that exist are lines, and the counters stay in their bounds.    *)
LEMMA LinesAre ==
  \A k \in {"open", "armed", "before", "after", "bad", "finished", "gaveup", "disarmed", "arm", "go", "feed"},
     i \in 0..N + 1 : Line(k, i) \in Lines
BY DEF Line, Lines

LEMMA HostTypes == IInv /\ Host => Shapes'
<1> SUFFICES ASSUME IInv, Host PROVE Shapes'
  OBVIOUS
<1>0. Shapes
  BY TypeParts DEF IInv
<1> USE <1>0, RunAssumption
<1>1. CASE Connect
  <2>1. Line("open", 0) \in Lines
    BY LinesAre
  <2>2. QED
    BY <1>1, <2>1 DEF Connect, Shapes, pipes, workVars, dog, Last
<1>2. CASE Checkpoint
  <2>1. sup = "permission" /\ net = <<Before>> /\ replies = <<>> /\ step \in 0..N /\ expect \in 1..Last
    <3>1. net # <<>> /\ Head(net).kind = "before" /\ Len(net) = 1 /\ host = "run"
      BY <1>2 DEF Checkpoint
    <3>2. sup = "permission" /\ net = <<Before>> /\ replies = <<>>
      BY <3>1 DEF Shapes, IInv, LockStep, Link, Before, Line, Quiet, Notes
    <3>3. step \in 0..N /\ expect \in 1..Last
      BY <3>1 DEF Shapes, IInv, LockStep, Phases, Last
    <3>4. QED
      BY <3>2, <3>3
  <2>2. net' = <<>> /\ replies' = <<Go>> /\ logged' = logged \cup {step} /\ expect' = expect + 1
    BY <1>2, <2>1 DEF Checkpoint, Answer, Before, Go, Line
  <2>3. Go \in Lines
    BY LinesAre DEF Go
  <2>4. QED
    <3>1. net' \in Seq(Lines) /\ replies' \in Seq(Lines) /\ logged' \subseteq 0..N /\ expect' \in 1..Last + 1
      BY <2>1, <2>2, <2>3 DEF Shapes, Last
    <3>2. QED
      BY <1>2, <3>1 DEF Checkpoint, Shapes, supVars, pipes, workVars, dog, access
<1>3. CASE Expects
  <2>1. /\ host = "run" /\ expect \in 1..Last /\ net # <<>> /\ Head(net) \in Lines
        /\ net' \in Seq(Lines) /\ expect' \in 1..Last + 1
        /\ host' \in {"run", "done"} /\ conn' \in BOOLEAN
    BY <1>3 DEF Expects, Shapes, IInv, LockStep, Phases, Last
  <2>2. Head(net).kind = "after" =>
          Head(net).i \in 0..N /\ verified = Head(net).i
    <3>1. SUFFICES ASSUME Head(net).kind = "after"
                   PROVE  Head(net).i \in 0..N /\ verified = Head(net).i
      OBVIOUS
    <3>2. sup = "feed" /\ net = <<Line("after", fed - 1)>> /\ verified = fed - 1 /\ fed \in 1..N + 1
      <4>1. Link /\ net # <<>> /\ Head(net).kind = "after" /\ fed \in 0..N + 1
        BY <2>1, <3>1 DEF Shapes, IInv, LockStep
      <4>2. \A kind, i : Line(kind, i).kind = kind
        BY DEF Line
      <4>3. sup \in {"none", "asking", "relay", "permission", "feed", "stuck", "disarm", "leaving", "exited"}
        BY DEF IInv, TypeOK
      <4>4. sup \notin {"none", "asking", "relay"}
        BY <4>1, <4>2 DEF Link
      <4>5. sup # "permission"
        BY <4>1, <4>2 DEF Link, Before
      <4>6. sup \notin {"stuck", "disarm", "leaving", "exited"}
        BY <4>1, <4>2 DEF Link, Quiet, Notes
      <4>7. sup = "feed"
        BY <4>3, <4>4, <4>5, <4>6
      <4>8. QED
        BY <4>1, <4>2, <4>7 DEF Link
    <3>3. QED
      BY <3>2 DEF Line
  <2>3. Answer(Head(net)) \in Seq(Lines)
    <3>1. /\ Line("arm", 0) \in Lines /\ Line("go", 0) \in Lines
          /\ Head(net).kind = "after" => Line("feed", Head(net).i + 1) \in Lines
      BY <2>2, LinesAre
    <3>2. QED
      BY <3>1 DEF Answer
  <2>4. replies' \in Seq(Lines) /\ verified' \in 0..N + 1
    BY <1>3, <2>2, <2>3 DEF Expects, Shapes
  <2>5. QED
    BY <1>3, <2>1, <2>4 DEF Expects, Shapes, supVars, pipes, workVars, dog, access
<1>4. CASE HostFails
  <2>1. replies' \in Seq(Lines)
    <3>1. PICK n \in 0..Len(replies) : replies' = SubSeq(replies, 1, n)
      BY <1>4 DEF HostFails
    <3>2. QED
      BY <3>1, SubSeqProperties DEF Shapes
  <2>2. QED
    BY <1>4, <2>1 DEF HostFails, Shapes, supVars, pipes, workVars, dog, access
<1>5. QED
  BY <1>1, <1>2, <1>3, <1>4 DEF Host

LEMMA SupervisorTypes == IInv /\ Supervisor => Shapes'
<1> SUFFICES ASSUME IInv, Supervisor PROVE Shapes'
  OBVIOUS
<1>0. Shapes
  BY TypeParts DEF IInv
<1> USE <1>0, RunAssumption
<1>1. CASE NotArmed \/ FailClosed \/ Reap \/ DisarmFails \/ Leave
  <2>1. CASE NotArmed
    BY <2>1 DEF NotArmed, Sup, Shapes, hostVars, link, pipes, workVars, dog, access
  <2>2. CASE FailClosed
    BY <2>2 DEF FailClosed, Sup, Shapes, hostVars, link, pipes, workVars, dog, access
  <2>3. CASE Reap
    BY <2>3 DEF Reap, Sup, Shapes, hostVars, link, pipes, workVars, dog, access
  <2>4. CASE DisarmFails
    BY <2>4 DEF DisarmFails, Sup, Shapes, hostVars, link, pipes, workVars, dog, access
  <2>5. CASE Leave
    BY <2>5 DEF Leave, Sup, Shapes, hostVars, link, pipes, workVars, dog, access
  <2>6. QED
    BY <1>1, <2>1, <2>2, <2>3, <2>4, <2>5
<1>2. ASSUME NEW ok \in BOOLEAN, Arm(ok) PROVE Shapes'
  <2>1. Line("armed", 0) \in Lines
    BY LinesAre
  <2>2. net' \in Seq(Lines) /\ replies' \in Seq(Lines)
    <3>1. /\ replies # <<>> /\ replies' = Tail(replies)
          /\ net' = Append(net, Line("armed", 0)) \/ net' = net
      BY <1>2, Zenon DEF Arm, Say, Reply
    <3>2. net \in Seq(Lines) /\ replies \in Seq(Lines)
      BY DEF Shapes
    <3>3. Append(net, Line("armed", 0)) \in Seq(Lines)
      BY <2>1, <3>2, AppendProperties
    <3>4. Tail(replies) \in Seq(Lines)
      BY <3>1, <3>2
    <3>5. QED
      BY <3>1, <3>2, <3>3, <3>4, Zenon
  <2>3. CASE ok
    BY <1>2, <2>2, <2>3 DEF Arm, Sup, Shapes, hostVars, access
  <2>4. CASE ~ok
    BY <1>2, <2>2, <2>4 DEF Arm, Sup, Shapes, hostVars, pipes, access
  <2>5. QED
    BY <2>3, <2>4
<1>3. CASE Relay
  <2>1. up \in Seq(Lines) /\ up # <<>> /\ Head(up) \in Lines /\ up' \in Seq(Lines) /\ net' \in Seq(Lines)
    BY <1>3 DEF Relay, Say, Shapes
  <2>2. fed' \in 0..N + 1
    <3>1. CASE Head(up) \in Results
      BY <1>3, <2>1, <3>1 DEF Relay, Shapes, IInv, LockStep, Phases, Counted, Made, Owed, Armed
    <3>2. CASE Head(up) \notin Results
      <4>1. Head(up).kind \notin {"after", "bad"}
        BY <1>3, <2>1, <3>2 DEF Relay, Shapes, IInv, LockStep, Phases, Armed, Upward, Before, Line
      <4>2. QED
        BY <1>3, <4>1 DEF Relay, Shapes
    <3>3. QED
      BY <3>1, <3>2
  <2>3. sup' \in {"permission", "feed", "relay", "stuck"} /\ finish' \in BOOLEAN
    BY <1>3 DEF Relay, Sup, Shapes
  <2>4. QED
    BY <1>3, <2>1, <2>2, <2>3 DEF Relay, Shapes, hostVars, workVars, dog, access
<1>4. ASSUME NEW r \in {Line("go", 0)} \cup {Line("feed", n) : n \in 1..N + 1}, Permit(r) \/ Feed(r)
      PROVE  Shapes'
  <2>1. r \in Lines /\ replies' \in Seq(Lines)
    <3>1. replies # <<>> /\ r = Head(replies) /\ replies' = Tail(replies)
      BY <1>4 DEF Permit, Feed, Reply
    <3>2. replies \in Seq(Lines)
      BY DEF Shapes
    <3>3. QED
      BY <3>1, <3>2, HeadTailProperties
  <2>2. CASE Permit(r)
    <3>1. acks' \in Seq(Lines) /\ sup' \in {"relay", "stuck"}
      <4>1. acks' = Append(acks, r) \/ acks' = acks
        BY <2>2 DEF Permit
      <4>2. Append(acks, r) \in Seq(Lines) /\ acks \in Seq(Lines)
        BY <2>1, AppendProperties DEF Shapes
      <4>3. sup' \in {"relay", "stuck"}
        BY <2>2 DEF Permit, Sup
      <4>4. QED
        BY <4>1, <4>2, <4>3, Zenon
    <3>2. QED
      BY <2>1, <2>2, <3>1 DEF Permit, Shapes, hostVars, workVars, dog, access
  <2>3. CASE Feed(r)
    <3>1. ticks' \in 0..Timeout /\ sup' \in {"relay", "stuck"}
      BY <2>3 DEF Feed, Sup, Shapes
    <3>2. QED
      BY <2>1, <2>3, <3>1 DEF Feed, Shapes, hostVars, pipes, workVars, access
  <2>4. QED
    BY <1>4, <2>2, <2>3
<1>5. CASE Disarm
  <2>1. Line("disarmed", 0) \in Lines
    BY LinesAre
  <2>2. net' \in Seq(Lines)
    BY <1>5, <2>1 DEF Disarm, Say, Shapes
  <2>3. QED
    BY <1>5, <2>2 DEF Disarm, Sup, Shapes, hostVars, pipes, workVars, access
<1>6. QED
  BY <1>1, <1>2, <1>3, <1>4, <1>5 DEF Supervisor

LEMMA WorkerTypes == IInv /\ (Worker \/ Tick \/ Reset \/ UNCHANGED vars) => Shapes'
<1> SUFFICES ASSUME IInv, Worker \/ Tick \/ Reset \/ UNCHANGED vars PROVE Shapes'
  OBVIOUS
<1>0. Shapes
  BY TypeParts DEF IInv
<1> USE <1>0, RunAssumption
<1>1. CASE Announce
  <2>1. Line("before", step) \in Lines
    BY LinesAre DEF Shapes
  <2>2. QED
    BY <1>1, <2>1 DEF Announce, Work, Shapes, hostVars, link, supVars, dog, access
<1>2. CASE Allowed
  BY <1>2 DEF Allowed, Work, Shapes, hostVars, link, supVars, dog, access
<1>3. ASSUME NEW hangs \in BOOLEAN, Access(hangs) PROVE Shapes'
  BY <1>3 DEF Access, Work, Shapes, hostVars, link, supVars, pipes, dog
<1>4. ASSUME NEW ok \in BOOLEAN, Report(ok) PROVE Shapes'
  <2>1. Line(IF ok THEN "after" ELSE "bad", step) \in Lines
    BY LinesAre DEF Shapes
  <2>2. up' \in Seq(Lines) /\ step' \in 0..N /\ rc' \in {0, 1}
    BY <1>4, <2>1 DEF Report, Shapes
  <2>3. worker' \in {"guard", "finish", "before"}
    BY <1>4 DEF Report, Work
  <2>4. QED
    BY <1>4, <2>2, <2>3 DEF Report, Shapes, hostVars, link, supVars, dog
<1>5. CASE Guard \/ GivesUp
  <2>1. worker' \in {"before", "finish", "exited"} /\ step' \in 0..N
    BY <1>5 DEF Guard, GivesUp, Work, Shapes
  <2>2. UNCHANGED <<hostVars, link, supVars, pipes, rc, dog, access>>
    BY <1>5 DEF Guard, GivesUp
  <2>3. QED
    BY <2>1, <2>2 DEF Shapes, hostVars, link, supVars, pipes, dog, access
<1>6. CASE Finish
  <2>1. Line(IF rc = 0 THEN "finished" ELSE "gaveup", 0) \in Lines
    BY LinesAre
  <2>2. QED
    BY <1>6, <2>1 DEF Finish, Work, Shapes, hostVars, link, supVars, dog, access
<1>7. CASE Tick \/ UNCHANGED vars
  <2>1. ticks' \in 0..Timeout
    BY <1>7 DEF Tick, vars, dog, Shapes
  <2>2. UNCHANGED <<hostVars, link, supVars, pipes, workVars, wd, access>>
    BY <1>7 DEF Tick, vars, dog
  <2>3. QED
    BY <2>1, <2>2 DEF Shapes, hostVars, link, supVars, pipes, workVars, access
<1>8. CASE Reset
  BY <1>8 DEF Reset, Shapes
<1>9. QED
  BY <1>1, <1>2, <1>3, <1>4, <1>5, <1>6, <1>7, <1>8 DEF Worker

-----------------------------------------------------------------------------
LEMMA InitIInv == Init => IInv
<1> SUFFICES ASSUME Init PROVE IInv
  OBVIOUS
<1>1. TypeOK
  <2>1. Flags
    BY Zenon DEF Init, Flags
  <2>2. Shapes
    BY RunAssumption DEF Init, Shapes, Last
  <2>3. QED
    BY <2>1, <2>2, TypeParts
<1>2. LockStep
  BY RunAssumption DEF Init, LockStep, Phases, Upward, Permission, Link, Counted, Logged, LoggedFirst, Planned,
     PlanOrder, Owed, Armed, Last
<1>3. QED
  BY <1>1, <1>2 DEF IInv

(* Every state of every run is in lock step.                                *)
THEOREM Invariance == Spec => []IInv
<1>1. IInv /\ [Next]_vars => IInv'
  BY StepKeeps, FlagTypes, HostTypes, SupervisorTypes, WorkerTypes, TypeParts DEF Next, IInv
<1>2. QED
  BY <1>1, InitIInv, PTL DEF Spec

(* Lines, counters and states stay what the programs take them for.         *)
THEOREM TypeCorrect == Spec => []TypeOK
<1>1. IInv => TypeOK
  BY DEF IInv
<1>2. QED
  BY <1>1, Invariance, PTL

(* Whatever hangs the machine, the host's disk names it: main() of
   gpu-watchdog-supervisor.c passes no permission that capture() has not
   sent, and capture() syncs its log first.                                 *)
THEOREM LoggedTheorem == Spec => []LoggedFirst
<1>1. IInv => LoggedFirst
  BY DEF IInv, LockStep, Logged
<1>2. QED
  BY <1>1, Invariance, PTL

(* The accesses of a boot happen in the plan's order, none skipped and none
   twice: the one-shot directory outlives every session but not the boot.    *)
THEOREM PlanTheorem == Spec => []PlanOrder
<1>1. IInv => PlanOrder
  BY DEF IInv, LockStep, Planned
<1>2. QED
  BY <1>1, Invariance, PTL

(* Only a plan that is done and verified to its end disarms the watchdog.    *)
THEOREM DisarmTheorem == Spec => DisarmComplete
<1>1. IInv /\ [Next]_vars /\ wd = "armed" /\ wd' = "off" /\ sup' = "exited" =>
        verified = N + 1 /\ Len(done) >= N + 1
  <2> SUFFICES ASSUME IInv, [Next]_vars, wd = "armed", wd' = "off", sup' = "exited"
               PROVE  verified = N + 1 /\ Len(done) >= N + 1
    OBVIOUS
  <2>1. Disarm
    <3>1. wd' # wd /\ sup' # "none"
      OBVIOUS
    <3>2. CASE Host
      BY <3>1, <3>2 DEF Host, Connect, Checkpoint, Expects, HostFails, dog
    <3>3. CASE Supervisor
      <4>1. ~Leave
        BY DEF Leave, IInv, LockStep, Phases, Armed
      <4>2. QED
        BY <3>1, <3>3, <4>1 DEF Supervisor, NotArmed, Arm, Relay, Permit, Feed, FailClosed, Reap, DisarmFails, dog
    <3>4. CASE Worker
      BY <3>1, <3>4 DEF Worker, Announce, Allowed, Access, Report, Guard, GivesUp, Finish, dog
    <3>5. QED
      BY <3>1, <3>2, <3>3, <3>4 DEF Next, Tick, Reset, vars, dog
  <2>2. sup = "disarm"
    BY <2>1 DEF Disarm
  <2>3. QED
    BY <2>2 DEF IInv, LockStep, Link, Logged
<1>2. QED
  BY <1>1, Invariance, PTL DEF Spec, DisarmComplete

-----------------------------------------------------------------------------
(***************************************************************************)
(* The other register experiments, LiveExperiment, for every selection of  *)
(* their scripts and any number of commands given up: no supervisor here,  *)
(* only a finally block.  The proof is about who can still change a part   *)
(* that the block has put back or compared: a command given up, and the    *)
(* daemon, which the block stops before it puts back the port.             *)
(***************************************************************************)
(* What of a finally block's list is still to come.                         *)
Listed(s) == {s.restore[m] : m \in 1..Len(s.restore)}
Due == IF pc \in {"baseline", "write", "probe"} THEN Listed(script)
       ELSE IF pc = "restore" THEN {script.restore[m] : m \in place..Len(script.restore)} ELSE {}

(* Its place is a place in its list, and only the probes wait for commands. *)
Placed ==
  /\ pc = "baseline" => place = 1 /\ strays = <<>> /\ Changed = {}
  /\ pc = "write" => place \in 1..Len(script.writes)
  /\ pc = "restore" => place \in 1..Len(script.restore)
  /\ pc = "verify" => place \in 1..Len(script.verify) + 1
  /\ own # <<>> => pc = "probe"
  /\ \A i \in 1..Len(own) : own[i][1] \in Listed(script) \cup Kept

(* As long as no write of the finally block was lost, whatever is changed is
   a given-up command's doing or still on the list.                         *)
Covered == ~trouble => Changed \subseteq late \cup Kept \cup Due

(* What compared equal is still as it was, but for the given-up commands, and
   for the port of a daemon that the comparison has yet to find.            *)
Found(i) ==
  script.verify[i] \in Changed =>
    \/ script.verify[i] \in late
    \/ /\ script.verify[i] = "uart" /\ "attach" \in Changed /\ "attach" \notin late
       /\ \E j \in place..Len(script.verify) : script.verify[j] = "attach"

Compared == pc = "verify" /\ same => \A i \in 1..place - 1 : Found(i)

Ended ==
  /\ outcome # "none" <=> pc = "done"
  /\ VerdictTrue

LiveInv == LiveTypeOK /\ Placed /\ Covered /\ Compared /\ Ended

-----------------------------------------------------------------------------
(* What the lists of every script are lists of, and what is on them: every
   part that a write or a command changes is put back or spared, the port
   after the daemon is stopped, and compared before the daemon is.          *)
Spared(s) == IF s.name = "bt_wake_experiment" THEN {"uart"} ELSE {}

Lists(s) ==
  /\ s.writes \in Seq(Parts) /\ s.restore \in Seq(Parts) /\ Len(s.restore) >= 1 /\ s.verify \in Seq(Parts)
  /\ \A c \in s.commands : c \in Seq(Writes)

PutsBack(s) ==
  /\ \A i \in 1..Len(s.writes) : s.writes[i] \in Listed(s)
  /\ \A c \in s.commands : \A i \in 1..Len(c) : c[i][1] \in Listed(s) \cup Spared(s)

Ordered(s) ==
  /\ \A i \in 1..Len(s.restore) : s.restore[i] = "attach" =>
       "uart" \in Spared(s) \/ \E j \in i + 1..Len(s.restore) : s.restore[j] = "uart"
  /\ \A i \in 1..Len(s.verify) : s.verify[i] = "uart" =>
       \E j \in i + 1..Len(s.verify) : s.verify[j] = "attach"

Shaped(s) == Lists(s) /\ PutsBack(s) /\ Ordered(s)

LEMMA ScriptsShaped == \A s \in AllScripts : Shaped(s)
<1>1. Shaped(bt_live_bringup)
  <2>1. Listed(bt_live_bringup) = {"attach", "path", "power", "wake", "uart", "pads"}
    BY DEF bt_live_bringup, Listed
  <2>2. Lists(bt_live_bringup)
    BY DEF bt_live_bringup, Lists, Writes, Parts, Up, Down
  <2>3. PutsBack(bt_live_bringup)
    BY <2>1 DEF bt_live_bringup, PutsBack, Spared, Up, Down
  <2>4. Ordered(bt_live_bringup)
    BY DEF bt_live_bringup, Ordered, Spared
  <2>5. QED
    BY <2>2, <2>3, <2>4 DEF Shaped
<1>2. Shaped(bt_3m_probe)
  <2>1. Listed(bt_3m_probe) = {"attach", "power", "wake", "uart"}
    BY DEF bt_3m_probe, Listed
  <2>2. Lists(bt_3m_probe)
    BY DEF bt_3m_probe, Lists, Writes, Parts, Up, Down
  <2>3. PutsBack(bt_3m_probe)
    BY <2>1 DEF bt_3m_probe, PutsBack, Spared, Up, Down
  <2>4. Ordered(bt_3m_probe)
    BY DEF bt_3m_probe, Ordered, Spared
  <2>5. QED
    BY <2>2, <2>3, <2>4 DEF Shaped
<1>3. Shaped(bt_chip_gpio_watch)
  <2>1. Listed(bt_chip_gpio_watch) = {"power", "wake"}
    BY DEF bt_chip_gpio_watch, Listed
  <2>2. Lists(bt_chip_gpio_watch)
    BY DEF bt_chip_gpio_watch, Lists, Writes, Parts, Up, Down
  <2>3. PutsBack(bt_chip_gpio_watch)
    BY <2>1 DEF bt_chip_gpio_watch, PutsBack, Spared, Up, Down
  <2>4. Ordered(bt_chip_gpio_watch)
    BY DEF bt_chip_gpio_watch, Ordered, Spared
  <2>5. QED
    BY <2>2, <2>3, <2>4 DEF Shaped
<1>4. Shaped(bt_wake_experiment)
  <2>1. Listed(bt_wake_experiment) = {"attach", "power", "wake"}
    BY DEF bt_wake_experiment, Listed
  <2> DEFINE all == Listed(bt_wake_experiment) \cup {"uart"}
  <2>2. Lists(bt_wake_experiment)
    <3>1. \A p \in Parts : Up(p) \in Writes /\ Down(p) \in Writes
      BY DEF Writes, Up, Down
    <3>2. "uart" \in Parts /\ "wake" \in Parts /\ "power" \in Parts /\ "attach" \in Parts
      BY DEF Parts
    <3>3. bt_wake_experiment.commands = {<<Up("uart")>>, <<Up("attach"), Down("attach")>>}
      BY Zenon DEF bt_wake_experiment
    <3>4. \A c \in bt_wake_experiment.commands : c \in Seq(Writes)
      <4>1. <<Up("uart")>> \in Seq(Writes)
        BY <3>1, <3>2
      <4>2. <<Up("attach"), Down("attach")>> \in Seq(Writes)
        BY <3>1, <3>2
      <4> QED
        BY <3>3, <4>1, <4>2, Zenon
    <3>5. QED
      BY <3>2, <3>4 DEF bt_wake_experiment, Lists
  <2>3. PutsBack(bt_wake_experiment)
    <3>1. all = {"attach", "power", "uart", "wake"}
      BY <2>1
    <3>2. bt_wake_experiment.commands = {<<Up("uart")>>, <<Up("attach"), Down("attach")>>} /\ bt_wake_experiment.writes = <<"wake", "power">>
      BY Zenon DEF bt_wake_experiment
    <3>3. all = Listed(bt_wake_experiment) \cup Spared(bt_wake_experiment)
      BY DEF bt_wake_experiment, Spared
    <3> HIDE DEF all
    <3>4. \A i \in 1..Len(<<Up("uart")>>) : <<Up("uart")>>[i][1] \in all
      BY <3>1 DEF Up, Down
    <3>5. \A i \in 1..Len(<<Up("attach"), Down("attach")>>) : <<Up("attach"), Down("attach")>>[i][1] \in all
      BY <3>1 DEF Up, Down
    <3>6. \A i \in 1..Len(<<"wake", "power">>) : <<"wake", "power">>[i] \in Listed(bt_wake_experiment)
      BY <2>1
    <3>7. \A c \in bt_wake_experiment.commands : \A i \in 1..Len(c) : c[i][1] \in all
      BY <3>2, <3>4, <3>5, Zenon
    <3>8. QED
      BY <3>2, <3>3, <3>6, <3>7, Zenon DEF PutsBack
  <2>4. Ordered(bt_wake_experiment)
    BY DEF bt_wake_experiment, Ordered, Spared
  <2>5. QED
    BY <2>2, <2>3, <2>4 DEF Shaped
<1>5. Shaped(bt_pinmux_ab)
  <2>1. Listed(bt_pinmux_ab) = {"attach", "power", "wake", "uart", "pads"}
    BY DEF bt_pinmux_ab, Listed
  <2>2. Lists(bt_pinmux_ab)
    BY DEF bt_pinmux_ab, Lists, Writes, Parts, Up, Down
  <2>3. PutsBack(bt_pinmux_ab)
    BY <2>1 DEF bt_pinmux_ab, PutsBack, Spared, Up, Down
  <2>4. Ordered(bt_pinmux_ab)
    BY DEF bt_pinmux_ab, Ordered, Spared
  <2>5. QED
    BY <2>2, <2>3, <2>4 DEF Shaped
<1>6. Shaped(bt_powerup_listen)
  <2>1. Listed(bt_powerup_listen) = {"power", "wake", "uart"}
    BY DEF bt_powerup_listen, Listed
  <2> DEFINE all == Listed(bt_powerup_listen) \cup {}
  <2>2. Lists(bt_powerup_listen)
    <3>1. \A p \in Parts : Up(p) \in Writes /\ Down(p) \in Writes
      BY DEF Writes, Up, Down
    <3>2. "uart" \in Parts /\ "wake" \in Parts /\ "power" \in Parts /\ "attach" \in Parts
      BY DEF Parts
    <3>3. bt_powerup_listen.commands = {<<Up("uart"), Up("wake"), Up("power"), Down("power"), Down("wake")>>}
      BY Zenon DEF bt_powerup_listen
    <3>4. \A c \in bt_powerup_listen.commands : c \in Seq(Writes)
      <4>1. <<Up("uart"), Up("wake"), Up("power"), Down("power"), Down("wake")>> \in Seq(Writes)
        BY <3>1, <3>2
      <4> QED
        BY <3>3, <4>1, Zenon
    <3>5. QED
      BY <3>2, <3>4 DEF bt_powerup_listen, Lists
  <2>3. PutsBack(bt_powerup_listen)
    <3>1. all = {"power", "uart", "wake"}
      BY <2>1
    <3>2. bt_powerup_listen.commands = {<<Up("uart"), Up("wake"), Up("power"), Down("power"), Down("wake")>>} /\ bt_powerup_listen.writes = <<>>
      BY Zenon DEF bt_powerup_listen
    <3>3. all = Listed(bt_powerup_listen) \cup Spared(bt_powerup_listen)
      BY DEF bt_powerup_listen, Spared
    <3> HIDE DEF all
    <3>4. \A i \in 1..Len(<<Up("uart"), Up("wake"), Up("power"), Down("power"), Down("wake")>>) : <<Up("uart"), Up("wake"), Up("power"), Down("power"), Down("wake")>>[i][1] \in all
      BY <3>1 DEF Up, Down
    <3>5. \A i \in 1..Len(<<>>) : <<>>[i] \in Listed(bt_powerup_listen)
      BY <2>1
    <3>6. \A c \in bt_powerup_listen.commands : \A i \in 1..Len(c) : c[i][1] \in all
      BY <3>2, <3>4, Zenon
    <3>7. QED
      BY <3>2, <3>3, <3>5, <3>6, Zenon DEF PutsBack
  <2>4. Ordered(bt_powerup_listen)
    BY DEF bt_powerup_listen, Ordered, Spared
  <2>5. QED
    BY <2>2, <2>3, <2>4 DEF Shaped
<1>7. Shaped(uart3_frame_experiment)
  <2>1. Listed(uart3_frame_experiment) = {"uart"}
    BY DEF uart3_frame_experiment, Listed
  <2>2. Lists(uart3_frame_experiment)
    BY DEF uart3_frame_experiment, Lists, Writes, Parts, Up, Down
  <2>3. PutsBack(uart3_frame_experiment)
    BY <2>1 DEF uart3_frame_experiment, PutsBack, Spared, Up, Down
  <2>4. Ordered(uart3_frame_experiment)
    BY DEF uart3_frame_experiment, Ordered, Spared
  <2>5. QED
    BY <2>2, <2>3, <2>4 DEF Shaped
<1>8. Shaped(uart3_baud_experiment)
  <2>1. Listed(uart3_baud_experiment) = {"uart"}
    BY DEF uart3_baud_experiment, Listed
  <2>2. Lists(uart3_baud_experiment)
    BY DEF uart3_baud_experiment, Lists, Writes, Parts, Up, Down
  <2>3. PutsBack(uart3_baud_experiment)
    BY <2>1 DEF uart3_baud_experiment, PutsBack, Spared, Up, Down
  <2>4. Ordered(uart3_baud_experiment)
    BY DEF uart3_baud_experiment, Ordered, Spared
  <2>5. QED
    BY <2>2, <2>3, <2>4 DEF Shaped
<1>9. QED
  BY <1>1, <1>2, <1>3, <1>4, <1>5, <1>6, <1>7, <1>8 DEF AllScripts

(* Types in two parts, which different provers see to.                      *)
Switches   == same \in BOOLEAN /\ trouble \in BOOLEAN
LiveShapes ==
  /\ script \in AllScripts /\ place \in Nat \ {0}
  /\ pc \in {"baseline", "write", "probe", "restore", "verify", "done"}
  /\ part \in [Parts -> {"found", "changed"}] /\ late \subseteq Parts
  /\ own \in Seq(Writes) /\ strays \in Seq(Seq(Writes))
  /\ outcome \in {"none", "refused", "ok", "failed", "silent", "traceback"}

LEMMA LiveTypeParts == (LiveTypeOK <=> Switches /\ LiveShapes) /\ (LiveTypeOK' <=> Switches' /\ LiveShapes')
BY Zenon DEF LiveTypeOK, Switches, LiveShapes

LEMMA SwitchTypes == LiveTypeOK /\ [LiveNext]_liveVars => Switches'
<1> SUFFICES ASSUME Switches, [LiveNext]_liveVars PROVE Switches'
  BY LiveTypeParts
<1>1. same' \in BOOLEAN
  BY Zenon DEF Switches, LiveNext, Script, Refuses, Baseline, Write, WriteRaises, Probe, Loses,
     Restore, RestoreRaises, Compare, Says, Works, WorksOn, Killed, Drives, liveVars
<1>2. trouble' \in BOOLEAN
  BY Zenon DEF Switches, LiveNext, Script, Refuses, Baseline, Write, WriteRaises, Probe, Loses,
     Restore, RestoreRaises, Compare, Says, Works, WorksOn, Killed, Drives, liveVars
<1>3. QED
  BY <1>1, <1>2 DEF Switches

(* What every lemma below starts from and arrives at.                       *)
LiveHave == LiveShapes /\ Placed /\ Covered /\ Compared /\ Ended /\ Shaped(script)
LiveKept == LiveShapes /\ Placed /\ Covered /\ Compared /\ Ended

LEMMA LiveHaves == LiveInv => LiveHave
BY LiveTypeParts, ScriptsShaped DEF LiveInv, LiveHave, LiveShapes

LEMMA LiveStarts == LiveInit => LiveInv
<1> SUFFICES ASSUME LiveInit PROVE LiveInv
  OBVIOUS
<1>1. LiveTypeOK
  <2>1. same \in BOOLEAN /\ trouble \in BOOLEAN
    BY Zenon DEF LiveInit
  <2>2. part \in [Parts -> {"found", "changed"}] /\ script \in AllScripts
    BY ScriptsAssumption DEF LiveInit, ScriptsAssumption
  <2>3. QED
    BY <2>1, <2>2 DEF LiveInit, LiveTypeOK
<1>2. Changed = {}
  BY DEF LiveInit, Changed
<1>3. Placed /\ Covered /\ Compared /\ Ended
  BY <1>2 DEF LiveInit, Placed, Covered, Compared, Ended, VerdictTrue
<1>4. QED
  BY <1>1, <1>3 DEF LiveInv

(* Up to the finally block everything on its list is still to come.         *)
Early == {"baseline", "write", "probe"}
LEMMA DueAtFirst ==
  ASSUME pc \in Early, pc' \in Early \/ (pc' = "restore" /\ place' = 1), script' = script
  PROVE  Due' = Due /\ Due = Listed(script)
BY DEF Early, Due, Listed

(* What a session does to the tablet and leaves behind.                     *)
LEMMA SessionDoes ==
  ASSUME LiveShapes, NEW p \in Parts, NEW value \in {"found", "changed"}, NEW when \in Whens, Sends(p, value, when)
  PROVE  /\ part' \in [Parts -> {"found", "changed"}] /\ strays' \in Seq(Seq(Writes))
         /\ \A q \in Parts : q # p => part'[q] = part[q]
         /\ when = "now" => part'[p] = value
<1>1. <<<<p, value>>>> \in Seq(Writes)
  BY DEF Writes
<1>2. strays' = strays \/ strays' = Append(strays, <<<<p, value>>>>)
  BY DEF Sends, GivenUp
<1>3. part' = part \/ part' = [part EXCEPT ![p] = value]
  BY DEF Sends
<1>4. when = "now" => part' = [part EXCEPT ![p] = value]
  BY DEF Sends
<1>5. strays' \in Seq(Seq(Writes))
  <2> DEFINE command == <<<<p, value>>>>
  <2>1. command \in Seq(Writes) /\ strays \in Seq(Seq(Writes)) /\ (strays' = strays \/ strays' = Append(strays, command))
    BY <1>1, <1>2 DEF LiveShapes
  <2> HIDE DEF command
  <2>2. QED
    BY <2>1, AppendProperties
<1>6. /\ part' \in [Parts -> {"found", "changed"}] /\ \A q \in Parts : q # p => part'[q] = part[q]
      /\ when = "now" => part'[p] = value
  BY <1>3, <1>4 DEF LiveShapes
<1>7. QED
  BY <1>5, <1>6

-----------------------------------------------------------------------------
(* The refusals, and the steps in and out of the probes.                    *)
LEMMA ProbesKeep == LiveHave /\ (Refuses \/ Baseline \/ Probe \/ Loses) => LiveKept'
<1> SUFFICES ASSUME LiveHave, Refuses \/ Baseline \/ Probe \/ Loses PROVE LiveKept'
  OBVIOUS
<1>1. LiveShapes /\ Placed /\ Covered /\ Compared /\ Ended /\ Shaped(script)
  BY DEF LiveHave
<1>2. CASE Refuses
  <2>1. pc = "baseline" /\ pc' = "done" /\ outcome' = "refused"
        /\ UNCHANGED <<script, place, part, own, strays, same, trouble, late>>
    BY <1>2 DEF Refuses, End
  <2>2. Changed' = {}
    BY <1>1, <2>1 DEF Placed, Changed
  <2>3. LiveShapes' /\ Placed' /\ Ended' /\ Compared'
    BY <1>1, <2>1 DEF LiveShapes, Placed, Ended, Compared, VerdictTrue
  <2>4. Covered'
    BY <2>2 DEF Covered
  <2>5. QED
    BY <2>3, <2>4 DEF LiveKept
<1>3. CASE Baseline \/ Probe \/ Loses
  <2>1. /\ pc \in Early /\ pc' \in {"write", "probe", "restore"} /\ place' = 1
        /\ pc' = "write" => pc = "baseline" /\ script.writes # <<>>
        /\ UNCHANGED <<script, part, same, outcome, trouble, late>>
    BY <1>1, <1>3 DEF Baseline, Probe, Loses, Early, Placed
  <2>2. /\ own' \in Seq(Writes) /\ (own' # <<>> => pc' = "probe")
        /\ \A i \in 1..Len(own') : own'[i][1] \in Listed(script) \cup Kept
    <3>1. own' = own \/ own' \in script.commands \/ own' = <<>>
      BY <1>3 DEF Baseline, Probe, Loses
    <3>2. own' # <<>> => pc' = "probe"
      BY <1>1, <1>3 DEF Baseline, Probe, Loses, Placed
    <3>3. CASE own' = own
      BY <1>1, <3>2, <3>3 DEF LiveShapes, Placed
    <3>4. CASE own' \in script.commands
      <4>1. Kept = Spared(script)
        BY Zenon DEF Kept, Spared
      <4>2. own' \in Seq(Writes) /\ \A i \in 1..Len(own') : own'[i][1] \in Listed(script) \cup Spared(script)
        BY <1>1, <3>4, Zenon DEF Shaped, Lists, PutsBack
      <4>3. QED
        BY <3>2, <4>1, <4>2
    <3>5. CASE own' = <<>>
      BY <3>2, <3>5
    <3>6. QED
      BY <3>1, <3>3, <3>4, <3>5
  <2>3. strays' \in Seq(Seq(Writes))
    <3>1. strays' = strays \/ strays' = Append(strays, own)
      BY <1>3 DEF Baseline, Probe, Loses, GivenUp
    <3>2. own \in Seq(Writes) /\ strays \in Seq(Seq(Writes))
      BY <1>1 DEF LiveShapes
    <3>3. Append(strays, own) \in Seq(Seq(Writes))
      BY <3>2, AppendProperties
    <3>4. QED
      BY <3>1, <3>2, <3>3
  <2>4. Len(script.restore) >= 1 /\ Len(script.restore) \in Nat /\ (pc' = "write" => Len(script.writes) >= 1 /\ Len(script.writes) \in Nat)
    BY <1>1, <2>1 DEF Shaped, Lists
  <2>5. LiveShapes'
    BY <1>1, <2>1, <2>2, <2>3 DEF LiveShapes
  <2>6. Placed'
    BY <2>1, <2>2, <2>4 DEF Placed, Listed, Kept
  <2>7. Changed' = Changed /\ Kept' = Kept /\ Due' = Due
    BY <2>1, DueAtFirst DEF Changed, Kept, Early
  <2>8. Covered'
    BY <1>1, <2>1, <2>7 DEF Covered
  <2>9. Compared' /\ Ended'
    BY <1>1, <2>1 DEF Compared, Ended, VerdictTrue, Early
  <2>10. QED
    BY <2>5, <2>6, <2>8, <2>9 DEF LiveKept
<1>4. QED
  BY <1>2, <1>3

(* The writes of the try block, of parts that the finally block restores.   *)
LEMMA WritesKeep == LiveHave /\ (Write \/ WriteRaises) => LiveKept'
<1> SUFFICES ASSUME LiveHave, Write \/ WriteRaises PROVE LiveKept'
  OBVIOUS
<1>1. LiveShapes /\ Placed /\ Covered /\ Compared /\ Ended /\ Shaped(script)
  BY DEF LiveHave
<1>2. /\ pc = "write" /\ place \in 1..Len(script.writes) /\ Len(script.writes) \in Nat
      /\ Len(script.restore) \in Nat /\ Len(script.restore) >= 1
  BY <1>1 DEF Write, WriteRaises, Placed, Shaped, Lists
<1>3. script.writes[place] \in Parts /\ script.writes[place] \in Listed(script)
  BY <1>1, <1>2 DEF Shaped, Lists, PutsBack
<1>4. PICK when \in Whens : Sends(script.writes[place], "changed", when)
  BY Zenon DEF Write, WriteRaises
<1>5. /\ pc' \in {"write", "probe", "restore"}
      /\ pc' = "write" => place' = place + 1 /\ place # Len(script.writes)
      /\ pc' # "write" => place' = 1
      /\ UNCHANGED <<script, own, same, outcome, trouble, late>>
  BY DEF Write, WriteRaises
<1>6. /\ part' \in [Parts -> {"found", "changed"}] /\ strays' \in Seq(Seq(Writes))
      /\ \A q \in Parts : q # script.writes[place] => part'[q] = part[q]
  BY <1>1, <1>3, <1>4, SessionDoes
<1>7. place' \in Nat \ {0}
  BY <1>2, <1>5
<1>8. LiveShapes'
  BY <1>1, <1>5, <1>6, <1>7 DEF LiveShapes
<1>9. Placed'
  <2>1. own = <<>>
    BY <1>1, <1>2 DEF Placed
  <2>2. QED
    BY <1>2, <1>5, <2>1 DEF Placed
<1>10. Kept' = Kept /\ Due' = Due /\ Due = Listed(script)
  BY <1>2, <1>5, DueAtFirst DEF Kept, Early
<1>11. Changed' \subseteq Changed \cup Listed(script)
  BY <1>3, <1>6 DEF Changed
<1>12. Covered'
  BY <1>1, <1>5, <1>10, <1>11 DEF Covered
<1>13. Compared' /\ Ended'
  BY <1>1, <1>2, <1>5 DEF Compared, Ended, VerdictTrue
<1>14. QED
  BY <1>8, <1>9, <1>12, <1>13 DEF LiveKept

(* The finally block: what it has put back is off its list.                 *)
LEMMA RestoreKeeps == LiveHave /\ (Restore \/ RestoreRaises) => LiveKept'
<1> SUFFICES ASSUME LiveHave, Restore \/ RestoreRaises PROVE LiveKept'
  OBVIOUS
<1>1. LiveShapes /\ Placed /\ Covered /\ Compared /\ Ended /\ Shaped(script)
  BY DEF LiveHave
<1> DEFINE p == script.restore[place]
<1>2. pc = "restore" => p \in Parts /\ place \in 1..Len(script.restore) /\ Len(script.restore) \in Nat
  BY <1>1 DEF Placed, Shaped, Lists
<1>3. CASE Restore
  <2>1. PICK when \in Whens :
          /\ Sends(p, "found", when)
          /\ trouble' = (trouble \/ when # "now")
          /\ late' = IF when = "now" THEN late \ {p} ELSE late
    BY <1>3, Zenon DEF Restore
  <2>2. /\ pc = "restore" /\ UNCHANGED <<script, own, same, outcome>>
        /\ \/ place = Len(script.restore) /\ pc' = "verify" /\ place' = 1
           \/ place # Len(script.restore) /\ pc' = "restore" /\ place' = place + 1
    BY <1>3 DEF Restore
  <2>3. p \in Parts /\ place \in 1..Len(script.restore) /\ Len(script.restore) \in Nat /\ Len(script.verify) \in Nat
    BY <1>1, <1>2, <2>2 DEF Shaped, Lists
  <2>4. ~trouble' => ~trouble /\ when = "now"
    BY <2>1, Zenon
  <2> HIDE DEF p
  <2>5. /\ part' \in [Parts -> {"found", "changed"}] /\ strays' \in Seq(Seq(Writes))
        /\ \A q \in Parts : q # p => part'[q] = part[q]
        /\ when = "now" => part'[p] = "found"
    BY <1>1, <2>1, <2>3, SessionDoes
  <2>6. late' \subseteq Parts
    BY <1>1, <2>1 DEF LiveShapes
  <2>7. LiveShapes'
    BY <1>1, <2>2, <2>3, <2>5, <2>6 DEF LiveShapes
  <2>8. Placed'
    <3>1. own = <<>>
      BY <1>1, <2>2 DEF Placed
    <3>2. QED
      BY <2>2, <2>3, <3>1 DEF Placed
  <2>9. Due \ {p} \subseteq Due'
    BY <2>2, <2>3 DEF Due, p
  <2>10. Kept' = Kept
    BY <2>2 DEF Kept
  <2>11. Covered'
    <3>1. SUFFICES ASSUME ~trouble', NEW q \in Changed' PROVE q \in late' \cup Kept' \cup Due'
      BY DEF Covered
    <3>2. q # p /\ q \in Changed /\ late' = late \ {p}
      BY <2>1, <2>4, <2>5, <3>1 DEF Changed
    <3>3. q \in late \cup Kept \cup Due
      BY <1>1, <2>4, <3>1, <3>2 DEF Covered
    <3>4. QED
      BY <2>9, <2>10, <3>2, <3>3
  <2>12. Compared' /\ Ended'
    BY <1>1, <2>2 DEF Compared, Ended, VerdictTrue
  <2>13. QED
    BY <2>7, <2>8, <2>11, <2>12 DEF LiveKept
<1>4. CASE RestoreRaises
  <2>1. /\ pc \in {"restore", "verify"} /\ pc' = "done" /\ outcome' = "traceback" /\ trouble'
        /\ UNCHANGED <<script, place, own, same, late>>
    BY <1>4 DEF RestoreRaises, End
  <2>2. part' \in [Parts -> {"found", "changed"}] /\ strays' \in Seq(Seq(Writes))
    <3>1. CASE pc = "restore"
      <4>1. PICK when \in Whens : Sends(p, "found", when)
        BY <1>4, <3>1, Zenon DEF RestoreRaises
      <4>2. p \in Parts
        BY <1>2, <3>1
      <4> HIDE DEF p
      <4>3. QED
        BY <1>1, <4>1, <4>2, SessionDoes
    <3>2. CASE pc # "restore"
      BY <1>1, <1>4, <3>2 DEF RestoreRaises, LiveShapes
    <3>3. QED
      BY <3>1, <3>2
  <2>3. LiveShapes'
    BY <1>1, <2>1, <2>2 DEF LiveShapes
  <2>4. Placed' /\ Covered' /\ Compared' /\ Ended'
    BY <1>1, <2>1 DEF Placed, Covered, Compared, Ended, VerdictTrue
  <2>5. QED
    BY <2>3, <2>4 DEF LiveKept
<1>5. QED
  BY <1>3, <1>4

(* The comparison, and what it says.                                        *)
LEMMA CompareKeeps == LiveHave /\ (Compare \/ Says) => LiveKept'
<1> SUFFICES ASSUME LiveHave, Compare \/ Says PROVE LiveKept'
  OBVIOUS
<1>1. LiveShapes /\ Placed /\ Covered /\ Compared /\ Ended /\ Shaped(script)
  BY DEF LiveHave
<1>2. pc = "verify" /\ place \in 1..Len(script.verify) + 1 /\ Len(script.verify) \in Nat /\ own = <<>>
  BY <1>1 DEF Compare, Says, Placed, Shaped, Lists
<1>3. /\ UNCHANGED <<script, part, own, strays, trouble, late>>
      /\ Due = {} /\ Due' = {}
  BY <1>2 DEF Compare, Says, End, Due
<1>4. Covered'
  BY <1>1, <1>3 DEF Covered, Changed, Kept
<1>5. CASE Compare
  <2>1. /\ place <= Len(script.verify) /\ place' = place + 1 /\ UNCHANGED <<pc, outcome>>
        /\ same' => same /\ part[script.verify[place]] = "found"
    BY <1>5, Zenon DEF Compare
  <2>2. LiveShapes' /\ Placed' /\ Ended'
    BY <1>1, <1>2, <1>3, <2>1 DEF LiveShapes, Placed, Ended, VerdictTrue
  <2>3. Compared'
    <3>1. SUFFICES ASSUME same', NEW i \in 1..place PROVE Found(i)'
      BY <1>2, <2>1 DEF Compared
    <3>2. same /\ script.verify[place] \notin Changed
      BY <2>1, <3>1 DEF Changed
    <3>3. CASE i = place
      BY <1>3, <3>2, <3>3 DEF Found, Changed
    <3>4. CASE i # place
      <4>1. i \in 1..place - 1
        BY <1>2, <3>4
      <4>2. Found(i)
        BY <1>1, <1>2, <3>2, <4>1 DEF Compared
      <4>3. \A j \in place..Len(script.verify) :
              script.verify[j] = "attach" /\ "attach" \in Changed => j \in place'..Len(script.verify)
        BY <1>2, <2>1, <3>2
      <4>4. QED
        BY <1>3, <4>2, <4>3 DEF Found, Changed
    <3>5. QED
      BY <3>3, <3>4
  <2>4. QED
    BY <1>4, <2>2, <2>3 DEF LiveKept
<1>6. CASE Says
  <2>1. /\ place > Len(script.verify) /\ pc' = "done" /\ UNCHANGED <<place, same>>
        /\ outcome' \in {"silent", "failed", "ok"} /\ (outcome' = "ok" => same)
    BY <1>6, Zenon DEF Says, End
  <2>2. place - 1 = Len(script.verify) /\ place..Len(script.verify) = {}
    BY <1>2, <2>1
  <2>3. same => Changed \cap Range(script.verify) \subseteq late
    <3>1. SUFFICES ASSUME same, NEW i \in 1..Len(script.verify), script.verify[i] \in Changed
                   PROVE  script.verify[i] \in late
      BY <1>1 DEF Range, Shaped, Lists
    <3>2. Found(i)
      BY <1>1, <1>2, <2>2, <3>1 DEF Compared
    <3>3. QED
      BY <2>2, <3>1, <3>2 DEF Found
  <2>4. Ended'
    BY <1>3, <2>1, <2>3 DEF Ended, VerdictTrue, Changed
  <2>5. LiveShapes' /\ Placed' /\ Compared'
    BY <1>1, <1>2, <1>3, <2>1 DEF LiveShapes, Placed, Compared
  <2>6. QED
    BY <1>4, <2>4, <2>5 DEF LiveKept
<1>7. QED
  BY <1>5, <1>6

-----------------------------------------------------------------------------
(* The tablet works on the command the script waits for.                    *)
LEMMA WorksKeeps == LiveHave /\ Works => LiveKept'
<1> SUFFICES ASSUME LiveHave, Works PROVE LiveKept'
  OBVIOUS
<1>1. LiveShapes /\ Placed /\ Covered /\ Compared /\ Ended /\ Shaped(script)
  BY DEF LiveHave
<1> DEFINE p == Head(own)[1]
<1>2. own # <<>> /\ own \in Seq(Writes) /\ own' = Tail(own) /\ pc = "probe"
      /\ UNCHANGED <<script, pc, place, strays, same, outcome, trouble, late>>
  BY <1>1 DEF Works, LiveShapes, Placed
<1>3. Head(own) = own[1] /\ own[1] \in Writes /\ 1 \in 1..Len(own) /\ own' \in Seq(Writes)
      /\ Len(own') = Len(own) - 1 /\ \A i \in 1..Len(own') : i + 1 \in 1..Len(own) /\ own'[i] = own[i + 1]
  BY <1>2
<1>4. p \in Parts /\ Head(own)[2] \in {"found", "changed"} /\ p \in Listed(script) \cup Kept
  BY <1>1, <1>3 DEF Writes, Placed
<1>5. part' = [part EXCEPT ![p] = Head(own)[2]]
  BY DEF Works, Does
<1> HIDE DEF p
<1>6. part' \in [Parts -> {"found", "changed"}] /\ \A q \in Parts : q # p => part'[q] = part[q]
  BY <1>1, <1>4, <1>5 DEF LiveShapes
<1>7. LiveShapes'
  BY <1>1, <1>2, <1>3, <1>6 DEF LiveShapes
<1>8. Kept' = Kept /\ Due' = Due /\ Due = Listed(script)
  BY <1>2, DueAtFirst DEF Kept, Early
<1>9. Placed'
  <2>1. \A i \in 1..Len(own') : own'[i][1] \in Listed(script) \cup Kept
    BY <1>1, <1>3 DEF Placed
  <2>2. QED
    BY <1>2, <1>8, <2>1 DEF Placed
<1>10. Changed' \subseteq Changed \cup Listed(script) \cup Kept
  BY <1>4, <1>6 DEF Changed
<1>11. Covered'
  BY <1>1, <1>2, <1>8, <1>10 DEF Covered
<1>12. Compared' /\ Ended'
  BY <1>1, <1>2 DEF Compared, Ended, VerdictTrue
<1>13. QED
  BY <1>7, <1>9, <1>11, <1>12 DEF LiveKept

(* It works on one the script has given up, or kills it.                    *)
LEMMA StraysKeep == ASSUME LiveHave, NEW n \in 1..Len(strays), WorksOn(n) \/ Killed(n) PROVE LiveKept'
<1>1. LiveShapes /\ Placed /\ Covered /\ Compared /\ Ended /\ Shaped(script)
  BY DEF LiveHave
<1>2. strays \in Seq(Seq(Writes)) /\ strays[n] \in Seq(Writes) /\ strays[n] # <<>> /\ pc # "baseline"
      /\ UNCHANGED <<script, pc, place, own, same, outcome, trouble>>
  BY <1>1 DEF WorksOn, Killed, LiveShapes, Placed
<1>3. strays' \in Seq(Seq(Writes))
  <2>1. Tail(strays[n]) \in Seq(Writes) /\ <<>> \in Seq(Writes)
    BY <1>2
  <2>2. PICK left \in Seq(Writes) : strays' = [strays EXCEPT ![n] = left]
    BY <2>1 DEF WorksOn, Killed
  <2>3. QED
    BY <1>2, <2>2, ExceptSeq
<1>4. PICK p \in Parts :
        /\ part' \in [Parts -> {"found", "changed"}] /\ \A q \in Parts : part'[q] = part[q] \/ (q = p /\ q \in late')
        /\ (part' = part /\ late' = late) \/ late' = late \cup Touches(p)
  <2>1. CASE WorksOn(n)
    <3> DEFINE p == Head(strays[n])[1]
    <3>1. Head(strays[n]) \in Writes
      BY <1>2
    <3>2. p \in Parts /\ Head(strays[n])[2] \in {"found", "changed"}
      BY <3>1 DEF Writes
    <3>3. part' = [part EXCEPT ![p] = Head(strays[n])[2]] /\ late' = late \cup Touches(p)
      BY <2>1 DEF WorksOn, Does
    <3> HIDE DEF p
    <3>4. p \in Touches(p)
      BY DEF Touches
    <3>5. QED
      BY <1>1, <3>2, <3>3, <3>4 DEF LiveShapes
  <2>2. CASE Killed(n)
    BY <1>1, <2>2 DEF Killed, LiveShapes, Parts
  <2>3. QED
    BY <2>1, <2>2
<1>5. Touches(p) \subseteq Parts /\ (p # "attach" => "attach" \notin Touches(p)) /\ (p = "attach" => "uart" \in Touches(p))
  BY <1>4 DEF Touches, Parts
<1>6. LiveShapes'
  BY <1>1, <1>2, <1>3, <1>4, <1>5 DEF LiveShapes
<1>7. Kept' = Kept /\ Due' = Due /\ Changed' \subseteq Changed \cup late'
  BY <1>2, <1>4 DEF Kept, Due, Changed
<1>8. Placed'
  BY <1>1, <1>2, <1>7 DEF Placed
<1>9. Covered'
  BY <1>1, <1>2, <1>4, <1>7 DEF Covered
<1>10. Compared'
  <2>1. SUFFICES ASSUME pc = "verify", same, NEW i \in 1..place - 1, script.verify[i] \in Changed', script.verify[i] \notin late'
                 PROVE  Found(i)'
    BY <1>2 DEF Compared, Found
  <2>2. Found(i) /\ script.verify[i] \in Changed /\ script.verify[i] \notin late
    BY <1>1, <1>4, <1>7, <2>1 DEF Compared
  <2>3. script.verify[i] = "uart" /\ "attach" \in Changed /\ "attach" \notin late
        /\ \E j \in place..Len(script.verify) : script.verify[j] = "attach"
    BY <2>2 DEF Found
  <2>4. (part' = part /\ late' = late) \/ (p # "attach" /\ late' = late \cup Touches(p))
    BY <1>4, <1>5, <2>1, <2>3
  <2>5. "attach" \in Changed' /\ "attach" \notin late'
    BY <1>4, <1>5, <2>3, <2>4 DEF Changed, Parts
  <2>6. QED
    BY <1>2, <2>3, <2>5 DEF Found
<1>11. Ended'
  BY <1>1, <1>2, <1>4, <1>7 DEF Ended, VerdictTrue
<1>12. QED
  BY <1>6, <1>8, <1>9, <1>10, <1>11 DEF LiveKept

(* The daemon's driver: the port is still to be put back, or found out, as
   long as the daemon is.                                                   *)
LEMMA DrivesKeeps == LiveHave /\ Drives => LiveKept'
<1> SUFFICES ASSUME LiveHave, Drives PROVE LiveKept'
  OBVIOUS
<1>1. LiveShapes /\ Placed /\ Covered /\ Compared /\ Ended /\ Shaped(script)
  BY DEF LiveHave
<1>2. /\ "attach" \in Changed /\ "uart" \in Parts /\ part' \in [Parts -> {"found", "changed"}]
      /\ \A q \in Parts : q # "uart" => part'[q] = part[q]
      /\ late' = IF "attach" \in late THEN late \cup {"uart"} ELSE late
      /\ UNCHANGED <<script, pc, place, own, strays, same, outcome, trouble>>
  BY <1>1 DEF Drives, LiveShapes, Changed, Parts
<1>3. late \subseteq late' /\ late' \subseteq Parts
  BY <1>1, <1>2 DEF LiveShapes
<1>4. LiveShapes'
  BY <1>1, <1>2, <1>3 DEF LiveShapes
<1>5. Changed' \subseteq Changed \cup {"uart"} /\ "attach" \in Changed' /\ Kept' = Kept /\ Due' = Due
  BY <1>2 DEF Changed, Kept, Due
<1>6. pc # "baseline"
  BY <1>1, <1>2 DEF Placed
<1>7. Placed'
  BY <1>1, <1>2, <1>5, <1>6 DEF Placed
<1>8. Covered'
  <2>1. SUFFICES ASSUME ~trouble PROVE "uart" \in late' \cup Kept \cup Due
    BY <1>1, <1>2, <1>3, <1>5 DEF Covered
  <2>2. "attach" \in late \/ "attach" \in Due
    BY <1>1, <1>2, <2>1 DEF Covered, Kept
  <2>3. CASE "attach" \in Due /\ "uart" \notin Kept
    <3>1. \A i \in 1..Len(script.restore) : script.restore[i] = "attach" =>
            \E j \in i + 1..Len(script.restore) : script.restore[j] = "uart"
      BY <1>1, <2>3 DEF Shaped, Ordered, Kept, Spared
    <3>2. Len(script.restore) \in Nat
      BY <1>1 DEF Shaped, Lists
    <3>3. CASE pc \in {"baseline", "write", "probe"}
      BY <2>3, <3>1, <3>2, <3>3 DEF Due, Listed
    <3>4. CASE pc = "restore"
      <4>1. place \in 1..Len(script.restore) /\ Due = {script.restore[m] : m \in place..Len(script.restore)}
        BY <1>1, <3>4 DEF Placed, Due
      <4>2. PICK i \in place..Len(script.restore) : script.restore[i] = "attach"
        BY <2>3, <4>1
      <4>3. PICK j \in i + 1..Len(script.restore) : script.restore[j] = "uart"
        BY <3>1, <3>2, <4>1, <4>2
      <4>4. j \in place..Len(script.restore)
        BY <3>2, <4>1, <4>2, <4>3
      <4>5. QED
        BY <4>1, <4>3, <4>4
    <3>5. QED
      BY <2>3, <3>3, <3>4 DEF Due
  <2>4. QED
    BY <1>2, <2>2, <2>3
<1>9. Compared'
  <2>1. SUFFICES ASSUME pc = "verify", same, NEW i \in 1..place - 1, script.verify[i] \in Changed', script.verify[i] \notin late'
                 PROVE  Found(i)'
    BY <1>2 DEF Compared, Found
  <2>2. \A k \in 1..place - 1 : Found(k)
    BY <1>1, <2>1 DEF Compared
  <2>3. CASE script.verify[i] # "uart"
    BY <1>3, <1>5, <2>1, <2>2, <2>3 DEF Found
  <2>4. CASE script.verify[i] = "uart"
    <3>1. "attach" \notin late /\ "attach" \notin late'
      BY <1>2, <2>1, <2>4
    <3>2. place \in 1..Len(script.verify) + 1 /\ Len(script.verify) \in Nat
      BY <1>1, <2>1 DEF Placed, Shaped, Lists
    <3>3. PICK j \in i + 1..Len(script.verify) : script.verify[j] = "attach"
      BY <1>1, <2>1, <2>4, <3>2 DEF Shaped, Ordered
    <3>4. j \notin 1..place - 1
      BY <1>2, <2>2, <3>1, <3>3 DEF Found
    <3>5. j \in place..Len(script.verify)
      BY <3>2, <3>3, <3>4
    <3>6. QED
      BY <1>2, <1>5, <2>4, <3>1, <3>3, <3>5 DEF Found
  <2>5. QED
    BY <2>3, <2>4
<1>10. Ended'
  <2>1. SUFFICES ASSUME outcome = "ok", "uart" \in Range(script.verify), "uart" \notin late' PROVE FALSE
    BY <1>1, <1>2, <1>3, <1>5 DEF Ended, VerdictTrue
  <2>2. script.verify \in Seq(Parts)
    BY <1>1 DEF Shaped, Lists
  <2>3. PICK i \in 1..Len(script.verify) : script.verify[i] = "uart"
    BY <2>1, <2>2 DEF Range
  <2>4. "attach" \in Range(script.verify)
    BY <1>1, <2>2, <2>3 DEF Shaped, Ordered, Range
  <2>5. QED
    BY <1>1, <1>2, <2>1, <2>4 DEF Ended, VerdictTrue
<1>11. QED
  BY <1>4, <1>7, <1>8, <1>9, <1>10 DEF LiveKept

(* The invariant, one group of steps per lemma.                             *)
LEMMA LiveSteps == LiveInv /\ [LiveNext]_liveVars => LiveInv'
<1> SUFFICES ASSUME LiveInv, [LiveNext]_liveVars PROVE LiveInv'
  OBVIOUS
<1>1. LiveHave
  BY LiveHaves
<1>2. LiveKept'
  <2>1. CASE Script
    BY <1>1, <2>1, ProbesKeep, WritesKeep, RestoreKeeps, CompareKeeps DEF Script
  <2>2. CASE Works
    BY <1>1, <2>2, WorksKeeps
  <2>3. CASE Drives
    BY <1>1, <2>3, DrivesKeeps
  <2>4. CASE \E n \in 1..Len(strays) : WorksOn(n) \/ Killed(n)
    BY <1>1, <2>4, StraysKeep
  <2>5. CASE UNCHANGED liveVars
    BY <1>1, <2>5 DEF liveVars, LiveHave, LiveKept, LiveShapes, Placed, Covered, Compared, Ended,
       VerdictTrue, Changed, Kept, Due, Found
  <2>6. QED
    BY <2>1, <2>2, <2>3, <2>4, <2>5 DEF LiveNext
<1>3. LiveTypeOK'
  BY <1>2, SwitchTypes, LiveTypeParts DEF LiveInv, LiveKept
<1>4. QED
  BY <1>2, <1>3 DEF LiveInv, LiveKept

-----------------------------------------------------------------------------
(* The invariant holds in every state of every script.                      *)
THEOREM LiveInvariance == LiveSpec => []LiveInv
BY LiveStarts, LiveSteps, PTL DEF LiveSpec

(* Every variable of the scripts and of the tablet keeps its type.          *)
THEOREM LiveTypes == LiveSpec => []LiveTypeOK
<1>1. LiveInv => LiveTypeOK
  BY DEF LiveInv
<1>2. QED
  BY <1>1, LiveInvariance, PTL

(* "restored OK" of the final comparison in boot/bt_*.py is true, and stays
   true, of all but what a given-up command wrote after it was put back.     *)
THEOREM VerdictTheorem == LiveSpec => []VerdictTrue
<1>1. LiveInv => VerdictTrue
  BY DEF LiveInv, Ended
<1>2. QED
  BY <1>1, LiveInvariance, PTL

(* A finally block whose writes were not lost has put back whatever the try
   block, its commands and the daemon changed, not only what is on its list. *)
THEOREM RestoresTheorem == LiveSpec => []RestoresAll
<1>1. LiveInv => RestoresAll
  BY DEF LiveInv, Covered, RestoresAll, Due
<1>2. QED
  BY <1>1, LiveInvariance, PTL
=============================================================================
