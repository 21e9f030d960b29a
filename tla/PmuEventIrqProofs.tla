------------------------- MODULE PmuEventIrqProofs -------------------------
(***************************************************************************)
(* The safety invariants of PmuEventIrq for every number of events, every  *)
(* retry budget and burst limit, with and without failing mask writes.     *)
(***************************************************************************)
EXTENDS PmuEventIrq, TLAPS

(* The gate is closed exactly from the lock section of suspend to that of
   resume, and inside it the bus may be down.                               *)
GateFollowsPm == suspended <=> pm \notin {"awake", "cancelled"}

(* A handler that has not yet read the block runs with the line enabled.    *)
ReaderNotHeld == thread \in {"entry", "line", "read"} => ~held

(* Unbinding raises the flag before it cancels the retry, and the cancelled
   retry stays cancelled.                                                   *)
StopOrder ==
  /\ bind \in {"stopping", "cancelled", "freeing"} => removing
  /\ bind \in {"cancelled", "freeing"} => ~queued /\ ~running
  /\ bind = "unbound" => enabled = {}

(* Only a dispatching handler has a bitmap, and only listeners are owed.    *)
OwedToListeners ==
  /\ thread # "dispatch" => pending = {}
  /\ owed \subseteq enabled

IInv ==
  /\ TypeOK /\ DepthBalanced /\ GateFollowsPm /\ ReaderNotHeld /\ StopOrder
  /\ OwedToListeners
  /\ NoStrayBusAccess /\ HeldIsReleased /\ QuietAfterStop /\ NoEventLost

-----------------------------------------------------------------------------
(* A mask write keeps the mask a set of events and, with the bus up, is not
   a stray access.                                                          *)
LEMMA EventSyncKeeps ==
  ASSUME NEW unmasked, EventSync(unmasked), mask \subseteq Events, BusUp, ~stray
  PROVE  mask' \subseteq Events /\ ~stray' /\ stray' \in BOOLEAN
BY DEF EventSync

(* The same of the sync at the end of a consumer's bus lock section.        *)
LEMMA BusSyncKeeps ==
  ASSUME NEW unmasked, BusSync(unmasked), IInv
  PROVE  mask' \subseteq Events /\ ~stray' /\ stray' \in BOOLEAN
<1>1. CASE suspended
  BY <1>1 DEF BusSync, IInv, TypeOK, NoStrayBusAccess
<1>2. CASE ~suspended
  <2>1. BusUp /\ EventSync(unmasked)
    BY <1>2 DEF BusSync, BusUp, IInv, GateFollowsPm
  <2>2. QED
    BY <2>1, EventSyncKeeps DEF IInv, TypeOK, NoStrayBusAccess
<1>3. QED
  BY <1>1, <1>2

(* The driver starts out in the invariant.                                  *)
LEMMA InitIInv == Init => IInv
<1> SUFFICES ASSUME Init PROVE IInv
  OBVIOUS
<1>1. retries \in 0 .. MaxRetries /\ burst \in 0 .. MaxBurst + 1 /\ depth \in Nat
  BY PmuAssumption DEF Init
<1>2. TypeOK
  BY <1>1, PmuAssumption DEF Init, TypeOK
<1>3. GateFollowsPm /\ ReaderNotHeld /\ StopOrder /\ OwedToListeners
  BY DEF Init, GateFollowsPm, ReaderNotHeld, StopOrder, OwedToListeners
<1>4. DepthBalanced /\ NoStrayBusAccess /\ HeldIsReleased /\ QuietAfterStop
      /\ NoEventLost
  BY DEF Init, DepthBalanced, NoStrayBusAccess, HeldIsReleased, QuietAfterStop,
     NoEventLost
<1>5. QED
  BY <1>2, <1>3, <1>4 DEF IInv

-----------------------------------------------------------------------------
(* The steps of the event thread keep the invariant.                        *)
LEMMA ThreadKeeps == IInv /\ (Fire \/ ThreadNext) => IInv'
<1> SUFFICES ASSUME IInv, Fire \/ ThreadNext PROVE IInv'
  OBVIOUS
<1> USE DEF IInv, TypeOK, DepthBalanced, GateFollowsPm, ReaderNotHeld,
        StopOrder, OwedToListeners, NoStrayBusAccess, HeldIsReleased,
        QuietAfterStop, NoEventLost, hw, sub, hold, work, system, life
<1>1. CASE Fire
  BY <1>1 DEF Fire
<1>2. CASE EntryTurned \/ ReadTurned
  <2>1. held' \in BOOLEAN /\ abort' \in BOOLEAN /\ queued' = queued
    BY <1>2, Zenon DEF EntryTurned, ReadTurned, Turned, Hold
  <2>2. DepthBalanced' /\ (held' => held \/ suspended)
    BY <1>2 DEF EntryTurned, ReadTurned, Turned, Hold, GateClosed
  <2>3. retries' = retries
    BY <1>2 DEF EntryTurned, ReadTurned, Turned, Hold
  <2>4. depth' \in Nat
    BY <2>2, <2>1
  <2>5. UNCHANGED <<latched, mask, enabled, wake, wakeRefs, burst, running, pm,
                    suspended, removing, bind, pending, owed, stray>>
        /\ thread' = "idle" /\ (suspended \/ removing) /\ thread # "dispatch"
    BY <1>2 DEF EntryTurned, ReadTurned, Turned, GateClosed
  <2>6. QED
    BY <2>1, <2>2, <2>3, <2>4, <2>5
<1>3. CASE EntryPassed \/ DispatchLine
  BY <1>3 DEF EntryPassed, DispatchLine
<1>4. ASSUME NEW fresh \in BOOLEAN, ReadLost(fresh) PROVE IInv'
  <2>1. BusUp
    BY <1>4 DEF ReadLost, GateClosed, BusUp
  <2>2. burst' \in 0 .. MaxBurst + 1 /\ retries' \in 0 .. MaxRetries
    BY <1>4, PmuAssumption DEF ReadLost, NextBurst, Hold
  <2>3. latched' \subseteq latched /\ ~stray' /\ stray' \in BOOLEAN
    BY <1>4, <2>1 DEF ReadLost
  <2>4. pending' = enabled \cap Events /\ owed \subseteq pending'
    BY <1>4 DEF ReadLost
  <2>5. held' /\ held' \in BOOLEAN /\ queued' \in BOOLEAN
    BY <1>4, Zenon DEF ReadLost, Hold
  <2>6. queued' \/ retries' = MaxRetries
    BY <1>4, PmuAssumption DEF ReadLost, Hold
  <2>7. depth' = 1
    BY <1>4 DEF ReadLost, Hold
  <2>8. QED
    BY <1>4, <2>2, <2>3, <2>4, <2>5, <2>6, <2>7 DEF ReadLost, GateClosed
<1>5. ASSUME NEW fresh \in BOOLEAN, ReadDone(fresh) PROVE IInv'
  <2>1. BusUp
    BY <1>5 DEF ReadDone, GateClosed, BusUp
  <2>2. burst' \in 0 .. MaxBurst + 1
    BY <1>5, PmuAssumption DEF ReadDone, NextBurst
  <2>3. QED
    BY <1>5, <2>1, <2>2, PmuAssumption DEF ReadDone, GateClosed
<1>6. CASE Dispatch
  BY <1>6 DEF Dispatch
<1>7. CASE Dispatched
  BY <1>7 DEF Dispatched
<1>8. QED
  BY <1>1, <1>2, <1>3, <1>4, <1>5, <1>6, <1>7 DEF ThreadNext

(* So do the PMIC and the retry work.                                       *)
LEMMA RetryKeeps ==
  IInv /\ (RetryExpires \/ RetryRuns \/ \E e \in Events : Raise(e)) => IInv'
<1> SUFFICES ASSUME IInv,
                    RetryExpires \/ RetryRuns \/ \E e \in Events : Raise(e)
             PROVE  IInv'
  OBVIOUS
<1> USE DEF IInv, TypeOK, DepthBalanced, GateFollowsPm, ReaderNotHeld,
        StopOrder, OwedToListeners, NoStrayBusAccess, HeldIsReleased,
        QuietAfterStop, NoEventLost, hw, sub, hold, work, system, life
<1>1. CASE RetryExpires
  BY <1>1 DEF RetryExpires
<1>2. CASE RetryRuns
  <2>1. held' \in BOOLEAN
    BY <1>2, Zenon DEF RetryRuns, Release
  <2>2. DepthBalanced' /\ depth' \in Nat
    BY <1>2 DEF RetryRuns, Release
  <2>3. held' => held /\ (suspended \/ removing)
    BY <1>2 DEF RetryRuns, Release
  <2>4. TypeOK'
    BY <1>2, <2>1, <2>2 DEF RetryRuns
  <2>5. HeldIsReleased' /\ ReaderNotHeld' /\ GateFollowsPm'
    BY <1>2, <2>3 DEF RetryRuns
  <2>6. QED
    BY <1>2, <2>2, <2>4, <2>5 DEF RetryRuns
<1>3. CASE \E e \in Events : Raise(e)
  BY <1>3 DEF Raise
<1>4. QED
  BY <1>1, <1>2, <1>3

(* So do the consumers.                                                     *)
LEMMA ConsumersKeep == IInv /\ ConsumerNext => IInv'
<1> SUFFICES ASSUME IInv, ConsumerNext PROVE IInv'
  OBVIOUS
<1> USE DEF IInv, TypeOK, DepthBalanced, GateFollowsPm, ReaderNotHeld,
        StopOrder, OwedToListeners, NoStrayBusAccess, HeldIsReleased,
        QuietAfterStop, NoEventLost, hw, sub, hold, work, system, life
<1>1. ASSUME NEW i \in Irqs, IrqUnmask(i) PROVE IInv'
  <2>1. mask' \subseteq Events /\ ~stray' /\ stray' \in BOOLEAN
    BY <1>1, BusSyncKeeps DEF IrqUnmask
  <2>2. QED
    BY <1>1, <2>1 DEF IrqUnmask, Consumable
<1>2. ASSUME NEW i \in Irqs, IrqMask(i) PROVE IInv'
  <2>1. mask' \subseteq Events /\ ~stray' /\ stray' \in BOOLEAN
    BY <1>2, BusSyncKeeps DEF IrqMask
  <2>2. QED
    BY <1>2, <2>1 DEF IrqMask, Consumable
<1>3. ASSUME NEW e \in WakeCapable, IrqSetWake(e) PROVE IInv'
  <2>1. mask' \subseteq Events /\ ~stray' /\ stray' \in BOOLEAN
    BY <1>3, BusSyncKeeps DEF IrqSetWake
  <2>2. wake' \subseteq WakeCapable
    BY <1>3 DEF IrqSetWake
  <2>3. QED
    BY <1>3, <2>1, <2>2 DEF IrqSetWake, Consumable
<1>4. ASSUME NEW e \in WakeCapable, ParentWake(e) PROVE IInv'
  BY <1>4 DEF ParentWake
<1>5. QED
  BY <1>1, <1>2, <1>3, <1>4 DEF ConsumerNext

(* So does the PM core.                                                     *)
LEMMA PmKeeps == IInv /\ PmNext => IInv'
<1> SUFFICES ASSUME IInv, PmNext PROVE IInv'
  OBVIOUS
<1> USE DEF IInv, TypeOK, DepthBalanced, GateFollowsPm, ReaderNotHeld,
        StopOrder, OwedToListeners, NoStrayBusAccess, HeldIsReleased,
        QuietAfterStop, NoEventLost, hw, sub, hold, work, system, life, PmStep
<1>1. CASE SuspendCancel
  BY <1>1 DEF SuspendCancel, CancelRetry
<1>2. CASE SuspendGate
  <2>1. mask' \subseteq Events /\ ~stray' /\ stray' \in BOOLEAN
    BY <1>2, EventSyncKeeps DEF SuspendGate, BusUp
  <2>2. QED
    BY <1>2, <2>1 DEF SuspendGate
<1>3. CASE SuspendDone
  BY <1>3 DEF SuspendDone
<1>4. CASE PmRest
  BY <1>4 DEF PmRest
<1>5. CASE WakeByEvent
  BY <1>5 DEF WakeByEvent
<1>6. CASE Resume
  <2>1. mask' \subseteq Events /\ ~stray' /\ stray' \in BOOLEAN
    BY <1>6, EventSyncKeeps DEF Resume, BusUp
  <2>2. held' \in BOOLEAN
    BY <1>6, Zenon DEF Resume, Release
  <2>3. ~held' /\ depth' = 0
    BY <1>6 DEF Resume, Release
  <2>4. retries' \in 0 .. MaxRetries /\ depth' \in Nat
    BY <1>6, <2>3, PmuAssumption DEF Resume
  <2>5. TypeOK'
    BY <1>6, <2>1, <2>2, <2>4 DEF Resume
  <2>6. QED
    BY <1>6, <2>1, <2>3, <2>5 DEF Resume
<1>7. QED
  BY <1>1, <1>2, <1>3, <1>4, <1>5, <1>6 DEF PmNext

(* So do bind and unbind.                                                   *)
LEMMA BindKeeps == IInv /\ BindNext => IInv'
<1> SUFFICES ASSUME IInv, BindNext PROVE IInv'
  OBVIOUS
<1> USE PmuAssumption
    DEF IInv, TypeOK, DepthBalanced, GateFollowsPm, ReaderNotHeld,
        StopOrder, OwedToListeners, NoStrayBusAccess, HeldIsReleased,
        QuietAfterStop, NoEventLost, hw, sub, hold, work, system, life, BindStep
<1>1. CASE StopFlag
  BY <1>1 DEF StopFlag
<1>2. CASE StopCancel
  BY <1>2 DEF StopCancel, CancelRetry
<1>3. CASE StopShutdown
  BY <1>3 DEF StopShutdown
<1>4. CASE StopFree
  BY <1>4 DEF StopFree
<1>5. CASE StopRestore
  BY <1>5 DEF StopRestore
<1>6. CASE Probe
  <2>1. retries' \in 0 .. MaxRetries /\ burst' \in 0 .. MaxBurst + 1
        /\ depth' \in Nat
    BY <1>6 DEF Probe
  <2>2. TypeOK'
    BY <1>6, <2>1 DEF Probe
  <2>3. QED
    BY <1>6, <2>2 DEF Probe
<1>7. QED
  BY <1>1, <1>2, <1>3, <1>4, <1>5, <1>6 DEF BindNext

-----------------------------------------------------------------------------
(* The invariant is inductive.                                              *)
LEMMA NextIInv == IInv /\ [Next]_vars => IInv'
<1>1. IInv /\ Next => IInv'
  BY ThreadKeeps, RetryKeeps, ConsumersKeep, PmKeeps, BindKeeps DEF Next
<1>2. IInv /\ UNCHANGED vars => IInv'
  BY DEF vars, hw, sub, hold, work, system, life, IInv, TypeOK, DepthBalanced,
     GateFollowsPm, ReaderNotHeld, StopOrder, OwedToListeners,
     NoStrayBusAccess, HeldIsReleased, QuietAfterStop, NoEventLost
<1>3. QED
  BY <1>1, <1>2

(* Every behaviour of the driver stays in the invariant.                    *)
LEMMA Invariance == Spec => []IInv
BY InitIInv, NextIInv, PTL DEF Spec

(* The controller's variables keep their types.                             *)
THEOREM TypeCorrect == Spec => []TypeOK
<1>1. IInv => TypeOK
  BY DEF IInv
<1>2. QED
  BY <1>1, Invariance, PTL

(* The driver never uses the I2C bus while its controller is suspended.     *)
THEOREM BusSafety == Spec => []NoStrayBusAccess
<1>1. IInv => NoStrayBusAccess
  BY DEF IInv
<1>2. QED
  BY <1>1, Invariance, PTL

(* The parent interrupt's disable depth follows the held flag.              *)
THEOREM DepthSafety == Spec => []DepthBalanced
<1>1. IInv => DepthBalanced
  BY DEF IInv
<1>2. QED
  BY <1>1, Invariance, PTL

(* A line held while awake has a release coming, or an exhausted budget.    *)
THEOREM HeldSafety == Spec => []HeldIsReleased
<1>1. IInv => HeldIsReleased
  BY DEF IInv
<1>2. QED
  BY <1>1, Invariance, PTL

(* Nothing of the driver runs after free_irq() in an unbind.                *)
THEOREM StopSafety == Spec => []QuietAfterStop
<1>1. IInv => QuietAfterStop
  BY DEF IInv
<1>2. QED
  BY <1>1, Invariance, PTL

(* No event raised for a listening consumer is lost.                        *)
THEOREM EventSafety == Spec => []NoEventLost
<1>1. IInv => NoEventLost
  BY DEF IInv
<1>2. QED
  BY <1>1, Invariance, PTL

=============================================================================
