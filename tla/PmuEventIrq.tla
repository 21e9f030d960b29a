---------------------------- MODULE PmuEventIrq ----------------------------
(***************************************************************************)
(* The PMU event interrupt controller of the D2365 PMIC GPIO driver        *)
(* (kernel/patches/0116): one level interrupt line to the AP, a            *)
(* read-to-clear block of latched events, an interrupt mask in front of    *)
(* it, and the driver that owns both and hands each event to its consumer  *)
(* as a nested interrupt.                                                  *)
(*                                                                         *)
(* Actors: the PMIC raising events, the threaded handler of the line, the  *)
(* delayed work that releases a held line, consumers masking, unmasking    *)
(* and arming their interrupt, the PM core suspending and resuming the     *)
(* system, and the driver core binding and unbinding the device.  A step   *)
(* is what one actor does while it holds irq_lock; everything the code     *)
(* does without the lock is a step of its own.                             *)
(***************************************************************************)
EXTENDS Naturals, FiniteSets

CONSTANTS
  NEvents,     (* events 0 .. NEvents-1; hwirq NEvents is the line itself   *)
  WakeCapable, (* the events whose consumers ever ask for wake              *)
  BootMask,    (* the events the boot firmware left masked                  *)
  MaxRetries,  (* APPLE_PMIC_IRQ_RETRIES                                    *)
  MaxBurst,    (* APPLE_PMIC_IRQ_BURST                                      *)
  WriteFails   (* whether an I2C write of the mask may fail                 *)

Events == 0 .. NEvents - 1
Line   == NEvents
Irqs   == Events \cup {Line}

ASSUME PmuAssumption ==
  /\ NEvents \in Nat \ {0}
  /\ WakeCapable \subseteq Events
  /\ BootMask \subseteq Events
  /\ MaxRetries \in Nat \ {0}
  /\ MaxBurst \in Nat \ {0}
  /\ WriteFails \in BOOLEAN

VARIABLES
  latched,    (* PMIC: the event block, cleared by the read                 *)
  mask,       (* PMIC mask register and its cached copy (set = masked)      *)
  enabled,    (* hwirqs a consumer has unmasked                             *)
  wake,       (* events unmasked while asleep                               *)
  wakeRefs,   (* events holding a wake reference on the parent line         *)
  held,       (* irq_held                                                   *)
  depth,      (* disable depth of the parent interrupt                      *)
  retries, burst,
  queued,     (* irq_retry is pending                                       *)
  running,    (* irq_retry has been dequeued and waits for irq_lock         *)
  suspended, removing,
  thread,     (* where the threaded handler is                              *)
  pending,    (* its local bitmap of events still to dispatch               *)
  pm,         (* how far system suspend or resume has come                  *)
  abort,      (* pm_system_wakeup() was called since the suspend began      *)
  bind,       (* how far the device's binding or unbinding has come         *)
  owed,       (* history: events raised while unmasked, not yet handled     *)
  stray       (* history: the driver used the bus while it was down         *)

hw     == <<latched, mask>>
sub    == <<enabled, wake, wakeRefs>>
hold   == <<held, depth, retries, burst>>
work   == <<queued, running>>
system == <<pm, abort, suspended>>
life   == <<removing, bind>>
vars   == <<hw, sub, hold, work, system, life, thread, pending, owed, stray>>

(* I2C ancestors suspend after this device and resume before it.            *)
BusUp == pm \in {"awake", "cancelled", "gating", "gated", "busBack"}

(* The parent handler may start: not between suspend_device_irqs() and
   resume_device_irqs().                                                    *)
IrqsOn == pm # "asleep"

Asserted == latched \ mask # {}

-----------------------------------------------------------------------------
(* apple_pmic_event_sync(): write the mask bytes that differ; a byte whose
   write fails keeps its value, in the register and in the cached copy. The
   events of an instance lie in bytes of their own.                         *)
EventSync(unmasked) ==
  LET want    == Events \ unmasked
      differs == (want \ mask) \cup (mask \ want)
  IN \E failed \in SUBSET (IF WriteFails THEN differs ELSE {}) :
       /\ mask' = (want \ failed) \cup (mask \cap failed)
       /\ stray' = (stray \/ (differs # {} /\ ~BusUp))

(* apple_pmic_irq_hold(): disable the parent line once, and with retry queue
   its release while the budget lasts.                                      *)
Hold(retry) ==
  /\ held' = TRUE
  /\ depth' = IF held THEN depth ELSE depth + 1
  /\ IF retry /\ retries < MaxRetries
     THEN retries' = retries + 1 /\ queued' = TRUE
     ELSE UNCHANGED <<retries, queued>>

(* The line's release, as in the retry work and in resume.                  *)
Release == held' = FALSE /\ depth' = depth - 1

(* apple_pmic_event_gate() when it refuses the bus to the event thread,
   which then returns.                                                      *)
GateIgnoresRemoval == suspended   \* mutant of GateClosed
GateClosed == removing \/ suspended

(* Mutant of Turned: the thread returns with the line still enabled.        *)
TurnedWithoutHold ==
  /\ GateClosed
  /\ thread' = "idle"
  /\ abort' = (abort \/ (~removing /\ wake # {}))
  /\ UNCHANGED <<hw, sub, hold, work, pm, suspended, life, pending, owed, stray>>

Turned ==
  /\ GateClosed
  /\ thread' = "idle"
  /\ \/ removing /\ UNCHANGED <<abort, held, depth, retries, queued>>
     \/ ~removing /\ abort' = (abort \/ wake # {}) /\ Hold(FALSE)
  /\ UNCHANGED <<hw, sub, burst, running, pm, suspended, life, pending, owed,
                 stray>>

-----------------------------------------------------------------------------
(* The PMIC latches an event, whoever listens.                              *)
Raise(e) ==
  /\ latched' = latched \cup {e}
  /\ owed' = IF e \in enabled THEN owed \cup {e} ELSE owed
  /\ UNCHANGED <<mask, sub, hold, work, system, life, thread, pending, stray>>

(* The level line starts the one-shot threaded handler.                     *)
Fire ==
  /\ bind \in {"bound", "stopping", "cancelled"}
  /\ Asserted /\ depth = 0 /\ IrqsOn
  /\ thread = "idle"
  /\ thread' = "entry"
  /\ UNCHANGED <<hw, sub, hold, work, system, life, pending, owed, stray>>

(* First lock section of apple_pmic_event_thread().                         *)
EntryTurned == thread = "entry" /\ Turned

EntryPassed ==
  /\ thread = "entry" /\ ~GateClosed
  /\ thread' = "line"
  /\ UNCHANGED <<hw, sub, hold, work, system, life, pending, owed, stray>>

(* The consumers of the line run without the lock, before the block is
   read.                                                                    *)
DispatchLine ==
  /\ thread = "line"
  /\ thread' = "read"
  /\ UNCHANGED <<hw, sub, hold, work, system, life, pending, owed, stray>>

(* Second lock section: gate, storm window, the read of the block.          *)
ReadTurned == thread = "read" /\ Turned

NextBurst(fresh) ==
  IF fresh THEN 1 ELSE IF burst > MaxBurst THEN burst ELSE burst + 1

(* Mutant of ReadLost: dispatch only the events seen latched afterwards.    *)
ReadLostKnownOnly(fresh) ==
  /\ thread = "read" /\ ~GateClosed
  /\ burst' = NextBurst(fresh)
  /\ \E cleared \in SUBSET latched : latched' = latched \ cleared
  /\ Hold(TRUE)
  /\ pending' = latched' \cap enabled
  /\ thread' = "dispatch"
  /\ UNCHANGED <<mask, sub, running, system, life, owed, stray>>

(* Storm, or a failed read, which may have cleared part of the block: hold
   the line and dispatch everything unmasked.                               *)
ReadLost(fresh) ==
  /\ thread = "read" /\ ~GateClosed
  /\ burst' = NextBurst(fresh)
  /\ IF burst' > MaxBurst
     THEN UNCHANGED <<latched, stray>>
     ELSE /\ \E cleared \in SUBSET latched : latched' = latched \ cleared
          /\ stray' = (stray \/ ~BusUp)
  /\ Hold(TRUE)
  /\ pending' = enabled \cap Events
  /\ thread' = "dispatch"
  /\ UNCHANGED <<mask, sub, running, system, life, owed>>

ReadDone(fresh) ==
  /\ thread = "read" /\ ~GateClosed
  /\ burst' = NextBurst(fresh)
  /\ burst' <= MaxBurst
  /\ stray' = (stray \/ ~BusUp)
  /\ latched' = {}
  /\ retries' = 0
  /\ pending' = latched \cap enabled
  /\ thread' = "dispatch"
  /\ UNCHANGED <<mask, sub, held, depth, work, system, life, owed>>

(* Ascending dispatch, without the lock; a consumer that has masked its
   interrupt meanwhile is not called.                                       *)
Dispatch ==
  /\ thread = "dispatch"
  /\ \E e \in pending :
       /\ \A f \in pending : e <= f
       /\ pending' = pending \ {e}
       /\ owed' = IF e \in enabled THEN owed \ {e} ELSE owed
  /\ UNCHANGED <<hw, sub, hold, work, system, life, thread, stray>>

Dispatched ==
  /\ thread = "dispatch" /\ pending = {}
  /\ thread' = "idle"
  /\ UNCHANGED <<hw, sub, hold, work, system, life, pending, owed, stray>>

ThreadNext ==
  \/ EntryTurned \/ EntryPassed \/ DispatchLine \/ ReadTurned
  \/ \E fresh \in BOOLEAN : ReadLost(fresh) \/ ReadDone(fresh)
  \/ Dispatch \/ Dispatched

-----------------------------------------------------------------------------
(* The delayed work expires, then takes the lock: apple_pmic_irq_retry().   *)
RetryExpires ==
  /\ queued /\ ~running
  /\ queued' = FALSE
  /\ running' = TRUE
  /\ UNCHANGED <<hw, sub, hold, system, life, thread, pending, owed, stray>>

(* Mutant of RetryRuns: the flag is cleared without enable_irq().           *)
RetryForgetsEnable ==
  /\ running
  /\ running' = FALSE
  /\ held' = (held /\ (suspended \/ removing))
  /\ UNCHANGED <<hw, sub, depth, retries, burst, queued, system, life, thread,
                 pending, owed, stray>>

RetryRuns ==
  /\ running
  /\ running' = FALSE
  /\ IF ~suspended /\ ~removing /\ held
     THEN Release
     ELSE UNCHANGED <<held, depth>>
  /\ UNCHANGED <<hw, sub, retries, burst, queued, system, life, thread,
                 pending, owed, stray>>

(* cancel_delayed_work_sync(): nothing pending and nothing running after it. *)
CancelRetry == ~running /\ queued' = FALSE

-----------------------------------------------------------------------------
(* A consumer's enable_irq(), disable_irq() and irq_set_irq_wake(): the chip
   callbacks between bus lock and bus sync unlock, then, outside the lock,
   the wake reference on the parent line.                                   *)
Consumable == bind # "unbound"

BusSyncUngated(nowEnabled) == EventSync(nowEnabled)   \* mutant of BusSync

BusSync(nowEnabled) ==
  IF suspended THEN UNCHANGED <<mask, stray>> ELSE EventSync(nowEnabled)

IrqUnmask(i) ==
  /\ Consumable /\ i \notin enabled
  /\ enabled' = enabled \cup {i}
  /\ BusSync(enabled')
  /\ UNCHANGED <<latched, wake, wakeRefs, hold, work, system, life, thread,
                 pending, owed>>

IrqMask(i) ==
  /\ Consumable /\ i \in enabled
  /\ enabled' = enabled \ {i}
  /\ owed' = owed \ {i}
  /\ BusSync(enabled')
  /\ UNCHANGED <<latched, wake, wakeRefs, hold, work, system, life, thread,
                 pending>>

(* One consumer's wake calls follow one another: its last reference has been
   counted before it asks again.  It arms in its own suspend callback and
   disarms in its resume, both of which the PM core runs while this device,
   its supplier, is awake.                                                  *)
IrqSetWake(e) ==
  /\ Consumable /\ pm = "awake"
  /\ e \in wake <=> e \in wakeRefs
  /\ wake' = IF e \in wake THEN wake \ {e} ELSE wake \cup {e}
  /\ BusSync(enabled)
  /\ UNCHANGED <<latched, enabled, wakeRefs, hold, work, system, life, thread,
                 pending, owed>>

ParentWake(e) ==
  /\ ~(e \in wake <=> e \in wakeRefs)
  /\ wakeRefs' = IF e \in wake THEN wakeRefs \cup {e} ELSE wakeRefs \ {e}
  /\ UNCHANGED <<hw, enabled, wake, hold, work, system, life, thread, pending,
                 owed, stray>>

-----------------------------------------------------------------------------
(* System suspend.  apple_pmic_gpio_suspend() is three steps: cancel the
   retry, the lock section, and the wait for the event thread.              *)
PmStep(from, to) == pm = from /\ pm' = to

SuspendCancel ==
  /\ bind = "bound"
  /\ PmStep("awake", "cancelled")
  /\ abort' = FALSE
  /\ CancelRetry
  /\ UNCHANGED <<hw, sub, hold, running, suspended, life, thread, pending, owed,
                 stray>>

SuspendGate ==
  /\ PmStep("cancelled", "gating")
  /\ EventSync(wake)
  /\ suspended' = TRUE
  /\ UNCHANGED <<latched, sub, hold, work, abort, life, thread, pending, owed>>

SuspendDone ==
  /\ PmStep("gating", "gated")
  /\ thread = "idle"
  /\ UNCHANGED <<hw, sub, hold, work, abort, suspended, life, thread, pending,
                 owed, stray>>

(* The rest of the system: the I2C ancestors go down, suspend_device_irqs()
   stops the handlers and waits for them; a pending wakeup, or any failure,
   turns back.                                                              *)
PmRest ==
  /\ UNCHANGED <<hw, sub, hold, work, suspended, life, thread, pending, owed,
                 stray>>
  /\ \/ PmStep("gated", "busDown") /\ ~abort /\ UNCHANGED abort
     \/ PmStep("busDown", "asleep") /\ ~abort /\ thread = "idle" /\ UNCHANGED abort
     \/ PmStep("gated", "busBack") /\ UNCHANGED abort
     \/ PmStep("busDown", "waking") /\ UNCHANGED abort
     \/ PmStep("asleep", "waking") /\ UNCHANGED abort
     \/ PmStep("waking", "busBack") /\ UNCHANGED abort

(* The armed line of a sleeping system wakes it.                            *)
WakeByEvent ==
  /\ Asserted /\ depth = 0 /\ wakeRefs # {}
  /\ PmStep("asleep", "waking")
  /\ abort' = TRUE
  /\ UNCHANGED <<hw, sub, hold, work, suspended, life, thread, pending, owed,
                 stray>>

(* Mutant of Resume: the line held behind the gate is not released.        *)
ResumeKeepsHeld ==
  /\ PmStep("busBack", "awake")
  /\ suspended' = FALSE
  /\ retries' = 0
  /\ EventSync(enabled)
  /\ UNCHANGED <<latched, sub, held, depth, burst, work, abort, life, thread,
                 pending, owed>>

(* apple_pmic_gpio_resume()                                                 *)
Resume ==
  /\ PmStep("busBack", "awake")
  /\ suspended' = FALSE
  /\ retries' = 0
  /\ EventSync(enabled)
  /\ IF held THEN Release ELSE UNCHANGED <<held, depth>>
  /\ UNCHANGED <<latched, sub, burst, work, abort, life, thread, pending, owed>>

PmNext ==
  \/ SuspendCancel \/ SuspendGate \/ SuspendDone \/ PmRest \/ WakeByEvent
  \/ Resume

-----------------------------------------------------------------------------
(* Unbind, which the driver core never runs during a suspend:
   apple_pmic_event_stop() is three steps, then the devm actions remove the
   domain and restore the firmware's mask.                                  *)
BindStep(from, to) == bind = from /\ bind' = to

StopFlag ==
  /\ pm = "awake"
  /\ BindStep("bound", "stopping")
  /\ removing' = TRUE
  /\ UNCHANGED <<hw, sub, hold, work, system, thread, pending, owed, stray>>

StopCancel ==
  /\ BindStep("stopping", "cancelled")
  /\ CancelRetry
  /\ UNCHANGED <<hw, sub, hold, running, system, removing, thread, pending,
                 owed, stray>>

(* free_irq() shuts the line down, then returns once the handler has.       *)
StopShutdown ==
  /\ BindStep("cancelled", "freeing")
  /\ UNCHANGED <<hw, sub, hold, work, system, removing, thread, pending, owed,
                 stray>>

StopFree ==
  /\ BindStep("freeing", "freed")
  /\ thread = "idle"
  /\ UNCHANGED <<hw, sub, hold, work, system, removing, thread, pending, owed,
                 stray>>

StopRestore ==
  /\ BindStep("freed", "unbound")
  /\ mask' = BootMask
  /\ enabled' = {} /\ wake' = {} /\ wakeRefs' = {}
  /\ owed' = {}
  /\ UNCHANGED <<latched, hold, work, system, removing, thread, pending, stray>>

(* apple_pmic_event_probe() on zeroed driver data: mask everything, drop the
   stale events, request the line.                                          *)
Probe ==
  /\ BindStep("unbound", "bound")
  /\ latched' = {}
  /\ mask' = Events
  /\ held' = FALSE /\ depth' = 0 /\ retries' = 0 /\ burst' = 0
  /\ removing' = FALSE
  /\ UNCHANGED <<sub, work, system, thread, pending, owed, stray>>

BindNext ==
  \/ StopFlag \/ StopCancel \/ StopShutdown \/ StopFree \/ StopRestore
  \/ Probe

-----------------------------------------------------------------------------
Init ==
  /\ latched = {} /\ mask = BootMask
  /\ enabled = {} /\ wake = {} /\ wakeRefs = {}
  /\ held = FALSE /\ depth = 0 /\ retries = 0 /\ burst = 0
  /\ queued = FALSE /\ running = FALSE
  /\ pm = "awake" /\ abort = FALSE /\ suspended = FALSE
  /\ removing = FALSE /\ bind = "unbound"
  /\ thread = "idle" /\ pending = {}
  /\ owed = {} /\ stray = FALSE

ConsumerNext ==
  \/ \E i \in Irqs : IrqUnmask(i) \/ IrqMask(i)
  \/ \E e \in WakeCapable : IrqSetWake(e) \/ ParentWake(e)

Next ==
  \/ \E e \in Events : Raise(e)
  \/ Fire \/ ThreadNext
  \/ RetryExpires \/ RetryRuns
  \/ ConsumerNext \/ PmNext \/ BindNext

Spec == Init /\ [][Next]_vars

(* The scheduler runs what is runnable: the handler of an asserted line, the
   steps of the thread, and the delayed work.                               *)
FairSpec ==
  /\ Spec
  /\ WF_vars(Fire) /\ WF_vars(ThreadNext)
  /\ WF_vars(RetryExpires) /\ WF_vars(RetryRuns)
  /\ WF_vars(SuspendDone)

-----------------------------------------------------------------------------
TypeOK ==
  /\ latched \subseteq Events /\ mask \subseteq Events
  /\ enabled \subseteq Irqs
  /\ wake \subseteq WakeCapable /\ wakeRefs \subseteq WakeCapable
  /\ held \in BOOLEAN /\ depth \in Nat
  /\ retries \in 0 .. MaxRetries /\ burst \in 0 .. MaxBurst + 1
  /\ queued \in BOOLEAN /\ running \in BOOLEAN
  /\ pm \in {"awake", "cancelled", "gating", "gated", "busDown", "asleep",
             "waking", "busBack"}
  /\ abort \in BOOLEAN /\ suspended \in BOOLEAN /\ removing \in BOOLEAN
  /\ bind \in {"unbound", "bound", "stopping", "cancelled", "freeing", "freed"}
  /\ thread \in {"idle", "entry", "line", "read", "dispatch"}
  /\ pending \subseteq Events /\ owed \subseteq Events
  /\ stray \in BOOLEAN

(* Neither a late handler, nor a retry, nor a consumer, nor the driver's own
   callbacks use the I2C bus while its controller is suspended.             *)
NoStrayBusAccess == ~stray

(* The parent interrupt is disabled once while the line is held and enabled
   otherwise, whoever held it and whoever released it.                      *)
DepthBalanced == (held => depth = 1) /\ (~held => depth = 0)

(* A line held while the system is awake is always about to be released by
   the retry work, or has used up its retries and waits for a resume.       *)
HeldIsReleased ==
  held /\ pm = "awake" /\ ~removing => queued \/ running \/ retries = MaxRetries

(* Once free_irq() has returned nothing of the driver will run again: no
   retry is queued or running, and the handler is out.                      *)
QuietAfterStop ==
  bind \in {"freed", "unbound"} => ~queued /\ ~running /\ thread = "idle"

(* An event raised while its consumer listens is not lost to the
   read-to-clear block, to a failed read, to a storm or to a suspend: until
   the consumer's handler runs or the consumer masks it, it is still latched
   or in the handler's bitmap.                                              *)
NoEventLost == owed \subseteq latched \cup pending

(* What the comments of the driver promise of a wake event that pulls the
   line while the system sleeps: the armed interrupt wakes it.              *)
WakeEventWakes ==
  pm = "asleep" /\ (latched \cap wake \cap wakeRefs) \ mask # {} => depth = 0

(* suspend() always gets past its wait for the event thread: a line asserted
   behind the closed gate does not keep the handler starting again.         *)
SuspendCompletes == pm = "gating" ~> pm # "gating"

(* While the system stays awake and the device bound, every event raised for
   a consumer is handled or masked, unless the retries are used up.         *)
Exhausted == held /\ ~queued /\ ~running /\ retries = MaxRetries

EventsHandled ==
  \A e \in Events :
    <>[](pm = "awake" /\ bind = "bound") => (e \in owed ~> (e \notin owed \/ e \in mask \/ Exhausted))

=============================================================================
