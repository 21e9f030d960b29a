----------------------------- MODULE ChargerAdc -----------------------------
(***************************************************************************)
(* j81_d2207_adc_read() of the charger driver (patch 0099): a bounded      *)
(* measurement with the PMIC's one converter, polled in a read-to-clear    *)
(* event register, called by any thread that reads the charger's           *)
(* properties.  A step is one register access over I2C, which may fail.    *)
(*                                                                         *)
(* A conversion is known by the serial number of the start that began it,  *)
(* and the control register by the channel it starts, or Rest.  What the   *)
(* converter does is external: a write of the control register ends the    *)
(* conversion that runs, and one that nobody ends may complete or not.     *)
(* The second control register 0x0501, which no step moves, and the bits   *)
(* of the sample are left out.                                             *)
(***************************************************************************)
EXTENDS Naturals

CONSTANTS Threads,
          Channels,  \* what J81_D2207_ADC_VBUS_CURRENT and _VOLTAGE stand for
          Current,   \* the one of them whose result has a status bit
          Fails,     \* kinds of access that can fail: "read", "ctrl", "mask"
          BootMask,  \* the firmware left the event masked
          MaxCalls,  \* bound: calls
          MaxFaults  \* bound: failing accesses

ASSUME AdcAssumption ==
  /\ Current \in Channels /\ "rest" \notin Channels /\ "rest" \notin Threads
  /\ Fails \subseteq {"read", "ctrl", "mask"}
  /\ BootMask \in BOOLEAN /\ MaxCalls \in Nat /\ MaxFaults \in Nat

Rest == "rest"
None == 0

VARIABLES ctrl, mask,      \* the registers 0x0500 and 0x007b (TRUE: event masked)
          event, result,   \* the registers 0x005b and 0x0502
          conv,            \* the conversion that runs, or None
          starts,          \* history: conversions started
          lock,            \* adc_lock: its owner, or Rest
          pc, channel,     \* of each thread
          sctrl, smask,    \* ctrl and mask, as saved
          own,             \* history: the conversion this call started
          late,            \* its deadline has passed
          ret, raw,        \* its error, and what it returns
          calls, faults,
          failed           \* history: the kinds of access that failed

device == <<ctrl, mask, event, result, conv, starts>>
locals == <<channel, sctrl, smask, own, late, ret, raw>>
adcVars == <<device, lock, pc, locals, calls, faults, failed>>

AdcInit == /\ ctrl = Rest /\ mask = BootMask /\ event = FALSE /\ result = None
           /\ conv = None /\ starts = 0 /\ lock = Rest
           /\ pc = [t \in Threads |-> "idle"] /\ channel = [t \in Threads |-> Current]
           /\ sctrl = [t \in Threads |-> Rest] /\ smask = [t \in Threads |-> FALSE]
           /\ own = [t \in Threads |-> None] /\ late = [t \in Threads |-> FALSE]
           /\ ret = [t \in Threads |-> "ok"] /\ raw = [t \in Threads |-> None]
           /\ calls = 0 /\ faults = 0 /\ failed = {}

-----------------------------------------------------------------------------
(* The converter.                                                          *)

\* What a write of v to the control register does.
Control(v) == /\ ctrl' = v
              /\ IF v = Rest THEN conv' = None /\ UNCHANGED starts
                             ELSE conv' = starts + 1 /\ starts' = starts + 1

Converted == /\ conv # None
             /\ conv' = None /\ result' = conv /\ event' = TRUE
             /\ UNCHANGED <<ctrl, mask, starts, lock, pc, locals, calls, faults, failed>>

-----------------------------------------------------------------------------
(* j81_d2207_adc_read().                                                   *)

Proceed(t, there) == pc' = [pc EXCEPT ![t] = there]

Call(t, c) == /\ pc[t] = "idle" /\ calls < MaxCalls /\ calls' = calls + 1
              /\ channel' = [channel EXCEPT ![t] = c]
              /\ own' = [own EXCEPT ![t] = None] /\ late' = [late EXCEPT ![t] = FALSE]
              /\ ret' = [ret EXCEPT ![t] = "ok"] /\ raw' = [raw EXCEPT ![t] = None]
              /\ Proceed(t, "lock")
              /\ UNCHANGED <<device, lock, sctrl, smask, faults, failed>>

Lock(t) == /\ pc[t] = "lock" /\ lock = Rest
           /\ lock' = t /\ Proceed(t, "save_ctrl")
           /\ UNCHANGED <<device, locals, calls, faults, failed>>

\* An access of kind k fails.
Fault(k) == /\ k \in Fails /\ faults < MaxFaults /\ faults' = faults + 1
            /\ failed' = failed \cup {k}

Error(t) == ret' = [ret EXCEPT ![t] = IF ret[t] = "ok" THEN "error" ELSE ret[t]]

Save(t) == \/ /\ pc[t] = "save_ctrl" /\ Proceed(t, "save_mask")
              /\ sctrl' = [sctrl EXCEPT ![t] = ctrl]
              /\ UNCHANGED <<device, lock, channel, smask, own, late, ret, raw, calls, faults, failed>>
           \/ /\ pc[t] = "save_mask" /\ Proceed(t, "discard")
              /\ smask' = [smask EXCEPT ![t] = mask]
              /\ UNCHANGED <<device, lock, channel, sctrl, own, late, ret, raw, calls, faults, failed>>

\* Nothing has been changed yet.
SaveFails(t) == /\ pc[t] \in {"save_ctrl", "save_mask"} /\ Fault("read")
                /\ Error(t) /\ Proceed(t, "unlock")
                /\ UNCHANGED <<device, lock, channel, sctrl, smask, own, late, raw, calls>>

\* Mutant: a completion that is already latched is kept.
DiscardNothing(t) == /\ pc[t] = "discard"
                     /\ Proceed(t, IF smask[t] THEN "unmask" ELSE "start")
                     /\ UNCHANGED <<device, lock, locals, calls, faults, failed>>

\* The read clears the event.
Discard(t) == /\ pc[t] = "discard"
              /\ event' = FALSE
              /\ Proceed(t, IF smask[t] THEN "unmask" ELSE "start")
              /\ UNCHANGED <<ctrl, mask, result, conv, starts, lock, locals, calls, faults, failed>>

Unmask(t) == /\ pc[t] = "unmask" /\ Proceed(t, "start")
             /\ mask' = FALSE
             /\ UNCHANGED <<ctrl, event, result, conv, starts, lock, locals, calls, faults, failed>>

Start(t) == /\ pc[t] = "start" /\ Proceed(t, "poll")
            /\ Control(channel[t])
            /\ own' = [own EXCEPT ![t] = starts + 1]
            /\ UNCHANGED <<mask, event, result, lock, channel, sctrl, smask, late, ret, raw,
                           calls, faults, failed>>

\* Mutant: the deadline ends the poll only when the register cannot be read.
PollForEver(t) == /\ pc[t] = "poll"
                  /\ event' = FALSE
                  /\ Proceed(t, IF event THEN "result" ELSE "poll")
                  /\ UNCHANGED <<ctrl, mask, result, conv, starts, lock, locals, calls, faults, failed>>

\* One turn: the event is read before the clock is looked at.
PollEvent(t) == /\ pc[t] = "poll"
                /\ event' = FALSE
                /\ Proceed(t, IF event THEN "result" ELSE IF late[t] THEN "restore_ctrl" ELSE "poll")
                /\ ret' = [ret EXCEPT ![t] = IF ~event /\ late[t] THEN "timeout" ELSE @]
                /\ UNCHANGED <<ctrl, mask, result, conv, starts, lock, channel, sctrl, smask, own,
                               late, raw, calls, faults, failed>>

Deadline(t) == /\ pc[t] = "poll" /\ ~late[t]
               /\ late' = [late EXCEPT ![t] = TRUE]
               /\ UNCHANGED <<device, lock, pc, channel, sctrl, smask, own, ret, raw,
                              calls, faults, failed>>

\* Bit 7 of a current's first byte turns the sample down.
Result(t, good) == /\ pc[t] = "result" /\ Proceed(t, "restore_ctrl")
                   /\ good \/ channel[t] = Current
                   /\ IF good THEN raw' = [raw EXCEPT ![t] = result] /\ UNCHANGED ret
                              ELSE Error(t) /\ UNCHANGED raw
                   /\ UNCHANGED <<device, lock, channel, sctrl, smask, own, late, calls, faults, failed>>

\* A failed read of the event register may have cleared it.
ReadFails(t) == /\ pc[t] \in {"discard", "poll", "result"} /\ Fault("read")
                /\ IF pc[t] = "result" THEN UNCHANGED event ELSE event' \in {event, FALSE}
                /\ Error(t) /\ Proceed(t, "restore_ctrl")
                /\ UNCHANGED <<ctrl, mask, result, conv, starts, lock, channel, sctrl, smask, own,
                               late, raw, calls>>

\* A failed write may have reached the register.
UnmaskFails(t) == /\ pc[t] = "unmask" /\ Fault("mask")
                  /\ mask' \in {mask, FALSE}
                  /\ Error(t) /\ Proceed(t, "restore_ctrl")
                  /\ UNCHANGED <<ctrl, event, result, conv, starts, lock, channel, sctrl, smask, own,
                                 late, raw, calls>>

StartFails(t) == /\ pc[t] = "start" /\ Fault("ctrl")
                 /\ Control(channel[t]) \/ UNCHANGED <<ctrl, conv, starts>>
                 /\ Error(t) /\ Proceed(t, "restore_ctrl")
                 /\ UNCHANGED <<mask, event, result, lock, channel, sctrl, smask, own, late, raw,
                                calls>>

\* Mutant: a timeout leaves the registers as they are.
RestoreUnlessLate(t) ==
  /\ pc[t] = "restore_ctrl"
  /\ IF ret[t] = "timeout"
     THEN Proceed(t, "unlock") /\ UNCHANGED <<ctrl, conv, starts>>
     ELSE Control(sctrl[t]) /\ Proceed(t, IF smask[t] THEN "restore_mask" ELSE "unlock")
  /\ UNCHANGED <<mask, event, result, lock, locals, calls, faults, failed>>

\* The cleanup: the saved control byte; 0x0501 has not moved; the mask.
RestoreCtrl(t) ==
  /\ pc[t] = "restore_ctrl"
  /\ Control(sctrl[t])
  /\ Proceed(t, IF smask[t] THEN "restore_mask" ELSE "unlock")
  /\ UNCHANGED <<mask, event, result, lock, locals, calls, faults, failed>>

RestoreMask(t) == /\ pc[t] = "restore_mask" /\ Proceed(t, "unlock")
                  /\ mask' = TRUE
                  /\ UNCHANGED <<ctrl, event, result, conv, starts, lock, locals, calls, faults, failed>>

\* When the control byte cannot be written the mask is not restored either.
RestoreCtrlFails(t) ==
  /\ pc[t] = "restore_ctrl" /\ Fault("ctrl")
  /\ Control(sctrl[t]) \/ UNCHANGED <<ctrl, conv, starts>>
  /\ Error(t) /\ Proceed(t, "unlock")
  /\ UNCHANGED <<mask, event, result, lock, channel, sctrl, smask, own, late, raw, calls>>

RestoreMaskFails(t) == /\ pc[t] = "restore_mask" /\ Fault("mask")
                       /\ mask' \in {mask, TRUE}
                       /\ Error(t) /\ Proceed(t, "unlock")
                       /\ UNCHANGED <<ctrl, event, result, conv, starts, lock, channel, sctrl, smask,
                                      own, late, raw, calls>>

Unlock(t) == /\ pc[t] = "unlock" /\ lock' = Rest /\ Proceed(t, "idle")
             /\ UNCHANGED <<device, locals, calls, faults, failed>>

\* What the call does by itself.
Work(t) == \/ Lock(t) \/ Save(t) \/ Discard(t) \/ Unmask(t) \/ Start(t) \/ PollEvent(t)
           \/ \E good \in BOOLEAN : Result(t, good)
           \/ RestoreCtrl(t) \/ RestoreMask(t) \/ Unlock(t)

AccessFails(t) == \/ SaveFails(t) \/ ReadFails(t) \/ UnmaskFails(t) \/ StartFails(t)
                  \/ RestoreCtrlFails(t) \/ RestoreMaskFails(t)

AdcNext == \/ Converted
           \/ \E t \in Threads : \/ \E c \in Channels : Call(t, c)
                                 \/ Work(t) \/ Deadline(t) \/ AccessFails(t)

AdcSpec == AdcInit /\ [][AdcNext]_adcVars

\* Threads run, time passes, and the mutex is fair.
AdcFairSpec == /\ AdcSpec
               /\ \A t \in Threads : /\ WF_adcVars(Work(t) \/ AccessFails(t)) /\ WF_adcVars(Deadline(t))
                                     /\ SF_adcVars(Lock(t))

-----------------------------------------------------------------------------
(* Properties.                                                             *)

AdcTypeOK ==
  /\ ctrl \in Channels \cup {Rest} /\ mask \in BOOLEAN /\ event \in BOOLEAN
  /\ starts \in Nat /\ result \in 0..starts /\ conv \in 0..starts
  /\ lock \in Threads \cup {Rest}
  /\ pc \in [Threads -> {"idle", "lock", "save_ctrl", "save_mask", "discard", "unmask", "start",
                         "poll", "result", "restore_ctrl", "restore_mask", "unlock"}]
  /\ channel \in [Threads -> Channels] /\ sctrl \in [Threads -> Channels \cup {Rest}]
  /\ smask \in [Threads -> BOOLEAN] /\ late \in [Threads -> BOOLEAN]
  /\ own \in [Threads -> 0..starts] /\ raw \in [Threads -> 0..starts]
  /\ ret \in [Threads -> {"ok", "error", "timeout"}]
  /\ calls \in 0..MaxCalls /\ faults \in 0..MaxFaults /\ failed \subseteq Fails

\* A measurement is of the channel asked for and was begun by the call that
\* returns it: the completion of a conversion that timed out, or of another
\* thread's, is never taken for it.  (When the write that ends a conversion
\* fails, the next call can take its completion, after its own discard.)
SampleIsOwn == "ctrl" \notin failed => \A t \in Threads : raw[t] # None => raw[t] = own[t]

\* Whenever nobody measures, the converter's registers are as the firmware
\* left them, after timeouts, rejected samples and failing reads too.
Restored == lock = Rest /\ failed \subseteq {"read"} => ctrl = Rest /\ mask = BootMask

\* "The control registers are saved and restored exactly, on success and on
\* every error path": the mask too, as long as its own writes succeed.
MaskRestored == lock = Rest /\ "mask" \notin failed => mask = BootMask

\* Every call returns, also when the converter never answers.
CallsReturn == \A t \in Threads : (pc[t] # "idle") ~> (pc[t] = "idle")
=============================================================================
