------------------------------- MODULE HdqUart ------------------------------
(***************************************************************************)
(* The HDQ byte transport of bq27xxx_battery_hdq_uart.c (patch 0004): one  *)
(* wire carries a break, the encoded command, its own echo and the gauge's *)
(* response; every bit is one UART byte.  Threads serialise on xfer_lock   *)
(* and sleep on rx_done; the tty layer calls receive_buf, which appends to *)
(* a buffer on the stack of the thread that armed it.                      *)
(*                                                                         *)
(* One step of the tty layer is one received byte, whatever the chunk it   *)
(* came in: rx_lock is held for a chunk, so a chunk is a run of such steps.*)
(***************************************************************************)
EXTENDS Integers, Sequences

CONSTANTS Callers,    \* threads
          NoCaller,   \* no thread
          L,          \* UART bytes per HDQ byte (8 in the code)
          Addrs,      \* addresses in use: [1..(L - 1) -> {0, 1}]
          Values,     \* register contents in use: [1..L -> {0, 1}]
          Highs,      \* UART bytes as which the gauge's 1 pulses arrive
          Lows,       \* UART bytes as which the gauge's 0 pulses arrive
          Noise,      \* UART bytes the line makes before the echo
          MaxFaults,  \* faults of the line and the gauge, per transaction
          MaxNoise,   \* noise bytes before the echo, per transaction
          MaxTrail    \* stray bytes after the response, and the faults before them

Byte == 0..255
Bit  == {0, 1}

One == 254            \* HDQ_UART_ONE
Zero == 192           \* HDQ_UART_ZERO
OneMin == 240         \* HDQ_UART_ONE_MIN

ASSUME LengthAssumption == L \in Nat /\ L >= 2
ASSUME CallerAssumption == NoCaller \notin Callers
ASSUME WordAssumption == /\ Addrs \subseteq [1..(L - 1) -> Bit]
                         /\ Values \subseteq [1..L -> Bit]
                         /\ Addrs # {} /\ Values # {}
ASSUME PulseAssumption == /\ Highs \subseteq OneMin..255
                          /\ Lows \subseteq 0..(OneMin - 1)
                          /\ Noise \subseteq Byte
ASSUME BoundAssumption ==
  MaxFaults \in Nat /\ MaxNoise \in Nat /\ MaxTrail \in Nat

VARIABLES reg,        \* the gauge's registers
          gauge,      \* "deaf", "listening" to a command, or "heard" it
          frame,      \* what this transaction puts on the line, echo first
          next,       \* the first byte of frame not yet received or lost
          faults,     \* bytes of this transaction disturbed or lost
          noise,      \* noise bytes received before its echo
          trail,      \* stray bytes received after its response
          lock,       \* holder of xfer_lock
          pc,         \* where each thread is
          op,         \* the request each thread makes
          code,       \* ret of each thread: "none", "ok" or an error
          val,        \* *val of each thread's last successful read
          rx,         \* rx_buf[0 .. rx_count - 1]
          rxOwner,    \* the thread whose stack rx_buf points into
          rxWant,     \* rx_want
          done,       \* rx_done.done
          answer      \* history: what the gauge answered to each request

gaugeVars == <<reg, gauge, answer>>
lineVars  == <<frame, next, faults, noise, trail>>
callVars  == <<lock, pc, op, code, val>>
rxVars    == <<rx, rxOwner, rxWant, done>>
vars == <<gaugeVars, lineVars, callVars, rxVars>>

-----------------------------------------------------------------------------
(* Words and their encoding.                                               *)

Encode(w) == [i \in 1..L |-> IF w[i] = 1 THEN One ELSE Zero]
\* Mutant: only an undistorted level is a one.
DecodeExact(s) == [i \in 1..L |-> IF s[i] = One THEN 1 ELSE 0]

Decode(s) == [i \in 1..L |-> IF s[i] >= OneMin THEN 1 ELSE 0]

\* The command byte: the register, then HDQ_CMD_READ or HDQ_CMD_WRITE.
Cmd(r) == [i \in 1..L |-> IF i < L THEN r.addr[i]
                          ELSE IF r.kind = "write" THEN 1 ELSE 0]

\* The bytes a request sends, and the number of bytes it then waits for.
Tx(r) == IF r.kind = "write" THEN Encode(Cmd(r)) \o Encode(r.value)
                             ELSE Encode(Cmd(r))
Want(r) == Len(Tx(r)) + (IF r.kind = "read" THEN L ELSE 0)

\* The gauge's pulses for a word, as the UART may frame them.
Pulses(w) == {s \in [1..L -> Highs \cup Lows] :
                \A i \in 1..L : s[i] \in (IF w[i] = 1 THEN Highs ELSE Lows)}

Phase == [c \in Callers |-> IF pc[c] = "idle" THEN "idle"
                            ELSE IF answer[c].st = "none" THEN "called"
                            ELSE "served"]

\* What a call returned, in the terms of HdqBus.
Returned(c) == IF pc[c] # "idle" \/ code[c] = "none" THEN [st |-> "none"]
               ELSE IF code[c] # "ok" THEN [st |-> "error"]
               ELSE IF op[c].kind = "read" THEN [st |-> "read", value |-> val[c]]
               ELSE [st |-> "wrote"]

Bus == INSTANCE HdqBus WITH phase <- Phase,
                            ret <- [c \in Callers |-> Returned(c)]

Init == /\ reg \in [Addrs -> Values]
        /\ gauge = "deaf"
        /\ frame = << >> /\ next = 1 /\ faults = 0 /\ noise = 0 /\ trail = 0
        /\ lock = NoCaller
        /\ pc = [c \in Callers |-> "idle"]
        /\ op = [c \in Callers |-> CHOOSE r \in Bus!Requests : TRUE]
        /\ code = [c \in Callers |-> "none"]
        /\ val = [c \in Callers |-> CHOOSE v \in Values : TRUE]
        /\ rx = << >> /\ rxOwner = NoCaller /\ rxWant = 0 /\ done = 0
        /\ answer = [c \in Callers |-> Bus!Nothing]

-----------------------------------------------------------------------------
(* hdq_uart_receive_buf(), for one byte b.                                 *)

\* Ignored: nothing is armed, or the byte is not the next one of the echo.
Ignored(b) == \/ rxWant = 0
              \/ Len(rx) < L /\ b # Tx(op[rxOwner])[Len(rx) + 1]

\* Mutant: a byte that does not match starts the match anew.
ReceiveRestarts(b) ==
  /\ IF Ignored(b)
     THEN rx' = << >> /\ UNCHANGED done
     ELSE /\ rx' = IF Len(rx) < rxWant THEN Append(rx, b) ELSE rx
          /\ done' = IF Len(rx') >= rxWant THEN done + 1 ELSE done
  /\ UNCHANGED <<rxOwner, rxWant>>

Receive(b) ==
  /\ IF Ignored(b)
     THEN UNCHANGED <<rx, done>>
     ELSE /\ rx' = IF Len(rx) < rxWant THEN Append(rx, b) ELSE rx
          /\ done' = IF Len(rx') >= rxWant THEN done + 1 ELSE done
  /\ UNCHANGED <<rxOwner, rxWant>>

-----------------------------------------------------------------------------
(* The line and the gauge.                                                 *)

\* The break's residue and glitches reach the receiver before the echo does.
LineNoise == /\ rxWant > 0 /\ next <= L /\ noise < MaxNoise
             /\ noise' = noise + 1
             /\ \E b \in Noise : Receive(b)
             /\ UNCHANGED <<gaugeVars, frame, next, faults, trail, callVars>>

\* The next byte of the frame is received.  A gauge hears a written byte on
\* the line before the tty layer hands its echo over.
Deliver == /\ next <= Len(frame)
           /\ next = 2 * L => gauge # "listening"
           /\ Receive(frame[next])
           /\ next' = next + 1
           /\ UNCHANGED <<gaugeVars, frame, faults, noise, trail, callVars>>

\* The next byte of the frame is lost ("matched 15/16 bytes").
Lose == /\ next <= Len(frame) /\ faults < MaxFaults
        /\ next = 2 * L => gauge # "listening"
        /\ next' = next + 1 /\ faults' = faults + 1
        /\ UNCHANGED <<gaugeVars, frame, noise, trail, callVars, rxVars>>

\* A stray byte follows the response.  MaxTrail bounds these bytes and the
\* faults before them in the transaction.
TrailingByte == /\ gauge = "heard" /\ next = Len(frame) + 1
                /\ trail + faults < MaxTrail
                /\ Receive(One)
                /\ trail' = trail + 1
                /\ UNCHANGED <<gaugeVars, frame, next, faults, noise, callVars>>

\* A command that was disturbed on the line may address any register.
Heard(r) == IF SubSeq(frame, 1, L) = Encode(Cmd(r)) THEN {r.addr} ELSE Addrs

\* The gauge answers a read once it has the whole command.
GaugeAnswers(c, a, s) ==
  /\ gauge = "listening" /\ lock = c /\ op[c].kind = "read"
  /\ Len(frame) = L /\ next = L + 1
  /\ a \in Heard(op[c]) /\ s \in Pulses(reg[a])
  /\ frame' = frame \o s
  /\ gauge' = "heard"
  /\ answer' = IF a = op[c].addr
               THEN [answer EXCEPT ![c] = Bus!Read(reg[a])] ELSE answer
  /\ UNCHANGED <<reg, next, faults, noise, trail, callVars, rxVars>>

\* The gauge stores a write as it came over the line.
GaugeStores(c, a, v) ==
  /\ gauge = "listening" /\ lock = c /\ op[c].kind = "write" /\ next = 2 * L
  /\ a \in Heard(op[c]) /\ v = Decode(SubSeq(frame, L + 1, 2 * L))
  /\ v \in Values
  /\ reg' = [reg EXCEPT ![a] = v]
  /\ gauge' = "heard"
  /\ answer' = IF a = op[c].addr /\ v = op[c].value
               THEN [answer EXCEPT ![c] = Bus!Wrote] ELSE answer
  /\ UNCHANGED <<lineVars, callVars, rxVars>>

\* The gauge does not answer: a fault of its own, or of the line before it.
GaugeDeaf == /\ gauge = "listening" /\ gauge' = "deaf"
             /\ \/ faults < MaxFaults /\ faults' = faults + 1
                \/ faults > 0 /\ UNCHANGED faults
             /\ UNCHANGED <<reg, answer, frame, next, noise, trail, callVars, rxVars>>

\* The gauge updates its registers by itself, the two of a word at once.
Tick(r) == /\ reg' = r
           /\ UNCHANGED <<gauge, answer, lineVars, callVars, rxVars>>

\* No byte is on its way: the 500 ms of a wait and the break before the next
\* command are much longer than the 5 ms a frame takes.
Quiet == next = Len(frame) + 1 /\ gauge # "listening"

-----------------------------------------------------------------------------
(* hdq_read_byte() and hdq_write_byte(), and hdq_transact() under them.    *)

Goto(c, there) == pc' = [pc EXCEPT ![c] = there]

Call(c, r) == /\ pc[c] = "idle"
              /\ Goto(c, "lock")
              /\ op' = [op EXCEPT ![c] = r]
              /\ code' = [code EXCEPT ![c] = "none"]
              /\ answer' = [answer EXCEPT ![c] = Bus!Nothing]
              /\ UNCHANGED <<reg, gauge, lineVars, lock, val, rxVars>>

LockXfer(c) == /\ pc[c] = "lock" /\ lock = NoCaller
               /\ lock' = c
               /\ Goto(c, "break")
               /\ UNCHANGED <<gaugeVars, lineVars, op, code, val, rxVars>>

Break(c) == /\ pc[c] = "break" /\ Quiet
            /\ Goto(c, "arm")
            /\ UNCHANGED <<gaugeVars, lineVars, lock, op, code, val, rxVars>>

BreakFails(c) == /\ pc[c] = "break"
                 /\ Goto(c, "unlock")
                 /\ code' = [code EXCEPT ![c] = "EIO"]
                 /\ UNCHANGED <<gaugeVars, lineVars, lock, op, val, rxVars>>

\* hdq_arm_receive(): the frame of the transaction starts here.
Arm(c) == /\ pc[c] = "arm"
          /\ Goto(c, "send")
          /\ rx' = << >> /\ rxOwner' = c /\ rxWant' = Want(op[c]) /\ done' = 0
          /\ frame' = << >> /\ next' = 1 /\ faults' = 0
          /\ noise' = 0 /\ trail' = 0
          /\ gauge' = "deaf"
          /\ UNCHANGED <<reg, answer, lock, op, code, val>>

\* What reaches the line: the bytes sent, or with one of them disturbed.
OnLine(r) == {[Tx(r) EXCEPT ![i] = b] : i \in 1..Len(Tx(r)), b \in Noise}

\* serdev_device_write() and serdev_device_wait_until_sent().
Send(c) == /\ pc[c] = "send"
           /\ Goto(c, "wait")
           /\ \/ frame' = Tx(op[c]) /\ UNCHANGED faults
              \/ /\ faults < MaxFaults /\ faults' = faults + 1
                 /\ frame' \in OnLine(op[c])
           /\ gauge' = "listening"
           /\ UNCHANGED <<reg, answer, next, noise, trail, lock, op, code, val, rxVars>>

\* The write stops after k bytes.
SendFails(c, k) == /\ pc[c] = "send" /\ k < Len(Tx(op[c]))
                   /\ Goto(c, "abort")
                   /\ code' = [code EXCEPT ![c] = "EIO"]
                   /\ frame' = SubSeq(Tx(op[c]), 1, k)
                   /\ gauge' = "deaf"
                   /\ UNCHANGED <<reg, answer, next, faults, noise, trail, lock, op, val, rxVars>>

DisarmReceive == rxOwner' = NoCaller /\ rxWant' = 0 /\ UNCHANGED <<rx, done>>

Abort(c) == /\ pc[c] = "abort"
            /\ Goto(c, "unlock")
            /\ DisarmReceive
            /\ UNCHANGED <<gaugeVars, lineVars, lock, op, code, val>>

\* wait_for_completion_timeout() returns, done or timed out ...
WaitDone(c) == /\ pc[c] = "wait" /\ done > 0
               /\ Goto(c, "disarm")
               /\ done' = done - 1
               /\ code' = [code EXCEPT ![c] = "ok"]
               /\ UNCHANGED <<gaugeVars, lineVars, lock, op, val, rx, rxOwner, rxWant>>

\* Mutant: the wait has no timeout.
WaitForever(c) == FALSE

WaitTimesOut(c) == /\ pc[c] = "wait" /\ done = 0 /\ Quiet
                   /\ Goto(c, "disarm")
                   /\ code' = [code EXCEPT ![c] = "ETIMEDOUT"]
                   /\ UNCHANGED <<gaugeVars, lineVars, lock, op, val, rxVars>>

\* Mutant: a timeout returns before the receiver is disarmed.
DisarmOnSuccess(c) ==
  /\ pc[c] = "disarm"
  /\ Goto(c, IF code[c] = "ok" THEN "check" ELSE "unlock")
  /\ IF code[c] = "ok" THEN DisarmReceive ELSE UNCHANGED rxVars
  /\ UNCHANGED <<gaugeVars, lineVars, lock, op, code, val>>

\* ... and hdq_wait_receive() disarms either way.
Disarm(c) == /\ pc[c] = "disarm"
             /\ Goto(c, IF code[c] = "ok" THEN "check" ELSE "unlock")
             /\ DisarmReceive
             /\ UNCHANGED <<gaugeVars, lineVars, lock, op, code, val>>

\* The memcmp() of the echo, and the copy of the response.
Check(c) ==
  LET r == op[c]
      n == Len(Tx(r)) IN
  /\ pc[c] = "check"
  /\ Goto(c, "unlock")
  /\ IF SubSeq(rx, 1, n) # Tx(r)
     THEN code' = [code EXCEPT ![c] = "EIO"] /\ UNCHANGED val
     ELSE /\ UNCHANGED code
          /\ val' = IF r.kind = "read"
                    THEN [val EXCEPT ![c] = Decode(SubSeq(rx, n + 1, n + L))]
                    ELSE val
  /\ UNCHANGED <<gaugeVars, lineVars, lock, op, rxVars>>

Unlock(c) == /\ pc[c] = "unlock"
             /\ lock' = NoCaller
             /\ Goto(c, "idle")
             /\ UNCHANGED <<gaugeVars, lineVars, op, code, val, rxVars>>

Transact(c) == \/ Break(c) \/ BreakFails(c) \/ Arm(c) \/ Send(c)
               \/ \E k \in 0..(2 * L) : SendFails(c, k)
               \/ Abort(c) \/ WaitDone(c) \/ WaitTimesOut(c) \/ Disarm(c)
               \/ Check(c) \/ Unlock(c)

Gauge == \/ \E c \in Callers, a \in Addrs :
              \/ \E s \in [1..L -> Highs \cup Lows] : GaugeAnswers(c, a, s)
              \/ \E v \in Values : GaugeStores(c, a, v)
         \/ GaugeDeaf

Line == LineNoise \/ Deliver \/ Lose \/ TrailingByte

Next == \/ \E c \in Callers : \/ \E r \in Bus!Requests : Call(c, r)
                              \/ LockXfer(c)
                              \/ Transact(c)
        \/ Gauge \/ Line
        \/ \E r \in [Addrs -> Values] : Tick(r)

Spec == Init /\ [][Next]_vars

\* The threads run, a mutex is handed on, the line and the gauge go on.
FairSpec == /\ Spec
            /\ \A c \in Callers : WF_vars(Transact(c)) /\ SF_vars(LockXfer(c))
            /\ WF_vars(Gauge) /\ WF_vars(Deliver)

-----------------------------------------------------------------------------
(* Properties.                                                             *)

PCs == {"idle", "lock", "break", "arm", "send", "abort", "wait", "disarm",
        "check", "unlock"}
Codes == {"none", "ok", "EIO", "ETIMEDOUT"}

TypeOK ==
  /\ reg \in [Addrs -> Values]
  /\ gauge \in {"deaf", "listening", "heard"}
  /\ frame \in Seq(Byte) /\ Len(frame) <= 2 * L
  /\ next \in 1..(2 * L + 1) /\ next <= Len(frame) + 1
  /\ faults \in 0..MaxFaults /\ noise \in 0..MaxNoise /\ trail \in 0..MaxTrail
  /\ lock \in Callers \cup {NoCaller}
  /\ pc \in [Callers -> PCs] /\ op \in [Callers -> Bus!Requests]
  /\ code \in [Callers -> Codes]
  /\ val \in [Callers -> [1..L -> Bit]]
  /\ rx \in Seq(Byte) /\ Len(rx) <= 2 * L
  /\ rxOwner \in Callers \cup {NoCaller} /\ rxWant \in {0, 2 * L}
  /\ done \in Nat
  /\ answer \in [Callers -> Bus!Results]

\* The receiver writes to a buffer on a thread's stack (rx in hdq_transact).
\* It is armed only while that thread holds xfer_lock and is still inside
\* the transaction: every way out, a failed write, a timeout that races the
\* last byte, a bad echo, disarms first.
StackBufferLive ==
  rxWant > 0 => /\ rxOwner \in Callers /\ lock = rxOwner
                /\ pc[rxOwner] \in {"send", "abort", "wait", "disarm"}

\* rx_done counts every byte past the last one (complete() is called again
\* for each), and a timeout can leave it set.  A thread whose wait succeeded
\* has a full buffer all the same: none of that reaches the next wait.
CompleteIsFull ==
  \A c \in Callers : pc[c] \in {"disarm", "check"} /\ code[c] = "ok"
                        => Len(rx) = Want(op[c])

\* Where the line loses and disturbs nothing, no transaction times out,
\* whatever non-level noise comes before the echo and however early the
\* echo arrives (the receiver is armed before the bytes are written).
NoFalseTimeout ==
  \A c \in Callers : pc[c] = "unlock" /\ code[c] = "ETIMEDOUT" => faults > 0

\* A transaction that reports success reports the gauge's answer to it: a
\* read returns the register it asked for, a write that was heard is stored
\* as asked, also when bytes were lost or disturbed.  (A stray byte after the
\* response can take the place of a lost one: the line does not do both.)
SuccessIsAnswered ==
  \A c \in Callers : pc[c] = "unlock" /\ code[c] = "ok" /\ (faults = 0 \/ trail = 0) =>
      /\ op[c].kind = "read" => answer[c] = Bus!Read(val[c])
      /\ op[c].kind = "write" /\ gauge = "heard" => answer[c] = Bus!Wrote

\* The byte transport implements HdqBus.
BusSpec == Bus!BusSpec

\* hdq_transact() always returns, and a thread waiting for the mutex gets
\* its turn: no lost byte leaves the gauge driver hanging.
CallsReturn == \A c \in Callers : pc[c] = "lock" ~> pc[c] = "idle"

=============================================================================
