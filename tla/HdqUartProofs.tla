--------------------------- MODULE HdqUartProofs ----------------------------
(***************************************************************************)
(* The safety properties of HdqUart for every word length, every set of    *)
(* threads and every number of faults, and that it implements HdqBus.      *)
(***************************************************************************)
EXTENDS HdqUart, SequenceTheorems, TLAPS

Holding == PCs \ {"idle", "lock"}
Armed   == {"send", "abort", "wait", "disarm"}
Sent    == {"wait", "disarm", "check"}

(* The mutex is held by the one thread that is inside hdq_transact().       *)
LockHeld == \A c \in Callers : pc[c] \in Holding <=> lock = c

(* From arm to disarm the receiver belongs to that thread.                  *)
ArmedOwner == \A c \in Callers : pc[c] \in Armed => rxOwner = c /\ rxWant = 2 * L

(* rx_done is set exactly by a full buffer, while it is being waited for.   *)
DoneMeansFull ==
  /\ rxWant > 0 /\ done > 0 => Len(rx) = 2 * L
  /\ \A c \in Callers : pc[c] \in {"send", "wait"} /\ Len(rx) = 2 * L => done > 0

(* Nothing of a transaction is on the line before it is written.            *)
SendStart ==
  \A c \in Callers : pc[c] = "send" => frame = << >> /\ gauge = "deaf" /\ faults = 0

(* What the wait returned decides where the thread goes.                    *)
WaitOutcome ==
  \A c \in Callers :
    /\ pc[c] = "check" => code[c] = "ok"
    /\ pc[c] = "abort" => code[c] = "EIO"
    /\ pc[c] = "unlock" => code[c] # "none"
    /\ pc[c] \in {"lock", "break", "arm", "send", "wait"} => code[c] = "none"
    /\ pc[c] = "disarm" => code[c] \in {"ok", "ETIMEDOUT"}
    /\ pc[c] \in {"disarm", "check"} /\ code[c] = "ok" => Len(rx) = 2 * L

RxInv == /\ TypeOK /\ LockHeld /\ StackBufferLive /\ ArmedOwner
         /\ DoneMeansFull /\ WaitOutcome /\ SendStart

-----------------------------------------------------------------------------
LEMMA WordsEqual ==
  ASSUME NEW f \in [1..L -> Bit], NEW g \in [1..L -> Bit], \A i \in 1..L : f[i] = g[i]
  PROVE  f = g
<1>1. f = [i \in 1..L |-> f[i]] /\ g = [i \in 1..L |-> g[i]]
  OBVIOUS
<1>2. [i \in 1..L |-> f[i]] = [i \in 1..L |-> g[i]]
  OBVIOUS
<1>3. QED
  BY <1>1, <1>2, Zenon

(* The second half of a frame, copied out.                                  *)
LEMMA SecondHalf ==
  ASSUME NEW s, \A i \in (L + 1)..(2 * L) : s[i] \in Byte
  PROVE  \A i \in 1..L : SubSeq(s, L + 1, 2 * L)[i] = s[L + i]
<1> DEFINE m == L + 1
           n == 2 * L
<1>1. m \in Int /\ n \in Int /\ n - m + 1 = L
  BY LengthAssumption
<1>2. \A i \in m..n : s[i] \in Byte
  OBVIOUS
<1> HIDE DEF m, n
<1>3. \A i \in 1..(n - m + 1) : SubSeq(s, m, n)[i] = s[m + i - 1]
  BY <1>1, <1>2, SubSeqProperties
<1>4. SUFFICES ASSUME NEW i \in 1..L PROVE SubSeq(s, m, n)[i] = s[L + i]
  BY DEF m, n
<1>5. m + i - 1 = L + i
  BY LengthAssumption DEF m
<1>6. QED
  BY <1>1, <1>3, <1>5

LEMMA LowIsZero ==
  ASSUME NEW x \in 0..(OneMin - 1)
  PROVE  ~(x >= OneMin)
BY DEF OneMin

(* What a request sends: level bytes, the command first.                    *)
LEMMA EncodeFacts ==
  ASSUME NEW w
  PROVE  /\ Encode(w) \in Seq({One, Zero}) /\ Len(Encode(w)) = L
         /\ \A i \in 1..L : Encode(w)[i] = IF w[i] = 1 THEN One ELSE Zero
<1>1. Encode(w) \in [1..L -> {One, Zero}]
  BY DEF Encode
<1>2. Encode(w) \in Seq({One, Zero})
  BY <1>1, SeqDef, LengthAssumption
<1>3. Len(Encode(w)) = L
  BY <1>1, <1>2, LenProperties, LengthAssumption
<1>4. QED
  BY <1>2, <1>3 DEF Encode

LEMMA TxFacts ==
  ASSUME NEW r \in Bus!Requests
  PROVE  /\ Tx(r) \in Seq({One, Zero}) /\ Tx(r) \in Seq(Byte)
         /\ r.kind \in {"read", "write"} /\ r.addr \in Addrs
         /\ r.kind = "read" => Len(Tx(r)) = L /\ Tx(r) = Encode(Cmd(r))
         /\ r.kind = "write" => /\ Len(Tx(r)) = 2 * L /\ r.value \in Values
                                /\ \A i \in 1..L : Tx(r)[L + i] = Encode(r.value)[i]
         /\ \A i \in 1..L : Tx(r)[i] = Encode(Cmd(r))[i]
         /\ Want(r) = 2 * L
<1>1. /\ r.kind \in {"read", "write"} /\ r.addr \in Addrs
      /\ r.kind = "write" => r.value \in Values
  BY DEF Bus!Requests
<1>2. CASE r.kind = "read"
  <2>1. Tx(r) = Encode(Cmd(r))
    BY <1>2 DEF Tx
  <2>2. Tx(r) \in Seq({One, Zero}) /\ Len(Tx(r)) = L
    BY <2>1, EncodeFacts
  <2>3. Tx(r) \in Seq(Byte)
    BY <2>2, SeqMonotonic DEF One, Zero, Byte
  <2>4. Want(r) = 2 * L
    BY <1>2, <2>2, LengthAssumption DEF Want
  <2>5. QED
    BY <1>1, <1>2, <2>1, <2>2, <2>3, <2>4
<1>3. CASE r.kind = "write"
  <2> DEFINE a == Encode(Cmd(r))
             b == Encode(r.value)
  <2>1. Tx(r) = a \o b
    BY <1>3 DEF Tx
  <2>2. /\ a \in Seq({One, Zero}) /\ Len(a) = L
        /\ b \in Seq({One, Zero}) /\ Len(b) = L
    BY EncodeFacts
  <2>3. /\ a \o b \in Seq({One, Zero}) /\ Len(a \o b) = Len(a) + Len(b)
        /\ \A i \in 1..(Len(a) + Len(b)) :
             (a \o b)[i] = IF i <= Len(a) THEN a[i] ELSE b[i - Len(a)]
    <3> HIDE DEF a, b
    <3> QED BY <2>2, ConcatProperties
  <2>4. /\ Tx(r) \in Seq({One, Zero}) /\ Len(Tx(r)) = 2 * L
        /\ \A i \in 1..L : Tx(r)[i] = a[i] /\ Tx(r)[L + i] = b[i]
    <3> HIDE DEF a, b
    <3> QED BY <2>1, <2>2, <2>3, LengthAssumption
  <2>5. Tx(r) \in Seq(Byte)
    BY <2>4, SeqMonotonic DEF One, Zero, Byte
  <2>6. Want(r) = 2 * L
    BY <1>3, <2>4, LengthAssumption DEF Want
  <2>7. QED
    BY <1>1, <1>3, <2>4, <2>5, <2>6
<1>4. QED
  BY <1>1, <1>2, <1>3

(* One byte in the receiver: the buffer never grows past its end, and it is
   full exactly when the completion is signalled.                           *)
LEMMA ReceiveFacts ==
  ASSUME TypeOK, DoneMeansFull, NEW b \in Byte, Receive(b)
  PROVE  /\ rx' \in Seq(Byte) /\ Len(rx') <= 2 * L
         /\ rxOwner' = rxOwner /\ rxWant' = rxWant
         /\ done' \in Nat /\ done' >= done
         /\ rxWant > 0 /\ done' > 0 => Len(rx') = 2 * L
         /\ Len(rx') = 2 * L => \/ done' > 0
                                \/ Len(rx) = 2 * L
         /\ Len(rx) = 2 * L => rx' = rx
         /\ rxWant = 0 => rx' = rx /\ done' = done
         /\ \/ rx' = rx
            \/ rx' = Append(rx, b)
<1>1. CASE Ignored(b)
  <2>1. rx' = rx /\ done' = done /\ rxOwner' = rxOwner /\ rxWant' = rxWant
    BY <1>1 DEF Receive
  <2>2. QED
    BY <2>1 DEF TypeOK, DoneMeansFull
<1>2. CASE ~Ignored(b) /\ Len(rx) < rxWant
  <2>1. rx' = Append(rx, b) /\ rxWant = 2 * L
    BY <1>2, LengthAssumption DEF Receive, TypeOK
  <2>2. rx' \in Seq(Byte) /\ Len(rx') = Len(rx) + 1
    BY <2>1, AppendProperties DEF TypeOK
  <2>3. Len(rx) \in Nat
    BY LenProperties DEF TypeOK
  <2>4. done = 0
    BY <1>2, <2>1, <2>3, LengthAssumption DEF DoneMeansFull, TypeOK
  <2>5. done' = IF Len(rx') >= rxWant THEN done + 1 ELSE done
    BY <1>2 DEF Receive
  <2>6. rxOwner' = rxOwner /\ rxWant' = rxWant
    BY DEF Receive
  <2>7. QED
    BY <1>2, <2>1, <2>2, <2>3, <2>4, <2>5, <2>6, LengthAssumption
<1>3. CASE ~Ignored(b) /\ ~(Len(rx) < rxWant)
  <2>1. rxWant = 2 * L
    BY <1>3 DEF Ignored, TypeOK
  <2>2. Len(rx) \in Nat
    BY LenProperties DEF TypeOK
  <2>3. Len(rx) = 2 * L
    BY <1>3, <2>1, <2>2, LengthAssumption DEF TypeOK
  <2>4. rx' = rx /\ rxOwner' = rxOwner /\ rxWant' = rxWant
    BY <1>3 DEF Receive
  <2>5. done' = done + 1
    BY <1>3, <2>1, <2>3, <2>4, LengthAssumption DEF Receive
  <2>6. QED
    <3>1. rx \in Seq(Byte) /\ done \in Nat /\ Len(rx) <= 2 * L
      BY DEF TypeOK
    <3>2. QED
      BY <2>1, <2>3, <2>4, <2>5, <3>1, LengthAssumption
<1>4. QED
  BY <1>1, <1>2, <1>3

(* A byte in the receiver, from the line, keeps the invariant.              *)
LEMMA ReceiveKeeps ==
  ASSUME RxInv, NEW b \in Byte, Receive(b), UNCHANGED callVars
  PROVE  /\ rx' \in Seq(Byte) /\ Len(rx') <= 2 * L /\ done' \in Nat
         /\ UNCHANGED <<rxOwner, rxWant>>
         /\ StackBufferLive' /\ ArmedOwner' /\ DoneMeansFull' /\ WaitOutcome'
<1> USE DEF RxInv
<1>1. /\ rx' \in Seq(Byte) /\ Len(rx') <= 2 * L
      /\ rxOwner' = rxOwner /\ rxWant' = rxWant
      /\ done' \in Nat /\ done' >= done
      /\ rxWant > 0 /\ done' > 0 => Len(rx') = 2 * L
      /\ Len(rx') = 2 * L => done' > 0 \/ Len(rx) = 2 * L
      /\ Len(rx) = 2 * L => rx' = rx
  BY ReceiveFacts
<1>2. pc' = pc /\ lock' = lock /\ code' = code /\ done \in Nat
  BY DEF callVars, TypeOK
<1>3. StackBufferLive' /\ ArmedOwner'
  BY <1>1, <1>2 DEF StackBufferLive, ArmedOwner
<1>4. DoneMeansFull'
  BY <1>1, <1>2 DEF DoneMeansFull
<1>5. WaitOutcome'
  BY <1>1, <1>2 DEF WaitOutcome
<1>6. QED
  BY <1>1, <1>3, <1>4, <1>5

(* The steps of the line and the gauge, and the ticks of a register.        *)
LEMMA LineKeeps ==
  ASSUME RxInv, Gauge \/ Line \/ (\E r \in [Addrs -> Values] : Tick(r))
  PROVE  RxInv'
<1> USE DEF RxInv
<1>1. ASSUME LineNoise PROVE RxInv'
  <2>1. PICK b \in Noise : Receive(b)
    BY <1>1 DEF LineNoise
  <2>2. b \in Byte
    BY PulseAssumption
  <2>3. UNCHANGED <<gaugeVars, frame, next, faults, trail, callVars>>
    BY <1>1 DEF LineNoise
  <2>4. UNCHANGED callVars
    BY <2>3
  <2>5. /\ rx' \in Seq(Byte) /\ Len(rx') <= 2 * L /\ done' \in Nat
        /\ UNCHANGED <<rxOwner, rxWant>>
        /\ StackBufferLive' /\ ArmedOwner' /\ DoneMeansFull' /\ WaitOutcome'
    BY <2>1, <2>2, <2>4, ReceiveKeeps
  <2>6. noise' \in 0..MaxNoise
    BY <1>1, BoundAssumption DEF LineNoise, TypeOK
  <2>7. TypeOK'
    BY <2>3, <2>5, <2>6 DEF TypeOK, gaugeVars, callVars
  <2>8. LockHeld' /\ SendStart'
    BY <2>3, <2>4 DEF LockHeld, SendStart, callVars, gaugeVars
  <2>9. QED
    BY <2>5, <2>7, <2>8
<1>2. ASSUME Deliver PROVE RxInv'
  <2>1. UNCHANGED <<gaugeVars, frame, faults, noise, trail, callVars>>
    BY <1>2 DEF Deliver
  <2>2. frame \in Seq(Byte) /\ Len(frame) \in Nat /\ next \in 1..Len(frame)
    BY <1>2, LenProperties DEF Deliver, TypeOK
  <2>3. frame[next] \in Byte /\ Receive(frame[next])
    BY <1>2, <2>2, ElementOfSeq DEF Deliver
  <2>4. UNCHANGED callVars
    BY <2>1
  <2>5. /\ rx' \in Seq(Byte) /\ Len(rx') <= 2 * L /\ done' \in Nat
        /\ UNCHANGED <<rxOwner, rxWant>>
        /\ StackBufferLive' /\ ArmedOwner' /\ DoneMeansFull' /\ WaitOutcome'
    BY <2>3, <2>4, ReceiveKeeps
  <2>6. next' \in 1..(2 * L + 1) /\ next' <= Len(frame) + 1
    BY <1>2, <2>2, LengthAssumption DEF Deliver, TypeOK
  <2>7. TypeOK'
    BY <2>1, <2>5, <2>6 DEF TypeOK, gaugeVars, callVars
  <2>8. LockHeld' /\ SendStart'
    BY <2>1, <2>4 DEF LockHeld, SendStart, callVars, gaugeVars
  <2>9. QED
    BY <2>5, <2>7, <2>8
<1>3. ASSUME Lose PROVE RxInv'
  <2>1. UNCHANGED <<gaugeVars, frame, noise, trail, callVars, rxVars>>
    BY <1>3 DEF Lose
  <2>2. Len(frame) \in Nat /\ next \in 1..Len(frame)
    BY <1>3, LenProperties DEF Lose, TypeOK
  <2>3. next' \in 1..(2 * L + 1) /\ next' <= Len(frame) + 1
    BY <1>3, <2>2, LengthAssumption DEF Lose, TypeOK
  <2>4. faults' \in 0..MaxFaults
    BY <1>3, BoundAssumption DEF Lose, TypeOK
  <2>5. TypeOK'
    BY <2>1, <2>3, <2>4 DEF TypeOK, gaugeVars, callVars, rxVars
  <2>6. SendStart'
    BY <2>1, <2>2, EmptySeq DEF SendStart, callVars, gaugeVars
  <2>7. QED
    BY <2>1, <2>5, <2>6 DEF callVars, rxVars, LockHeld, StackBufferLive, ArmedOwner,
                            DoneMeansFull, WaitOutcome
<1>4. ASSUME TrailingByte PROVE RxInv'
  <2>1. UNCHANGED <<gaugeVars, frame, next, faults, noise, callVars>>
    BY <1>4 DEF TrailingByte
  <2>2. UNCHANGED callVars
    BY <2>1
  <2>3. One \in Byte /\ Receive(One)
    BY <1>4 DEF TrailingByte, One, Byte
  <2>4. /\ rx' \in Seq(Byte) /\ Len(rx') <= 2 * L /\ done' \in Nat
        /\ UNCHANGED <<rxOwner, rxWant>>
        /\ StackBufferLive' /\ ArmedOwner' /\ DoneMeansFull' /\ WaitOutcome'
    BY <2>2, <2>3, ReceiveKeeps
  <2>5. trail' \in 0..MaxTrail
    <3>1. trail \in 0..MaxTrail /\ faults \in 0..MaxFaults
      BY DEF TypeOK
    <3>2. trail + faults < MaxTrail /\ trail' = trail + 1
      BY <1>4 DEF TrailingByte
    <3>3. QED
      BY <3>1, <3>2, BoundAssumption
  <2>6. TypeOK'
    BY <2>1, <2>4, <2>5 DEF TypeOK, gaugeVars, callVars
  <2>7. LockHeld' /\ SendStart'
    BY <2>1, <2>2 DEF LockHeld, SendStart, callVars, gaugeVars
  <2>8. QED
    BY <2>4, <2>6, <2>7
<1>5. ASSUME UNCHANGED <<callVars, rxVars>>, TypeOK',
             \/ gauge = "listening"
             \/ gauge' = gauge /\ frame' = frame /\ faults' = faults
      PROVE RxInv'
  <2>1. pc' = pc
    BY <1>5 DEF callVars
  <2>2. SendStart'
    BY <1>5, <2>1 DEF SendStart
  <2>3. QED
    BY <1>5, <2>2 DEF callVars, rxVars, LockHeld, StackBufferLive, ArmedOwner,
                      DoneMeansFull, WaitOutcome
<1>6. ASSUME NEW c \in Callers, NEW a \in Addrs, NEW s \in [1..L -> Highs \cup Lows],
             GaugeAnswers(c, a, s)
      PROVE  RxInv'
  <2>1. UNCHANGED <<reg, next, faults, noise, trail, callVars, rxVars>>
    BY <1>6 DEF GaugeAnswers
  <2>2. s \in Seq(Byte) /\ Len(s) = L
    <3>1. Highs \cup Lows \subseteq Byte
      BY PulseAssumption DEF OneMin, Byte
    <3>2. s \in [1..L -> Byte]
      BY <3>1
    <3>3. s \in Seq(Byte)
      BY <3>2, SeqDef, LengthAssumption
    <3>4. QED
      BY <3>2, <3>3, LenProperties, LengthAssumption
  <2>3. Len(frame) = L
    BY <1>6 DEF GaugeAnswers, TypeOK
  <2>4. frame' \in Seq(Byte) /\ Len(frame') = 2 * L
    <3>1. frame \in Seq(Byte) /\ frame' = frame \o s
      BY <1>6 DEF GaugeAnswers, TypeOK
    <3>2. frame \o s \in Seq(Byte) /\ Len(frame \o s) = Len(frame) + Len(s)
      BY <2>2, <3>1, ConcatProperties
    <3>3. QED
      BY <2>2, <2>3, <3>1, <3>2, LengthAssumption
  <2>5. answer' \in [Callers -> Bus!Results]
    <3>1. Bus!Read(reg[a]) \in Bus!Results
      BY DEF TypeOK, Bus!Results
    <3>2. QED
      BY <1>6, <3>1 DEF GaugeAnswers, TypeOK
  <2>6. TypeOK'
    BY <1>6, <2>1, <2>4, <2>5, LengthAssumption DEF GaugeAnswers, TypeOK, callVars, rxVars
  <2>7. gauge = "listening" /\ UNCHANGED <<callVars, rxVars>>
    BY <1>6 DEF GaugeAnswers
  <2>8. QED
    BY <1>5, <2>6, <2>7
<1>7. ASSUME NEW c \in Callers, NEW a \in Addrs, NEW v \in Values, GaugeStores(c, a, v)
      PROVE  RxInv'
  <2>1. UNCHANGED <<lineVars, callVars, rxVars>>
    BY <1>7 DEF GaugeStores
  <2>2. answer' \in [Callers -> Bus!Results]
    BY <1>7 DEF GaugeStores, TypeOK, Bus!Results
  <2>3. reg' \in [Addrs -> Values] /\ gauge' = "heard"
    BY <1>7 DEF GaugeStores, TypeOK
  <2>4. TypeOK'
    BY <2>1, <2>2, <2>3 DEF TypeOK, lineVars, callVars, rxVars
  <2>5. gauge = "listening"
    BY <1>7 DEF GaugeStores
  <2>6. QED
    BY <1>5, <2>1, <2>4, <2>5
<1>8. ASSUME GaugeDeaf PROVE RxInv'
  <2>1. UNCHANGED <<reg, answer, frame, next, noise, trail, callVars, rxVars>>
    BY <1>8 DEF GaugeDeaf
  <2>2. gauge' = "deaf" /\ faults' \in 0..MaxFaults
    BY <1>8, BoundAssumption DEF GaugeDeaf, TypeOK
  <2>3. TypeOK'
    BY <2>1, <2>2 DEF TypeOK, callVars, rxVars
  <2>4. gauge = "listening"
    BY <1>8 DEF GaugeDeaf
  <2>5. QED
    BY <1>5, <2>1, <2>3, <2>4
<1>9. ASSUME NEW r \in [Addrs -> Values], Tick(r) PROVE RxInv'
  <2>1. UNCHANGED <<gauge, answer, lineVars, callVars, rxVars>>
    BY <1>9 DEF Tick
  <2>2. reg' \in [Addrs -> Values]
    BY <1>9 DEF Tick, TypeOK
  <2>3. TypeOK'
    BY <2>1, <2>2 DEF TypeOK, lineVars, callVars, rxVars
  <2>4. gauge' = gauge /\ frame' = frame /\ faults' = faults
    BY <2>1 DEF lineVars
  <2>5. QED
    BY <1>5, <2>1, <2>3, <2>4
<1>10. QED
  BY <1>1, <1>2, <1>3, <1>4, <1>6, <1>7, <1>8, <1>9 DEF Gauge, Line

(* Disarming, wherever the call that armed is left.                         *)
LEMMA DisarmKeeps ==
  ASSUME RxInv, DisarmReceive, NEW c \in Callers, pc[c] \in {"abort", "disarm"},
         NEW there \in {"check", "unlock"}, Goto(c, there),
         there = "check" => code[c] = "ok" /\ pc[c] = "disarm",
         UNCHANGED <<gaugeVars, lineVars, lock, op, code, val>>
  PROVE  RxInv'
<1> USE DEF RxInv
<1>1. /\ rxOwner' = NoCaller /\ rxWant' = 0 /\ rx' = rx /\ done' = done
      /\ lock' = lock /\ code' = code
  BY DEF DisarmReceive
<1>2. /\ pc' \in [Callers -> PCs] /\ pc'[c] = there
      /\ \A d \in Callers : d # c => pc'[d] = pc[d]
  BY DEF Goto, TypeOK, PCs
<1>3. TypeOK'
  BY <1>1, <1>2 DEF TypeOK, gaugeVars, lineVars
<1>4. LockHeld'
  BY <1>1, <1>2 DEF LockHeld, Holding, PCs
<1>5. StackBufferLive'
  BY <1>1 DEF StackBufferLive
<1>6. ArmedOwner'
  <2> SUFFICES ASSUME NEW d \in Callers, pc'[d] \in Armed PROVE FALSE
    BY DEF ArmedOwner
  <2>1. d # c /\ pc[d] \in Armed
    BY <1>2 DEF Armed
  <2>2. lock = c /\ lock = d
    BY <2>1 DEF LockHeld, Holding, Armed, PCs
  <2>3. QED
    BY <2>1, <2>2
<1>7. DoneMeansFull'
  BY <1>1, <1>2 DEF DoneMeansFull
<1>8. WaitOutcome'
  BY <1>1, <1>2 DEF WaitOutcome
<1>9. SendStart'
  BY <1>2 DEF SendStart, gaugeVars, lineVars
<1>10. QED
  BY <1>3, <1>4, <1>5, <1>6, <1>7, <1>8, <1>9

(* The steps of a call, from the request to the break.                      *)
LEMMA CallKeeps ==
  ASSUME RxInv, NEW c \in Callers,
         \/ \E r \in Bus!Requests : Call(c, r)
         \/ LockXfer(c) \/ Break(c) \/ BreakFails(c) \/ Unlock(c)
  PROVE  RxInv'
<1> USE DEF RxInv
<1>1. ASSUME NEW r \in Bus!Requests, Call(c, r) PROVE RxInv'
  <2>1. /\ pc[c] = "idle" /\ pc' = [pc EXCEPT ![c] = "lock"]
        /\ code' = [code EXCEPT ![c] = "none"] /\ op' = [op EXCEPT ![c] = r]
        /\ answer' = [answer EXCEPT ![c] = Bus!Nothing]
        /\ UNCHANGED <<reg, gauge, lineVars, lock, val, rxVars>>
    BY <1>1 DEF Call, Goto
  <2>2. answer' \in [Callers -> Bus!Results]
    BY <2>1 DEF TypeOK, Bus!Results
  <2>3. pc' \in [Callers -> PCs] /\ code' \in [Callers -> Codes]
    BY <2>1 DEF TypeOK, PCs, Codes
  <2>4. TypeOK'
    BY <2>1, <2>2, <2>3 DEF TypeOK, lineVars, rxVars
  <2>5. LockHeld' /\ StackBufferLive' /\ ArmedOwner' /\ DoneMeansFull' /\ WaitOutcome'
    BY <2>1 DEF TypeOK, LockHeld, Holding, PCs, StackBufferLive, ArmedOwner, Armed,
                DoneMeansFull, WaitOutcome, rxVars
  <2>6. SendStart'
    BY <2>1 DEF SendStart, TypeOK, lineVars
  <2>7. QED
    BY <2>4, <2>5, <2>6
<1>2. ASSUME NEW there \in {"break", "arm", "unlock", "idle"},
             pc[c] \in {"lock", "break", "unlock"},
             pc' = [pc EXCEPT ![c] = there],
             lock' = IF there = "idle" THEN NoCaller ELSE c,
             pc[c] = "unlock" <=> there = "idle",
             pc[c] = "lock" => there = "break" /\ lock = NoCaller,
             \/ code' = code /\ there # "unlock" /\ (there \in {"break", "arm"} => code[c] = "none")
             \/ code' = [code EXCEPT ![c] = "EIO"] /\ there = "unlock",
             UNCHANGED <<gaugeVars, lineVars, op, val, rxVars>>
      PROVE  RxInv'
  <2>1. /\ pc' \in [Callers -> PCs] /\ pc'[c] = there
        /\ \A d \in Callers : d # c => pc'[d] = pc[d]
    BY <1>2 DEF TypeOK, PCs
  <2>2. /\ code' \in [Callers -> Codes]
        /\ \A d \in Callers : d # c => code'[d] = code[d]
    BY <1>2 DEF TypeOK, Codes
  <2>3. TypeOK'
    BY <1>2, <2>1, <2>2 DEF TypeOK, gaugeVars, lineVars, rxVars
  <2>4. LockHeld'
    BY <1>2, <2>1, CallerAssumption DEF LockHeld, Holding, PCs
  <2>5. StackBufferLive' /\ ArmedOwner' /\ DoneMeansFull'
    <3>1. rx' = rx /\ rxOwner' = rxOwner /\ rxWant' = rxWant /\ done' = done
      BY <1>2 DEF rxVars
    <3>2. ArmedOwner'
      BY <1>2, <2>1, <3>1 DEF ArmedOwner, Armed
    <3>3. DoneMeansFull'
      BY <1>2, <2>1, <3>1 DEF DoneMeansFull
    <3>4. StackBufferLive'
      <4> SUFFICES ASSUME rxWant > 0
                   PROVE  /\ rxOwner \in Callers /\ lock' = rxOwner
                          /\ pc'[rxOwner] \in {"send", "abort", "wait", "disarm"}
        BY <3>1 DEF StackBufferLive
      <4>1. /\ rxOwner \in Callers /\ lock = rxOwner
            /\ pc[rxOwner] \in {"send", "abort", "wait", "disarm"}
        BY DEF StackBufferLive
      <4>2. rxOwner # c
        BY <1>2, <4>1
      <4>3. lock # c /\ lock \in Callers
        BY <4>1, <4>2
      <4>4. lock' = lock
        BY <1>2, <4>3, CallerAssumption DEF LockHeld, Holding, PCs
      <4>5. QED
        BY <2>1, <4>1, <4>2, <4>4
    <3>5. QED
      BY <3>2, <3>3, <3>4
  <2>6. WaitOutcome'
    BY <1>2, <2>1, <2>2 DEF WaitOutcome, rxVars
  <2>7. SendStart'
    BY <1>2, <2>1 DEF SendStart, gaugeVars, lineVars
  <2>8. QED
    BY <2>3, <2>4, <2>5, <2>6, <2>7
<1>0. /\ pc[c] \in {"break", "unlock"} => lock = c
      /\ pc[c] \in {"lock", "break"} => code[c] = "none"
  BY DEF LockHeld, Holding, PCs, WaitOutcome
<1>3. CASE LockXfer(c)
  <2>1. /\ pc[c] = "lock" /\ lock = NoCaller /\ lock' = c /\ code' = code
        /\ pc' = [pc EXCEPT ![c] = "break"]
        /\ UNCHANGED <<gaugeVars, lineVars, op, val, rxVars>>
    BY <1>3 DEF LockXfer, Goto
  <2>2. QED
    BY <1>0, <1>2, <2>1
<1>4. CASE Break(c)
  <2>1. /\ pc[c] = "break" /\ lock' = lock /\ code' = code
        /\ pc' = [pc EXCEPT ![c] = "arm"]
        /\ UNCHANGED <<gaugeVars, lineVars, op, val, rxVars>>
    BY <1>4 DEF Break, Goto
  <2>2. /\ "arm" \in {"break", "arm", "unlock", "idle"}
        /\ lock' = IF "arm" = "idle" THEN NoCaller ELSE c
        /\ pc[c] = "unlock" <=> "arm" = "idle"
        /\ pc[c] = "lock" => "arm" = "break" /\ lock = NoCaller
        /\ \/ code' = code /\ ("arm" \in {"break", "arm"} => code[c] = "none")
           \/ code' = [code EXCEPT ![c] = "EIO"] /\ "arm" = "unlock"
    BY <1>0, <2>1
  <2>3. QED
    BY <1>2, <2>1, <2>2
<1>5. CASE BreakFails(c)
  <2>1. /\ pc[c] = "break" /\ lock' = lock /\ code' = [code EXCEPT ![c] = "EIO"]
        /\ pc' = [pc EXCEPT ![c] = "unlock"]
        /\ UNCHANGED <<gaugeVars, lineVars, op, val, rxVars>>
    BY <1>5 DEF BreakFails, Goto
  <2>2. QED
    BY <1>0, <1>2, <2>1
<1>6. CASE Unlock(c)
  <2>1. /\ pc[c] = "unlock" /\ lock' = NoCaller /\ code' = code
        /\ pc' = [pc EXCEPT ![c] = "idle"]
        /\ UNCHANGED <<gaugeVars, lineVars, op, val, rxVars>>
    BY <1>6 DEF Unlock, Goto
  <2>2. /\ "idle" \in {"break", "arm", "unlock", "idle"}
        /\ lock' = IF "idle" = "idle" THEN NoCaller ELSE c
        /\ pc[c] = "unlock" <=> "idle" = "idle"
        /\ pc[c] = "lock" => "idle" = "break" /\ lock = NoCaller
        /\ \/ code' = code /\ ("idle" \in {"break", "arm"} => code[c] = "none")
           \/ code' = [code EXCEPT ![c] = "EIO"] /\ "idle" = "unlock"
    BY <1>0, <2>1
  <2>3. QED
    BY <1>2, <2>1, <2>2
<1>7. QED
  BY <1>1, <1>3, <1>4, <1>5, <1>6

(* The steps of hdq_transact() from arming the receiver to the answer.      *)
LEMMA TransactKeeps ==
  ASSUME RxInv, NEW c \in Callers,
         \/ Arm(c) \/ Send(c) \/ (\E k \in 0..(2 * L) : SendFails(c, k)) \/ Abort(c)
         \/ WaitDone(c) \/ WaitTimesOut(c) \/ Disarm(c) \/ Check(c)
  PROVE  RxInv'
<1> USE DEF RxInv
<1> DEFINE r == op[c]
<1>0. /\ r \in Bus!Requests /\ Want(r) = 2 * L
      /\ Tx(r) \in Seq(Byte) /\ Len(Tx(r)) \in {L, 2 * L}
  <2>1. op[c] \in Bus!Requests
    BY DEF TypeOK
  <2>2. QED
    BY <2>1, TxFacts
<1> HIDE DEF r
<1>1. ASSUME Arm(c) PROVE RxInv'
  <2>1. /\ pc[c] = "arm" /\ pc' = [pc EXCEPT ![c] = "send"]
        /\ rx' = << >> /\ rxOwner' = c /\ rxWant' = 2 * L /\ done' = 0
        /\ frame' = << >> /\ next' = 1 /\ faults' = 0
        /\ noise' = 0 /\ trail' = 0 /\ gauge' = "deaf"
        /\ UNCHANGED <<reg, answer, lock, op, code, val>>
    BY <1>0, <1>1 DEF Arm, Goto, r
  <2>2. /\ pc' \in [Callers -> PCs] /\ pc'[c] = "send"
        /\ \A d \in Callers : d # c => pc'[d] = pc[d]
    BY <2>1 DEF TypeOK, PCs
  <2>3. /\ << >> \in Seq(Byte) /\ Len(<< >>) = 0
    BY EmptySeq
  <2>4. TypeOK'
    BY <2>1, <2>2, <2>3, LengthAssumption, BoundAssumption DEF TypeOK
  <2>5. lock = c /\ \A d \in Callers : d # c => pc[d] \notin Holding
    BY <2>1 DEF LockHeld, Holding, PCs
  <2>6. LockHeld' /\ StackBufferLive' /\ ArmedOwner'
    BY <2>1, <2>2, <2>5 DEF LockHeld, StackBufferLive, ArmedOwner, Armed, Holding, PCs
  <2>7. DoneMeansFull' /\ WaitOutcome'
    BY <2>1, <2>2, <2>3, <2>5, LengthAssumption DEF DoneMeansFull, WaitOutcome, Holding, PCs
  <2>8. SendStart'
    BY <2>1 DEF SendStart
  <2>9. QED
    BY <2>4, <2>6, <2>7, <2>8
<1>2. ASSUME NEW there \in {"wait", "abort"}, pc[c] = "send",
             pc' = [pc EXCEPT ![c] = there],
             frame' \in Seq(Byte), Len(frame') <= 2 * L, next <= Len(frame') + 1,
             gauge' \in {"listening", "deaf"}, faults' \in 0..MaxFaults,
             \/ there = "wait" /\ code' = code
             \/ there = "abort" /\ code' = [code EXCEPT ![c] = "EIO"],
             UNCHANGED <<reg, answer, next, noise, trail, lock, op, val, rxVars>>
      PROVE  RxInv'
  <2>1. /\ pc' \in [Callers -> PCs] /\ pc'[c] = there
        /\ \A d \in Callers : d # c => pc'[d] = pc[d]
    BY <1>2 DEF TypeOK, PCs
  <2>2. /\ code' \in [Callers -> Codes]
        /\ \A d \in Callers : d # c => code'[d] = code[d]
    BY <1>2 DEF TypeOK, Codes
  <2>3. TypeOK'
    BY <1>2, <2>1, <2>2 DEF TypeOK, rxVars
  <2>4. LockHeld'
    BY <1>2, <2>1 DEF LockHeld, Holding, PCs
  <2>5. rx' = rx /\ rxOwner' = rxOwner /\ rxWant' = rxWant /\ done' = done /\ lock' = lock
    BY <1>2 DEF rxVars
  <2>6. StackBufferLive' /\ ArmedOwner'
    BY <1>2, <2>1, <2>5 DEF StackBufferLive, ArmedOwner, Armed
  <2>7. DoneMeansFull'
    BY <1>2, <2>1, <2>5 DEF DoneMeansFull
  <2>8. WaitOutcome'
    BY <1>2, <2>1, <2>2, <2>5 DEF WaitOutcome
  <2>9. SendStart'
    <3>1. lock = c /\ \A d \in Callers : d # c => pc[d] # "send"
      BY <1>2 DEF LockHeld, Holding, PCs
    <3>2. QED
      BY <1>2, <2>1, <3>1 DEF SendStart
  <2>10. QED
    BY <2>3, <2>4, <2>6, <2>7, <2>8, <2>9
<1>a. pc[c] = "send" => next = 1 /\ faults = 0
  BY EmptySeq DEF SendStart, TypeOK
<1>3. ASSUME Send(c) PROVE RxInv'
  <2>1. /\ pc[c] = "send" /\ pc' = [pc EXCEPT ![c] = "wait"]
        /\ gauge' = "listening" /\ code' = code
        /\ UNCHANGED <<reg, answer, next, noise, trail, lock, op, val, rxVars>>
    BY <1>3 DEF Send, Goto
  <2>2. CASE frame' = Tx(r) /\ UNCHANGED faults
    <3>1. faults' \in 0..MaxFaults
      BY <2>2 DEF TypeOK
    <3>2. /\ frame' \in Seq(Byte) /\ Len(frame') <= 2 * L /\ next <= Len(frame') + 1
      BY <1>0, <1>a, <2>1, <2>2, LengthAssumption
    <3>3. QED
      BY <1>2, <2>1, <3>1, <3>2
  <2>3. CASE faults < MaxFaults /\ faults' = faults + 1 /\ frame' \in OnLine(r)
    <3>1. faults' \in 0..MaxFaults
      BY <2>3, BoundAssumption DEF TypeOK
    <3>2. PICK i \in 1..Len(Tx(r)), b \in Noise : frame' = [Tx(r) EXCEPT ![i] = b]
      BY <2>3 DEF OnLine
    <3>3. b \in Byte
      BY PulseAssumption
    <3>4. frame' \in Seq(Byte) /\ Len(frame') = Len(Tx(r))
      BY <1>0, <3>2, <3>3, ExceptSeq
    <3>5. Len(frame') <= 2 * L /\ next <= Len(frame') + 1
      BY <1>0, <1>a, <2>1, <3>4, LengthAssumption
    <3>6. QED
      BY <1>2, <2>1, <3>1, <3>4, <3>5
  <2>4. QED
    BY <1>3, <2>2, <2>3 DEF Send, r
<1>4. ASSUME NEW k \in 0..(2 * L), SendFails(c, k) PROVE RxInv'
  <2>1. /\ pc[c] = "send" /\ pc' = [pc EXCEPT ![c] = "abort"]
        /\ code' = [code EXCEPT ![c] = "EIO"]
        /\ k < Len(Tx(r)) /\ frame' = SubSeq(Tx(r), 1, k) /\ gauge' = "deaf"
        /\ UNCHANGED <<reg, answer, next, faults, noise, trail, lock, op, val, rxVars>>
    BY <1>4 DEF SendFails, Goto, r
  <2>2. \A i \in 1..k : Tx(r)[i] \in Byte
    BY <1>0, <2>1, ElementOfSeq
  <2>3. /\ frame' \in Seq(Byte)
        /\ Len(frame') = IF 1 <= k THEN k - 1 + 1 ELSE 0
    BY <2>1, <2>2, SubSeqProperties
  <2>4. Len(frame') <= 2 * L /\ next <= Len(frame') + 1
    BY <1>a, <2>1, <2>3, LengthAssumption
  <2>5. faults' \in 0..MaxFaults
    BY <2>1 DEF TypeOK
  <2>6. QED
    BY <1>2, <2>1, <2>3, <2>4, <2>5
<1>5. ASSUME Abort(c) PROVE RxInv'
  <2>1. /\ pc[c] = "abort" /\ Goto(c, "unlock") /\ DisarmReceive
        /\ UNCHANGED <<gaugeVars, lineVars, lock, op, code, val>>
    BY <1>5 DEF Abort
  <2>2. QED
    BY <2>1, DisarmKeeps
<1>b. ASSUME pc[c] = "wait", pc' = [pc EXCEPT ![c] = "disarm"], done' \in Nat,
             \/ code' = [code EXCEPT ![c] = "ok"] /\ Len(rx) = 2 * L
             \/ code' = [code EXCEPT ![c] = "ETIMEDOUT"],
             done' > 0 => done > 0,
             UNCHANGED <<gaugeVars, lineVars, lock, op, val, rx, rxOwner, rxWant>>
      PROVE  RxInv'
  <2>1. /\ pc' \in [Callers -> PCs] /\ pc'[c] = "disarm"
        /\ \A d \in Callers : d # c => pc'[d] = pc[d]
    BY <1>b DEF TypeOK, PCs
  <2>2. /\ code' \in [Callers -> Codes]
        /\ \A d \in Callers : d # c => code'[d] = code[d]
        /\ code'[c] \in {"ok", "ETIMEDOUT"} /\ (code'[c] = "ok" => Len(rx) = 2 * L)
    BY <1>b DEF TypeOK, Codes
  <2>3. TypeOK'
    BY <1>b, <2>1, <2>2 DEF TypeOK, gaugeVars, lineVars
  <2>4. lock = c /\ \A d \in Callers : d # c => pc[d] \notin Holding
    BY <1>b DEF LockHeld, Holding, PCs
  <2>5. LockHeld' /\ StackBufferLive' /\ ArmedOwner'
    BY <1>b, <2>1 DEF LockHeld, StackBufferLive, ArmedOwner, Armed, Holding, PCs
  <2>6. DoneMeansFull'
    BY <1>b, <2>1, <2>4 DEF DoneMeansFull, Holding, PCs
  <2>7. WaitOutcome'
    BY <1>b, <2>1, <2>2 DEF WaitOutcome
  <2>8. SendStart'
    BY <1>b, <2>1 DEF SendStart, gaugeVars, lineVars
  <2>9. QED
    BY <2>3, <2>5, <2>6, <2>7, <2>8
<1>c. pc[c] = "wait" => rxWant > 0
  BY LengthAssumption DEF ArmedOwner, Armed
<1>6. ASSUME WaitDone(c) PROVE RxInv'
  <2>1. /\ pc[c] = "wait" /\ done > 0 /\ pc' = [pc EXCEPT ![c] = "disarm"]
        /\ done' = done - 1 /\ code' = [code EXCEPT ![c] = "ok"]
        /\ UNCHANGED <<gaugeVars, lineVars, lock, op, val, rx, rxOwner, rxWant>>
    BY <1>6 DEF WaitDone, Goto
  <2>2. Len(rx) = 2 * L
    BY <1>c, <2>1 DEF DoneMeansFull
  <2>3. done' \in Nat /\ (done' > 0 => done > 0)
    BY <2>1 DEF TypeOK
  <2>4. QED
    BY <1>b, <2>1, <2>2, <2>3
<1>7. ASSUME WaitTimesOut(c) PROVE RxInv'
  <2>1. /\ pc[c] = "wait" /\ pc' = [pc EXCEPT ![c] = "disarm"]
        /\ code' = [code EXCEPT ![c] = "ETIMEDOUT"]
        /\ UNCHANGED <<gaugeVars, lineVars, lock, op, val, rxVars>>
    BY <1>7 DEF WaitTimesOut, Goto
  <2>2. done' = done /\ done' \in Nat /\ UNCHANGED <<rx, rxOwner, rxWant>>
    BY <2>1 DEF rxVars, TypeOK
  <2>3. QED
    BY <1>b, <2>1, <2>2
<1>8. ASSUME Disarm(c) PROVE RxInv'
  <2>1. /\ pc[c] = "disarm" /\ DisarmReceive
        /\ Goto(c, IF code[c] = "ok" THEN "check" ELSE "unlock")
        /\ UNCHANGED <<gaugeVars, lineVars, lock, op, code, val>>
    BY <1>8 DEF Disarm
  <2>2. CASE code[c] = "ok"
    <3>1. Goto(c, "check")
      BY <2>1, <2>2
    <3>2. QED
      BY <2>1, <2>2, <3>1, DisarmKeeps
  <2>3. CASE code[c] # "ok"
    <3>1. Goto(c, "unlock")
      BY <2>1, <2>3
    <3>2. QED
      BY <2>1, <2>3, <3>1, DisarmKeeps
  <2>4. QED
    BY <2>2, <2>3
<1>9. ASSUME Check(c) PROVE RxInv'
  <2>1. /\ pc[c] = "check" /\ pc' = [pc EXCEPT ![c] = "unlock"]
        /\ code' = code \/ code' = [code EXCEPT ![c] = "EIO"]
        /\ UNCHANGED <<gaugeVars, lineVars, lock, op, rxVars>>
    BY <1>9 DEF Check, Goto
  <2>2. val' \in [Callers -> [1..L -> Bit]]
    <3>1. \A w : Decode(w) \in [1..L -> Bit]
      BY DEF Decode, Bit
    <3>2. QED
      BY <1>9, <3>1 DEF Check, TypeOK
  <2>3. /\ pc' \in [Callers -> PCs] /\ pc'[c] = "unlock"
        /\ \A d \in Callers : d # c => pc'[d] = pc[d]
    BY <2>1 DEF TypeOK, PCs
  <2>4. /\ code' \in [Callers -> Codes]
        /\ \A d \in Callers : d # c => code'[d] = code[d]
    BY <2>1 DEF TypeOK, Codes
  <2>5. TypeOK'
    BY <2>1, <2>2, <2>3, <2>4 DEF TypeOK, gaugeVars, lineVars, rxVars
  <2>6. rx' = rx /\ rxOwner' = rxOwner /\ rxWant' = rxWant /\ done' = done /\ lock' = lock
    BY <2>1 DEF rxVars
  <2>7. LockHeld' /\ ArmedOwner' /\ DoneMeansFull' /\ WaitOutcome'
    BY <2>1, <2>3, <2>4, <2>6 DEF LockHeld, ArmedOwner, Armed, Holding, PCs,
                                  DoneMeansFull, WaitOutcome
  <2>8. StackBufferLive'
    BY <2>1, <2>3, <2>6 DEF StackBufferLive
  <2>9. SendStart'
    BY <2>1, <2>3 DEF SendStart, gaugeVars, lineVars
  <2>10. QED
    BY <2>5, <2>7, <2>8, <2>9
<1>10. QED
  BY <1>1, <1>3, <1>4, <1>5, <1>6, <1>7, <1>8, <1>9

LEMMA InitRxInv == Init => RxInv
<1> SUFFICES ASSUME Init PROVE RxInv
  OBVIOUS
<1>1. /\ << >> \in Seq(Byte) /\ Len(<< >>) = 0
  BY EmptySeq
<1>2. (CHOOSE v \in Values : TRUE) \in [1..L -> Bit]
  BY WordAssumption
<1>3. (CHOOSE q \in Bus!Requests : TRUE) \in Bus!Requests
  <2>1. PICK a \in Addrs : TRUE
    BY WordAssumption
  <2>2. [kind |-> "read", addr |-> a] \in Bus!Requests
    BY DEF Bus!Requests
  <2>3. QED
    BY <2>2
<1>4. TypeOK
  <2>1. /\ next \in 1..(2 * L + 1) /\ next <= Len(frame) + 1 /\ Len(frame) <= 2 * L
        /\ faults \in 0..MaxFaults /\ noise \in 0..MaxNoise /\ trail \in 0..MaxTrail
    BY <1>1, LengthAssumption, BoundAssumption DEF Init
  <2>2. op \in [Callers -> Bus!Requests] /\ val \in [Callers -> [1..L -> Bit]]
    BY <1>2, <1>3 DEF Init
  <2>3. answer \in [Callers -> Bus!Results]
    BY DEF Init, Bus!Results
  <2>4. pc \in [Callers -> PCs] /\ code \in [Callers -> Codes]
    BY DEF Init, PCs, Codes
  <2>5. /\ frame \in Seq(Byte) /\ rx \in Seq(Byte) /\ Len(rx) <= 2 * L /\ done \in Nat
        /\ rxWant \in {0, 2 * L} /\ rxOwner \in Callers \cup {NoCaller}
    BY <1>1, LengthAssumption DEF Init
  <2>6. QED
    BY <2>1, <2>2, <2>3, <2>4, <2>5 DEF Init, TypeOK
<1>5. LockHeld /\ StackBufferLive /\ ArmedOwner /\ DoneMeansFull /\ WaitOutcome /\ SendStart
  BY CallerAssumption, LengthAssumption
  DEF Init, LockHeld, Holding, StackBufferLive, ArmedOwner, Armed, DoneMeansFull,
      WaitOutcome, SendStart
<1>6. QED
  BY <1>4, <1>5 DEF RxInv

LEMMA NextRxInv == RxInv /\ [Next]_vars => RxInv'
<1> SUFFICES ASSUME RxInv, [Next]_vars PROVE RxInv'
  OBVIOUS
<1>1. CASE UNCHANGED vars
  BY <1>1 DEF vars, gaugeVars, lineVars, callVars, rxVars, RxInv, TypeOK, LockHeld,
              StackBufferLive, ArmedOwner, DoneMeansFull, WaitOutcome, SendStart
<1>2. ASSUME NEW c \in Callers,
             (\E r \in Bus!Requests : Call(c, r)) \/ LockXfer(c) \/ Transact(c)
      PROVE  RxInv'
  BY <1>2, CallKeeps, TransactKeeps DEF Transact
<1>3. CASE Gauge \/ Line \/ \E r \in [Addrs -> Values] : Tick(r)
  BY <1>3, LineKeeps
<1>4. QED
  BY <1>1, <1>2, <1>3 DEF Next

THEOREM RxInvariant == Spec => []RxInv
BY InitRxInv, NextRxInv, PTL DEF Spec

(* The variables of the transport keep their types, the received bytes fit
   the buffer on the stack.                                                 *)
THEOREM TypeCorrect == Spec => []TypeOK
<1>1. RxInv => TypeOK
  BY DEF RxInv
<1>2. QED
  BY <1>1, RxInvariant, PTL

(* Whatever the line does, level-like noise included, the receiver writes
   only to the buffer of a thread that is still inside hdq_transact().      *)
THEOREM StackSafety == Spec => []StackBufferLive
<1>1. RxInv => StackBufferLive
  BY DEF RxInv
<1>2. QED
  BY <1>1, RxInvariant, PTL

(* A wait that succeeds has a full buffer, its own completion.              *)
THEOREM CompletionSafety == Spec => []CompleteIsFull
<1>1. RxInv => CompleteIsFull
  <2> SUFFICES ASSUME RxInv, NEW c \in Callers, pc[c] \in {"disarm", "check"},
                      code[c] = "ok"
               PROVE  Len(rx) = Want(op[c])
    BY DEF CompleteIsFull
  <2>1. Len(rx) = 2 * L /\ op[c] \in Bus!Requests
    BY DEF RxInv, WaitOutcome, TypeOK
  <2>2. QED
    BY <2>1, TxFacts
<1>2. QED
  BY <1>1, RxInvariant, PTL

-----------------------------------------------------------------------------
(* The content of a transaction.  The line is quiet when the noise before
   the echo never looks like a level byte and stray bytes after a response
   do not make up for bytes that were lost.                                 *)
QuietLine == One \notin Noise /\ Zero \notin Noise /\ (MaxTrail = 0 \/ MaxFaults = 0)

(* The receiver never has more bytes than came over the line, and if it has
   as many then it has these.                                               *)
Counted ==
  \A c \in Callers : pc[c] \in {"send", "wait", "disarm", "check"} =>
    /\ Len(rx) <= next - 1
    /\ Len(rx) = next - 1 => \A i \in 1..Len(rx) : rx[i] = frame[i]
    /\ faults = 0 => Len(rx) = next - 1

(* The frame is what was written, and the response once the gauge heard it. *)
FrameOK ==
  \A c \in Callers : pc[c] \in Sent =>
    /\ gauge # "heard" => Len(frame) = Len(Tx(op[c]))
    /\ gauge = "heard" => Len(frame) = 2 * L
    /\ gauge = "deaf" => faults > 0
    /\ faults = 0 => \A i \in 1..Len(Tx(op[c])) : frame[i] = Tx(op[c])[i]
    /\ gauge = "listening" /\ op[c].kind = "write" => next <= 2 * L

(* Nobody answers a request before the gauge heard it.                      *)
Fresh ==
  \A c \in Callers :
    /\ pc[c] \in {"lock", "break", "arm", "send"} => answer[c] = Bus!Nothing
    /\ pc[c] \in Sent /\ gauge # "heard" => answer[c] = Bus!Nothing
    /\ pc[c] = "unlock" /\ code[c] = "ok" /\ gauge # "heard" => answer[c] = Bus!Nothing

(* The gauge listens to the thread that waits for it.                       *)
Listening == gauge = "listening" => lock \in Callers /\ pc[lock] = "wait"

(* What the gauge answered to a frame that was not disturbed.               *)
Answered ==
  \A c \in Callers : pc[c] \in Sent /\ gauge = "heard" =>
    /\ op[c].kind = "read" /\ (\A i \in 1..L : frame[i] = Tx(op[c])[i]) =>
         \E w \in Values : /\ answer[c] = Bus!Read(w)
                           /\ \A i \in 1..L : frame[L + i] >= OneMin <=> w[i] = 1
    /\ op[c].kind = "write" /\ (\A i \in 1..(2 * L) : frame[i] = Tx(op[c])[i]) =>
         answer[c] = Bus!Wrote

TimedOut ==
  \A c \in Callers : pc[c] \in {"disarm", "unlock"} /\ code[c] = "ETIMEDOUT" => faults > 0

(* On a quiet line a success is always the gauge's answer.                  *)
TrueAnswers ==
  \A c \in Callers : pc[c] = "unlock" /\ code[c] = "ok" =>
      /\ op[c].kind = "read" => answer[c] = Bus!Read(val[c])
      /\ op[c].kind = "write" /\ gauge = "heard" => answer[c] = Bus!Wrote

AnswerInv == /\ RxInv /\ Counted /\ FrameOK /\ Fresh /\ Listening /\ Answered
             /\ TimedOut /\ TrueAnswers

(* Only one thread is past the mutex.                                       *)
LEMMA OneHolder ==
  ASSUME LockHeld, NEW c \in Callers, NEW d \in Callers, c # d, pc[c] \in Holding
  PROVE  pc[d] \notin Holding
BY DEF LockHeld

(* A byte of the frame that the receiver takes is the next one of the frame. *)
LEMMA DeliverCounted ==
  ASSUME AnswerInv, Deliver PROVE Counted'
<1> SUFFICES ASSUME NEW c \in Callers, pc'[c] \in {"send", "wait", "disarm", "check"}
             PROVE  /\ Len(rx') <= next' - 1
                    /\ Len(rx') = next' - 1 => \A i \in 1..Len(rx') : rx'[i] = frame'[i]
                    /\ faults' = 0 => Len(rx') = next' - 1
  BY DEF Counted
<1>1. /\ UNCHANGED <<gaugeVars, frame, faults, noise, trail, callVars>>
      /\ next' = next + 1 /\ Receive(frame[next]) /\ next <= Len(frame)
  BY DEF Deliver
<1>2. pc[c] \in {"send", "wait", "disarm", "check"} /\ frame' = frame /\ faults' = faults
  BY <1>1 DEF callVars
<1>3. /\ frame \in Seq(Byte) /\ Len(frame) \in Nat /\ next \in 1..Len(frame)
      /\ Len(frame) <= 2 * L /\ rx \in Seq(Byte) /\ Len(rx) \in Nat
      /\ rxWant \in {0, 2 * L} /\ op[c] \in Bus!Requests
  BY <1>1, LenProperties DEF AnswerInv, RxInv, TypeOK
<1>4. /\ Len(rx) <= next - 1
      /\ Len(rx) = next - 1 => \A i \in 1..Len(rx) : rx[i] = frame[i]
      /\ faults = 0 => Len(rx) = next - 1
  BY <1>2 DEF AnswerInv, Counted
<1>5. frame[next] \in Byte
  BY <1>3, ElementOfSeq
<1>6. CASE Ignored(frame[next])
  <2>1. rx' = rx
    BY <1>1, <1>6 DEF Receive
  <2>2. faults # 0
    <3> SUFFICES ASSUME faults = 0 PROVE FALSE
      OBVIOUS
    <3>1. pc[c] # "send"
      BY <1>3, EmptySeq DEF AnswerInv, RxInv, SendStart
    <3>2. pc[c] # "check"
      BY <1>2, <1>3, <1>4, LengthAssumption DEF AnswerInv, RxInv, WaitOutcome
    <3>3. rxOwner = c /\ rxWant = 2 * L
      BY <1>2, <3>1, <3>2 DEF AnswerInv, RxInv, ArmedOwner, Armed
    <3>4. Len(rx) < L /\ frame[next] # Tx(op[c])[Len(rx) + 1]
      BY <1>6, <3>3, LengthAssumption DEF Ignored
    <3>5. Len(rx) + 1 = next /\ next \in 1..L
      BY <1>3, <1>4, <3>4, LengthAssumption
    <3>6. Len(Tx(op[c])) \in {L, 2 * L}
      BY <1>3, TxFacts
    <3>7. frame[next] = Tx(op[c])[next]
      BY <1>2, <3>1, <3>5, <3>6, LengthAssumption DEF AnswerInv, FrameOK, Sent
    <3>8. QED
      BY <3>4, <3>5, <3>7
  <2>3. QED
    BY <1>1, <1>2, <1>3, <1>4, <2>1, <2>2
<1>7. CASE ~Ignored(frame[next])
  <2>1. Len(rx) < rxWant
    BY <1>3, <1>4, <1>7, LengthAssumption DEF Ignored
  <2>2. rx' = Append(rx, frame[next])
    BY <1>1, <1>7, <2>1 DEF Receive
  <2>3. /\ Len(rx') = Len(rx) + 1 /\ rx'[Len(rx) + 1] = frame[next]
        /\ \A i \in 1..Len(rx) : rx'[i] = rx[i]
    BY <1>3, <1>5, <2>2, AppendProperties
  <2>4. QED
    BY <1>1, <1>2, <1>3, <1>4, <2>3
<1>8. QED
  BY <1>6, <1>7

(* The line and the gauge keep the relation of frame, receiver and answer.  *)
LEMMA LineAnswers ==
  ASSUME QuietLine, AnswerInv, RxInv',
         Gauge \/ Line \/ (\E r \in [Addrs -> Values] : Tick(r))
  PROVE  AnswerInv'
<1> USE DEF AnswerInv
<1>0. /\ frame \in Seq(Byte) /\ Len(frame) \in Nat /\ next \in Nat /\ next >= 1
      /\ Len(frame) <= 2 * L /\ next <= Len(frame) + 1
      /\ rx \in Seq(Byte) /\ Len(rx) \in Nat /\ faults \in 0..MaxFaults
      /\ \A c \in Callers : op[c] \in Bus!Requests
  <2>1. /\ frame \in Seq(Byte) /\ rx \in Seq(Byte) /\ next \in 1..(2 * L + 1)
        /\ Len(frame) <= 2 * L /\ next <= Len(frame) + 1 /\ faults \in 0..MaxFaults
        /\ \A c \in Callers : op[c] \in Bus!Requests
    BY DEF RxInv, TypeOK
  <2>2. QED
    BY <2>1, LenProperties, LengthAssumption
<1>1. ASSUME LineNoise PROVE AnswerInv'
  <2>1. PICK b \in Noise : Receive(b)
    BY <1>1 DEF LineNoise
  <2>2. /\ UNCHANGED <<gaugeVars, frame, next, faults, trail, callVars>>
        /\ rxWant > 0 /\ next <= L
    BY <1>1 DEF LineNoise
  <2>3. Counted'
    <3> SUFFICES ASSUME NEW c \in Callers, pc[c] \in {"send", "wait", "disarm", "check"}
                 PROVE  rx' = rx
      BY <2>2 DEF Counted, callVars
    <3>1. Len(rx) < L
      <4>1. Len(rx) <= next - 1
        BY DEF Counted
      <4>2. QED
        BY <1>0, <2>2, <4>1, LengthAssumption
    <3>2. rxOwner = c
      BY <2>2 DEF RxInv, StackBufferLive, LockHeld, Holding, PCs
    <3>3. Tx(op[c])[Len(rx) + 1] \in {One, Zero}
      <4>1. Len(rx) + 1 \in 1..L
        BY <1>0, <3>1, LengthAssumption
      <4>2. op[c] \in Bus!Requests /\ Len(Tx(op[c])) \in {L, 2 * L}
        BY <1>0, TxFacts
      <4>3. Len(rx) + 1 \in 1..Len(Tx(op[c]))
        BY <4>1, <4>2, LengthAssumption
      <4>4. Tx(op[c]) \in Seq({One, Zero})
        BY <4>2, TxFacts
      <4>5. QED
        BY <4>3, <4>4, ElementOfSeq
    <3>4. Ignored(b)
      BY <3>1, <3>2, <3>3 DEF Ignored, QuietLine
    <3>5. QED
      BY <2>1, <3>4 DEF Receive
  <2>4. FrameOK' /\ Fresh' /\ Listening' /\ Answered' /\ TimedOut' /\ TrueAnswers'
    BY <2>2 DEF FrameOK, Fresh, Listening, Answered, TimedOut, TrueAnswers,
                callVars, gaugeVars
  <2>5. QED
    BY <2>3, <2>4
<1>2. ASSUME Deliver PROVE AnswerInv'
  <2>1. /\ UNCHANGED <<gaugeVars, frame, faults, noise, trail, callVars>>
        /\ next' = next + 1 /\ (next = 2 * L => gauge # "listening")
    BY <1>2 DEF Deliver
  <2>2. Counted'
    BY <1>2, DeliverCounted
  <2>3. FrameOK'
    <3>1. gauge = "listening" /\ next <= 2 * L => next' <= 2 * L
      BY <1>0, <2>1, LengthAssumption
    <3>2. QED
      BY <2>1, <3>1 DEF FrameOK, callVars, gaugeVars
  <2>4. Fresh' /\ Listening' /\ Answered' /\ TimedOut' /\ TrueAnswers'
    BY <2>1 DEF Fresh, Listening, Answered, TimedOut, TrueAnswers, callVars, gaugeVars
  <2>5. QED
    BY <2>2, <2>3, <2>4
<1>3. ASSUME Lose PROVE AnswerInv'
  <2>1. /\ UNCHANGED <<gaugeVars, frame, noise, trail, callVars, rxVars>>
        /\ next' = next + 1 /\ (next = 2 * L => gauge # "listening")
        /\ faults' = faults + 1
    BY <1>3 DEF Lose
  <2>2. Counted'
    BY <1>0, <2>1, BoundAssumption DEF Counted, callVars, rxVars
  <2>3. FrameOK'
    <3>1. gauge = "listening" /\ next <= 2 * L => next' <= 2 * L
      BY <1>0, <2>1, LengthAssumption
    <3>2. faults' > 0
      BY <1>0, <2>1, BoundAssumption
    <3>3. QED
      BY <2>1, <3>1, <3>2 DEF FrameOK, callVars, gaugeVars
  <2>4. TimedOut'
    BY <1>0, <2>1, BoundAssumption DEF TimedOut, callVars
  <2>5. Fresh' /\ Listening' /\ Answered' /\ TrueAnswers'
    BY <2>1 DEF Fresh, Listening, Answered, TrueAnswers, callVars, gaugeVars
  <2>6. QED
    BY <2>2, <2>3, <2>4, <2>5
<1>4. ASSUME TrailingByte PROVE AnswerInv'
  <2>1. /\ UNCHANGED <<gaugeVars, frame, next, faults, noise, callVars>>
        /\ gauge = "heard" /\ next = Len(frame) + 1 /\ trail + faults < MaxTrail /\ Receive(One)
    BY <1>4 DEF TrailingByte
  <2>2. faults = 0
    <3>1. trail \in 0..MaxTrail /\ faults \in 0..MaxFaults
      BY DEF RxInv, TypeOK
    <3>2. MaxTrail # 0
      BY <2>1, <3>1, BoundAssumption
    <3>3. QED
      BY <1>0, <3>2 DEF QuietLine
  <2>3. Counted'
    <3> SUFFICES ASSUME NEW c \in Callers, pc[c] \in {"send", "wait", "disarm", "check"}
                 PROVE  rx' = rx
      BY <2>1 DEF Counted, callVars
    <3>1. pc[c] # "send"
      BY <2>1 DEF RxInv, SendStart
    <3>2. Len(rx) = 2 * L
      BY <1>0, <2>1, <2>2, <3>1, LengthAssumption DEF Counted, FrameOK, Sent
    <3>3. One \in Byte
      BY DEF One, Byte
    <3>4. QED
      BY <2>1, <3>2, <3>3, ReceiveFacts DEF RxInv
  <2>4. FrameOK' /\ Fresh' /\ Listening' /\ Answered' /\ TimedOut' /\ TrueAnswers'
    BY <2>1 DEF FrameOK, Fresh, Listening, Answered, TimedOut, TrueAnswers,
                callVars, gaugeVars
  <2>5. QED
    BY <2>3, <2>4
<1>5. ASSUME NEW c \in Callers, NEW a \in Addrs, NEW s \in [1..L -> Highs \cup Lows],
             GaugeAnswers(c, a, s)
      PROVE  AnswerInv'
  <2>1. /\ gauge = "listening" /\ lock = c /\ op[c].kind = "read"
        /\ Len(frame) = L /\ next = L + 1 /\ a \in Heard(op[c]) /\ s \in Pulses(reg[a])
        /\ frame' = frame \o s /\ gauge' = "heard"
        /\ answer' = IF a = op[c].addr
                     THEN [answer EXCEPT ![c] = Bus!Read(reg[a])] ELSE answer
        /\ UNCHANGED <<reg, next, faults, noise, trail, callVars, rxVars>>
    BY <1>5 DEF GaugeAnswers
  <2>2. /\ pc[c] = "wait" /\ answer[c] = Bus!Nothing
        /\ \A d \in Callers : d # c => pc[d] \notin Holding
    <3>1. pc[c] = "wait"
      BY <2>1 DEF Listening
    <3>2. QED
      BY <2>1, <3>1, OneHolder DEF RxInv, Fresh, Sent, Holding, PCs
  <2>3. /\ Len(frame') = 2 * L
        /\ \A i \in 1..L : frame'[i] = frame[i] /\ frame'[L + i] = s[i]
    <3>1. s \in Seq(Byte) /\ Len(s) = L
      <4>1. Highs \cup Lows \subseteq Byte
        BY PulseAssumption DEF OneMin, Byte
      <4>2. s \in [1..L -> Byte]
        BY <4>1
      <4>3. s \in Seq(Byte)
        BY <4>2, SeqDef, LengthAssumption
      <4>4. QED
        BY <4>2, <4>3, LenProperties, LengthAssumption
    <3>2. /\ Len(frame \o s) = Len(frame) + Len(s)
          /\ \A i \in 1..(Len(frame) + Len(s)) :
               (frame \o s)[i] = IF i <= Len(frame) THEN frame[i] ELSE s[i - Len(frame)]
      BY <1>0, <3>1, ConcatProperties
    <3>3. QED
      BY <2>1, <3>1, <3>2, LengthAssumption
  <2>4. Counted'
    <3> SUFFICES ASSUME NEW d \in Callers, pc[d] \in {"send", "wait", "disarm", "check"}
                 PROVE  /\ Len(rx) <= next - 1
                        /\ Len(rx) = next - 1 => \A i \in 1..Len(rx) : rx[i] = frame'[i]
                        /\ faults = 0 => Len(rx) = next - 1
      BY <2>1 DEF Counted, callVars, rxVars
    <3>1. /\ Len(rx) <= next - 1
          /\ Len(rx) = next - 1 => \A i \in 1..Len(rx) : rx[i] = frame[i]
          /\ faults = 0 => Len(rx) = next - 1
      BY DEF Counted
    <3>2. QED
      BY <1>0, <2>1, <2>3, <3>1, LengthAssumption
  <2>5. FrameOK'
    <3> SUFFICES ASSUME NEW d \in Callers, pc[d] \in Sent
                 PROVE  /\ Len(frame') = 2 * L
                        /\ faults = 0 => \A i \in 1..Len(Tx(op[d])) : frame'[i] = Tx(op[d])[i]
      BY <2>1 DEF FrameOK, callVars
    <3>1. d = c
      BY <2>2 DEF Sent, Holding, PCs
    <3>2. Len(Tx(op[c])) = L
      BY <1>0, <2>1, TxFacts
    <3>3. faults = 0 => \A i \in 1..L : frame[i] = Tx(op[c])[i]
      BY <2>2, <3>2 DEF FrameOK, Sent
    <3>4. QED
      BY <2>3, <3>1, <3>2, <3>3
  <2>6. Fresh'
    BY <2>1, <2>2 DEF Fresh, Sent, Holding, PCs, callVars
  <2>7. Listening' /\ TimedOut'
    BY <2>1 DEF Listening, TimedOut, callVars
  <2>8. Answered'
    <3> SUFFICES ASSUME NEW d \in Callers, pc[d] \in Sent
                 PROVE  /\ op[d].kind = "read" /\ (\A i \in 1..L : frame'[i] = Tx(op[d])[i]) =>
                           \E w \in Values :
                              /\ answer'[d] = Bus!Read(w)
                              /\ \A i \in 1..L : frame'[L + i] >= OneMin <=> w[i] = 1
                        /\ op[d].kind # "write"
      BY <2>1 DEF Answered, callVars
    <3>1. d = c
      BY <2>2 DEF Sent, Holding, PCs
    <3> SUFFICES ASSUME \A i \in 1..L : frame[i] = Tx(op[c])[i]
                 PROVE  /\ answer'[c] = Bus!Read(reg[a]) /\ reg[a] \in Values
                        /\ \A i \in 1..L : s[i] >= OneMin <=> reg[a][i] = 1
      BY <2>1, <2>3, <3>1
    <3>2. frame = Encode(Cmd(op[c]))
      <4>1. /\ Tx(op[c]) \in Seq(Byte) /\ Len(Tx(op[c])) = L
            /\ Tx(op[c]) = Encode(Cmd(op[c]))
        BY <1>0, <2>1, TxFacts
      <4>2. frame = Tx(op[c])
        BY <1>0, <2>1, <4>1, SeqEqual
      <4>3. QED
        BY <4>1, <4>2
    <3>3. SubSeq(frame, 1, L) = frame
      BY <1>0, <2>1, SubSeqFull
    <3>4. a = op[c].addr
      BY <2>1, <3>2, <3>3 DEF Heard
    <3>5. answer'[c] = Bus!Read(reg[a]) /\ reg[a] \in Values
      BY <2>1, <3>4 DEF RxInv, TypeOK
    <3>6. ASSUME NEW i \in 1..L PROVE s[i] >= OneMin <=> reg[a][i] = 1
      <4>1. s[i] \in (IF reg[a][i] = 1 THEN Highs ELSE Lows)
        BY <2>1 DEF Pulses
      <4>2. CASE reg[a][i] = 1
        <5>1. s[i] \in OneMin..255
          BY <4>1, <4>2, PulseAssumption
        <5>2. QED
          BY <4>2, <5>1 DEF OneMin
      <4>3. CASE reg[a][i] # 1
        <5>1. s[i] \in 0..(OneMin - 1)
          BY <4>1, <4>3, PulseAssumption
        <5>2. ~(s[i] >= OneMin)
          BY <5>1, LowIsZero
        <5>3. QED
          BY <4>3, <5>2
      <4>4. QED
        BY <4>2, <4>3
    <3>7. QED
      BY <3>5, <3>6
  <2>9. TrueAnswers'
    BY <2>1, <2>2 DEF TrueAnswers, Holding, PCs, callVars
  <2>10. QED
    BY <2>4, <2>5, <2>6, <2>7, <2>8, <2>9
<1>6. ASSUME NEW c \in Callers, NEW a \in Addrs, NEW v \in Values, GaugeStores(c, a, v)
      PROVE  AnswerInv'
  <2>1. /\ gauge = "listening" /\ lock = c /\ op[c].kind = "write"
        /\ a \in Heard(op[c]) /\ v = Decode(SubSeq(frame, L + 1, 2 * L)) /\ gauge' = "heard"
        /\ answer' = IF a = op[c].addr /\ v = op[c].value
                     THEN [answer EXCEPT ![c] = Bus!Wrote] ELSE answer
        /\ UNCHANGED <<lineVars, callVars, rxVars>>
    BY <1>6 DEF GaugeStores
  <2>2. /\ pc[c] = "wait" /\ answer[c] = Bus!Nothing
        /\ \A d \in Callers : d # c => pc[d] \notin Holding
    <3>1. pc[c] = "wait"
      BY <2>1 DEF Listening
    <3>2. QED
      BY <2>1, <3>1, OneHolder DEF RxInv, Fresh, Sent, Holding, PCs
  <2>3. Len(frame) = 2 * L /\ Len(Tx(op[c])) = 2 * L
    BY <1>0, <2>1, <2>2, TxFacts DEF FrameOK, Sent
  <2>4. Counted' /\ TimedOut'
    BY <2>1 DEF Counted, TimedOut, lineVars, callVars, rxVars
  <2>5. FrameOK'
    BY <2>1, <2>2, <2>3 DEF FrameOK, Sent, Holding, PCs, lineVars, callVars
  <2>6. Fresh'
    BY <2>1, <2>2 DEF Fresh, Sent, Holding, PCs, callVars
  <2>7. Listening'
    BY <2>1 DEF Listening
  <2>8. Answered'
    <3> SUFFICES ASSUME NEW d \in Callers, pc[d] \in Sent
                 PROVE  /\ op[d].kind # "read"
                        /\ op[d].kind = "write" /\ (\A i \in 1..(2 * L) : frame[i] = Tx(op[d])[i])
                             => answer'[d] = Bus!Wrote
      BY <2>1 DEF Answered, lineVars, callVars
    <3>1. d = c
      BY <2>2 DEF Sent, Holding, PCs
    <3> SUFFICES ASSUME \A i \in 1..(2 * L) : frame[i] = Tx(op[c])[i]
                 PROVE  a = op[c].addr /\ v = op[c].value
      BY <2>1, <3>1 DEF RxInv, TypeOK
    <3>2. /\ Tx(op[c]) \in Seq(Byte) /\ op[c].value \in Values
          /\ \A i \in 1..L : /\ Tx(op[c])[i] = Encode(Cmd(op[c]))[i]
                            /\ Tx(op[c])[L + i] = Encode(op[c].value)[i]
      BY <1>0, <2>1, TxFacts
    <3>3. SubSeq(frame, 1, L) = Encode(Cmd(op[c]))
      <4>1. /\ Encode(Cmd(op[c])) \in Seq({One, Zero}) /\ Len(Encode(Cmd(op[c]))) = L
        BY EncodeFacts
      <4>2. Encode(Cmd(op[c])) \in Seq(Byte)
        BY <4>1, SeqMonotonic DEF One, Zero, Byte
      <4>3. \A i \in 1..L : frame[i] \in Byte
        BY <1>0, <2>3, ElementOfSeq, LengthAssumption
      <4>4. /\ SubSeq(frame, 1, L) \in Seq(Byte)
            /\ Len(SubSeq(frame, 1, L)) = L
            /\ \A i \in 1..L : SubSeq(frame, 1, L)[i] = frame[i]
        BY <4>3, SubSeqProperties, LengthAssumption
      <4>5. \A i \in 1..L : SubSeq(frame, 1, L)[i] = Encode(Cmd(op[c]))[i]
        BY <3>2, <4>4, LengthAssumption
      <4>6. QED
        BY <4>1, <4>2, <4>4, <4>5, SeqEqual
    <3>4. a = op[c].addr
      BY <2>1, <3>3 DEF Heard
    <3>5. v = op[c].value
      <4>1. \A i \in (L + 1)..(2 * L) : frame[i] \in Byte
        BY <1>0, <2>3, ElementOfSeq, LengthAssumption
      <4>2. \A i \in 1..L : SubSeq(frame, L + 1, 2 * L)[i] = frame[L + i]
        BY <4>1, SecondHalf
      <4>3. \A i \in 1..L : SubSeq(frame, L + 1, 2 * L)[i] = Encode(op[c].value)[i]
        <5>1. \A i \in 1..L : L + i \in 1..(2 * L)
          BY LengthAssumption
        <5>2. QED
          BY <3>2, <4>2, <5>1
      <4>4. op[c].value \in [1..L -> Bit]
        BY <3>2, WordAssumption
      <4>5. \A i \in 1..L : v[i] = op[c].value[i]
        <5> SUFFICES ASSUME NEW i \in 1..L PROVE v[i] = op[c].value[i]
          OBVIOUS
        <5>1. v[i] = IF SubSeq(frame, L + 1, 2 * L)[i] >= OneMin THEN 1 ELSE 0
          BY <2>1 DEF Decode
        <5>2. Encode(op[c].value)[i] = IF op[c].value[i] = 1 THEN One ELSE Zero
          BY DEF Encode
        <5>3. op[c].value[i] \in Bit
          BY <4>4
        <5>4. v[i] = IF Encode(op[c].value)[i] >= OneMin THEN 1 ELSE 0
          BY <4>3, <5>1
        <5>5. CASE op[c].value[i] = 1
          BY <5>2, <5>4, <5>5 DEF One, OneMin
        <5>6. CASE op[c].value[i] = 0
          BY <5>2, <5>4, <5>6 DEF Zero, OneMin
        <5>7. QED
          BY <5>3, <5>5, <5>6 DEF Bit
      <4>6. v \in [1..L -> Bit]
        BY WordAssumption
      <4>7. QED
        BY <4>4, <4>5, <4>6, WordsEqual
    <3>6. QED
      BY <3>4, <3>5
  <2>9. TrueAnswers'
    BY <2>1, <2>2 DEF TrueAnswers, Holding, PCs, callVars
  <2>10. QED
    BY <2>4, <2>5, <2>6, <2>7, <2>8, <2>9
<1>7. ASSUME GaugeDeaf PROVE AnswerInv'
  <2>1. /\ UNCHANGED <<reg, answer, frame, next, noise, trail, callVars, rxVars>>
        /\ gauge = "listening" /\ gauge' = "deaf" /\ faults' > 0 /\ faults' >= faults
    BY <1>0, <1>7, BoundAssumption DEF GaugeDeaf
  <2>2. Counted'
    BY <2>1 DEF Counted, callVars, rxVars
  <2>3. FrameOK' /\ Fresh' /\ Listening' /\ Answered' /\ TimedOut'
    BY <2>1 DEF FrameOK, Fresh, Listening, Answered, TimedOut, Sent, callVars
  <2>4. TrueAnswers'
    BY <2>1 DEF TrueAnswers, callVars
  <2>5. QED
    BY <2>2, <2>3, <2>4
<1>8. ASSUME NEW r \in [Addrs -> Values], Tick(r) PROVE AnswerInv'
  <2>1. UNCHANGED <<gauge, answer, lineVars, callVars, rxVars>>
    BY <1>8 DEF Tick
  <2>2. QED
    BY <2>1 DEF Counted, FrameOK, Fresh, Listening, Answered, TimedOut, TrueAnswers,
                lineVars, callVars, rxVars
<1>9. QED
  BY <1>1, <1>2, <1>3, <1>4, <1>5, <1>6, <1>7, <1>8 DEF Gauge, Line

(* The steps of a thread keep it too.                                       *)
LEMMA ThreadAnswers ==
  ASSUME QuietLine, AnswerInv, RxInv', NEW c \in Callers,
         (\E r \in Bus!Requests : Call(c, r)) \/ LockXfer(c) \/ Transact(c)
  PROVE  AnswerInv'
<1> USE DEF AnswerInv
<1>0. /\ pc \in [Callers -> PCs] /\ code \in [Callers -> Codes]
      /\ answer \in [Callers -> Bus!Results] /\ lock \in Callers \cup {NoCaller}
      /\ \A d \in Callers : op[d] \in Bus!Requests
      /\ op \in [Callers -> Bus!Requests]
  BY DEF RxInv, TypeOK
<1>1. ASSUME NEW r \in Bus!Requests, Call(c, r) PROVE AnswerInv'
  <2>1. /\ pc[c] = "idle" /\ pc' = [pc EXCEPT ![c] = "lock"]
        /\ code' = [code EXCEPT ![c] = "none"] /\ op' = [op EXCEPT ![c] = r]
        /\ answer' = [answer EXCEPT ![c] = Bus!Nothing]
        /\ UNCHANGED <<reg, gauge, lineVars, lock, val, rxVars>>
    BY <1>1 DEF Call, Goto
  <2>2. /\ pc'[c] = "lock" /\ answer'[c] = Bus!Nothing
        /\ \A d \in Callers : d # c => /\ pc'[d] = pc[d] /\ code'[d] = code[d]
                                      /\ op'[d] = op[d] /\ answer'[d] = answer[d]
    BY <1>0, <2>1
  <2>3. Counted' /\ FrameOK' /\ TimedOut'
    BY <2>1, <2>2 DEF Counted, FrameOK, TimedOut, Sent, lineVars, rxVars
  <2>4. Fresh' /\ Answered' /\ TrueAnswers'
    BY <2>1, <2>2 DEF Fresh, Answered, TrueAnswers, Sent, lineVars
  <2>5. Listening'
    BY <2>1, <2>2 DEF Listening
  <2>6. QED
    BY <2>3, <2>4, <2>5
<1>2. ASSUME NEW there \in {"break", "arm", "unlock", "idle"},
             pc[c] \in {"lock", "break", "unlock", "abort"},
             pc' = [pc EXCEPT ![c] = there],
             code' = code \/ (code' = [code EXCEPT ![c] = "EIO"] /\ there = "unlock"),
             there = "unlock" => code'[c] = "EIO",
             there \in {"break", "arm"} => pc[c] \in {"lock", "break"},
             pc[c] = "lock" => lock = NoCaller /\ lock' = c,
             lock' \in {c, NoCaller},
             UNCHANGED <<gaugeVars, lineVars, op, val, rx>>
      PROVE  AnswerInv'
  <2>1. /\ pc'[c] = there
        /\ \A d \in Callers : d # c => pc'[d] = pc[d] /\ code'[d] = code[d]
    BY <1>0, <1>2
  <2>2. gauge # "listening"
    <3>1. pc[c] # "lock" => lock = c
      BY <1>2 DEF RxInv, LockHeld, Holding, PCs
    <3>2. QED
      BY <1>2, <3>1, CallerAssumption DEF Listening
  <2>3. Counted' /\ FrameOK'
    BY <1>2, <2>1 DEF Counted, FrameOK, Sent, gaugeVars, lineVars
  <2>4. Fresh' /\ Answered'
    BY <1>2, <2>1 DEF Fresh, Answered, Sent, gaugeVars, lineVars
  <2>5. Listening'
    BY <1>2, <2>2 DEF Listening, gaugeVars
  <2>6. TimedOut' /\ TrueAnswers'
    BY <1>2, <2>1 DEF TimedOut, TrueAnswers, gaugeVars, lineVars
  <2>7. QED
    BY <2>3, <2>4, <2>5, <2>6
<1>a. pc[c] \in {"break", "abort", "unlock"} => lock = c
  BY DEF RxInv, LockHeld, Holding, PCs
<1>3. ASSUME LockXfer(c) PROVE AnswerInv'
  <2>1. /\ pc[c] = "lock" /\ lock = NoCaller /\ lock' = c /\ code' = code
        /\ pc' = [pc EXCEPT ![c] = "break"]
        /\ UNCHANGED <<gaugeVars, lineVars, op, val, rx>>
    BY <1>3 DEF LockXfer, Goto, rxVars
  <2>2. QED
    BY <1>2, <2>1
<1>4. ASSUME Break(c) PROVE AnswerInv'
  <2>1. /\ pc[c] = "break" /\ lock' = lock /\ code' = code
        /\ pc' = [pc EXCEPT ![c] = "arm"]
        /\ UNCHANGED <<gaugeVars, lineVars, op, val, rx>>
    BY <1>4 DEF Break, Goto, rxVars
  <2>2. lock' \in {c, NoCaller}
    BY <1>a, <2>1
  <2>3. QED
    BY <1>2, <2>1, <2>2
<1>5. ASSUME BreakFails(c) PROVE AnswerInv'
  <2>1. /\ pc[c] = "break" /\ lock' = lock /\ code' = [code EXCEPT ![c] = "EIO"]
        /\ pc' = [pc EXCEPT ![c] = "unlock"]
        /\ UNCHANGED <<gaugeVars, lineVars, op, val, rx>>
    BY <1>5 DEF BreakFails, Goto, rxVars
  <2>2. lock' \in {c, NoCaller} /\ code'[c] = "EIO"
    BY <1>0, <1>a, <2>1
  <2>3. QED
    BY <1>2, <2>1, <2>2
<1>6. ASSUME Unlock(c) PROVE AnswerInv'
  <2>1. /\ pc[c] = "unlock" /\ lock' = NoCaller /\ code' = code
        /\ pc' = [pc EXCEPT ![c] = "idle"]
        /\ UNCHANGED <<gaugeVars, lineVars, op, val, rx>>
    BY <1>6 DEF Unlock, Goto, rxVars
  <2>2. QED
    BY <1>2, <2>1
<1>b. ASSUME pc[c] \in Holding, NEW d \in Callers, d # c PROVE pc[d] \notin Holding
  BY <1>b, OneHolder DEF RxInv
<1>7. ASSUME Arm(c) PROVE AnswerInv'
  <2>1. /\ pc[c] = "arm" /\ pc' = [pc EXCEPT ![c] = "send"]
        /\ rx' = << >> /\ frame' = << >> /\ next' = 1 /\ faults' = 0 /\ gauge' = "deaf"
        /\ UNCHANGED <<reg, answer, lock, op, code, val>>
    BY <1>7 DEF Arm, Goto
  <2>2. /\ pc'[c] = "send"
        /\ \A d \in Callers : d # c => pc'[d] = pc[d] /\ pc[d] \notin Holding
    BY <1>0, <1>b, <2>1 DEF Holding, PCs
  <2>3. Counted'
    BY <2>1, <2>2, EmptySeq DEF Counted, Holding, PCs
  <2>4. FrameOK' /\ Answered' /\ Listening'
    BY <2>1, <2>2 DEF FrameOK, Answered, Listening, Sent, Holding, PCs
  <2>5. Fresh' /\ TimedOut' /\ TrueAnswers'
    BY <2>1, <2>2 DEF Fresh, TimedOut, TrueAnswers, Sent, Holding, PCs
  <2>6. QED
    BY <2>3, <2>4, <2>5
<1>8. ASSUME Send(c) PROVE AnswerInv'
  <2>1. /\ pc[c] = "send" /\ pc' = [pc EXCEPT ![c] = "wait"]
        /\ gauge' = "listening"
        /\ \/ frame' = Tx(op[c]) /\ UNCHANGED faults
           \/ faults < MaxFaults /\ faults' = faults + 1 /\ frame' \in OnLine(op[c])
        /\ UNCHANGED <<reg, answer, next, noise, trail, lock, op, code, val, rxVars>>
    BY <1>8 DEF Send, Goto
  <2>2. /\ pc'[c] = "wait" /\ lock = c
        /\ \A d \in Callers : d # c => pc'[d] = pc[d] /\ pc[d] \notin Holding
    BY <1>0, <1>b, <2>1 DEF Holding, PCs, RxInv, LockHeld
  <2>3. next = 1 /\ Len(rx) = 0 /\ faults = 0
    <3>1. frame = << >> /\ faults = 0
      BY <2>1 DEF RxInv, SendStart
    <3>2. next = 1
      BY <3>1, EmptySeq DEF RxInv, TypeOK
    <3>3. rx \in Seq(Byte) /\ Len(rx) <= next - 1
      BY <2>1 DEF RxInv, TypeOK, Counted
    <3>4. QED
      BY <3>1, <3>2, <3>3, LenProperties
  <2>4. /\ Len(frame') = Len(Tx(op[c]))
        /\ faults' = 0 => frame' = Tx(op[c])
    <3>1. CASE frame' = Tx(op[c]) /\ UNCHANGED faults
      BY <3>1
    <3>2. CASE faults < MaxFaults /\ faults' = faults + 1 /\ frame' \in OnLine(op[c])
      <4>1. PICK i \in 1..Len(Tx(op[c])), b \in Noise : frame' = [Tx(op[c]) EXCEPT ![i] = b]
        BY <3>2 DEF OnLine
      <4>2. Tx(op[c]) \in Seq(Byte) /\ b \in Byte
        BY <1>0, TxFacts, PulseAssumption
      <4>3. Len(frame') = Len(Tx(op[c]))
        BY <4>1, <4>2, ExceptSeq
      <4>4. QED
        BY <2>3, <3>2, <4>3
    <3>3. QED
      BY <2>1, <3>1, <3>2
  <2>5. Counted'
    BY <2>1, <2>2, <2>3 DEF Counted, Holding, PCs, rxVars
  <2>6. FrameOK'
    BY <2>1, <2>2, <2>3, <2>4, LengthAssumption DEF FrameOK, Sent, Holding, PCs
  <2>7. Fresh' /\ Answered' /\ Listening'
    BY <2>1, <2>2 DEF Fresh, Answered, Listening, Sent, Holding, PCs
  <2>8. TimedOut' /\ TrueAnswers'
    BY <2>1, <2>2 DEF TimedOut, TrueAnswers, Holding, PCs
  <2>9. QED
    BY <2>5, <2>6, <2>7, <2>8
<1>9. ASSUME NEW k \in 0..(2 * L), SendFails(c, k) PROVE AnswerInv'
  <2>1. /\ pc[c] = "send" /\ pc' = [pc EXCEPT ![c] = "abort"]
        /\ code' = [code EXCEPT ![c] = "EIO"] /\ gauge' = "deaf"
        /\ UNCHANGED <<reg, answer, next, faults, noise, trail, lock, op, val, rxVars>>
    BY <1>9 DEF SendFails, Goto
  <2>2. /\ pc'[c] = "abort"
        /\ \A d \in Callers : d # c => /\ pc'[d] = pc[d] /\ pc[d] \notin Holding
                                      /\ code'[d] = code[d]
    BY <1>0, <1>b, <2>1 DEF Holding, PCs
  <2>3. Counted' /\ FrameOK' /\ Answered' /\ Listening'
    BY <2>1, <2>2 DEF Counted, FrameOK, Answered, Listening, Sent, Holding, PCs
  <2>4. Fresh' /\ TimedOut' /\ TrueAnswers'
    BY <2>1, <2>2 DEF Fresh, TimedOut, TrueAnswers, Sent, Holding, PCs
  <2>5. QED
    BY <2>3, <2>4
<1>10. ASSUME Abort(c) PROVE AnswerInv'
  <2>1. /\ pc[c] = "abort" /\ pc' = [pc EXCEPT ![c] = "unlock"] /\ lock' = lock
        /\ code' = code /\ UNCHANGED <<gaugeVars, lineVars, op, val, rx>>
    BY <1>10 DEF Abort, Goto, DisarmReceive
  <2>2. lock' \in {c, NoCaller} /\ code'[c] = "EIO"
    BY <1>a, <2>1 DEF RxInv, WaitOutcome
  <2>3. QED
    BY <1>2, <2>1, <2>2
<1>c. ASSUME NEW there \in {"disarm", "check", "unlock"},
             pc[c] \in {"wait", "disarm", "check"},
             pc' = [pc EXCEPT ![c] = there], lock' = lock, gauge # "listening",
             \A d \in Callers : d # c => code'[d] = code[d],
             code'[c] = "ETIMEDOUT" => faults > 0,
             there = "unlock" /\ code'[c] = "ok" =>
                /\ op[c].kind = "read" => answer[c] = Bus!Read(val'[c])
                /\ op[c].kind = "write" /\ gauge = "heard" => answer[c] = Bus!Wrote,
             \A d \in Callers : d # c => val'[d] = val[d],
             UNCHANGED <<gaugeVars, lineVars, op, rx>>
      PROVE  AnswerInv'
  <2>1. /\ pc'[c] = there
        /\ \A d \in Callers : d # c => pc'[d] = pc[d]
    BY <1>0, <1>c
  <2>2. Counted' /\ FrameOK'
    BY <1>c, <2>1 DEF Counted, FrameOK, Sent, gaugeVars, lineVars
  <2>3. Fresh' /\ Answered'
    BY <1>c, <2>1 DEF Fresh, Answered, Sent, gaugeVars, lineVars
  <2>4. Listening'
    BY <1>c DEF Listening, gaugeVars
  <2>5. TimedOut'
    BY <1>c, <2>1 DEF TimedOut, lineVars
  <2>6. TrueAnswers'
    BY <1>c, <2>1 DEF TrueAnswers, gaugeVars
  <2>7. QED
    BY <2>2, <2>3, <2>4, <2>5, <2>6
<1>d. /\ frame \in Seq(Byte) /\ Len(frame) \in Nat /\ Len(frame) <= 2 * L
      /\ rx \in Seq(Byte) /\ Len(rx) \in Nat /\ next \in Nat /\ next <= Len(frame) + 1
      /\ faults \in Nat
  <2>1. /\ frame \in Seq(Byte) /\ rx \in Seq(Byte) /\ next \in 1..(2 * L + 1)
        /\ Len(frame) <= 2 * L /\ next <= Len(frame) + 1 /\ faults \in 0..MaxFaults
    BY DEF RxInv, TypeOK
  <2>2. QED
    BY <2>1, LenProperties, LengthAssumption, BoundAssumption
<1>e. Len(Tx(op[c])) \in {L, 2 * L} /\ op[c].kind \in {"read", "write"}
  BY <1>0, TxFacts
<1>f. ASSUME pc[c] \in Sent, Len(rx) = 2 * L
      PROVE  next = 2 * L + 1 /\ Len(frame) = 2 * L /\ \A i \in 1..(2 * L) : rx[i] = frame[i]
  <2>1. /\ Len(rx) <= next - 1
        /\ Len(rx) = next - 1 => \A i \in 1..Len(rx) : rx[i] = frame[i]
    BY <1>f DEF Counted, Sent
  <2>2. next - 1 = 2 * L /\ Len(frame) = 2 * L
    BY <1>d, <1>f, <2>1, LengthAssumption
  <2>3. \A i \in 1..Len(rx) : rx[i] = frame[i]
    BY <1>f, <2>1, <2>2
  <2>4. next = 2 * L + 1
    BY <1>d, <2>2, LengthAssumption
  <2>5. \A i \in 1..(2 * L) : rx[i] = frame[i]
    BY <1>f, <2>3
  <2>6. QED
    BY <2>2, <2>4, <2>5
<1>g. ASSUME pc[c] \in Sent, Len(rx) = 2 * L PROVE gauge # "listening"
  <2> SUFFICES ASSUME gauge = "listening" PROVE FALSE
    OBVIOUS
  <2>1. Len(Tx(op[c])) = 2 * L /\ (op[c].kind = "write" => next <= 2 * L)
    BY <1>f, <1>g DEF FrameOK
  <2>2. op[c].kind = "write"
    BY <1>0, <1>e, <2>1, TxFacts, LengthAssumption
  <2>3. QED
    BY <1>f, <1>g, <2>1, <2>2, LengthAssumption
<1>h. pc[c] \in {"wait", "disarm", "check"} => pc[c] \in Sent
  BY DEF Sent
<1>11. ASSUME WaitDone(c) PROVE AnswerInv'
  <2>1. /\ pc[c] = "wait" /\ done > 0 /\ pc' = [pc EXCEPT ![c] = "disarm"] /\ lock' = lock
        /\ code' = [code EXCEPT ![c] = "ok"] /\ val' = val
        /\ UNCHANGED <<gaugeVars, lineVars, op, rx>>
    BY <1>11 DEF WaitDone, Goto
  <2>2. rxWant > 0
    BY <2>1, LengthAssumption DEF RxInv, ArmedOwner, Armed
  <2>3. Len(rx) = 2 * L
    BY <2>1, <2>2 DEF RxInv, DoneMeansFull
  <2>4. gauge # "listening"
    BY <1>g, <1>h, <2>1, <2>3
  <2>5. code'[c] = "ok" /\ \A d \in Callers : d # c => code'[d] = code[d]
    BY <1>0, <2>1
  <2>6. QED
    BY <1>c, <2>1, <2>4, <2>5
<1>12. ASSUME WaitTimesOut(c) PROVE AnswerInv'
  <2>1. /\ pc[c] = "wait" /\ done = 0 /\ pc' = [pc EXCEPT ![c] = "disarm"] /\ lock' = lock
        /\ code' = [code EXCEPT ![c] = "ETIMEDOUT"] /\ val' = val
        /\ next = Len(frame) + 1 /\ gauge # "listening"
        /\ UNCHANGED <<gaugeVars, lineVars, op, rx>>
    BY <1>12 DEF WaitTimesOut, Goto, Quiet, rxVars
  <2>2. faults > 0
    <3> SUFFICES ASSUME faults = 0 PROVE FALSE
      BY <1>d
    <3>1. gauge = "heard" /\ Len(frame) = 2 * L
      BY <1>h, <2>1 DEF FrameOK, RxInv, TypeOK
    <3>2. Len(rx) = next - 1
      BY <2>1 DEF Counted
    <3>3. Len(rx) = 2 * L
      BY <1>d, <2>1, <3>1, <3>2
    <3>4. QED
      BY <2>1, <3>3 DEF RxInv, DoneMeansFull
  <2>3. \A d \in Callers : d # c => code'[d] = code[d]
    BY <1>0, <2>1
  <2>4. QED
    BY <1>c, <2>1, <2>2, <2>3
<1>13. ASSUME Disarm(c) PROVE AnswerInv'
  <2>1. /\ pc[c] = "disarm" /\ lock' = lock /\ code' = code /\ val' = val
        /\ pc' = [pc EXCEPT ![c] = IF code[c] = "ok" THEN "check" ELSE "unlock"]
        /\ UNCHANGED <<gaugeVars, lineVars, op, rx>>
    BY <1>13 DEF Disarm, DisarmReceive, Goto
  <2>2. gauge # "listening"
    BY <1>a, <2>1 DEF Listening, RxInv, LockHeld, Holding, PCs
  <2>3. code[c] = "ETIMEDOUT" => faults > 0
    BY <2>1 DEF TimedOut
  <2>4. CASE code[c] = "ok"
    <3>1. pc' = [pc EXCEPT ![c] = "check"]
      BY <2>1, <2>4
    <3>2. QED
      BY <1>c, <2>1, <2>2, <2>3, <3>1
  <2>5. CASE code[c] # "ok"
    <3>1. pc' = [pc EXCEPT ![c] = "unlock"]
      BY <2>1, <2>5
    <3>2. QED
      BY <1>c, <2>1, <2>2, <2>3, <2>5, <3>1
  <2>6. QED
    BY <2>4, <2>5
<1>14. ASSUME Check(c) PROVE AnswerInv'
  <2> DEFINE r == op[c]
             n == Len(Tx(r))
  <2>1. /\ pc[c] = "check" /\ lock' = lock /\ pc' = [pc EXCEPT ![c] = "unlock"]
        /\ UNCHANGED <<gaugeVars, lineVars, op, rx>>
    BY <1>14 DEF Check, Goto, rxVars
  <2>2. IF SubSeq(rx, 1, n) # Tx(r)
        THEN code' = [code EXCEPT ![c] = "EIO"] /\ val' = val
        ELSE /\ code' = code
             /\ val' = IF r.kind = "read"
                       THEN [val EXCEPT ![c] = Decode(SubSeq(rx, n + 1, n + L))] ELSE val
    BY <1>14 DEF Check
  <2> HIDE DEF r, n
  <2>3. gauge # "listening"
    BY <1>a, <2>1 DEF Listening, RxInv, LockHeld, Holding, PCs
  <2>4. /\ \A d \in Callers : d # c => code'[d] = code[d] /\ val'[d] = val[d]
        /\ code'[c] # "ETIMEDOUT"
    <3>1. val \in [Callers -> [1..L -> Bit]] /\ code[c] = "ok"
      BY <2>1 DEF RxInv, TypeOK, WaitOutcome
    <3>2. QED
      BY <1>0, <2>2, <3>1
  <2>5. ASSUME code'[c] = "ok"
        PROVE  /\ op[c].kind = "read" => answer[c] = Bus!Read(val'[c])
               /\ op[c].kind = "write" /\ gauge = "heard" => answer[c] = Bus!Wrote
    <3>1. SubSeq(rx, 1, n) = Tx(r)
      BY <1>0, <2>2, <2>5
    <3>2. Len(rx) = 2 * L
      BY <2>1 DEF RxInv, WaitOutcome
    <3>3. Len(frame) = 2 * L /\ \A i \in 1..(2 * L) : rx[i] = frame[i] /\ rx[i] \in Byte
      BY <1>d, <1>f, <1>h, <2>1, <3>2, ElementOfSeq
    <3>4. n \in {L, 2 * L} /\ (r.kind = "read" => n = L) /\ (r.kind = "write" => n = 2 * L)
      BY <1>0, TxFacts DEF r, n
    <3>5. \A i \in 1..n : frame[i] = Tx(r)[i]
      <4>1. \A i \in 1..n : rx[i] \in Byte
        BY <3>3, <3>4, LengthAssumption
      <4>2. \A i \in 1..(n - 1 + 1) : SubSeq(rx, 1, n)[i] = rx[1 + i - 1]
        BY <3>4, <4>1, SubSeqProperties, LengthAssumption
      <4>3. QED
        BY <3>1, <3>3, <3>4, <4>2, LengthAssumption
    <3>6. CASE r.kind = "read"
      <4>1. n = L /\ n # 2 * L
        BY <3>4, <3>6, LengthAssumption
      <4>2. gauge = "heard"
        BY <1>h, <2>1, <3>3, <4>1 DEF FrameOK, r, n
      <4>3. PICK w \in Values : /\ answer[c] = Bus!Read(w)
                               /\ \A i \in 1..L : frame[L + i] >= OneMin <=> w[i] = 1
        BY <1>h, <2>1, <3>5, <3>6, <4>1, <4>2 DEF Answered, r
      <4>4. val'[c] = Decode(SubSeq(rx, L + 1, L + L))
        <5>1. val \in [Callers -> [1..L -> Bit]]
          BY DEF RxInv, TypeOK
        <5>2. QED
          BY <2>2, <3>1, <3>6, <4>1, <5>1
      <4>5. \A i \in 1..L : SubSeq(rx, L + 1, L + L)[i] = frame[L + i]
        <5>1. \A i \in (L + 1)..(L + L) : rx[i] \in Byte
          BY <3>3, LengthAssumption
        <5>2. \A i \in 1..(L + L - (L + 1) + 1) :
                SubSeq(rx, L + 1, L + L)[i] = rx[L + 1 + i - 1]
          BY <5>1, SubSeqProperties, LengthAssumption
        <5>3. SUFFICES ASSUME NEW i \in 1..L
                       PROVE  SubSeq(rx, L + 1, L + L)[i] = frame[L + i]
          OBVIOUS
        <5>4. i \in 1..(L + L - (L + 1) + 1) /\ L + 1 + i - 1 = L + i /\ L + i \in 1..(2 * L)
          BY LengthAssumption
        <5>5. SubSeq(rx, L + 1, L + L)[i] = rx[L + i]
          BY <5>2, <5>4
        <5>6. QED
          BY <3>3, <5>4, <5>5
      <4>6. /\ Decode(SubSeq(rx, L + 1, L + L)) \in [1..L -> Bit]
            /\ \A i \in 1..L : Decode(SubSeq(rx, L + 1, L + L))[i]
                               = IF frame[L + i] >= OneMin THEN 1 ELSE 0
        BY <4>5 DEF Decode, Bit
      <4>7. w \in [1..L -> Bit]
        BY WordAssumption
      <4>8. \A i \in 1..L : Decode(SubSeq(rx, L + 1, L + L))[i] = w[i]
        <5> SUFFICES ASSUME NEW i \in 1..L
                     PROVE  Decode(SubSeq(rx, L + 1, L + L))[i] = w[i]
          OBVIOUS
        <5>1. w[i] \in {0, 1}
          BY <4>7 DEF Bit
        <5>2. frame[L + i] >= OneMin <=> w[i] = 1
          BY <4>3
        <5>3. QED
          BY <4>6, <5>1, <5>2
      <4>9. Decode(SubSeq(rx, L + 1, L + L)) = w
        BY <4>6, <4>7, <4>8, WordsEqual
      <4>10. QED
        BY <3>6, <4>3, <4>4, <4>9 DEF r
    <3>7. CASE r.kind = "write"
      <4>1. gauge = "heard" => answer[c] = Bus!Wrote
        BY <1>h, <2>1, <3>4, <3>5, <3>7 DEF Answered, r
      <4>2. QED
        BY <3>7, <4>1 DEF r
    <3>8. QED
      BY <1>e, <3>6, <3>7 DEF r
  <2>6. QED
    BY <1>c, <2>1, <2>3, <2>4, <2>5
<1>15. QED
  BY <1>1, <1>3, <1>4, <1>5, <1>6, <1>7, <1>8, <1>9, <1>10, <1>11, <1>12, <1>13, <1>14
  DEF Transact

LEMMA InitAnswerInv == Init => AnswerInv
<1> SUFFICES ASSUME Init PROVE AnswerInv
  OBVIOUS
<1>1. RxInv
  BY InitRxInv
<1>2. Counted /\ FrameOK /\ Fresh /\ Listening /\ Answered /\ TimedOut /\ TrueAnswers
  BY DEF Init, Counted, FrameOK, Fresh, Listening, Answered, TimedOut, TrueAnswers, Sent
<1>3. QED
  BY <1>1, <1>2 DEF AnswerInv

LEMMA NextAnswerInv ==
  ASSUME QuietLine
  PROVE  AnswerInv /\ [Next]_vars => AnswerInv'
<1> SUFFICES ASSUME AnswerInv, [Next]_vars PROVE AnswerInv'
  OBVIOUS
<1>1. RxInv'
  BY NextRxInv DEF AnswerInv
<1>2. CASE UNCHANGED vars
  BY <1>1, <1>2 DEF vars, gaugeVars, lineVars, callVars, rxVars, AnswerInv, Counted, FrameOK,
                    Fresh, Listening, Answered, TimedOut, TrueAnswers
<1>3. ASSUME NEW c \in Callers,
             (\E r \in Bus!Requests : Call(c, r)) \/ LockXfer(c) \/ Transact(c)
      PROVE  AnswerInv'
  BY <1>1, <1>3, QuietLine, ThreadAnswers
<1>4. CASE Gauge \/ Line \/ \E r \in [Addrs -> Values] : Tick(r)
  BY <1>1, <1>4, QuietLine, LineAnswers
<1>5. QED
  BY <1>2, <1>3, <1>4 DEF Next

THEOREM AnswerInvariant ==
  ASSUME QuietLine
  PROVE  Spec => []AnswerInv
<1>1. Init => AnswerInv
  BY InitAnswerInv
<1>2. AnswerInv /\ [Next]_vars => AnswerInv'
  BY QuietLine, NextAnswerInv
<1>3. QED
  BY <1>1, <1>2, PTL DEF Spec

(* On a quiet line a transaction that reports success reports the gauge's
   answer to it.                                                            *)
THEOREM AnswerSafety ==
  ASSUME QuietLine
  PROVE  Spec => []SuccessIsAnswered
<1>1. AnswerInv => SuccessIsAnswered
  BY DEF AnswerInv, TrueAnswers, SuccessIsAnswered
<1>2. Spec => []AnswerInv
  BY QuietLine, AnswerInvariant
<1>3. QED
  BY <1>1, <1>2, PTL

(* On a quiet line that loses nothing no transaction times out.             *)
THEOREM TimeoutSafety ==
  ASSUME QuietLine
  PROVE  Spec => []NoFalseTimeout
<1>1. AnswerInv => NoFalseTimeout
  BY DEF AnswerInv, TimedOut, NoFalseTimeout
<1>2. Spec => []AnswerInv
  BY QuietLine, AnswerInvariant
<1>3. QED
  BY <1>1, <1>2, PTL

-----------------------------------------------------------------------------
(* HdqUart implements HdqBus: the instant a request is served is the one at
   which the gauge has the whole of it, a call returns at its unlock, and
   everything else the line and the driver do is invisible.                 *)
Ret == [c \in Callers |-> Returned(c)]

(* A step that returns from no call and answers none changes nothing above. *)
LEMMA Invisible ==
  ASSUME UNCHANGED <<reg, op, answer>>,
         \A c \in Callers : \/ pc'[c] = pc[c] /\ code'[c] = code[c] /\ val'[c] = val[c]
                            \/ pc[c] # "idle" /\ pc'[c] # "idle"
  PROVE  UNCHANGED <<reg, Phase, op, answer, Ret>>
<1>1. ASSUME NEW c \in Callers PROVE Returned(c)' = Returned(c)
  BY DEF Returned
<1>2. Phase' = Phase
  BY DEF Phase
<1>3. Ret' = Ret
  BY <1>1 DEF Ret
<1>4. QED
  BY <1>2, <1>3

(* The thread of c calls, and the gauge driver sees a call.                 *)
LEMMA CallIsCall ==
  ASSUME TypeOK, NEW c \in Callers, NEW r \in Bus!Requests, Call(c, r)
  PROVE  Bus!Call(c, r)
<1>1. /\ pc[c] = "idle" /\ pc' = [pc EXCEPT ![c] = "lock"]
      /\ op' = [op EXCEPT ![c] = r] /\ code' = [code EXCEPT ![c] = "none"]
      /\ answer' = [answer EXCEPT ![c] = Bus!Nothing] /\ reg' = reg /\ val' = val
  BY DEF Call, Goto
<1>2. pc \in [Callers -> PCs] /\ answer \in [Callers -> Bus!Results]
  BY DEF TypeOK
<1>3. op \in [Callers -> Bus!Requests] /\ code \in [Callers -> Codes]
  BY DEF TypeOK
<1>4. Phase[c] = "idle"
  BY <1>1 DEF Phase
<1>5. Phase' = [Phase EXCEPT ![c] = "called"]
  <2>1. pc'[c] = "lock" /\ answer'[c].st = "none"
    BY <1>1, <1>2 DEF Bus!Nothing
  <2>2. \A d \in Callers : d # c => pc'[d] = pc[d] /\ answer'[d] = answer[d]
    BY <1>1, <1>2
  <2>3. QED
    BY <2>1, <2>2 DEF Phase
<1>6. Ret' = [Ret EXCEPT ![c] = Bus!Nothing]
  <2>1. Returned(c)' = Bus!Nothing
    BY <1>1, <1>2 DEF Returned, Bus!Nothing
  <2>2. ASSUME NEW d \in Callers, d # c PROVE Returned(d)' = Returned(d)
    <3>1. pc'[d] = pc[d] /\ code'[d] = code[d] /\ op'[d] = op[d] /\ val' = val
      BY <1>1, <1>2, <1>3, <2>2
    <3>2. QED
      BY <3>1 DEF Returned
  <2>3. QED
    BY <2>1, <2>2 DEF Ret
<1>7. QED
  BY <1>1, <1>4, <1>5, <1>6 DEF Bus!Call, Ret

(* What an unlock does above, by what the transaction came to.              *)
LEMMA UnlockReturns ==
  ASSUME AnswerInv, NEW c \in Callers, Unlock(c)
  PROVE  Bus!Succeed(c) \/ Bus!WriteMissed(c) \/ Bus!Fail(c)
<1>1. /\ pc[c] = "unlock" /\ pc' = [pc EXCEPT ![c] = "idle"]
      /\ UNCHANGED <<reg, answer, op, code, val>>
  BY DEF Unlock, Goto, gaugeVars
<1>2. pc \in [Callers -> PCs] /\ op[c] \in Bus!Requests /\ code[c] \in Codes
  BY DEF AnswerInv, RxInv, TypeOK
<1>3. pc'[c] = "idle" /\ \A d \in Callers : d # c => pc'[d] = pc[d]
  BY <1>1, <1>2
<1>4. Phase' = [Phase EXCEPT ![c] = "idle"]
  BY <1>1, <1>3 DEF Phase
<1>5. ASSUME NEW d \in Callers, d # c PROVE Returned(d)' = Returned(d)
  BY <1>1, <1>3, <1>5 DEF Returned
<1>6. Ret' = [Ret EXCEPT ![c] = Returned(c)']
  BY <1>5 DEF Ret
<1>7. code[c] # "none"
  BY <1>1 DEF AnswerInv, RxInv, WaitOutcome
<1>8. Phase[c] = IF answer[c].st = "none" THEN "called" ELSE "served"
  BY <1>1 DEF Phase
<1>9. op[c].kind \in {"read", "write"}
  BY <1>2 DEF Bus!Requests
<1>10. CASE code[c] # "ok"
  <2>1. Returned(c)' = Bus!Failed
    BY <1>1, <1>3, <1>7, <1>10 DEF Returned, Bus!Failed
  <2>2. QED
    BY <1>1, <1>4, <1>6, <1>8, <2>1 DEF Bus!Fail, Ret
<1>11. CASE code[c] = "ok" /\ op[c].kind = "read"
  <2>1. answer[c] = Bus!Read(val[c])
    BY <1>1, <1>11 DEF AnswerInv, TrueAnswers
  <2>2. Returned(c)' = answer[c] /\ answer[c].st # "none"
    BY <1>1, <1>3, <1>11, <2>1 DEF Returned, Bus!Read
  <2>3. QED
    BY <1>1, <1>4, <1>6, <1>8, <2>2 DEF Bus!Succeed, Ret
<1>12. CASE code[c] = "ok" /\ op[c].kind = "write"
  <2>1. Returned(c)' = Bus!Wrote
    BY <1>1, <1>3, <1>12 DEF Returned, Bus!Wrote
  <2>2. CASE gauge = "heard"
    <3>1. answer[c] = Bus!Wrote /\ answer[c].st # "none"
      BY <1>1, <1>12, <2>2 DEF AnswerInv, TrueAnswers, Bus!Wrote
    <3>2. QED
      BY <1>1, <1>4, <1>6, <1>8, <2>1, <3>1 DEF Bus!Succeed, Ret
  <2>3. CASE gauge # "heard"
    <3>1. answer[c] = Bus!Nothing
      BY <1>1, <1>12, <2>3 DEF AnswerInv, Fresh
    <3>2. Phase[c] = "called"
      BY <1>8, <3>1 DEF Bus!Nothing
    <3>3. QED
      BY <1>1, <1>4, <1>6, <1>12, <2>1, <3>2 DEF Bus!WriteMissed, Ret
  <2>4. QED
    BY <2>2, <2>3
<1>13. QED
  BY <1>9, <1>10, <1>11, <1>12

(* Every other step of a thread is invisible above.                         *)
LEMMA ThreadInvisible ==
  ASSUME TypeOK, NEW c \in Callers, LockXfer(c) \/ Transact(c), ~Unlock(c)
  PROVE  UNCHANGED <<reg, Phase, op, answer, Ret>>
<1>1. pc \in [Callers -> PCs] /\ code \in [Callers -> Codes]
  BY DEF TypeOK
<1>2. val \in [Callers -> [1..L -> Bit]]
  BY DEF TypeOK
<1>3. /\ UNCHANGED <<reg, op, answer>>
      /\ pc[c] # "idle" /\ \E there \in PCs \ {"idle"} : pc' = [pc EXCEPT ![c] = there]
      /\ code' = code \/ \E x \in Codes : code' = [code EXCEPT ![c] = x]
      /\ val' = val \/ \E w : val' = [val EXCEPT ![c] = w]
  BY Z3T(30) DEF LockXfer, Transact, Break, BreakFails, Arm, Send, SendFails, Abort, WaitDone, WaitTimesOut,
         Disarm, Check, Goto, gaugeVars, PCs, Codes
<1>4. pc'[c] # "idle"
  BY <1>1, <1>3
<1>5. \A d \in Callers : d # c => pc'[d] = pc[d] /\ code'[d] = code[d] /\ val'[d] = val[d]
  BY <1>1, <1>2, <1>3
<1>6. QED
  BY <1>3, <1>4, <1>5, Invisible

(* The gauge serves the request of the thread that waits for it.            *)
LEMMA AnswerServes ==
  ASSUME AnswerInv, NEW c \in Callers, gauge = "listening", lock = c,
         NEW x \in Bus!Results, x.st # "none", answer' = [answer EXCEPT ![c] = x],
         UNCHANGED callVars
  PROVE  /\ Phase[c] = "called" /\ Phase' = [Phase EXCEPT ![c] = "served"]
         /\ UNCHANGED <<op, Ret>>
<1>1. pc[c] = "wait"
  BY DEF AnswerInv, Listening
<1>2. answer[c] = Bus!Nothing
  BY <1>1 DEF AnswerInv, Fresh, Sent
<1>3. pc' = pc /\ op' = op /\ code' = code /\ val' = val
  BY DEF callVars
<1>4. answer \in [Callers -> Bus!Results]
  BY DEF AnswerInv, RxInv, TypeOK
<1>5. answer'[c] = x /\ \A d \in Callers : d # c => answer'[d] = answer[d]
  BY <1>4
<1>6. Phase[c] = "called"
  BY <1>1, <1>2 DEF Phase, Bus!Nothing
<1>7. Phase' = [Phase EXCEPT ![c] = "served"]
  BY <1>1, <1>3, <1>5 DEF Phase
<1>8. ASSUME NEW d \in Callers PROVE Returned(d)' = Returned(d)
  BY <1>3 DEF Returned
<1>9. QED
  BY <1>3, <1>6, <1>7, <1>8 DEF Ret

LEMMA GaugeServes ==
  ASSUME AnswerInv, NEW c \in Callers, NEW a \in Addrs
  PROVE  /\ \A s \in [1..L -> Highs \cup Lows] :
              GaugeAnswers(c, a, s) => Bus!Serve(c) \/ UNCHANGED Bus!busVars
         /\ \A v \in Values : GaugeStores(c, a, v) =>
              Bus!Serve(c) \/ \E r \in [Addrs -> Values] : Bus!Tick(r)
<1>0. reg \in [Addrs -> Values] /\ op[c] \in Bus!Requests
  BY DEF AnswerInv, RxInv, TypeOK
<1>1. ASSUME NEW s \in [1..L -> Highs \cup Lows], GaugeAnswers(c, a, s)
      PROVE  Bus!Serve(c) \/ UNCHANGED Bus!busVars
  <2>1. /\ gauge = "listening" /\ lock = c /\ op[c].kind = "read" /\ UNCHANGED callVars
        /\ reg' = reg
        /\ answer' = IF a = op[c].addr
                     THEN [answer EXCEPT ![c] = Bus!Read(reg[a])] ELSE answer
    BY <1>1 DEF GaugeAnswers
  <2>2. CASE a = op[c].addr
    <3>1. Bus!Read(reg[a]) \in Bus!Results /\ Bus!Read(reg[a]).st # "none"
      BY <1>0 DEF Bus!Results, Bus!Read
    <3>2. /\ Phase[c] = "called" /\ Phase' = [Phase EXCEPT ![c] = "served"]
          /\ UNCHANGED <<op, Ret>>
      BY <2>1, <2>2, <3>1, AnswerServes
    <3>3. QED
      BY <2>1, <2>2, <3>2 DEF Bus!Serve, Ret
  <2>3. CASE a # op[c].addr
    <3>1. UNCHANGED <<reg, op, answer, pc, code, val>>
      BY <2>1, <2>3 DEF callVars
    <3>2. QED
      BY <3>1, Invisible DEF Bus!busVars, Ret
  <2>4. QED
    BY <2>2, <2>3
<1>2. ASSUME NEW v \in Values, GaugeStores(c, a, v)
      PROVE  Bus!Serve(c) \/ \E r \in [Addrs -> Values] : Bus!Tick(r)
  <2>1. /\ gauge = "listening" /\ lock = c /\ op[c].kind = "write" /\ UNCHANGED callVars
        /\ reg' = [reg EXCEPT ![a] = v]
        /\ answer' = IF a = op[c].addr /\ v = op[c].value
                     THEN [answer EXCEPT ![c] = Bus!Wrote] ELSE answer
    BY <1>2 DEF GaugeStores
  <2>2. CASE a = op[c].addr /\ v = op[c].value
    <3>1. Bus!Wrote \in Bus!Results /\ Bus!Wrote.st # "none"
      BY DEF Bus!Results, Bus!Wrote
    <3>2. /\ Phase[c] = "called" /\ Phase' = [Phase EXCEPT ![c] = "served"]
          /\ UNCHANGED <<op, Ret>>
      BY <2>1, <2>2, <3>1, AnswerServes
    <3>3. QED
      BY <2>1, <2>2, <3>2 DEF Bus!Serve, Ret
  <2>3. CASE ~(a = op[c].addr /\ v = op[c].value)
    <3>1. UNCHANGED <<op, answer, pc, code, val>>
      BY <2>1, <2>3 DEF callVars
    <3>2. Phase' = Phase
      BY <3>1 DEF Phase
    <3>3. ASSUME NEW d \in Callers PROVE Returned(d)' = Returned(d)
      BY <3>1 DEF Returned
    <3>4. reg' \in [Addrs -> Values]
      BY <1>0, <2>1
    <3>5. QED
      BY <2>1, <3>1, <3>2, <3>3, <3>4 DEF Bus!Tick, Ret
  <2>4. QED
    BY <2>2, <2>3
<1>3. QED
  BY <1>1, <1>2

LEMMA LineInvisible ==
  ASSUME Line \/ GaugeDeaf
  PROVE  UNCHANGED <<reg, Phase, op, answer, Ret>>
<1>1. UNCHANGED <<reg, op, answer, pc, code, val>>
  BY DEF Line, LineNoise, Deliver, Lose, TrailingByte, GaugeDeaf, gaugeVars, callVars
<1>2. QED
  BY <1>1, Invisible

LEMMA TickIsTick ==
  ASSUME NEW r \in [Addrs -> Values], Tick(r)
  PROVE  Bus!Tick(r)
<1>1. reg' = r /\ UNCHANGED <<op, answer, pc, code, val>>
  BY DEF Tick, callVars
<1>2. Phase' = Phase
  BY <1>1 DEF Phase
<1>3. ASSUME NEW d \in Callers PROVE Returned(d)' = Returned(d)
  BY <1>1 DEF Returned
<1>4. QED
  BY <1>1, <1>2, <1>3 DEF Bus!Tick

(* On a quiet line the byte transport implements HdqBus: every call acts at
   one instant between its start and its return.                            *)
THEOREM Implements ==
  ASSUME QuietLine
  PROVE  Spec => BusSpec
<1>1. Init => Bus!BusInit
  <2> SUFFICES ASSUME Init PROVE Bus!BusInit
    OBVIOUS
  <2>1. op \in [Callers -> Bus!Requests]
    BY InitRxInv DEF RxInv, TypeOK
  <2>2. Phase = [c \in Callers |-> "idle"]
    BY DEF Init, Phase
  <2>3. ASSUME NEW c \in Callers PROVE Returned(c) = Bus!Nothing
    BY DEF Init, Returned, Bus!Nothing
  <2>4. Ret = [c \in Callers |-> Bus!Nothing]
    BY <2>3 DEF Ret
  <2>5. QED
    BY <2>1, <2>2, <2>4 DEF Init, Bus!BusInit, Ret
<1>2. AnswerInv /\ [Next]_vars => [Bus!BusNext]_(Bus!busVars)
  <2> SUFFICES ASSUME AnswerInv, [Next]_vars PROVE Bus!BusNext \/ UNCHANGED Bus!busVars
    OBVIOUS
  <2>0. TypeOK
    BY DEF AnswerInv, RxInv
  <2>1. CASE UNCHANGED vars
    <3>1. UNCHANGED <<reg, op, answer, pc, code, val>>
      BY <2>1 DEF vars, gaugeVars, callVars
    <3>2. QED
      BY <3>1, Invisible DEF Bus!busVars, Ret
  <2>2. ASSUME NEW c \in Callers, NEW r \in Bus!Requests, Call(c, r) PROVE Bus!BusNext
    BY <2>0, <2>2, CallIsCall DEF Bus!BusNext
  <2>3. ASSUME NEW c \in Callers, LockXfer(c) \/ Transact(c)
        PROVE  Bus!BusNext \/ UNCHANGED Bus!busVars
    <3>1. CASE Unlock(c)
      BY <3>1, UnlockReturns DEF Bus!BusNext
    <3>2. CASE ~Unlock(c)
      BY <2>0, <2>3, <3>2, ThreadInvisible DEF Bus!busVars, Ret
    <3>3. QED
      BY <3>1, <3>2
  <2>4. CASE Gauge
    <3>1. CASE GaugeDeaf
      BY <3>1, LineInvisible DEF Bus!busVars, Ret
    <3>2. ASSUME NEW c \in Callers, NEW a \in Addrs,
                 \/ \E s \in [1..L -> Highs \cup Lows] : GaugeAnswers(c, a, s)
                 \/ \E v \in Values : GaugeStores(c, a, v)
          PROVE  Bus!BusNext \/ UNCHANGED Bus!busVars
      BY <3>2, GaugeServes DEF Bus!BusNext
    <3>3. QED
      BY <2>4, <3>1, <3>2 DEF Gauge
  <2>5. CASE Line
    BY <2>5, LineInvisible DEF Bus!busVars, Ret
  <2>6. ASSUME NEW r \in [Addrs -> Values], Tick(r) PROVE Bus!BusNext
    BY <2>6, TickIsTick DEF Bus!BusNext
  <2>7. QED
    BY <2>1, <2>2, <2>3, <2>4, <2>5, <2>6 DEF Next
<1>3. Spec => []AnswerInv
  BY QuietLine, AnswerInvariant
<1>4. QED
  BY <1>1, <1>2, <1>3, PTL DEF Spec, BusSpec, Bus!BusSpec
=============================================================================
