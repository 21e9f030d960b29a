--------------------------- MODULE HdqGaugeProofs ---------------------------
(***************************************************************************)
(* The safety of HdqGauge for every width of a byte, every number of       *)
(* threads, passes and attempts and every gauge.  The proof follows a word *)
(* read through its three byte calls: what each of them has returned is    *)
(* bounded by where the counter stood then and where it stands now.        *)
(***************************************************************************)
EXTENDS HdqGauge, TLAPS

Control == Pair(reg, "control")

(* The value a byte call has fetched, on its way or returned.               *)
Got(t, v) == \/ phase[t] = "served" /\ answer[t] = Bus!Read(v)
             \/ phase[t] = "idle"   /\ ret[t] = Bus!Read(v)

(* A thread's request is the one its place asks for, and returns later.     *)
Asked(t) ==
  /\ pc[t] \in {"idle", "failed", "identify", "judge"} => phase[t] = "idle"
  /\ phase[t] # "idle" =>
       /\ ret[t] = Bus!Nothing
       /\ pc[t] \in {"first", "upper"} => op[t] = Get(which[t], "high")
       /\ pc[t] = "lower" => op[t] = Get(which[t], "low")
       /\ pc[t] = "control_low"  => op[t] = Put("control", "low", Subcommand[2])
       /\ pc[t] = "control_high" => op[t] = Put("control", "high", Subcommand[1])

Asking == \A t \in Threads : Asked(t)

(* Before the type is known there is only the prober, and it reads the
   control word; after that everybody reads the counter.                    *)
Role(t) ==
  /\ chip = NoWord /\ t # Prober => pc[t] = "idle"
  /\ chip = NoWord /\ t = Prober => pc[t] # "idle" /\ which[t] = "control"
  /\ chip # NoWord => pc[t] \in {"idle"} \cup Reading
  /\ chip # NoWord /\ pc[t] \in Reading => which[t] = "counter"

Roles == \A t \in Threads : Role(t)

(* The order that the direction d of the counter gives to words and to high
   bytes.                                                                   *)
Leads(d, p, q) == IF 1 \in d THEN p[1] < q[1] \/ (p[1] = q[1] /\ p[2] <= q[2])
                             ELSE p[1] > q[1] \/ (p[1] = q[1] /\ p[2] >= q[2])
Past(d, a, b)  == IF 1 \in d THEN a <= b ELSE a >= b

\* The low byte b was the counter's, under a high byte h not before a.
Under(t, h, a, b) ==
  /\ Past(way, a, h) /\ Leads(way, start[t], <<h, b>>) /\ Leads(way, <<h, b>>, Counter)
  /\ pc[t] = "upper" => \A v \in HalfByte : Got(t, v) => Past(way, h, v)

Held(t, a, b) == \E h \in HalfByte : Under(t, h, a, b)

(* A counter's word in the making, and one that is made.                    *)
Following(t) ==
  which[t] = "counter" =>
    /\ Leads(way, start[t], Counter)
    /\ pc[t] \in {"first", "upper"} => \A v \in HalfByte : Got(t, v) => Past(way, v, Counter[1])
    /\ pc[t] = "lower" => /\ Past(way, prev[t], Counter[1])
                          /\ \A v \in HalfByte : Got(t, v) => Held(t, prev[t], v)
    /\ pc[t] = "upper" => Held(t, prev[t], lower[t])
    /\ word[t].st = "ok" => Leads(way, start[t], word[t].value) /\ Leads(way, word[t].value, Counter)

Followed == OneWay => \A t \in Threads : Following(t)

(* The control word is what the gauge found at power-up, its device type, or
   bears the mark of the subcommand in one half at least.                   *)
ControlIs == \/ Control \in {Status, device}
             \/ Control[1] = Subcommand[1] \/ Control[2] = Subcommand[2]

(* The control word in the making: from its first byte on nothing is pending
   and nobody writes.                                                       *)
Answered ==
  chip = NoWord =>
    /\ pc[Prober] = "first" => \A v \in HalfByte : Got(Prober, v) => v = Control[1] /\ ~Pending
    /\ pc[Prober] \in {"lower", "upper"} => prev[Prober] = Control[1] /\ ~Pending
    /\ pc[Prober] = "lower" => \A v \in HalfByte : Got(Prober, v) => v = Control[2]
    /\ pc[Prober] = "upper" => /\ lower[Prober] = Control[2]
                               /\ \A v \in HalfByte : Got(Prober, v) => v = Control[1]
    /\ pc[Prober] = "judge" /\ word[Prober].st = "ok" => word[Prober].value = Control /\ ~Pending

Kept == Asking /\ Roles /\ Followed /\ ControlIs /\ Answered /\ ChipRight
IInv == TypeOK /\ Kept

-----------------------------------------------------------------------------
(* The order.                                                               *)
LEMMA LeadsRefl == ASSUME NEW d, NEW p \in Word PROVE Leads(d, p, p)
BY GaugeAssumption DEF Leads, Word, HalfByte

LEMMA LeadsTrans ==
  ASSUME NEW d, NEW p \in Word, NEW q \in Word, NEW r \in Word, Leads(d, p, q), Leads(d, q, r)
  PROVE  Leads(d, p, r)
BY GaugeAssumption DEF Leads, Word, HalfByte

LEMMA LeadsHigh ==
  ASSUME NEW d, NEW p \in Word, NEW q \in Word, Leads(d, p, q) PROVE Past(d, p[1], q[1])
BY GaugeAssumption DEF Leads, Past, Word, HalfByte

LEMMA PastTrans ==
  ASSUME NEW d, NEW a \in HalfByte, NEW b \in HalfByte, NEW c \in HalfByte, Past(d, a, b), Past(d, b, c)
  PROVE  Past(d, a, c)
BY GaugeAssumption DEF Past, HalfByte

LEMMA PastBoth ==
  ASSUME NEW d, NEW a \in HalfByte, NEW b \in HalfByte, Past(d, a, b), Past(d, b, a) PROVE a = b
BY GaugeAssumption DEF Past, HalfByte

\* A counter of one direction moves on.
LEMMA CountLeads ==
  ASSUME NEW p \in Word, NEW m \in way, OneWay, Step(p, m) \in Word PROVE Leads(way, p, Step(p, m))
BY GaugeAssumption DEF OneWay, Step, Leads, Word, HalfByte

-----------------------------------------------------------------------------
(* The registers.                                                           *)
LEMMA AddrsAre ==
  /\ \A w \in {"control", "counter"}, h \in {"high", "low"} : Addr(w, h) \in Addrs
  /\ \A w, x \in {"control", "counter"}, h, g \in {"high", "low"} : Addr(w, h) = Addr(x, g) => w = x /\ h = g
BY DEF Addr, Addrs

LEMMA PairsAre ==
  ASSUME NEW r \in [Addrs -> HalfByte], NEW w \in {"control", "counter"}
  PROVE  /\ Pair(r, w) \in Word
         /\ Pair(r, w)[1] = r[Addr(w, "high")] /\ Pair(r, w)[2] = r[Addr(w, "low")]
BY AddrsAre DEF Pair, Word

LEMMA HalfWritten ==
  ASSUME reg \in [Addrs -> HalfByte], NEW h \in {"high", "low"}, NEW b \in HalfByte,
         NEW r, r = [reg EXCEPT ![Addr("control", h)] = b]
  PROVE  /\ r \in [Addrs -> HalfByte] /\ Pair(r, "counter") = Counter
         /\ h = "high" => Pair(r, "control")[1] = b
         /\ h = "low"  => Pair(r, "control")[2] = b
BY AddrsAre DEF Pair, Counter

LEMMA PairWritten ==
  ASSUME reg \in [Addrs -> HalfByte], NEW w \in {"control", "counter"}, NEW p \in Word
  PROVE  /\ SetPair(w, p) \in [Addrs -> HalfByte]
         /\ Pair(SetPair(w, p), w) = p
         /\ \A x \in {"control", "counter"} \ {w} : Pair(SetPair(w, p), x) = Pair(reg, x)
<1>1. /\ SetPair(w, p) \in [Addrs -> HalfByte]
      /\ SetPair(w, p)[Addr(w, "high")] = p[1] /\ SetPair(w, p)[Addr(w, "low")] = p[2]
  BY AddrsAre DEF SetPair, Word
<1>2. \A x \in {"control", "counter"} \ {w}, h \in {"high", "low"} : SetPair(w, p)[Addr(x, h)] = reg[Addr(x, h)]
  BY AddrsAre DEF SetPair
<1>3. p = <<p[1], p[2]>>
  BY DEF Word
<1>4. QED
  BY <1>1, <1>2, <1>3 DEF Pair

-----------------------------------------------------------------------------
(* What a step leaves of a thread: everything but what it has fetched ...   *)
Same(t) == /\ pc'[t] = pc[t] /\ which'[t] = which[t] /\ start'[t] = start[t]
           /\ prev'[t] = prev[t] /\ lower'[t] = lower[t] /\ word'[t] = word[t]
           /\ \A v \in HalfByte : Got(t, v)' => Got(t, v)

\* ... or a thread that reads nothing, with no new word.
Rests(t) == /\ pc'[t] \notin Reading /\ which'[t] = which[t] /\ start'[t] = start[t]
            /\ word'[t] = word[t] \/ word'[t].st # "ok"

(* The types a thread's part of the proof needs.                            *)
LEMMA ThreadTypes ==
  ASSUME TypeOK, NEW t \in Threads
  PROVE  /\ start[t] \in Word /\ Counter \in Word /\ Control \in Word
         /\ prev[t] \in HalfByte /\ lower[t] \in HalfByte
         /\ word[t].st = "ok" => word[t].value \in Word
<1>1. word[t] \in Outcomes /\ start[t] \in Word /\ prev[t] \in HalfByte /\ lower[t] \in HalfByte
  BY DEF TypeOK
<1>2. Counter \in Word /\ Control \in Word
  BY PairsAre DEF TypeOK, Counter, Control
<1>3. word[t].st = "ok" => word[t].value \in Word
  BY <1>1 DEF Outcomes, Error, Ok, Errors
<1>4. QED
  BY <1>1, <1>2, <1>3

(* While the counter moves on, a thread's word stays in its bounds.         *)
LEMMA Onward ==
  ASSUME TypeOK, NEW t \in Threads, Following(t), Same(t) \/ Rests(t), way' = way,
         Counter' \in Word, Leads(way, Counter, Counter')
  PROVE  Following(t)'
<1> SUFFICES ASSUME which'[t] = "counter" PROVE Following(t)'
  BY DEF Following
<1>1. which[t] = "counter" /\ start'[t] = start[t]
  BY DEF Same, Rests
<1>2. /\ start[t] \in Word /\ Counter \in Word /\ prev[t] \in HalfByte /\ lower[t] \in HalfByte
      /\ word[t].st = "ok" => word[t].value \in Word
  BY ThreadTypes
<1>3. Leads(way, start[t], Counter')
  BY <1>1, <1>2, LeadsTrans DEF Following
<1>4. word'[t].st = "ok" => Leads(way, start[t], word'[t].value) /\ Leads(way, word'[t].value, Counter')
  BY <1>1, <1>2, LeadsTrans DEF Following, Same, Rests
<1>5. CASE Rests(t)
  BY <1>1, <1>3, <1>4, <1>5 DEF Following, Rests, Reading
<1>6. CASE Same(t)
  <2>1. /\ pc'[t] = pc[t] /\ prev'[t] = prev[t] /\ lower'[t] = lower[t]
        /\ \A v \in HalfByte : Got(t, v)' => Got(t, v)
    BY <1>6 DEF Same
  <2>2. \A v \in HalfByte : Past(way, v, Counter[1]) => Past(way, v, Counter'[1])
    <3>1. Past(way, Counter[1], Counter'[1])
      BY <1>2, LeadsHigh
    <3>2. Counter[1] \in HalfByte /\ Counter'[1] \in HalfByte
      BY <1>2 DEF Word
    <3>3. QED
      BY <3>1, <3>2, PastTrans
  <2>3. ASSUME NEW b \in HalfByte, NEW h \in HalfByte, Leads(way, <<h, b>>, Counter)
        PROVE  Leads(way, <<h, b>>, Counter')
    <3>1. <<h, b>> \in Word
      BY DEF Word
    <3>2. QED
      BY <1>2, <2>3, <3>1, LeadsTrans
  <2>4. pc[t] \in {"first", "upper"} => \A v \in HalfByte : Got(t, v)' => Past(way, v, Counter'[1])
    BY <1>1, <2>1, <2>2 DEF Following
  <2>5. ASSUME pc[t] = "lower"
        PROVE  /\ Past(way, prev[t], Counter'[1])
               /\ \A v \in HalfByte : Got(t, v)' => Held(t, prev[t], v)'
    <3>1. Past(way, prev[t], Counter'[1])
      BY <1>1, <1>2, <2>2, <2>5 DEF Following
    <3>2. ASSUME NEW v \in HalfByte, Got(t, v)' PROVE Held(t, prev[t], v)'
      <4>1. Got(t, v)
        BY <2>1, <3>2
      <4>2. PICK h \in HalfByte : Under(t, h, prev[t], v)
        BY <1>1, <2>5, <4>1 DEF Following, Held
      <4>3. Leads(way, <<h, v>>, Counter')
        BY <2>3, <4>2 DEF Under
      <4>4. QED
        BY <1>1, <2>1, <2>5, <4>2, <4>3 DEF Held, Under
    <3>3. QED
      BY <3>1, <3>2
  <2>6. ASSUME pc[t] = "upper" PROVE Held(t, prev[t], lower[t])'
    <3>1. PICK h \in HalfByte : Under(t, h, prev[t], lower[t])
      BY <1>1, <2>6 DEF Following, Held
    <3>2. Leads(way, <<h, lower[t]>>, Counter')
      BY <1>2, <2>3, <3>1 DEF Under
    <3>3. QED
      BY <1>1, <2>1, <2>6, <3>1, <3>2 DEF Held, Under
  <2>7. QED
    BY <1>1, <1>3, <1>4, <2>1, <2>4, <2>5, <2>6 DEF Following
<1>7. QED
  BY <1>5, <1>6

(* The same for the control word, which stands still.                       *)
LEMMA Standing ==
  ASSUME Answered, chip' = chip, Control' = Control, device' = device, Prober \in Threads,
         Same(Prober) \/ (Rests(Prober) /\ (pc'[Prober] = "judge" => word'[Prober].st # "ok" \/ pc[Prober] = "judge"))
  PROVE  Answered'
<1>1. Pending' = Pending
  BY DEF Pending, Control
<1>2. CASE Same(Prober)
  BY <1>1, <1>2 DEF Answered, Same
<1>3. CASE Rests(Prober) /\ (pc'[Prober] = "judge" => word'[Prober].st # "ok" \/ pc[Prober] = "judge")
  <2>1. pc'[Prober] \notin {"first", "lower", "upper"}
    BY <1>3 DEF Rests, Reading
  <2>2. pc'[Prober] = "judge" /\ word'[Prober].st = "ok" => pc[Prober] = "judge" /\ word'[Prober] = word[Prober]
    BY <1>3 DEF Rests
  <2>3. QED
    BY <1>1, <2>1, <2>2 DEF Answered
<1>4. QED
  BY <1>2, <1>3

(* All threads at once, for a step that leaves most of them as they are.    *)
LEMMA AllFollowed ==
  ASSUME TypeOK, Followed, way' = way, Counter' \in Word, OneWay => Leads(way, Counter, Counter'),
         \A s \in Threads : Same(s) \/ Rests(s) \/ (OneWay => Following(s)')
  PROVE  Followed'
<1> SUFFICES ASSUME OneWay, NEW s \in Threads PROVE Following(s)'
  BY DEF Followed, OneWay
<1>1. Following(s)
  BY DEF Followed
<1>2. QED
  BY <1>1, Onward

-----------------------------------------------------------------------------
(* The bus and the gauge.                                                   *)
LEMMA BusKept ==
  ASSUME IInv, NEW t \in Threads, BusReturns(t) \/ BusFaults(t) PROVE Kept'
<1>1. /\ UNCHANGED <<reg, op, answer, readVars, probeVars, nature>>
      /\ phase[t] # "idle" /\ phase' = [phase EXCEPT ![t] = "idle"]
      /\ \E r : ret' = [ret EXCEPT ![t] = r] /\ ((phase[t] = "served" /\ r = answer[t]) \/ r \in {Bus!Failed, Bus!Wrote})
  BY DEF BusReturns, BusFaults, Bus!Succeed, Bus!WriteMissed, Bus!Fail
<1>2. phase \in [Threads -> {"idle", "called", "served"}] /\ DOMAIN ret = Threads
  BY DEF IInv, TypeOK
<1>3. \A s \in Threads : Same(s)
  <2>1. ASSUME NEW s \in Threads, NEW v \in HalfByte, Got(s, v)' PROVE Got(s, v)
    BY <1>1, <1>2, <2>1 DEF Got, Bus!Read, Bus!Failed, Bus!Wrote
  <2>2. QED
    BY <1>1, <2>1 DEF Same, readVars
<1>4. Asking'
  BY <1>1, <1>2 DEF IInv, Kept, Asking, Asked, readVars
<1>5. Counter' = Counter /\ Control' = Control /\ Counter \in Word
  BY <1>1, ThreadTypes, GaugeAssumption DEF Counter, Control, Pair, IInv
<1>6. Followed'
  BY <1>1, <1>3, <1>5, LeadsRefl, AllFollowed DEF IInv, Kept, nature
<1>7. Answered'
  BY <1>1, <1>3, <1>5, Standing, GaugeAssumption DEF IInv, Kept, probeVars, nature
<1>8. QED
  BY <1>1, <1>4, <1>5, <1>6, <1>7
     DEF IInv, Kept, Roles, Role, ControlIs, ChipRight, readVars, probeVars, nature

LEMMA ExecuteKept == ASSUME IInv, Execute PROVE Kept'
<1>1. /\ UNCHANGED <<phase, op, answer, ret, readVars, probeVars, nature>>
      /\ reg' = SetPair("control", device) /\ Pending /\ device \in Word /\ reg \in [Addrs -> HalfByte]
  BY GaugeAssumption DEF Execute, Bus!Tick, IInv, TypeOK, nature
<1>2. \A s \in Threads : Same(s)
  BY <1>1 DEF Same, Got, readVars
<1>3. Counter' = Counter /\ Control' = device /\ Counter \in Word
  BY <1>1, PairWritten, ThreadTypes, GaugeAssumption DEF Counter, Control, IInv
<1>4. Followed'
  BY <1>1, <1>2, <1>3, LeadsRefl, AllFollowed DEF IInv, Kept, nature
<1>5. Answered'
  BY <1>1, <1>2, GaugeAssumption DEF IInv, Kept, Answered, Same, probeVars
<1>6. QED
  BY <1>1, <1>3, <1>4, <1>5
     DEF IInv, Kept, Asking, Asked, Roles, Role, ControlIs, ChipRight, readVars, probeVars, nature

LEMMA CountKept == ASSUME IInv, NEW m \in way, Count(m) PROVE Kept'
<1>1. /\ UNCHANGED <<phase, op, answer, ret, readVars, probeVars, nature>>
      /\ Step(Counter, m) \in Word /\ reg' = SetPair("counter", Step(Counter, m)) /\ reg \in [Addrs -> HalfByte]
  BY DEF Count, Bus!Tick, IInv, TypeOK
<1>2. \A s \in Threads : Same(s)
  BY <1>1 DEF Same, Got, readVars
<1>3. Counter' = Step(Counter, m) /\ Control' = Control /\ Counter \in Word
  BY <1>1, PairWritten, ThreadTypes, GaugeAssumption DEF Counter, Control, IInv
<1>4. Followed'
  BY <1>1, <1>2, <1>3, CountLeads, AllFollowed DEF IInv, Kept, nature
<1>5. Answered'
  BY <1>1, <1>2, <1>3, Standing, GaugeAssumption DEF IInv, Kept, probeVars, nature
<1>6. QED
  BY <1>1, <1>3, <1>4, <1>5
     DEF IInv, Kept, Asking, Asked, Roles, Role, ControlIs, ChipRight, readVars, probeVars, nature

\* A read is served while nothing is pending, with what the register holds.
LEMMA ReadServed ==
  ASSUME IInv, NEW t \in Threads, BusServes(t), pc[t] \in Reading PROVE Kept'
<1>1. /\ UNCHANGED <<op, ret, readVars, probeVars, nature>> /\ ~Pending
      /\ phase[t] = "called" /\ phase' = [phase EXCEPT ![t] = "served"]
      /\ IF op[t].kind = "read" THEN answer' = [answer EXCEPT ![t] = Bus!Read(reg[op[t].addr])] /\ reg' = reg
         ELSE answer' = [answer EXCEPT ![t] = Bus!Wrote]
  BY DEF BusServes, Bus!Serve
<1>2. /\ phase \in [Threads -> {"idle", "called", "served"}] /\ DOMAIN answer = Threads
      /\ which[t] \in {"control", "counter"} /\ reg \in [Addrs -> HalfByte]
  BY DEF IInv, TypeOK
<1>3. op[t] = Get(which[t], IF pc[t] = "lower" THEN "low" ELSE "high")
  BY <1>1 DEF IInv, Kept, Asking, Asked, Reading
<1>4. /\ reg' = reg /\ answer' = [answer EXCEPT ![t] = Bus!Read(reg[op[t].addr])]
      /\ reg[op[t].addr] = Pair(reg, which[t])[IF pc[t] = "lower" THEN 2 ELSE 1]
  BY <1>1, <1>2, <1>3, PairsAre DEF Get
<1>5. ASSUME NEW v \in HalfByte, Got(t, v)' PROVE v = Pair(reg, which[t])[IF pc[t] = "lower" THEN 2 ELSE 1]
  <2>1. phase'[t] = "served" /\ answer'[t] = Bus!Read(reg[op[t].addr])
    BY <1>1, <1>2, <1>4
  <2>2. QED
    BY <1>4, <1>5, <2>1 DEF Got, Bus!Read
<1>6. \A s \in Threads \ {t} : Same(s)
  BY <1>1, <1>2, <1>4 DEF Same, Got, readVars
<1>7. Counter' = Counter /\ Control' = Control /\ Counter \in Word
  BY <1>4, ThreadTypes, GaugeAssumption DEF Counter, Control, Pair, IInv
<1>8. ASSUME OneWay PROVE Following(t)'
  <2> SUFFICES ASSUME which[t] = "counter" PROVE Following(t)'
    BY <1>1 DEF Following, readVars
  <2>1. Following(t)
    BY <1>8 DEF IInv, Kept, Followed
  <2>2. /\ start[t] \in Word /\ prev[t] \in HalfByte /\ lower[t] \in HalfByte
        /\ Counter[1] \in HalfByte /\ Counter[2] \in HalfByte /\ Counter = <<Counter[1], Counter[2]>>
    BY <1>7, ThreadTypes DEF IInv, Word
  <2>3. CASE pc[t] = "first"
    <3>1. \A v \in HalfByte : Got(t, v)' => Past(way, v, Counter[1])
      BY <1>5, <2>3, <2>2 DEF Counter, Past, HalfByte
    <3>2. QED
      BY <1>1, <1>7, <2>1, <2>3, <3>1 DEF Following, readVars, nature
  <2>4. CASE pc[t] = "lower"
    <3>1. ASSUME NEW v \in HalfByte, Got(t, v)' PROVE Held(t, prev[t], v)'
      <4>1. v = Counter[2]
        BY <1>5, <2>4, <3>1 DEF Counter
      <4>2. Past(way, prev[t], Counter[1]) /\ Leads(way, start[t], Counter)
        BY <2>1, <2>4 DEF Following
      <4>3. Leads(way, Counter, Counter)
        BY <1>7, LeadsRefl
      <4>4. QED
        BY <1>1, <1>7, <2>2, <2>4, <4>1, <4>2, <4>3 DEF Held, Under, readVars, nature
    <3>2. QED
      BY <1>1, <1>7, <2>1, <2>4, <3>1 DEF Following, readVars, nature
  <2>5. CASE pc[t] = "upper"
    <3>1. \A v \in HalfByte : Got(t, v)' => v = Counter[1]
      BY <1>5, <2>5 DEF Counter
    <3>2. PICK h \in HalfByte : Under(t, h, prev[t], lower[t])
      BY <2>1, <2>5 DEF Following, Held
    <3>3. Past(way, h, Counter[1]) /\ Past(way, Counter[1], Counter[1])
      <4>1. <<h, lower[t]>> \in Word /\ Leads(way, <<h, lower[t]>>, Counter)
        BY <2>2, <3>2 DEF Word, Under
      <4>2. QED
        BY <1>7, <4>1, LeadsRefl, LeadsHigh
    <3>4. Held(t, prev[t], lower[t])'
      BY <1>1, <1>7, <3>1, <3>2, <3>3 DEF Held, Under, readVars, nature
    <3>5. \A v \in HalfByte : Got(t, v)' => Past(way, v, Counter[1])
      BY <3>1, <3>3
    <3>6. QED
      BY <1>1, <1>7, <2>1, <2>5, <3>4, <3>5 DEF Following, readVars, nature
  <2>6. QED
    BY <2>3, <2>4, <2>5 DEF Reading
<1>9. Followed'
  BY <1>1, <1>6, <1>7, <1>8, LeadsRefl, AllFollowed DEF IInv, Kept, nature
<1>10. Answered'
  <2>1. CASE t = Prober /\ chip = NoWord
    <3>1. which[t] = "control" /\ Pending' = Pending
      BY <1>1, <1>7, <2>1 DEF IInv, Kept, Roles, Role, Pending, Control
    <3>2. QED
      BY <1>1, <1>5, <1>7, <2>1, <3>1 DEF IInv, Kept, Answered, Control, Reading, readVars, probeVars
  <2>2. CASE t # Prober
    BY <1>1, <1>6, <1>7, <2>2, Standing, GaugeAssumption DEF IInv, Kept, probeVars, nature
  <2>3. QED
    BY <1>1, <2>1, <2>2 DEF Answered, probeVars
<1>11. Asking'
  BY <1>1, <1>2 DEF IInv, Kept, Asking, Asked, Reading, readVars
<1>12. QED
  BY <1>1, <1>7, <1>9, <1>10, <1>11
     DEF IInv, Kept, Roles, Role, ControlIs, ChipRight, readVars, probeVars, nature

\* A write of the prober leaves the mark of the subcommand.
LEMMA WriteServed ==
  ASSUME IInv, NEW t \in Threads, BusServes(t), pc[t] \notin Reading PROVE Kept'
<1>1. /\ UNCHANGED <<op, ret, readVars, probeVars, nature>>
      /\ phase[t] = "called" /\ phase' = [phase EXCEPT ![t] = "served"]
      /\ op[t].kind = "write" => /\ answer' = [answer EXCEPT ![t] = Bus!Wrote]
                                 /\ reg' = [reg EXCEPT ![op[t].addr] = op[t].value]
  BY DEF BusServes, Bus!Serve
<1>2. /\ phase \in [Threads -> {"idle", "called", "served"}] /\ DOMAIN answer = Threads
      /\ reg \in [Addrs -> HalfByte]
      /\ pc[t] \in {"idle", "failed"} \cup Reading \cup Probing
  BY DEF IInv, TypeOK
<1>3. pc[t] \in {"control_low", "control_high"}
  BY <1>1, <1>2 DEF IInv, Kept, Asking, Asked, Reading, Probing
<1>4. t = Prober /\ chip = NoWord
  BY <1>3 DEF IInv, Kept, Roles, Role, Reading
<1>5. /\ answer' = [answer EXCEPT ![t] = Bus!Wrote]
      /\ \/ reg' = [reg EXCEPT ![Addr("control", "low")] = Subcommand[2]]
         \/ reg' = [reg EXCEPT ![Addr("control", "high")] = Subcommand[1]]
  BY <1>1, <1>3 DEF IInv, Kept, Asking, Asked, Put
<1>6. \A s \in Threads : Same(s)
  <2>1. ASSUME NEW s \in Threads, NEW v \in HalfByte, Got(s, v)' PROVE Got(s, v)
    BY <1>1, <1>2, <1>5, <2>1 DEF Got, Bus!Read, Bus!Wrote
  <2>2. QED
    BY <1>1, <2>1 DEF Same, readVars
<1>7. /\ Counter' = Counter /\ Counter \in Word
      /\ Control'[1] = Subcommand[1] \/ Control'[2] = Subcommand[2]
  <2>1. Subcommand[1] \in HalfByte /\ Subcommand[2] \in HalfByte
    BY GaugeAssumption DEF Subcommand, HalfByte
  <2>2. CASE reg' = [reg EXCEPT ![Addr("control", "low")] = Subcommand[2]]
    BY <1>2, <2>1, <2>2, HalfWritten, ThreadTypes, GaugeAssumption DEF Counter, Control, IInv
  <2>3. CASE reg' = [reg EXCEPT ![Addr("control", "high")] = Subcommand[1]]
    BY <1>2, <2>1, <2>3, HalfWritten, ThreadTypes, GaugeAssumption DEF Counter, Control, IInv
  <2>4. QED
    BY <1>5, <2>2, <2>3
<1>8. Followed'
  BY <1>1, <1>6, <1>7, LeadsRefl, AllFollowed DEF IInv, Kept, nature
<1>9. Answered'
  BY <1>1, <1>3, <1>4 DEF Answered, readVars
<1>10. Asking'
  BY <1>1, <1>2 DEF IInv, Kept, Asking, Asked, readVars
<1>11. ControlIs'
  BY <1>7 DEF ControlIs
<1>12. QED
  BY <1>1, <1>8, <1>9, <1>10, <1>11 DEF IInv, Kept, Roles, Role, ChipRight, readVars, probeVars, nature

-----------------------------------------------------------------------------
(* The word read.  A thread that calls has fetched nothing yet.             *)
LEMMA Calls ==
  ASSUME TypeOK, NEW t \in Threads, NEW r, Bus!Call(t, r)
  PROVE  /\ reg' = reg /\ phase[t] = "idle" /\ phase'[t] = "called" /\ op'[t] = r /\ ret'[t] = Bus!Nothing
         /\ \A v \in HalfByte : ~Got(t, v)'
         /\ \A s \in Threads \ {t} : /\ phase'[s] = phase[s] /\ op'[s] = op[s] /\ ret'[s] = ret[s]
                                     /\ \A v \in HalfByte : Got(s, v)' => Got(s, v)
BY DEF TypeOK, Bus!Call, Got, Bus!Read, Bus!Nothing

(* A thread at a read has the role of a reader.                             *)
LEMMA Reader ==
  ASSUME TypeOK, Roles, NEW t \in Threads, pc[t] \in Reading
  PROVE  /\ chip = NoWord => t = Prober /\ which[t] = "control"
         /\ chip # NoWord => which[t] = "counter"
BY DEF Roles, Role, Reading

LEMMA FirstUpperKept == ASSUME IInv, NEW t \in Threads, FirstUpper(t) PROVE Kept'
<1>1. /\ UNCHANGED <<which, lower, tries, word, start, probeVars, nature>>
      /\ pc[t] = "first" /\ ret[t].st = "read"
      /\ Bus!Call(t, Get(which[t], "low"))
      /\ pc' = [pc EXCEPT ![t] = "lower"] /\ prev' = [prev EXCEPT ![t] = ret[t].value]
  BY DEF FirstUpper, Pass, Goto
<1>2. TypeOK /\ Kept /\ DOMAIN pc = Threads /\ DOMAIN prev = Threads /\ ret[t] \in Bus!Results
  BY DEF IInv, TypeOK
<1>3. /\ reg' = reg /\ phase[t] = "idle" /\ phase'[t] = "called" /\ op'[t] = Get(which[t], "low") /\ ret'[t] = Bus!Nothing
      /\ \A v \in HalfByte : ~Got(t, v)'
      /\ \A s \in Threads \ {t} : /\ phase'[s] = phase[s] /\ op'[s] = op[s] /\ ret'[s] = ret[s]
                                  /\ \A v \in HalfByte : Got(s, v)' => Got(s, v)
  BY <1>1, <1>2, Calls
<1>4. ret[t].value \in HalfByte /\ Got(t, ret[t].value)
  BY <1>1, <1>2, <1>3 DEF Got, Bus!Results, Bus!Read, Bus!Nothing, Bus!Failed, Bus!Wrote
<1>5. \A s \in Threads \ {t} : Same(s)
  BY <1>1, <1>2, <1>3 DEF Same
<1>6. Counter' = Counter /\ Control' = Control /\ Counter \in Word
  BY <1>2, <1>3, ThreadTypes DEF Counter, Control, Pair
<1>7. OneWay => Following(t)'
  BY <1>1, <1>2, <1>3, <1>4, <1>6 DEF Kept, Followed, Following, nature
<1>8. Followed'
  BY <1>1, <1>2, <1>5, <1>6, <1>7, LeadsRefl, AllFollowed DEF Kept, nature
<1>9. Answered'
  <2>1. CASE t = Prober
    <3>1. Pending' = Pending
      BY <1>6 DEF Pending, Control
    <3>2. QED
      BY <1>1, <1>2, <1>3, <1>4, <1>6, <2>1, <3>1 DEF Kept, Answered, probeVars
  <2>2. CASE t # Prober
    BY <1>1, <1>2, <1>5, <1>6, <2>2, Standing, GaugeAssumption DEF Kept, probeVars, nature
  <2>3. QED
    BY <2>1, <2>2
<1>10. Asking'
  BY <1>1, <1>2, <1>3 DEF Kept, Asking, Asked
<1>11. Roles'
  BY <1>1, <1>2 DEF Kept, Roles, Role, Reading, probeVars
<1>12. QED
  BY <1>1, <1>2, <1>6, <1>8, <1>9, <1>10, <1>11 DEF Kept, ControlIs, ChipRight, probeVars, nature

LEMMA LowerKept == ASSUME IInv, NEW t \in Threads, Lower(t) PROVE Kept'
<1>1. /\ UNCHANGED <<which, prev, tries, word, start, probeVars, nature>>
      /\ pc[t] = "lower" /\ ret[t].st = "read"
      /\ Bus!Call(t, Get(which[t], "high"))
      /\ pc' = [pc EXCEPT ![t] = "upper"] /\ lower' = [lower EXCEPT ![t] = ret[t].value]
  BY DEF Lower, Goto
<1>2. TypeOK /\ Kept /\ DOMAIN pc = Threads /\ DOMAIN lower = Threads /\ ret[t] \in Bus!Results
  BY DEF IInv, TypeOK
<1>3. /\ reg' = reg /\ phase[t] = "idle" /\ phase'[t] = "called" /\ op'[t] = Get(which[t], "high") /\ ret'[t] = Bus!Nothing
      /\ \A v \in HalfByte : ~Got(t, v)'
      /\ \A s \in Threads \ {t} : /\ phase'[s] = phase[s] /\ op'[s] = op[s] /\ ret'[s] = ret[s]
                                  /\ \A v \in HalfByte : Got(s, v)' => Got(s, v)
  BY <1>1, <1>2, Calls
<1>4. ret[t].value \in HalfByte /\ Got(t, ret[t].value)
  BY <1>1, <1>2, <1>3 DEF Got, Bus!Results, Bus!Read, Bus!Nothing, Bus!Failed, Bus!Wrote
<1>5. \A s \in Threads \ {t} : Same(s)
  BY <1>1, <1>2, <1>3 DEF Same
<1>6. Counter' = Counter /\ Control' = Control /\ Counter \in Word
  BY <1>2, <1>3, ThreadTypes DEF Counter, Control, Pair
<1>7. ASSUME OneWay PROVE Following(t)'
  <2> SUFFICES ASSUME which[t] = "counter" PROVE Following(t)'
    BY <1>1 DEF Following
  <2>1. Following(t)
    BY <1>2, <1>7 DEF Kept, Followed
  <2>2. PICK h \in HalfByte : Under(t, h, prev[t], ret[t].value)
    BY <1>1, <1>4, <2>1 DEF Following, Held
  <2>3. Held(t, prev[t], lower[t])'
    BY <1>1, <1>2, <1>3, <1>6, <2>2 DEF Held, Under, nature
  <2>4. QED
    BY <1>1, <1>2, <1>3, <1>6, <2>1, <2>3 DEF Following, nature
<1>8. Followed'
  BY <1>1, <1>2, <1>5, <1>6, <1>7, LeadsRefl, AllFollowed DEF Kept, nature
<1>9. Answered'
  <2>1. CASE t = Prober
    <3>1. Pending' = Pending
      BY <1>6 DEF Pending, Control
    <3>2. QED
      BY <1>1, <1>2, <1>3, <1>4, <1>6, <2>1, <3>1 DEF Kept, Answered, probeVars
  <2>2. CASE t # Prober
    BY <1>1, <1>2, <1>5, <1>6, <2>2, Standing, GaugeAssumption DEF Kept, probeVars, nature
  <2>3. QED
    BY <2>1, <2>2
<1>10. Asking'
  BY <1>1, <1>2, <1>3 DEF Kept, Asking, Asked
<1>11. Roles'
  BY <1>1, <1>2 DEF Kept, Roles, Role, Reading, probeVars
<1>12. QED
  BY <1>1, <1>2, <1>6, <1>8, <1>9, <1>10, <1>11 DEF Kept, ControlIs, ChipRight, probeVars, nature

\* The high byte is the one before it: h of Under, between the two, is both.
LEMMA UpperSettlesKept ==
  ASSUME IInv, NEW t \in Threads, Upper(t), ret[t].value = prev[t] PROVE Kept'
<1>1. /\ UNCHANGED <<busVars, which, start, probeVars, nature>>
      /\ pc[t] = "upper" /\ ret[t].st = "read"
      /\ pc' = [pc EXCEPT ![t] = IF t = Prober /\ chip = NoWord THEN "judge" ELSE "idle"]
      /\ word' = [word EXCEPT ![t] = Ok(<<prev[t], lower[t]>>)]
      /\ prev' = [prev EXCEPT ![t] = 0] /\ lower' = [lower EXCEPT ![t] = 0]
  BY DEF Upper, Return, Goto
<1>2. /\ TypeOK /\ Kept /\ ret[t] \in Bus!Results /\ prev[t] \in HalfByte /\ lower[t] \in HalfByte
      /\ DOMAIN pc = Threads /\ DOMAIN word = Threads /\ DOMAIN prev = Threads /\ DOMAIN lower = Threads
  BY DEF IInv, TypeOK
<1>3. UNCHANGED <<reg, phase, op, answer, ret>> /\ word'[t] = Ok(<<prev[t], lower[t]>>)
  BY <1>1, <1>2 DEF busVars
<1>4. phase[t] = "idle" /\ Got(t, prev[t])
  <2>1. ret[t] = Bus!Read(prev[t]) /\ ret[t] # Bus!Nothing
    BY <1>1, <1>2 DEF Bus!Results, Bus!Read, Bus!Nothing, Bus!Failed, Bus!Wrote
  <2>2. QED
    BY <1>2, <2>1 DEF Got, Kept, Asking, Asked
<1>5. \A s \in Threads \ {t} : Same(s)
  BY <1>1, <1>2, <1>3 DEF Same, Got
<1>6. Counter' = Counter /\ Control' = Control /\ Counter \in Word
  BY <1>2, <1>3, ThreadTypes DEF Counter, Control, Pair
<1>7. pc'[t] \notin Reading /\ word'[t].st = "ok" /\ word'[t].value = <<prev[t], lower[t]>>
  BY <1>1, <1>2, <1>3 DEF Reading, Ok
<1>8. ASSUME OneWay PROVE Following(t)'
  <2> SUFFICES ASSUME which[t] = "counter" PROVE Following(t)'
    BY <1>1 DEF Following
  <2>1. Following(t)
    BY <1>2, <1>8 DEF Kept, Followed
  <2>2. PICK h \in HalfByte : Under(t, h, prev[t], lower[t])
    BY <1>1, <2>1 DEF Following, Held
  <2>3. h = prev[t]
    BY <1>1, <1>2, <1>4, <2>2, PastBoth DEF Under
  <2>4. Leads(way, start[t], <<prev[t], lower[t]>>) /\ Leads(way, <<prev[t], lower[t]>>, Counter)
    BY <2>2, <2>3 DEF Under
  <2>5. QED
    BY <1>1, <1>6, <1>7, <2>1, <2>4 DEF Following, Reading, nature
<1>9. Followed'
  BY <1>1, <1>2, <1>5, <1>6, <1>8, LeadsRefl, AllFollowed DEF Kept, nature
<1>10. Answered'
  <2>1. CASE t = Prober /\ chip = NoWord
    <3>1. Pending' = Pending /\ Control = <<Control[1], Control[2]>>
      BY <1>2, <1>6, ThreadTypes DEF Pending, Control, Word
    <3>2. prev[t] = Control[1] /\ lower[t] = Control[2] /\ ~Pending
      BY <1>1, <1>2, <2>1 DEF Kept, Answered
    <3>3. QED
      BY <1>1, <1>2, <1>6, <1>7, <2>1, <3>1, <3>2 DEF Answered
  <2>2. CASE t # Prober
    BY <1>1, <1>2, <1>5, <1>6, <2>2, Standing, GaugeAssumption DEF Kept, probeVars, nature
  <2>3. QED
    BY <1>1, <2>1, <2>2 DEF Answered, probeVars
<1>11. Asking'
  BY <1>1, <1>2, <1>3, <1>4 DEF Kept, Asking, Asked
<1>12. Roles'
  BY <1>1, <1>2 DEF Kept, Roles, Role, Reading, probeVars
<1>13. QED
  BY <1>1, <1>2, <1>6, <1>9, <1>10, <1>11, <1>12 DEF Kept, ControlIs, ChipRight, probeVars, nature

\* Another pass, with the new high byte.
LEMMA UpperRepeatsKept ==
  ASSUME IInv, NEW t \in Threads, Upper(t), ret[t].value # prev[t], tries[t] > 1 PROVE Kept'
<1>1. /\ UNCHANGED <<which, lower, word, start, probeVars, nature>>
      /\ pc[t] = "upper" /\ ret[t].st = "read"
      /\ Bus!Call(t, Get(which[t], "low"))
      /\ pc' = [pc EXCEPT ![t] = "lower"] /\ prev' = [prev EXCEPT ![t] = ret[t].value]
  BY DEF Upper, Pass, Goto
<1>2. TypeOK /\ Kept /\ DOMAIN pc = Threads /\ DOMAIN prev = Threads /\ ret[t] \in Bus!Results
  BY DEF IInv, TypeOK
<1>3. /\ reg' = reg /\ phase[t] = "idle" /\ phase'[t] = "called" /\ op'[t] = Get(which[t], "low") /\ ret'[t] = Bus!Nothing
      /\ \A v \in HalfByte : ~Got(t, v)'
      /\ \A s \in Threads \ {t} : /\ phase'[s] = phase[s] /\ op'[s] = op[s] /\ ret'[s] = ret[s]
                                  /\ \A v \in HalfByte : Got(s, v)' => Got(s, v)
  BY <1>1, <1>2, Calls
<1>4. ret[t].value \in HalfByte /\ Got(t, ret[t].value)
  BY <1>1, <1>2, <1>3 DEF Got, Bus!Results, Bus!Read, Bus!Nothing, Bus!Failed, Bus!Wrote
<1>5. \A s \in Threads \ {t} : Same(s)
  BY <1>1, <1>2, <1>3 DEF Same
<1>6. Counter' = Counter /\ Control' = Control /\ Counter \in Word
  BY <1>2, <1>3, ThreadTypes DEF Counter, Control, Pair
<1>7. OneWay => Following(t)'
  BY <1>1, <1>2, <1>3, <1>4, <1>6 DEF Kept, Followed, Following, nature
<1>8. Followed'
  BY <1>1, <1>2, <1>5, <1>6, <1>7, LeadsRefl, AllFollowed DEF Kept, nature
<1>9. Answered'
  <2>1. CASE t = Prober
    <3>1. Pending' = Pending
      BY <1>6 DEF Pending, Control
    <3>2. QED
      BY <1>1, <1>2, <1>3, <1>4, <1>6, <2>1, <3>1 DEF Kept, Answered, probeVars
  <2>2. CASE t # Prober
    BY <1>1, <1>2, <1>5, <1>6, <2>2, Standing, GaugeAssumption DEF Kept, probeVars, nature
  <2>3. QED
    BY <2>1, <2>2
<1>10. Asking'
  BY <1>1, <1>2, <1>3 DEF Kept, Asking, Asked
<1>11. Roles'
  BY <1>1, <1>2 DEF Kept, Roles, Role, Reading, probeVars
<1>12. QED
  BY <1>1, <1>2, <1>6, <1>8, <1>9, <1>10, <1>11 DEF Kept, ControlIs, ChipRight, probeVars, nature

\* A read that ends with an error, after its last pass or a failed byte.
LEMMA ErrorKept ==
  ASSUME IInv, NEW t \in Threads, NEW e, Return(t, Error(e)), e # "ok",
         UNCHANGED <<busVars, which, start, probeVars, nature>>,
         pc[t] \in Reading \cup {"control_low", "control_high"}, ret[t] # Bus!Nothing
  PROVE  Kept'
<1>1. /\ pc' = [pc EXCEPT ![t] = IF t = Prober /\ chip = NoWord THEN "judge" ELSE "idle"]
      /\ word' = [word EXCEPT ![t] = Error(e)]
      /\ prev' = [prev EXCEPT ![t] = 0] /\ lower' = [lower EXCEPT ![t] = 0]
  BY DEF Return, Goto
<1>2. /\ TypeOK /\ Kept
      /\ DOMAIN pc = Threads /\ DOMAIN word = Threads /\ DOMAIN prev = Threads /\ DOMAIN lower = Threads
  BY DEF IInv, TypeOK
<1>3. UNCHANGED <<reg, phase, op, answer, ret>> /\ phase[t] = "idle"
  BY <1>2 DEF busVars, Kept, Asking, Asked
<1>4. \A s \in Threads \ {t} : Same(s)
  BY <1>1, <1>2, <1>3 DEF Same, Got
<1>5. Rests(t) /\ word'[t].st # "ok"
  BY <1>1, <1>2 DEF Rests, Reading, Error
<1>6. Counter' = Counter /\ Control' = Control /\ Counter \in Word
  BY <1>2, <1>3, ThreadTypes DEF Counter, Control, Pair
<1>7. Followed'
  BY <1>2, <1>4, <1>5, <1>6, LeadsRefl, AllFollowed DEF Kept, nature
<1>8. Answered'
  BY <1>2, <1>4, <1>5, <1>6, Standing, GaugeAssumption DEF Kept, probeVars, nature
<1>9. Asking'
  BY <1>1, <1>2, <1>3 DEF Kept, Asking, Asked
<1>10. Roles'
  BY <1>1, <1>2 DEF Kept, Roles, Role, Reading, probeVars
<1>11. QED
  BY <1>2, <1>6, <1>7, <1>8, <1>9, <1>10 DEF Kept, ControlIs, ChipRight, probeVars, nature

LEMMA UpperKept == ASSUME IInv, NEW t \in Threads, Upper(t) PROVE Kept'
<1>1. CASE ret[t].value = prev[t]
  BY <1>1, UpperSettlesKept
<1>2. CASE ret[t].value # prev[t] /\ tries[t] > 1
  BY <1>2, UpperRepeatsKept
<1>3. CASE ret[t].value # prev[t] /\ ~(tries[t] > 1)
  <2>1. Return(t, Error("unstable")) /\ UNCHANGED <<busVars, which, start, probeVars, nature>>
    BY <1>3 DEF Upper, Unstable
  <2>2. pc[t] \in Reading /\ ret[t] # Bus!Nothing
    BY DEF Upper, Reading, Bus!Nothing
  <2>3. QED
    BY <2>1, <2>2, ErrorKept
<1>4. QED
  BY <1>1, <1>2, <1>3

LEMMA ByteFailsKept == ASSUME IInv, NEW t \in Threads, ByteFails(t) PROVE Kept'
<1>1. PICK e \in Errors : Return(t, Error(e))
  BY DEF ByteFails
<1>2. e # "ok" /\ ret[t] # Bus!Nothing
  BY DEF ByteFails, Errors, Bus!Nothing, Bus!Failed
<1>3. QED
  BY <1>1, <1>2, ErrorKept DEF ByteFails

\* A new word read: of the counter, or by the prober of the control word.
LEMMA ReadWordKept ==
  ASSUME IInv, NEW t \in Threads, NEW w \in {"control", "counter"},
         ReadWord(t, w), UNCHANGED <<probeVars, nature>>,
         \/ w = "counter" /\ chip # NoWord
         \/ w = "control" /\ chip = NoWord /\ t = Prober
  PROVE  Kept'
<1>1. /\ UNCHANGED <<prev, lower, probeVars, nature>> /\ Bus!Call(t, Get(w, "high"))
      /\ pc' = [pc EXCEPT ![t] = "first"] /\ which' = [which EXCEPT ![t] = w]
      /\ word' = [word EXCEPT ![t] = None] /\ start' = [start EXCEPT ![t] = Counter]
  BY DEF ReadWord, Goto
<1>2. /\ TypeOK /\ Kept
      /\ DOMAIN pc = Threads /\ DOMAIN which = Threads /\ DOMAIN word = Threads /\ DOMAIN start = Threads
  BY DEF IInv, TypeOK
<1>3. /\ reg' = reg /\ phase[t] = "idle" /\ phase'[t] = "called" /\ op'[t] = Get(w, "high") /\ ret'[t] = Bus!Nothing
      /\ \A v \in HalfByte : ~Got(t, v)'
      /\ \A s \in Threads \ {t} : /\ phase'[s] = phase[s] /\ op'[s] = op[s] /\ ret'[s] = ret[s]
                                  /\ \A v \in HalfByte : Got(s, v)' => Got(s, v)
  BY <1>1, <1>2, Calls
<1>4. \A s \in Threads \ {t} : Same(s)
  BY <1>1, <1>2, <1>3 DEF Same
<1>5. Counter' = Counter /\ Control' = Control /\ Counter \in Word
  BY <1>2, <1>3, ThreadTypes DEF Counter, Control, Pair
<1>6. Following(t)'
  <2>1. Leads(way, Counter, Counter) /\ start'[t] = Counter /\ pc'[t] = "first" /\ word'[t].st # "ok"
    BY <1>1, <1>2, <1>5, LeadsRefl DEF None, Error
  <2>2. QED
    BY <1>1, <1>3, <1>5, <2>1 DEF Following, nature
<1>7. Followed'
  BY <1>1, <1>2, <1>4, <1>5, <1>6, LeadsRefl, AllFollowed DEF Kept, nature
<1>8. Answered'
  BY <1>1, <1>2, <1>3 DEF Answered, probeVars
<1>9. Asking'
  BY <1>1, <1>2, <1>3 DEF Kept, Asking, Asked
<1>10. Roles'
  BY <1>1, <1>2 DEF Kept, Roles, Role, Reading, probeVars
<1>11. QED
  BY <1>1, <1>2, <1>5, <1>7, <1>8, <1>9, <1>10 DEF Kept, ControlIs, ChipRight, probeVars, nature

-----------------------------------------------------------------------------
(* The probe.                                                               *)
LEMMA ProberOnly ==
  ASSUME Roles, NEW t \in Threads, pc[t] \in Probing \cup {"failed"} PROVE t = Prober /\ chip = NoWord
BY DEF Roles, Role, Probing, Reading

LEMMA SubcommandKept ==
  ASSUME IInv, NEW t \in Threads, Identify(t) \/ IdentifyHigh(t) PROVE Kept'
<1>1. /\ UNCHANGED <<which, prev, lower, tries, word, start, probeVars, nature>>
      /\ \/ /\ pc' = [pc EXCEPT ![t] = "control_low"] /\ Bus!Call(t, Put("control", "low", Subcommand[2]))
         \/ /\ pc' = [pc EXCEPT ![t] = "control_high"] /\ Bus!Call(t, Put("control", "high", Subcommand[1]))
  BY DEF Identify, IdentifyHigh, Goto
<1>2. TypeOK /\ Kept /\ DOMAIN pc = Threads /\ t = Prober /\ chip = NoWord
  BY ProberOnly DEF IInv, TypeOK, Kept, Identify, IdentifyHigh, Probing
<1>3. /\ reg' = reg /\ phase[t] = "idle" /\ ret'[t] = Bus!Nothing
      /\ \A s \in Threads \ {t} : /\ phase'[s] = phase[s] /\ op'[s] = op[s] /\ ret'[s] = ret[s]
                                  /\ \A v \in HalfByte : Got(s, v)' => Got(s, v)
      /\ \/ pc'[t] = "control_low"  /\ op'[t] = Put("control", "low", Subcommand[2])
         \/ pc'[t] = "control_high" /\ op'[t] = Put("control", "high", Subcommand[1])
  BY <1>1, <1>2, Calls
<1>4. \A s \in Threads \ {t} : Same(s)
  BY <1>1, <1>2, <1>3 DEF Same
<1>5. Counter' = Counter /\ Control' = Control /\ Counter \in Word
  BY <1>2, <1>3, ThreadTypes DEF Counter, Control, Pair
<1>6. Rests(t) /\ pc'[t] # "judge"
  BY <1>1, <1>3 DEF Rests, Reading
<1>7. Followed'
  BY <1>1, <1>2, <1>4, <1>5, <1>6, LeadsRefl, AllFollowed DEF Kept, nature
<1>8. Answered'
  BY <1>2, <1>6 DEF Answered, Rests, Reading
<1>9. Asking'
  BY <1>1, <1>2, <1>3 DEF Kept, Asking, Asked
<1>10. Roles'
  BY <1>1, <1>2 DEF Kept, Roles, Role, Reading, probeVars
<1>11. QED
  BY <1>1, <1>2, <1>5, <1>7, <1>8, <1>9, <1>10 DEF Kept, ControlIs, ChipRight, probeVars, nature

\* Nothing pending and no mark in the word: it is the gauge's own type.
LEMMA JudgeKept == ASSUME IInv, NEW t \in Threads, Judge(t) PROVE Kept'
<1>1. /\ UNCHANGED <<busVars, which, prev, lower, tries, word, start, binds, nature>>
      /\ pc[t] = "judge" /\ word[t].st = "ok" /\ word[t].value \in Known
      /\ chip' = word[t].value /\ pc' = [pc EXCEPT ![t] = "idle"]
  BY DEF Judge, Goto
<1>2. TypeOK /\ Kept /\ DOMAIN pc = Threads /\ t = Prober /\ chip = NoWord
  BY <1>1, ProberOnly DEF IInv, TypeOK, Kept, Probing
<1>3. UNCHANGED <<reg, phase, op, answer, ret>> /\ phase[t] = "idle"
  BY <1>1, <1>2 DEF busVars, Kept, Asking, Asked
<1>4. \A s \in Threads : Same(s) \/ Rests(s)
  BY <1>1, <1>2, <1>3 DEF Same, Got, Rests, Reading
<1>5. Counter' = Counter /\ Control' = Control /\ Counter \in Word /\ Control \in Word
  BY <1>2, <1>3, ThreadTypes DEF Counter, Control, Pair
<1>6. chip' = Control /\ Control \in Known
  BY <1>1, <1>2 DEF Kept, Answered
<1>7. chip' = device /\ chip' # NoWord
  BY <1>2, <1>6, TypeAssumption, GaugeAssumption DEF Kept, ControlIs
<1>8. Followed'
  BY <1>1, <1>2, <1>4, <1>5, LeadsRefl, AllFollowed DEF Kept, nature
<1>9. Asking'
  BY <1>1, <1>2, <1>3 DEF Kept, Asking, Asked
<1>10. Roles'
  BY <1>1, <1>2, <1>7 DEF Kept, Roles, Role, Reading
<1>11. QED
  BY <1>1, <1>2, <1>5, <1>7, <1>8, <1>9, <1>10 DEF Kept, Answered, ControlIs, ChipRight, nature

LEMMA ProbeKept ==
  ASSUME IInv, NEW t \in Threads, Retry(t) \/ ProbeFails(t) \/ Rebind(t) PROVE Kept'
<1>1. /\ UNCHANGED <<busVars, which, prev, lower, tries, word, start, chip, nature>>
      /\ pc[t] \in {"judge", "failed"}
      /\ \E there \in {"identify", "failed"} : pc' = [pc EXCEPT ![t] = there]
  BY DEF Retry, ProbeFails, Rebind, Goto, probeVars
<1>2. TypeOK /\ Kept /\ DOMAIN pc = Threads /\ t = Prober /\ chip = NoWord
  BY <1>1, ProberOnly DEF IInv, TypeOK, Kept, Probing
<1>3. UNCHANGED <<reg, phase, op, answer, ret>> /\ phase[t] = "idle"
  BY <1>1, <1>2 DEF busVars, Kept, Asking, Asked
<1>4. pc'[t] \in {"identify", "failed"} /\ \A s \in Threads : Same(s) \/ Rests(s)
  BY <1>1, <1>2, <1>3 DEF Same, Got, Rests, Reading
<1>5. Counter' = Counter /\ Control' = Control /\ Counter \in Word
  BY <1>2, <1>3, ThreadTypes DEF Counter, Control, Pair
<1>6. Followed'
  BY <1>1, <1>2, <1>4, <1>5, LeadsRefl, AllFollowed DEF Kept, nature
<1>7. Answered'
  BY <1>2, <1>4 DEF Answered
<1>8. Asking'
  BY <1>1, <1>2, <1>3 DEF Kept, Asking, Asked
<1>9. Roles'
  BY <1>1, <1>2 DEF Kept, Roles, Role, Reading
<1>10. QED
  BY <1>1, <1>2, <1>5, <1>6, <1>7, <1>8, <1>9 DEF Kept, ControlIs, ChipRight, nature

LEMMA ReadsKept == ASSUME IInv, NEW t \in Threads, ReadCounter(t) \/ IdentifyRead(t) PROVE Kept'
<1>1. CASE ReadCounter(t)
  BY <1>1, ReadWordKept DEF ReadCounter
<1>2. CASE IdentifyRead(t)
  <2>1. t = Prober /\ chip = NoWord
    BY <1>2, ProberOnly DEF IdentifyRead, Probing, IInv, Kept
  <2>2. QED
    BY <1>2, <2>1, ReadWordKept DEF IdentifyRead
<1>3. QED
  BY <1>1, <1>2

LEMMA StutterKept == ASSUME IInv, UNCHANGED vars PROVE Kept'
<1>1. /\ UNCHANGED <<reg, phase, op, answer, ret, pc, which, prev, lower, word, start, chip, device, way>>
      /\ TypeOK /\ Kept
  BY DEF vars, busVars, readVars, probeVars, nature, IInv
<1>2. \A s \in Threads : Same(s)
  BY <1>1 DEF Same, Got
<1>3. Counter' = Counter /\ Control' = Control /\ Counter \in Word
  BY <1>1, ThreadTypes, GaugeAssumption DEF Counter, Control, Pair
<1>4. Followed'
  BY <1>1, <1>2, <1>3, LeadsRefl, AllFollowed DEF Kept
<1>5. Answered'
  BY <1>1, <1>2, <1>3, Standing, GaugeAssumption DEF Kept
<1>6. QED
  BY <1>1, <1>3, <1>4, <1>5 DEF Kept, Asking, Asked, Roles, Role, ControlIs, ChipRight

-----------------------------------------------------------------------------
(* The types.                                                               *)
BusTypes ==
  /\ reg \in [Addrs -> HalfByte] /\ phase \in [Threads -> {"idle", "called", "served"}]
  /\ op \in [Threads -> Bus!Requests] /\ answer \in [Threads -> Bus!Results]
  /\ ret \in [Threads -> Bus!Results]

ReadTypes ==
  /\ pc \in [Threads -> {"idle", "failed"} \cup Reading \cup Probing]
  /\ which \in [Threads -> {"control", "counter"}]
  /\ prev \in [Threads -> HalfByte] /\ lower \in [Threads -> HalfByte]
  /\ tries \in [Threads -> 1..Retries]
  /\ word \in [Threads -> Outcomes] /\ start \in [Threads -> Word]

ProbeTypes ==
  /\ attempt \in 1..Attempts /\ chip \in Known \cup {NoWord}
  /\ binds \in 0..MaxBinds
  /\ device \in Devices /\ way \in Ways

LEMMA TypeParts == /\ TypeOK <=> BusTypes /\ ReadTypes /\ ProbeTypes
                   /\ TypeOK' <=> BusTypes' /\ ReadTypes' /\ ProbeTypes'
BY Zenon DEF TypeOK, BusTypes, ReadTypes, ProbeTypes

LEMMA ResultsAre == /\ Bus!Nothing \in Bus!Results /\ Bus!Failed \in Bus!Results /\ Bus!Wrote \in Bus!Results
                    /\ \A v \in HalfByte : Bus!Read(v) \in Bus!Results
                    /\ \A r \in Bus!Results : r.st = "read" => r.value \in HalfByte
<1>1. Bus!Nothing \in Bus!Results /\ Bus!Failed \in Bus!Results /\ Bus!Wrote \in Bus!Results
  BY Zenon DEF Bus!Results
<1>2. ASSUME NEW v \in HalfByte PROVE Bus!Read(v) \in Bus!Results
  BY Zenon DEF Bus!Results
<1>3. ASSUME NEW r \in Bus!Results, r.st = "read" PROVE r.value \in HalfByte
  BY <1>3 DEF Bus!Results, Bus!Nothing, Bus!Failed, Bus!Wrote, Bus!Read
<1>4. QED
  BY <1>1, <1>2, <1>3

LEMMA RequestsAre ==
  /\ \A w \in {"control", "counter"}, h \in {"high", "low"} : Get(w, h) \in Bus!Requests
  /\ \A w \in {"control", "counter"}, h \in {"high", "low"}, b \in HalfByte : Put(w, h, b) \in Bus!Requests
BY AddrsAre DEF Get, Put, Bus!Requests

LEMMA ServeTypes == ASSUME BusTypes, NEW t \in Threads, Bus!Serve(t) PROVE BusTypes'
<1>1. op[t] \in Bus!Requests
  BY DEF BusTypes
<1>2. op[t].addr \in Addrs /\ (op[t].kind # "read" => op[t].value \in HalfByte)
  BY <1>1 DEF Bus!Requests
<1>3. reg' \in [Addrs -> HalfByte]
  BY <1>2 DEF BusTypes, Bus!Serve
<1>4. answer' \in [Threads -> Bus!Results]
  BY <1>2, ResultsAre DEF BusTypes, Bus!Serve
<1>5. QED
  BY <1>3, <1>4 DEF BusTypes, Bus!Serve

LEMMA CallTypes == ASSUME BusTypes, NEW t \in Threads, NEW r \in Bus!Requests, Bus!Call(t, r) PROVE BusTypes'
BY ResultsAre DEF BusTypes, Bus!Call

LEMMA ReturnsTypes ==
  ASSUME BusTypes, NEW t \in Threads, BusReturns(t) \/ BusFaults(t) PROVE BusTypes'
BY ResultsAre DEF BusTypes, BusReturns, BusFaults, Bus!Succeed, Bus!WriteMissed, Bus!Fail

LEMMA TickTypes == ASSUME BusTypes, NEW r \in [Addrs -> HalfByte], Bus!Tick(r) PROVE BusTypes'
BY DEF BusTypes, Bus!Tick

LEMMA OutcomesAre == /\ \A e \in Errors \cup {"none", "unstable"} : Error(e) \in Outcomes
                     /\ \A u, l \in HalfByte : Ok(<<u, l>>) \in Outcomes
BY DEF Outcomes, Word

LEMMA ReturnTypes ==
  ASSUME ReadTypes, NEW t \in Threads, NEW r \in Outcomes, Return(t, r), UNCHANGED <<which, start>>
  PROVE  ReadTypes'
<1>1. 0 \in HalfByte /\ Retries \in 1..Retries
  BY GaugeAssumption DEF HalfByte
<1>2. pc' \in [Threads -> {"idle", "failed"} \cup Reading \cup Probing]
  BY DEF ReadTypes, Return, Goto, Reading, Probing
<1>3. word' \in [Threads -> Outcomes]
  BY DEF ReadTypes, Return
<1>4. QED
  BY <1>1, <1>2, <1>3 DEF ReadTypes, Return

LEMMA ReadWordTypes ==
  ASSUME TypeOK, NEW t \in Threads, NEW w \in {"control", "counter"}, ReadWord(t, w)
  PROVE  BusTypes' /\ ReadTypes'
<1>1. BusTypes'
  BY TypeParts, RequestsAre, CallTypes DEF ReadWord
<1>2. Counter \in Word /\ None \in Outcomes /\ Retries \in 1..Retries
  BY ThreadTypes, OutcomesAre, GaugeAssumption DEF None
<1>3. pc' \in [Threads -> {"idle", "failed"} \cup Reading \cup Probing]
  BY DEF TypeOK, ReadWord, Goto, Reading, Probing
<1>4. /\ which' \in [Threads -> {"control", "counter"}] /\ tries' \in [Threads -> 1..Retries]
      /\ prev' \in [Threads -> HalfByte] /\ lower' \in [Threads -> HalfByte]
  BY <1>2 DEF TypeOK, ReadWord
<1>5. word' \in [Threads -> Outcomes] /\ start' \in [Threads -> Word]
  BY <1>2 DEF TypeOK, ReadWord
<1>6. QED
  BY <1>1, <1>3, <1>4, <1>5 DEF ReadTypes

LEMMA PassTypes ==
  ASSUME TypeOK, NEW t \in Threads, NEW u \in HalfByte, Pass(t, u)
  PROVE  BusTypes' /\ prev' \in [Threads -> HalfByte]
         /\ pc' \in [Threads -> {"idle", "failed"} \cup Reading \cup Probing]
<1>1. Get(which[t], "low") \in Bus!Requests
  BY RequestsAre DEF TypeOK
<1>2. BusTypes'
  BY <1>1, TypeParts, CallTypes DEF Pass
<1>3. QED
  BY <1>2 DEF TypeOK, Pass, Goto, Reading, Probing

LEMMA ReadsTypes ==
  ASSUME TypeOK, NEW t \in Threads, FirstUpper(t) \/ Lower(t) \/ Upper(t) \/ ByteFails(t)
  PROVE  TypeOK'
<1> USE TypeParts
<1>1. ret[t].st = "read" => ret[t].value \in HalfByte
  BY ResultsAre DEF TypeOK
<1>2. UNCHANGED <<attempt, chip, binds, device, way>> /\ ProbeTypes'
  BY DEF FirstUpper, Lower, Upper, ByteFails, ProbeTypes, probeVars, nature
<1>3. CASE FirstUpper(t)
  <2>1. BusTypes' /\ prev' \in [Threads -> HalfByte]
        /\ pc' \in [Threads -> {"idle", "failed"} \cup Reading \cup Probing]
    BY <1>1, <1>3, PassTypes DEF FirstUpper
  <2>2. QED
    BY <1>2, <1>3, <2>1 DEF FirstUpper, ReadTypes
<1>4. CASE Lower(t)
  <2>1. Get(which[t], "high") \in Bus!Requests
    BY RequestsAre DEF TypeOK
  <2>2. BusTypes'
    BY <1>4, <2>1, CallTypes DEF Lower
  <2>3. ReadTypes'
    BY <1>1, <1>4 DEF Lower, Goto, ReadTypes, Reading, Probing
  <2>4. QED
    BY <1>2, <2>2, <2>3
<1>5. CASE Upper(t)
  <2>1. ret[t].value \in HalfByte /\ prev[t] \in HalfByte /\ lower[t] \in HalfByte /\ tries[t] \in 1..Retries
    BY <1>1, <1>5 DEF Upper, TypeOK
  <2>2. CASE Return(t, Ok(<<ret[t].value, lower[t]>>)) /\ UNCHANGED busVars
    BY <1>2, <1>5, <2>1, <2>2, OutcomesAre, ReturnTypes DEF Upper, BusTypes, busVars
  <2>3. CASE Return(t, Unstable) /\ UNCHANGED busVars
    BY <1>2, <1>5, <2>3, OutcomesAre, ReturnTypes DEF Upper, Unstable, BusTypes, busVars
  <2>4. CASE tries[t] > 1 /\ tries' = [tries EXCEPT ![t] = @ - 1] /\ Pass(t, ret[t].value) /\ UNCHANGED <<word, lower>>
    <3>1. BusTypes' /\ prev' \in [Threads -> HalfByte]
          /\ pc' \in [Threads -> {"idle", "failed"} \cup Reading \cup Probing]
      BY <2>1, <2>4, PassTypes
    <3>2. tries' \in [Threads -> 1..Retries]
      BY <2>1, <2>4, GaugeAssumption DEF ReadTypes
    <3>3. QED
      BY <1>2, <1>5, <2>4, <3>1, <3>2 DEF Upper, ReadTypes
  <2>5. QED
    BY <1>5, <2>2, <2>3, <2>4 DEF Upper
<1>6. CASE ByteFails(t)
  BY <1>2, <1>6, OutcomesAre, ReturnTypes DEF ByteFails, BusTypes, busVars
<1>7. QED
  BY <1>3, <1>4, <1>5, <1>6

LEMMA ProbesTypes ==
  ASSUME TypeOK, NEW t \in Threads,
         \/ Identify(t) \/ IdentifyHigh(t) \/ Judge(t) \/ Retry(t) \/ ProbeFails(t) \/ Rebind(t)
  PROVE  TypeOK'
<1> USE TypeParts
<1>1. ReadTypes'
  BY DEF Identify, IdentifyHigh, Judge, Retry, ProbeFails, Rebind, Goto, ReadTypes, Reading, Probing
<1>2. ProbeTypes'
  BY GaugeAssumption DEF Identify, IdentifyHigh, Judge, Retry, ProbeFails, Rebind, ProbeTypes, probeVars, nature
<1>3. BusTypes'
  <2>1. CASE Identify(t) \/ IdentifyHigh(t)
    <3>1. Subcommand[1] \in HalfByte /\ Subcommand[2] \in HalfByte
      BY GaugeAssumption DEF Subcommand, HalfByte
    <3>2. QED
      BY <2>1, <3>1, RequestsAre, CallTypes DEF Identify, IdentifyHigh
  <2>2. CASE UNCHANGED busVars
    BY <2>2 DEF BusTypes, busVars
  <2>3. QED
    BY <2>1, <2>2 DEF Judge, Retry, ProbeFails, Rebind
<1>4. QED
  BY <1>1, <1>2, <1>3

LEMMA NextTypes == ASSUME TypeOK, [Next]_vars PROVE TypeOK'
<1> USE TypeParts
<1>1. ASSUME NEW t \in Threads, BusServes(t) \/ BusReturns(t) \/ BusFaults(t) PROVE TypeOK'
  <2>1. BusTypes'
    BY <1>1, ServeTypes, ReturnsTypes DEF BusServes
  <2>2. UNCHANGED <<readVars, probeVars, nature>>
    BY <1>1 DEF BusServes, BusReturns, BusFaults
  <2>3. QED
    BY <2>1, <2>2 DEF ReadTypes, ProbeTypes, readVars, probeVars, nature
<1>2. ASSUME NEW t \in Threads, ReadCounter(t) \/ IdentifyRead(t) PROVE TypeOK'
  <2>1. BusTypes' /\ ReadTypes'
    BY <1>2, ReadWordTypes DEF ReadCounter, IdentifyRead
  <2>2. ProbeTypes'
    BY <1>2 DEF ReadCounter, IdentifyRead, ProbeTypes, probeVars, nature
  <2>3. QED
    BY <2>1, <2>2
<1>3. ASSUME NEW p \in Word, NEW w \in {"control", "counter"}, Bus!Tick(SetPair(w, p)),
             UNCHANGED <<readVars, probeVars, nature>>
      PROVE  TypeOK'
  <2>1. SetPair(w, p) \in [Addrs -> HalfByte]
    BY PairWritten DEF TypeOK
  <2>2. BusTypes'
    BY <1>3, <2>1, TickTypes
  <2>3. QED
    BY <1>3, <2>2 DEF ReadTypes, ProbeTypes, readVars, probeVars, nature
<1>4. CASE Execute
  <2>1. device \in Word
    BY GaugeAssumption DEF TypeOK
  <2>2. QED
    BY <1>3, <1>4, <2>1 DEF Execute
<1>5. ASSUME NEW m \in way, Count(m) PROVE TypeOK'
  BY <1>3, <1>5 DEF Count
<1>6. CASE UNCHANGED vars
  BY <1>6 DEF BusTypes, ReadTypes, ProbeTypes, vars, busVars, readVars, probeVars, nature
<1>7. QED
  BY <1>1, <1>2, <1>4, <1>5, <1>6, ReadsTypes, ProbesTypes DEF Next, Driver

-----------------------------------------------------------------------------
LEMMA InitIInv == Init => IInv
<1> SUFFICES ASSUME Init PROVE IInv
  OBVIOUS
<1> USE GaugeAssumption, TypeParts
<1>1. BusTypes
  BY ResultsAre DEF Init, Bus!BusInit, BusTypes
<1>2. Counter \in Word /\ None \in Outcomes /\ Retries \in 1..Retries /\ 0 \in HalfByte
  BY <1>1, PairsAre, OutcomesAre DEF Counter, None, BusTypes, HalfByte
<1>3. ReadTypes
  BY <1>2 DEF Init, ReadTypes, Reading, Probing
<1>4. ProbeTypes
  BY DEF Init, ProbeTypes
<1>5. phase = [t \in Threads |-> "idle"] /\ pc = [t \in Threads |-> IF t = Prober THEN "identify" ELSE "idle"]
  BY DEF Init, Bus!BusInit
<1>6. Asking /\ Roles /\ Followed /\ Answered
  BY <1>5 DEF Init, Asking, Asked, Roles, Role, Reading, Followed, Following, Answered
<1>7. ControlIs /\ ChipRight
  BY DEF Init, ControlIs, Control, ChipRight
<1>8. QED
  BY <1>1, <1>3, <1>4, <1>6, <1>7 DEF IInv, Kept

LEMMA NextKept == ASSUME IInv, [Next]_vars PROVE Kept'
<1>1. ASSUME NEW t \in Threads, BusServes(t) PROVE Kept'
  BY <1>1, ReadServed, WriteServed
<1>2. ASSUME NEW t \in Threads, BusReturns(t) \/ BusFaults(t) PROVE Kept'
  BY <1>2, BusKept
<1>3. ASSUME NEW t \in Threads, Driver(t) PROVE Kept'
  BY <1>3, FirstUpperKept, LowerKept, UpperKept, ByteFailsKept, SubcommandKept, ReadsKept, JudgeKept, ProbeKept
     DEF Driver
<1>4. ASSUME NEW t \in Threads, ReadCounter(t) \/ Rebind(t) PROVE Kept'
  BY <1>4, ReadsKept, ProbeKept
<1>5. QED
  BY <1>1, <1>2, <1>3, <1>4, ExecuteKept, CountKept, StutterKept DEF Next

\* The inductive invariant holds of every behaviour of the gauge driver.
THEOREM Invariance == Spec => []IInv
<1>1. IInv /\ [Next]_vars => IInv'
  BY NextTypes, NextKept DEF IInv
<1>2. QED
  BY InitIInv, <1>1, PTL DEF Spec

\* The types of the bytes, the requests, the locals of hdq_uart_read() and
\* the driver's state.
THEOREM TypeCorrect == Spec => []TypeOK
<1>1. IInv => TypeOK
  BY DEF IInv
<1>2. QED
  BY <1>1, Invariance, PTL

\* The word that hdq_uart_read() joins is never torn, for every width of a
\* byte and any number of threads and passes.
THEOREM NotTornTheorem == Spec => []NotTorn
<1>1. IInv => NotTorn
  BY DEF IInv, Kept, Followed, Following, NotTorn, Ahead, Leads
<1>2. QED
  BY <1>1, Invariance, PTL

\* The register table the driver uses is the one of the gauge on the bus.
THEOREM ChipTheorem == Spec => []ChipRight
<1>1. IInv => ChipRight
  BY DEF IInv, Kept
<1>2. QED
  BY <1>1, Invariance, PTL
=============================================================================
