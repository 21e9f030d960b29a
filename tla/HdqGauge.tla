------------------------------ MODULE HdqGauge ------------------------------
(***************************************************************************)
(* The words of the HDQ gauge, bq27xxx_battery_hdq_uart.c (patches 0004    *)
(* and 0091): hdq_uart_read() joins two registers that the gauge may step  *)
(* between the bytes, hdq_uart_probe() identifies the gauge and retries    *)
(* it, and charging-policy.sh binds the driver again when a probe failed.  *)
(* The bytes travel over HdqBus, which HdqUart implements.                 *)
(***************************************************************************)
EXTENDS Integers

CONSTANTS Threads,       \* threads that read the gauge
          Prober,        \* the one that probes it
          Base,          \* values of a byte (256)
          Retries,       \* HDQ_WORD_READ_RETRIES
          Attempts,      \* HDQ_IDENTIFY_ATTEMPTS
          Devices,       \* the words gauges identify themselves with
          Known,         \* the device types the driver has a table for
          Status,        \* what Control() holds before the subcommand
          Ways,          \* sets of moves a counter makes: 1 up, -1 down
          NoWord,        \* no device type
          MaxBinds       \* times the driver is bound again

HalfByte == 0..(Base - 1)
Word == HalfByte \X HalfByte              \* <<high byte, low byte>>

Addr(w, h) == [word |-> w, half |-> h]
Addrs == [word : {"control", "counter"}, half : {"high", "low"}]

Subcommand == <<0, 1>>                    \* BQ27XXX_SUBCMD_DEVICE_TYPE

ASSUME GaugeAssumption ==
  /\ Base \in Nat /\ Base >= 2 /\ Retries \in Nat \ {0} /\ Attempts \in Nat \ {0}
  /\ Prober \in Threads /\ MaxBinds \in Nat
  /\ Devices \subseteq Word /\ Known \subseteq Word /\ Status \in Word
  /\ Ways \subseteq SUBSET {1, -1}

\* No status is a type the driver knows, and no half of the subcommand is
\* half of one (0x0541 and 0x0545).
ASSUME TypeAssumption ==
  /\ NoWord \notin Word /\ Subcommand \notin Devices \cup {Status}
  /\ \A w \in Known : w # Status /\ w[1] # Subcommand[1] /\ w[2] # Subcommand[2]

VARIABLES reg, phase, op, answer, ret,   \* the bus: see HdqBus
          pc,         \* where each thread is
          which,      \* the word it reads
          prev,       \* prev_upper
          lower,      \* lower
          tries,      \* timeout
          word,       \* the outcome of its last word read, or of its write
          start,      \* history: the counter when the read began
          attempt,    \* attempt, in hdq_uart_probe()
          chip,       \* di.chip: the device type of the table in use
          binds,      \* times the driver was bound again
          device, way \* the gauge: its device type, the moves of its counter

Bus == INSTANCE HdqBus WITH Callers <- Threads, Values <- HalfByte

busVars   == <<reg, phase, op, answer, ret>>
readVars  == <<pc, which, prev, lower, tries, word, start>>
probeVars == <<attempt, chip, binds>>
nature    == <<device, way>>
vars == <<busVars, readVars, probeVars, nature>>

Get(w, h)    == [kind |-> "read", addr |-> Addr(w, h)]
Put(w, h, b) == [kind |-> "write", addr |-> Addr(w, h), value |-> b]

Pair(r, w) == <<r[Addr(w, "high")], r[Addr(w, "low")]>>
Counter == Pair(reg, "counter")
SetPair(w, p) == [reg EXCEPT ![Addr(w, "high")] = p[1], ![Addr(w, "low")] = p[2]]

Ok(p)    == [st |-> "ok", value |-> p]
Error(e) == [st |-> e]
Unstable == Error("unstable")             \* the -EIO of timeout == 0
None     == Error("none")
Errors   == {"EIO", "ETIMEDOUT"}          \* what a byte call can return

Reading == {"first", "lower", "upper"}
Probing == {"identify", "control_low", "control_high", "judge"}

Init == /\ Bus!BusInit /\ Pair(reg, "control") = Status
        /\ pc = [t \in Threads |-> IF t = Prober THEN "identify" ELSE "idle"]
        /\ which = [t \in Threads |-> "control"]
        /\ prev = [t \in Threads |-> 0] /\ lower = [t \in Threads |-> 0]
        /\ tries = [t \in Threads |-> Retries]
        /\ word = [t \in Threads |-> None]
        /\ start = [t \in Threads |-> Counter]
        /\ attempt = 1 /\ chip = NoWord /\ binds = 0
        /\ device \in Devices /\ way \in Ways

-----------------------------------------------------------------------------
(* The gauge and the bus.                                                  *)

\* A subcommand it has taken, and not yet answered.
Pending == Pair(reg, "control") = Subcommand

\* It answers DEVICE_TYPE before the next byte reaches it.
Execute == /\ Pending
           /\ Bus!Tick(SetPair("control", device))
           /\ UNCHANGED <<readVars, probeVars, nature>>

\* The next word of the counter, both bytes at once; no step goes around.
Step(p, m) == IF m = 1 THEN IF p[2] < Base - 1 THEN <<p[1], p[2] + 1>> ELSE <<p[1] + 1, 0>>
                       ELSE IF p[2] > 0 THEN <<p[1], p[2] - 1>> ELSE <<p[1] - 1, Base - 1>>

Count(m) == /\ Step(Counter, m) \in Word
            /\ Bus!Tick(SetPair("counter", Step(Counter, m)))
            /\ UNCHANGED <<readVars, probeVars, nature>>

BusServes(t) == /\ ~Pending /\ Bus!Serve(t)
                /\ UNCHANGED <<readVars, probeVars, nature>>

BusReturns(t) == /\ Bus!Succeed(t)
                 /\ UNCHANGED <<readVars, probeVars, nature>>

BusFaults(t) == /\ Bus!WriteMissed(t) \/ Bus!Fail(t)
                /\ UNCHANGED <<readVars, probeVars, nature>>

-----------------------------------------------------------------------------
(* hdq_uart_read(), one step per byte call.                                *)

Goto(t, there) == pc' = [pc EXCEPT ![t] = there]

\* A thread is done with a read, and with its locals: the prober looks at the
\* word, the others return it.
Return(t, r) == /\ Goto(t, IF t = Prober /\ chip = NoWord THEN "judge" ELSE "idle")
                /\ word' = [word EXCEPT ![t] = r]
                /\ prev' = [prev EXCEPT ![t] = 0] /\ lower' = [lower EXCEPT ![t] = 0]
                /\ tries' = [tries EXCEPT ![t] = Retries]

\* The high byte first.
ReadWord(t, w) == /\ Bus!Call(t, Get(w, "high"))
                  /\ Goto(t, "first")
                  /\ which' = [which EXCEPT ![t] = w]
                  /\ tries' = [tries EXCEPT ![t] = Retries]
                  /\ word' = [word EXCEPT ![t] = None]
                  /\ start' = [start EXCEPT ![t] = Counter]
                  /\ UNCHANGED <<prev, lower>>

\* The pass of the loop that starts with high byte u.
Pass(t, u) == /\ prev' = [prev EXCEPT ![t] = u]
              /\ Goto(t, "lower")
              /\ Bus!Call(t, Get(which[t], "low"))

FirstUpper(t) == /\ pc[t] = "first" /\ ret[t].st = "read"
                 /\ Pass(t, ret[t].value)
                 /\ UNCHANGED <<which, lower, tries, word, start, probeVars, nature>>

Lower(t) == /\ pc[t] = "lower" /\ ret[t].st = "read"
            /\ lower' = [lower EXCEPT ![t] = ret[t].value]
            /\ Goto(t, "upper")
            /\ Bus!Call(t, Get(which[t], "high"))
            /\ UNCHANGED <<which, prev, tries, word, start, probeVars, nature>>

\* Mutant: the high byte is not compared with the one before.
UpperAgrees(t) ==
  /\ pc[t] = "upper" /\ ret[t].st = "read"
  /\ Return(t, Ok(<<ret[t].value, lower[t]>>))
  /\ UNCHANGED <<busVars, which, start, probeVars, nature>>

\* Mutant: the passes are not counted.
UpperInsists(t) ==
  /\ pc[t] = "upper" /\ ret[t].st = "read"
  /\ LET u == ret[t].value IN
     \/ /\ u = prev[t]
        /\ Return(t, Ok(<<u, lower[t]>>))
        /\ UNCHANGED busVars
     \/ u # prev[t] /\ Pass(t, u) /\ UNCHANGED <<word, lower, tries>>
  /\ UNCHANGED <<which, start, probeVars, nature>>

\* The high byte again: done if it is the same, at most Retries passes.
Upper(t) ==
  /\ pc[t] = "upper" /\ ret[t].st = "read"
  /\ LET u == ret[t].value IN
     \/ /\ u = prev[t]
        /\ Return(t, Ok(<<u, lower[t]>>))
        /\ UNCHANGED busVars
     \/ /\ u # prev[t] /\ tries[t] > 1
        /\ tries' = [tries EXCEPT ![t] = @ - 1]
        /\ Pass(t, u) /\ UNCHANGED <<word, lower>>
     \/ /\ u # prev[t] /\ tries[t] = 1
        /\ Return(t, Unstable)
        /\ UNCHANGED busVars
  /\ UNCHANGED <<which, start, probeVars, nature>>

\* A byte call of a word read, or of the prober's write, returns an error.
ByteFails(t) == /\ pc[t] \in Reading \cup {"control_low", "control_high"}
                /\ ret[t] = Bus!Failed
                /\ \E e \in Errors : Return(t, Error(e))
                /\ UNCHANGED <<busVars, which, start, probeVars, nature>>

\* A thread reads the counter, once the driver is registered.
ReadCounter(t) == /\ pc[t] = "idle" /\ chip # NoWord
                  /\ ReadWord(t, "counter")
                  /\ UNCHANGED <<probeVars, nature>>

-----------------------------------------------------------------------------
(* hdq_uart_probe() and hdq_uart_identify().                               *)

\* The subcommand goes out low byte first ...
Identify(t) == /\ pc[t] = "identify"
               /\ Bus!Call(t, Put("control", "low", Subcommand[2]))
               /\ Goto(t, "control_low")
               /\ UNCHANGED <<which, prev, lower, tries, word, start, probeVars, nature>>

IdentifyHigh(t) == /\ pc[t] = "control_low" /\ ret[t] = Bus!Wrote
                   /\ Bus!Call(t, Put("control", "high", Subcommand[1]))
                   /\ Goto(t, "control_high")
                   /\ UNCHANGED <<which, prev, lower, tries, word, start, probeVars, nature>>

\* ... and the answer is read back from the same pair.
IdentifyRead(t) == /\ pc[t] = "control_high" /\ ret[t] = Bus!Wrote
                   /\ ReadWord(t, "control")
                   /\ UNCHANGED <<probeVars, nature>>

\* Mutant: an unknown type gets the table of the family.
JudgeGuesses(t) ==
  /\ pc[t] = "judge" /\ word[t].st = "ok"
  /\ chip' = IF word[t].value \in Known THEN word[t].value ELSE CHOOSE k \in Known : TRUE
  /\ Goto(t, "idle")
  /\ UNCHANGED <<busVars, which, prev, lower, tries, word, start, attempt, binds, nature>>

\* A type the driver knows: it registers the battery.
Judge(t) == /\ pc[t] = "judge" /\ word[t].st = "ok" /\ word[t].value \in Known
            /\ chip' = word[t].value /\ attempt' = 1
            /\ Goto(t, "idle")
            /\ UNCHANGED <<busVars, which, prev, lower, tries, word, start, binds, nature>>

\* A timeout is tried again.
Retry(t) == /\ pc[t] = "judge" /\ word[t] = Error("ETIMEDOUT") /\ attempt < Attempts
            /\ attempt' = attempt + 1
            /\ Goto(t, "identify")
            /\ UNCHANGED <<busVars, which, prev, lower, tries, word, start, chip, binds, nature>>

\* Any other error, or the last timeout, fails the probe.
ProbeFails(t) == /\ pc[t] = "judge"
                 /\ IF word[t].st = "ok" THEN word[t].value \notin Known
                    ELSE word[t] = Error("ETIMEDOUT") => attempt = Attempts
                 /\ Goto(t, "failed")
                 /\ UNCHANGED <<busVars, which, prev, lower, tries, word, start, probeVars, nature>>

\* charging-policy.sh unbinds and binds the driver.
Rebind(t) == /\ pc[t] = "failed" /\ binds < MaxBinds
             /\ binds' = binds + 1 /\ attempt' = 1
             /\ Goto(t, "identify")
             /\ UNCHANGED <<busVars, which, prev, lower, tries, word, start, chip, nature>>

Driver(t) == \/ FirstUpper(t) \/ Lower(t) \/ Upper(t) \/ ByteFails(t)
             \/ Identify(t) \/ IdentifyHigh(t) \/ IdentifyRead(t)
             \/ Judge(t) \/ Retry(t) \/ ProbeFails(t)

Next == \/ \E t \in Threads : \/ BusServes(t) \/ BusReturns(t) \/ BusFaults(t)
                              \/ Driver(t) \/ ReadCounter(t) \/ Rebind(t)
        \/ Execute \/ \E m \in way : Count(m)

Spec == Init /\ [][Next]_vars

\* The threads run, the gauge executes, and every byte call returns (which
\* HdqUart shows of the byte transport).
FairSpec == /\ Spec
            /\ WF_vars(Execute)
            /\ \A t \in Threads : /\ WF_vars(Driver(t))
                                  /\ WF_vars(BusServes(t) \/ BusReturns(t) \/ BusFaults(t))

-----------------------------------------------------------------------------
(* Properties.                                                             *)

OneWay == way \in {{1}, {-1}}

\* p comes no later than q as the counter steps.
Ahead(p, q) == IF 1 \in way THEN p[1] < q[1] \/ (p[1] = q[1] /\ p[2] <= q[2])
                              ELSE p[1] > q[1] \/ (p[1] = q[1] /\ p[2] >= q[2])

Outcomes == {Error(e) : e \in Errors \cup {"none", "unstable"}} \cup {Ok(w) : w \in Word}

TypeOK ==
  /\ reg \in [Addrs -> HalfByte] /\ phase \in [Threads -> {"idle", "called", "served"}]
  /\ op \in [Threads -> Bus!Requests] /\ answer \in [Threads -> Bus!Results] /\ ret \in [Threads -> Bus!Results]
  /\ pc \in [Threads -> {"idle", "failed"} \cup Reading \cup Probing]
  /\ which \in [Threads -> {"control", "counter"}]
  /\ prev \in [Threads -> HalfByte] /\ lower \in [Threads -> HalfByte]
  /\ tries \in [Threads -> 1..Retries]
  /\ word \in [Threads -> Outcomes] /\ start \in [Threads -> Word]
  /\ attempt \in 1..Attempts /\ chip \in Known \cup {NoWord}
  /\ binds \in 0..MaxBinds
  /\ device \in Devices /\ way \in Ways

\* A word of a counter that only rises, or only falls, is never torn: it is
\* a value the counter had during the read, however the gauge's steps and the
\* byte calls interleave.
NotTorn == OneWay => \A t \in Threads : which[t] = "counter" /\ word[t].st = "ok" =>
             Ahead(start[t], word[t].value) /\ Ahead(word[t].value, Counter)

\* The register table in use is the gauge's own, also after lost bytes,
\* missed subcommands, retries and a rebind.
ChipRight == chip # NoWord => chip = device

\* A word read returns, even if the high byte never stands still, and a probe
\* ends, registered or failed, even if every attempt times out.
ReadsAndProbesEnd ==
  /\ \A t \in Threads : pc[t] \in Reading ~> pc[t] \notin Reading
  /\ pc[Prober] = "identify" ~> pc[Prober] \in {"idle", "failed"}
=============================================================================
