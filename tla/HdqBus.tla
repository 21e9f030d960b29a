------------------------------- MODULE HdqBus -------------------------------
(***************************************************************************)
(* What the HDQ byte transport promises to the gauge driver above it:      *)
(* hdq_read_byte() and hdq_write_byte() act as if the gauge served one     *)
(* request at one instant between the call and the return.  A read that    *)
(* succeeds returns the register as it was at that instant.  Nothing       *)
(* acknowledges a write: its success says that it went out unaltered, and  *)
(* a gauge that heard it stored it as asked, but the gauge may have missed *)
(* it.  An error promises nothing: a failed write may have been served.    *)
(***************************************************************************)
CONSTANTS Callers,      \* threads that use the gauge
          Addrs,        \* register addresses
          Values        \* what a register holds

VARIABLES reg,          \* the gauge's registers
          phase,        \* phase[c]: where caller c's request is
          op,           \* op[c]: the request
          answer,       \* answer[c]: what the gauge answered to it
          ret           \* ret[c]: what the last call of c returned

busVars == <<reg, phase, op, answer, ret>>

Requests == [kind : {"read"}, addr : Addrs] \cup
            [kind : {"write"}, addr : Addrs, value : Values]

Nothing == [st |-> "none"]
Failed  == [st |-> "error"]
Read(v) == [st |-> "read", value |-> v]
Wrote   == [st |-> "wrote"]

Results == {Nothing, Failed, Wrote} \cup {Read(v) : v \in Values}

BusInit == /\ reg \in [Addrs -> Values]
           /\ phase = [c \in Callers |-> "idle"]
           /\ op \in [Callers -> Requests]
           /\ answer = [c \in Callers |-> Nothing]
           /\ ret = [c \in Callers |-> Nothing]

\* Caller c asks for a byte transaction.
Call(c, r) == /\ phase[c] = "idle"
              /\ phase' = [phase EXCEPT ![c] = "called"]
              /\ op' = [op EXCEPT ![c] = r]
              /\ answer' = [answer EXCEPT ![c] = Nothing]
              /\ ret' = [ret EXCEPT ![c] = Nothing]
              /\ UNCHANGED reg

\* The gauge serves the request of c: the instant a success is about.
Serve(c) ==
  /\ phase[c] = "called"
  /\ phase' = [phase EXCEPT ![c] = "served"]
  /\ IF op[c].kind = "read"
     THEN /\ answer' = [answer EXCEPT ![c] = Read(reg[op[c].addr])]
          /\ UNCHANGED reg
     ELSE /\ answer' = [answer EXCEPT ![c] = Wrote]
          /\ reg' = [reg EXCEPT ![op[c].addr] = op[c].value]
  /\ UNCHANGED <<op, ret>>

\* The call of c succeeds: only after it was served, and with the answer.
Succeed(c) == /\ phase[c] = "served"
              /\ phase' = [phase EXCEPT ![c] = "idle"]
              /\ ret' = [ret EXCEPT ![c] = answer[c]]
              /\ UNCHANGED <<reg, op, answer>>

\* A write the gauge missed succeeds too.
WriteMissed(c) == /\ phase[c] = "called" /\ op[c].kind = "write"
                  /\ phase' = [phase EXCEPT ![c] = "idle"]
                  /\ ret' = [ret EXCEPT ![c] = Wrote]
                  /\ UNCHANGED <<reg, op, answer>>

\* The call of c fails, whether the gauge served it or not.
Fail(c) == /\ phase[c] \in {"called", "served"}
           /\ phase' = [phase EXCEPT ![c] = "idle"]
           /\ ret' = [ret EXCEPT ![c] = Failed]
           /\ UNCHANGED <<reg, op, answer>>

\* The gauge updates its registers by itself.
Tick(r) == /\ reg' = r
           /\ UNCHANGED <<phase, op, answer, ret>>

BusNext == \/ \E c \in Callers : \/ \E r \in Requests : Call(c, r)
                                 \/ Serve(c)
                                 \/ Succeed(c)
                                 \/ WriteMissed(c)
                                 \/ Fail(c)
           \/ \E r \in [Addrs -> Values] : Tick(r)

BusSpec == BusInit /\ [][BusNext]_busVars
=============================================================================
