--------------------------- MODULE RemoteCommand ---------------------------
(***************************************************************************)
(* What IPadShell.run_result promises of the commands it is given, one     *)
(* after the other: "Return output and POSIX shell status; never replay a  *)
(* command."  A command happens at most once, perhaps after the caller was *)
(* told that nobody knows, and an answer is what this command did.         *)
(***************************************************************************)
CONSTANT Commands

VARIABLES told,      \* of each command: "new", "sent", "unknown", or its status
          did        \* what it did: "no", or its status

vars == <<told, did>>

Status == {"zero", "nonzero"}

Init == told = [c \in Commands |-> "new"] /\ did = [c \in Commands |-> "no"]

Issue(c) == /\ told[c] = "new" /\ \A d \in Commands : told[d] # "sent"
            /\ told' = [told EXCEPT ![c] = "sent"] /\ UNCHANGED did

Happens(c) == /\ told[c] \in {"sent", "unknown"} /\ did[c] = "no"
              /\ \E s \in Status : did' = [did EXCEPT ![c] = s]
              /\ UNCHANGED told

Answer(c) == /\ told[c] = "sent" /\ did[c] # "no"
             /\ told' = [told EXCEPT ![c] = did[c]] /\ UNCHANGED did

\* "Completion was not confirmed; the remote command may still be running."
Lose(c) == /\ told[c] = "sent"
           /\ told' = [told EXCEPT ![c] = "unknown"] /\ UNCHANGED did

Next == \E c \in Commands : Issue(c) \/ Happens(c) \/ Answer(c) \/ Lose(c)

Spec == Init /\ [][Next]_vars
=============================================================================
