----------------------------- MODULE RemoteCall -----------------------------
(***************************************************************************)
(* What a caller of the sentinel bus is promised by a message it waits     *)
(* for: its call is executed on the host exactly once between the call and *)
(* the return.  A caller may vanish (its process exits, its kernel traps). *)
(* The bus may break; nothing is promised from then on.                    *)
(***************************************************************************)
CONSTANT Callers

VARIABLES phase, broken

Init == phase = [c \in Callers |-> "idle"] /\ broken = FALSE

Call(c)    == phase[c] = "idle" /\ phase' = [phase EXCEPT ![c] = "called"]
Execute(c) == phase[c] = "called" /\ phase' = [phase EXCEPT ![c] = "executed"]
Return(c)  == phase[c] = "executed" /\ phase' = [phase EXCEPT ![c] = "idle"]

Vanish(C) == phase' = [c \in Callers |-> IF c \in C THEN "gone" ELSE phase[c]]

Step ==
  \/ \E c \in Callers : Call(c) \/ Execute(c) \/ Return(c)
  \/ \E C \in SUBSET Callers : Vanish(C)

Work  == ~broken /\ ~broken' /\ Step
Break == broken'

Next == Work \/ Break

Spec == Init /\ [][Next]_<<phase, broken>>
=============================================================================
