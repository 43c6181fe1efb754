------------------------------ MODULE OnceInit ------------------------------
(***************************************************************************)
(* What callers of runtimeInitialize are promised: the library is brought  *)
(* up once, by whoever comes first, and nobody is told that it is up       *)
(* before it is.  It may be brought down when nobody is calling.           *)
(***************************************************************************)
CONSTANT Threads

VARIABLES
  up,      (* the library is initialised                       *)
  caller   (* each thread: "out" or "in" a call, or its answer *)

Init == up = FALSE /\ caller = [t \in Threads |-> "out"]

Enter(t) == caller[t] # "in" /\ caller' = [caller EXCEPT ![t] = "in"] /\ UNCHANGED up

BringUp(t) == ~up /\ caller[t] = "in" /\ up' = TRUE /\ UNCHANGED caller

Leave(t, rc) ==
  /\ caller[t] = "in" /\ (rc = "ok" => up)
  /\ caller' = [caller EXCEPT ![t] = rc]
  /\ UNCHANGED up

BringDown ==
  /\ \A t \in Threads : caller[t] # "in"
  /\ up' = FALSE /\ UNCHANGED caller

Next ==
  \/ \E t \in Threads : Enter(t) \/ BringUp(t) \/ Leave(t, "ok") \/ Leave(t, "failed")
  \/ BringDown

Spec == Init /\ [][Next]_<<up, caller>>
=============================================================================
