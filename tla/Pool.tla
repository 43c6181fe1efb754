-------------------------------- MODULE Pool --------------------------------
(***************************************************************************)
(* What users of a free list of objects are promised: an object they get   *)
(* is not in use by anyone else until it is given back.                    *)
(***************************************************************************)
CONSTANT Objects

VARIABLE holders   (* how many users hold each object *)

Init == holders = [o \in Objects |-> 0]

Get(o)  == holders[o] = 0 /\ holders' = [holders EXCEPT ![o] = 1]
Free(o) == holders[o] = 1 /\ holders' = [holders EXCEPT ![o] = 0]

Next == \E o \in Objects : Get(o) \/ Free(o)

Spec == Init /\ [][Next]_holders
=============================================================================
