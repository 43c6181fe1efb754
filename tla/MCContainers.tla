---------------------------- MODULE MCContainers ----------------------------
(* The containers of the library, each by itself in a behaviour: a hash    *)
(* table, a file in memory or a bit vector.                                *)
EXTENDS HashTable, Memfile, Bitvec

VARIABLE part

vars == <<part, hashVars, memVars, bitVars>>

Init ==
  /\ part \in {"hash", "memfile", "bitvec"}
  /\ HashInit /\ MemInit /\ BitInit
  /\ part # "hash" => code = [k \in Keys |-> 0]

Next ==
  \/ part = "hash" /\ HashNext /\ UNCHANGED <<part, memVars, bitVars>>
  \/ part = "memfile" /\ MemNext /\ UNCHANGED <<part, hashVars, bitVars>>
  \/ part = "bitvec" /\ BitNext /\ UNCHANGED <<part, hashVars, memVars>>

Spec == Init /\ [][Next]_vars

BitvecSpec == Init /\ part = "bitvec" /\ [][Next]_vars

Blocks == Permutations(Keys) \cup Permutations(Data) \cup Permutations(Elems)
=============================================================================
