-------------------------------- MODULE Map ---------------------------------
(***************************************************************************)
(* What the users of a hash table are promised: a partial function from    *)
(* keys to data, and an answer that tells what the latest call found.      *)
(***************************************************************************)
CONSTANTS Keys, Data, Null   (* Null: no data, "not there" *)

VARIABLES
  map,     (* the data of each key that is in the table *)
  answer   (* what the latest call returned             *)

Old(k) == IF k \in DOMAIN map THEN map[k] ELSE Null

Init == map = <<>> /\ answer = Null

Find(k) == answer' = Old(k) /\ UNCHANGED map

Remove(k) ==
  /\ map' = [j \in DOMAIN map \ {k} |-> map[j]]
  /\ answer' = Old(k)

Put(k, d) ==
  /\ map' = [j \in DOMAIN map \cup {k} |-> IF j = k THEN d ELSE map[j]]
  /\ answer' = Old(k)

(* A new key may find no memory: its data comes back and nothing changes. *)
NoMemory(k, d) == k \notin DOMAIN map /\ answer' = d /\ UNCHANGED map

Clear == map' = <<>> /\ UNCHANGED answer

Next ==
  \/ \E k \in Keys : Find(k) \/ Remove(k) \/ \E d \in Data : Put(k, d) \/ NoMemory(k, d)
  \/ Clear

Spec == Init /\ [][Next]_<<map, answer>>
=============================================================================
