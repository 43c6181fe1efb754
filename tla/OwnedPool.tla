------------------------------ MODULE OwnedPool -----------------------------
(***************************************************************************)
(* What users of a free list of objects are promised, and by whom: the     *)
(* object a user gets is in no other hands until this user gives it back.  *)
(* It lasts until a user gives back what another one has got (broken).     *)
(***************************************************************************)
CONSTANTS Objects, Users, None

VARIABLES
  holders,  (* how many users hold each object                             *)
  owner,    (* the user that has got it                                    *)
  broken    (* somebody has freed an object of another user                *)

Init ==
  /\ holders = [o \in Objects |-> 0] /\ owner = [o \in Objects |-> None]
  /\ broken = FALSE

Get(u, o) ==
  /\ holders[o] = 0
  /\ holders' = [holders EXCEPT ![o] = 1]
  /\ owner' = [owner EXCEPT ![o] = u]

Free(u, o) ==
  /\ holders[o] = 1 /\ owner[o] = u
  /\ holders' = [holders EXCEPT ![o] = 0]
  /\ owner' = [owner EXCEPT ![o] = None]

Work ==
  /\ ~broken /\ ~broken'
  /\ \E u \in Users, o \in Objects : Get(u, o) \/ Free(u, o)

Break == broken'

Next == Work \/ Break

Spec == Init /\ [][Next]_<<holders, owner, broken>>
=============================================================================
