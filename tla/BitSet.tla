------------------------------- MODULE BitSet -------------------------------
(***************************************************************************)
(* What the users of a bit vector are promised: a set of the numbers 1 to  *)
(* Size.  Only setting a number needs memory; when there is none, numbers  *)
(* may be lost, but none appears and the ones that are left stay.          *)
(***************************************************************************)
EXTENDS Naturals

CONSTANT Size

VARIABLES bits, scarce   (* scarce: the latest call may have found no memory *)

Init == bits = {} /\ scarce = FALSE

Set(i) ==
  \/ bits' = bits \cup {i} /\ scarce' = FALSE
  \/ bits' \subseteq bits \cup {i} /\ scarce' = TRUE

Clear(i) == bits' = bits \ {i} /\ scarce' = FALSE

Next == \E i \in 1..Size : Set(i) \/ Clear(i)

Spec == Init /\ [][Next]_<<bits, scarce>>
=============================================================================
