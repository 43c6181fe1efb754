---------------------------- MODULE MCAllocators ----------------------------
(* What hands memory out, each by itself in a behaviour: the chunk heap of *)
(* falloc, a context on chunks of its own, the allocator of libcu.ext and  *)
(* the slots of one tag.                                                   *)
EXTENDS FallocHeap, FallocContextProofs, Allocator, Lookaside

VARIABLE part

parts == <<part, vars, contextVars, allocVars, tagVars>>

MCInit ==
  /\ part \in {"heap", "context", "allocator", "tag"}
  /\ Init /\ ContextInit /\ AllocInit /\ TagInit

MCNext ==
  \/ part = "heap" /\ Next /\ UNCHANGED <<part, contextVars, allocVars, tagVars>>
  \/ part = "context" /\ ContextNext /\ UNCHANGED <<part, vars, allocVars, tagVars>>
  \/ part = "allocator" /\ AllocNext /\ UNCHANGED <<part, vars, contextVars, tagVars>>
  \/ part = "tag" /\ TagNext /\ UNCHANGED <<part, vars, contextVars, allocVars>>

MCSpec == MCInit /\ [][MCNext]_parts

(* One of them. *)
HeapOnly    == MCInit /\ part = "heap" /\ [][MCNext]_parts
ContextOnly == MCInit /\ part = "context" /\ [][MCNext]_parts
=============================================================================
