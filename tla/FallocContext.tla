---------------------------- MODULE FallocContext ---------------------------
(***************************************************************************)
(* A falloc context (falloc.cu): an allocator and a stack on top of the    *)
(* chunks of the heap.  Each chunk is a node with the offset of its free   *)
(* space; the first chunk also holds the context itself.  ctx->nodes chains*)
(* all nodes by next, the latest first; ctx->availableNodes chains those   *)
(* falloc looks at by nextAvailable.                                       *)
(*                                                                         *)
(* A context belongs to one thread, which uses it either to allocate       *)
(* (alloc = true, any sizes) or as the stack of one type of fallocPush,    *)
(* fallocPop, fallocMark and fallocAtMark.  Nodes are numbered in the      *)
(* order they were added: the heap hands out a chunk nobody holds.         *)
(***************************************************************************)
EXTENDS NullPointer, Integers, Sequences, FiniteSetsExt

CONSTANTS
  ObjectSizes, (* of the objects the program asks for                      *)
  ChunkSize,  (* ctx->chunkSize                                            *)
  CtxSize,    (* sizeof(cuFallocCtx)                                       *)
  NodeSize,   (* sizeof(fallocNode)                                        *)
  Slack,      (* FALLOCNODE_SLACK                                          *)
  Short,      (* the range of an unsigned short                            *)
  MaxNodes,   (* bound on the chunks the context takes from the heap       *)
  MaxBlocks,  (* bound on the objects in use                               *)
  Deep        (* TRUE: stacks grow past what fallocRetract can undo        *)

Nodes == 1 .. MaxNodes
Ctx == 1   (* the node inside the context *)

ASSUME ContextAssumption ==
  /\ ObjectSizes \subseteq Nat \ {0}
  /\ {ChunkSize, NodeSize, CtxSize, Slack, Short, MaxBlocks} \subseteq Nat
  /\ MaxNodes \in Nat \ {0}
  /\ NodeSize + Slack <= CtxSize /\ CtxSize <= ChunkSize /\ ChunkSize < Short
  /\ Deep \in BOOLEAN /\ Null \notin Nat

VARIABLES
  mode,        (* how the context is used: "none" before it is created     *)
  unit,        (* sizeof(T), for a stack                                   *)
  added,       (* nodes so far: ctx->nodes is node added, its next the one *)
               (* before it, and so on to Ctx                              *)
  avail,       (* ctx->availableNodes                                      *)
  next,        (* nextAvailable of each node                               *)
  freeOffset,  (* of each node                                             *)
  blocks,      (* history: the objects in use, the latest last             *)
  mark         (* what fallocMark stored, and history: the depth then      *)

contextVars == <<mode, unit, added, avail, next, freeOffset, blocks, mark>>

NoMark == [node |-> Null, offset |-> 0, depth |-> 0]

ContextInit ==
  /\ mode = "none" /\ unit = 0 /\ added = 0 /\ avail = Null
  /\ next = [n \in Nodes |-> Null]
  /\ freeOffset = [n \in Nodes |-> 0]
  /\ blocks = <<>> /\ mark = NoMark

-----------------------------------------------------------------------------
(* fallocCreateCtx *)
Create(m, u) ==
  /\ mode = "none"
  /\ mode' = m /\ unit' = u
  /\ added' = 1
  /\ freeOffset' = [freeOffset EXCEPT ![Ctx] = CtxSize]
  /\ avail' = IF CtxSize + Slack > ChunkSize THEN Null ELSE Ctx
  /\ UNCHANGED <<next, blocks, mark>>

(* fallocDisposeCtx: every node goes back to the heap. *)
Dispose ==
  /\ mode # "none"
  /\ mode' = "none" /\ unit' = 0 /\ added' = 0 /\ avail' = Null
  /\ next' = [n \in Nodes |-> Null]
  /\ freeOffset' = [n \in Nodes |-> 0]
  /\ blocks' = <<>> /\ mark' = NoMark

(* The loop of falloc: the nodes it comes by, which are nodes of the       *)
(* context (SearchEnds), and whether one has room.  Along node->next these *)
(* are the numbers from avail down to Ctx.                                 *)
Available ==
  LET p[i \in 0 .. MaxNodes] ==
        IF i = 0 THEN avail ELSE IF p[i - 1] = Null THEN Null ELSE next[p[i - 1]]
  IN  p

Earlier ==
  [i \in 0 .. MaxNodes |-> IF avail # Null /\ i < avail THEN avail - i ELSE Null]

Path(alloc) == IF alloc THEN Available ELSE Earlier

Fits(n, bytes) == (freeOffset[n] + bytes) % Short <= ChunkSize

Places(alloc, bytes) ==
  {i \in 0 .. MaxNodes : Path(alloc)[i] \in 1 .. added /\ Fits(Path(alloc)[i], bytes)}

(* The node before the i-th of the path, as lastNode names it. *)
Before(alloc, i) == IF i = 0 THEN Ctx ELSE Path(alloc)[i - 1]

(* Where the loop ends when no node has room. *)
End(alloc) == Min({i \in 0 .. MaxNodes : Path(alloc)[i] = Null})

(* Mutant: the offset of the node stays.                                   *)
PlaceStays(n, at, bytes, alloc, last, first, link) ==
  /\ blocks' = Append(blocks, [node |-> n, at |-> at, size |-> bytes])
  /\ UNCHANGED freeOffset
  /\ avail' = first /\ next' = link

(* Mutant: closing never ends a chain. *)
PlaceLoops(n, at, bytes, alloc, last, first, link) ==
  /\ blocks' = Append(blocks, [node |-> n, at |-> at, size |-> bytes])
  /\ freeOffset' = [freeOffset EXCEPT ![n] = (at + bytes) % Short]
  /\ avail' = first
  /\ next' = IF alloc /\ ((at + bytes) % Short) + Slack > ChunkSize
             THEN [link EXCEPT ![last] = n, ![n] = first] ELSE link

(* Mutant: the chain ends where a node is taken out of it. *)
PlaceCuts(n, at, bytes, alloc, last, first, link) ==
  LET full == alloc /\ ((at + bytes) % Short) + Slack > ChunkSize
  IN  /\ blocks' = Append(blocks, [node |-> n, at |-> at, size |-> bytes])
      /\ freeOffset' = [freeOffset EXCEPT ![n] = (at + bytes) % Short]
      /\ avail' = IF full /\ last = Ctx THEN Null ELSE first
      /\ next' = IF full /\ last # Ctx THEN [link EXCEPT ![last] = Null, ![n] = Null] ELSE link

(* An object at the offset of node n, which is closed when it is full:     *)
(* first is availableNodes and link nextAvailable before that.             *)
Place(n, at, bytes, alloc, last, first, link) ==
  LET full == alloc /\ ((at + bytes) % Short) + Slack > ChunkSize
      cut == IF last = Ctx THEN link ELSE [link EXCEPT ![last] = link[n]]
  IN  /\ blocks' = Append(blocks, [node |-> n, at |-> at, size |-> bytes])
      /\ freeOffset' = [freeOffset EXCEPT ![n] = (at + bytes) % Short]
      /\ avail' = IF full /\ last = Ctx THEN link[n] ELSE first
      /\ next' = IF full THEN [cut EXCEPT ![n] = Null] ELSE link

FallocFound(alloc, bytes) ==
  \E i \in Places(alloc, bytes) :
    LET n == Path(alloc)[i]
    IN  /\ \A j \in Places(alloc, bytes) : i <= j
        /\ Place(n, freeOffset[n], bytes, alloc, Before(alloc, i), avail, next)
        /\ UNCHANGED added

FallocAdds(alloc, bytes) ==
  /\ Places(alloc, bytes) = {} /\ added < MaxNodes
  /\ added' = added + 1
  /\ Place(added', NodeSize, bytes, alloc, Before(alloc, End(alloc)), added',
           [next EXCEPT ![added'] = IF alloc THEN avail ELSE Null])

(* falloc; a larger object is refused by __THROW. *)
Falloc(alloc, bytes) ==
  /\ Len(blocks) < MaxBlocks /\ bytes <= ChunkSize - CtxSize
  /\ FallocFound(alloc, bytes) \/ FallocAdds(alloc, bytes)
  /\ UNCHANGED <<mode, unit, mark>>

Alloc(bytes) == mode = "alloc" /\ Falloc(TRUE, bytes)

(* How many objects of the type the first node holds, and the first two. *)
Full == (ChunkSize - CtxSize) \div unit
TwoNodes == Full + (ChunkSize - NodeSize) \div unit

(* How far a stack may grow without Deep: fallocRetract does not leave a   *)
(* node for the one before when the objects are larger than its header,    *)
(* nor does it find any node before but the first.                         *)
Undoable == IF unit <= NodeSize THEN TwoNodes ELSE Full

Push ==
  /\ mode = "stack"
  /\ Deep \/ Len(blocks) < Undoable
  /\ Falloc(FALSE, unit)

(* A difference of offsets, an int, is converted to compare it with a      *)
(* sizeof: a negative one is very large.                                   *)
Below(difference, size) == 0 <= difference /\ difference < size

(* Mutant: a node that is just emptied is left as well. *)
EmptiedEarly(bytes) == avail # Ctx /\ Below(freeOffset[avail] - bytes, NodeSize + 1)

Emptied(bytes) == avail # Ctx /\ Below(freeOffset[avail] - bytes, NodeSize)

(* The node a pop takes from.  The search for the node before the current  *)
(* one starts at the latest node: it ends at the node after it, or at Ctx. *)
PopNode(bytes) ==
  IF ~Emptied(bytes) THEN avail ELSE IF avail = added THEN Ctx ELSE avail + 1

Left(bytes) ==
  IF Emptied(bytes) THEN [freeOffset EXCEPT ![avail] = NodeSize] ELSE freeOffset

(* __THROW: the first node holds no object. *)
Refused(bytes) == PopNode(bytes) = Ctx /\ Below(Left(bytes)[Ctx] - bytes, CtxSize)

(* fallocRetract.  It is tried on an empty stack as well, but for objects  *)
(* that are larger than the context only with Deep: it does not refuse     *)
(* those.                                                                  *)
Pop ==
  /\ mode = "stack" /\ avail # Null
  /\ Deep \/ blocks # <<>> \/ unit <= CtxSize
  /\ ~Refused(unit)
  /\ LET n == PopNode(unit)
     IN  /\ avail' = n
         /\ freeOffset' = [Left(unit) EXCEPT ![n] = (@ - unit) % Short]
  /\ blocks' = SubSeq(blocks, 1, Len(blocks) - 1)
  /\ UNCHANGED <<mode, unit, added, next, mark>>

(* fallocMark, fallocAtMark *)
Mark ==
  /\ mode = "stack" /\ avail # Null
  /\ mark' = [node |-> avail, offset |-> freeOffset[avail], depth |-> Len(blocks)]
  /\ UNCHANGED <<mode, unit, added, avail, next, freeOffset, blocks>>

(* Mutant: only the node is compared. *)
AtMarkedNode == mark.node = avail

AtMark == mark.node = avail /\ mark.offset = freeOffset[avail]

ContextNext ==
  \/ Create("alloc", 0)
  \/ \E u \in ObjectSizes : Create("stack", u)
  \/ \E b \in ObjectSizes : Alloc(b)
  \/ Push \/ Pop \/ Mark \/ Dispose

ContextSpec == ContextInit /\ [][ContextNext]_contextVars

-----------------------------------------------------------------------------
ContextTypeOK ==
  /\ mode \in {"none", "alloc", "stack"} /\ unit \in ObjectSizes \cup {0}
  /\ added \in 0 .. MaxNodes /\ avail \in Nodes \cup {Null}
  /\ next \in [Nodes -> Nodes \cup {Null}]
  /\ freeOffset \in [Nodes -> 0 .. ChunkSize]
  /\ blocks \in Seq([node : Nodes, at : Nat, size : ObjectSizes])
  /\ mark \in [node : Nodes \cup {Null}, offset : Nat, depth : Nat]

(* Objects in use never overlap, nor do they touch the header of their     *)
(* node, its end or its free space (falloc, fallocRetract).                *)
NoOverlap ==
  \A i \in DOMAIN blocks :
    LET b == blocks[i]
    IN  /\ b.at >= IF b.node = Ctx THEN CtxSize ELSE NodeSize
        /\ b.at + b.size <= freeOffset[b.node] /\ freeOffset[b.node] <= ChunkSize
        /\ \A j \in DOMAIN blocks :
             (i # j /\ blocks[j].node = b.node)
               => b.at + b.size <= blocks[j].at \/ blocks[j].at + blocks[j].size <= b.at

(* The search of falloc comes by nodes of the context only and to an end:  *)
(* closing a node, which mends the chain of available nodes at lastNode,   *)
(* leaves no circle on its way.                                            *)
SearchEnds ==
  mode # "none" =>
    \A alloc \in BOOLEAN :
      /\ Path(alloc)[MaxNodes] = Null
      /\ \A i \in 0 .. MaxNodes : Path(alloc)[i] \in (1 .. added) \cup {Null}

(* A node that still has room is found again: only a full one is taken out *)
(* of the chain of available nodes.                                        *)
NoRoomLost ==
  mode = "alloc" =>
    \A n \in 1 .. added :
      freeOffset[n] + Slack <= ChunkSize => \E i \in 0 .. MaxNodes : Path(TRUE)[i] = n

(* A pop returns what was pushed last: the address fallocRetract comes to  *)
(* is that of the latest object.  On an empty stack it is refused, if the  *)
(* objects are no larger than the context.                                 *)
PopReturnsTop ==
  (mode = "stack" /\ avail # Null) =>
    LET n == PopNode(unit)
        top == blocks[Len(blocks)]
    IN  IF blocks = <<>> THEN unit <= CtxSize => Refused(unit)
        ELSE top.node = n /\ freeOffset[n] = top.at + unit /\ ~Refused(unit)

(* When fallocAtMark says so, the stack is as deep as it was at the mark.  *)
MarkIsExact ==
  (mode = "stack" /\ mark # NoMark /\ AtMark) => Len(blocks) = mark.depth

-----------------------------------------------------------------------------
(* A claim of the code about stacks that fails when they are Deep.         *)

(* falloc.cu:347, :350, "multi node, retract node", "search for previous   *)
(* node": from a node that has no object any more a pop goes to the one    *)
(* added before it.  It stays where it is when the objects are larger than *)
(* a node header, and else goes to the first node, or to a later one.      *)
RetractsToPrevious ==
  (mode = "stack" /\ avail \notin {Ctx, Null} /\ freeOffset[avail] = NodeSize) =>
    PopNode(unit) = avail - 1
=============================================================================

