------------------------ MODULE FallocContextProofs -------------------------
(***************************************************************************)
(* Proofs about the falloc contexts whose stacks stay within what          *)
(* fallocRetract can undo (two nodes; one, for objects larger than the     *)
(* header of a node), of a heap whose offsets fit in their words.  Beyond  *)
(* that what is proved of stacks fails: RetractsNode, FindsPreviousNode.   *)
(***************************************************************************)
EXTENDS FallocContext, RingArithmetic, SequenceTheorems

Shallow == ~Deep /\ CtxSize + Slack <= ChunkSize /\ 2 * ChunkSize - CtxSize < Short

Header(n) == IF n = Ctx THEN CtxSize ELSE NodeSize

Objects == [node : Nodes, at : Nat, size : ObjectSizes]

-----------------------------------------------------------------------------
(* The inductive invariant, by parts.                                      *)

(* The chains link nodes of the context. *)
Links ==
  /\ avail # Null => avail \in 1 .. added
  /\ \A n \in Nodes : next[n] # Null => next[n] \in 1 .. added

Offsets ==
  /\ mode # "none" => added >= 1
  /\ \A n \in 1 .. added : Header(n) <= freeOffset[n]

Outside == mode = "none" => added = 0 /\ blocks = <<>> /\ mark = NoMark

Inside ==
  \A i \in DOMAIN blocks :
    /\ blocks[i].node <= added /\ Header(blocks[i].node) <= blocks[i].at
    /\ blocks[i].at + blocks[i].size <= freeOffset[blocks[i].node]

Apart ==
  \A i, j \in DOMAIN blocks :
    (i # j /\ blocks[j].node = blocks[i].node) =>
      \/ blocks[i].at + blocks[i].size <= blocks[j].at
      \/ blocks[j].at + blocks[j].size <= blocks[i].at

Memory == ContextTypeOK /\ Links /\ Offsets /\ Outside /\ Inside /\ Apart

(* Where the next object goes when the stack is d deep. *)
NodeAt(d) == IF d < Full THEN Ctx ELSE added
OffsetAt(d) == IF d < Full THEN CtxSize + unit * d ELSE NodeSize + unit * (d - Full)

(* Where a stack d deep ends in the node of its last object, or in the     *)
(* next one if that is empty.                                              *)
EndIn(n, d) == IF n = Ctx THEN CtxSize + unit * d ELSE NodeSize + unit * (d - Full)

(* The objects of a stack fill the first node, then the latest one. *)
Stacked ==
  mode = "stack" =>
    /\ unit \in ObjectSizes /\ avail \in {Ctx, added}
    /\ avail = Ctx => Len(blocks) <= Full
    /\ avail # Ctx => /\ Len(blocks) >= Full /\ freeOffset[Ctx] = EndIn(Ctx, Full)
                      /\ Full >= 1 /\ unit <= NodeSize
    /\ freeOffset[avail] = EndIn(avail, Len(blocks))
    /\ \A i \in DOMAIN blocks :
         blocks[i] = [node |-> NodeAt(i - 1), at |-> OffsetAt(i - 1), size |-> unit]

Marked ==
  (mode = "stack" /\ mark # NoMark) =>
    mark.node \in Nodes /\ mark.offset = EndIn(mark.node, mark.depth)

IInv == Memory /\ Stacked /\ Marked

-----------------------------------------------------------------------------
(* Offsets within a chunk do not wrap. *)
LEMMA NoWrap ==
  ASSUME Shallow, NEW k \in Nat, k <= 2 * ChunkSize - CtxSize
  PROVE  k % Short = k
<1>1. Short \in Nat \ {0} /\ k \in 0 .. Short - 1
  BY ContextAssumption DEF Shallow
<1> QED
  BY <1>1, ModSmall

(* An object put into the free space of a node overlaps no other. *)
LEMMA PlaceMemory ==
  ASSUME Shallow, Memory, mode # "none",
         NEW n, NEW at \in Nat, NEW bytes \in ObjectSizes, NEW alloc \in BOOLEAN,
         NEW last, NEW first, NEW link,
         Place(n, at, bytes, alloc, last, first, link),
         n \in 1 .. added', added' \in added .. MaxNodes,
         first # Null => first \in 1 .. added',
         link \in [Nodes -> Nodes \cup {Null}],
         \A m \in Nodes : link[m] # Null => link[m] \in 1 .. added',
         \A m \in 1 .. added' : m # n => m <= added,
         Header(n) <= at, at + bytes <= ChunkSize,
         \A i \in DOMAIN blocks :
            blocks[i].node = n => blocks[i].at + blocks[i].size <= at,
         UNCHANGED <<mode, unit, mark>>
  PROVE  /\ Memory'
         /\ blocks' = Append(blocks, [node |-> n, at |-> at, size |-> bytes])
         /\ freeOffset' = [freeOffset EXCEPT ![n] = at + bytes]
<1> DEFINE b == [node |-> n, at |-> at, size |-> bytes]
<1>1. /\ MaxNodes \in Nat \ {0} /\ ChunkSize \in Nat /\ CtxSize \in Nat /\ NodeSize \in Nat
      /\ bytes \in Nat \ {0} /\ added \in 0 .. MaxNodes /\ n \in Nodes
      /\ blocks \in Seq(Objects) /\ Null \notin Nat
      /\ freeOffset \in [Nodes -> 0 .. ChunkSize]
  <2>1. /\ added \in 0 .. MaxNodes /\ blocks \in Seq(Objects)
        /\ freeOffset \in [Nodes -> 0 .. ChunkSize]
    BY DEF Memory, ContextTypeOK, Objects
  <2>2. n \in Nodes
    BY <2>1, ContextAssumption DEF Nodes
  <2> QED
    BY <2>1, <2>2, ContextAssumption
<1>2. (at + bytes) % Short = at + bytes
  <2>1. CtxSize <= ChunkSize
    BY ContextAssumption
  <2> QED
    BY <2>1, <1>1, NoWrap
<1>3. blocks' = Append(blocks, b) /\ freeOffset' = [freeOffset EXCEPT ![n] = at + bytes]
  BY <1>2 DEF Place
<1>4. b \in Objects
  BY <1>1 DEF Objects
<1>5. /\ blocks' \in Seq(Objects) /\ Len(blocks) \in Nat /\ Len(blocks') = Len(blocks) + 1
      /\ DOMAIN blocks = 1 .. Len(blocks) /\ DOMAIN blocks' = 1 .. Len(blocks) + 1
      /\ blocks'[Len(blocks) + 1] = b
      /\ \A i \in DOMAIN blocks : blocks'[i] = blocks[i] /\ blocks[i] \in Objects
  BY <1>1, <1>3, <1>4
<1>6. /\ avail' # Null => avail' \in 1 .. added'
      /\ next' \in [Nodes -> Nodes \cup {Null}]
      /\ \A m \in Nodes : next'[m] # Null => next'[m] \in 1 .. added'
  <2> DEFINE cut == IF last = Ctx THEN link ELSE [link EXCEPT ![last] = link[n]]
  <2>1. /\ cut \in [Nodes -> Nodes \cup {Null}]
        /\ \A m \in Nodes : cut[m] # Null => cut[m] \in 1 .. added'
    BY <1>1
  <2>2. avail' \in {link[n], first} /\ next' \in {link, [cut EXCEPT ![n] = Null]}
    BY DEF Place
  <2> HIDE DEF cut
  <2> QED
    BY <1>1, <2>1, <2>2
<1>7. freeOffset' \in [Nodes -> 0 .. ChunkSize]
  BY <1>1, <1>3
<1>8. ContextTypeOK'
  <2>1. /\ mode' \in {"none", "alloc", "stack"} /\ unit' \in ObjectSizes \cup {0}
        /\ mark' \in [node : Nodes \cup {Null}, offset : Nat, depth : Nat]
    BY DEF Memory, ContextTypeOK
  <2>2. added' \in 0 .. MaxNodes /\ avail' \in Nodes \cup {Null}
    BY <1>1, <1>6 DEF Nodes
  <2> QED
    BY <2>1, <2>2, <1>5, <1>6, <1>7 DEF ContextTypeOK, Objects
<1>9. Links'
  BY <1>6 DEF Links
<1>10. \A m \in Nodes : m # n => freeOffset'[m] = freeOffset[m]
  BY <1>1, <1>3
<1>11. freeOffset'[n] = at + bytes
  BY <1>1, <1>3
<1>12. Offsets'
  <2> SUFFICES ASSUME NEW m \in 1 .. added' PROVE Header(m) <= freeOffset'[m]
    <3>1. added' >= 1
      BY <1>1
    <3> QED
      BY <3>1 DEF Offsets, Header
  <2>1. CASE m = n
    BY <2>1, <1>1, <1>11 DEF Header
  <2>2. CASE m # n
    <3>1. m \in 1 .. added /\ m \in Nodes
      BY <2>2, <1>1 DEF Nodes
    <3> QED
      BY <3>1, <2>2, <1>10 DEF Memory, Offsets
  <2> QED
    BY <2>1, <2>2
<1>13. Inside'
  <2> SUFFICES ASSUME NEW i \in DOMAIN blocks'
               PROVE  /\ blocks'[i].node <= added' /\ Header(blocks'[i].node) <= blocks'[i].at
                      /\ blocks'[i].at + blocks'[i].size <= freeOffset'[blocks'[i].node]
    BY DEF Inside, Header
  <2>1. CASE i = Len(blocks) + 1
    BY <2>1, <1>1, <1>5, <1>11
  <2>2. CASE i \in DOMAIN blocks
    <3>1. /\ blocks'[i] = blocks[i] /\ blocks[i] \in Objects
          /\ blocks[i].node <= added /\ Header(blocks[i].node) <= blocks[i].at
          /\ blocks[i].at + blocks[i].size <= freeOffset[blocks[i].node]
      BY <2>2, <1>5 DEF Memory, Inside
    <3>2. CASE blocks[i].node = n
      <4>1. blocks[i].at + blocks[i].size <= at
        BY <2>2, <3>2
      <4>2. blocks[i].at \in Nat /\ blocks[i].size \in Nat
        BY <3>1, ContextAssumption DEF Objects
      <4> QED
        BY <3>1, <3>2, <4>1, <4>2, <1>1, <1>11, SMTT(30)
    <3>3. CASE blocks[i].node # n
      <4>1. blocks[i].node \in Nodes /\ blocks[i].node \in Nat
        BY <3>1 DEF Objects, Nodes
      <4>2. freeOffset'[blocks[i].node] = freeOffset[blocks[i].node]
        BY <3>3, <4>1, <1>10
      <4> QED
        BY <3>1, <4>1, <4>2, <1>1
    <3> QED
      BY <3>2, <3>3
  <2> QED
    BY <2>1, <2>2, <1>5
<1>14. Apart'
  <2> SUFFICES ASSUME NEW i \in DOMAIN blocks', NEW j \in DOMAIN blocks',
                      i # j, blocks'[j].node = blocks'[i].node
               PROVE  \/ blocks'[i].at + blocks'[i].size <= blocks'[j].at
                      \/ blocks'[j].at + blocks'[j].size <= blocks'[i].at
    BY DEF Apart
  <2>1. CASE i \in DOMAIN blocks /\ j \in DOMAIN blocks
    BY <2>1, <1>5 DEF Memory, Apart
  <2>2. CASE i = Len(blocks) + 1
    <3>1. j \in DOMAIN blocks /\ blocks[j].node = n /\ blocks'[j] = blocks[j]
      BY <2>2, <1>5
    <3> QED
      BY <2>2, <3>1, <1>5
  <2>3. CASE j = Len(blocks) + 1
    <3>1. i \in DOMAIN blocks /\ blocks[i].node = n /\ blocks'[i] = blocks[i]
      BY <2>3, <1>5
    <3> QED
      BY <2>3, <3>1, <1>5
  <2> QED
    BY <2>1, <2>2, <2>3, <1>5
<1>15. Outside'
  BY DEF Outside
<1> QED
  BY <1>3, <1>8, <1>9, <1>12, <1>13, <1>14, <1>15 DEF Memory

(* falloc finds room in node Path(alloc)[i]. *)
LEMMA FoundMemory ==
  ASSUME Shallow, Memory, mode # "none",
         NEW alloc \in BOOLEAN, NEW bytes \in ObjectSizes, bytes <= ChunkSize - CtxSize,
         NEW i \in Places(alloc, bytes), NEW n, n = Path(alloc)[i],
         Place(n, freeOffset[n], bytes, alloc, Before(alloc, i), avail, next),
         UNCHANGED <<mode, unit, mark, added>>
  PROVE  /\ Memory' /\ n \in 1 .. added /\ freeOffset[n] + bytes <= ChunkSize
         /\ blocks' = Append(blocks, [node |-> n, at |-> freeOffset[n], size |-> bytes])
         /\ freeOffset' = [freeOffset EXCEPT ![n] = freeOffset[n] + bytes]
<1>1. /\ n \in 1 .. added /\ (freeOffset[n] + bytes) % Short <= ChunkSize
  BY DEF Places, Fits
<1>2. /\ added \in 0 .. MaxNodes /\ freeOffset \in [Nodes -> 0 .. ChunkSize]
      /\ next \in [Nodes -> Nodes \cup {Null}]
  BY DEF Memory, ContextTypeOK
<1>3. /\ MaxNodes \in Nat \ {0} /\ ChunkSize \in Nat /\ CtxSize \in Nat
      /\ bytes \in Nat \ {0}
  BY ContextAssumption
<1>4. n \in Nodes /\ freeOffset[n] \in 0 .. ChunkSize
  BY <1>1, <1>2, <1>3 DEF Nodes
<1>5. freeOffset[n] + bytes <= ChunkSize
  <2>1. freeOffset[n] + bytes \in Nat /\ freeOffset[n] + bytes <= 2 * ChunkSize - CtxSize
    BY <1>3, <1>4
  <2> QED
    BY <2>1, <1>1, NoWrap
<1>6. added' \in added .. MaxNodes /\ n \in 1 .. added'
  BY <1>1, <1>2, <1>3
<1>7. /\ avail # Null => avail \in 1 .. added'
      /\ \A m \in Nodes : next[m] # Null => next[m] \in 1 .. added'
      /\ \A m \in 1 .. added' : m # n => m <= added
  BY <1>2, <1>3 DEF Memory, Links
<1>8. Header(n) <= freeOffset[n]
  BY <1>1 DEF Memory, Offsets
<1>9. \A j \in DOMAIN blocks :
        blocks[j].node = n => blocks[j].at + blocks[j].size <= freeOffset[n]
  BY DEF Memory, Inside
<1>10. freeOffset[n] \in Nat
  BY <1>3, <1>4
<1> QED
  BY <1>1, <1>2, <1>5, <1>6, <1>7, <1>8, <1>9, <1>10, PlaceMemory

(* falloc takes another chunk. *)
LEMMA AddsMemory ==
  ASSUME Shallow, Memory, mode # "none",
         NEW alloc \in BOOLEAN, NEW bytes \in ObjectSizes, bytes <= ChunkSize - CtxSize,
         FallocAdds(alloc, bytes), UNCHANGED <<mode, unit, mark>>
  PROVE  /\ Memory' /\ added' = added + 1
         /\ blocks' = Append(blocks, [node |-> added', at |-> NodeSize, size |-> bytes])
         /\ freeOffset' = [freeOffset EXCEPT ![added'] = NodeSize + bytes]
<1> DEFINE first == IF alloc THEN avail ELSE Null
           link == [next EXCEPT ![added'] = first]
<1>1. /\ added' = added + 1 /\ added < MaxNodes
      /\ Place(added', NodeSize, bytes, alloc, Before(alloc, End(alloc)), added', link)
  BY DEF FallocAdds
<1>2. /\ added \in 0 .. MaxNodes /\ next \in [Nodes -> Nodes \cup {Null}]
      /\ avail \in Nodes \cup {Null}
  BY DEF Memory, ContextTypeOK
<1>3. /\ MaxNodes \in Nat \ {0} /\ ChunkSize \in Nat /\ CtxSize \in Nat
      /\ NodeSize \in Nat /\ Slack \in Nat /\ NodeSize + Slack <= CtxSize
      /\ bytes \in Nat \ {0}
  BY ContextAssumption
<1>4. added' \in added .. MaxNodes /\ added' \in 1 .. added'
  BY <1>1, <1>2, <1>3
<1>5. NodeSize + bytes <= ChunkSize /\ added >= 1
  BY <1>3 DEF Memory, Offsets
<1>6. added' # Ctx /\ Header(added') <= NodeSize
  BY <1>1, <1>2, <1>3, <1>5 DEF Ctx, Header
<1>7. /\ link \in [Nodes -> Nodes \cup {Null}]
      /\ \A m \in Nodes : link[m] # Null => link[m] \in 1 .. added'
  <2>1. first # Null => first \in 1 .. added'
    BY <1>1, <1>2, <1>3 DEF Memory, Links
  <2>2. \A m \in Nodes : next[m] # Null => next[m] \in 1 .. added'
    BY <1>1, <1>2, <1>3 DEF Memory, Links
  <2>3. first \in Nodes \cup {Null}
    BY <1>2
  <2> HIDE DEF first
  <2> QED
    BY <2>1, <2>2, <2>3, <1>2
<1>8. \A m \in 1 .. added' : m # added' => m <= added
  BY <1>1, <1>2
<1>9. \A j \in DOMAIN blocks :
        blocks[j].node = added' => blocks[j].at + blocks[j].size <= NodeSize
  BY <1>1, <1>2 DEF Memory, Inside
<1>10. added' # Null => added' \in 1 .. added'
  BY <1>4
<1> HIDE DEF first, link
<1> QED
  BY <1>1, <1>3, <1>4, <1>5, <1>6, <1>7, <1>8, <1>9, <1>10, PlaceMemory

(* falloc keeps the objects apart, whichever chain it searches. *)
LEMMA FallocMemory ==
  ASSUME Shallow, Memory, mode # "none", NEW alloc \in BOOLEAN, NEW bytes \in ObjectSizes,
         Falloc(alloc, bytes)
  PROVE  Memory'
<1>1. UNCHANGED <<mode, unit, mark>> /\ bytes <= ChunkSize - CtxSize
  BY DEF Falloc
<1>2. CASE FallocFound(alloc, bytes)
  BY <1>1, <1>2, FoundMemory DEF FallocFound
<1>3. CASE FallocAdds(alloc, bytes)
  BY <1>1, <1>3, AddsMemory
<1> QED
  BY <1>2, <1>3 DEF Falloc

-----------------------------------------------------------------------------
(* How often an object fits into free space. *)
LEMMA NodeCapacity ==
  ASSUME NEW u \in Nat \ {0}, NEW m \in Nat, NEW d \in Nat
  PROVE  m \div u \in Nat /\ (u * d + u <= m <=> d < m \div u)
<1> DEFINE q == m \div u
<1>1. q \in Nat /\ m = u * q + (m % u) /\ m % u \in 0 .. u - 1
  <2>1. q \in Int /\ m = u * q + (m % u) /\ m % u \in 0 .. u - 1
    BY DivMod, ModRange
  <2> HIDE DEF q
  <2>2. CASE q < 0
    <3>1. -q \in Nat \ {0} /\ u * (-q) = -(u * q)
      BY <2>1, <2>2
    <3>2. u * (-q) >= u
      BY <3>1, MultipleAtLeast
    <3> QED
      BY <2>1, <3>1, <3>2
  <2> QED
    BY <2>1, <2>2
<1> HIDE DEF q
<1>2. CASE d < q
  <2>1. q - d \in Nat \ {0} /\ u * (q - d) = u * q - u * d
    BY <1>1, <1>2
  <2>2. u * (q - d) >= u
    BY <2>1, MultipleAtLeast
  <2> QED
    BY <2>1, <2>2, <1>1, <1>2 DEF q
<1>3. CASE d >= q
  <2>1. d - q \in Nat /\ u * (d - q) = u * d - u * q /\ u * (d - q) \in Nat
    BY <1>1, <1>3
  <2> QED
    BY <2>1, <1>1, <1>3 DEF q
<1> QED
  BY <1>1, <1>2, <1>3

(* Different counts of objects end at different offsets. *)
LEMMA Cancel ==
  ASSUME NEW u \in Nat \ {0}, NEW c \in Int, NEW d \in Int, u * c = u * d
  PROVE  c = d
<1>1. CASE c > d
  <2>1. c - d \in Nat \ {0} /\ u * (c - d) = u * c - u * d
    BY <1>1
  <2> QED
    BY <2>1, MultipleAtLeast
<1>2. CASE d > c
  <2>1. d - c \in Nat \ {0} /\ u * (d - c) = u * d - u * c
    BY <1>2
  <2> QED
    BY <2>1, MultipleAtLeast
<1> QED
  BY <1>1, <1>2

-----------------------------------------------------------------------------
(* What the steps of a stack start from. *)
LEMMA StackFacts ==
  ASSUME Shallow, IInv, mode = "stack"
  PROVE  /\ unit \in ObjectSizes /\ unit \in Nat \ {0} /\ Full \in Nat
         /\ ChunkSize \in Nat /\ CtxSize \in Nat /\ NodeSize \in Nat
         /\ NodeSize <= CtxSize /\ CtxSize <= ChunkSize
         /\ added \in 1 .. MaxNodes /\ added \in Nodes /\ Ctx \in Nodes /\ Ctx = 1
         /\ avail \in Nodes /\ avail \in {Ctx, added} /\ Null \notin Nat
         /\ freeOffset \in [Nodes -> 0 .. ChunkSize]
         /\ blocks \in Seq(Objects) /\ Len(blocks) \in Nat
         /\ DOMAIN blocks = 1 .. Len(blocks)
         /\ freeOffset[avail] = EndIn(avail, Len(blocks))
<1>1. /\ ChunkSize \in Nat /\ CtxSize \in Nat /\ NodeSize \in Nat /\ Slack \in Nat
      /\ NodeSize + Slack <= CtxSize /\ CtxSize <= ChunkSize /\ ObjectSizes \subseteq Nat \ {0}
      /\ MaxNodes \in Nat \ {0} /\ Null \notin Nat
  BY ContextAssumption
<1>2. /\ unit \in ObjectSizes /\ avail \in {Ctx, added}
      /\ freeOffset[avail] = EndIn(avail, Len(blocks))
  BY DEF IInv, Stacked
<1>3. /\ added \in 0 .. MaxNodes /\ freeOffset \in [Nodes -> 0 .. ChunkSize]
      /\ blocks \in Seq(Objects)
  BY DEF IInv, Memory, ContextTypeOK, Objects
<1>4. added >= 1
  BY DEF IInv, Memory, Offsets
<1>5. added \in 1 .. MaxNodes /\ added \in Nodes /\ Ctx \in Nodes /\ Ctx = 1
  BY <1>1, <1>3, <1>4 DEF Nodes, Ctx
<1>6. Full \in Nat
  <2>1. ChunkSize - CtxSize \in Nat /\ unit \in Nat \ {0}
    BY <1>1, <1>2
  <2> QED
    BY <2>1, NodeCapacity DEF Full
<1> QED
  BY <1>1, <1>2, <1>3, <1>5, <1>6

(* How deep a stack is when an object more fits into its first node ... *)
LEMMA FitsFirst ==
  ASSUME Shallow, IInv, mode = "stack", avail = Ctx
  PROVE  /\ Len(blocks) <= Full
         /\ freeOffset[Ctx] + unit <= ChunkSize <=> Len(blocks) < Full
<1>1. Len(blocks) <= Full /\ freeOffset[Ctx] = CtxSize + unit * Len(blocks)
  BY DEF IInv, Stacked, EndIn
<1>2. /\ unit \in Nat \ {0} /\ Len(blocks) \in Nat /\ ChunkSize - CtxSize \in Nat
      /\ CtxSize \in Nat /\ ChunkSize \in Nat
  BY StackFacts
<1>3. unit * Len(blocks) + unit <= ChunkSize - CtxSize <=> Len(blocks) < Full
  BY <1>2, NodeCapacity DEF Full
<1>4. unit * Len(blocks) \in Nat
  BY <1>2
<1> QED
  BY <1>1, <1>2, <1>3, <1>4

(* ... and that one always fits into the second. *)
LEMMA FitsSecond ==
  ASSUME Shallow, IInv, mode = "stack", avail # Ctx, Len(blocks) < TwoNodes
  PROVE  freeOffset[avail] + unit <= ChunkSize
<1>1. /\ unit \in Nat \ {0} /\ Len(blocks) \in Nat /\ Full \in Nat
      /\ NodeSize \in Nat /\ ChunkSize \in Nat /\ ChunkSize - NodeSize \in Nat
  BY StackFacts
<1>2. /\ Len(blocks) >= Full
      /\ freeOffset[avail] = NodeSize + unit * (Len(blocks) - Full)
  BY DEF IInv, Stacked, EndIn
<1>3. Len(blocks) - Full \in Nat
  BY <1>1, <1>2
<1>4. (ChunkSize - NodeSize) \div unit \in Nat
  BY <1>1, NodeCapacity
<1>5. Len(blocks) - Full < (ChunkSize - NodeSize) \div unit
  BY <1>1, <1>4 DEF TwoNodes, Full
<1>6. unit * (Len(blocks) - Full) + unit <= ChunkSize - NodeSize
  BY <1>1, <1>3, <1>5, NodeCapacity
<1>7. unit * (Len(blocks) - Full) \in Nat
  BY <1>1, <1>3
<1> QED
  BY <1>1, <1>2, <1>6, <1>7

(* A push finds the stack within its bound. *)
LEMMA PushBound ==
  ASSUME Shallow, IInv, Push
  PROVE  /\ mode = "stack" /\ Full >= 1 /\ Len(blocks) < Undoable
         /\ avail # Ctx => Len(blocks) < TwoNodes
<1>1. mode = "stack" /\ Len(blocks) < Undoable /\ unit <= ChunkSize - CtxSize
  BY DEF Push, Shallow, Falloc
<1>2. unit \in Nat \ {0} /\ ChunkSize - CtxSize \in Nat
  BY <1>1, StackFacts
<1>3. Full >= 1
  <2>1. unit * 0 + unit <= ChunkSize - CtxSize
    BY <1>1, <1>2
  <2>2. 0 < Full
    BY <1>2, <2>1, NodeCapacity DEF Full
  <2> QED
    BY <1>1, <2>2, StackFacts
<1>4. avail # Ctx => Len(blocks) < TwoNodes
  BY <1>1 DEF Undoable, IInv, Stacked
<1> QED
  BY <1>1, <1>3, <1>4

(* A push goes to the node in use, *)
LEMMA PushFound ==
  ASSUME Shallow, IInv, Push, NEW alloc \in BOOLEAN, ~alloc,
         NEW i \in Places(alloc, unit),
         \A j \in Places(alloc, unit) : i <= j
  PROVE  Path(alloc)[i] = avail
<1>1. mode = "stack" /\ (avail # Ctx => Len(blocks) < TwoNodes)
  BY PushBound
<1>2. /\ MaxNodes \in Nat /\ avail \in Nodes /\ avail \in 1 .. MaxNodes
      /\ Null \notin Nat /\ avail \in {Ctx, added} /\ added \in 1 .. MaxNodes /\ Ctx = 1
  BY <1>1, StackFacts, ContextAssumption DEF Nodes
<1>3. avail # Null /\ avail \in 1 .. added /\ avail \in Nat /\ added \in Nat
  BY <1>2
<1>4. i \in 0 .. MaxNodes /\ Path(alloc)[i] \in 1 .. added
  BY DEF Places
<1>5. 0 \in 0 .. MaxNodes /\ Path(alloc)[0] = avail
  BY <1>2, <1>3 DEF Path, Earlier
<1>6. CASE avail = Ctx
  <2>1. SUFFICES ASSUME ~(i < avail) PROVE FALSE
    <3>1. CASE i < avail
      <4>1. i = 0
        BY <1>2, <1>4, <1>6, <3>1
      <4> QED
        BY <4>1, <1>5
    <3> QED
      BY <3>1
  <2>2. Path(alloc)[i] = Null
    BY <1>4, <2>1 DEF Path, Earlier
  <2>3. Path(alloc)[i] \in Nat
    BY <1>3, <1>4
  <2> QED
    BY <1>2, <2>2, <2>3
<1>7. CASE avail # Ctx
  <2>1. freeOffset[avail] + unit <= ChunkSize
    BY <1>1, <1>7, FitsSecond
  <2>2. /\ freeOffset[avail] + unit \in Nat /\ ChunkSize \in Nat /\ CtxSize <= ChunkSize
        /\ CtxSize \in Nat
    BY <1>1, StackFacts
  <2>3. Fits(avail, unit)
    BY <2>1, <2>2, NoWrap DEF Fits
  <2>4. 0 \in Places(alloc, unit)
    BY <1>3, <1>5, <2>3 DEF Places
  <2>5. i = 0
    <3>1. i <= 0 /\ i \in Int
      BY <1>2, <1>4, <2>4
    <3> QED
      BY <1>4, <3>1
  <2> QED
    BY <1>5, <2>5
<1> QED
  BY <1>6, <1>7

(* or, when the first is full, to a new one. *)
LEMMA PushAdds ==
  ASSUME Shallow, IInv, Push, NEW alloc \in BOOLEAN, ~alloc,
         Places(alloc, unit) = {}
  PROVE  avail = Ctx /\ Len(blocks) = Full /\ Full >= 1 /\ unit <= NodeSize
<1>1. mode = "stack" /\ (avail # Ctx => Len(blocks) < TwoNodes)
  BY PushBound
<1>2. /\ MaxNodes \in Nat /\ avail \in Nat /\ avail # Null /\ avail \in 1 .. added
      /\ freeOffset[avail] + unit \in Nat /\ ChunkSize \in Nat /\ CtxSize <= ChunkSize
      /\ CtxSize \in Nat /\ Len(blocks) \in Nat /\ Full \in Nat
  <2>1. /\ MaxNodes \in Nat /\ ChunkSize \in Nat /\ CtxSize <= ChunkSize /\ CtxSize \in Nat
        /\ avail \in Nodes /\ avail \in {Ctx, added} /\ Ctx = 1 /\ added \in 1 .. MaxNodes
        /\ Null \notin Nat /\ unit \in Nat /\ Len(blocks) \in Nat /\ Full \in Nat
        /\ freeOffset \in [Nodes -> 0 .. ChunkSize]
    BY <1>1, StackFacts, ContextAssumption
  <2>2. avail \in Nat /\ avail \in 1 .. added
    BY <2>1
  <2>3. freeOffset[avail] \in 0 .. ChunkSize
    BY <2>1
  <2>4. freeOffset[avail] \in Nat
    BY <2>1, <2>3
  <2> QED
    BY <2>1, <2>2, <2>4
<1>3. 0 \in 0 .. MaxNodes /\ Path(alloc)[0] = avail
  BY <1>2 DEF Path, Earlier
<1>4. ~Fits(avail, unit)
  BY <1>2, <1>3 DEF Places
<1>5. ~(freeOffset[avail] + unit <= ChunkSize)
  BY <1>2, <1>4, NoWrap DEF Fits
<1>6. avail = Ctx
  BY <1>1, <1>5, FitsSecond
<1>7. Len(blocks) <= Full /\ ~(Len(blocks) < Full)
  BY <1>1, <1>5, <1>6, FitsFirst
<1>8. Len(blocks) = Full
  BY <1>2, <1>7
<1>9. Full >= 1 /\ unit <= NodeSize
  BY <1>2, <1>8, PushBound DEF Undoable
<1> QED
  BY <1>6, <1>8, <1>9

(* A push appends one object where the stack ends. *)
LEMMA PushGrows ==
  ASSUME Shallow, IInv, Push
  PROVE  /\ Memory' /\ avail' \in {Ctx, added'}
         /\ UNCHANGED <<mode, unit, mark>>
         /\ avail' = Ctx => Len(blocks) < Full
         /\ avail' # Ctx => Len(blocks) >= Full /\ freeOffset'[Ctx] = EndIn(Ctx, Full)
         /\ avail' # Ctx => Full >= 1 /\ unit <= NodeSize
         /\ freeOffset'[avail'] = EndIn(avail', Len(blocks) + 1)
         /\ blocks' = Append(blocks, [node |-> avail', at |-> OffsetAt(Len(blocks)),
                                      size |-> unit])
         /\ \/ added' = added
            \/ Len(blocks) = Full
<1> DEFINE alloc == FALSE
<1>1. /\ mode = "stack" /\ alloc \in BOOLEAN /\ ~alloc /\ Falloc(alloc, unit)
  BY DEF Push
<1> HIDE DEF alloc
<1>2. UNCHANGED <<mode, unit, mark>> /\ unit <= ChunkSize - CtxSize /\ Memory /\ mode # "none"
  BY <1>1 DEF Falloc, IInv
<1>3. /\ unit \in ObjectSizes /\ unit \in Nat \ {0} /\ Full \in Nat /\ Len(blocks) \in Nat
      /\ avail \in Nodes /\ Ctx \in Nodes /\ avail \in {Ctx, added}
      /\ freeOffset \in [Nodes -> 0 .. ChunkSize] /\ ChunkSize \in Nat /\ CtxSize \in Nat
      /\ NodeSize \in Nat /\ added \in Nat /\ added >= 1 /\ Ctx = 1
      /\ freeOffset[avail] = EndIn(avail, Len(blocks))
  BY <1>1, StackFacts, ContextAssumption
<1>4. /\ unit * Len(blocks) \in Nat
      /\ unit * (Len(blocks) + 1) = unit * Len(blocks) + unit
      /\ unit * (Len(blocks) + 1 - Full) = unit * (Len(blocks) - Full) + unit
      /\ unit * (Len(blocks) - Full) \in Int
  BY <1>3
<1>5. CASE FallocFound(alloc, unit)
  <2>1. PICK i \in Places(alloc, unit) :
          /\ \A j \in Places(alloc, unit) : i <= j
          /\ Place(Path(alloc)[i], freeOffset[Path(alloc)[i]], unit, alloc,
                   Before(alloc, i), avail, next)
          /\ added' = added
    BY <1>5 DEF FallocFound
  <2>2. Path(alloc)[i] = avail
    BY <1>1, <2>1, PushFound
  <2>3. Place(avail, freeOffset[avail], unit, alloc, Before(alloc, i), avail, next)
    BY <2>1, <2>2
  <2>4. avail' = avail
    BY <2>3, <1>1 DEF Place
  <2>5. /\ Memory' /\ freeOffset[avail] + unit <= ChunkSize
        /\ blocks' = Append(blocks, [node |-> avail, at |-> freeOffset[avail],
                                     size |-> unit])
        /\ freeOffset' = [freeOffset EXCEPT ![avail] = freeOffset[avail] + unit]
    BY <1>1, <1>2, <1>3, <2>1, <2>2, <2>3, FoundMemory
  <2>6. freeOffset'[avail] = freeOffset[avail] + unit
    BY <1>3, <2>5
  <2>7. EndIn(avail, Len(blocks) + 1) = EndIn(avail, Len(blocks)) + unit
    BY <1>3, <1>4 DEF EndIn
  <2>8. CASE avail = Ctx
    <3>1. Len(blocks) < Full
      BY <1>1, <2>5, <2>8, FitsFirst
    <3>2. OffsetAt(Len(blocks)) = freeOffset[avail]
      BY <3>1, <2>8, <1>3 DEF OffsetAt, EndIn
    <3> QED
      BY <1>2, <1>3, <2>1, <2>4, <2>5, <2>6, <2>7, <2>8, <3>1, <3>2
  <2>9. CASE avail # Ctx
    <3>1. /\ Len(blocks) >= Full /\ freeOffset[Ctx] = EndIn(Ctx, Full)
          /\ Full >= 1 /\ unit <= NodeSize
      BY <1>1, <2>9 DEF IInv, Stacked
    <3>2. freeOffset'[Ctx] = freeOffset[Ctx]
      BY <1>3, <2>5, <2>9
    <3>3. OffsetAt(Len(blocks)) = freeOffset[avail]
      BY <3>1, <2>9, <1>3 DEF OffsetAt, EndIn
    <3> QED
      BY <1>2, <1>3, <2>1, <2>4, <2>5, <2>6, <2>7, <2>9, <3>1, <3>2, <3>3
  <2> QED
    BY <2>8, <2>9
<1>6. CASE FallocAdds(alloc, unit)
  <2>1. avail = Ctx /\ Len(blocks) = Full /\ Full >= 1 /\ unit <= NodeSize
    BY <1>1, <1>6, PushAdds DEF FallocAdds
  <2>2. /\ Memory' /\ added' = added + 1
        /\ blocks' = Append(blocks, [node |-> added', at |-> NodeSize, size |-> unit])
        /\ freeOffset' = [freeOffset EXCEPT ![added'] = NodeSize + unit]
    BY <1>1, <1>2, <1>3, <1>6, AddsMemory
  <2>3. avail' = added'
    BY <1>1, <1>6 DEF FallocAdds, Place
  <2>4. added' \in Nodes /\ added' # Ctx
    BY <1>3, <1>6, <2>2, ContextAssumption DEF FallocAdds, Nodes
  <2>5. freeOffset'[added'] = NodeSize + unit /\ freeOffset'[Ctx] = freeOffset[Ctx]
    BY <1>3, <2>2, <2>4
  <2>6. unit * (Len(blocks) - Full) = 0
    BY <1>3, <2>1
  <2>7. /\ OffsetAt(Len(blocks)) = NodeSize
        /\ EndIn(added', Len(blocks) + 1) = NodeSize + unit
    BY <1>3, <1>4, <2>1, <2>4, <2>6 DEF OffsetAt, EndIn
  <2>8. freeOffset[Ctx] = EndIn(Ctx, Full)
    BY <1>3, <2>1
  <2> QED
    BY <1>2, <1>3, <2>1, <2>2, <2>3, <2>4, <2>5, <2>7, <2>8
<1> QED
  BY <1>1, <1>5, <1>6 DEF Falloc

(* An object is pushed, on a new node if the last is full.                 *)
LEMMA PushInv ==
  ASSUME Shallow, IInv, Push
  PROVE  IInv'
<1>1. mode = "stack" /\ UNCHANGED <<mode, unit, mark>>
  BY PushGrows DEF Push
<1>2. /\ unit \in ObjectSizes /\ Full \in Nat /\ Len(blocks) \in Nat /\ Ctx \in Nodes
      /\ blocks \in Seq(Objects) /\ DOMAIN blocks = 1 .. Len(blocks)
      /\ avail \in Nodes /\ added \in Nodes
  BY <1>1, StackFacts
<1> DEFINE b == [node |-> avail', at |-> OffsetAt(Len(blocks)), size |-> unit]
<1>3. /\ Memory' /\ avail' \in {Ctx, added'}
      /\ avail' = Ctx => Len(blocks) < Full
      /\ avail' # Ctx => Len(blocks) >= Full /\ freeOffset'[Ctx] = EndIn(Ctx, Full)
      /\ avail' # Ctx => Full >= 1 /\ unit <= NodeSize
      /\ freeOffset'[avail'] = EndIn(avail', Len(blocks) + 1)
      /\ blocks' = Append(blocks, b)
      /\ added' = added \/ Len(blocks) = Full
  BY PushGrows
<1> HIDE DEF b
<1>4. /\ Len(blocks') = Len(blocks) + 1 /\ DOMAIN blocks' = 1 .. Len(blocks) + 1
      /\ blocks'[Len(blocks) + 1] = b
      /\ \A i \in 1 .. Len(blocks) : blocks'[i] = blocks[i]
  <2>1. blocks \in Seq(Objects \cup {b})
    BY <1>2, SeqMonotonic
  <2> QED
    BY <2>1, <1>3
<1>5. Full' = Full /\ \A n, d : EndIn(n, d)' = EndIn(n, d)
  BY <1>1 DEF Full, EndIn
<1> PICK k \in Nat : k = Len(blocks)
  BY <1>2
<1>6. \A d \in Int : OffsetAt(d)' = OffsetAt(d) /\ (d < Len(blocks) => NodeAt(d)' = NodeAt(d))
  BY <1>1, <1>2, <1>3, <1>5 DEF OffsetAt, NodeAt
<1>7. \A i \in DOMAIN blocks' :
        blocks'[i] = [node |-> NodeAt(i - 1)', at |-> OffsetAt(i - 1)', size |-> unit']
  <2> SUFFICES ASSUME NEW i \in DOMAIN blocks'
               PROVE  blocks'[i] = [node |-> NodeAt(i - 1)', at |-> OffsetAt(i - 1)',
                                    size |-> unit']
    OBVIOUS
  <2>1. CASE i \in 1 .. Len(blocks)
    <3>1. blocks[i] = [node |-> NodeAt(i - 1), at |-> OffsetAt(i - 1), size |-> unit]
      BY <1>1, <1>2, <2>1 DEF IInv, Stacked
    <3>2. i - 1 \in Int /\ i - 1 < Len(blocks)
      BY <1>2, <2>1
    <3> QED
      BY <1>1, <1>4, <1>6, <2>1, <3>1, <3>2
  <2>2. CASE i = Len(blocks) + 1
    <3>1. i - 1 = k
      BY <1>2, <2>2
    <3>2. avail' = NodeAt(k)'
      BY <1>2, <1>3, <1>5 DEF NodeAt
    <3>3. OffsetAt(Len(blocks)) = OffsetAt(k)'
      BY <1>6
    <3> QED
      BY <1>1, <1>4, <2>2, <3>1, <3>2, <3>3 DEF b
  <2> QED
    BY <1>4, <2>1, <2>2
<1>8. Stacked'
  <2>1. /\ avail' = Ctx => Len(blocks') <= Full'
        /\ avail' # Ctx => Len(blocks') >= Full' /\ freeOffset'[Ctx] = EndIn(Ctx, Full)'
        /\ avail' # Ctx => Full' >= 1 /\ unit' <= NodeSize
        /\ freeOffset'[avail'] = EndIn(avail', Len(blocks'))
    BY <1>1, <1>2, <1>3, <1>4, <1>5
  <2>2. /\ freeOffset'[avail'] = EndIn(avail, Len(blocks))'
        /\ EndIn(Ctx, Full)' = EndIn(Ctx, Full)
    BY <1>1, <2>1 DEF EndIn, Full
  <2> QED
    BY <1>1, <1>2, <1>3, <1>7, <2>1, <2>2 DEF Stacked
<1>9. Marked'
  BY <1>1, <1>5 DEF IInv, Marked, EndIn, Full
<1> QED
  BY <1>3, <1>8, <1>9 DEF IInv

-----------------------------------------------------------------------------
(* A pop takes from the node the last object lies in, where it ends.       *)
LEMMA PopFindsTop ==
  ASSUME Shallow, IInv, mode = "stack", blocks # <<>>, NEW n, n = PopNode(unit),
         NEW top, top = blocks[Len(blocks)]
  PROVE  /\ Len(blocks) \in Nat \ {0} /\ n \in {Ctx, added} /\ n \in Nodes
         /\ top.node = n /\ top.at + unit = freeOffset[n] /\ top.size = unit
         /\ top.at = EndIn(n, Len(blocks) - 1)
         /\ n = Ctx => Len(blocks) - 1 < Full
         /\ n # Ctx => Len(blocks) - 1 >= Full /\ avail = n
         /\ Emptied(unit) => freeOffset[avail] = NodeSize
<1> DEFINE D == Len(blocks)
<1>1. /\ unit \in Nat \ {0} /\ Full \in Nat /\ D \in Nat /\ NodeSize \in Nat
      /\ CtxSize \in Nat /\ Ctx \in Nodes /\ added \in Nodes /\ avail \in {Ctx, added}
      /\ blocks \in Seq(Objects) /\ DOMAIN blocks = 1 .. D
      /\ freeOffset[avail] = EndIn(avail, D)
  BY StackFacts
<1>2. D \in Nat \ {0} /\ D \in DOMAIN blocks
  BY <1>1
<1>3. top = [node |-> NodeAt(D - 1), at |-> OffsetAt(D - 1), size |-> unit]
  BY <1>2 DEF IInv, Stacked
<1>4. /\ avail = Ctx => D <= Full
      /\ avail # Ctx => D >= Full /\ freeOffset[Ctx] = EndIn(Ctx, Full)
  BY DEF IInv, Stacked
<1>5. /\ unit * D = unit * (D - 1) + unit
      /\ unit * (D - Full) = unit * (D - 1 - Full) + unit
      /\ unit * (D - 1) \in Int /\ unit * (D - 1 - Full) \in Int
  BY <1>1, <1>2
<1>6. CASE avail = Ctx
  <2>1. ~Emptied(unit) /\ n = Ctx /\ D - 1 < Full
    BY <1>1, <1>4, <1>6 DEF Emptied, PopNode
  <2>2. top.node = Ctx /\ top.at = CtxSize + unit * (D - 1) /\ top.size = unit
    BY <1>3, <2>1 DEF NodeAt, OffsetAt
  <2> QED
    BY <1>1, <1>2, <1>5, <1>6, <2>1, <2>2 DEF EndIn
<1>7. CASE avail # Ctx /\ D = Full
  <2>1. unit * (D - Full) = 0 /\ freeOffset[avail] = NodeSize
    BY <1>1, <1>7 DEF EndIn
  <2>2. Emptied(unit) /\ n = Ctx /\ D - 1 < Full
    <3>1. unit <= NodeSize
      BY <1>7 DEF IInv, Stacked
    <3>2. Emptied(unit)
      BY <1>1, <1>7, <2>1, <3>1 DEF Emptied, Below
    <3> QED
      BY <1>1, <1>7, <3>2 DEF PopNode
  <2>3. top.node = Ctx /\ top.at = CtxSize + unit * (D - 1) /\ top.size = unit
    BY <1>3, <2>2 DEF NodeAt, OffsetAt
  <2>4. top.at = EndIn(n, D - 1) /\ freeOffset[n] = CtxSize + unit * D
    BY <1>4, <1>7, <2>2, <2>3 DEF EndIn
  <2>5. top.at + unit = freeOffset[n]
    BY <1>1, <1>5, <2>3, <2>4
  <2> QED
    BY <1>1, <1>2, <2>1, <2>2, <2>3, <2>4, <2>5
<1>8. CASE avail # Ctx /\ D # Full
  <2>1. D - Full \in Nat \ {0} /\ D - 1 >= Full
    <3>1. D \in Nat /\ Full \in Nat /\ D >= Full /\ D # Full
      BY <1>1, <1>4, <1>8
    <3> HIDE DEF D
    <3> QED
      BY <3>1
  <2>2. unit * (D - Full) >= unit /\ unit * (D - Full) \in Nat
    <3>1. unit \in Nat \ {0}
      BY <1>1
    <3> HIDE DEF D
    <3> QED
      BY <2>1, <3>1, MultipleAtLeast
  <2>3. freeOffset[avail] = NodeSize + unit * (D - Full)
    BY <1>1, <1>8 DEF EndIn
  <2>4. ~Emptied(unit)
    BY <1>1, <2>2, <2>3 DEF Emptied, Below
  <2>5. n = avail /\ avail = added
    BY <1>1, <1>8, <2>4 DEF PopNode
  <2>6. top.node = added /\ top.at = NodeSize + unit * (D - 1 - Full) /\ top.size = unit
    <3>1. ~(D - 1 < Full)
      <4>1. D \in Nat /\ Full \in Nat
        BY <1>1
      <4> HIDE DEF D
      <4> QED
        BY <2>1, <4>1
    <3> QED
      BY <1>3, <3>1 DEF NodeAt, OffsetAt
  <2>7. top.at = EndIn(n, D - 1)
    BY <1>8, <2>5, <2>6 DEF EndIn
  <2>8. top.at + unit = freeOffset[n]
    BY <1>1, <1>5, <2>3, <2>5, <2>6
  <2> QED
    BY <1>1, <1>2, <1>8, <2>1, <2>4, <2>5, <2>6, <2>7, <2>8
<1> QED
  BY <1>6, <1>7, <1>8

(* From an empty stack nothing is popped. *)
LEMMA EmptyRefused ==
  ASSUME Shallow, IInv, mode = "stack", blocks = <<>>, unit <= CtxSize
  PROVE  Refused(unit)
<1>1. /\ unit \in Nat \ {0} /\ Full \in Nat /\ CtxSize \in Nat /\ Len(blocks) = 0
      /\ freeOffset[avail] = EndIn(avail, Len(blocks))
  BY StackFacts
<1>2. avail = Ctx
  BY <1>1 DEF IInv, Stacked
<1>3. freeOffset[Ctx] = CtxSize
  BY <1>1, <1>2 DEF EndIn
<1>4. ~Emptied(unit)
  BY <1>2 DEF Emptied
<1>5. PopNode(unit) = Ctx /\ Left(unit)[Ctx] = CtxSize
  BY <1>2, <1>3, <1>4 DEF PopNode, Left
<1> QED
  BY <1>1, <1>5 DEF Refused, Below

(* A pop finds an object. *)
LEMMA PopNonempty ==
  ASSUME Shallow, IInv, Pop
  PROVE  mode = "stack" /\ blocks # <<>>
BY EmptyRefused DEF Pop, Shallow

(* A stack with objects is not refused. *)
LEMMA TopGranted ==
  ASSUME Shallow, IInv, mode = "stack", blocks # <<>>
  PROVE  ~Refused(unit)
<1> PICK n : n = PopNode(unit)
  OBVIOUS
<1> PICK top : top = blocks[Len(blocks)]
  OBVIOUS
<1>1. /\ Len(blocks) \in Nat \ {0} /\ n \in Nodes /\ top.node = n
      /\ top.at + unit = freeOffset[n]
      /\ Emptied(unit) => freeOffset[avail] = NodeSize
      /\ top.at = EndIn(n, Len(blocks) - 1)
  BY PopFindsTop
<1>2. /\ unit \in Nat \ {0} /\ CtxSize \in Nat /\ freeOffset \in [Nodes -> 0 .. ChunkSize]
      /\ avail \in Nodes
  BY StackFacts
<1>3. Left(unit) = freeOffset
  BY <1>1, <1>2 DEF Left
<1>4. CASE n = Ctx
  <2>1. top.at = CtxSize + unit * (Len(blocks) - 1) /\ unit * (Len(blocks) - 1) \in Nat
    BY <1>1, <1>2, <1>4 DEF EndIn
  <2>2. freeOffset[n] - unit >= CtxSize
    BY <1>1, <1>2, <2>1
  <2>3. ~Below(freeOffset[n] - unit, CtxSize)
    <3>1. freeOffset[n] - unit \in Int
      BY <1>1, <1>2, <2>1
    <3> QED
      BY <1>2, <2>2, <3>1 DEF Below
  <2> QED
    BY <1>3, <1>4, <2>3 DEF Refused
<1>5. CASE n # Ctx
  BY <1>5 DEF Refused
<1> QED
  BY <1>4, <1>5

(* A pop gives the place of the last object back to its node. *)
LEMMA PopShrinks ==
  ASSUME Shallow, IInv, Pop, NEW n, n = PopNode(unit),
         NEW top, top = blocks[Len(blocks)]
  PROVE  /\ avail' = n /\ freeOffset' = [freeOffset EXCEPT ![n] = top.at]
         /\ blocks' = SubSeq(blocks, 1, Len(blocks) - 1)
         /\ UNCHANGED <<mode, unit, added, next, mark>>
<1>1. /\ mode = "stack" /\ blocks # <<>> /\ avail' = n
      /\ freeOffset' = [Left(unit) EXCEPT ![n] = (@ - unit) % Short]
      /\ blocks' = SubSeq(blocks, 1, Len(blocks) - 1)
      /\ UNCHANGED <<mode, unit, added, next, mark>>
  BY PopNonempty DEF Pop
<1>2. /\ n \in Nodes /\ top.at + unit = freeOffset[n] /\ Len(blocks) \in Nat \ {0}
      /\ Emptied(unit) => freeOffset[avail] = NodeSize
  BY <1>1, PopFindsTop
<1>3. /\ freeOffset \in [Nodes -> 0 .. ChunkSize] /\ ChunkSize \in Nat /\ CtxSize \in Nat
      /\ CtxSize <= ChunkSize /\ blocks \in Seq(Objects) /\ DOMAIN blocks = 1 .. Len(blocks)
      /\ unit \in Nat
  BY <1>1, StackFacts
<1>4. Left(unit) = freeOffset
  BY <1>2, <1>3, StackFacts, <1>1 DEF Left
<1>5. top.at \in Nat
  <2>1. top \in Objects
    BY <1>2, <1>3
  <2> QED
    BY <2>1 DEF Objects
<1>6. freeOffset[n] - unit = top.at /\ top.at <= 2 * ChunkSize - CtxSize
  <2>1. freeOffset[n] \in 0 .. ChunkSize
    BY <1>2, <1>3
  <2> QED
    BY <2>1, <1>2, <1>3, <1>5
<1>7. top.at % Short = top.at
  BY <1>5, <1>6, NoWrap
<1> QED
  BY <1>1, <1>2, <1>3, <1>4, <1>6, <1>7

(* The object pushed last is popped.                                       *)
LEMMA PopInv ==
  ASSUME Shallow, IInv, Pop
  PROVE  IInv'
<1> PICK k \in Nat \ {0} : k = Len(blocks)
  BY StackFacts, PopFindsTop, PopNonempty
<1> PICK n \in Nodes : n = PopNode(unit)
  BY PopFindsTop, PopNonempty
<1> DEFINE top == blocks[k]
<1>1. mode = "stack" /\ blocks # <<>>
  BY PopNonempty
<1>2. /\ unit \in ObjectSizes /\ unit \in Nat \ {0} /\ Full \in Nat /\ ChunkSize \in Nat
      /\ added \in 1 .. MaxNodes /\ Ctx \in Nodes /\ Ctx = 1 /\ added \in Nodes
      /\ freeOffset \in [Nodes -> 0 .. ChunkSize] /\ blocks \in Seq(Objects)
      /\ DOMAIN blocks = 1 .. k /\ NodeSize \in Nat /\ CtxSize \in Nat
  BY <1>1, StackFacts
<1>3. /\ n \in {Ctx, added} /\ top.node = n /\ top.at + unit = freeOffset[n]
      /\ top.size = unit /\ top.at = EndIn(n, k - 1)
      /\ n = Ctx => k - 1 < Full
      /\ n # Ctx => k - 1 >= Full /\ avail = n
  BY <1>1, PopFindsTop
<1>4. /\ avail' = n /\ freeOffset' = [freeOffset EXCEPT ![n] = top.at]
      /\ blocks' = SubSeq(blocks, 1, k - 1)
      /\ UNCHANGED <<mode, unit, added, next, mark>>
  BY PopShrinks
<1>5. top \in Objects /\ top.at \in Nat /\ top.at <= ChunkSize
  <2>1. top \in Objects
    BY <1>2
  <2>2. freeOffset[n] \in 0 .. ChunkSize
    BY <1>2
  <2>3. top.at \in Nat
    BY <2>1 DEF Objects
  <2> QED
    BY <2>1, <2>2, <2>3, <1>2, <1>3
<1>6. Header(n) <= top.at
  BY <1>2, <1>3 DEF IInv, Memory, Inside
<1> HIDE DEF top
<1>7. /\ blocks' \in Seq(Objects) /\ Len(blocks') = k - 1 /\ DOMAIN blocks' = 1 .. k - 1
      /\ \A i \in 1 .. k - 1 : blocks'[i] = blocks[i] /\ blocks[i] \in Objects
  BY <1>2, <1>4
<1>8. freeOffset'[n] = top.at /\ \A m \in Nodes : m # n => freeOffset'[m] = freeOffset[m]
  BY <1>2, <1>4
<1>9. ContextTypeOK'
  <2>1. /\ mode' \in {"none", "alloc", "stack"} /\ unit' \in ObjectSizes \cup {0}
        /\ mark' \in [node : Nodes \cup {Null}, offset : Nat, depth : Nat]
        /\ added' \in 0 .. MaxNodes /\ next' \in [Nodes -> Nodes \cup {Null}]
    BY <1>4 DEF IInv, Memory, ContextTypeOK
  <2>2. freeOffset' \in [Nodes -> 0 .. ChunkSize]
    BY <1>2, <1>4, <1>5
  <2> QED
    BY <2>1, <2>2, <1>4, <1>7 DEF ContextTypeOK, Objects
<1>10. Links' /\ Outside'
  BY <1>1, <1>2, <1>3, <1>4 DEF IInv, Memory, Links, Outside
<1>11. Offsets'
  <2> SUFFICES ASSUME NEW m \in 1 .. added PROVE Header(m) <= freeOffset'[m]
    BY <1>2, <1>4 DEF Offsets, Header
  <2>1. m \in Nodes
    BY <1>2, ContextAssumption DEF Nodes
  <2>2. Header(m) <= freeOffset[m]
    BY DEF IInv, Memory, Offsets
  <2> QED
    BY <2>1, <2>2, <1>6, <1>8
<1>12. Inside'
  <2> SUFFICES ASSUME NEW i \in 1 .. k - 1
               PROVE  /\ blocks[i].node <= added /\ Header(blocks[i].node) <= blocks[i].at
                      /\ blocks[i].at + blocks[i].size <= freeOffset'[blocks[i].node]
    BY <1>4, <1>7 DEF Inside, Header
  <2>1. /\ i \in DOMAIN blocks /\ k \in DOMAIN blocks /\ i # k
    BY <1>2
  <2>2. /\ blocks[i].node <= added /\ Header(blocks[i].node) <= blocks[i].at
        /\ blocks[i].at + blocks[i].size <= freeOffset[blocks[i].node]
    BY <2>1 DEF IInv, Memory, Inside
  <2>3. /\ blocks[i].node \in Nodes /\ blocks[i].at \in Nat /\ blocks[i].size \in Nat \ {0}
    BY <1>7, ContextAssumption DEF Objects
  <2>4. CASE blocks[i].node = n
    <3>1. \/ blocks[i].at + blocks[i].size <= top.at
          \/ top.at + top.size <= blocks[i].at
      BY <2>1, <2>4, <1>3 DEF IInv, Memory, Apart, top
    <3>2. blocks[i].at + blocks[i].size <= top.at + unit
      BY <2>2, <2>4, <1>3
    <3>3. blocks[i].at + blocks[i].size <= top.at
      <4>1. top.at \in Nat /\ unit \in Nat /\ top.size = unit
        BY <1>2, <1>3, <1>5
      <4>2. top.at + unit <= blocks[i].at \/ blocks[i].at + blocks[i].size <= top.at
        BY <3>1, <4>1
      <4> QED
        BY <3>2, <4>1, <4>2, <2>3
    <3> QED
      BY <3>3, <2>2, <2>4, <1>8
  <2>5. CASE blocks[i].node # n
    BY <2>2, <2>3, <2>5, <1>8
  <2> QED
    BY <2>4, <2>5
<1>13. Apart'
  <2> SUFFICES ASSUME NEW i \in 1 .. k - 1, NEW j \in 1 .. k - 1,
                      i # j, blocks[j].node = blocks[i].node
               PROVE  \/ blocks[i].at + blocks[i].size <= blocks[j].at
                      \/ blocks[j].at + blocks[j].size <= blocks[i].at
    BY <1>7 DEF Apart
  <2>1. i \in DOMAIN blocks /\ j \in DOMAIN blocks
    BY <1>2
  <2> QED
    BY <2>1 DEF IInv, Memory, Apart
<1>14. Full' = Full /\ \A m, d : EndIn(m, d)' = EndIn(m, d)
  BY <1>4 DEF Full, EndIn
<1>15. \A i \in DOMAIN blocks' :
         blocks'[i] = [node |-> NodeAt(i - 1)', at |-> OffsetAt(i - 1)', size |-> unit']
  <2> SUFFICES ASSUME NEW i \in 1 .. k - 1
               PROVE  blocks[i] = [node |-> NodeAt(i - 1)', at |-> OffsetAt(i - 1)',
                                   size |-> unit]
    BY <1>4, <1>7
  <2>1. blocks[i] = [node |-> NodeAt(i - 1), at |-> OffsetAt(i - 1), size |-> unit]
    <3>1. i \in DOMAIN blocks
      BY <1>2
    <3> QED
      BY <3>1, <1>1 DEF IInv, Stacked
  <2> QED
    BY <2>1, <1>4, <1>14 DEF NodeAt, OffsetAt
<1>16. Stacked'
  <2>1. freeOffset'[avail'] = EndIn(n, k - 1)
    BY <1>3, <1>4, <1>8
  <2>2. EndIn(n, k - 1) = EndIn(avail, Len(blocks))'
    BY <1>4, <1>7, <1>14 DEF EndIn
  <2>3. avail' = Ctx => Len(blocks') <= Full'
    BY <1>2, <1>3, <1>4, <1>7, <1>14
  <2>4. avail' # Ctx => Len(blocks') >= Full' /\ freeOffset'[Ctx] = EndIn(Ctx, Full)'
    <3>1. SUFFICES ASSUME n # Ctx
                   PROVE  Len(blocks') >= Full' /\ freeOffset'[Ctx] = EndIn(Ctx, Full)'
      BY <1>4
    <3>2. freeOffset[Ctx] = EndIn(Ctx, Full)
      BY <3>1, <1>1, <1>3 DEF IInv, Stacked
    <3>3. EndIn(Ctx, Full)' = EndIn(Ctx, Full)
      BY <1>4 DEF EndIn, Full
    <3> QED
      BY <3>1, <3>2, <3>3, <1>2, <1>3, <1>7, <1>8, <1>14
  <2>5. avail' # Ctx => Full' >= 1 /\ unit' <= NodeSize
    BY <1>1, <1>3, <1>4, <1>14 DEF IInv, Stacked
  <2> QED
    BY <2>1, <2>2, <2>3, <2>4, <2>5, <1>2, <1>3, <1>4, <1>15 DEF Stacked
<1>17. Marked'
  BY <1>4, <1>14 DEF IInv, Marked, EndIn, Full
<1> QED
  BY <1>9, <1>10, <1>11, <1>12, <1>13, <1>16, <1>17 DEF IInv, Memory

-----------------------------------------------------------------------------

(* A context, or a node of one, is made.                                   *)
LEMMA CreateInv ==
  ASSUME Shallow, IInv, NEW m \in {"alloc", "stack"}, NEW u \in Nat, Create(m, u),
         u = 0 \/ u \in ObjectSizes, m = "stack" => u \in ObjectSizes
  PROVE  IInv'
<1>1. /\ mode = "none" /\ mode' = m /\ unit' = u /\ added' = 1
      /\ freeOffset' = [freeOffset EXCEPT ![Ctx] = CtxSize]
      /\ UNCHANGED <<next, blocks, mark>>
  BY DEF Create
<1>2. /\ ChunkSize \in Nat /\ CtxSize \in Nat /\ Slack \in Nat /\ MaxNodes \in Nat \ {0}
      /\ CtxSize <= ChunkSize /\ Null \notin Nat
  BY ContextAssumption
<1>3. avail' = Ctx
  <2>1. ~(CtxSize + Slack > ChunkSize)
    BY <1>2 DEF Shallow
  <2> QED
    BY <2>1 DEF Create
<1>4. added = 0 /\ blocks = <<>> /\ mark = NoMark /\ DOMAIN blocks = {} /\ Len(blocks) = 0
  BY <1>1 DEF IInv, Memory, Outside
<1>5. Ctx \in Nodes /\ Ctx = 1 /\ Ctx \in 1 .. added'
  BY <1>1, <1>2 DEF Nodes, Ctx
<1>6. freeOffset \in [Nodes -> 0 .. ChunkSize]
  BY DEF IInv, Memory, ContextTypeOK
<1>7. freeOffset' \in [Nodes -> 0 .. ChunkSize] /\ freeOffset'[Ctx] = CtxSize
  BY <1>1, <1>2, <1>5, <1>6
<1>8. ContextTypeOK'
  <2>1. mode' \in {"none", "alloc", "stack"} /\ unit' \in ObjectSizes \cup {0}
    BY <1>1
  <2>2. added' \in 0 .. MaxNodes /\ avail' \in Nodes \cup {Null}
    BY <1>1, <1>2, <1>3, <1>5
  <2> QED
    BY <2>1, <2>2, <1>1, <1>7 DEF IInv, Memory, ContextTypeOK
<1>9. Links'
  <2>1. \A n \in Nodes : next[n] = Null
    BY <1>4 DEF IInv, Memory, Links
  <2> QED
    BY <2>1, <1>1, <1>3, <1>5 DEF Links
<1>10. Offsets'
  <2>1. \A n \in 1 .. added' : n = Ctx
    BY <1>1, <1>5
  <2> QED
    BY <2>1, <1>1, <1>2, <1>7 DEF Offsets, Header
<1>11. Outside' /\ Inside' /\ Apart'
  BY <1>1, <1>4 DEF Outside, Inside, Apart
<1>12. Stacked'
  <2> SUFFICES ASSUME m = "stack" PROVE Stacked'
    BY <1>1 DEF Stacked
  <2>1. Full' \in Nat
    <3>1. ChunkSize - CtxSize \in Nat /\ u \in Nat \ {0}
      BY <1>2, ContextAssumption
    <3> QED
      BY <3>1, <1>1, NodeCapacity DEF Full
  <2>2. EndIn(avail, Len(blocks))' = CtxSize
    <3>1. unit' * 0 = 0 /\ unit' \in Nat
      BY <1>1
    <3> QED
      BY <3>1, <1>1, <1>2, <1>3, <1>4 DEF EndIn
  <2> QED
    BY <2>1, <2>2, <1>1, <1>3, <1>4, <1>7 DEF Stacked
<1>13. Marked'
  BY <1>1, <1>4 DEF Marked
<1> QED
  BY <1>8, <1>9, <1>10, <1>11, <1>12, <1>13 DEF IInv, Memory

(* A context gives its chunks back.                                        *)
LEMMA DisposeInv ==
  ASSUME Shallow, IInv, Dispose
  PROVE  IInv'
<1>1. /\ mode' = "none" /\ unit' = 0 /\ added' = 0 /\ avail' = Null
      /\ next' = [n \in Nodes |-> Null] /\ freeOffset' = [n \in Nodes |-> 0]
      /\ blocks' = <<>> /\ mark' = NoMark
  BY DEF Dispose
<1>2. ChunkSize \in Nat /\ MaxNodes \in Nat /\ DOMAIN blocks' = {}
  BY <1>1, ContextAssumption
<1>3. ContextTypeOK'
  BY <1>1, <1>2 DEF ContextTypeOK, NoMark
<1>4. Links' /\ Offsets' /\ Outside' /\ Inside' /\ Apart'
  BY <1>1, <1>2 DEF Links, Offsets, Outside, Inside, Apart
<1>5. Stacked' /\ Marked'
  BY <1>1 DEF Stacked, Marked
<1> QED
  BY <1>3, <1>4, <1>5 DEF IInv, Memory

(* fallocMark and fallocAtMark.                                            *)
LEMMA MarkInv ==
  ASSUME Shallow, IInv, Mark
  PROVE  IInv'
<1>1. /\ mode = "stack"
      /\ mark' = [node |-> avail, offset |-> freeOffset[avail], depth |-> Len(blocks)]
      /\ UNCHANGED <<mode, unit, added, avail, next, freeOffset, blocks>>
  BY DEF Mark
<1>2. /\ avail \in Nodes /\ freeOffset[avail] = EndIn(avail, Len(blocks))
      /\ Len(blocks) \in Nat /\ freeOffset \in [Nodes -> 0 .. ChunkSize] /\ ChunkSize \in Nat
  BY <1>1, StackFacts
<1>3. ContextTypeOK'
  <2>1. freeOffset[avail] \in Nat
    BY <1>2
  <2> QED
    BY <2>1, <1>1, <1>2 DEF IInv, Memory, ContextTypeOK
<1>4. Links' /\ Offsets' /\ Outside' /\ Inside' /\ Apart'
  BY <1>1 DEF IInv, Memory, Links, Offsets, Outside, Inside, Apart
<1>5. Stacked'
  BY <1>1 DEF IInv, Stacked, EndIn, Full, NodeAt, OffsetAt
<1>6. Marked'
  BY <1>1, <1>2 DEF Marked, EndIn, Full
<1> QED
  BY <1>3, <1>4, <1>5, <1>6 DEF IInv, Memory

(* An object is allocated in a node with room.                             *)
LEMMA AllocInv ==
  ASSUME Shallow, IInv, NEW bytes \in ObjectSizes, Alloc(bytes)
  PROVE  IInv'
<1> DEFINE alloc == TRUE
<1>1. mode = "alloc" /\ mode' = mode /\ alloc \in BOOLEAN /\ Falloc(alloc, bytes)
  BY DEF Alloc, Falloc
<1> HIDE DEF alloc
<1>2. Memory'
  BY <1>1, FallocMemory DEF IInv
<1> QED
  BY <1>1, <1>2 DEF IInv, Stacked, Marked

(* There is no context at first.                                           *)
LEMMA InitInv == ASSUME ContextInit PROVE IInv
<1>1. ChunkSize \in Nat /\ MaxNodes \in Nat /\ DOMAIN blocks = {}
  BY ContextAssumption DEF ContextInit
<1>2. ContextTypeOK
  BY <1>1 DEF ContextInit, ContextTypeOK, NoMark
<1>3. Links /\ Offsets /\ Outside /\ Inside /\ Apart /\ Stacked /\ Marked
  BY <1>1 DEF ContextInit, Links, Offsets, Outside, Inside, Apart, Stacked, Marked
<1> QED
  BY <1>2, <1>3 DEF IInv, Memory

(* One step per operation.                                                 *)
LEMMA StepInv ==
  ASSUME Shallow, IInv, [ContextNext]_contextVars
  PROVE  IInv'
<1> USE DEF ContextNext
<1>1. CASE Create("alloc", 0)
  BY <1>1, CreateInv
<1>2. CASE \E u \in ObjectSizes : Create("stack", u)
  <2>1. PICK u \in ObjectSizes : Create("stack", u)
    BY <1>2
  <2>2. u \in Nat
    BY ContextAssumption
  <2> QED
    BY <2>1, <2>2, CreateInv
<1>3. CASE \E b \in ObjectSizes : Alloc(b)
  BY <1>3, AllocInv
<1>4. CASE Push
  BY <1>4, PushInv
<1>5. CASE Pop
  BY <1>5, PopInv
<1>6. CASE Mark
  BY <1>6, MarkInv
<1>7. CASE Dispose
  BY <1>7, DisposeInv
<1>8. CASE UNCHANGED contextVars
  <2>1. UNCHANGED <<mode, unit, added, avail, next, freeOffset, blocks, mark>>
    BY <1>8 DEF contextVars
  <2>2. Memory'
    BY <2>1 DEF IInv, Memory, ContextTypeOK, Links, Offsets, Outside, Inside, Apart
  <2>3. Stacked' /\ Marked'
    BY <2>1 DEF IInv, Stacked, Marked, EndIn, Full, NodeAt, OffsetAt
  <2> QED
    BY <2>2, <2>3 DEF IInv
<1> QED
  BY <1>1, <1>2, <1>3, <1>4, <1>5, <1>6, <1>7, <1>8

-----------------------------------------------------------------------------
(* The invariant holds, and with it every variable has its type: no offset *)
(* ever leaves its chunk (falloc, fallocRetract).                          *)
THEOREM ContextInvariance ==
  ASSUME Shallow
  PROVE  ContextSpec => [](IInv /\ ContextTypeOK)
<1>1. IInv => ContextTypeOK
  BY DEF IInv, Memory
<1> QED
  BY <1>1, InitInv, StepInv, PTL DEF ContextSpec

(* No sequence of allocations, pushes and pops lets two objects in use     *)
(* overlap, or one touch a header or the free space of its chunk.          *)
THEOREM ObjectsApart ==
  ASSUME Shallow
  PROVE  ContextSpec => []NoOverlap
<1>1. ASSUME IInv PROVE NoOverlap
  <2> SUFFICES ASSUME NEW i \in DOMAIN blocks
               PROVE  LET b == blocks[i]
                      IN /\ b.at >= IF b.node = Ctx THEN CtxSize ELSE NodeSize
                         /\ b.at + b.size <= freeOffset[b.node]
                         /\ freeOffset[b.node] <= ChunkSize
                         /\ \A j \in DOMAIN blocks :
                              (i # j /\ blocks[j].node = b.node) =>
                                \/ b.at + b.size <= blocks[j].at
                                \/ blocks[j].at + blocks[j].size <= b.at
    BY DEF NoOverlap
  <2>1. /\ blocks \in Seq(Objects) /\ freeOffset \in [Nodes -> 0 .. ChunkSize]
        /\ CtxSize \in Nat /\ NodeSize \in Nat /\ ChunkSize \in Nat
    BY <1>1, ContextAssumption DEF IInv, Memory, ContextTypeOK, Objects
  <2>2. blocks[i] \in Objects
    BY <2>1
  <2>3. blocks[i].node \in Nodes /\ blocks[i].at \in Nat
    BY <2>2 DEF Objects
  <2>4. freeOffset[blocks[i].node] <= ChunkSize
    BY <2>1, <2>3
  <2>5. /\ Header(blocks[i].node) <= blocks[i].at
        /\ blocks[i].at + blocks[i].size <= freeOffset[blocks[i].node]
    BY <1>1 DEF IInv, Memory, Inside
  <2>6. blocks[i].at >= IF blocks[i].node = Ctx THEN CtxSize ELSE NodeSize
    BY <2>1, <2>3, <2>5 DEF Header
  <2> QED
    BY <1>1, <2>4, <2>5, <2>6 DEF IInv, Memory, Apart
<1> QED
  BY <1>1, ContextInvariance, PTL

(* Of a stack within the bound Undoable, a pop comes to the address of the *)
(* object pushed last, and is refused when there is none (fallocRetract).  *)
THEOREM PopsReverse ==
  ASSUME Shallow
  PROVE  ContextSpec => []PopReturnsTop
<1>1. ASSUME IInv PROVE PopReturnsTop
  <2> SUFFICES ASSUME mode = "stack"
               PROVE  IF blocks = <<>> THEN unit <= CtxSize => Refused(unit)
                      ELSE /\ blocks[Len(blocks)].node = PopNode(unit)
                           /\ freeOffset[PopNode(unit)] = blocks[Len(blocks)].at + unit
                           /\ ~Refused(unit)
    BY DEF PopReturnsTop
  <2> QED
    BY <1>1, EmptyRefused, PopFindsTop, TopGranted
<1> QED
  BY <1>1, ContextInvariance, PTL

(* Of a stack within the bound Undoable, fallocAtMark answers yes only at  *)
(* the depth of the mark.                                                  *)
THEOREM MarksExact ==
  ASSUME Shallow
  PROVE  ContextSpec => []MarkIsExact
<1>1. ASSUME IInv PROVE MarkIsExact
  <2> SUFFICES ASSUME mode = "stack", mark # NoMark, AtMark
               PROVE  Len(blocks) = mark.depth
    BY DEF MarkIsExact
  <2>1. EndIn(avail, mark.depth) = EndIn(avail, Len(blocks))
    BY <1>1, StackFacts DEF IInv, Marked, AtMark
  <2>2. /\ unit \in Nat \ {0} /\ Full \in Nat /\ Len(blocks) \in Nat
        /\ CtxSize \in Nat /\ NodeSize \in Nat
    BY <1>1, StackFacts
  <2>3. mark.depth \in Nat
    BY <1>1 DEF IInv, Memory, ContextTypeOK
  <2>4. CASE avail = Ctx
    <3>1. unit * mark.depth = unit * Len(blocks)
      BY <2>1, <2>2, <2>3, <2>4 DEF EndIn
    <3> QED
      BY <3>1, <2>2, <2>3, Cancel
  <2>5. CASE avail # Ctx
    <3>1. mark.depth - Full \in Int /\ Len(blocks) - Full \in Int
      BY <2>2, <2>3
    <3>2. unit * (mark.depth - Full) = unit * (Len(blocks) - Full)
      BY <2>1, <2>2, <2>5, <3>1 DEF EndIn
    <3>3. mark.depth - Full = Len(blocks) - Full
      BY <3>1, <3>2, <2>2, Cancel
    <3> QED
      BY <3>3, <2>2, <2>3
  <2> QED
    BY <2>4, <2>5
<1> QED
  BY <1>1, ContextInvariance, PTL

-----------------------------------------------------------------------------
(* The chain of available nodes.                                           *)

(* nextAvailable leads to an earlier node, or nowhere. *)
Decreasing == \A n \in Nodes : next[n] # Null => next[n] < n

(* The nodes falloc still has to look at. *)
Open == {n \in 1 .. added : freeOffset[n] + Slack <= ChunkSize}

(* m is the latest of the nodes of S, or none when S has none. *)
IsLatest(m, S) == (m = Null /\ S = {}) \/ (m \in S /\ \A k \in S : k <= m)

OpenBelow(n) == {k \in Open : k < n}

(* The chain of available nodes lists the open nodes, the latest first. *)
OpenChain ==
  mode = "alloc" =>
    /\ IsLatest(avail, Open)
    /\ \A n \in Open : IsLatest(next[n], OpenBelow(n))

ChainInv == Decreasing /\ OpenChain

(* g is the walk along the available nodes, as far as D. *)
IsPath(g, D) ==
  g = [i \in D |-> IF i = 0 THEN avail ELSE IF g[i - 1] = Null THEN Null ELSE next[g[i - 1]]]

(* The walk along the available nodes is well defined.                     *)
LEMMA PathExists ==
  ASSUME NEW m \in Nat
  PROVE  \E g : IsPath(g, 0 .. m)
<1> DEFINE P == {k \in Nat : \E g : IsPath(g, 0 .. k)}
<1>1. 0 \in P
  <2> DEFINE g == [i \in 0 .. 0 |-> avail]
  <2>1. IsPath(g, 0 .. 0)
    BY DEF IsPath
  <2> QED
    BY <2>1
<1>2. ASSUME NEW k \in Nat, k \in P PROVE k + 1 \in P
  <2>1. PICK h : IsPath(h, 0 .. k)
    BY <1>2
  <2> DEFINE last == IF h[k] = Null THEN Null ELSE next[h[k]]
             g == [i \in 0 .. k + 1 |-> IF i = k + 1 THEN last ELSE h[i]]
  <2>2. \A i \in 0 .. k : i \in 0 .. k + 1 /\ i # k + 1 /\ g[i] = h[i]
    <3> HIDE DEF last
    <3> QED
      OBVIOUS
  <2>3. g[k + 1] = last
    <3> HIDE DEF last
    <3> QED
      OBVIOUS
  <2>4. ASSUME NEW i \in 0 .. k + 1
        PROVE  g[i] = IF i = 0 THEN avail ELSE IF g[i - 1] = Null THEN Null ELSE next[g[i - 1]]
    <3> HIDE DEF g
    <3>1. CASE i = k + 1
      <4>1. i - 1 = k /\ i # 0 /\ g[k] = h[k]
        BY <2>2, <3>1
      <4> QED
        BY <2>3, <3>1, <4>1
    <3>2. CASE i \in 0 .. k
      <4>1. g[i] = h[i] /\ (i # 0 => i - 1 \in 0 .. k /\ g[i - 1] = h[i - 1])
        BY <2>2, <3>2
      <4>2. h[i] = IF i = 0 THEN avail ELSE IF h[i - 1] = Null THEN Null ELSE next[h[i - 1]]
        BY <2>1, <3>2 DEF IsPath
      <4> QED
        BY <4>1, <4>2
    <3> QED
      BY <3>1, <3>2
  <2>5. IsPath(g, 0 .. k + 1)
    <3>1. g = [i \in 0 .. k + 1 |-> g[i]]
      OBVIOUS
    <3> HIDE DEF g
    <3> QED
      BY <2>4, <3>1 DEF IsPath
  <2> QED
    BY <2>5
<1> HIDE DEF P
<1>3. Nat \subseteq P
  BY <1>1, <1>2, NumberInduction
<1> QED
  BY <1>3 DEF P

(* The steps of falloc's walk along the available nodes. *)
LEMMA PathSteps ==
  /\ Available[0] = avail
  /\ \A i \in 1 .. MaxNodes :
       Available[i] = IF Available[i - 1] = Null THEN Null ELSE next[Available[i - 1]]
<1>1. MaxNodes \in Nat
  BY ContextAssumption
<1>2. IsPath(Available, 0 .. MaxNodes)
  <2>1. \E g : IsPath(g, 0 .. MaxNodes)
    BY <1>1, PathExists
  <2> QED
    BY <2>1 DEF IsPath, Available
<1>4. \A i \in 0 .. MaxNodes :
        Available[i] = IF i = 0 THEN avail
                       ELSE IF Available[i - 1] = Null THEN Null ELSE next[Available[i - 1]]
  BY <1>2 DEF IsPath
<1>5. Available[0] = avail
  BY <1>1, <1>4
<1>6. ASSUME NEW i \in 1 .. MaxNodes
      PROVE  Available[i] = IF Available[i - 1] = Null THEN Null ELSE next[Available[i - 1]]
  <2>1. i \in 0 .. MaxNodes /\ i # 0
    BY <1>1
  <2> QED
    BY <1>4, <2>1
<1> QED
  BY <1>5, <1>6

(* The walk goes down, along nodes of the context: it has an end. *)
LEMMA PathDown ==
  ASSUME Memory, Decreasing
  PROVE  /\ \A i \in 0 .. MaxNodes : Available[i] \in (1 .. added) \cup {Null}
         /\ Available[MaxNodes] = Null
<1> DEFINE p == Available
           P == {i \in Nat : i <= MaxNodes /\ p[i] # Null => p[i] \in 1 .. added /\ p[i] <= MaxNodes - i}
<1>1. MaxNodes \in Nat /\ added \in 0 .. MaxNodes
  BY ContextAssumption DEF Memory, ContextTypeOK
<1>2. /\ p[0] = avail
      /\ \A i \in 1 .. MaxNodes : p[i] = IF p[i - 1] = Null THEN Null ELSE next[p[i - 1]]
  BY PathSteps
<1> HIDE DEF p
<1>3. 0 \in P
  BY <1>1, <1>2 DEF Memory, Links
<1>4. ASSUME NEW k \in Nat, k \in P PROVE k + 1 \in P
  <2> SUFFICES ASSUME k + 1 <= MaxNodes, p[k + 1] # Null
               PROVE  p[k + 1] \in 1 .. added /\ p[k + 1] <= MaxNodes - (k + 1)
    OBVIOUS
  <2>1. p[k + 1] = IF p[k] = Null THEN Null ELSE next[p[k]]
    <3>1. k + 1 \in 1 .. MaxNodes /\ (k + 1) - 1 = k
      BY <1>1
    <3> QED
      BY <1>2, <3>1
  <2>2. p[k] \in 1 .. added /\ p[k] <= MaxNodes - k /\ p[k + 1] = next[p[k]]
    BY <1>1, <1>4, <2>1
  <2>3. PICK n \in Nodes : n = p[k]
    BY <1>1, <2>2 DEF Nodes
  <2>4. next[n] \in 1 .. added /\ next[n] < n
    BY <2>2, <2>3 DEF Decreasing, Memory, Links
  <2> QED
    BY <1>1, <2>2, <2>3, <2>4
<1> HIDE DEF P
<1>5. Nat \subseteq P
  BY <1>3, <1>4, NumberInduction
<1>6. \A i \in 0 .. MaxNodes : p[i] # Null => p[i] \in 1 .. added /\ p[i] <= MaxNodes - i
  BY <1>1, <1>5 DEF P
<1>7. p[MaxNodes] = Null
  <2>1. MaxNodes \in 0 .. MaxNodes
    BY <1>1
  <2> QED
    BY <1>1, <1>6, <2>1
<1> QED
  BY <1>6, <1>7 DEF p

(* Every node on the walk is open, and the next one is the latest below it. *)
LEMMA PathOpen ==
  ASSUME Memory, OpenChain, mode = "alloc"
  PROVE  /\ \A i \in 0 .. MaxNodes : Available[i] \in Open \cup {Null}
         /\ \A i \in 1 .. MaxNodes : Available[i - 1] # Null =>
              IsLatest(Available[i], OpenBelow(Available[i - 1]))
<1> DEFINE p == Available
           P == {i \in Nat : i <= MaxNodes => p[i] \in Open \cup {Null}}
<1>1. MaxNodes \in Nat
  BY ContextAssumption
<1>2. /\ p[0] = avail
      /\ \A i \in 1 .. MaxNodes : p[i] = IF p[i - 1] = Null THEN Null ELSE next[p[i - 1]]
  BY PathSteps
<1> HIDE DEF p
<1>3. 0 \in P
  BY <1>1, <1>2 DEF OpenChain, IsLatest
<1>4. ASSUME NEW k \in Nat, k \in P PROVE k + 1 \in P
  <2> SUFFICES ASSUME k + 1 <= MaxNodes PROVE p[k + 1] \in Open \cup {Null}
    OBVIOUS
  <2>1. p[k + 1] = IF p[k] = Null THEN Null ELSE next[p[k]]
    <3>1. k + 1 \in 1 .. MaxNodes /\ (k + 1) - 1 = k
      BY <1>1
    <3> QED
      BY <1>2, <3>1
  <2>2. p[k] \in Open \cup {Null}
    BY <1>1, <1>4
  <2> QED
    BY <2>1, <2>2 DEF OpenChain, IsLatest, OpenBelow
<1> HIDE DEF P
<1>5. Nat \subseteq P
  BY <1>3, <1>4, NumberInduction
<1>6. \A i \in 0 .. MaxNodes : p[i] \in Open \cup {Null}
  BY <1>1, <1>5 DEF P
<1>7. ASSUME NEW i \in 1 .. MaxNodes, p[i - 1] # Null
      PROVE  IsLatest(p[i], OpenBelow(p[i - 1]))
  <2>1. i - 1 \in 0 .. MaxNodes
    BY <1>1
  <2>2. p[i - 1] \in Open /\ p[i] = next[p[i - 1]]
    BY <1>2, <1>6, <1>7, <2>1
  <2> QED
    BY <2>2 DEF OpenChain
<1> QED
  BY <1>6, <1>7 DEF p

(* The walk comes by every open node. *)
LEMMA PathFinds ==
  ASSUME Memory, Decreasing, OpenChain, mode = "alloc", NEW n \in Open
  PROVE  \E i \in 0 .. MaxNodes : Available[i] = n
<1> DEFINE p == Available
           P == {i \in Nat : i <= MaxNodes => p[i] # Null /\ p[i] > n}
<1> SUFFICES ASSUME \A i \in 0 .. MaxNodes : p[i] # n PROVE FALSE
  OBVIOUS
<1>1. MaxNodes \in Nat /\ added \in Nat /\ n \in Nat /\ Open \subseteq Nat
  BY ContextAssumption DEF Memory, ContextTypeOK, Open
<1>2. p[0] = avail /\ p[MaxNodes] = Null
  BY PathSteps, PathDown
<1>3. /\ \A i \in 0 .. MaxNodes : p[i] \in Open \cup {Null}
      /\ \A i \in 1 .. MaxNodes : p[i - 1] # Null => IsLatest(p[i], OpenBelow(p[i - 1]))
  BY PathOpen
<1> HIDE DEF p
<1>4. 0 \in P
  <2>1. p[0] # n /\ IsLatest(p[0], Open)
    BY <1>1, <1>2 DEF OpenChain
  <2>2. p[0] \in Open /\ n <= p[0]
    BY <2>1 DEF IsLatest
  <2>3. PICK m \in Nat : m = p[0]
    BY <1>1, <2>2
  <2>4. m # Null /\ m > n
    <3>1. m # n /\ n <= m
      BY <2>1, <2>2, <2>3
    <3> QED
      BY <1>1, <3>1, ContextAssumption
  <2> QED
    BY <2>3, <2>4
<1>5. ASSUME NEW k \in Nat, k \in P PROVE k + 1 \in P
  <2> SUFFICES ASSUME k + 1 <= MaxNodes PROVE p[k + 1] # Null /\ p[k + 1] > n
    OBVIOUS
  <2>1. p[k] # Null /\ p[k] > n
    BY <1>1, <1>5
  <2>2. IsLatest(p[k + 1], OpenBelow(p[k])) /\ p[k + 1] # n
    <3>1. k + 1 \in 1 .. MaxNodes /\ (k + 1) - 1 = k /\ k + 1 \in 0 .. MaxNodes
      BY <1>1
    <3> QED
      BY <1>3, <2>1, <3>1
  <2>3. n \in OpenBelow(p[k])
    BY <2>1 DEF OpenBelow
  <2>4. p[k + 1] \in Open /\ n <= p[k + 1]
    BY <2>2, <2>3 DEF IsLatest, OpenBelow
  <2>5. PICK m \in Nat : m = p[k + 1]
    BY <1>1, <2>4
  <2>6. m # Null /\ m > n
    <3>1. m # n /\ n <= m
      BY <2>2, <2>4, <2>5
    <3> QED
      BY <1>1, <3>1, ContextAssumption
  <2> QED
    BY <2>5, <2>6
<1> HIDE DEF P
<1>6. MaxNodes \in P
  BY <1>1, <1>4, <1>5, NumberInduction
<1> QED
  BY <1>1, <1>2, <1>6 DEF P

(* What the chain of available nodes is made of. *)
LEMMA ChainFacts ==
  ASSUME Shallow, IInv
  PROVE  /\ Open \subseteq 1 .. added /\ 1 .. added \subseteq Nodes /\ Nodes \subseteq Nat
         /\ added \in Nat /\ added <= MaxNodes /\ MaxNodes \in Nat
         /\ Null \notin Nat /\ Slack \in Nat /\ ChunkSize \in Nat
         /\ next \in [Nodes -> Nodes \cup {Null}]
         /\ \A n \in 1 .. added : freeOffset[n] \in Nat
<1>1. /\ added \in 0 .. MaxNodes /\ next \in [Nodes -> Nodes \cup {Null}]
      /\ freeOffset \in [Nodes -> 0 .. ChunkSize]
  BY DEF IInv, Memory, ContextTypeOK
<1>2. /\ MaxNodes \in Nat /\ Null \notin Nat /\ Slack \in Nat /\ ChunkSize \in Nat
  BY ContextAssumption
<1>3. 1 .. added \subseteq Nodes /\ Nodes \subseteq Nat
  BY <1>1, <1>2 DEF Nodes
<1>4. ASSUME NEW n \in 1 .. added PROVE freeOffset[n] \in Nat
  <2>1. freeOffset[n] \in 0 .. ChunkSize
    BY <1>1, <1>3, <1>4
  <2> QED
    BY <1>2, <2>1
<1> QED
  BY <1>1, <1>2, <1>3, <1>4 DEF Open

(* A node that is closed is taken out of the chain, at its head ... *)
LEMMA CloseHead ==
  ASSUME Shallow, IInv, ChainInv, NEW n \in Open, n = avail, avail' = next[n],
         next' = [next EXCEPT ![n] = Null], Open' = Open \ {n}, mode = "alloc"
  PROVE  ChainInv'
<1>1. /\ Open \subseteq Nodes /\ Nodes \subseteq Nat /\ Null \notin Nat /\ n \in Nodes
      /\ next \in [Nodes -> Nodes \cup {Null}]
  BY ChainFacts
<1>2. /\ IsLatest(n, Open) /\ \A m \in Open : IsLatest(next[m], OpenBelow(m))
  BY DEF ChainInv, OpenChain
<1>3. next'[n] = Null /\ \A m \in Nodes \ {n} : next'[m] = next[m]
  BY <1>1
<1>4. Decreasing'
  BY <1>3 DEF ChainInv, Decreasing
<1>5. \A m \in Open : m <= n
  BY <1>1, <1>2 DEF IsLatest
<1>6. OpenBelow(n) = Open \ {n}
  <2>1. \A k \in Open : k < n <=> k # n
    BY <1>1, <1>5
  <2> QED
    BY <2>1 DEF OpenBelow
<1>7. ASSUME NEW m \in Open \ {n} PROVE OpenBelow(m)' = OpenBelow(m)
  <2>1. ~(n < m) /\ OpenBelow(m)' = {k \in Open \ {n} : k < m}
    BY <1>1, <1>5 DEF OpenBelow
  <2> QED
    BY <2>1 DEF OpenBelow
<1>8. IsLatest(avail', Open')
  BY <1>2, <1>6
<1>9. ASSUME NEW m \in Open \ {n} PROVE IsLatest(next'[m], OpenBelow(m)')
  BY <1>1, <1>2, <1>3, <1>7
<1> QED
  BY <1>4, <1>8, <1>9 DEF ChainInv, OpenChain, IsLatest

(* ... or behind the node the walk came from. *)
LEMMA CloseBehind ==
  ASSUME Shallow, IInv, ChainInv, NEW n \in Open, NEW last \in Open, avail' = avail,
         IsLatest(n, OpenBelow(last)),
         next' = [[next EXCEPT ![last] = next[n]] EXCEPT ![n] = Null],
         Open' = Open \ {n}, mode = "alloc"
  PROVE  ChainInv'
<1>1. /\ Open \subseteq Nodes /\ Nodes \subseteq Nat /\ Null \notin Nat
      /\ n \in Nodes /\ last \in Nodes /\ next \in [Nodes -> Nodes \cup {Null}]
  BY ChainFacts
<1>2. /\ IsLatest(avail, Open) /\ \A m \in Open : IsLatest(next[m], OpenBelow(m))
  BY DEF ChainInv, OpenChain
<1>3. n < last /\ \A k \in Open : k < last => k <= n
  <2>1. n # Null
    BY <1>1
  <2> QED
    BY <2>1 DEF IsLatest, OpenBelow
<1>4. /\ next'[n] = Null /\ next'[last] = next[n]
      /\ \A m \in Nodes \ {n, last} : next'[m] = next[m]
  BY <1>1, <1>3
<1>5. Decreasing'
  <2> SUFFICES ASSUME NEW m \in Nodes, next'[m] # Null PROVE next'[m] < m
    BY DEF Decreasing
  <2>1. CASE m = last
    <3>1. next[n] < n /\ next[n] \in Nodes
      BY <1>1, <1>4, <2>1 DEF ChainInv, Decreasing
    <3>2. PICK x \in Nat : x = next[n]
      BY <1>1, <3>1
    <3> QED
      BY <1>1, <1>3, <1>4, <2>1, <3>1, <3>2
  <2>2. CASE m # last
    BY <1>4, <2>2 DEF ChainInv, Decreasing
  <2> QED
    BY <2>1, <2>2
<1>6. \A m \in Nat : OpenBelow(m)' = {k \in Open \ {n} : k < m}
  BY DEF OpenBelow
<1>7. IsLatest(avail', Open')
  <2>1. avail \in Open /\ \A k \in Open : k <= avail
    BY <1>2 DEF IsLatest
  <2>2. avail # n
    BY <1>1, <1>3, <2>1
  <2> QED
    BY <2>1, <2>2 DEF IsLatest
<1>8. ASSUME NEW m \in Open \ {n} PROVE IsLatest(next'[m], OpenBelow(m)')
  <2>1. m \in Nat /\ n \in Nat /\ last \in Nat
    BY <1>1
  <2>2. CASE m = last
    <3>1. OpenBelow(m)' = OpenBelow(n)
      <4>1. \A k \in Open : k \in Nat /\ (k # n /\ k < last <=> k < n)
        BY <1>1, <1>3, <2>1
      <4> QED
        BY <1>6, <2>1, <2>2, <4>1 DEF OpenBelow
    <3> QED
      BY <1>2, <1>4, <2>2, <3>1
  <2>3. CASE m # last /\ n < m
    <3>1. last \in OpenBelow(m) /\ last # n
      BY <1>3, <2>1, <2>3 DEF OpenBelow
    <3>2. next[m] \in OpenBelow(m) /\ \A k \in OpenBelow(m) : k <= next[m]
      BY <1>2, <3>1 DEF IsLatest
    <3>3. next[m] # n
      BY <1>3, <2>1, <3>1, <3>2
    <3>4. OpenBelow(m)' = OpenBelow(m) \ {n}
      BY <1>6, <2>1 DEF OpenBelow
    <3>5. next'[m] = next[m]
      BY <1>1, <1>4, <2>3
    <3> QED
      BY <3>2, <3>3, <3>4, <3>5 DEF IsLatest
  <2>4. CASE m # last /\ ~(n < m)
    <3>1. OpenBelow(m)' = OpenBelow(m)
      BY <1>6, <2>1, <2>4 DEF OpenBelow
    <3>2. next'[m] = next[m]
      BY <1>1, <1>4, <2>4
    <3> QED
      BY <1>2, <3>1, <3>2
  <2> QED
    BY <2>2, <2>3, <2>4
<1> QED
  BY <1>5, <1>7, <1>8 DEF ChainInv, OpenChain

(* An object put into an open node keeps the chain, closed or not. *)
LEMMA ChainPlaced ==
  ASSUME Shallow, IInv, ChainInv, mode = "alloc", NEW alloc \in BOOLEAN, alloc,
         NEW bytes \in ObjectSizes, NEW n \in Open, NEW last, freeOffset[n] + bytes <= ChunkSize,
         Place(n, freeOffset[n], bytes, alloc, last, avail, next),
         freeOffset' = [freeOffset EXCEPT ![n] = freeOffset[n] + bytes],
         UNCHANGED <<mode, added>>,
         \/ last = Ctx /\ n = avail
         \/ last # Ctx /\ last \in Open /\ IsLatest(n, OpenBelow(last))
  PROVE  ChainInv'
<1>1. /\ Open \subseteq 1 .. added /\ 1 .. added \subseteq Nodes /\ Nodes \subseteq Nat
      /\ \A k \in 1 .. added : freeOffset[k] \in Nat
  BY ChainFacts
<1>2. freeOffset \in [Nodes -> 0 .. ChunkSize]
  BY DEF IInv, Memory, ContextTypeOK
<1>3. bytes \in Nat /\ Slack \in Nat /\ ChunkSize \in Nat /\ CtxSize \in Nat /\ CtxSize <= ChunkSize
  BY ContextAssumption
<1>4. PICK off \in Nat : off = freeOffset[n]
  BY <1>1
<1>5. PICK end \in Nat : end = off + bytes
  BY <1>3
<1>6. end = freeOffset[n] + bytes /\ off <= end /\ end <= ChunkSize
  BY <1>3, <1>4, <1>5
<1>7. /\ freeOffset'[n] = end /\ \A k \in 1 .. added : k # n => freeOffset'[k] = freeOffset[k]
      /\ end % Short = end
  <2>1. freeOffset' = [freeOffset EXCEPT ![n] = end]
    BY <1>6
  <2>2. end <= 2 * ChunkSize - CtxSize
    BY <1>3, <1>6
  <2> QED
    BY <1>1, <1>2, <2>1, <2>2, NoWrap
<1>8. CASE ~(end + Slack > ChunkSize)
  <2>1. avail' = avail /\ next' = next
    BY <1>6, <1>7, <1>8 DEF Place
  <2>2. ASSUME NEW k \in 1 .. added
        PROVE  freeOffset'[k] + Slack <= ChunkSize <=> freeOffset[k] + Slack <= ChunkSize
    <3>1. CASE k = n
      <4>1. end + Slack <= ChunkSize /\ off + Slack <= ChunkSize
        BY <1>3, <1>6, <1>8
      <4> QED
        BY <1>4, <1>7, <3>1, <4>1
    <3>2. CASE k # n
      BY <1>7, <3>2
    <3> QED
      BY <3>1, <3>2
  <2>3. Open' = Open
    BY <2>2 DEF Open
  <2> QED
    BY <2>1, <2>3 DEF ChainInv, Decreasing, OpenChain, OpenBelow, IsLatest
<1>9. CASE end + Slack > ChunkSize
  <2>1. /\ avail' = IF last = Ctx THEN next[n] ELSE avail
        /\ next' = [IF last = Ctx THEN next ELSE [next EXCEPT ![last] = next[n]] EXCEPT ![n] = Null]
    BY <1>6, <1>7, <1>9 DEF Place
  <2>2. ASSUME NEW k \in 1 .. added
        PROVE  freeOffset'[k] + Slack <= ChunkSize <=> freeOffset[k] + Slack <= ChunkSize /\ k # n
    <3>1. CASE k = n
      <4>1. ~(end + Slack <= ChunkSize)
        BY <1>3, <1>9
      <4> QED
        BY <1>7, <3>1, <4>1
    <3>2. CASE k # n
      BY <1>7, <3>2
    <3> QED
      BY <3>1, <3>2
  <2>3. Open' = Open \ {n}
    BY <2>2 DEF Open
  <2>4. CASE last = Ctx /\ n = avail
    <3>1. avail' = next[n] /\ next' = [next EXCEPT ![n] = Null]
      BY <2>1, <2>4
    <3> QED
      BY <2>3, <2>4, <3>1, CloseHead
  <2>5. CASE last # Ctx /\ last \in Open /\ IsLatest(n, OpenBelow(last))
    <3>1. avail' = avail /\ next' = [[next EXCEPT ![last] = next[n]] EXCEPT ![n] = Null]
      BY <2>1, <2>5
    <3> QED
      BY <2>3, <2>5, <3>1, CloseBehind
  <2> QED
    BY <2>4, <2>5
<1> QED
  BY <1>8, <1>9

(* The context's own node is the first: none is below it. *)
LEMMA NoneBelowCtx ==
  ASSUME Shallow, IInv, NEW n \in Open, NEW last, n \in OpenBelow(last)
  PROVE  last # Ctx
<1>1. n \in 1 .. added /\ added \in Nat
  BY ChainFacts
<1>2. n < last
  BY DEF OpenBelow
<1> QED
  BY <1>1, <1>2 DEF Ctx

(* falloc finds room in a node of the chain. *)
LEMMA ChainFound ==
  ASSUME Shallow, IInv, ChainInv, mode = "alloc", NEW alloc \in BOOLEAN, alloc,
         NEW bytes \in ObjectSizes, bytes <= ChunkSize - CtxSize,
         NEW i \in Places(alloc, bytes), NEW n, n = Path(alloc)[i],
         Place(n, freeOffset[n], bytes, alloc, Before(alloc, i), avail, next),
         UNCHANGED <<mode, unit, mark, added>>
  PROVE  ChainInv'
<1>1. /\ n \in 1 .. added /\ freeOffset[n] + bytes <= ChunkSize
      /\ freeOffset' = [freeOffset EXCEPT ![n] = freeOffset[n] + bytes]
  BY FoundMemory DEF IInv
<1>2. MaxNodes \in Nat /\ Null \notin Nat /\ added \in Nat
  BY ChainFacts
<1>3. i \in 0 .. MaxNodes /\ n = Available[i] /\ n # Null /\ n \in Nat
  BY <1>1, <1>2 DEF Places, Path
<1>4. n \in Open
  BY <1>3, PathOpen DEF ChainInv, IInv
<1>5. \/ Before(alloc, i) = Ctx /\ n = avail
      \/ Before(alloc, i) # Ctx /\ Before(alloc, i) \in Open /\ IsLatest(n, OpenBelow(Before(alloc, i)))
  <2>1. CASE i = 0
    BY <1>3, <2>1, PathSteps DEF Before
  <2>2. CASE i # 0
    <3>1. i \in 1 .. MaxNodes /\ i - 1 \in 0 .. MaxNodes
      BY <1>2, <1>3, <2>2
    <3>2. PICK last : last = Available[i - 1]
      OBVIOUS
    <3>3. last # Null
      BY <1>3, <3>1, <3>2, PathSteps
    <3>4. last \in Open /\ IsLatest(n, OpenBelow(last))
      BY <1>3, <3>1, <3>2, <3>3, PathOpen DEF ChainInv, IInv
    <3>5. n \in OpenBelow(last)
      BY <1>3, <3>4 DEF IsLatest
    <3>6. last # Ctx
      BY <1>4, <3>5, NoneBelowCtx
    <3>7. Before(alloc, i) = last
      BY <2>2, <3>2 DEF Before, Path
    <3> QED
      BY <3>4, <3>6, <3>7
  <2> QED
    BY <2>1, <2>2
<1> QED
  BY <1>1, <1>4, <1>5, ChainPlaced

(* falloc puts a new node in front of the chain: it is not full at once. *)
LEMMA ChainAdds ==
  ASSUME Shallow, IInv, ChainInv, mode = "alloc", NEW alloc \in BOOLEAN, alloc,
         NEW bytes \in ObjectSizes, bytes <= ChunkSize - CtxSize,
         FallocAdds(alloc, bytes), UNCHANGED <<mode, unit, mark>>
  PROVE  ChainInv'
<1>1. /\ Open \subseteq 1 .. added /\ 1 .. added \subseteq Nodes /\ Nodes \subseteq Nat
      /\ added \in Nat /\ Null \notin Nat /\ next \in [Nodes -> Nodes \cup {Null}]
  BY ChainFacts
<1>2. /\ bytes \in Nat /\ Slack \in Nat /\ ChunkSize \in Nat /\ CtxSize \in Nat
      /\ NodeSize \in Nat /\ NodeSize + Slack <= CtxSize /\ CtxSize <= ChunkSize
      /\ MaxNodes \in Nat
  BY ContextAssumption
<1>3. PICK a \in Nodes : a = added + 1 /\ a = added'
  BY <1>1, <1>2 DEF FallocAdds, Nodes
<1>4. PICK end \in Nat : end = NodeSize + bytes
  BY <1>2
<1>5. ~(end + Slack > ChunkSize) /\ end % Short = end
  <2>1. end + Slack <= ChunkSize /\ end <= 2 * ChunkSize - CtxSize
    BY <1>2, <1>4
  <2> QED
    BY <1>2, <1>4, <2>1, NoWrap
<1>6. avail' = a /\ next' = [next EXCEPT ![a] = avail]
  BY <1>3, <1>4, <1>5 DEF FallocAdds, Place
<1>7. freeOffset' = [freeOffset EXCEPT ![a] = end]
  BY <1>3, <1>4, AddsMemory DEF IInv
<1>8. /\ next'[a] = avail /\ \A m \in Nodes \ {a} : next'[m] = next[m]
      /\ freeOffset'[a] = end /\ \A m \in Nodes \ {a} : freeOffset'[m] = freeOffset[m]
  BY <1>1, <1>3, <1>6, <1>7 DEF IInv, Memory, ContextTypeOK
<1>9. /\ IsLatest(avail, Open) /\ \A m \in Open : IsLatest(next[m], OpenBelow(m))
  BY DEF ChainInv, OpenChain
<1>10. \A k \in 1 .. added : k # a /\ k < a /\ k \in Nodes
  BY <1>1, <1>3
<1>11. Open' = Open \cup {a}
  <2>1. 1 .. added' = (1 .. added) \cup {a}
    BY <1>1, <1>3
  <2>2. freeOffset'[a] + Slack <= ChunkSize
    BY <1>2, <1>5, <1>8
  <2>3. \A k \in 1 .. added : freeOffset'[k] = freeOffset[k]
    BY <1>8, <1>10
  <2> QED
    BY <2>1, <2>2, <2>3 DEF Open
<1>12. Decreasing'
  <2> SUFFICES ASSUME NEW m \in Nodes, next'[m] # Null PROVE next'[m] < m
    BY DEF Decreasing
  <2>1. CASE m = a
    <3>1. avail \in 1 .. added
      BY <1>1, <1>8, <1>9, <2>1 DEF IsLatest
    <3> QED
      BY <1>8, <1>10, <2>1, <3>1
  <2>2. CASE m # a
    BY <1>8, <2>2 DEF ChainInv, Decreasing
  <2> QED
    BY <2>1, <2>2
<1>13. \A m \in Nat : OpenBelow(m)' = {k \in Open \cup {a} : k < m}
  BY <1>11 DEF OpenBelow
<1>14. IsLatest(avail', Open')
  <2>1. \A k \in Open \cup {a} : k <= a
    BY <1>1, <1>10
  <2> QED
    BY <1>6, <1>11, <2>1 DEF IsLatest
<1>15. ASSUME NEW m \in Open \cup {a} PROVE IsLatest(next'[m], OpenBelow(m)')
  <2>1. CASE m = a
    <3>1. OpenBelow(a)' = Open
      <4>1. ~(a < a) /\ \A k \in Open : k < a
        BY <1>1, <1>10
      <4>2. OpenBelow(a)' = {k \in Open \cup {a} : k < a}
        BY <1>1, <1>13
      <4> QED
        BY <4>1, <4>2
    <3> QED
      BY <1>8, <1>9, <2>1, <3>1
  <2>2. CASE m \in Open
    <3>1. OpenBelow(m)' = OpenBelow(m)
      <4>1. ~(a < m) /\ m \in Nat
        BY <1>1, <1>10, <2>2
      <4> QED
        BY <1>13, <4>1 DEF OpenBelow
    <3>2. next'[m] = next[m]
      BY <1>1, <1>8, <1>10, <2>2
    <3> QED
      BY <1>9, <2>2, <3>1, <3>2
  <2> QED
    BY <2>1, <2>2
<1> QED
  BY <1>11, <1>12, <1>14, <1>15 DEF ChainInv, OpenChain

(* A context begins with a chain of one node.                              *)
LEMMA ChainStart ==
  ASSUME Shallow, IInv, ChainInv, NEW m \in {"alloc", "stack"}, NEW u, Create(m, u)
  PROVE  ChainInv'
<1>1. /\ Nodes \subseteq Nat /\ Null \notin Nat /\ next \in [Nodes -> Nodes \cup {Null}]
      /\ MaxNodes \in Nat
  BY ChainFacts
<1>2. /\ CtxSize \in Nat /\ Slack \in Nat /\ ChunkSize \in Nat /\ MaxNodes # 0
  BY ContextAssumption
<1>3. PICK c \in Nodes : c = 1 /\ c = Ctx
  BY <1>1, <1>2 DEF Nodes, Ctx
<1>4. /\ added' = c /\ avail' = c /\ next' = next
      /\ freeOffset' = [freeOffset EXCEPT ![c] = CtxSize]
  <2>1. ~(CtxSize + Slack > ChunkSize)
    BY <1>2 DEF Shallow
  <2> QED
    BY <1>3, <2>1 DEF Create
<1>5. \A n \in Nodes : next[n] = Null
  BY DEF Create, IInv, Memory, Outside, Links
<1>6. Open' = {c}
  <2>1. freeOffset'[c] = CtxSize
    BY <1>4 DEF IInv, Memory, ContextTypeOK
  <2>2. \A k : k \in 1 .. added' <=> k = c
    BY <1>3, <1>4
  <2>3. freeOffset'[c] + Slack <= ChunkSize
    BY <2>1 DEF Shallow
  <2> QED
    BY <2>2, <2>3 DEF Open
<1>7. OpenBelow(c)' = {}
  <2>1. ~(c < c)
    BY <1>3
  <2> QED
    BY <1>6, <2>1 DEF OpenBelow
<1>8. c <= c
  BY <1>3
<1> QED
  BY <1>4, <1>5, <1>6, <1>7, <1>8 DEF ChainInv, Decreasing, OpenChain, IsLatest

(* A push links new nodes to nothing. *)
LEMMA ChainPush ==
  ASSUME Shallow, IInv, ChainInv, Push
  PROVE  ChainInv'
<1> PICK alloc \in BOOLEAN : ~alloc
  OBVIOUS
<1>1. mode = "stack" /\ mode' = mode /\ (FallocFound(alloc, unit) \/ FallocAdds(alloc, unit))
  BY DEF Push, Falloc
<1>2. next' = next \/ next' = [next EXCEPT ![added'] = Null]
  BY <1>1 DEF FallocFound, FallocAdds, Place
<1>3. \A n \in Nodes : next'[n] # Null => next'[n] = next[n]
  BY <1>2 DEF IInv, Memory, ContextTypeOK
<1> QED
  BY <1>1, <1>3 DEF ChainInv, Decreasing, OpenChain

(* Every step keeps the chain of available nodes.                          *)
LEMMA ChainStep ==
  ASSUME Shallow, IInv, ChainInv, [ContextNext]_contextVars
  PROVE  ChainInv'
<1>1. ASSUME NEW m \in {"alloc", "stack"}, NEW u, Create(m, u) PROVE ChainInv'
  BY <1>1, ChainStart
<1>2. ASSUME NEW bytes \in ObjectSizes, Alloc(bytes) PROVE ChainInv'
  <2> PICK alloc \in BOOLEAN : alloc
    OBVIOUS
  <2>1. /\ mode = "alloc" /\ UNCHANGED <<mode, unit, mark>> /\ bytes <= ChunkSize - CtxSize
        /\ FallocFound(alloc, bytes) \/ FallocAdds(alloc, bytes)
    BY <1>2 DEF Alloc, Falloc
  <2>2. CASE FallocFound(alloc, bytes)
    <3>1. PICK i \in Places(alloc, bytes) : \E n :
            /\ n = Path(alloc)[i]
            /\ Place(n, freeOffset[n], bytes, alloc, Before(alloc, i), avail, next)
            /\ UNCHANGED added
      BY <2>2 DEF FallocFound
    <3> QED
      BY <2>1, <3>1, ChainFound
  <2>3. CASE FallocAdds(alloc, bytes)
    BY <2>1, <2>3, ChainAdds
  <2> QED
    BY <2>1, <2>2, <2>3
<1>3. CASE Push
  BY <1>3, ChainPush
<1>4. CASE Pop \/ Mark
  <2>1. mode' = "stack" /\ next' = next
    BY <1>4 DEF Pop, Mark
  <2> QED
    BY <2>1 DEF ChainInv, Decreasing, OpenChain
<1>5. CASE Dispose
  <2>1. mode' = "none" /\ \A n \in Nodes : next'[n] = Null
    BY <1>5 DEF Dispose
  <2> QED
    BY <2>1 DEF ChainInv, Decreasing, OpenChain
<1>6. CASE UNCHANGED contextVars
  <2>1. UNCHANGED <<mode, added, avail, next, freeOffset>>
    BY <1>6 DEF contextVars
  <2> QED
    BY <2>1 DEF ChainInv, Decreasing, OpenChain, Open, OpenBelow, IsLatest
<1>7. CASE Create("alloc", 0)
  BY <1>1, <1>7
<1>8. CASE \E u \in ObjectSizes : Create("stack", u)
  BY <1>1, <1>8
<1> QED
  BY <1>2, <1>3, <1>4, <1>5, <1>6, <1>7, <1>8 DEF ContextNext

(* However nodes are added, filled and closed, the available nodes are the *)
(* ones with room, chained from the latest to the earliest (falloc).       *)
THEOREM ChainInvariance ==
  ASSUME Shallow
  PROVE  ContextSpec => []ChainInv
<1>1. ASSUME ContextInit PROVE ChainInv
  BY <1>1 DEF ContextInit, ChainInv, Decreasing, OpenChain
<1>2. ASSUME IInv, ChainInv, [ContextNext]_contextVars PROVE ChainInv'
  BY <1>2, ChainStep
<1> QED
  BY <1>1, <1>2, ContextInvariance, PTL DEF ContextSpec

(* The search of falloc comes by nodes of the context only, and to an end, *)
(* along either chain, however many nodes there are.                       *)
THEOREM SearchesEnd ==
  ASSUME Shallow
  PROVE  ContextSpec => []SearchEnds
<1>1. ASSUME IInv, ChainInv PROVE SearchEnds
  <2>1. /\ \A i \in 0 .. MaxNodes : Available[i] \in (1 .. added) \cup {Null}
        /\ Available[MaxNodes] = Null
    BY <1>1, PathDown DEF IInv, ChainInv
  <2>2. /\ \A i \in 0 .. MaxNodes : Earlier[i] \in (1 .. added) \cup {Null}
        /\ Earlier[MaxNodes] = Null
    <3>1. /\ MaxNodes \in Nat /\ added \in 0 .. MaxNodes
          /\ avail # Null => avail \in 1 .. added
      BY <1>1, ContextAssumption DEF IInv, Memory, ContextTypeOK, Links
    <3>2. CASE avail = Null
      <4>1. \A i \in 0 .. MaxNodes : Earlier[i] = Null
        BY <3>2 DEF Earlier
      <4> QED
        BY <3>1, <4>1
    <3>3. ASSUME NEW a \in 1 .. added, a = avail, avail # Null
          PROVE  /\ \A i \in 0 .. MaxNodes : Earlier[i] \in (1 .. added) \cup {Null}
                 /\ Earlier[MaxNodes] = Null
      <4>1. \A i \in 0 .. MaxNodes : Earlier[i] = IF i < a THEN a - i ELSE Null
        BY <3>3 DEF Earlier
      <4>2. \A i \in 0 .. MaxNodes : i < a => a - i \in 1 .. added
        BY <3>1
      <4>3. MaxNodes \in 0 .. MaxNodes /\ ~(MaxNodes < a)
        BY <3>1
      <4> QED
        BY <4>1, <4>2, <4>3
    <3> QED
      BY <3>1, <3>2, <3>3
  <2>3. ASSUME NEW alloc \in BOOLEAN
        PROVE  /\ Path(alloc)[MaxNodes] = Null
               /\ \A i \in 0 .. MaxNodes : Path(alloc)[i] \in (1 .. added) \cup {Null}
    <3>1. Path(alloc) = Available \/ Path(alloc) = Earlier
      BY DEF Path
    <3> QED
      BY <2>1, <2>2, <3>1
  <2> QED
    BY <2>3 DEF SearchEnds
<1> QED
  BY <1>1, ContextInvariance, ChainInvariance, PTL

(* A node that still has room is found again, whatever was closed around   *)
(* it.                                                                     *)
THEOREM RoomKept ==
  ASSUME Shallow
  PROVE  ContextSpec => []NoRoomLost
<1>1. ASSUME IInv, ChainInv PROVE NoRoomLost
  <2> SUFFICES ASSUME mode = "alloc", NEW n \in 1 .. added, freeOffset[n] + Slack <= ChunkSize
               PROVE  \E i \in 0 .. MaxNodes : Path(TRUE)[i] = n
    BY DEF NoRoomLost
  <2>1. \E i \in 0 .. MaxNodes : Available[i] = n
    <3>1. n \in Open
      BY DEF Open
    <3> QED
      BY <1>1, <3>1, PathFinds DEF IInv, ChainInv
  <2> QED
    BY <2>1 DEF Path
<1> QED
  BY <1>1, ContextInvariance, ChainInvariance, PTL
=============================================================================
