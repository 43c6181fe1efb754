---------------------------- MODULE MemoryProofs ----------------------------
(***************************************************************************)
(* Proofs about the free lists and counters of the allocator and of the    *)
(* allocator of a tag, for any requests, and about the bit vector, for any *)
(* size.                                                                   *)
(***************************************************************************)
EXTENDS Allocator, Lookaside, Bitvec, RingArithmetic, SequenceTheorems, FiniteSetTheorems

(* A list holds exactly the members of S, each once. *)
Lists(s, S) ==
  /\ IsInjective(s) /\ {s[i] : i \in DOMAIN s} = S /\ Len(s) = Cardinality(S)

(* The first of a list is taken off. *)
LEMMA ListTail ==
  ASSUME NEW T, IsFiniteSet(T), NEW S \in SUBSET T, NEW s \in Seq(T), Lists(s, S), s # <<>>
  PROVE  Head(s) \in S /\ Tail(s) \in Seq(T) /\ Lists(Tail(s), S \ {Head(s)})
<1>1. IsFiniteSet(S)
  BY FS_Subset
<1>2. /\ Tail(s) \in Seq(T) /\ Len(Tail(s)) = Len(s) - 1 /\ Len(s) \in Nat \ {0}
      /\ DOMAIN s = 1 .. Len(s) /\ DOMAIN Tail(s) = 1 .. Len(Tail(s))
      /\ \A i \in 1 .. Len(Tail(s)) : Tail(s)[i] = s[i + 1]
      /\ Head(s) = s[1]
  OBVIOUS
<1> DEFINE h == Head(s)
           r == Tail(s)
<1>3. h \in S
  BY <1>2 DEF Lists
<1>4. IsInjective(r)
  BY <1>2 DEF Lists, IsInjective
<1>5. {r[i] : i \in DOMAIN r} = S \ {h}
  <2>1. \A i \in DOMAIN r : i + 1 \in DOMAIN s /\ r[i] = s[i + 1] /\ i + 1 # 1 /\ 1 \in DOMAIN s
    BY <1>2
  <2>2. \A i \in DOMAIN r : r[i] \in S \ {h}
    BY <2>1, <1>2 DEF Lists, IsInjective
  <2>3. ASSUME NEW x \in S \ {h} PROVE \E i \in DOMAIN r : r[i] = x
    <3>1. PICK k \in DOMAIN s : s[k] = x /\ k # 1
      BY <1>2 DEF Lists
    <3>2. k - 1 \in DOMAIN r /\ r[k - 1] = s[k]
      BY <1>2, <3>1
    <3> QED
      BY <3>1, <3>2
  <2> QED
    BY <2>2, <2>3
<1>6. Cardinality(S \ {h}) = Cardinality(S) - 1
  BY <1>1, <1>3, FS_RemoveElement
<1> QED
  BY <1>2, <1>3, <1>4, <1>5, <1>6 DEF Lists

(* Something new is put in front of a list. *)
LEMMA ListCons ==
  ASSUME NEW T, IsFiniteSet(T), NEW S \in SUBSET T, NEW s \in Seq(T), Lists(s, S),
         NEW h \in T, h \notin S
  PROVE  <<h>> \o s \in Seq(T) /\ Lists(<<h>> \o s, S \cup {h})
<1>1. IsFiniteSet(S)
  BY FS_Subset
<1> DEFINE r == <<h>> \o s
<1>2. /\ r \in Seq(T) /\ Len(r) = Len(s) + 1 /\ Len(s) \in Nat
      /\ DOMAIN s = 1 .. Len(s) /\ DOMAIN r = 1 .. Len(r)
      /\ \A i \in 1 .. Len(s) : r[i + 1] = s[i]
      /\ r[1] = h
  OBVIOUS
<1> HIDE DEF r
<1>3. \A i \in 1 .. Len(r) : i # 1 => i - 1 \in 1 .. Len(s) /\ r[i] = s[i - 1]
  BY <1>2
<1>4. IsInjective(r)
  BY <1>2, <1>3 DEF Lists, IsInjective
<1>5. {r[i] : i \in DOMAIN r} = S \cup {h}
  <2>1. \A i \in DOMAIN r : r[i] \in S \cup {h}
    BY <1>2, <1>3 DEF Lists
  <2>2. ASSUME NEW x \in S PROVE \E i \in DOMAIN r : r[i] = x
    <3>1. PICK k \in DOMAIN s : s[k] = x
      BY DEF Lists
    <3>2. k + 1 \in DOMAIN r /\ r[k + 1] = s[k]
      BY <1>2, <3>1
    <3> QED
      BY <3>1, <3>2
  <2>3. \E i \in DOMAIN r : r[i] = h
    BY <1>2
  <2> QED
    BY <2>1, <2>2, <2>3
<1>6. Cardinality(S \cup {h}) = Cardinality(S) + 1
  BY <1>1, FS_AddElement
<1> QED
  BY <1>2, <1>4, <1>5, <1>6 DEF Lists, r

-----------------------------------------------------------------------------
(* The allocator of a tag.                                                 *)

(* Where the slots are. *)
SlotsInv ==
  /\ slots \in Seq(AllSlots) /\ held \subseteq AllSlots \cup Heap
  /\ Lists(slots, AllSlots \ held)
  /\ outs = Cardinality(LookasideSlots)

(* Whether they are in use. *)
OffInv ==
  /\ mallocFailed \in BOOLEAN /\ benign \in BOOLEAN /\ turnedOff \in Nat
  /\ FailureDisables

(* The slots are finitely many, and are not blocks of the heap. *)
LEMMA SlotsFinite ==
  /\ IsFiniteSet(AllSlots) /\ IsFiniteSet(LookasideSlots)
  /\ AllSlots \ held \in SUBSET AllSlots /\ Heap \cap AllSlots = {}
<1>1. IsFiniteSet(AllSlots)
  BY LookasideConstants, FS_Interval DEF AllSlots
<1>2. IsFiniteSet(LookasideSlots)
  BY <1>1, FS_Subset DEF LookasideSlots
<1> QED
  BY <1>1, <1>2, LookasideConstants DEF AllSlots

(* Blocks come and go without a change to the slots. *)
LEMMA BlocksOnly ==
  ASSUME SlotsInv, UNCHANGED <<slots, outs>>, held' \subseteq AllSlots \cup Heap,
         held' \cap AllSlots = held \cap AllSlots
  PROVE  SlotsInv'
<1>1. AllSlots' = AllSlots /\ AllSlots \ held' = AllSlots \ held
  BY DEF AllSlots
<1>2. LookasideSlots' = LookasideSlots
  BY DEF LookasideSlots, AllSlots
<1> QED
  BY <1>1, <1>2 DEF SlotsInv

(* A slot is lent out. *)
LEMMA SlotTaken ==
  ASSUME SlotsInv, slots # <<>>,
         held' = held \cup {Head(slots)}, slots' = Tail(slots), outs' = outs + 1
  PROVE  SlotsInv'
<1> DEFINE h == Head(slots)
<1>1. h \in AllSlots \ held /\ slots' \in Seq(AllSlots) /\ Lists(slots', (AllSlots \ held) \ {h})
  BY SlotsFinite, ListTail DEF SlotsInv
<1>2. (AllSlots \ held) \ {h} = AllSlots \ held'
  OBVIOUS
<1>3. LookasideSlots' = LookasideSlots \cup {h} /\ h \notin LookasideSlots
  BY <1>1 DEF LookasideSlots, AllSlots
<1>4. Cardinality(LookasideSlots') = Cardinality(LookasideSlots) + 1
  BY <1>3, SlotsFinite, FS_AddElement
<1> QED
  BY <1>1, <1>2, <1>4 DEF SlotsInv, AllSlots

(* Something the users hold comes back, blocks may take its place. *)
LEMMA GivenBack ==
  ASSUME SlotsInv, NEW p \in held, PutBack(p), NEW B \in SUBSET Heap,
         held' = (held \ {p}) \cup B
  PROVE  SlotsInv'
<1>1. CASE p \notin AllSlots
  BY <1>1, SlotsFinite, BlocksOnly DEF SlotsInv, PutBack
<1>2. CASE p \in AllSlots
  <2>1. slots' = <<p>> \o slots /\ outs' = outs - 1 /\ p \notin AllSlots \ held
    BY <1>2 DEF PutBack
  <2>2. slots' \in Seq(AllSlots) /\ Lists(slots', (AllSlots \ held) \cup {p})
    BY <1>2, <2>1, SlotsFinite, ListCons DEF SlotsInv
  <2>3. (AllSlots \ held) \cup {p} = AllSlots \ held'
    BY <1>2, SlotsFinite
  <2>4. LookasideSlots' = LookasideSlots \ {p} /\ p \in LookasideSlots
    BY <1>2, SlotsFinite DEF LookasideSlots, AllSlots
  <2>5. Cardinality(LookasideSlots') = Cardinality(LookasideSlots) - 1
    BY <2>4, SlotsFinite, FS_RemoveElement
  <2> QED
    BY <1>2, <2>1, <2>2, <2>3, <2>5, SlotsFinite DEF SlotsInv, AllSlots
<1> QED
  BY <1>1, <1>2

(* A failure turns the slots off once. *)
LEMMA FaultDisables ==
  ASSUME OffInv, tagOomFault, UNCHANGED <<benign, turnedOff>>
  PROVE  OffInv'
<1>1. CASE ~mallocFailed /\ ~benign
  <2>1. mallocFailed' = TRUE /\ disable' = disable + 1
    BY <1>1 DEF tagOomFault, OffInv
  <2> QED
    BY <1>1, <2>1 DEF OffInv, FailureDisables
<1>2. CASE ~(~mallocFailed /\ ~benign)
  <2>1. mallocFailed' = mallocFailed /\ disable' = disable
    BY <1>2 DEF tagOomFault, OffInv
  <2> QED
    BY <2>1 DEF OffInv, FailureDisables
<1> QED
  BY <1>1, <1>2

(* Without one they stay as they are. *)
LEMMA UnfailedKeeps ==
  ASSUME OffInv, Unfailed, UNCHANGED <<benign, turnedOff>>
  PROVE  OffInv'
BY DEF OffInv, FailureDisables, Unfailed

(* A block from the heap, or a failure. *)
LEMMA FromHeapKeeps ==
  ASSUME SlotsInv, OffInv, NEW D \in SUBSET held, D \cap AllSlots = {}, FromHeap(D),
         UNCHANGED <<slots, outs, benign, turnedOff>>
  PROVE  SlotsInv' /\ OffInv'
<1>1. CASE \E b \in Heap \ held : held' = (held \ D) \cup {b}
  <2>1. held' \subseteq AllSlots \cup Heap /\ held' \cap AllSlots = held \cap AllSlots
    BY <1>1, SlotsFinite DEF SlotsInv
  <2> QED
    BY <1>1, <2>1, BlocksOnly, UnfailedKeeps, FaultDisables DEF FromHeap
<1>2. CASE tagOomFault /\ UNCHANGED held
  BY <1>2, BlocksOnly, FaultDisables DEF SlotsInv
<1> QED
  BY <1>1, <1>2 DEF FromHeap

(* At first every slot is in the list, and nothing is off. *)
LEMMA TagInitInv == TagInit => SlotsInv /\ OffInv
<1> SUFFICES ASSUME TagInit PROVE SlotsInv /\ OffInv
  OBVIOUS
<1>1. OffInv
  <2>1. ~mallocFailed /\ mallocFailed \in BOOLEAN /\ benign \in BOOLEAN
    BY DEF TagInit
  <2>2. disable = 0 /\ turnedOff = 0
    BY DEF TagInit
  <2>3. (IF mallocFailed THEN 1 ELSE 0) = 0
    BY <2>1, Zenon
  <2>4. FailureDisables
    BY <2>2, <2>3 DEF FailureDisables
  <2> QED
    BY <2>1, <2>2, <2>4 DEF OffInv
<1>2. slots \in Seq(AllSlots) /\ Len(slots) = SlotCount /\ DOMAIN slots = AllSlots
  BY LookasideConstants DEF TagInit, AllSlots
<1>3. AllSlots \ held = AllSlots /\ LookasideSlots = {}
  BY DEF TagInit, LookasideSlots
<1>4. Cardinality(AllSlots) = SlotCount
  BY LookasideConstants, FS_Interval DEF AllSlots
<1>5. Lists(slots, AllSlots)
  BY <1>2, <1>4 DEF TagInit, Lists, IsInjective
<1> QED
  BY <1>1, <1>2, <1>3, <1>5, FS_EmptySet DEF SlotsInv, TagInit

(* One step per operation. *)
LEMMA TagStepInv ==
  ASSUME SlotsInv, OffInv, [TagNext]_tagVars
  PROVE  SlotsInv' /\ OffInv'
<1>1. CASE UNCHANGED tagVars
  BY <1>1, BlocksOnly, UnfailedKeeps DEF tagVars, flagVars, SlotsInv, OffInv, Unfailed
<1>2. ASSUME NEW small \in BOOLEAN, tagallocRawNN(small)
      PROVE  SlotsInv' /\ OffInv'
  <2>1. CASE disable = 0 /\ small /\ slots # <<>>
    BY <1>2, <2>1, SlotTaken, UnfailedKeeps DEF tagallocRawNN
  <2>2. CASE ~(disable = 0 /\ small /\ slots # <<>>) /\ disable > 0 /\ mallocFailed
    BY <1>2, <2>2, BlocksOnly, UnfailedKeeps DEF tagallocRawNN, SlotsInv
  <2>3. CASE ~(disable = 0 /\ small /\ slots # <<>>) /\ ~(disable > 0 /\ mallocFailed)
    <3>1. FromHeap({}) /\ UNCHANGED <<slots, outs, benign, turnedOff>>
      BY <1>2, <2>3 DEF tagallocRawNN
    <3> QED
      BY <3>1, FromHeapKeeps
  <2> QED
    BY <2>1, <2>2, <2>3
<1>3. ASSUME NEW p \in held, NEW small \in BOOLEAN, tagrealloc(p, small)
      PROVE  SlotsInv' /\ OffInv'
  <2> USE <1>3 DEF tagrealloc
  <2>1. CASE p \in AllSlots /\ \E b \in Heap \ held : held' = (held \ {p}) \cup {b} /\ PutBack(p) /\ Unfailed
    <3>1. PICK b \in Heap : held' = (held \ {p}) \cup {b} /\ PutBack(p) /\ Unfailed
      BY <2>1
    <3>2. {b} \in SUBSET Heap
      OBVIOUS
    <3> QED
      BY <3>1, <3>2, GivenBack, UnfailedKeeps
  <2>2. CASE tagOomFault /\ UNCHANGED <<held, slots, outs>>
    BY <2>2, BlocksOnly, FaultDisables DEF SlotsInv
  <2>3. CASE p \notin AllSlots
    <3>1. CASE UNCHANGED held /\ Unfailed
      BY <2>3, <3>1, BlocksOnly, UnfailedKeeps DEF SlotsInv
    <3>2. CASE FromHeap({p})
      <4>1. {p} \in SUBSET held /\ {p} \cap AllSlots = {}
        BY <2>3
      <4> QED
        BY <2>3, <3>2, <4>1, FromHeapKeeps
    <3> QED
      BY <2>3, <3>1, <3>2
  <2> QED
    BY <2>1, <2>2, <2>3
<1>4. ASSUME NEW p \in held, tagfreeNN(p)
      PROVE  SlotsInv' /\ OffInv'
  <2>1. OffInv'
    BY <1>4, UnfailedKeeps DEF tagfreeNN, flagVars, Unfailed
  <2>2. CASE measuring
    BY <1>4, <2>1, <2>2, BlocksOnly DEF tagfreeNN, SlotsInv
  <2>3. CASE ~measuring
    <3>1. PutBack(p) /\ held' = (held \ {p}) \cup {} /\ {} \in SUBSET Heap
      BY <1>4, <2>3 DEF tagfreeNN
    <3> QED
      BY <2>1, <3>1, GivenBack
  <2> QED
    BY <2>2, <2>3
<1>5. ASSUME NEW p \in held, tagreallocOrFree(p)
      PROVE  SlotsInv' /\ OffInv'
  <2>1. OffInv'
    BY <1>5, UnfailedKeeps, FaultDisables DEF tagreallocOrFree
  <2>2. PutBack(p) /\ held' = (held \ {p}) \cup {} /\ {} \in SUBSET Heap
    BY <1>5 DEF tagreallocOrFree
  <2> QED
    BY <2>1, <2>2, GivenBack
<1>6. CASE tagApiExit
  <2>1. OffInv'
    <3>1. /\ mallocFailed /\ ~mallocFailed' /\ mallocFailed' \in BOOLEAN
          /\ benign' = benign
      BY <1>6 DEF tagApiExit, tagOomClear
    <3>2. disable' = disable - 1 /\ turnedOff' = turnedOff
      BY <1>6 DEF tagApiExit, tagOomClear
    <3>3. (IF mallocFailed THEN 1 ELSE 0) = 1 /\ (IF mallocFailed THEN 1 ELSE 0)' = 0
      BY <3>1, Zenon
    <3>4. FailureDisables'
      BY <3>2, <3>3 DEF OffInv, FailureDisables
    <3> QED
      BY <3>1, <3>2, <3>4 DEF OffInv
  <2> QED
    BY <1>6, <2>1, BlocksOnly DEF tagApiExit, SlotsInv
<1>7. CASE Toggle
  <2>1. OffInv'
    BY <1>7 DEF Toggle, OffInv, FailureDisables
  <2> QED
    BY <1>7, <2>1, BlocksOnly DEF Toggle, SlotsInv
<1>8. CASE Use
  <2>1. OffInv'
    BY <1>8 DEF Use, Nest, Unnest, TurnOff, TurnOn, OffInv, FailureDisables
  <2> QED
    BY <1>8, <2>1, BlocksOnly DEF Use, SlotsInv
<1> QED
  BY <1>1, <1>2, <1>3, <1>4, <1>5, <1>6, <1>7, <1>8 DEF TagNext

(* Whatever the users of a tag do, in whatever order, and whichever        *)
(* requests fail: no slot of its lookaside is lost or lent twice, and the  *)
(* count of the slots lent out is right.                                   *)
THEOREM LookasideConserved == TagSpec => []SlotsExact
<1>1. SlotsInv => SlotsExact
  BY DEF SlotsInv, SlotsExact, Lists
<1> QED
  BY <1>1, TagInitInv, TagStepInv, PTL DEF TagSpec

(* The slots are off once for the failure and once for each user that has  *)
(* turned them off: the assertions of tagallocRawNN and tagOomClear hold.  *)
THEOREM FailureIsOff == TagSpec => []FailureDisables
<1>1. OffInv => FailureDisables
  BY DEF OffInv
<1> QED
  BY <1>1, TagInitInv, TagStepInv, PTL DEF TagSpec

-----------------------------------------------------------------------------
(* The scratch buffers.                                                    *)

(* The list of free buffers holds each buffer that is not lent, once.      *)
ScratchInv ==
  /\ free \in Seq(Slots) /\ lent \subseteq Slots
  /\ Lists(free, Slots \ lent)

(* The operations on blocks leave the scratch buffers alone. *)
LEMMA OtherKeepsScratch ==
  ASSUME ScratchInv, UNCHANGED <<free, lent>>
  PROVE  ScratchInv'
BY DEF ScratchInv, Slots

(* No buffer is lent at first.                                             *)
LEMMA ScratchInitInv == AllocInit => ScratchInv
<1> SUFFICES ASSUME AllocInit PROVE ScratchInv
  OBVIOUS
<1>1. free \in Seq(Slots) /\ Len(free) = Scratch /\ DOMAIN free = Slots
  BY AllocSizes DEF AllocInit, Slots
<1>2. Cardinality(Slots) = Scratch /\ Slots \ lent = Slots
  BY AllocSizes, FS_Interval DEF Slots, AllocInit
<1>3. Lists(free, Slots)
  BY <1>1, <1>2 DEF AllocInit, Lists, IsInjective
<1> QED
  BY <1>1, <1>2, <1>3 DEF ScratchInv, AllocInit

(* A buffer is taken from the list.                                        *)
LEMMA ScratchTaken ==
  ASSUME ScratchInv, NEW t, NEW n, ScratchFromList(t, n)
  PROVE  ScratchInv' /\ Head(free) \in Slots \ lent
<1> DEFINE h == Head(free)
<1>1. IsFiniteSet(Slots) /\ Slots \ lent \in SUBSET Slots
  BY AllocSizes, FS_Interval DEF Slots
<1>2. h \in Slots \ lent /\ free' \in Seq(Slots) /\ Lists(free', (Slots \ lent) \ {h})
  BY <1>1, ListTail DEF ScratchInv, ScratchFromList
<1>3. (Slots \ lent) \ {h} = Slots \ lent' /\ lent' \subseteq Slots
  BY <1>2 DEF ScratchFromList, ScratchInv
<1> QED
  BY <1>2, <1>3 DEF ScratchInv, Slots

(* A buffer is put back on the list.                                       *)
LEMMA ScratchGiven ==
  ASSUME ScratchInv, NEW t, NEW s \in Slots, ScratchFreeSlot(t, s)
  PROVE  ScratchInv'
<1>1. IsFiniteSet(Slots) /\ Slots \ lent \in SUBSET Slots
  BY AllocSizes, FS_Interval DEF Slots
<1>2. s \in lent /\ s \notin Slots \ lent
  BY DEF ScratchFreeSlot
<1>3. free' \in Seq(Slots) /\ Lists(free', (Slots \ lent) \cup {s})
  BY <1>1, <1>2, ListCons DEF ScratchInv, ScratchFreeSlot
<1>4. (Slots \ lent) \cup {s} = Slots \ lent' /\ lent' \subseteq Slots
  BY <1>2 DEF ScratchFreeSlot, ScratchInv
<1> QED
  BY <1>3, <1>4 DEF ScratchInv, Slots

(* Every step keeps each buffer either listed or lent.                     *)
LEMMA ScratchStepInv ==
  ASSUME ScratchInv, [AllocNext]_allocVars
  PROVE  ScratchInv'
<1>1. CASE UNCHANGED allocVars
  BY <1>1, OtherKeepsScratch DEF allocVars
<1>2. ASSUME NEW t \in Threads, NEW n \in Sizes,
             alloc(t, n) \/ ScratchFromHeap(t, n) \/ \E b \in DOMAIN heap : allocRealloc(t, b, n)
      PROVE  ScratchInv'
  BY <1>2, OtherKeepsScratch DEF alloc, ScratchFromHeap, allocRealloc
<1>3. ASSUME NEW t \in Threads, NEW n \in Sizes, ScratchFromList(t, n)
      PROVE  ScratchInv'
  BY <1>3, ScratchTaken
<1>4. ASSUME NEW t \in Threads, NEW b \in DOMAIN heap, mfree(t, b) \/ ScratchFreeBlock(t, b)
      PROVE  ScratchInv'
  BY <1>4, OtherKeepsScratch DEF mfree, ScratchFreeBlock
<1>5. ASSUME NEW t \in Threads,
             \/ AllocResumed(t) \/ ReallocResumed(t) \/ ReallocRetried(t)
             \/ ScratchResumed(t) \/ ScratchOverflow(t)
             \/ \E n \in Limits : alloc_softheaplimit64(t, n)
      PROVE  ScratchInv'
  BY <1>5, OtherKeepsScratch
  DEF AllocResumed, ReallocResumed, ReallocRetried, ScratchResumed, ScratchOverflow,
      alloc_softheaplimit64
<1>6. ASSUME NEW t \in Threads, NEW s \in Slots, ScratchFreeSlot(t, s)
      PROVE  ScratchInv'
  BY <1>6, ScratchGiven
<1>7. ASSUME NEW op \in Ops, status64(op)
      PROVE  ScratchInv'
  BY <1>7, OtherKeepsScratch DEF status64
<1> QED
  BY <1>1, <1>2, <1>3, <1>4, <1>5, <1>6, <1>7 DEF AllocNext

(* However the threads interleave, with the mutex given up in the middle:  *)
(* no scratch buffer is lost, and none is lent out twice.                  *)
THEOREM ScratchConserved == AllocSpec => []ScratchExact
<1>1. ScratchInv => ScratchExact
  BY DEF ScratchInv, ScratchExact, Lists
<1> QED
  BY <1>1, ScratchInitInv, ScratchStepInv, PTL DEF AllocSpec

-----------------------------------------------------------------------------
(* Sums over finite sets.                                                  *)

(* What holds of a set when it holds of every set with one member less     *)
(* holds of a finite set: P is the set of the subsets of which it holds.   *)
LEMMA SubsetInduction ==
  ASSUME NEW S, IsFiniteSet(S), NEW P,
         \A T \in SUBSET S : (\A x \in T : T \ {x} \in P) => T \in P
  PROVE  SUBSET S \subseteq P
<1> DEFINE Bad == (SUBSET S) \ P
<1>1. IsWellFoundedOn(StrictSubsetOrdering(S), SUBSET S)
  BY FS_StrictSubsetOrderingWellFounded, FS_FiniteSubsetsOfFinite
<1>2. SUFFICES ASSUME Bad # {} PROVE FALSE
  OBVIOUS
<1> HIDE DEF Bad
<1>3. Bad \subseteq SUBSET S
  BY DEF Bad
<1>4. PICK T : T \in Bad /\ \A U \in Bad : ~(<<U, T>> \in StrictSubsetOrdering(S))
  BY <1>1, <1>2, <1>3, WFMin
<1>5. ASSUME NEW x \in T PROVE T \ {x} \in P
  <2>1. T \ {x} \in SUBSET S /\ T \in SUBSET S /\ T \ {x} # T
    BY <1>3, <1>4
  <2>2. <<T \ {x}, T>> \in StrictSubsetOrdering(S)
    BY <2>1 DEF StrictSubsetOrdering
  <2> QED
    BY <1>4, <2>1, <2>2 DEF Bad
<1>6. T \in SUBSET S /\ T \notin P
  BY <1>4 DEF Bad
<1> QED
  BY <1>5, <1>6

Pick(s) == CHOOSE x \in s : TRUE
SumOf(f, S) == MapThenSumSet(LAMBDA x : f[x], S)
IsSum(g, f, D) == g = [s \in D |-> IF s = {} THEN 0 ELSE f[Pick(s)] + g[s \ {Pick(s)}]]

(* The recursive function a sum over a finite set is defined by exists.    *)
LEMMA SumExists ==
  ASSUME NEW S, IsFiniteSet(S), NEW f
  PROVE  \E g : IsSum(g, f, SUBSET S)
<1> DEFINE Small(n) == {s \in SUBSET S : Cardinality(s) <= n}
           P == {T \in SUBSET S : \E g : IsSum(g, f, Small(Cardinality(T)))}
<1>1. \A T \in SUBSET S : IsFiniteSet(T) /\ Cardinality(T) \in Nat /\ Cardinality(T) <= Cardinality(S)
  BY FS_Subset, FS_CardinalityType
<1>2. ASSUME NEW T \in SUBSET S, \A x \in T : T \ {x} \in P
      PROVE  T \in P
  <2>1. CASE T = {}
    <3> DEFINE g == [s \in {{}} |-> 0]
    <3>1. Small(Cardinality(T)) = {{}}
      BY <2>1, <1>1, FS_EmptySet
    <3>2. IsSum(g, f, {{}})
      BY DEF IsSum
    <3> QED
      BY <3>1, <3>2
  <2>2. CASE T # {}
    <3>1. PICK y \in T : T \ {y} \in P
      BY <1>2, <2>2
    <3> DEFINE n == Cardinality(T \ {y})
    <3>2. n \in Nat /\ Cardinality(T) = n + 1
      BY <1>1, FS_RemoveElement
    <3>3. PICK h : IsSum(h, f, Small(n))
      BY <3>1
    <3> DEFINE g == [s \in Small(n + 1) |-> IF s = {} THEN 0 ELSE f[Pick(s)] + h[s \ {Pick(s)}]]
    <3> HIDE DEF n
    <3>4. \A s \in Small(n) : s \in Small(n + 1) /\ g[s] = h[s]
      <4>1. Small(n) \subseteq Small(n + 1)
        BY <1>1, <3>2
      <4> HIDE DEF Small
      <4>2. ASSUME NEW s \in Small(n)
            PROVE  h[s] = IF s = {} THEN 0 ELSE f[Pick(s)] + h[s \ {Pick(s)}]
        BY <3>3 DEF IsSum
      <4> QED
        BY <4>1, <4>2
    <3>5. ASSUME NEW s \in Small(n + 1), s # {} PROVE s \ {Pick(s)} \in Small(n)
      <4>1. Pick(s) \in s
        BY <3>5 DEF Pick
      <4> QED
        BY <1>1, <3>2, <4>1, FS_RemoveElement
    <3>6. IsSum(g, f, Small(n + 1))
      <4>1. \A s \in Small(n + 1) :
              g[s] = IF s = {} THEN 0 ELSE f[Pick(s)] + g[s \ {Pick(s)}]
        BY <3>4, <3>5
      <4> QED
        BY <4>1 DEF IsSum
    <3> QED
      BY <3>2, <3>6
  <2> QED
    BY <2>1, <2>2
<1>3. S \in P
  BY <1>2, SubsetInduction
<1>4. Small(Cardinality(S)) = SUBSET S
  BY <1>1
<1> QED
  BY <1>3, <1>4

(* The sum over a finite set is a value of that function.                  *)
LEMMA SumUnfold ==
  ASSUME NEW S, IsFiniteSet(S), NEW f
  PROVE  \E g : IsSum(g, f, SUBSET S) /\ SumOf(f, S) = g[S]
<1>1. \E g : IsSum(g, f, SUBSET S)
  BY SumExists
<1> QED
  BY <1>1 DEF IsSum, SumOf, MapThenSumSet, MapThenFoldSet, Pick

(* The sum does not depend on the order: any member can be split off. *)
LEMMA SumEmpty ==
  ASSUME NEW f
  PROVE  SumOf(f, {}) = 0
<1>1. PICK g : IsSum(g, f, SUBSET {}) /\ SumOf(f, {}) = g[{}]
  BY SumUnfold, FS_EmptySet
<1> QED
  BY <1>1 DEF IsSum

(* Two such functions agree on the sets of which both give the sum. *)
LEMMA SumUnique ==
  ASSUME NEW S, IsFiniteSet(S), NEW T \in SUBSET S, NEW f, NEW g, NEW h,
         IsSum(g, f, SUBSET S), IsSum(h, f, SUBSET T)
  PROVE  g[T] = h[T]
<1> DEFINE P == {U \in SUBSET T : g[U] = h[U]}
<1>1. ASSUME NEW U \in SUBSET T, \A x \in U : U \ {x} \in P
      PROVE  U \in P
  <2>1. /\ g[U] = IF U = {} THEN 0 ELSE f[Pick(U)] + g[U \ {Pick(U)}]
        /\ h[U] = IF U = {} THEN 0 ELSE f[Pick(U)] + h[U \ {Pick(U)}]
    BY DEF IsSum
  <2>2. U # {} => Pick(U) \in U
    BY DEF Pick
  <2> QED
    BY <1>1, <2>1, <2>2
<1>2. IsFiniteSet(T)
  BY FS_Subset
<1> HIDE DEF P
<1>3. SUBSET T \subseteq P
  BY <1>1, <1>2, SubsetInduction
<1> QED
  BY <1>3 DEF P

(* A sum is that of all elements but the one that is picked first, and     *)
(* that one.                                                               *)
LEMMA SumPick ==
  ASSUME NEW S, IsFiniteSet(S), S # {}, NEW f
  PROVE  Pick(S) \in S /\ SumOf(f, S) = f[Pick(S)] + SumOf(f, S \ {Pick(S)})
<1> DEFINE T == S \ {Pick(S)}
<1>1. Pick(S) \in S
  BY DEF Pick
<1>2. IsFiniteSet(T) /\ T \in SUBSET S
  BY FS_Subset
<1>3. PICK g : IsSum(g, f, SUBSET S) /\ SumOf(f, S) = g[S]
  BY SumUnfold
<1>4. PICK h : IsSum(h, f, SUBSET T) /\ SumOf(f, T) = h[T]
  BY <1>2, SumUnfold
<1>5. g[T] = h[T]
  BY <1>2, <1>3, <1>4, SumUnique
<1>6. g[S] = f[Pick(S)] + g[T]
  BY <1>3 DEF IsSum
<1> QED
  BY <1>1, <1>3, <1>4, <1>5, <1>6

(* The sum of natural numbers is one. *)
LEMMA SumNat ==
  ASSUME NEW S, IsFiniteSet(S), NEW f, \A x \in S : f[x] \in Nat
  PROVE  SumOf(f, S) \in Nat
<1> DEFINE P == {T \in SUBSET S : SumOf(f, T) \in Nat}
<1>1. ASSUME NEW T \in SUBSET S, \A x \in T : T \ {x} \in P
      PROVE  T \in P
  <2>1. CASE T = {}
    BY <2>1, SumEmpty
  <2>2. CASE T # {}
    <3>1. Pick(T) \in T /\ SumOf(f, T) = f[Pick(T)] + SumOf(f, T \ {Pick(T)})
      BY <2>2, FS_Subset, SumPick
    <3>2. SumOf(f, T \ {Pick(T)}) \in Nat /\ f[Pick(T)] \in Nat
      BY <1>1, <3>1
    <3> QED
      BY <3>1, <3>2
  <2> QED
    BY <2>1, <2>2
<1> HIDE DEF P
<1>2. SUBSET S \subseteq P
  BY <1>1, SubsetInduction
<1> QED
  BY <1>2 DEF P

(* The order does not matter: any member can be the first. *)
LEMMA SumWithout ==
  ASSUME NEW S, IsFiniteSet(S), NEW f, \A x \in S : f[x] \in Nat
  PROVE  \A x \in S : SumOf(f, S) = f[x] + SumOf(f, S \ {x})
<1> DEFINE P == {T \in SUBSET S : \A x \in T : SumOf(f, T) = f[x] + SumOf(f, T \ {x})}
<1>1. ASSUME NEW T \in SUBSET S, \A x \in T : T \ {x} \in P, NEW x \in T
      PROVE  SumOf(f, T) = f[x] + SumOf(f, T \ {x})
  <2> DEFINE c == Pick(T)
             U == (T \ {x}) \ {c}
  <2>1. IsFiniteSet(T) /\ c \in T /\ SumOf(f, T) = f[c] + SumOf(f, T \ {c})
    BY FS_Subset, SumPick
  <2>2. CASE x = c
    BY <2>1, <2>2
  <2>3. CASE x # c
    <3>1. (T \ {c}) \ {x} = U
      OBVIOUS
    <3>2. x \in T \ {c} /\ c \in T \ {x} /\ T \ {c} \in P /\ T \ {x} \in P
      BY <1>1, <2>1, <2>3
    <3>3. SumOf(f, T \ {c}) = f[x] + SumOf(f, U)
      BY <3>1, <3>2
    <3>4. SumOf(f, T \ {x}) = f[c] + SumOf(f, U)
      BY <3>2
    <3>5. IsFiniteSet(U) /\ \A y \in U : f[y] \in Nat
      BY FS_Subset
    <3>6. SumOf(f, U) \in Nat /\ f[x] \in Nat /\ f[c] \in Nat
      BY <2>1, <3>5, SumNat
    <3> HIDE DEF c, U
    <3> QED
      BY <2>1, <3>3, <3>4, <3>6
  <2> QED
    BY <2>2, <2>3
<1>2. \A T \in SUBSET S : (\A x \in T : T \ {x} \in P) => T \in P
  BY <1>1
<1> HIDE DEF P
<1>3. SUBSET S \subseteq P
  BY <1>2, SubsetInduction
<1> QED
  BY <1>3 DEF P

(* It depends on the values of the members alone. *)
LEMMA SumSame ==
  ASSUME NEW S, IsFiniteSet(S), NEW f, NEW h, \A x \in S : f[x] = h[x]
  PROVE  SumOf(f, S) = SumOf(h, S)
<1> DEFINE P == {T \in SUBSET S : SumOf(f, T) = SumOf(h, T)}
<1>1. ASSUME NEW T \in SUBSET S, \A x \in T : T \ {x} \in P
      PROVE  T \in P
  <2>1. CASE T = {}
    BY <2>1, SumEmpty
  <2>2. CASE T # {}
    <3>1. /\ Pick(T) \in T /\ SumOf(f, T) = f[Pick(T)] + SumOf(f, T \ {Pick(T)})
          /\ SumOf(h, T) = h[Pick(T)] + SumOf(h, T \ {Pick(T)})
      BY <2>2, FS_Subset, SumPick
    <3> QED
      BY <1>1, <3>1
  <2> QED
    BY <2>1, <2>2
<1> HIDE DEF P
<1>2. SUBSET S \subseteq P
  BY <1>1, SubsetInduction
<1> QED
  BY <1>2 DEF P

(* It is bounded by the number of the members and the largest of them. *)
LEMMA SumBound ==
  ASSUME NEW S, IsFiniteSet(S), NEW m \in Nat, NEW f, \A x \in S : f[x] \in 0 .. m
  PROVE  SumOf(f, S) <= Cardinality(S) * m
<1> DEFINE P == {T \in SUBSET S : SumOf(f, T) <= Cardinality(T) * m}
<1>1. ASSUME NEW T \in SUBSET S, \A x \in T : T \ {x} \in P
      PROVE  T \in P
  <2>1. CASE T = {}
    BY <2>1, SumEmpty, FS_EmptySet
  <2>2. CASE T # {}
    <3> DEFINE c == Pick(T)
               U == T \ {c}
    <3>1. IsFiniteSet(T) /\ c \in T /\ SumOf(f, T) = f[c] + SumOf(f, U)
      BY <2>2, FS_Subset, SumPick
    <3>2. IsFiniteSet(U) /\ Cardinality(U) = Cardinality(T) - 1 /\ \A y \in U : f[y] \in Nat
      BY <3>1, FS_RemoveElement
    <3>3. SumOf(f, U) \in Nat /\ f[c] \in 0 .. m /\ Cardinality(T) \in Nat /\ Cardinality(U) \in Nat
      BY <3>1, <3>2, SumNat, FS_CardinalityType
    <3>4. SumOf(f, U) <= Cardinality(U) * m
      BY <1>1, <3>1
    <3> HIDE DEF c, U
    <3>5. Cardinality(T) * m = Cardinality(U) * m + m
      BY <3>2, <3>3
    <3>6. PICK k \in Nat : k = Cardinality(U) * m
      BY <3>3
    <3> QED
      BY <3>1, <3>3, <3>4, <3>5, <3>6
  <2> QED
    BY <2>1, <2>2
<1> HIDE DEF P
<1>2. SUBSET S \subseteq P
  BY <1>1, SubsetInduction
<1> QED
  BY <1>2 DEF P

-----------------------------------------------------------------------------
(* The counters.                                                           *)

(* The sizes blocks really have.                                           *)
Rounded == {Roundup(n) : n \in Sizes}

(* The counters can hold the sizes of all blocks together: the code counts *)
(* bytes and blocks of one address space in 64 bits.                       *)
CountersFit ==
  /\ IsFiniteSet(Blocks) /\ Cardinality(Blocks) < LongWord /\ Scratch < LongWord
  /\ \E m \in Nat : (\A s \in Rounded : s <= m) /\ Cardinality(Blocks) * m < LongWord

(* Blocks in use have rounded sizes.                                       *)
HeapInv ==
  /\ DOMAIN heap \subseteq Blocks /\ forScratch \subseteq DOMAIN heap
  /\ \A b \in DOMAIN heap : heap[b] \in Rounded

(* What a call that is not finished keeps of a block is still true, and no *)
(* two calls count one block.                                              *)
JobsInv ==
  /\ DOMAIN job = Threads
  /\ \A t \in Threads :
       /\ job[t].is \in {"alloc", "scratch", "realloc", "retry"} => job[t].size \in Rounded
       /\ job[t].is \in {"realloc", "retry"} => job[t].block \in DOMAIN heap \ forScratch
       /\ job[t].is = "overflow" => job[t].block \in forScratch
  /\ \A t, u \in Threads : job[t].is = "overflow" /\ job[u].is = "overflow" /\ t # u
                             => job[t].block # job[u].block

(* Counters that no high-water mark is below.                              *)
Counters == {st \in [now : [Ops -> Nat], max : [Ops -> Nat]] : \A op \in Ops : st.max[op] >= st.now[op]}

(* Each counter tells what it counts, but for a block its caller has yet   *)
(* to count.                                                               *)
CountInv ==
  /\ stat \in Counters
  /\ stat.now["used"] = SumOf(heap, DOMAIN heap)
  /\ stat.now["count"] = Cardinality(DOMAIN heap)
  /\ stat.now["scratch"] = Cardinality(lent)
  /\ stat.now["overflow"] = SumOf(heap, forScratch \ Uncounted)

(* Rounded sizes are numbers.                                              *)
LEMMA RoundedNat == Rounded \subseteq Nat
<1>1. ASSUME NEW n \in Sizes PROVE Roundup(n) \in Nat
  <2>1. n \in Nat /\ Unit \in Nat \ {0}
    BY AllocSizes
  <2>2. PICK k \in Int : k = n + Unit - 1
    BY <2>1
  <2>3. k \in Nat
    BY <2>1, <2>2
  <2>4. PICK d \in Int : d = k \div Unit
    BY <2>1, <2>2
  <2>5. d \in Nat
    BY <2>1, <2>3, <2>4
  <2>6. d * Unit \in Nat
    BY <2>1, <2>5
  <2> QED
    BY <2>2, <2>4, <2>6 DEF Roundup
<1> QED
  BY <1>1 DEF Rounded

(* A counter that does not wrap goes up.                                   *)
LEMMA CounterUp ==
  ASSUME NEW st \in Counters, NEW op \in Ops, NEW n \in Nat, st.now[op] + n < LongWord
  PROVE  /\ Inc(st, op, n) \in Counters
         /\ Inc(st, op, n).now = [st.now EXCEPT ![op] = st.now[op] + n]
<1>1. st.now \in [Ops -> Nat] /\ st.max \in [Ops -> Nat] /\ \A q \in Ops : st.max[q] >= st.now[q]
  BY DEF Counters
<1>2. PICK k \in Nat : k = st.now[op] + n
  BY <1>1
<1>3. (st.now[op] + n) % LongWord = k
  <2>1. k % LongWord = k
    BY <1>2, AllocSizes
  <2> QED
    BY <1>2, <2>1
<1> DEFINE m == IF k > st.max[op] THEN k ELSE st.max[op]
           r == [now |-> [st.now EXCEPT ![op] = k], max |-> [st.max EXCEPT ![op] = m]]
<1>4. Inc(st, op, n) = r
  <2> DEFINE w == (st.now[op] + n) % LongWord
             x == IF w > st.max[op] THEN w ELSE st.max[op]
  <2>1. Inc(st, op, n) = [st EXCEPT !.now[op] = w, !.max[op] = x]
    BY DEF Inc
  <2>2. w = k /\ x = m
    BY <1>3
  <2> HIDE DEF w, x, m
  <2>3. [st EXCEPT !.now[op] = k, !.max[op] = m]
          = [[st EXCEPT !.now[op] = k] EXCEPT !.max[op] = m]
    OBVIOUS
  <2>4. [st EXCEPT !.now[op] = k] = [now |-> [st.now EXCEPT ![op] = k], max |-> st.max]
    BY <1>1 DEF Counters
  <2>5. [[now |-> [st.now EXCEPT ![op] = k], max |-> st.max] EXCEPT !.max[op] = m] = r
    BY <1>1 DEF Counters
  <2> QED
    BY <2>1, <2>2, <2>3, <2>4, <2>5
<1>5. m \in Nat /\ m >= k
  BY <1>1
<1> HIDE DEF m
<1>6. r \in [now : [Ops -> Nat], max : [Ops -> Nat]]
  BY <1>1, <1>5
<1>7. \A q \in Ops : r.max[q] >= r.now[q]
  BY <1>1, <1>5
<1> QED
  BY <1>2, <1>4, <1>6, <1>7 DEF Counters

(* A counter goes down by what it counts.                                  *)
LEMMA CounterDown ==
  ASSUME NEW st \in Counters, NEW op \in Ops, NEW n \in 0 .. st.now[op], st.now[op] < LongWord
  PROVE  /\ Dec(st, op, n) \in Counters
         /\ Dec(st, op, n).now = [st.now EXCEPT ![op] = st.now[op] - n]
<1>1. st.now \in [Ops -> Nat] /\ st.max \in [Ops -> Nat] /\ \A q \in Ops : st.max[q] >= st.now[q]
  BY DEF Counters
<1>2. PICK k \in Nat : k = st.now[op] - n
  BY <1>1
<1>3. k % LongWord = k
  BY <1>1, <1>2, AllocSizes
<1> DEFINE r == [now |-> [st.now EXCEPT ![op] = k], max |-> st.max]
<1>4. Dec(st, op, n) = r
  BY <1>1, <1>2, <1>3 DEF Dec, Counters
<1>6. r \in [now : [Ops -> Nat], max : [Ops -> Nat]]
  BY <1>1
<1>7. \A q \in Ops : r.max[q] >= r.now[q]
  BY <1>1, <1>2
<1> QED
  BY <1>2, <1>4, <1>6, <1>7 DEF Counters

(* No sum of sizes wraps a counter.                                        *)
LEMMA SumsFit ==
  ASSUME CountersFit, NEW D \in SUBSET Blocks, NEW f, \A b \in D : f[b] \in Rounded
  PROVE  /\ IsFiniteSet(D) /\ Cardinality(D) \in 0 .. LongWord - 1
         /\ SumOf(f, D) \in 0 .. LongWord - 1
         /\ \A b \in D : f[b] \in Nat
<1>1. IsFiniteSet(D) /\ Cardinality(D) <= Cardinality(Blocks) /\ Cardinality(D) \in Nat
  BY FS_Subset, FS_CardinalityType DEF CountersFit
<1>2. Cardinality(Blocks) \in Nat /\ Cardinality(Blocks) < LongWord
  BY FS_CardinalityType DEF CountersFit
<1>3. PICK m \in Nat : (\A s \in Rounded : s <= m) /\ Cardinality(Blocks) * m < LongWord
  BY DEF CountersFit
<1>4. ASSUME NEW b \in D PROVE f[b] \in 0 .. m /\ f[b] \in Nat
  <2>1. f[b] \in Rounded /\ f[b] \in Nat /\ f[b] <= m
    BY <1>3, RoundedNat
  <2> QED
    BY <2>1
<1>5. SumOf(f, D) <= Cardinality(D) * m /\ SumOf(f, D) \in Nat
  BY <1>1, <1>4, SumBound, SumNat
<1>6. PICK c \in Nat : c = Cardinality(D)
  BY <1>1
<1>7. PICK e \in Nat : e = Cardinality(Blocks)
  BY <1>2
<1>8. c * m <= e * m
  BY <1>1, <1>6, <1>7
<1>9. PICK x \in Nat : x = c * m
  BY <1>6
<1>10. PICK y \in Nat : y = e * m
  BY <1>7
<1> QED
  BY <1>1, <1>2, <1>3, <1>4, <1>5, <1>6, <1>7, <1>8, <1>9, <1>10, AllocSizes

(* The inductive invariant of the counters.                                *)
CountersInv == ScratchInv /\ HeapInv /\ JobsInv /\ CountInv

(* What the invariant says of the sums of a state. *)
LEMMA CountersInRange ==
  ASSUME CountersFit, HeapInv, ScratchInv
  PROVE  /\ IsFiniteSet(DOMAIN heap) /\ IsFiniteSet(lent)
         /\ \A B \in SUBSET DOMAIN heap :
              /\ IsFiniteSet(B) /\ SumOf(heap, B) \in 0 .. LongWord - 1
              /\ \A b \in B : SumOf(heap, B) = heap[b] + SumOf(heap, B \ {b})
         /\ Cardinality(DOMAIN heap) \in 0 .. LongWord - 1
         /\ Cardinality(lent) \in 0 .. LongWord - 1
         /\ \A b \in DOMAIN heap : heap[b] \in Nat
<1>1. ASSUME NEW B \in SUBSET DOMAIN heap
      PROVE  /\ IsFiniteSet(B) /\ Cardinality(B) \in 0 .. LongWord - 1
             /\ SumOf(heap, B) \in 0 .. LongWord - 1 /\ \A b \in B : heap[b] \in Nat
  <2>1. B \in SUBSET Blocks /\ \A b \in B : heap[b] \in Rounded
    BY DEF HeapInv
  <2> QED
    BY <2>1, SumsFit
<1>2. IsFiniteSet(lent) /\ Cardinality(lent) \in 0 .. LongWord - 1
  <2>1. IsFiniteSet(Slots) /\ Cardinality(Slots) = Scratch
    BY AllocSizes, FS_Interval DEF Slots
  <2> HIDE DEF Slots
  <2>3. lent \in SUBSET Slots
    BY DEF ScratchInv
  <2>2. IsFiniteSet(lent) /\ Cardinality(lent) <= Scratch /\ Cardinality(lent) \in Nat
    BY <2>1, <2>3, FS_Subset, FS_CardinalityType
  <2> QED
    BY <2>2, AllocSizes DEF CountersFit
<1>3. ASSUME NEW B \in SUBSET DOMAIN heap, NEW b \in B
      PROVE  SumOf(heap, B) = heap[b] + SumOf(heap, B \ {b})
  BY <1>1, SumWithout
<1> QED
  BY <1>1, <1>2, <1>3

(* A thread that goes on with something else than a block taken for a      *)
(* scratch request, and did before.                                        *)
LEMMA JobChanged ==
  ASSUME JobsInv, NEW t \in Threads, NEW j,
         job' = [job EXCEPT ![t] = j], job[t].is # "overflow", j.is # "overflow"
  PROVE  Uncounted' = Uncounted
<1>1. \A u \in Threads : job'[u] = IF u = t THEN j ELSE job[u]
  BY DEF JobsInv
<1>2. \A u \in Threads : job'[u].is = "overflow" <=> job[u].is = "overflow"
  BY <1>1
<1>3. \A u \in Threads : job'[u].is = "overflow" => job'[u] = job[u]
  BY <1>1
<1> QED
  BY <1>2, <1>3 DEF Uncounted

(* The blocks that threads are in the middle of are still there. *)
BusyKept ==
  /\ (DOMAIN heap \ forScratch) \cap Busy \subseteq (DOMAIN heap)' \ forScratch'
  /\ forScratch \cap Busy \subseteq forScratch'

(* A step without an effect on the calls that are not finished.            *)
LEMMA JobsSame ==
  ASSUME JobsInv, job' = job, BusyKept
  PROVE  JobsInv'
<1>1. ASSUME NEW t \in Threads, job[t].is \in {"overflow", "realloc", "retry"}
      PROVE  job[t].block \in Busy
  BY <1>1 DEF Busy
<1> QED
  BY <1>1 DEF JobsInv, BusyKept

(* A step of one of the calls.                                             *)
LEMMA JobsStep ==
  ASSUME JobsInv, BusyKept, NEW t \in Threads, NEW j, job' = [job EXCEPT ![t] = j],
         j.is \in {"alloc", "scratch", "realloc", "retry"} => j.size \in Rounded,
         j.is \in {"realloc", "retry"} => j.block \in (DOMAIN heap)' \ forScratch',
         j.is = "overflow" => /\ j.block \in forScratch'
                              /\ \A u \in Threads : job[u].is = "overflow" => job[u].block # j.block
  PROVE  JobsInv'
<1>1. ASSUME NEW u \in Threads, job[u].is \in {"overflow", "realloc", "retry"}
      PROVE  job[u].block \in Busy
  BY <1>1 DEF Busy
<1>2. DOMAIN job' = Threads /\ \A u \in Threads : job'[u] = IF u = t THEN j ELSE job[u]
  BY DEF JobsInv
<1>3. ASSUME NEW u \in Threads
      PROVE /\ job'[u].is \in {"alloc", "scratch", "realloc", "retry"} => job'[u].size \in Rounded
            /\ job'[u].is \in {"realloc", "retry"} => job'[u].block \in (DOMAIN heap \ forScratch)'
            /\ job'[u].is = "overflow" => job'[u].block \in forScratch'
  <2>1. CASE u = t
    BY <1>2, <2>1
  <2>2. CASE u # t
    BY <1>1, <1>2, <2>2 DEF JobsInv, BusyKept
  <2> QED
    BY <2>1, <2>2
<1>4. ASSUME NEW u \in Threads, NEW v \in Threads, u # v,
             job'[u].is = "overflow", job'[v].is = "overflow"
      PROVE  job'[u].block # job'[v].block
  BY <1>2, <1>4 DEF JobsInv
<1> QED
  BY <1>2, <1>3, <1>4 DEF JobsInv, Rounded, Roundup

(* A call that is finished keeps nothing.                                  *)
LEMMA DoneIs == Done.is = "none"
BY DEF Done

(* A block more, counted. *)
LEMMA GrantCounts ==
  ASSUME CountersFit, CountersInv, NEW t \in Threads, NEW s \in Rounded, NEW for,
         Grant(t, s, for), job[t].is # "overflow", UNCHANGED <<free, lent>>
  PROVE  CountersInv'
<1>0. ScratchInv'
  BY OtherKeepsScratch DEF CountersInv
<1>1. CASE UNCHANGED <<heap, forScratch, stat>> /\ Finish(t)
  <2>1. Uncounted' = Uncounted
    BY <1>1, JobChanged, DoneIs DEF CountersInv, Finish
  <2>2. BusyKept
    BY <1>1 DEF BusyKept
  <2>3. JobsInv'
    BY <1>1, <2>2, JobsStep, DoneIs DEF CountersInv, Finish
  <2> QED
    BY <1>0, <1>1, <2>1, <2>3 DEF CountersInv, HeapInv, CountInv, Rounded, Roundup, Counters, Ops
<1>2. CASE ~(UNCHANGED <<heap, forScratch, stat>> /\ Finish(t))
  <2>1. PICK b \in Blocks \ DOMAIN heap :
          /\ Take(b, s)
          /\ IF for = "scratch"
             THEN forScratch' = forScratch \cup {b} /\ job' = [job EXCEPT ![t] = [is |-> "overflow", block |-> b]]
             ELSE UNCHANGED forScratch /\ Finish(t)
    BY <1>2 DEF Grant
  <2>2. stat' = Counted(stat, s)
    BY <1>2 DEF Grant
  <2>3. /\ DOMAIN heap' = DOMAIN heap \cup {b} /\ heap'[b] = s
        /\ \A x \in DOMAIN heap : heap'[x] = heap[x]
    BY <2>1 DEF Take
  <2>4. HeapInv'
    BY <2>1, <2>3 DEF CountersInv, HeapInv, Rounded, Roundup
  <2>5. BusyKept
    BY <2>1, <2>3 DEF BusyKept, CountersInv, HeapInv
  <2>6. JobsInv' /\ forScratch' \ Uncounted' = forScratch \ Uncounted
    <3>1. CASE for = "scratch"
      <4> DEFINE j == [is |-> "overflow", block |-> b]
      <4>1. job' = [job EXCEPT ![t] = j] /\ forScratch' = forScratch \cup {b}
        BY <2>1, <3>1
      <4>2. j.is = "overflow" /\ j.block = b
        OBVIOUS
      <4>3. \A u \in Threads : job[u].is = "overflow" => job[u].block # b
        BY <2>1 DEF CountersInv, JobsInv, HeapInv
      <4> HIDE DEF j
      <4>4. JobsInv'
        BY <2>5, <4>1, <4>2, <4>3, JobsStep DEF CountersInv
      <4>5. \A u \in Threads : job'[u] = IF u = t THEN j ELSE job[u]
        BY <4>1 DEF CountersInv, JobsInv
      <4>6. Uncounted' = Uncounted \cup {b}
        BY <4>2, <4>5 DEF Uncounted
      <4> QED
        BY <2>1, <4>1, <4>4, <4>6 DEF CountersInv, HeapInv
    <3>2. CASE for # "scratch"
      <4>1. Uncounted' = Uncounted
        BY <2>1, <3>2, JobChanged, DoneIs DEF CountersInv, Finish
      <4>2. JobsInv'
        BY <2>1, <2>5, <3>2, JobsStep, DoneIs DEF CountersInv, Finish
      <4> QED
        BY <2>1, <3>2, <4>1, <4>2
    <3> QED
      BY <3>1, <3>2
  <2>7. CountInv'
    <3> DEFINE D == DOMAIN heap
               C == forScratch \ Uncounted
    <3>1. /\ IsFiniteSet(D) /\ IsFiniteSet(C) /\ C \subseteq D /\ b \notin D
          /\ \A x \in D : heap[x] \in Nat
      BY <2>1, CountersInRange DEF CountersInv, HeapInv
    <3>2. SumOf(heap', D) = SumOf(heap, D) /\ SumOf(heap', C) = SumOf(heap, C)
      BY <2>3, <3>1, SumSame
    <3>3. /\ IsFiniteSet(D \cup {b}) /\ \A x \in D \cup {b} : heap'[x] \in Nat
          /\ Cardinality(D \cup {b}) = Cardinality(D) + 1
      BY <2>3, <3>1, FS_AddElement, RoundedNat
    <3>4. SumOf(heap', D \cup {b}) = s + SumOf(heap, D)
      <4>1. (D \cup {b}) \ {b} = D
        BY <3>1
      <4> QED
        BY <2>3, <3>2, <3>3, <4>1, SumWithout
    <3>5. SumOf(heap', D \cup {b}) < LongWord /\ Cardinality(D \cup {b}) < LongWord
      <4>1. D \cup {b} \in SUBSET Blocks /\ \A x \in D \cup {b} : heap'[x] \in Rounded
        BY <2>1, <2>3 DEF CountersInv, HeapInv
      <4>2. SumOf(heap', D \cup {b}) \in 0 .. LongWord - 1 /\ Cardinality(D \cup {b}) \in 0 .. LongWord - 1
        BY <4>1, SumsFit
      <4> QED
        BY <4>2, AllocSizes
    <3> HIDE DEF D, C
    <3>6. /\ stat \in Counters /\ stat.now \in [Ops -> Nat] /\ s \in Nat
          /\ stat.now["used"] = SumOf(heap, D) /\ stat.now["count"] = Cardinality(D)
      BY RoundedNat DEF CountersInv, CountInv, Counters, D
    <3> DEFINE mid == Inc(stat, "used", s)
    <3>7. mid \in Counters /\ mid.now = [stat.now EXCEPT !["used"] = stat.now["used"] + s]
      BY <3>4, <3>5, <3>6, CounterUp DEF Ops
    <3>8. mid.now["count"] = stat.now["count"]
      BY <3>6, <3>7 DEF Ops
    <3>9. /\ stat' \in Counters
          /\ stat'.now = [mid.now EXCEPT !["count"] = mid.now["count"] + 1]
      <4>1. stat' = Inc(mid, "count", 1)
        BY <2>2 DEF Counted
      <4> HIDE DEF mid
      <4>2. mid \in Counters /\ mid.now["count"] + 1 < LongWord /\ "count" \in Ops
        BY <3>3, <3>5, <3>6, <3>7, <3>8 DEF Ops
      <4>3. PICK n \in Nat : n = 1
        OBVIOUS
      <4>4. Inc(mid, "count", n) \in Counters
            /\ Inc(mid, "count", n).now = [mid.now EXCEPT !["count"] = mid.now["count"] + n]
        BY <4>2, <4>3, CounterUp
      <4> QED
        BY <4>1, <4>3, <4>4
    <3>10. /\ stat'.now["used"] = s + SumOf(heap, D) /\ stat'.now["count"] = Cardinality(D) + 1
           /\ stat'.now["scratch"] = stat.now["scratch"]
           /\ stat'.now["overflow"] = stat.now["overflow"]
      <4> HIDE DEF mid
      <4> QED
        BY <3>6, <3>7, <3>8, <3>9 DEF Ops
    <3> QED
      BY <2>3, <2>6, <3>2, <3>3, <3>4, <3>9, <3>10
      DEF CountInv, CountersInv, Counters, Ops, D, C
  <2> QED
    BY <1>0, <2>4, <2>6, <2>7 DEF CountersInv
<1> QED
  BY <1>1, <1>2

(* Nothing is allocated or freed: a thread goes on with something else. *)
LEMMA JobOnlyCounts ==
  ASSUME CountersInv, NEW t \in Threads, NEW j, job' = [job EXCEPT ![t] = j],
         job[t].is # "overflow", j.is # "overflow",
         j.is \in {"alloc", "scratch", "realloc", "retry"} => j.size \in Rounded,
         j.is \in {"realloc", "retry"} => j.block \in DOMAIN heap \ forScratch,
         UNCHANGED <<heap, forScratch, free, lent, stat>>
  PROVE  CountersInv'
<1>1. ScratchInv' /\ HeapInv'
  BY OtherKeepsScratch DEF CountersInv, HeapInv, Rounded, Roundup
<1>2. Uncounted' = Uncounted
  BY JobChanged DEF CountersInv
<1>3. BusyKept
  BY DEF BusyKept
<1>4. JobsInv'
  BY <1>3, JobsStep DEF CountersInv
<1>5. CountInv'
  BY <1>2 DEF CountersInv, CountInv, Counters, Ops
<1> QED
  BY <1>1, <1>4, <1>5 DEF CountersInv

(* A block that is granted at once, or only after the alarm.               *)
LEMMA AlarmCounts ==
  ASSUME CountersFit, CountersInv, NEW t \in Threads, NEW s \in Rounded, NEW for,
         allocWithAlarm(t, s, for), job[t].is # "overflow", UNCHANGED <<free, lent>>
  PROVE  CountersInv'
<1>1. CASE Alarm(s)
  <2> DEFINE j == [is |-> "alloc", size |-> s, for |-> for]
  <2>1. job' = [job EXCEPT ![t] = j] /\ UNCHANGED <<heap, forScratch, stat>>
    BY <1>1 DEF allocWithAlarm
  <2>2. j.is = "alloc" /\ j.size = s
    OBVIOUS
  <2> HIDE DEF j
  <2> QED
    BY <2>1, <2>2, JobOnlyCounts
<1>2. CASE ~Alarm(s)
  BY <1>2, GrantCounts DEF allocWithAlarm
<1> QED
  BY <1>1, <1>2

(* A block that no thread is in the middle of is freed. *)
LEMMA GoneFrom ==
  ASSUME CountersFit, CountersInv, NEW b \in DOMAIN heap, Gone(b)
  PROVE  /\ DOMAIN heap' = DOMAIN heap \ {b}
         /\ Cardinality(DOMAIN heap') = Cardinality(DOMAIN heap) - 1
         /\ \A x \in DOMAIN heap' : heap'[x] = heap[x]
         /\ SumOf(heap', DOMAIN heap') = SumOf(heap, DOMAIN heap) - heap[b]
         /\ \A B \in SUBSET DOMAIN heap : b \notin B => SumOf(heap', B) = SumOf(heap, B)
         /\ heap[b] \in 0 .. SumOf(heap, DOMAIN heap)
<1> DEFINE D == DOMAIN heap
<1>1. DOMAIN heap' = D \ {b} /\ \A x \in D \ {b} : heap'[x] = heap[x]
  BY DEF Gone
<1>2. /\ IsFiniteSet(D) /\ \A x \in D : heap[x] \in Nat
      /\ \A B \in SUBSET D : IsFiniteSet(B) /\ SumOf(heap, B) \in 0 .. LongWord - 1
      /\ SumOf(heap, D) = heap[b] + SumOf(heap, D \ {b})
  BY CountersInRange DEF CountersInv
<1>3. ASSUME NEW B \in SUBSET D, b \notin B PROVE SumOf(heap', B) = SumOf(heap, B)
  BY <1>1, <1>2, <1>3, SumSame
<1>4. Cardinality(D \ {b}) = Cardinality(D) - 1
  BY <1>2, FS_RemoveElement
<1>5. SumOf(heap', D \ {b}) = SumOf(heap, D \ {b})
  BY <1>3
<1>6. SumOf(heap, D \ {b}) \in 0 .. LongWord - 1 /\ heap[b] \in Nat
  BY <1>2
<1>7. SumOf(heap, D) - heap[b] = SumOf(heap, D \ {b}) /\ heap[b] \in 0 .. SumOf(heap, D)
  BY <1>2, <1>6, AllocSizes
<1> HIDE DEF D
<1>8. SumOf(heap', DOMAIN heap') = SumOf(heap, D) - heap[b]
  BY <1>1, <1>5, <1>7
<1>9. Cardinality(DOMAIN heap') = Cardinality(D) - 1
  BY <1>1, <1>4
<1> QED
  BY <1>1, <1>3, <1>7, <1>8, <1>9 DEF D

(* Two counters go down. *)
LEMMA UncountedTwice ==
  ASSUME NEW st \in Counters, NEW n \in 0 .. st.now["used"], st.now["used"] < LongWord,
         st.now["count"] \in 1 .. LongWord - 1
  PROVE  LET r == Dec(Dec(st, "used", n), "count", 1) IN
         /\ r \in Counters
         /\ r.now["used"] = st.now["used"] - n /\ r.now["count"] = st.now["count"] - 1
         /\ r.now["scratch"] = st.now["scratch"] /\ r.now["overflow"] = st.now["overflow"]
<1> DEFINE mid == Dec(st, "used", n)
<1>1. st.now \in [Ops -> Nat]
  BY DEF Counters
<1>2. mid \in Counters /\ mid.now = [st.now EXCEPT !["used"] = st.now["used"] - n]
  BY CounterDown DEF Ops
<1> HIDE DEF mid
<1>3. mid.now["count"] = st.now["count"] /\ mid.now["used"] = st.now["used"] - n
      /\ mid.now["scratch"] = st.now["scratch"] /\ mid.now["overflow"] = st.now["overflow"]
  BY <1>1, <1>2 DEF Ops
<1>4. PICK k \in Nat : k = 1
  OBVIOUS
<1>5. k \in 0 .. mid.now["count"] /\ mid.now["count"] < LongWord /\ "count" \in Ops
  BY <1>3, <1>4, AllocSizes DEF Ops
<1>6. Dec(mid, "count", k) \in Counters
      /\ Dec(mid, "count", k).now = [mid.now EXCEPT !["count"] = mid.now["count"] - k]
  <2>1. PICK op : op = "count"
    OBVIOUS
  <2>2. op \in Ops /\ k \in 0 .. mid.now[op] /\ mid.now[op] < LongWord
    BY <1>5, <2>1
  <2>3. PICK m \in Counters : m = mid
    BY <1>2
  <2>4. op \in Ops /\ k \in 0 .. m.now[op] /\ m.now[op] < LongWord
    BY <2>2, <2>3
  <2>5. Dec(m, op, k) \in Counters
        /\ Dec(m, op, k).now = [m.now EXCEPT ![op] = m.now[op] - k]
    BY <2>4, CounterDown
  <2> QED
    BY <2>1, <2>3, <2>5
<1>7. mid.now \in [Ops -> Nat]
  BY <1>2 DEF Counters
<1> DEFINE r == Dec(mid, "count", k)
<1>8. r \in Counters /\ r.now = [mid.now EXCEPT !["count"] = mid.now["count"] - k]
  BY <1>6
<1> HIDE DEF r
<1>9. /\ r \in Counters
      /\ r.now["used"] = st.now["used"] - n /\ r.now["count"] = st.now["count"] - 1
      /\ r.now["scratch"] = st.now["scratch"] /\ r.now["overflow"] = st.now["overflow"]
  BY <1>3, <1>4, <1>7, <1>8 DEF Ops
<1> QED
  BY <1>4, <1>9 DEF r, mid

(* A block less, counted.                                                  *)
LEMMA FreedCounts ==
  ASSUME CountersFit, CountersInv, NEW t \in Threads, NEW b \in DOMAIN heap, mfree(t, b)
  PROVE  CountersInv'
<1> DEFINE D == DOMAIN heap
           C == forScratch \ Uncounted
<1>1. /\ b \notin forScratch /\ b \notin Busy
      /\ stat' = Dec(Dec(stat, "used", heap[b]), "count", 1)
      /\ Gone(b) /\ UNCHANGED <<forScratch, free, lent, job>>
  BY DEF mfree
<1>2. /\ DOMAIN heap' = D \ {b} /\ Cardinality(DOMAIN heap') = Cardinality(D) - 1
      /\ \A x \in DOMAIN heap' : heap'[x] = heap[x]
      /\ SumOf(heap', DOMAIN heap') = SumOf(heap, D) - heap[b]
      /\ SumOf(heap', C) = SumOf(heap, C)
      /\ heap[b] \in 0 .. SumOf(heap, D)
  <2>1. C \in SUBSET DOMAIN heap /\ b \notin C
    BY <1>1 DEF CountersInv, HeapInv
  <2> HIDE DEF C
  <2> QED
    BY <1>1, <2>1, GoneFrom
<1>3. ScratchInv' /\ HeapInv'
  BY <1>1, <1>2, OtherKeepsScratch DEF CountersInv, HeapInv, Rounded, Roundup
<1>4. JobsInv'
  <2>1. BusyKept
    BY <1>1, <1>2 DEF BusyKept, CountersInv, HeapInv
  <2> QED
    BY <1>1, <2>1, JobsSame DEF CountersInv
<1>5. Uncounted' = Uncounted
  BY <1>1 DEF Uncounted
<1>6. CountInv'
  <2>1. /\ stat \in Counters /\ stat.now["used"] = SumOf(heap, D)
        /\ stat.now["count"] = Cardinality(D)
    BY DEF CountersInv, CountInv
  <2>2. SumOf(heap, D) < LongWord /\ Cardinality(D) \in 1 .. LongWord - 1
    <3>1. SumOf(heap, D) \in 0 .. LongWord - 1 /\ Cardinality(D) \in 0 .. LongWord - 1 /\ IsFiniteSet(D)
      BY CountersInRange DEF CountersInv
    <3>2. Cardinality(D) # 0
      BY <3>1, FS_EmptySet
    <3> QED
      BY <3>1, <3>2, AllocSizes
  <2>3. /\ stat' \in Counters
        /\ stat'.now["used"] = stat.now["used"] - heap[b]
        /\ stat'.now["count"] = stat.now["count"] - 1
        /\ stat'.now["scratch"] = stat.now["scratch"]
        /\ stat'.now["overflow"] = stat.now["overflow"]
    BY <1>1, <1>2, <2>1, <2>2, UncountedTwice
  <2> QED
    BY <1>1, <1>2, <1>5, <2>1, <2>3 DEF CountersInv, CountInv, Counters, Ops
<1> QED
  BY <1>3, <1>4, <1>6 DEF CountersInv

(* A block that served as a scratch buffer is freed.                       *)
LEMMA ScratchFreedCounts ==
  ASSUME CountersFit, CountersInv, NEW t \in Threads, NEW b \in DOMAIN heap, ScratchFreeBlock(t, b)
  PROVE  CountersInv'
<1> DEFINE D == DOMAIN heap
           C == forScratch \ Uncounted
           mid == Dec(stat, "overflow", heap[b])
<1>1. /\ b \in forScratch /\ b \notin Busy
      /\ stat' = Dec(Dec(mid, "used", heap[b]), "count", 1)
      /\ Gone(b) /\ forScratch' = forScratch \ {b} /\ UNCHANGED <<free, lent, job>>
  BY DEF ScratchFreeBlock
<1>2. b \in C /\ C \subseteq D
  <2>1. Uncounted \subseteq Busy
    BY DEF Uncounted, Busy
  <2> QED
    BY <1>1, <2>1 DEF CountersInv, HeapInv
<1>3. /\ DOMAIN heap' = D \ {b} /\ Cardinality(DOMAIN heap') = Cardinality(D) - 1
      /\ \A x \in DOMAIN heap' : heap'[x] = heap[x]
      /\ SumOf(heap', DOMAIN heap') = SumOf(heap, D) - heap[b]
      /\ SumOf(heap', C \ {b}) = SumOf(heap, C \ {b})
      /\ heap[b] \in 0 .. SumOf(heap, D)
  <2>1. C \ {b} \in SUBSET DOMAIN heap /\ b \notin C \ {b}
    BY <1>2
  <2> HIDE DEF C
  <2> QED
    BY <1>1, <2>1, GoneFrom
<1>4. /\ SumOf(heap, C) = heap[b] + SumOf(heap, C \ {b})
      /\ SumOf(heap, C) \in 0 .. LongWord - 1 /\ SumOf(heap, C \ {b}) \in 0 .. LongWord - 1
  <2>1. C \in SUBSET D /\ C \ {b} \in SUBSET D
    BY <1>2
  <2> HIDE DEF C
  <2> QED
    BY <1>2, <2>1, CountersInRange DEF CountersInv
<1>5. ScratchInv' /\ HeapInv'
  BY <1>1, <1>3, OtherKeepsScratch DEF CountersInv, HeapInv, Rounded, Roundup
<1>6. JobsInv'
  <2>1. BusyKept
    BY <1>1, <1>3 DEF BusyKept, CountersInv, HeapInv
  <2> QED
    BY <1>1, <2>1, JobsSame DEF CountersInv
<1>7. forScratch' \ Uncounted' = C \ {b}
  <2>1. Uncounted' = Uncounted
    BY <1>1 DEF Uncounted
  <2> QED
    BY <1>1, <2>1
<1> HIDE DEF C
<1>8. CountInv'
  <2>1. /\ stat \in Counters /\ stat.now["used"] = SumOf(heap, D) /\ stat.now \in [Ops -> Nat]
        /\ stat.now["count"] = Cardinality(D) /\ stat.now["overflow"] = SumOf(heap, C)
    BY DEF CountersInv, CountInv, Counters, C
  <2>2. SumOf(heap, D) < LongWord /\ Cardinality(D) \in 1 .. LongWord - 1
    <3>1. SumOf(heap, D) \in 0 .. LongWord - 1 /\ Cardinality(D) \in 0 .. LongWord - 1 /\ IsFiniteSet(D)
      BY CountersInRange DEF CountersInv
    <3>2. Cardinality(D) # 0
      BY <3>1, FS_EmptySet
    <3> QED
      BY <3>1, <3>2, AllocSizes
  <2>3. heap[b] \in 0 .. stat.now["overflow"] /\ stat.now["overflow"] < LongWord
        /\ stat.now["overflow"] - heap[b] = SumOf(heap, C \ {b})
    BY <1>3, <1>4, <2>1, AllocSizes
  <2>4. mid \in Counters /\ mid.now = [stat.now EXCEPT !["overflow"] = stat.now["overflow"] - heap[b]]
    BY <2>1, <2>3, CounterDown DEF Ops
  <2> HIDE DEF mid
  <2>5. /\ mid.now["used"] = stat.now["used"] /\ mid.now["count"] = stat.now["count"]
        /\ mid.now["scratch"] = stat.now["scratch"]
        /\ mid.now["overflow"] = stat.now["overflow"] - heap[b]
    BY <2>1, <2>4 DEF Ops
  <2>6. /\ stat' \in Counters
        /\ stat'.now["used"] = mid.now["used"] - heap[b]
        /\ stat'.now["count"] = mid.now["count"] - 1
        /\ stat'.now["scratch"] = mid.now["scratch"]
        /\ stat'.now["overflow"] = mid.now["overflow"]
    <3>1. PICK m \in Counters : m = mid
      BY <2>4
    <3>2. /\ heap[b] \in 0 .. m.now["used"] /\ m.now["used"] < LongWord
          /\ m.now["count"] \in 1 .. LongWord - 1 /\ stat' = Dec(Dec(m, "used", heap[b]), "count", 1)
      BY <1>1, <1>3, <2>1, <2>2, <2>5, <3>1
    <3> QED
      BY <3>1, <3>2, UncountedTwice
  <2> QED
    BY <1>1, <1>3, <1>7, <2>1, <2>3, <2>5, <2>6 DEF CountersInv, CountInv, Counters, Ops
<1> QED
  BY <1>5, <1>6, <1>8 DEF CountersInv

(* A block that is not for a scratch request gets another size. *)
LEMMA ResizedCounts ==
  ASSUME CountersFit, CountersInv, NEW t \in Threads, NEW s \in Rounded,
         NEW b \in DOMAIN heap \ forScratch, Resized(t, b, s), job[t].is # "overflow",
         UNCHANGED <<forScratch, free, lent>>
  PROVE  CountersInv'
<1> DEFINE D == DOMAIN heap
           C == forScratch \ Uncounted
           old == SumOf(heap, D)
           rest == SumOf(heap, D \ {b})
<1>1. /\ DOMAIN heap' = D /\ heap'[b] = s /\ \A x \in D \ {b} : heap'[x] = heap[x]
      /\ stat' = IF s >= heap[b] THEN Inc(stat, "used", s - heap[b])
                                 ELSE Dec(stat, "used", heap[b] - s)
      /\ Finish(t)
  BY DEF Resized
<1>2. ScratchInv' /\ HeapInv'
  BY <1>1, OtherKeepsScratch DEF CountersInv, HeapInv, Rounded, Roundup
<1>3. JobsInv'
  <2>1. BusyKept
    BY <1>1 DEF BusyKept
  <2> QED
    BY <1>1, <2>1, JobsStep, DoneIs DEF CountersInv, Finish
<1>4. Uncounted' = Uncounted
  BY <1>1, JobChanged, DoneIs DEF CountersInv, Finish
<1>5. /\ IsFiniteSet(D) /\ IsFiniteSet(D \ {b}) /\ old = heap[b] + rest
      /\ old \in 0 .. LongWord - 1 /\ rest \in 0 .. LongWord - 1 /\ heap[b] \in Nat
  BY CountersInRange DEF CountersInv
<1>6. SumOf(heap', D \ {b}) = rest
  BY <1>1, <1>5, SumSame
<1>7. SumOf(heap', C) = SumOf(heap, C)
  <2>1. IsFiniteSet(C) /\ \A x \in C : heap'[x] = heap[x]
    <3>1. C \in SUBSET D /\ b \notin C
      BY DEF CountersInv, HeapInv
    <3> HIDE DEF C
    <3> QED
      BY <1>1, <3>1, CountersInRange DEF CountersInv
  <2> HIDE DEF C
  <2> QED
    BY <2>1, SumSame
<1>8. SumOf(heap', D) = s + rest /\ s + rest \in 0 .. LongWord - 1 /\ s \in Nat
  <2>1. \A x \in D : heap'[x] \in Rounded /\ heap'[x] \in Nat
    BY <1>1, RoundedNat DEF CountersInv, HeapInv
  <2>2. SumOf(heap', D) = s + rest
    BY <1>1, <1>5, <1>6, <2>1, SumWithout
  <2>3. D \in SUBSET Blocks
    BY DEF CountersInv, HeapInv
  <2> HIDE DEF D
  <2>4. SumOf(heap', D) \in 0 .. LongWord - 1
    BY <2>1, <2>3, SumsFit
  <2> QED
    BY <2>2, <2>4, RoundedNat
<1> HIDE DEF C
<1>9. /\ stat \in Counters /\ stat.now["used"] = old /\ stat.now \in [Ops -> Nat]
      /\ stat.now["overflow"] = SumOf(heap, C)
  BY DEF CountersInv, CountInv, Counters, C
<1>10. stat' \in Counters /\ stat'.now = [stat.now EXCEPT !["used"] = s + rest]
  <2> HIDE DEF old, rest
  <2>1. CASE s >= heap[b]
    <3>1. PICK n \in Nat : n = s - heap[b]
      BY <1>5, <1>8, <2>1
    <3>2. stat.now["used"] + n = s + rest /\ stat.now["used"] + n < LongWord
      BY <1>5, <1>8, <1>9, <3>1, AllocSizes
    <3>3. stat' = Inc(stat, "used", n)
      BY <1>1, <2>1, <3>1
    <3> QED
      BY <1>9, <3>2, <3>3, CounterUp DEF Ops
  <2>2. CASE ~(s >= heap[b])
    <3>1. PICK n \in Nat : n = heap[b] - s
      BY <1>5, <1>8, <2>2
    <3>2. stat.now["used"] - n = s + rest /\ n \in 0 .. stat.now["used"] /\ stat.now["used"] < LongWord
      BY <1>5, <1>8, <1>9, <3>1, AllocSizes
    <3>3. stat' = Dec(stat, "used", n)
      BY <1>1, <2>2, <3>1
    <3> QED
      BY <1>9, <3>2, <3>3, CounterDown DEF Ops
  <2> QED
    BY <2>1, <2>2
<1>11. /\ stat'.now["used"] = s + rest /\ stat'.now["count"] = stat.now["count"]
       /\ stat'.now["scratch"] = stat.now["scratch"] /\ stat'.now["overflow"] = stat.now["overflow"]
  <2> HIDE DEF rest
  <2> QED
    BY <1>9, <1>10 DEF Ops
<1>12. CountInv'
  <2> HIDE DEF rest, old
  <2> QED
    BY <1>1, <1>4, <1>7, <1>8, <1>9, <1>10, <1>11 DEF CountersInv, CountInv, Counters, Ops, C
<1> QED
  BY <1>2, <1>3, <1>12 DEF CountersInv

(* It stays as it is. *)
LEMMA KeptCounts ==
  ASSUME CountersInv, NEW t \in Threads, Kept(t), job[t].is # "overflow",
         UNCHANGED <<forScratch, free, lent>>
  PROVE  CountersInv'
BY JobOnlyCounts, DoneIs DEF Kept, Finish

(* An attempt to resize, the first one or after the alarm.                 *)
LEMMA AttemptCounts ==
  ASSUME CountersFit, CountersInv, NEW t \in Threads, NEW s \in Rounded,
         NEW b \in DOMAIN heap \ forScratch, Attempt(t, b, s), job[t].is # "overflow",
         UNCHANGED <<forScratch, free, lent>>
  PROVE  CountersInv'
<1>1. CASE Resized(t, b, s)
  BY <1>1, ResizedCounts
<1>2. CASE Kept(t)
  BY <1>2, KeptCounts
<1>3. CASE UNCHANGED <<heap, stat>> /\ job' = [job EXCEPT ![t] = [is |-> "retry", block |-> b, size |-> s]]
  <2> DEFINE j == [is |-> "retry", block |-> b, size |-> s]
  <2>1. j.is = "retry" /\ j.block = b /\ j.size = s /\ job' = [job EXCEPT ![t] = j]
    BY <1>3
  <2> HIDE DEF j
  <2> QED
    BY <1>3, <2>1, JobOnlyCounts
<1> QED
  BY <1>1, <1>2, <1>3 DEF Attempt

(* The block for a scratch request is counted as one. *)
LEMMA OverflowCounts ==
  ASSUME CountersFit, CountersInv, NEW t \in Threads, ScratchOverflow(t)
  PROVE  CountersInv'
<1> DEFINE b == job[t].block
           C == forScratch \ Uncounted
<1>1. /\ job[t].is = "overflow" /\ stat' = Inc(stat, "overflow", heap[b]) /\ Finish(t)
      /\ UNCHANGED <<heap, forScratch, free, lent>>
  BY DEF ScratchOverflow
<1>2. b \in forScratch /\ forScratch \in SUBSET DOMAIN heap /\ b \in Uncounted
  BY <1>1 DEF CountersInv, JobsInv, HeapInv, Uncounted
<1>3. ScratchInv' /\ HeapInv'
  BY <1>1, OtherKeepsScratch DEF CountersInv, HeapInv, Rounded, Roundup
<1>4. JobsInv'
  <2>1. BusyKept
    BY <1>1 DEF BusyKept
  <2> QED
    BY <1>1, <2>1, JobsStep, DoneIs DEF CountersInv, Finish
<1>5. Uncounted' = Uncounted \ {b}
  <2>1. \A u \in Threads : job'[u] = IF u = t THEN Done ELSE job[u]
    BY <1>1 DEF Finish, CountersInv, JobsInv
  <2>2. \A u \in Threads : job'[u].is = "overflow" <=> job[u].is = "overflow" /\ u # t
    BY <2>1, DoneIs
  <2>3. \A u \in Threads \ {t} : job[u].is = "overflow" => job[u].block # b /\ job'[u] = job[u]
    BY <1>1, <2>1 DEF CountersInv, JobsInv
  <2> QED
    BY <1>1, <2>2, <2>3 DEF Uncounted
<1>6. forScratch' \ Uncounted' = C \cup {b} /\ b \notin C
  BY <1>1, <1>2, <1>5
<1>7. /\ SumOf(heap, C \cup {b}) = heap[b] + SumOf(heap, C)
      /\ SumOf(heap, C \cup {b}) \in 0 .. LongWord - 1 /\ SumOf(heap, C) \in 0 .. LongWord - 1
      /\ heap[b] \in Nat
  <2>1. C \cup {b} \in SUBSET DOMAIN heap /\ C \in SUBSET DOMAIN heap /\ (C \cup {b}) \ {b} = C
    BY <1>2, <1>6
  <2> HIDE DEF C, b
  <2>2. /\ SumOf(heap, C \cup {b}) \in 0 .. LongWord - 1 /\ SumOf(heap, C) \in 0 .. LongWord - 1
        /\ \A x \in C \cup {b} : SumOf(heap, C \cup {b}) = heap[x] + SumOf(heap, (C \cup {b}) \ {x})
        /\ heap[b] \in Nat
    BY <2>1, CountersInRange DEF CountersInv
  <2> QED
    BY <2>1, <2>2
<1>8. stat \in Counters /\ stat.now \in [Ops -> Nat] /\ stat.now["overflow"] = SumOf(heap, C)
  BY DEF CountersInv, CountInv, Counters
<1> HIDE DEF C, b
<1>9. stat' \in Counters
      /\ stat'.now = [stat.now EXCEPT !["overflow"] = stat.now["overflow"] + heap[b]]
  <2>1. stat.now["overflow"] + heap[b] < LongWord /\ heap[b] \in Nat
    BY <1>7, <1>8, AllocSizes
  <2> QED
    BY <1>1, <1>8, <2>1, CounterUp DEF Ops
<1>10. stat'.now["overflow"] = SumOf(heap, C \cup {b})
  BY <1>7, <1>8, <1>9 DEF Ops
<1>11. /\ stat'.now["used"] = stat.now["used"] /\ stat'.now["count"] = stat.now["count"]
       /\ stat'.now["scratch"] = stat.now["scratch"]
  BY <1>8, <1>9 DEF Ops
<1>12. CountInv'
  BY <1>1, <1>6, <1>9, <1>10, <1>11 DEF CountersInv, CountInv, Counters, Ops
<1> QED
  BY <1>3, <1>4, <1>12 DEF CountersInv

(* Buffers of the list, and a counter reset: the blocks stay as they are. *)
LEMMA BlocksSame ==
  ASSUME CountersInv, UNCHANGED <<heap, forScratch, job>>
  PROVE  HeapInv' /\ JobsInv' /\ Uncounted' = Uncounted
<1>1. BusyKept
  BY DEF BusyKept
<1>2. JobsInv'
  BY <1>1, JobsSame DEF CountersInv
<1> QED
  BY <1>2 DEF CountersInv, HeapInv, Uncounted, Rounded, Roundup

(* A scratch buffer from the list is counted.                              *)
LEMMA ListCounts ==
  ASSUME CountersFit, CountersInv, NEW t, NEW n, ScratchFromList(t, n)
  PROVE  CountersInv'
<1> DEFINE h == Head(free)
<1>1. ScratchInv' /\ h \in Slots \ lent /\ lent' = lent \cup {h} /\ stat' = Inc(stat, "scratch", 1)
      /\ UNCHANGED <<heap, forScratch, job>>
  BY ScratchTaken DEF CountersInv, ScratchFromList
<1>2. HeapInv' /\ JobsInv' /\ Uncounted' = Uncounted
  BY <1>1, BlocksSame
<1>3. /\ IsFiniteSet(lent) /\ Cardinality(lent) \in 0 .. LongWord - 1
      /\ Cardinality(lent') = Cardinality(lent) + 1
  BY <1>1, CountersInRange, FS_AddElement DEF CountersInv
<1>4. Cardinality(lent) + 1 < LongWord
  <2>1. IsFiniteSet(Slots) /\ Cardinality(Slots) = Scratch
    BY AllocSizes, FS_Interval DEF Slots
  <2> HIDE DEF Slots
  <2>2. lent' \in SUBSET Slots
    BY <1>1 DEF CountersInv, ScratchInv
  <2>3. Cardinality(lent') <= Scratch
    BY <2>1, <2>2, FS_Subset
  <2> QED
    BY <1>3, <2>3, AllocSizes DEF CountersFit
<1>5. stat \in Counters /\ stat.now["scratch"] = Cardinality(lent) /\ stat.now \in [Ops -> Nat]
  BY DEF CountersInv, CountInv, Counters
<1>6. stat' \in Counters /\ stat'.now = [stat.now EXCEPT !["scratch"] = stat.now["scratch"] + 1]
  <2>1. PICK k \in Nat : k = 1
    OBVIOUS
  <2>2. stat.now["scratch"] + k < LongWord /\ stat' = Inc(stat, "scratch", k)
    BY <1>1, <1>4, <1>5, <2>1
  <2> QED
    BY <1>5, <2>1, <2>2, CounterUp DEF Ops
<1>7. /\ stat'.now["used"] = stat.now["used"] /\ stat'.now["count"] = stat.now["count"]
      /\ stat'.now["scratch"] = Cardinality(lent') /\ stat'.now["overflow"] = stat.now["overflow"]
  BY <1>3, <1>5, <1>6 DEF Ops
<1>8. CountInv'
  BY <1>1, <1>2, <1>6, <1>7 DEF CountersInv, CountInv, Counters, Ops
<1> QED
  BY <1>1, <1>2, <1>8 DEF CountersInv

(* A scratch buffer back on the list is no longer counted.                 *)
LEMMA ListBackCounts ==
  ASSUME CountersFit, CountersInv, NEW t, NEW s \in Slots, ScratchFreeSlot(t, s)
  PROVE  CountersInv'
<1>1. ScratchInv' /\ s \in lent /\ lent' = lent \ {s} /\ stat' = Dec(stat, "scratch", 1)
      /\ UNCHANGED <<heap, forScratch, job>>
  BY ScratchGiven DEF CountersInv, ScratchFreeSlot
<1>2. HeapInv' /\ JobsInv' /\ Uncounted' = Uncounted
  BY <1>1, BlocksSame
<1>3. /\ IsFiniteSet(lent) /\ Cardinality(lent) \in 0 .. LongWord - 1 /\ Cardinality(lent) # 0
      /\ Cardinality(lent') = Cardinality(lent) - 1
  BY <1>1, CountersInRange, FS_RemoveElement, FS_EmptySet DEF CountersInv
<1>4. stat \in Counters /\ stat.now["scratch"] = Cardinality(lent) /\ stat.now \in [Ops -> Nat]
  BY DEF CountersInv, CountInv, Counters
<1>5. stat' \in Counters /\ stat'.now = [stat.now EXCEPT !["scratch"] = stat.now["scratch"] - 1]
  <2>1. PICK k \in Nat : k = 1
    OBVIOUS
  <2>2. k \in 0 .. stat.now["scratch"] /\ stat.now["scratch"] < LongWord /\ stat' = Dec(stat, "scratch", k)
    BY <1>1, <1>3, <1>4, <2>1, AllocSizes
  <2> QED
    BY <1>4, <2>1, <2>2, CounterDown DEF Ops
<1>6. /\ stat'.now["used"] = stat.now["used"] /\ stat'.now["count"] = stat.now["count"]
      /\ stat'.now["scratch"] = Cardinality(lent') /\ stat'.now["overflow"] = stat.now["overflow"]
  BY <1>3, <1>4, <1>5 DEF Ops
<1>7. CountInv'
  BY <1>1, <1>2, <1>5, <1>6 DEF CountersInv, CountInv, Counters, Ops
<1> QED
  BY <1>1, <1>2, <1>7 DEF CountersInv

(* A high-water mark is reset.                                             *)
LEMMA ResetCounts ==
  ASSUME CountersInv, NEW op \in Ops, status64(op)
  PROVE  CountersInv'
<1>1. UNCHANGED <<heap, forScratch, free, lent, job>> /\ stat' = [stat EXCEPT !.max[op] = stat.now[op]]
  BY DEF status64
<1>2. HeapInv' /\ JobsInv' /\ Uncounted' = Uncounted /\ ScratchInv'
  BY <1>1, BlocksSame, OtherKeepsScratch DEF CountersInv
<1>3. stat' \in Counters /\ stat'.now = stat.now
  BY <1>1 DEF CountersInv, CountInv, Counters
<1>4. CountInv'
  BY <1>1, <1>2, <1>3 DEF CountersInv, CountInv, Counters, Ops
<1> QED
  BY <1>2, <1>4 DEF CountersInv

(* One step per operation. *)
LEMMA CountersStep ==
  ASSUME CountersFit, CountersInv, [AllocNext]_allocVars
  PROVE  CountersInv'
<1>1. CASE UNCHANGED allocVars
  <2>1. HeapInv' /\ JobsInv' /\ Uncounted' = Uncounted /\ ScratchInv'
    BY <1>1, BlocksSame, OtherKeepsScratch DEF CountersInv, allocVars
  <2> QED
    BY <1>1, <2>1 DEF CountersInv, CountInv, allocVars, Counters, Ops
<1>2. ASSUME NEW t \in Threads, NEW n \in Sizes
      PROVE  /\ alloc(t, n) => CountersInv'
             /\ ScratchFromHeap(t, n) => CountersInv'
             /\ ScratchFromList(t, n) => CountersInv'
             /\ \A b \in DOMAIN heap : allocRealloc(t, b, n) => CountersInv'
  <2> DEFINE s == Roundup(n)
  <2>1. s \in Rounded
    BY DEF Rounded
  <2> HIDE DEF s
  <2>2. ASSUME alloc(t, n) PROVE CountersInv'
    <3>1. allocWithAlarm(t, s, "heap") /\ job[t].is # "overflow" /\ UNCHANGED <<free, lent>>
      BY <2>2, DoneIs DEF alloc, s
    <3> QED
      BY <2>1, <3>1, AlarmCounts
  <2>3. ASSUME ScratchFromHeap(t, n) PROVE CountersInv'
    <3> DEFINE j == [is |-> "scratch", size |-> s]
    <3>1. /\ job' = [job EXCEPT ![t] = j] /\ job[t].is # "overflow"
          /\ UNCHANGED <<heap, forScratch, free, lent, stat>>
      BY <2>3, DoneIs DEF ScratchFromHeap, s
    <3>2. j.is = "scratch" /\ j.size = s
      OBVIOUS
    <3> HIDE DEF j
    <3> QED
      BY <2>1, <3>1, <3>2, JobOnlyCounts
  <2>4. ASSUME NEW b \in DOMAIN heap, allocRealloc(t, b, n) PROVE CountersInv'
    <3>1. /\ job[t].is # "overflow" /\ b \in DOMAIN heap \ forScratch
          /\ UNCHANGED <<forScratch, free, lent>>
      BY <2>4, DoneIs DEF allocRealloc
    <3>2. CASE Attempt(t, b, s)
      BY <2>1, <3>1, <3>2, AttemptCounts
    <3>3. CASE /\ job' = [job EXCEPT ![t] = [is |-> "realloc", block |-> b, size |-> s]]
               /\ UNCHANGED <<heap, stat>>
      <4> DEFINE j == [is |-> "realloc", block |-> b, size |-> s]
      <4>1. j.is = "realloc" /\ j.block = b /\ j.size = s /\ job' = [job EXCEPT ![t] = j]
        BY <3>3
      <4> HIDE DEF j
      <4> QED
        BY <2>1, <3>1, <3>3, <4>1, JobOnlyCounts
    <3> QED
      BY <2>4, <3>2, <3>3 DEF allocRealloc, s
  <2> QED
    BY <2>2, <2>3, <2>4, ListCounts
<1>3. ASSUME NEW t \in Threads, NEW b \in DOMAIN heap, mfree(t, b) \/ ScratchFreeBlock(t, b)
      PROVE  CountersInv'
  BY <1>3, FreedCounts, ScratchFreedCounts
<1>4. ASSUME NEW t \in Threads
      PROVE  /\ AllocResumed(t) => CountersInv'
             /\ ReallocResumed(t) => CountersInv'
             /\ ReallocRetried(t) => CountersInv'
             /\ ScratchResumed(t) => CountersInv'
  <2>1. /\ job[t].is \in {"alloc", "scratch", "realloc", "retry"} => job[t].size \in Rounded
        /\ job[t].is \in {"realloc", "retry"} => job[t].block \in DOMAIN heap \ forScratch
    BY DEF CountersInv, JobsInv
  <2>2. ASSUME AllocResumed(t) PROVE CountersInv'
    BY <2>1, <2>2, GrantCounts DEF AllocResumed
  <2>3. ASSUME ReallocResumed(t) PROVE CountersInv'
    BY <2>1, <2>3, AttemptCounts DEF ReallocResumed
  <2>4. ASSUME ReallocRetried(t) PROVE CountersInv'
    BY <2>1, <2>4, ResizedCounts, KeptCounts DEF ReallocRetried
  <2>5. ASSUME ScratchResumed(t) PROVE CountersInv'
    BY <2>1, <2>5, AlarmCounts DEF ScratchResumed
  <2> QED
    BY <2>2, <2>3, <2>4, <2>5
<1>5. ASSUME NEW t \in Threads, ScratchOverflow(t)
      PROVE  CountersInv'
  BY <1>5, OverflowCounts
<1>6. ASSUME NEW t \in Threads, NEW s \in Slots, ScratchFreeSlot(t, s)
      PROVE  CountersInv'
  BY <1>6, ListBackCounts
<1>7. ASSUME NEW t \in Threads, NEW n \in Limits, alloc_softheaplimit64(t, n)
      PROVE  CountersInv'
  <2>1. UNCHANGED <<heap, forScratch, free, lent, stat, job>>
    BY <1>7 DEF alloc_softheaplimit64
  <2>2. HeapInv' /\ JobsInv' /\ Uncounted' = Uncounted /\ ScratchInv'
    BY <2>1, BlocksSame, OtherKeepsScratch DEF CountersInv
  <2> QED
    BY <2>1, <2>2 DEF CountersInv, CountInv, Counters, Ops
<1>8. ASSUME NEW op \in Ops, status64(op)
      PROVE  CountersInv'
  BY <1>8, ResetCounts
<1> QED
  BY <1>1, <1>2, <1>3, <1>4, <1>5, <1>6, <1>7, <1>8 DEF AllocNext

(* Nothing is allocated at first.                                          *)
LEMMA CountersInit ==
  ASSUME CountersFit, AllocInit
  PROVE  CountersInv
<1>1. ScratchInv
  BY ScratchInitInv
<1>2. DOMAIN heap = {} /\ forScratch = {} /\ lent = {}
  BY DEF AllocInit
<1>3. HeapInv
  BY <1>2 DEF HeapInv
<1>4. JobsInv
  BY DEF AllocInit, JobsInv, Done
<1>5. stat \in Counters /\ \A op \in Ops : stat.now[op] = 0
  BY DEF AllocInit, Counters
<1>6. CountInv
  <2>1. forScratch \ Uncounted = {}
    BY <1>2
  <2> QED
    BY <1>2, <1>5, <2>1, SumEmpty, FS_EmptySet DEF CountInv, Ops
<1> QED
  BY <1>1, <1>3, <1>4, <1>6 DEF CountersInv

(* Whatever the threads do, in whatever order, with the mutex given up in  *)
(* the middle of allocations, of scratch requests that go to the heap and  *)
(* of resizings that are tried again: the counters are what is allocated.  *)
THEOREM CountersTell == CountersFit => (AllocSpec => []StatsExact)
<1> SUFFICES ASSUME CountersFit PROVE AllocSpec => []StatsExact
  OBVIOUS
<1>1. CountersInv => StatsExact
  <2> SUFFICES ASSUME CountersInv PROVE StatsExact
    OBVIOUS
  <2>1. stat.now \in [Ops -> Nat] /\ \A op \in Ops : stat.max[op] >= stat.now[op]
    BY DEF CountersInv, CountInv, Counters
  <2>2. SizeOf(DOMAIN heap) = SumOf(heap, DOMAIN heap)
        /\ SizeOf(forScratch \ Uncounted) = SumOf(heap, forScratch \ Uncounted)
    BY DEF SizeOf, SumOf
  <2> DEFINE r == [used |-> SizeOf(DOMAIN heap), count |-> Cardinality(DOMAIN heap),
                   scratch |-> Cardinality(lent), overflow |-> SizeOf(forScratch \ Uncounted)]
  <2>3. DOMAIN r = Ops /\ \A op \in Ops : stat.now[op] = r[op]
    BY <2>2 DEF CountersInv, CountInv, Ops
  <2>4. stat.now = r
    BY <2>1, <2>3 DEF Ops
  <2> QED
    BY <2>1, <2>4 DEF StatsExact
<1>2. AllocInit => CountersInv
  BY CountersInit
<1>3. CountersInv /\ [AllocNext]_allocVars => CountersInv'
  BY CountersStep
<1> QED
  BY <1>1, <1>2, <1>3, PTL DEF AllocSpec

-----------------------------------------------------------------------------
(* The shares of the numbers.                                              *)

(* No share is as large as what is shared.                                 *)
LEMMA SharesGrow ==
  ASSUME NEW a \in Nat \ {0}, NEW b \in Nat \ {0}, NEW e \in Nat
  PROVE  (a + 1) * ((b + 1) + e) > (b + 1) + (a + 1) - 1
<1>1. PICK x \in Int, y \in Int : x = a * b /\ y = a * e
  OBVIOUS
<1>2. x >= a
  BY <1>1, MultipleAtLeast
<1>3. y >= 0
  BY <1>1
<1>4. (a + 1) * ((b + 1) + e) = a * b + a * e + a + b + 1 + e
  OBVIOUS
<1> QED
  BY <1>1, <1>2, <1>3, <1>4

(* n things are shared among N.                                            *)
LEMMA ShareOut ==
  ASSUME NEW N \in Nat, N >= 2, NEW n \in Nat, NEW d, d = (n + N - 1) \div N
  PROVE  /\ d \in Nat /\ n <= N * d
         /\ n > 1 => d \in 1 .. n - 1
<1>1. PICK m \in Nat : m = n + N - 1
  OBVIOUS
<1>2. d \in Int /\ m = N * d + (m % N) /\ m % N \in 0 .. N - 1
  <2>1. N \in Nat \ {0} /\ m \in Int /\ d = m \div N
    BY <1>1
  <2>2. m \div N \in Int /\ m = N * (m \div N) + (m % N)
    BY <2>1, DivMod
  <2>3. m % N \in 0 .. N - 1
    BY <2>1, ModRange
  <2> QED
    BY <2>1, <2>2, <2>3
<1>3. PICK x \in Int : x = N * d
  BY <1>2
<1>4. n <= x /\ x <= n + N - 1
  BY <1>1, <1>2, <1>3
<1>5. (d < 0 => x < 0) /\ (d = 0 => x = 0)
  <2>1. PICK e \in Int : e = -d
    BY <1>2
  <2>2. d < 0 => N * e >= N
    BY <1>2, <2>1, MultipleAtLeast
  <2>3. N * d = -(N * e)
    BY <1>2, <2>1
  <2>4. PICK y \in Int : y = N * e
    BY <2>1
  <2> QED
    BY <1>2, <1>3, <2>2, <2>3, <2>4
<1>6. d \in Nat /\ (n > 1 => d >= 1)
  BY <1>2, <1>4, <1>5
<1>7. n > 1 => d < n
  <2> SUFFICES ASSUME n > 1, d >= n PROVE FALSE
    BY <1>6
  <2>1. PICK a \in Nat \ {0}, b \in Nat \ {0}, e \in Nat : N = a + 1 /\ n = b + 1 /\ d = (b + 1) + e
    <3>1. N - 1 \in Nat \ {0} /\ n - 1 \in Nat \ {0} /\ d - n \in Nat
      BY <1>6
    <3>2. N = (N - 1) + 1 /\ n = (n - 1) + 1 /\ d = ((n - 1) + 1) + (d - n)
      BY <1>6
    <3> QED
      BY <3>1, <3>2
  <2>2. x > n + N - 1
    BY <1>3, <2>1, SharesGrow
  <2> QED
    BY <1>3, <1>4, <2>2
<1> QED
  BY <1>3, <1>4, <1>6, <1>7

(* A vector that is no bitmap is split into smaller ones, ...              *)
LEMMA SharesSmaller ==
  ASSUME NEW n \in VectorSizes, n > NBIT
  PROVE  Share(n) \in VectorSizes /\ Share(n) \in 1 .. n - 1 /\ n <= NPTR * Share(n)
<1>1. n \in Nat /\ n <= Size /\ n > 1 /\ NPTR \in Nat /\ NPTR >= 2
  BY BitvecSizes DEF VectorSizes
<1>2. PICK d : d = Share(n)
  OBVIOUS
<1>3. d = (n + NPTR - 1) \div NPTR
  BY <1>2 DEF Share
<1>4. d \in 1 .. n - 1 /\ n <= NPTR * d
  BY <1>1, <1>3, ShareOut
<1>5. d \in 1 .. n - 1
  BY <1>4
<1>6. d \in VectorSizes
  BY <1>1, <1>5, BitvecSizes DEF VectorSizes
<1> QED
  BY <1>2, <1>4, <1>6

(* d shares of N are no less than what they belong to.                     *)
LEMMA InRange ==
  ASSUME NEW N \in Nat, NEW d \in Nat \ {0}, NEW i \in Nat, i < N * d
  PROVE  /\ i \div d \in 0 .. N - 1 /\ i % d \in 0 .. d - 1 /\ i = d * (i \div d) + (i % d)
<1>1. i \div d \in Int /\ i % d \in 0 .. d - 1 /\ i = d * (i \div d) + (i % d)
  BY DivMod, ModRange
<1>2. PICK q \in Int, r \in 0 .. d - 1 : q = i \div d /\ r = i % d /\ i = d * q + r
  BY <1>1
<1>3. PICK x \in Int, y \in Int : x = d * q /\ y = N * d
  BY <1>2
<1>4. q >= 0
  <2> SUFFICES ASSUME q < 0 PROVE FALSE
    BY <1>2
  <2>1. PICK e \in Nat \ {0} : q = -e
    <3>1. -q \in Nat \ {0} /\ q = -(-q)
      BY <1>2
    <3> QED
      BY <3>1
  <2>2. d * e >= d
    BY MultipleAtLeast
  <2>3. d * q = -(d * e)
    BY <2>1
  <2>4. PICK z \in Int : z = d * e
    OBVIOUS
  <2> QED
    BY <1>2, <1>3, <2>2, <2>3, <2>4
<1>5. q < N
  <2> SUFFICES ASSUME q >= N PROVE FALSE
    BY <1>2
  <2>1. PICK e \in Nat : q = N + e
    <3>1. q - N \in Nat /\ q = N + (q - N)
      BY <1>2
    <3> QED
      BY <3>1
  <2>2. d * (N + e) = N * d + d * e
    OBVIOUS
  <2>3. d * e >= 0
    OBVIOUS
  <2>4. PICK z \in Int : z = d * e
    OBVIOUS
  <2> QED
    BY <1>2, <1>3, <2>1, <2>2, <2>3, <2>4
<1> QED
  BY <1>1, <1>2, <1>4, <1>5

(* ... each number belonging to one of them.                               *)
LEMMA InShare ==
  ASSUME NEW n \in VectorSizes, n > NBIT, NEW i \in 0 .. n - 1, NEW d, d = Share(n)
  PROVE  i \div d \in Bins /\ i % d \in 0 .. d - 1 /\ i = d * (i \div d) + (i % d)
<1>1. d \in Nat \ {0} /\ n \in Nat /\ NPTR \in Nat /\ n <= NPTR * d
  BY SharesSmaller, BitvecSizes DEF VectorSizes
<1>2. i \div d \in 0 .. NPTR - 1 /\ i % d \in 0 .. d - 1 /\ i = d * (i \div d) + (i % d)
  <2>1. PICK N \in Nat : N = NPTR
    BY BitvecSizes
  <2>2. PICK p \in Int : p = N * d
    BY <1>1, <2>1
  <2>3. n \in Nat /\ n <= p
    BY <1>1, <2>1, <2>2, Zenon
  <2>4. i \in Nat /\ i < p
    BY <2>3
  <2>5. i < N * d
    BY <2>2, <2>4, Zenon
  <2>6. i \div d \in 0 .. N - 1 /\ i % d \in 0 .. d - 1 /\ i = d * (i \div d) + (i % d)
    BY <1>1, <2>1, <2>4, <2>5, InRange, Zenon
  <2> QED
    BY <2>1, <2>6, Zenon
<1> QED
  BY <1>2, Zenon DEF Bins

(* A number determines its part and its number there.                      *)
LEMMA OneShare ==
  ASSUME NEW d \in Nat \ {0}, NEW a \in Int, NEW b \in Int, NEW u \in 1 .. d, NEW v \in 1 .. d,
         d * a + u = d * b + v
  PROVE  a = b /\ u = v
<1>1. PICK e \in Int : e = b - a
  OBVIOUS
<1>2. d * e = d * b - d * a
  BY <1>1
<1>3. (u - 1) - (v - 1) = d * e
  BY <1>2
<1>4. u - 1 = v - 1
  BY <1>3, SamePlace
<1>5. d * e = 0
  BY <1>3, <1>4
<1>6. (e > 0 => d * e >= d) /\ (e < 0 => d * e <= -d)
  OBVIOUS
<1> QED
  BY <1>1, <1>4, <1>5, <1>6

-----------------------------------------------------------------------------
(* The recursive functions: each is what its definition says.              *)

VectorsLevel(n, V) ==
  [size : {n}, set : Nat, divisor : IF n <= NBIT THEN {0} ELSE {0, Share(n)},
   bitmap : SUBSET (0..(n - 1)), hash : [Places -> 0..n],
   sub : [Bins -> IF n <= NBIT THEN {Null} ELSE V \cup {Null}]]

BitsLevel(n, B) == [p \in Vectors[n] |-> BitsNode(n, p, B)]
SoundLevel(n, S) == [p \in Vectors[n] |-> SoundNode(n, p, Bits[Share(n)], S)]
SetLevel(n, S) ==
  [p \in Vectors[n] |-> [i \in 0..(n - 1) |-> [short \in BOOLEAN |-> SetNode(n, p, i, short, S)]]]
ClearLevel(n, C) == [p \in Vectors[n] |-> [i \in 0..(n - 1) |-> ClearNode(n, p, i, C)]]
GetLevel(n, G) == [p \in Vectors[n] |-> [i \in 0..n |-> GetNode(n, p, i, G)]]

(* A bitmap has no parts.                                                  *)
LEMMA VectorsSmall ==
  ASSUME NEW n \in VectorSizes, n <= NBIT, NEW f, NEW g
  PROVE  VectorsLevel(n, f) = VectorsLevel(n, g)
BY BitvecSizes DEF VectorSizes, VectorsLevel

(* The vectors.                                                             *)
LEMMA VectorsIs ==
  /\ Vectors = [n \in VectorSizes |-> VectorsLevel(n, Vectors[Share(n)])]
<1> DEFINE Up(f, k) == f = [n \in 0 .. k |-> VectorsLevel(n, f[Share(n)])]
           P == {k \in Nat : k <= Size => \E f : Up(f, k)}
<1>1. 0 \in P
  <2>1. PICK f : f = [n \in 0 .. 0 |-> VectorsLevel(n, 0)]
    OBVIOUS
  <2>2. \A n \in 0 .. 0 : f[n] = VectorsLevel(n, f[Share(n)])
    <3>1. 0 \in VectorSizes /\ 0 <= NBIT
      BY BitvecSizes DEF VectorSizes
    <3>2. f[0] = VectorsLevel(0, 0)
      BY <2>1
    <3>3. f[0] = VectorsLevel(0, f[Share(0)])
      BY <3>1, <3>2, VectorsSmall
    <3> QED
      BY <3>3
  <2>3. f = [n \in 0 .. 0 |-> f[n]]
    BY <2>1
  <2>4. Up(f, 0)
    BY <2>2, <2>3
  <2> QED
    BY <2>4
<1>2. ASSUME NEW k \in Nat, k \in P PROVE k + 1 \in P
  <2> SUFFICES ASSUME k + 1 <= Size PROVE \E f : Up(f, k + 1)
    OBVIOUS
  <2>1. k <= Size /\ 0 .. k + 1 \subseteq VectorSizes
    BY BitvecSizes DEF VectorSizes
  <2>2. PICK f : f = [n \in 0 .. k |-> VectorsLevel(n, f[Share(n)])]
    BY <1>2, <2>1
  <2>3. PICK g : g = [n \in 0 .. k + 1 |-> IF n \in 0 .. k THEN f[n] ELSE VectorsLevel(k + 1, f[Share(k + 1)])]
    OBVIOUS
  <2>4. ASSUME NEW n \in 0 .. k + 1 PROVE g[n] = VectorsLevel(n, g[Share(n)])
    <3>1. g[n] = VectorsLevel(n, f[Share(n)])
      <4>1. CASE n \in 0 .. k
        BY <2>2, <2>3, <4>1
      <4>2. CASE n \notin 0 .. k
        <5>1. n = k + 1
          BY <4>2
        <5> QED
          BY <2>3, <4>2, <5>1
      <4> QED
        BY <4>1, <4>2
    <3>2. CASE n <= NBIT
      BY <2>1, <3>1, <3>2, VectorsSmall
    <3>3. CASE n > NBIT
      <4>1. Share(n) \in 0 .. k
        BY <2>1, <3>3, SharesSmaller
      <4>2. g[Share(n)] = f[Share(n)]
        BY <2>3, <4>1
      <4> QED
        BY <3>1, <4>2
    <3> QED
      BY <2>1, <3>2, <3>3, BitvecSizes DEF VectorSizes
  <2>5. g = [n \in 0 .. k + 1 |-> g[n]]
    BY <2>3
  <2>6. Up(g, k + 1)
    BY <2>4, <2>5
  <2> QED
    BY <2>6
<1> HIDE DEF P
<1>3. Size \in P
  BY <1>1, <1>2, NumberInduction, BitvecSizes
<1>4. \E f : Up(f, Size)
  BY <1>3, BitvecSizes DEF P
<1>5. Vectors = CHOOSE f : Up(f, Size)
  BY DEF Vectors, VectorsLevel, VectorSizes
<1> HIDE DEF Up
<1>6. Up(Vectors, Size)
  BY <1>4, <1>5
<1> QED
  BY <1>6 DEF Up, VectorSizes

(* A bitmap has no parts.                                                  *)
LEMMA BitsSmall ==
  ASSUME NEW n \in VectorSizes, n <= NBIT, NEW f, NEW g
  PROVE  BitsLevel(n, f) = BitsLevel(n, g)
BY BitvecSizes DEF VectorSizes, BitsLevel, BitsNode

(* The numbers in a vector.                                                 *)
LEMMA BitsIs ==
  /\ Bits = [n \in VectorSizes |-> BitsLevel(n, Bits[Share(n)])]
<1> DEFINE Up(f, k) == f = [n \in 0 .. k |-> BitsLevel(n, f[Share(n)])]
           P == {k \in Nat : k <= Size => \E f : Up(f, k)}
<1>1. 0 \in P
  <2>1. PICK f : f = [n \in 0 .. 0 |-> BitsLevel(n, 0)]
    OBVIOUS
  <2>2. \A n \in 0 .. 0 : f[n] = BitsLevel(n, f[Share(n)])
    <3>1. 0 \in VectorSizes /\ 0 <= NBIT
      BY BitvecSizes DEF VectorSizes
    <3>2. f[0] = BitsLevel(0, 0)
      BY <2>1
    <3>3. f[0] = BitsLevel(0, f[Share(0)])
      BY <3>1, <3>2, BitsSmall
    <3> QED
      BY <3>3
  <2>3. f = [n \in 0 .. 0 |-> f[n]]
    BY <2>1
  <2>4. Up(f, 0)
    BY <2>2, <2>3
  <2> QED
    BY <2>4
<1>2. ASSUME NEW k \in Nat, k \in P PROVE k + 1 \in P
  <2> SUFFICES ASSUME k + 1 <= Size PROVE \E f : Up(f, k + 1)
    OBVIOUS
  <2>1. k <= Size /\ 0 .. k + 1 \subseteq VectorSizes
    BY BitvecSizes DEF VectorSizes
  <2>2. PICK f : f = [n \in 0 .. k |-> BitsLevel(n, f[Share(n)])]
    BY <1>2, <2>1
  <2>3. PICK g : g = [n \in 0 .. k + 1 |-> IF n \in 0 .. k THEN f[n] ELSE BitsLevel(k + 1, f[Share(k + 1)])]
    OBVIOUS
  <2>4. ASSUME NEW n \in 0 .. k + 1 PROVE g[n] = BitsLevel(n, g[Share(n)])
    <3>1. g[n] = BitsLevel(n, f[Share(n)])
      <4>1. CASE n \in 0 .. k
        BY <2>2, <2>3, <4>1
      <4>2. CASE n \notin 0 .. k
        <5>1. n = k + 1
          BY <4>2
        <5> QED
          BY <2>3, <4>2, <5>1
      <4> QED
        BY <4>1, <4>2
    <3>2. CASE n <= NBIT
      BY <2>1, <3>1, <3>2, BitsSmall
    <3>3. CASE n > NBIT
      <4>1. Share(n) \in 0 .. k
        BY <2>1, <3>3, SharesSmaller
      <4>2. g[Share(n)] = f[Share(n)]
        BY <2>3, <4>1
      <4> QED
        BY <3>1, <4>2
    <3> QED
      BY <2>1, <3>2, <3>3, BitvecSizes DEF VectorSizes
  <2>5. g = [n \in 0 .. k + 1 |-> g[n]]
    BY <2>3
  <2>6. Up(g, k + 1)
    BY <2>4, <2>5
  <2> QED
    BY <2>6
<1> HIDE DEF P
<1>3. Size \in P
  BY <1>1, <1>2, NumberInduction, BitvecSizes
<1>4. \E f : Up(f, Size)
  BY <1>3, BitvecSizes DEF P
<1>5. Bits = CHOOSE f : Up(f, Size)
  BY DEF Bits, BitsLevel, VectorSizes
<1> HIDE DEF Up
<1>6. Up(Bits, Size)
  BY <1>4, <1>5
<1> QED
  BY <1>6 DEF Up, VectorSizes

(* A bitmap has no parts.                                                  *)
LEMMA SoundSmall ==
  ASSUME NEW n \in VectorSizes, n <= NBIT, NEW f, NEW g
  PROVE  SoundLevel(n, f) = SoundLevel(n, g)
BY BitvecSizes DEF VectorSizes, SoundLevel, SoundNode

(* The vectors that are sound.                                              *)
LEMMA SoundIs ==
  /\ Sound = [n \in VectorSizes |-> SoundLevel(n, Sound[Share(n)])]
<1> DEFINE Up(f, k) == f = [n \in 0 .. k |-> SoundLevel(n, f[Share(n)])]
           P == {k \in Nat : k <= Size => \E f : Up(f, k)}
<1>1. 0 \in P
  <2>1. PICK f : f = [n \in 0 .. 0 |-> SoundLevel(n, 0)]
    OBVIOUS
  <2>2. \A n \in 0 .. 0 : f[n] = SoundLevel(n, f[Share(n)])
    <3>1. 0 \in VectorSizes /\ 0 <= NBIT
      BY BitvecSizes DEF VectorSizes
    <3>2. f[0] = SoundLevel(0, 0)
      BY <2>1
    <3>3. f[0] = SoundLevel(0, f[Share(0)])
      BY <3>1, <3>2, SoundSmall
    <3> QED
      BY <3>3
  <2>3. f = [n \in 0 .. 0 |-> f[n]]
    BY <2>1
  <2>4. Up(f, 0)
    BY <2>2, <2>3
  <2> QED
    BY <2>4
<1>2. ASSUME NEW k \in Nat, k \in P PROVE k + 1 \in P
  <2> SUFFICES ASSUME k + 1 <= Size PROVE \E f : Up(f, k + 1)
    OBVIOUS
  <2>1. k <= Size /\ 0 .. k + 1 \subseteq VectorSizes
    BY BitvecSizes DEF VectorSizes
  <2>2. PICK f : f = [n \in 0 .. k |-> SoundLevel(n, f[Share(n)])]
    BY <1>2, <2>1
  <2>3. PICK g : g = [n \in 0 .. k + 1 |-> IF n \in 0 .. k THEN f[n] ELSE SoundLevel(k + 1, f[Share(k + 1)])]
    OBVIOUS
  <2>4. ASSUME NEW n \in 0 .. k + 1 PROVE g[n] = SoundLevel(n, g[Share(n)])
    <3>1. g[n] = SoundLevel(n, f[Share(n)])
      <4>1. CASE n \in 0 .. k
        BY <2>2, <2>3, <4>1
      <4>2. CASE n \notin 0 .. k
        <5>1. n = k + 1
          BY <4>2
        <5> QED
          BY <2>3, <4>2, <5>1
      <4> QED
        BY <4>1, <4>2
    <3>2. CASE n <= NBIT
      BY <2>1, <3>1, <3>2, SoundSmall
    <3>3. CASE n > NBIT
      <4>1. Share(n) \in 0 .. k
        BY <2>1, <3>3, SharesSmaller
      <4>2. g[Share(n)] = f[Share(n)]
        BY <2>3, <4>1
      <4> QED
        BY <3>1, <4>2
    <3> QED
      BY <2>1, <3>2, <3>3, BitvecSizes DEF VectorSizes
  <2>5. g = [n \in 0 .. k + 1 |-> g[n]]
    BY <2>3
  <2>6. Up(g, k + 1)
    BY <2>4, <2>5
  <2> QED
    BY <2>6
<1> HIDE DEF P
<1>3. Size \in P
  BY <1>1, <1>2, NumberInduction, BitvecSizes
<1>4. \E f : Up(f, Size)
  BY <1>3, BitvecSizes DEF P
<1>5. Sound = CHOOSE f : Up(f, Size)
  BY DEF Sound, SoundLevel, VectorSizes
<1> HIDE DEF Up
<1>6. Up(Sound, Size)
  BY <1>4, <1>5
<1> QED
  BY <1>6 DEF Up, VectorSizes

(* A bitmap has no parts.                                                  *)
LEMMA SetBitSmall ==
  ASSUME NEW n \in VectorSizes, n <= NBIT, NEW f, NEW g
  PROVE  SetLevel(n, f) = SetLevel(n, g)
BY BitvecSizes DEF VectorSizes, SetLevel, SetNode

(* Setting a number.                                                        *)
LEMMA SetBitIs ==
  /\ SetBit = [n \in VectorSizes |-> SetLevel(n, SetBit[Share(n)])]
<1> DEFINE Up(f, k) == f = [n \in 0 .. k |-> SetLevel(n, f[Share(n)])]
           P == {k \in Nat : k <= Size => \E f : Up(f, k)}
<1>1. 0 \in P
  <2>1. PICK f : f = [n \in 0 .. 0 |-> SetLevel(n, 0)]
    OBVIOUS
  <2>2. \A n \in 0 .. 0 : f[n] = SetLevel(n, f[Share(n)])
    <3>1. 0 \in VectorSizes /\ 0 <= NBIT
      BY BitvecSizes DEF VectorSizes
    <3>2. f[0] = SetLevel(0, 0)
      BY <2>1
    <3>3. f[0] = SetLevel(0, f[Share(0)])
      BY <3>1, <3>2, SetBitSmall
    <3> QED
      BY <3>3
  <2>3. f = [n \in 0 .. 0 |-> f[n]]
    BY <2>1
  <2>4. Up(f, 0)
    BY <2>2, <2>3
  <2> QED
    BY <2>4
<1>2. ASSUME NEW k \in Nat, k \in P PROVE k + 1 \in P
  <2> SUFFICES ASSUME k + 1 <= Size PROVE \E f : Up(f, k + 1)
    OBVIOUS
  <2>1. k <= Size /\ 0 .. k + 1 \subseteq VectorSizes
    BY BitvecSizes DEF VectorSizes
  <2>2. PICK f : f = [n \in 0 .. k |-> SetLevel(n, f[Share(n)])]
    BY <1>2, <2>1
  <2>3. PICK g : g = [n \in 0 .. k + 1 |-> IF n \in 0 .. k THEN f[n] ELSE SetLevel(k + 1, f[Share(k + 1)])]
    OBVIOUS
  <2>4. ASSUME NEW n \in 0 .. k + 1 PROVE g[n] = SetLevel(n, g[Share(n)])
    <3>1. g[n] = SetLevel(n, f[Share(n)])
      <4>1. CASE n \in 0 .. k
        BY <2>2, <2>3, <4>1
      <4>2. CASE n \notin 0 .. k
        <5>1. n = k + 1
          BY <4>2
        <5> QED
          BY <2>3, <4>2, <5>1
      <4> QED
        BY <4>1, <4>2
    <3>2. CASE n <= NBIT
      BY <2>1, <3>1, <3>2, SetBitSmall
    <3>3. CASE n > NBIT
      <4>1. Share(n) \in 0 .. k
        BY <2>1, <3>3, SharesSmaller
      <4>2. g[Share(n)] = f[Share(n)]
        BY <2>3, <4>1
      <4> QED
        BY <3>1, <4>2
    <3> QED
      BY <2>1, <3>2, <3>3, BitvecSizes DEF VectorSizes
  <2>5. g = [n \in 0 .. k + 1 |-> g[n]]
    BY <2>3
  <2>6. Up(g, k + 1)
    BY <2>4, <2>5
  <2> QED
    BY <2>6
<1> HIDE DEF P
<1>3. Size \in P
  BY <1>1, <1>2, NumberInduction, BitvecSizes
<1>4. \E f : Up(f, Size)
  BY <1>3, BitvecSizes DEF P
<1>5. SetBit = CHOOSE f : Up(f, Size)
  BY DEF SetBit, SetLevel, VectorSizes
<1> HIDE DEF Up
<1>6. Up(SetBit, Size)
  BY <1>4, <1>5
<1> QED
  BY <1>6 DEF Up, VectorSizes

(* A bitmap has no parts.                                                  *)
LEMMA ClearBitSmall ==
  ASSUME NEW n \in VectorSizes, n <= NBIT, NEW f, NEW g
  PROVE  ClearLevel(n, f) = ClearLevel(n, g)
BY BitvecSizes DEF VectorSizes, ClearLevel, ClearNode

(* Clearing a number.                                                       *)
LEMMA ClearBitIs ==
  /\ ClearBit = [n \in VectorSizes |-> ClearLevel(n, ClearBit[Share(n)])]
<1> DEFINE Up(f, k) == f = [n \in 0 .. k |-> ClearLevel(n, f[Share(n)])]
           P == {k \in Nat : k <= Size => \E f : Up(f, k)}
<1>1. 0 \in P
  <2>1. PICK f : f = [n \in 0 .. 0 |-> ClearLevel(n, 0)]
    OBVIOUS
  <2>2. \A n \in 0 .. 0 : f[n] = ClearLevel(n, f[Share(n)])
    <3>1. 0 \in VectorSizes /\ 0 <= NBIT
      BY BitvecSizes DEF VectorSizes
    <3>2. f[0] = ClearLevel(0, 0)
      BY <2>1
    <3>3. f[0] = ClearLevel(0, f[Share(0)])
      BY <3>1, <3>2, ClearBitSmall
    <3> QED
      BY <3>3
  <2>3. f = [n \in 0 .. 0 |-> f[n]]
    BY <2>1
  <2>4. Up(f, 0)
    BY <2>2, <2>3
  <2> QED
    BY <2>4
<1>2. ASSUME NEW k \in Nat, k \in P PROVE k + 1 \in P
  <2> SUFFICES ASSUME k + 1 <= Size PROVE \E f : Up(f, k + 1)
    OBVIOUS
  <2>1. k <= Size /\ 0 .. k + 1 \subseteq VectorSizes
    BY BitvecSizes DEF VectorSizes
  <2>2. PICK f : f = [n \in 0 .. k |-> ClearLevel(n, f[Share(n)])]
    BY <1>2, <2>1
  <2>3. PICK g : g = [n \in 0 .. k + 1 |-> IF n \in 0 .. k THEN f[n] ELSE ClearLevel(k + 1, f[Share(k + 1)])]
    OBVIOUS
  <2>4. ASSUME NEW n \in 0 .. k + 1 PROVE g[n] = ClearLevel(n, g[Share(n)])
    <3>1. g[n] = ClearLevel(n, f[Share(n)])
      <4>1. CASE n \in 0 .. k
        BY <2>2, <2>3, <4>1
      <4>2. CASE n \notin 0 .. k
        <5>1. n = k + 1
          BY <4>2
        <5> QED
          BY <2>3, <4>2, <5>1
      <4> QED
        BY <4>1, <4>2
    <3>2. CASE n <= NBIT
      BY <2>1, <3>1, <3>2, ClearBitSmall
    <3>3. CASE n > NBIT
      <4>1. Share(n) \in 0 .. k
        BY <2>1, <3>3, SharesSmaller
      <4>2. g[Share(n)] = f[Share(n)]
        BY <2>3, <4>1
      <4> QED
        BY <3>1, <4>2
    <3> QED
      BY <2>1, <3>2, <3>3, BitvecSizes DEF VectorSizes
  <2>5. g = [n \in 0 .. k + 1 |-> g[n]]
    BY <2>3
  <2>6. Up(g, k + 1)
    BY <2>4, <2>5
  <2> QED
    BY <2>6
<1> HIDE DEF P
<1>3. Size \in P
  BY <1>1, <1>2, NumberInduction, BitvecSizes
<1>4. \E f : Up(f, Size)
  BY <1>3, BitvecSizes DEF P
<1>5. ClearBit = CHOOSE f : Up(f, Size)
  BY DEF ClearBit, ClearLevel, VectorSizes
<1> HIDE DEF Up
<1>6. Up(ClearBit, Size)
  BY <1>4, <1>5
<1> QED
  BY <1>6 DEF Up, VectorSizes

(* A bitmap has no parts.                                                  *)
LEMMA GetBitSmall ==
  ASSUME NEW n \in VectorSizes, n <= NBIT, NEW f, NEW g
  PROVE  GetLevel(n, f) = GetLevel(n, g)
BY BitvecSizes DEF VectorSizes, GetLevel, GetNode

(* Asking for a number.                                                     *)
LEMMA GetBitIs ==
  /\ GetBit = [n \in VectorSizes |-> GetLevel(n, GetBit[Share(n)])]
<1> DEFINE Up(f, k) == f = [n \in 0 .. k |-> GetLevel(n, f[Share(n)])]
           P == {k \in Nat : k <= Size => \E f : Up(f, k)}
<1>1. 0 \in P
  <2>1. PICK f : f = [n \in 0 .. 0 |-> GetLevel(n, 0)]
    OBVIOUS
  <2>2. \A n \in 0 .. 0 : f[n] = GetLevel(n, f[Share(n)])
    <3>1. 0 \in VectorSizes /\ 0 <= NBIT
      BY BitvecSizes DEF VectorSizes
    <3>2. f[0] = GetLevel(0, 0)
      BY <2>1
    <3>3. f[0] = GetLevel(0, f[Share(0)])
      BY <3>1, <3>2, GetBitSmall
    <3> QED
      BY <3>3
  <2>3. f = [n \in 0 .. 0 |-> f[n]]
    BY <2>1
  <2>4. Up(f, 0)
    BY <2>2, <2>3
  <2> QED
    BY <2>4
<1>2. ASSUME NEW k \in Nat, k \in P PROVE k + 1 \in P
  <2> SUFFICES ASSUME k + 1 <= Size PROVE \E f : Up(f, k + 1)
    OBVIOUS
  <2>1. k <= Size /\ 0 .. k + 1 \subseteq VectorSizes
    BY BitvecSizes DEF VectorSizes
  <2>2. PICK f : f = [n \in 0 .. k |-> GetLevel(n, f[Share(n)])]
    BY <1>2, <2>1
  <2>3. PICK g : g = [n \in 0 .. k + 1 |-> IF n \in 0 .. k THEN f[n] ELSE GetLevel(k + 1, f[Share(k + 1)])]
    OBVIOUS
  <2>4. ASSUME NEW n \in 0 .. k + 1 PROVE g[n] = GetLevel(n, g[Share(n)])
    <3>1. g[n] = GetLevel(n, f[Share(n)])
      <4>1. CASE n \in 0 .. k
        BY <2>2, <2>3, <4>1
      <4>2. CASE n \notin 0 .. k
        <5>1. n = k + 1
          BY <4>2
        <5> QED
          BY <2>3, <4>2, <5>1
      <4> QED
        BY <4>1, <4>2
    <3>2. CASE n <= NBIT
      BY <2>1, <3>1, <3>2, GetBitSmall
    <3>3. CASE n > NBIT
      <4>1. Share(n) \in 0 .. k
        BY <2>1, <3>3, SharesSmaller
      <4>2. g[Share(n)] = f[Share(n)]
        BY <2>3, <4>1
      <4> QED
        BY <3>1, <4>2
    <3> QED
      BY <2>1, <3>2, <3>3, BitvecSizes DEF VectorSizes
  <2>5. g = [n \in 0 .. k + 1 |-> g[n]]
    BY <2>3
  <2>6. Up(g, k + 1)
    BY <2>4, <2>5
  <2> QED
    BY <2>6
<1> HIDE DEF P
<1>3. Size \in P
  BY <1>1, <1>2, NumberInduction, BitvecSizes
<1>4. \E f : Up(f, Size)
  BY <1>3, BitvecSizes DEF P
<1>5. GetBit = CHOOSE f : Up(f, Size)
  BY DEF GetBit, GetLevel, VectorSizes
<1> HIDE DEF Up
<1>6. Up(GetBit, Size)
  BY <1>4, <1>5
<1> QED
  BY <1>6 DEF Up, VectorSizes

-----------------------------------------------------------------------------
(* The hash.                                                               *)

Hashes == [Places -> Nat]
Values(hash) == {hash[s] : s \in Places} \ {0}
InUse(hash) == {s \in Places : hash[s] # 0}

(* Number j is found, or a free place for it, after n places in vain.      *)
Reached(hash, j, n) ==
  /\ hash[Probe(j, n)] \in {0, j + 1}
  /\ \A k \in 0..(n - 1) : hash[Probe(j, k)] \notin {0, j + 1}

(* Induction's counterpart: the least number of a set.                     *)
LEMMA LeastNumber ==
  ASSUME NEW A, A \subseteq Nat, A # {}
  PROVE  \E m \in A : \A k \in A : m <= k
<1>1. PICK m \in A : \A k \in A : ~(<<k, m>> \in OpToRel(<, Nat))
  BY NatLessThanWellFounded, WFMin
<1>2. ASSUME NEW k \in A PROVE m <= k
  <2>1. k \in Nat /\ m \in Nat
    OBVIOUS
  <2>2. k < m => <<k, m>> \in OpToRel(<, Nat)
    BY <2>1 DEF OpToRel
  <2>3. ~(k < m)
    BY <1>1, <2>2
  <2> QED
    BY <2>1, <2>3
<1> QED
  BY <1>2

(* Probing comes by places only, ...                                       *)
LEMMA ProbeIn ==
  ASSUME NEW j \in Nat, NEW n \in Nat
  PROVE  Probe(j, n) \in Places
<1>1. NINT \in Nat \ {0}
  BY BitvecSizes
<1>2. PICK m \in Int : m = j % NINT
  BY <1>1, ModRange
<1>3. (m + n) % NINT \in 0 .. NINT - 1
  BY <1>1, ModRange
<1> QED
  BY <1>2, <1>3 DEF Probe, HASH, Places

(* ... and by all of them.                                                 *)
LEMMA ProbeReaches ==
  ASSUME NEW j \in Nat, NEW s \in Places
  PROVE  \E n \in Places : Probe(j, n) = s
<1>1. NINT \in Nat \ {0} /\ s \in 0 .. NINT - 1 /\ s \in Int
  BY BitvecSizes DEF Places
<1>2. PICK m \in 0 .. NINT - 1 : m = j % NINT
  BY <1>1, ModRange
<1>3. PICK n \in 0 .. NINT - 1 : n = (s - m) % NINT
  <2>1. s - m \in Int
    BY <1>1
  <2> QED
    BY <1>1, <2>1, ModRange
<1>4. (n + m) % NINT = ((s - m) + m) % NINT
  <2>1. s - m \in Int /\ m \in Int
    BY <1>1
  <2>2. (((s - m) % NINT) + m) % NINT = ((s - m) + m) % NINT
    BY <1>1, <2>1, ModAdd
  <2> QED
    BY <1>3, <2>2
<1>5. (s - m) + m = s /\ n + m = m + n
  BY <1>1
<1>6. s % NINT = s
  BY <1>1, ModSmall
<1>7. (m + n) % NINT = s
  BY <1>4, <1>5, <1>6
<1> QED
  BY <1>2, <1>3, <1>7 DEF Probe, HASH, Places

(* As long as a place is free, probing ends.                               *)
LEMMA PlaceOfIs ==
  ASSUME NEW hash \in Hashes, NEW f \in Places, hash[f] = 0, NEW j \in Nat
  PROVE  \E n \in Places : Reached(hash, j, n) /\ PlaceOf(hash, j) = Probe(j, n)
<1> DEFINE A == {n \in Places : hash[Probe(j, n)] \in {0, j + 1}}
<1>1. A # {} /\ A \subseteq Nat
  <2>1. PICK n \in Places : Probe(j, n) = f
    BY ProbeReaches
  <2>2. n \in A
    BY <2>1
  <2>3. A \subseteq Nat
    BY DEF Places
  <2> QED
    BY <2>2, <2>3
<1>2. PICK m \in A : \A k \in A : m <= k
  BY <1>1, LeastNumber
<1>3. m \in Places /\ m \in Nat /\ m <= NINT - 1
  BY <1>1, BitvecSizes DEF Places
<1>4. Reached(hash, j, m)
  <2>1. ASSUME NEW k \in 0 .. m - 1 PROVE hash[Probe(j, k)] \notin {0, j + 1}
    <3>1. k \in Places /\ ~(m <= k)
      BY <1>3, BitvecSizes DEF Places
    <3> QED
      BY <1>2, <3>1
  <2> QED
    BY <2>1 DEF Reached
<1> DEFINE n == CHOOSE n \in Places :
                  /\ hash[Probe(j, n)] \in {0, j + 1}
                  /\ \A k \in 0..(n - 1) : hash[Probe(j, k)] \notin {0, j + 1}
<1>5. n \in Places /\ Reached(hash, j, n)
  BY <1>3, <1>4 DEF Reached
<1>6. PlaceOf(hash, j) = Probe(j, n)
  BY DEF PlaceOf
<1> QED
  BY <1>5, <1>6

(* It ends in one way.                                                     *)
LEMMA OneFirst ==
  ASSUME NEW hash, NEW j, NEW n \in Places, NEW m \in Places, Reached(hash, j, n), Reached(hash, j, m)
  PROVE  n = m
<1>1. n \in Nat /\ m \in Nat
  BY DEF Places
<1>2. n < m => n \in 0 .. m - 1
  BY <1>1
<1>3. m < n => m \in 0 .. n - 1
  BY <1>1
<1> QED
  BY <1>1, <1>2, <1>3 DEF Reached

(* Probing for a number that is stored finds it, in one place.             *)
LEMMA FoundIs ==
  ASSUME NEW hash \in Hashes, NEW set, SoundHash(hash, set), NEW s \in Places, hash[s] # 0
  PROVE  PlaceOf(hash, hash[s] - 1) = s
<1>1. hash[s] \in Nat \ {0}
  BY DEF Hashes
<1>2. PICK j \in Nat : j = hash[s] - 1 /\ hash[s] = j + 1
  BY <1>1
<1>3. PICK n \in Places : Probe(j, n) = s /\ \A k \in 0..(n - 1) : hash[Probe(j, k)] \notin {0, j + 1}
  BY <1>2 DEF SoundHash
<1>4. Reached(hash, j, n)
  BY <1>2, <1>3 DEF Reached
<1>5. PICK f \in Places : hash[f] = 0
  BY DEF SoundHash
<1>6. PICK m \in Places : Reached(hash, j, m) /\ PlaceOf(hash, j) = Probe(j, m)
  BY <1>5, PlaceOfIs
<1>7. m = n
  BY <1>4, <1>6, OneFirst
<1> QED
  BY <1>2, <1>3, <1>6, <1>7

(* No number is stored twice.                                              *)
LEMMA StoredOnce ==
  ASSUME NEW hash \in Hashes, NEW set, SoundHash(hash, set),
         NEW s \in Places, NEW t \in Places, hash[s] # 0, hash[s] = hash[t]
  PROVE  s = t
<1>1. PlaceOf(hash, hash[s] - 1) = s
  BY FoundIs
<1>2. PlaceOf(hash, hash[t] - 1) = t
  BY FoundIs
<1> QED
  BY <1>1, <1>2

(* The places, and how many of them are in use.                            *)
LEMMA PlacesFinite ==
  /\ IsFiniteSet(Places) /\ Cardinality(Places) = NINT
  /\ \A A : A \subseteq Places => IsFiniteSet(A) /\ Cardinality(A) \in Nat
<1>1. IsFiniteSet(Places) /\ Cardinality(Places) = NINT
  <2>1. NINT - 1 \in Int /\ 0 \in Int /\ NINT \in Nat /\ 0 <= NINT - 1 /\ NINT - 1 - 0 + 1 = NINT
    BY BitvecSizes
  <2> QED
    BY <2>1, FS_Interval DEF Places
<1>2. ASSUME NEW A, A \subseteq Places PROVE IsFiniteSet(A) /\ Cardinality(A) \in Nat
  BY <1>1, <1>2, FS_Subset, FS_CardinalityType
<1> QED
  BY <1>1, <1>2

(* With a place left, a place is free.                                     *)
LEMMA PlaceLeft ==
  ASSUME NEW hash, Cardinality(InUse(hash)) < NINT
  PROVE  \E s \in Places : hash[s] = 0
<1> SUFFICES ASSUME \A s \in Places : hash[s] # 0 PROVE FALSE
  OBVIOUS
<1>1. InUse(hash) = Places
  BY DEF InUse
<1> QED
  BY <1>1, PlacesFinite, BitvecSizes

(* A free place is not in use.                                             *)
LEMMA SetBelow ==
  ASSUME NEW hash, NEW set, SoundHash(hash, set)
  PROVE  set = Cardinality(InUse(hash)) /\ set \in 0 .. NINT - 1
<1>1. set = Cardinality(InUse(hash)) /\ InUse(hash) \subseteq Places
  BY DEF SoundHash, InUse
<1>2. InUse(hash) # Places
  BY DEF SoundHash, InUse
<1>3. Cardinality(InUse(hash)) <= NINT /\ (Cardinality(InUse(hash)) = NINT => InUse(hash) = Places)
  BY <1>1, PlacesFinite, FS_Subset
<1>4. Cardinality(InUse(hash)) \in Nat
  BY <1>1, PlacesFinite
<1> QED
  BY <1>1, <1>2, <1>3, <1>4, BitvecSizes

(* A new number goes to a free place, where probing will find it.          *)
LEMMA StoreIs ==
  ASSUME NEW hash \in Hashes, NEW set, SoundHash(hash, set), NEW j \in Nat,
         j + 1 \notin Values(hash), set + 1 < NINT,
         NEW s, s = PlaceOf(hash, j), NEW new, new = [hash EXCEPT ![s] = j + 1]
  PROVE  /\ s \in Places /\ hash[s] = 0
         /\ SoundHash(new, set + 1) /\ Values(new) = Values(hash) \cup {j + 1}
<1>0. set = Cardinality(InUse(hash)) /\ set \in Nat
  BY SetBelow
<1>1. PICK f \in Places : hash[f] = 0
  BY DEF SoundHash
<1>2. PICK n \in Places : Reached(hash, j, n) /\ s = Probe(j, n)
  BY <1>1, PlaceOfIs
<1>3. s \in Places
  BY <1>2, ProbeIn DEF Places
<1>4. hash[s] = 0
  <2>1. hash[s] \in {0, j + 1}
    BY <1>2 DEF Reached
  <2>2. hash[s] # j + 1
    BY <1>3 DEF Values
  <2> QED
    BY <2>1, <2>2
<1>5. /\ new[s] = j + 1 /\ j + 1 # 0 /\ (j + 1) - 1 = j
      /\ \A t \in Places : t # s => new[t] = hash[t]
  BY <1>3 DEF Hashes
<1>6. InUse(new) = InUse(hash) \cup {s} /\ s \notin InUse(hash)
  BY <1>3, <1>4, <1>5 DEF InUse
<1>7. Cardinality(InUse(new)) = set + 1
  <2>1. InUse(hash) \subseteq Places
    BY DEF InUse
  <2>2. IsFiniteSet(InUse(hash))
    BY <2>1, PlacesFinite
  <2> QED
    BY <1>0, <1>6, <2>2, FS_AddElement
<1>8. ASSUME NEW t \in Places, new[t] # 0
      PROVE  \E m \in Places : /\ Probe(new[t] - 1, m) = t
                               /\ \A k \in 0..(m - 1) : new[Probe(new[t] - 1, k)] \notin {0, new[t]}
  <2>1. CASE t = s
    <3>1. ASSUME NEW k \in 0 .. n - 1 PROVE new[Probe(j, k)] \notin {0, j + 1}
      <4>1. k \in Nat /\ hash[Probe(j, k)] \notin {0, j + 1}
        BY <1>2 DEF Reached, Places
      <4>2. Probe(j, k) \in Places
        BY <4>1, ProbeIn
      <4>3. Probe(j, k) # s
        BY <1>4, <4>1
      <4> QED
        BY <1>5, <4>1, <4>2, <4>3
    <3> QED
      BY <1>2, <1>5, <2>1, <3>1
  <2>2. CASE t # s
    <3>1. new[t] = hash[t] /\ hash[t] # 0
      BY <1>5, <1>8, <2>2
    <3>2. PICK i \in Nat : i = hash[t] - 1 /\ hash[t] = i + 1
      <4>1. hash[t] \in Nat
        BY DEF Hashes
      <4>2. hash[t] - 1 \in Nat /\ hash[t] = (hash[t] - 1) + 1
        BY <3>1, <4>1
      <4> QED
        BY <4>2
    <3>3. i # j
      BY <3>1, <3>2 DEF Values
    <3>4. PICK m \in Places : Probe(i, m) = t /\ \A k \in 0..(m - 1) : hash[Probe(i, k)] \notin {0, hash[t]}
      BY <3>1, <3>2 DEF SoundHash
    <3>5. ASSUME NEW k \in 0 .. m - 1 PROVE new[Probe(i, k)] \notin {0, i + 1}
      <4>1. k \in Nat /\ hash[Probe(i, k)] \notin {0, i + 1}
        BY <3>2, <3>4 DEF Places
      <4>2. Probe(i, k) \in Places
        BY <4>1, ProbeIn
      <4>3. Probe(i, k) # s
        BY <1>4, <4>1
      <4> QED
        BY <1>5, <4>1, <4>2, <4>3
    <3> QED
      BY <3>1, <3>2, <3>4, <3>5
  <2> QED
    BY <2>1, <2>2
<1>9. SoundHash(new, set + 1)
  <2>1. \E t \in Places : new[t] = 0
    BY <1>0, <1>7, PlaceLeft
  <2> QED
    BY <1>7, <1>8, <2>1 DEF SoundHash, InUse
<1>10. Values(new) = Values(hash) \cup {j + 1}
  <2>1. ASSUME NEW v, v \in Values(new) PROVE v \in Values(hash) \cup {j + 1}
    <3>1. PICK t \in Places : v = new[t] /\ v # 0
      BY <2>1 DEF Values
    <3> QED
      BY <1>5, <3>1 DEF Values
  <2>2. ASSUME NEW v, v \in Values(hash) PROVE v \in Values(new)
    <3>1. PICK t \in Places : v = hash[t] /\ v # 0
      BY <2>2 DEF Values
    <3>2. new[t] = v
      BY <1>4, <1>5, <3>1
    <3> QED
      BY <3>1, <3>2 DEF Values
  <2>3. j + 1 \in Values(new)
    BY <1>3, <1>5 DEF Values
  <2> QED
    BY <2>1, <2>2, <2>3
<1> QED
  BY <1>3, <1>4, <1>9, <1>10

-----------------------------------------------------------------------------
(* Vectors.                                                                *)

Subs(n) == IF n <= NBIT THEN {Null} ELSE Vectors[Share(n)] \cup {Null}
Divisors(n) == IF n <= NBIT THEN {0} ELSE {0, Share(n)}

IsRecord(p) ==
  p = [size |-> p.size, set |-> p.set, divisor |-> p.divisor,
       bitmap |-> p.bitmap, hash |-> p.hash, sub |-> p.sub]

(* What a record is.                                                       *)
LEMMA RecordIs ==
  ASSUME NEW A, NEW B, NEW C, NEW D, NEW E, NEW F, NEW p
  PROVE  p \in [size : A, set : B, divisor : C, bitmap : D, hash : E, sub : F]
         <=> /\ IsRecord(p) /\ p.size \in A /\ p.set \in B /\ p.divisor \in C
             /\ p.bitmap \in D /\ p.hash \in E /\ p.sub \in F
BY DEF IsRecord

(* The type of a vector.                                                   *)
LEMMA VectorTypes ==
  ASSUME NEW n \in VectorSizes, NEW p
  PROVE  p \in Vectors[n]
         <=> /\ IsRecord(p) /\ p.size \in {n} /\ p.set \in Nat /\ p.divisor \in Divisors(n)
             /\ p.bitmap \in SUBSET (0 .. n - 1) /\ p.hash \in [Places -> 0 .. n]
             /\ p.sub \in [Bins -> Subs(n)]
<1>1. PICK A, B, C, D, E, F :
        /\ A = {n} /\ B = Nat /\ C = Divisors(n) /\ D = SUBSET (0 .. n - 1)
        /\ E = [Places -> 0 .. n] /\ F = [Bins -> Subs(n)]
  OBVIOUS
<1>2. Vectors[n] = [size : A, set : B, divisor : C, bitmap : D, hash : E, sub : F]
  BY <1>1, VectorsIs DEF VectorsLevel, Subs, Divisors
<1>3. p \in Vectors[n]
      <=> /\ IsRecord(p) /\ p.size \in A /\ p.set \in B /\ p.divisor \in C
          /\ p.bitmap \in D /\ p.hash \in E /\ p.sub \in F
  BY <1>2, RecordIs
<1> QED
  BY <1>1, <1>3

(* A vector's hash holds numbers of its size.                              *)
LEMMA HashTypes ==
  ASSUME NEW n \in VectorSizes, NEW p \in Vectors[n]
  PROVE  p.hash \in [Places -> 0 .. n] /\ p.hash \in Hashes /\ p.set \in Nat
<1>1. p.hash \in [Places -> 0 .. n] /\ p.set \in Nat
  BY VectorTypes
<1>2. 0 .. n \subseteq Nat
  OBVIOUS
<1> QED
  BY <1>1, <1>2 DEF Hashes

(* A vector with another hash.                                             *)
LEMMA NewHashTypes ==
  ASSUME NEW n \in VectorSizes, NEW p \in Vectors[n], NEW hash \in [Places -> 0 .. n], NEW set \in Nat,
         NEW q, q = [size |-> p.size, set |-> set, divisor |-> p.divisor,
                     bitmap |-> p.bitmap, hash |-> hash, sub |-> p.sub]
  PROVE  q \in Vectors[n] /\ q.divisor = p.divisor /\ q.set = set /\ q.hash = hash
<1>3. /\ q.size = p.size /\ q.set = set /\ q.divisor = p.divisor
      /\ q.bitmap = p.bitmap /\ q.hash = hash /\ q.sub = p.sub /\ IsRecord(q)
  BY DEF IsRecord
<1>4. /\ p.size \in {n} /\ p.divisor \in Divisors(n) /\ p.bitmap \in SUBSET (0 .. n - 1)
      /\ p.sub \in [Bins -> Subs(n)]
  BY VectorTypes
<1>5. /\ IsRecord(q) /\ q.size \in {n} /\ q.set \in Nat /\ q.divisor \in Divisors(n)
      /\ q.bitmap \in SUBSET (0 .. n - 1) /\ q.hash \in [Places -> 0 .. n]
      /\ q.sub \in [Bins -> Subs(n)]
  BY <1>3, <1>4, Zenon
<1>6. q \in Vectors[n]
  BY <1>5, VectorTypes, Zenon
<1> QED
  BY <1>3, <1>6

(* Put stores a number, if it is not there.                                *)
LEMMA PutIs ==
  ASSUME NEW n \in VectorSizes, NEW p \in Vectors[n], SoundHash(p.hash, p.set), NEW j \in 0 .. n - 1,
         j + 1 \notin Values(p.hash) => p.set + 1 < NINT
  PROVE  /\ Put(p, j) \in Vectors[n] /\ Put(p, j).divisor = p.divisor
         /\ SoundHash(Put(p, j).hash, Put(p, j).set)
         /\ Values(Put(p, j).hash) = Values(p.hash) \cup {j + 1}
         /\ j + 1 \notin Values(p.hash) => Put(p, j).set = p.set + 1
<1> PICK q : q = Put(p, j)
  OBVIOUS
<1> SUFFICES /\ q \in Vectors[n] /\ q.divisor = p.divisor /\ SoundHash(q.hash, q.set)
             /\ Values(q.hash) = Values(p.hash) \cup {j + 1}
             /\ j + 1 \notin Values(p.hash) => q.set = p.set + 1
  OBVIOUS
<1>0. j \in Nat /\ j + 1 \in 0 .. n /\ (j + 1) - 1 = j /\ j + 1 # 0
  BY DEF VectorSizes
<1>1. p.hash \in [Places -> 0 .. n] /\ p.hash \in Hashes /\ p.set \in Nat
  BY HashTypes
<1>2. CASE j + 1 \in Values(p.hash)
  <2>1. PICK s \in Places : p.hash[s] = j + 1
    BY <1>2 DEF Values
  <2>2. PlaceOf(p.hash, j) = s
    <3>1. PlaceOf(p.hash, p.hash[s] - 1) = s
      BY <1>0, <1>1, <2>1, FoundIs
    <3> QED
      BY <1>0, <2>1, <3>1
  <2>3. q = p
    BY <2>1, <2>2 DEF Put
  <2> QED
    BY <1>2, <2>3
<1>3. CASE j + 1 \notin Values(p.hash)
  <2>1. PICK s : s = PlaceOf(p.hash, j)
    OBVIOUS
  <2>2. PICK new : new = [p.hash EXCEPT ![s] = j + 1]
    OBVIOUS
  <2>3. /\ s \in Places /\ p.hash[s] = 0 /\ SoundHash(new, p.set + 1)
        /\ Values(new) = Values(p.hash) \cup {j + 1}
    BY <1>0, <1>1, <1>3, <2>1, <2>2, StoreIs
  <2>4. q = [p EXCEPT !.set = @ + 1, !.hash[s] = j + 1]
    BY <1>0, <2>1, <2>3 DEF Put
  <2>5. new \in [Places -> 0 .. n]
    BY <1>0, <1>1, <2>2
  <2> PICK m \in Nat : m = p.set + 1
    BY <1>1
  <2>6. q = [size |-> p.size, set |-> m, divisor |-> p.divisor,
             bitmap |-> p.bitmap, hash |-> new, sub |-> p.sub]
    <3>1. IsRecord(p)
      BY VectorTypes
    <3> QED
      BY <2>2, <2>4, <3>1 DEF IsRecord
  <2>7. q \in Vectors[n] /\ q.divisor = p.divisor /\ q.set = m /\ q.hash = new
    BY <2>5, <2>6, NewHashTypes
  <2> QED
    BY <2>3, <2>7
<1> QED
  BY <1>2, <1>3

-----------------------------------------------------------------------------
(* The hash built anew.                                                    *)

Emptied(p) == [p EXCEPT !.set = 0, !.hash = Free]

(* Place n of the old hash.                                                *)
Refilled(p, i, q, n) == IF p.hash[n - 1] \in {0, i + 1} THEN q ELSE Put(q, p.hash[n - 1] - 1)

IsRebuild(f, p, i, k) ==
  f = [n \in 0 .. k |-> IF n = 0 THEN Emptied(p) ELSE Refilled(p, i, f[n - 1], n)]

(* The recursive function of the loop of bitvecClear exists.                *)
LEMMA RebuildExists ==
  ASSUME NEW p, NEW i, NEW k \in Nat
  PROVE  \E f : IsRebuild(f, p, i, k) /\ Rebuilt(p, i, k) = f[k]
<1> DEFINE P == {j \in Nat : \E f : IsRebuild(f, p, i, j)}
<1>1. 0 \in P
  <2>1. IsRebuild([n \in 0 .. 0 |-> Emptied(p)], p, i, 0)
    BY DEF IsRebuild
  <2> QED
    BY <2>1
<1>2. ASSUME NEW j \in Nat, j \in P PROVE j + 1 \in P
  <2>1. PICK f : IsRebuild(f, p, i, j)
    BY <1>2
  <2> DEFINE g == [n \in 0 .. j + 1 |-> IF n = j + 1 THEN Refilled(p, i, f[j], j + 1) ELSE f[n]]
  <2>2. \A n \in 0 .. j : n \in 0 .. j + 1 /\ g[n] = f[n]
    OBVIOUS
  <2>3. ASSUME NEW n \in 0 .. j + 1
        PROVE  g[n] = IF n = 0 THEN Emptied(p) ELSE Refilled(p, i, g[n - 1], n)
    <3>1. CASE n = j + 1
      <4>1. n - 1 = j /\ n # 0 /\ g[j] = f[j]
        BY <2>2, <3>1
      <4>2. g[n] = Refilled(p, i, f[j], j + 1)
        BY <3>1
      <4> HIDE DEF g
      <4> QED
        BY <3>1, <4>1, <4>2
    <3>2. CASE n # j + 1
      <4>1. n \in 0 .. j
        BY <3>2
      <4>2. f[n] = IF n = 0 THEN Emptied(p) ELSE Refilled(p, i, f[n - 1], n)
        BY <2>1, <4>1 DEF IsRebuild
      <4>3. n # 0 => n - 1 \in 0 .. j
        BY <4>1
      <4> HIDE DEF g
      <4> QED
        BY <2>2, <4>1, <4>2, <4>3
    <3> QED
      BY <3>1, <3>2
  <2>4. g = [n \in 0 .. j + 1 |-> g[n]]
    OBVIOUS
  <2> HIDE DEF g
  <2>5. IsRebuild(g, p, i, j + 1)
    BY <2>3, <2>4 DEF IsRebuild
  <2> QED
    BY <2>5
<1> HIDE DEF P
<1>3. k \in P
  BY <1>1, <1>2, NumberInduction
<1>4. Rebuilt(p, i, k) = (CHOOSE f : IsRebuild(f, p, i, k))[k]
  BY DEF Rebuilt, IsRebuild, Emptied, Refilled
<1>5. IsRebuild(CHOOSE f : IsRebuild(f, p, i, k), p, i, k)
  BY <1>3 DEF P
<1> QED
  BY <1>4, <1>5

(* An empty hash is sound.                                                 *)
LEMMA FreeIs ==
  /\ Free \in Hashes /\ SoundHash(Free, 0) /\ Values(Free) = {}
  /\ \A n \in Nat : Free \in [Places -> 0 .. n]
<1>1. Free \in Hashes /\ Values(Free) = {} /\ \A n \in Nat : Free \in [Places -> 0 .. n]
  BY DEF Free, Hashes, Values
<1>2. {s \in Places : Free[s] # 0} = {}
  BY DEF Free
<1>3. 0 \in Places
  BY BitvecSizes DEF Places
<1>4. SoundHash(Free, 0)
  BY <1>2, <1>3, FS_EmptySet DEF SoundHash, Free
<1> QED
  BY <1>1, <1>4

(* The places among the first k whose numbers are kept, and these.         *)
KeptPlaces(hash, i, k) == {s \in 0 .. k - 1 : hash[s] \notin {0, i + 1}}
KeptValues(hash, i, k) == {hash[s] : s \in KeptPlaces(hash, i, k)}

(* One place more.                                                         *)
LEMMA KeptMore ==
  ASSUME NEW hash, NEW i, NEW k \in Nat
  PROVE  /\ hash[k] \in {0, i + 1} => /\ KeptPlaces(hash, i, k + 1) = KeptPlaces(hash, i, k)
                                     /\ KeptValues(hash, i, k + 1) = KeptValues(hash, i, k)
         /\ hash[k] \notin {0, i + 1} =>
              /\ KeptPlaces(hash, i, k + 1) = KeptPlaces(hash, i, k) \cup {k}
              /\ KeptValues(hash, i, k + 1) = KeptValues(hash, i, k) \cup {hash[k]}
         /\ k \notin KeptPlaces(hash, i, k)
<1>1. \A s : s \in 0 .. (k + 1) - 1 <=> s \in 0 .. k - 1 \/ s = k
  OBVIOUS
<1>2. k \notin KeptPlaces(hash, i, k)
  BY DEF KeptPlaces
<1>3. CASE hash[k] \in {0, i + 1}
  <2>1. KeptPlaces(hash, i, k + 1) = KeptPlaces(hash, i, k)
    BY <1>1, <1>3 DEF KeptPlaces
  <2> QED
    BY <1>2, <1>3, <2>1 DEF KeptValues
<1>4. CASE hash[k] \notin {0, i + 1}
  <2>1. KeptPlaces(hash, i, k + 1) = KeptPlaces(hash, i, k) \cup {k}
    BY <1>1, <1>4 DEF KeptPlaces
  <2>2. KeptValues(hash, i, k + 1) = KeptValues(hash, i, k) \cup {hash[k]}
    BY <2>1 DEF KeptValues
  <2> QED
    BY <1>2, <1>4, <2>1, <2>2
<1> QED
  BY <1>3, <1>4

(* Rebuilding the hash removes the number, and leaves a sound hash.        *)
LEMMA RebuiltIs ==
  ASSUME NEW n \in VectorSizes, NEW p \in Vectors[n], SoundHash(p.hash, p.set), NEW i \in 0 .. n - 1
  PROVE  /\ Rebuilt(p, i, NINT) \in Vectors[n] /\ Rebuilt(p, i, NINT).divisor = p.divisor
         /\ SoundHash(Rebuilt(p, i, NINT).hash, Rebuilt(p, i, NINT).set)
         /\ Values(Rebuilt(p, i, NINT).hash) = Values(p.hash) \ {i + 1}
<1> PICK q : q = Rebuilt(p, i, NINT)
  OBVIOUS
<1> SUFFICES /\ q \in Vectors[n] /\ q.divisor = p.divisor /\ SoundHash(q.hash, q.set)
             /\ Values(q.hash) = Values(p.hash) \ {i + 1}
  OBVIOUS
<1>0. /\ p.hash \in [Places -> 0 .. n] /\ p.hash \in Hashes /\ n \in Nat /\ NINT \in Nat
      /\ Places = 0 .. NINT - 1
  BY HashTypes, BitvecSizes DEF VectorSizes, Places
<1>1. PICK f : IsRebuild(f, p, i, NINT) /\ q = f[NINT]
  BY <1>0, RebuildExists
<1>2. \A k \in 0 .. NINT : f[k] = IF k = 0 THEN Emptied(p) ELSE Refilled(p, i, f[k - 1], k)
  BY <1>1 DEF IsRebuild
<1> DEFINE Up(g, k) == /\ g \in Vectors[n] /\ g.divisor = p.divisor /\ SoundHash(g.hash, g.set)
                       /\ Values(g.hash) = KeptValues(p.hash, i, k)
                       /\ g.set = Cardinality(KeptPlaces(p.hash, i, k))
           P == {k \in Nat : k \in 0 .. NINT => Up(f[k], k)}
<1>3. 0 \in P
  <2>1. PICK g : g = f[0]
    OBVIOUS
  <2>2. g = Emptied(p)
    BY <1>0, <1>2, <2>1
  <2>3. g = [size |-> p.size, set |-> 0, divisor |-> p.divisor,
             bitmap |-> p.bitmap, hash |-> Free, sub |-> p.sub]
    <3>1. IsRecord(p)
      BY VectorTypes
    <3> QED
      BY <2>2, <3>1 DEF Emptied, IsRecord
  <2>4. g \in Vectors[n] /\ g.divisor = p.divisor /\ g.set = 0 /\ g.hash = Free
    <3>1. Free \in [Places -> 0 .. n] /\ 0 \in Nat
      BY <1>0, FreeIs
    <3> HIDE DEF Up, P
    <3> QED
      BY <2>3, <3>1, NewHashTypes
  <2>5. KeptPlaces(p.hash, i, 0) = {} /\ KeptValues(p.hash, i, 0) = {}
    BY DEF KeptPlaces, KeptValues
  <2>6. Up(g, 0)
    BY <2>4, <2>5, FreeIs, FS_EmptySet
  <2> QED
    BY <2>1, <2>6
<1>4. ASSUME NEW k \in Nat, k \in P PROVE k + 1 \in P
  <2> SUFFICES ASSUME k + 1 \in 0 .. NINT PROVE Up(f[k + 1], k + 1)
    OBVIOUS
  <2>1. PICK g, v, w : g = f[k] /\ v = f[k + 1] /\ w = p.hash[k]
    OBVIOUS
  <2>2. k \in 0 .. NINT /\ k \in Places /\ k + 1 # 0 /\ (k + 1) - 1 = k
    BY <1>0
  <2>3. Up(g, k)
    BY <1>4, <2>1, <2>2
  <2>4. v = IF w \in {0, i + 1} THEN g ELSE Put(g, w - 1)
    BY <1>2, <2>1, <2>2 DEF Refilled
  <2>5. CASE w \in {0, i + 1}
    BY <2>1, <2>3, <2>4, <2>5, KeptMore
  <2>6. CASE w \notin {0, i + 1}
    <3>1. w \in 1 .. n
      BY <1>0, <2>1, <2>2, <2>6
    <3>2. PICK j \in 0 .. n - 1 : j = w - 1 /\ w = j + 1
      <4>1. w - 1 \in 0 .. n - 1 /\ w = (w - 1) + 1
        BY <1>0, <3>1
      <4> QED
        BY <4>1
    <3>3. j + 1 \notin Values(g.hash)
      <4> SUFFICES ASSUME w \in KeptValues(p.hash, i, k) PROVE FALSE
        BY <2>3, <3>2
      <4>1. PICK s \in 0 .. k - 1 : p.hash[s] = w
        BY DEF KeptValues, KeptPlaces
      <4>2. s \in Places /\ s # k
        BY <1>0, <2>2
      <4> QED
        BY <1>0, <2>1, <2>2, <2>6, <4>1, <4>2, StoredOnce
    <3>4. /\ KeptPlaces(p.hash, i, k + 1) = KeptPlaces(p.hash, i, k) \cup {k}
          /\ KeptValues(p.hash, i, k + 1) = KeptValues(p.hash, i, k) \cup {w}
          /\ k \notin KeptPlaces(p.hash, i, k)
      BY <2>1, <2>6, KeptMore
    <3>5. KeptPlaces(p.hash, i, k) \subseteq Places /\ KeptPlaces(p.hash, i, k + 1) \subseteq InUse(p.hash)
      <4>1. 0 .. k - 1 \subseteq Places /\ 0 .. (k + 1) - 1 \subseteq Places
        BY <1>0, <2>2
      <4> QED
        BY <4>1 DEF KeptPlaces, InUse
    <3>6. Cardinality(KeptPlaces(p.hash, i, k + 1)) = g.set + 1 /\ g.set \in Nat
      <4>1. IsFiniteSet(KeptPlaces(p.hash, i, k)) /\ Cardinality(KeptPlaces(p.hash, i, k)) \in Nat
        BY <3>5, PlacesFinite
      <4>2. Cardinality(KeptPlaces(p.hash, i, k) \cup {k}) = Cardinality(KeptPlaces(p.hash, i, k)) + 1
        BY <3>4, <4>1, FS_AddElement
      <4> QED
        BY <2>3, <3>4, <4>1, <4>2
    <3>7. g.set + 1 < NINT
      <4>1. p.set = Cardinality(InUse(p.hash)) /\ p.set \in 0 .. NINT - 1
        BY SetBelow
      <4>2. IsFiniteSet(InUse(p.hash))
        BY PlacesFinite DEF InUse
      <4>3. Cardinality(KeptPlaces(p.hash, i, k + 1)) <= Cardinality(InUse(p.hash))
        BY <3>5, <4>2, FS_Subset
      <4> QED
        BY <1>0, <3>6, <4>1, <4>3
    <3>8. v = Put(g, j)
      BY <2>4, <2>6, <3>2
    <3>9. /\ v \in Vectors[n] /\ v.divisor = g.divisor /\ SoundHash(v.hash, v.set)
          /\ Values(v.hash) = Values(g.hash) \cup {j + 1} /\ v.set = g.set + 1
      <4>1. g \in Vectors[n] /\ SoundHash(g.hash, g.set)
        BY <2>3
      <4>2. j + 1 \notin Values(g.hash) => g.set + 1 < NINT
        BY <3>7
      <4> HIDE DEF P, Up
      <4>3. /\ Put(g, j) \in Vectors[n] /\ Put(g, j).divisor = g.divisor
            /\ SoundHash(Put(g, j).hash, Put(g, j).set)
            /\ Values(Put(g, j).hash) = Values(g.hash) \cup {j + 1}
            /\ j + 1 \notin Values(g.hash) => Put(g, j).set = g.set + 1
        BY <4>1, <4>2, PutIs
      <4> QED
        BY <3>3, <3>8, <4>3
    <3> QED
      BY <2>1, <2>3, <3>2, <3>4, <3>6, <3>9
  <2> QED
    BY <2>5, <2>6
<1> HIDE DEF P
<1>5. NINT \in P
  BY <1>0, <1>3, <1>4, NumberInduction
<1>6. Up(q, NINT)
  BY <1>0, <1>1, <1>5 DEF P
<1>7. KeptValues(p.hash, i, NINT) = Values(p.hash) \ {i + 1}
  BY <1>0 DEF KeptValues, KeptPlaces, Values
<1> QED
  BY <1>6, <1>7

-----------------------------------------------------------------------------
(* The parts of a vector.                                                  *)

Good(n) == {p \in Vectors[n] : Sound[n][p]}

(* A vector that has been split.                                           *)
Divided(n, p) == p \in Good(n) /\ p.divisor = Share(n)

(* Number x is in part b of a vector, each of d numbers.                   *)
InPart(d, p, b, x) == p.sub[b] # Null /\ \E v \in Bits[d][p.sub[b]] : x = d * b + v

(* The numbers in a vector, by its kind.                                   *)
LEMMA BitsOf ==
  ASSUME NEW n \in VectorSizes, NEW p \in Vectors[n]
  PROVE  /\ n <= NBIT => Bits[n][p] = {i + 1 : i \in p.bitmap}
         /\ n > NBIT /\ p.divisor = 0 => Bits[n][p] = Values(p.hash)
         /\ n > NBIT /\ p.divisor # 0 =>
              \A x : x \in Bits[n][p] <=> \E b \in Bins : InPart(Share(n), p, b, x)
<1>0. n \in Nat /\ NBIT \in Nat
  BY BitvecSizes DEF VectorSizes
<1>1. Bits[n][p] = BitsNode(n, p, Bits[Share(n)])
  BY BitsIs DEF BitsLevel
<1>2. CASE n <= NBIT
  BY <1>0, <1>1, <1>2 DEF BitsNode
<1>3. CASE n > NBIT /\ p.divisor = 0
  BY <1>0, <1>1, <1>3 DEF BitsNode, Values
<1>4. CASE n > NBIT /\ p.divisor # 0
  <2>1. p.divisor = Share(n)
    BY <1>0, <1>4, VectorTypes DEF Divisors
  <2>2. Bits[n][p] = UNION {{Share(n) * b + v : v \in Bits[Share(n)][p.sub[b]]} :
                              b \in {b \in Bins : p.sub[b] # Null}}
    BY <1>0, <1>1, <1>4, <2>1 DEF BitsNode
  <2> QED
    BY <1>0, <1>4, <2>2 DEF InPart
<1> QED
  BY <1>0, <1>2, <1>3, <1>4

(* What makes a vector sound, by its kind.                                 *)
LEMMA SoundOf ==
  ASSUME NEW n \in VectorSizes, NEW p \in Vectors[n]
  PROVE  /\ n <= NBIT => p \in Good(n)
         /\ n > NBIT /\ p.divisor = 0 => (p \in Good(n) <=> SoundHash(p.hash, p.set))
         /\ n > NBIT /\ p.divisor # 0 =>
              /\ p.divisor = Share(n)
              /\ p \in Good(n) <=>
                   \A b \in Bins : p.sub[b] # Null =>
                     p.sub[b] \in Good(Share(n)) /\ Bits[Share(n)][p.sub[b]] \subseteq 1 .. Share(n)
<1>0. n \in Nat /\ NBIT \in Nat
  BY BitvecSizes DEF VectorSizes
<1>1. Sound[n][p] = SoundNode(n, p, Bits[Share(n)], Sound[Share(n)])
  BY SoundIs DEF SoundLevel
<1>2. CASE n <= NBIT
  <2>1. SoundNode(n, p, Bits[Share(n)], Sound[Share(n)]) = TRUE
    BY <1>0, <1>2 DEF SoundNode
  <2>2. Sound[n][p] = TRUE
    BY <1>1, <2>1, Zenon
  <2> QED
    BY <1>0, <1>2, <2>2 DEF Good
<1>3. CASE n > NBIT /\ p.divisor = 0
  <2>1. SoundNode(n, p, Bits[Share(n)], Sound[Share(n)]) <=> SoundHash(p.hash, p.set)
    BY <1>3, Zenon DEF SoundNode
  <2>2. Sound[n][p] <=> SoundHash(p.hash, p.set)
    BY <1>1, <2>1, Zenon
  <2>3. ~(n <= NBIT)
    BY <1>0, <1>3
  <2> QED
    BY <1>3, <2>2, <2>3, Zenon DEF Good
<1>4. CASE n > NBIT /\ p.divisor # 0
  <2>1. p.divisor = Share(n)
    BY <1>0, <1>4, VectorTypes DEF Divisors
  <2>2. \A b \in Bins : p.sub[b] # Null => p.sub[b] \in Vectors[Share(n)]
    BY <1>0, <1>4, VectorTypes DEF Subs
  <2>3. Sound[n][p] <=> \A b \in Bins : p.sub[b] # Null =>
                          Sound[Share(n)][p.sub[b]] /\ Bits[Share(n)][p.sub[b]] \subseteq 1 .. Share(n)
    BY <1>0, <1>1, <1>4, <2>1 DEF SoundNode
  <2> QED
    BY <1>0, <1>4, <2>1, <2>2, <2>3 DEF Good
<1> QED
  BY <1>0, <1>2, <1>3, <1>4

(* A new vector is a sound one, of no numbers.                             *)
LEMMA NewIs ==
  ASSUME NEW n \in VectorSizes
  PROVE  bitvecNew(n) \in Good(n) /\ Bits[n][bitvecNew(n)] = {}
<1>0. n \in Nat /\ NBIT \in Nat
  BY BitvecSizes DEF VectorSizes
<1>1. PICK p : p = bitvecNew(n)
  OBVIOUS
<1>2. /\ p.size = n /\ p.set = 0 /\ p.divisor = 0 /\ p.bitmap = {} /\ p.hash = Free
      /\ p.sub = NoSub /\ IsRecord(p)
  BY <1>1 DEF bitvecNew, IsRecord
<1>3. NoSub \in [Bins -> Subs(n)]
  BY DEF NoSub, Subs
<1>4. /\ IsRecord(p) /\ p.size \in {n} /\ p.set \in Nat /\ p.divisor \in Divisors(n)
      /\ p.bitmap \in SUBSET (0 .. n - 1) /\ p.hash \in [Places -> 0 .. n]
      /\ p.sub \in [Bins -> Subs(n)]
  BY <1>0, <1>2, <1>3, FreeIs DEF Divisors
<1>5. p \in Vectors[n]
  BY <1>4, VectorTypes
<1>6. Bits[n][p] = {}
  <2>1. n <= NBIT => Bits[n][p] = {}
    <3>1. n <= NBIT => Bits[n][p] = {i + 1 : i \in p.bitmap}
      BY <1>5, BitsOf
    <3> QED
      BY <1>2, <3>1
  <2>2. n > NBIT => Bits[n][p] = {}
    BY <1>2, <1>5, BitsOf, FreeIs
  <2> QED
    BY <1>0, <2>1, <2>2
<1>7. p \in Good(n)
  BY <1>0, <1>2, <1>5, SoundOf, FreeIs
<1> QED
  BY <1>1, <1>6, <1>7

(* What a split vector is like.                                            *)
LEMMA DividedIs ==
  ASSUME NEW n \in VectorSizes, n > NBIT, NEW p, Divided(n, p), NEW d, d = Share(n)
  PROVE  /\ d \in VectorSizes /\ d \in Nat \ {0} /\ p \in Vectors[n] /\ p.divisor = d /\ p.divisor # 0
         /\ IsRecord(p) /\ p.sub \in [Bins -> Vectors[d] \cup {Null}]
         /\ \A b \in Bins : p.sub[b] # Null => p.sub[b] \in Good(d) /\ Bits[d][p.sub[b]] \subseteq 1 .. d
         /\ \A x : x \in Bits[n][p] <=> \E b \in Bins : InPart(d, p, b, x)
<1>0. n \in Nat /\ NBIT \in Nat /\ ~(n <= NBIT)
  BY BitvecSizes DEF VectorSizes
<1>1. d \in VectorSizes /\ d \in Nat \ {0}
  BY <1>0, SharesSmaller
<1>2. p \in Vectors[n] /\ p.divisor = d /\ p.divisor # 0
  BY <1>1 DEF Divided, Good
<1>3. IsRecord(p) /\ p.sub \in [Bins -> Vectors[d] \cup {Null}]
  BY <1>0, <1>2, VectorTypes DEF Subs
<1>4. \A b \in Bins : p.sub[b] # Null => p.sub[b] \in Good(d) /\ Bits[d][p.sub[b]] \subseteq 1 .. d
  BY <1>2, SoundOf DEF Divided
<1>5. \A x : x \in Bits[n][p] <=> \E b \in Bins : InPart(d, p, b, x)
  BY <1>2, BitsOf
<1> QED
  BY <1>1, <1>2, <1>3, <1>4, <1>5

(* One part of a vector is replaced.                                       *)
LEMMA PartIs ==
  ASSUME NEW n \in VectorSizes, n > NBIT, NEW p, Divided(n, p), NEW d, d = Share(n), NEW b \in Bins,
         NEW r \in Good(d), Bits[d][r] \subseteq 1 .. d, NEW q, q = [p EXCEPT !.sub[b] = r]
  PROVE  /\ Divided(n, q)
         /\ \A x : x \in Bits[n][q] <=> \/ \E v \in Bits[d][r] : x = d * b + v
                                        \/ \E c \in Bins \ {b} : InPart(d, p, c, x)
<1>0. n \in Nat /\ NBIT \in Nat /\ ~(n <= NBIT)
  BY BitvecSizes DEF VectorSizes
<1>1. /\ d \in VectorSizes /\ d \in Nat \ {0} /\ p \in Vectors[n] /\ p.divisor = d /\ p.divisor # 0
      /\ IsRecord(p) /\ p.sub \in [Bins -> Vectors[d] \cup {Null}]
      /\ \A c \in Bins : p.sub[c] # Null => p.sub[c] \in Good(d) /\ Bits[d][p.sub[c]] \subseteq 1 .. d
  BY DividedIs
<1>2. PICK sub : sub = [p.sub EXCEPT ![b] = r]
  OBVIOUS
<1>3. q = [size |-> p.size, set |-> p.set, divisor |-> p.divisor,
           bitmap |-> p.bitmap, hash |-> p.hash, sub |-> sub]
  BY <1>1, <1>2 DEF IsRecord
<1>4. /\ q.size = p.size /\ q.set = p.set /\ q.divisor = p.divisor /\ q.bitmap = p.bitmap
      /\ q.hash = p.hash /\ q.sub = sub
  BY <1>3
<1>17. IsRecord(q)
  BY <1>3, <1>4, Zenon DEF IsRecord
<1>5. r \in Vectors[d] /\ r # Null
  BY <1>1, NullIsNoVector DEF Good
<1>6. sub \in [Bins -> Vectors[d] \cup {Null}] /\ sub[b] = r /\ \A c \in Bins \ {b} : sub[c] = p.sub[c]
  BY <1>1, <1>2, <1>5
<1>7. sub \in [Bins -> Subs(n)]
  BY <1>0, <1>6 DEF Subs
<1>8. /\ p.size \in {n} /\ p.set \in Nat /\ p.divisor \in Divisors(n)
      /\ p.bitmap \in SUBSET (0 .. n - 1) /\ p.hash \in [Places -> 0 .. n]
  BY <1>1, VectorTypes
<1>9. /\ IsRecord(q) /\ q.size \in {n} /\ q.set \in Nat /\ q.divisor \in Divisors(n)
      /\ q.bitmap \in SUBSET (0 .. n - 1) /\ q.hash \in [Places -> 0 .. n]
      /\ q.sub \in [Bins -> Subs(n)]
  BY <1>4, <1>7, <1>8, <1>17, Zenon
<1>10. q \in Vectors[n]
  BY <1>9, VectorTypes, Zenon
<1>11. q \in Good(n)
  <2>1. \A c \in Bins : q.sub[c] # Null => q.sub[c] \in Good(d) /\ Bits[d][q.sub[c]] \subseteq 1 .. d
    BY <1>1, <1>4, <1>6
  <2> QED
    BY <1>1, <1>4, <1>10, <2>1, SoundOf
<1>12. \A x : x \in Bits[n][q] <=> \E c \in Bins : InPart(d, q, c, x)
  <2>1. q.divisor # 0
    BY <1>1, <1>4
  <2> QED
    BY <1>10, <2>1, BitsOf
<1>13. \A x : InPart(d, q, b, x) <=> \E v \in Bits[d][r] : x = d * b + v
  BY <1>4, <1>5, <1>6 DEF InPart
<1>14. \A x : \A c \in Bins \ {b} : InPart(d, q, c, x) <=> InPart(d, p, c, x)
  BY <1>4, <1>6 DEF InPart
<1>15. Divided(n, q)
  BY <1>1, <1>4, <1>11 DEF Divided
<1>16. ASSUME NEW x
       PROVE  x \in Bits[n][q] <=> \/ \E v \in Bits[d][r] : x = d * b + v
                                   \/ \E c \in Bins \ {b} : InPart(d, p, c, x)
  <2>1. x \in Bits[n][q] <=> InPart(d, q, b, x) \/ \E c \in Bins \ {b} : InPart(d, q, c, x)
    BY <1>12
  <2> QED
    BY <1>13, <1>14, <2>1
<1> QED
  BY <1>15, <1>16

-----------------------------------------------------------------------------
(* Setting a number.                                                       *)

(* q is what may be left of p when i is set in it: numbers are lost when   *)
(* memory is short only, and none appears but i.                           *)
Right(n, p, i, short, q) ==
  /\ q \in Good(n)
  /\ Bits[n][q] \subseteq Bits[n][p] \cup {i + 1}
  /\ ~short => Bits[n][p] \cup {i + 1} \subseteq Bits[n][q]

SetsRight(n, S) ==
  \A p \in Good(n), i \in 0 .. n - 1, short \in BOOLEAN :
    \A q \in S[p][i][short] : Right(n, p, i, short, q)

(* A number is set in its part.                                            *)
LEMMA SetInPartIs ==
  ASSUME NEW n \in VectorSizes, n > NBIT, NEW p, Divided(n, p), NEW S, SetsRight(Share(n), S),
         NEW i \in 0 .. n - 1, NEW short \in BOOLEAN, NEW q \in SetInPart(p, i, short, S)
  PROVE  Divided(n, q) /\ Right(n, p, i, short, q)
<1>1. PICK d : d = Share(n)
  OBVIOUS
<1>2. /\ d \in VectorSizes /\ d \in Nat \ {0} /\ p \in Vectors[n] /\ p.divisor = d
      /\ p.sub \in [Bins -> Vectors[d] \cup {Null}]
      /\ \A c \in Bins : p.sub[c] # Null => p.sub[c] \in Good(d) /\ Bits[d][p.sub[c]] \subseteq 1 .. d
      /\ \A x : x \in Bits[n][p] <=> \E c \in Bins : InPart(d, p, c, x)
  BY <1>1, DividedIs
<1>3. i \div d \in Bins /\ i % d \in 0 .. d - 1 /\ i = d * (i \div d) + (i % d)
  BY <1>1, InShare
<1>4. PICK b \in Bins, u \in 0 .. d - 1 : b = i \div d /\ u = i % d /\ i = d * b + u
  BY <1>3
<1>5. PICK part : part = IF p.sub[b] = Null THEN bitvecNew(d) ELSE p.sub[b]
  OBVIOUS
<1>6. q \in {[p EXCEPT !.sub[b] = r] : r \in S[part][u][short]} \cup {r \in {p} : short /\ p.sub[b] = Null}
  BY <1>2, <1>4, <1>5 DEF SetInPart
<1>7. CASE q = p /\ short
  BY <1>2, <1>7 DEF Right, Divided
<1>8. CASE \E r \in S[part][u][short] : q = [p EXCEPT !.sub[b] = r]
  <2>1. PICK r \in S[part][u][short] : q = [p EXCEPT !.sub[b] = r]
    BY <1>8
  <2>2. part \in Good(d) /\ Bits[d][part] \subseteq 1 .. d
    BY <1>2, <1>5, NewIs
  <2>3. Right(d, part, u, short, r)
    BY <1>1, <1>4, <2>1, <2>2 DEF SetsRight
  <2>4. r \in Good(d) /\ Bits[d][r] \subseteq Bits[d][part] \cup {u + 1}
        /\ (~short => Bits[d][part] \cup {u + 1} \subseteq Bits[d][r])
    BY <2>3 DEF Right
  <2>5. u + 1 \in 1 .. d
    BY <1>2, <1>4
  <2>6. Bits[d][r] \subseteq 1 .. d
    BY <2>2, <2>4, <2>5
  <2>7. /\ Divided(n, q)
        /\ \A x : x \in Bits[n][q] <=> \/ \E v \in Bits[d][r] : x = d * b + v
                                       \/ \E c \in Bins \ {b} : InPart(d, p, c, x)
    BY <1>1, <2>1, <2>4, <2>6, PartIs
  <2>8. i + 1 = d * b + (u + 1)
    BY <1>2, <1>4 DEF Bins
  <2>9. \A x : InPart(d, p, b, x) <=> \E v \in Bits[d][part] : x = d * b + v
    <3>1. CASE p.sub[b] = Null
      BY <1>2, <1>5, <3>1, NewIs DEF InPart
    <3>2. CASE p.sub[b] # Null
      BY <1>5, <3>2 DEF InPart
    <3> QED
      BY <3>1, <3>2
  <2>10. ASSUME NEW x \in Bits[n][q] PROVE x \in Bits[n][p] \cup {i + 1}
    <3>1. CASE \E c \in Bins \ {b} : InPart(d, p, c, x)
      BY <1>2, <3>1
    <3>2. CASE \E v \in Bits[d][r] : x = d * b + v
      <4>1. PICK v \in Bits[d][r] : x = d * b + v
        BY <3>2
      <4>2. CASE v \in Bits[d][part]
        BY <1>2, <2>9, <4>1, <4>2
      <4>3. CASE v = u + 1
        BY <2>8, <4>1, <4>3
      <4> QED
        BY <2>4, <4>2, <4>3
    <3> QED
      BY <2>7, <3>1, <3>2
  <2>11. ASSUME ~short, NEW x \in Bits[n][p] \cup {i + 1} PROVE x \in Bits[n][q]
    <3>1. Bits[d][part] \cup {u + 1} \subseteq Bits[d][r]
      BY <2>4, <2>11
    <3>2. CASE x = i + 1
      BY <2>7, <2>8, <3>1, <3>2
    <3>3. CASE \E c \in Bins : InPart(d, p, c, x)
      BY <2>7, <2>9, <3>1, <3>3
    <3> QED
      BY <1>2, <2>11, <3>2, <3>3
  <2>12. q \in Good(n)
    BY <2>7 DEF Divided
  <2> QED
    BY <2>7, <2>10, <2>11, <2>12 DEF Right
<1> QED
  BY <1>6, <1>7, <1>8

(* A vector that has just been split has no numbers.                       *)
LEMMA SplitIs ==
  ASSUME NEW n \in VectorSizes, n > NBIT, NEW p \in Vectors[n]
  PROVE  Divided(n, Split(p)) /\ Bits[n][Split(p)] = {}
<1>0. n \in Nat /\ NBIT \in Nat /\ ~(n <= NBIT)
  BY BitvecSizes DEF VectorSizes
<1>1. /\ IsRecord(p) /\ p.size = n /\ p.set \in Nat /\ p.bitmap \in SUBSET (0 .. n - 1)
  BY VectorTypes
<1>2. PICK d : d = Share(n)
  OBVIOUS
<1>3. d # 0
  BY <1>0, <1>2, SharesSmaller
<1>4. PICK q : q = Split(p)
  OBVIOUS
<1>5. q = [size |-> p.size, set |-> p.set, divisor |-> d,
           bitmap |-> p.bitmap, hash |-> Free, sub |-> NoSub]
  BY <1>1, <1>2, <1>4 DEF Split, IsRecord
<1>6. /\ q.size = n /\ q.set = p.set /\ q.divisor = d /\ q.bitmap = p.bitmap
      /\ q.hash = Free /\ q.sub = NoSub
  BY <1>1, <1>5
<1>7. IsRecord(q)
  BY <1>5, <1>6, <1>1, Zenon DEF IsRecord
<1>8. NoSub \in [Bins -> Subs(n)] /\ \A b \in Bins : NoSub[b] = Null
  BY DEF NoSub, Subs
<1>9. /\ IsRecord(q) /\ q.size \in {n} /\ q.set \in Nat /\ q.divisor \in Divisors(n)
      /\ q.bitmap \in SUBSET (0 .. n - 1) /\ q.hash \in [Places -> 0 .. n]
      /\ q.sub \in [Bins -> Subs(n)]
  BY <1>0, <1>1, <1>2, <1>6, <1>7, <1>8, FreeIs DEF Divisors
<1>10. q \in Vectors[n]
  BY <1>9, VectorTypes
<1>11. \A b \in Bins : q.sub[b] = Null
  BY <1>6, <1>8
<1>12. q \in Good(n)
  <2>1. q.divisor # 0
    BY <1>3, <1>6
  <2> QED
    BY <1>10, <1>11, <2>1, SoundOf
<1>13. Bits[n][q] = {}
  <2>1. q.divisor # 0
    BY <1>3, <1>6
  <2>2. \A x : x \in Bits[n][q] <=> \E b \in Bins : InPart(Share(n), q, b, x)
    BY <1>10, <2>1, BitsOf
  <2> QED
    BY <1>11, <2>2 DEF InPart
<1> QED
  BY <1>2, <1>4, <1>6, <1>12, <1>13 DEF Divided

(* A hash that is not full has room for a number.                          *)
LEMMA NotFull ==
  ASSUME NEW n \in VectorSizes, NEW p \in Vectors[n], SoundHash(p.hash, p.set), NEW i \in 0 .. n - 1,
         ~Full(p, i), i + 1 \notin Values(p.hash)
  PROVE  p.set + 1 < NINT
<1>1. NINT \in Nat /\ NINT >= 2 /\ i \in Nat /\ p.hash \in Hashes /\ p.set \in Nat
  BY BitvecSizes, HashTypes DEF VectorSizes
<1>2. PICK f \in Places : p.hash[f] = 0
  BY DEF SoundHash
<1>3. PICK k \in Places : Reached(p.hash, i, k) /\ PlaceOf(p.hash, i) = Probe(i, k)
  BY <1>1, <1>2, PlaceOfIs
<1>4. PICK s \in Places : s = PlaceOf(p.hash, i) /\ p.hash[s] \in {0, i + 1}
  <2>1. k \in Nat
    BY <1>1 DEF Places
  <2> QED
    BY <1>1, <1>3, <2>1, ProbeIn DEF Reached
<1>5. p.hash[s] # i + 1
  BY <1>1 DEF Values
<1>6. p.hash[PlaceOf(p.hash, i)] = 0
  BY <1>4, <1>5
<1>7. MXHASH \in Int /\ MXHASH <= NINT - 1
  BY <1>1 DEF MXHASH
<1>8. ~(p.set >= IF p.hash[HASH(i)] # 0 THEN MXHASH ELSE NINT - 1)
  BY <1>6 DEF Full
<1> QED
  BY <1>1, <1>7, <1>8

-----------------------------------------------------------------------------
(* The numbers of a full hash are set again.                               *)

(* Place n of the old hash, for the vectors that are left so far.          *)
SetNext(p, short, S, left, n) ==
  IF p.hash[n - 1] = 0 THEN left
  ELSE UNION {SetInPart(q, p.hash[n - 1] - 1, short, S) : q \in left}

IsSetting(f, p, i, short, S, k) ==
  f = [n \in 0 .. k |-> IF n = 0 THEN SetInPart(Split(p), i, short, S)
                        ELSE SetNext(p, short, S, f[n - 1], n)]

(* The recursive function of the loop of bitvecSet exists.                  *)
LEMMA SettingExists ==
  ASSUME NEW p, NEW i, NEW short, NEW S, NEW k \in Nat
  PROVE  \E f : IsSetting(f, p, i, short, S, k) /\ SetAgain(p, i, short, S, k) = f[k]
<1> DEFINE P == {j \in Nat : \E f : IsSetting(f, p, i, short, S, j)}
<1>1. 0 \in P
  <2>1. IsSetting([n \in 0 .. 0 |-> SetInPart(Split(p), i, short, S)], p, i, short, S, 0)
    BY DEF IsSetting
  <2> QED
    BY <2>1
<1>2. ASSUME NEW j \in Nat, j \in P PROVE j + 1 \in P
  <2>1. PICK f : IsSetting(f, p, i, short, S, j)
    BY <1>2
  <2> DEFINE g == [n \in 0 .. j + 1 |-> IF n = j + 1 THEN SetNext(p, short, S, f[j], j + 1) ELSE f[n]]
  <2>2. \A n \in 0 .. j : n \in 0 .. j + 1 /\ g[n] = f[n]
    OBVIOUS
  <2>3. ASSUME NEW n \in 0 .. j + 1
        PROVE  g[n] = IF n = 0 THEN SetInPart(Split(p), i, short, S) ELSE SetNext(p, short, S, g[n - 1], n)
    <3>1. CASE n = j + 1
      <4>1. n - 1 = j /\ n # 0 /\ g[j] = f[j]
        BY <2>2, <3>1
      <4>2. g[n] = SetNext(p, short, S, f[j], j + 1)
        BY <3>1
      <4> HIDE DEF g
      <4> QED
        BY <3>1, <4>1, <4>2
    <3>2. CASE n # j + 1
      <4>1. n \in 0 .. j
        BY <3>2
      <4>2. f[n] = IF n = 0 THEN SetInPart(Split(p), i, short, S) ELSE SetNext(p, short, S, f[n - 1], n)
        BY <2>1, <4>1 DEF IsSetting
      <4>3. n # 0 => n - 1 \in 0 .. j
        BY <4>1
      <4> HIDE DEF g
      <4> QED
        BY <2>2, <4>1, <4>2, <4>3
    <3> QED
      BY <3>1, <3>2
  <2>4. g = [n \in 0 .. j + 1 |-> g[n]]
    OBVIOUS
  <2> HIDE DEF g
  <2>5. IsSetting(g, p, i, short, S, j + 1)
    BY <2>3, <2>4 DEF IsSetting
  <2> QED
    BY <2>5
<1> HIDE DEF P
<1>3. k \in P
  BY <1>1, <1>2, NumberInduction
<1>4. SetAgain(p, i, short, S, k) = (CHOOSE f : IsSetting(f, p, i, short, S, k))[k]
  BY DEF SetAgain, IsSetting, SetNext
<1>5. IsSetting(CHOOSE f : IsSetting(f, p, i, short, S, k), p, i, short, S, k)
  BY <1>3 DEF P
<1> QED
  BY <1>4, <1>5

(* The numbers in the first k places of a hash.                            *)
FirstValues(hash, k) == {hash[s] : s \in 0 .. k - 1} \ {0}

LeftRight(n, p, i, short, left, k) ==
  \A r \in left : /\ Divided(n, r)
                  /\ Bits[n][r] \subseteq FirstValues(p.hash, k) \cup {i + 1}
                  /\ ~short => FirstValues(p.hash, k) \cup {i + 1} \subseteq Bits[n][r]

(* Setting one of them leaves the vectors right.                           *)
LEMMA SetNextIs ==
  ASSUME NEW n \in VectorSizes, n > NBIT, NEW p \in Vectors[n], NEW S, SetsRight(Share(n), S),
         NEW i \in 0 .. n - 1, NEW short \in BOOLEAN, NEW left, NEW k \in Places,
         LeftRight(n, p, i, short, left, k)
  PROVE  LeftRight(n, p, i, short, SetNext(p, short, S, left, k + 1), k + 1)
<1>0. n \in Nat /\ NINT \in Nat /\ k \in Nat /\ (k + 1) - 1 = k
  BY BitvecSizes DEF VectorSizes, Places
<1>1. PICK w : w = p.hash[k]
  OBVIOUS
<1>2. w \in 0 .. n
  BY <1>1, HashTypes
<1>3. FirstValues(p.hash, k + 1) = FirstValues(p.hash, k) \cup ({w} \ {0})
  BY <1>0, <1>1 DEF FirstValues
<1>4. CASE w = 0
  <2>1. SetNext(p, short, S, left, k + 1) = left
    BY <1>0, <1>1, <1>4 DEF SetNext
  <2>2. FirstValues(p.hash, k + 1) = FirstValues(p.hash, k)
    BY <1>3, <1>4
  <2> QED
    BY <2>1, <2>2 DEF LeftRight
<1>5. CASE w # 0
  <2>1. PICK j \in 0 .. n - 1 : j = w - 1 /\ w = j + 1
    <3>1. w - 1 \in 0 .. n - 1 /\ w = (w - 1) + 1
      BY <1>0, <1>2, <1>5
    <3> QED
      BY <3>1
  <2>2. SetNext(p, short, S, left, k + 1) = UNION {SetInPart(r, j, short, S) : r \in left}
    BY <1>0, <1>1, <1>5, <2>1 DEF SetNext
  <2>3. FirstValues(p.hash, k + 1) = FirstValues(p.hash, k) \cup {j + 1}
    BY <1>3, <1>5, <2>1
  <2>4. ASSUME NEW q \in SetNext(p, short, S, left, k + 1)
        PROVE  /\ Divided(n, q)
               /\ Bits[n][q] \subseteq FirstValues(p.hash, k + 1) \cup {i + 1}
               /\ ~short => FirstValues(p.hash, k + 1) \cup {i + 1} \subseteq Bits[n][q]
    <3>1. PICK r \in left : q \in SetInPart(r, j, short, S)
      BY <2>2, <2>4
    <3>2. /\ Divided(n, r)
          /\ Bits[n][r] \subseteq FirstValues(p.hash, k) \cup {i + 1}
          /\ ~short => FirstValues(p.hash, k) \cup {i + 1} \subseteq Bits[n][r]
      BY <3>1 DEF LeftRight
    <3>3. Divided(n, q) /\ Right(n, r, j, short, q)
      BY <3>1, <3>2, SetInPartIs
    <3>4. /\ Bits[n][q] \subseteq Bits[n][r] \cup {j + 1}
          /\ ~short => Bits[n][r] \cup {j + 1} \subseteq Bits[n][q]
      BY <3>3 DEF Right
    <3> QED
      BY <2>3, <3>2, <3>3, <3>4
  <2> QED
    BY <2>4 DEF LeftRight
<1> QED
  BY <1>4, <1>5

(* All numbers of a hash, and one more, are set in the parts.              *)
LEMMA SetAgainIs ==
  ASSUME NEW n \in VectorSizes, n > NBIT, NEW p \in Vectors[n], NEW S, SetsRight(Share(n), S),
         NEW i \in 0 .. n - 1, NEW short \in BOOLEAN, NEW q \in SetAgain(p, i, short, S, NINT)
  PROVE  /\ Divided(n, q)
         /\ Bits[n][q] \subseteq Values(p.hash) \cup {i + 1}
         /\ ~short => Values(p.hash) \cup {i + 1} \subseteq Bits[n][q]
<1>0. NINT \in Nat /\ n \in Nat
  BY BitvecSizes DEF VectorSizes
<1>1. PICK f : IsSetting(f, p, i, short, S, NINT) /\ SetAgain(p, i, short, S, NINT) = f[NINT]
  BY <1>0, SettingExists
<1>2. \A k \in 0 .. NINT : f[k] = IF k = 0 THEN SetInPart(Split(p), i, short, S)
                                  ELSE SetNext(p, short, S, f[k - 1], k)
  BY <1>1 DEF IsSetting
<1> DEFINE P == {k \in Nat : k \in 0 .. NINT => LeftRight(n, p, i, short, f[k], k)}
<1>3. 0 \in P
  <2>1. f[0] = SetInPart(Split(p), i, short, S)
    BY <1>0, <1>2
  <2>2. FirstValues(p.hash, 0) = {}
    BY DEF FirstValues
  <2>3. ASSUME NEW r \in SetInPart(Split(p), i, short, S)
        PROVE  /\ Divided(n, r) /\ Bits[n][r] \subseteq {i + 1}
               /\ ~short => {i + 1} \subseteq Bits[n][r]
    <3>1. PICK t : t = Split(p)
      OBVIOUS
    <3>2. Divided(n, t) /\ Bits[n][t] = {}
      BY <3>1, SplitIs
    <3>3. r \in SetInPart(t, i, short, S)
      BY <3>1
    <3>4. Divided(n, r) /\ Right(n, t, i, short, r)
      BY <3>2, <3>3, SetInPartIs
    <3> QED
      BY <3>2, <3>4 DEF Right
  <2>4. LeftRight(n, p, i, short, f[0], 0)
    BY <2>1, <2>2, <2>3 DEF LeftRight
  <2> QED
    BY <2>4
<1>4. ASSUME NEW k \in Nat, k \in P PROVE k + 1 \in P
  <2> SUFFICES ASSUME k + 1 \in 0 .. NINT PROVE LeftRight(n, p, i, short, f[k + 1], k + 1)
    OBVIOUS
  <2>1. k \in Places /\ k \in 0 .. NINT /\ k + 1 # 0 /\ (k + 1) - 1 = k
    BY <1>0 DEF Places
  <2>2. f[k + 1] = SetNext(p, short, S, f[k], k + 1)
    BY <1>2, <2>1
  <2>3. LeftRight(n, p, i, short, f[k], k)
    BY <1>4, <2>1
  <2> HIDE DEF P
  <2>4. LeftRight(n, p, i, short, SetNext(p, short, S, f[k], k + 1), k + 1)
    BY <2>1, <2>3, SetNextIs
  <2> QED
    BY <2>2, <2>4
<1> HIDE DEF P
<1>5. NINT \in P
  BY <1>3, <1>4, NumberInduction, <1>0
<1>6. LeftRight(n, p, i, short, f[NINT], NINT)
  BY <1>0, <1>5 DEF P
<1>7. FirstValues(p.hash, NINT) = Values(p.hash)
  BY <1>0 DEF FirstValues, Values, Places
<1> QED
  BY <1>1, <1>6, <1>7 DEF LeftRight

(* A number is set in a bitmap.                                            *)
LEMMA BitmapSet ==
  ASSUME NEW n \in VectorSizes, n <= NBIT, NEW p \in Vectors[n], NEW bitmap, bitmap \subseteq 0 .. n - 1
  PROVE  /\ [p EXCEPT !.bitmap = bitmap] \in Good(n)
         /\ Bits[n][[p EXCEPT !.bitmap = bitmap]] = {k + 1 : k \in bitmap}
<1> PICK q : q = [p EXCEPT !.bitmap = bitmap]
  OBVIOUS
<1> SUFFICES q \in Good(n) /\ Bits[n][q] = {k + 1 : k \in bitmap}
  OBVIOUS
<1>1. /\ IsRecord(p) /\ p.size \in {n} /\ p.set \in Nat /\ p.divisor \in Divisors(n)
      /\ p.hash \in [Places -> 0 .. n] /\ p.sub \in [Bins -> Subs(n)]
  BY VectorTypes
<1>2. q = [size |-> p.size, set |-> p.set, divisor |-> p.divisor,
           bitmap |-> bitmap, hash |-> p.hash, sub |-> p.sub]
  BY <1>1 DEF IsRecord
<1>3. /\ q.size = p.size /\ q.set = p.set /\ q.divisor = p.divisor /\ q.bitmap = bitmap
      /\ q.hash = p.hash /\ q.sub = p.sub
  BY <1>2
<1>4. IsRecord(q)
  BY <1>2, <1>3, Zenon DEF IsRecord
<1>5. /\ IsRecord(q) /\ q.size \in {n} /\ q.set \in Nat /\ q.divisor \in Divisors(n)
      /\ q.bitmap \in SUBSET (0 .. n - 1) /\ q.hash \in [Places -> 0 .. n]
      /\ q.sub \in [Bins -> Subs(n)]
  BY <1>1, <1>3, <1>4
<1>6. q \in Vectors[n]
  BY <1>5, VectorTypes, Zenon
<1> QED
  BY <1>3, <1>6, SoundOf, BitsOf

(* A number is set in a vector, by its kind.                               *)
LEMMA SetNodeIs ==
  ASSUME NEW n \in VectorSizes, NEW p \in Good(n), NEW i \in 0 .. n - 1, NEW short \in BOOLEAN, NEW S,
         n > NBIT => SetsRight(Share(n), S), NEW q \in SetNode(n, p, i, short, S)
  PROVE  Right(n, p, i, short, q)
<1>0. n \in Nat /\ NBIT \in Nat /\ p \in Vectors[n]
  BY BitvecSizes DEF VectorSizes, Good
<1>1. CASE n <= NBIT
  <2>1. q = [p EXCEPT !.bitmap = @ \cup {i}]
    BY <1>0, <1>1 DEF SetNode
  <2>2. p.bitmap \in SUBSET (0 .. n - 1) /\ p.bitmap \cup {i} \in SUBSET (0 .. n - 1)
    BY <1>0, VectorTypes
  <2>3. PICK bitmap : bitmap \subseteq 0 .. n - 1 /\ bitmap = p.bitmap \cup {i}
    BY <2>2
  <2>4. q = [p EXCEPT !.bitmap = bitmap]
    BY <2>1, <2>3
  <2>5. q \in Good(n) /\ Bits[n][q] = {k + 1 : k \in bitmap}
    <3>1. /\ [p EXCEPT !.bitmap = bitmap] \in Good(n)
          /\ Bits[n][[p EXCEPT !.bitmap = bitmap]] = {k + 1 : k \in bitmap}
      BY <1>0, <1>1, <2>3, BitmapSet
    <3> QED
      BY <2>4, <3>1
  <2>6. Bits[n][p] = {k + 1 : k \in p.bitmap}
    BY <1>0, <1>1, BitsOf
  <2>7. Bits[n][q] = Bits[n][p] \cup {i + 1}
    BY <2>3, <2>5, <2>6
  <2> QED
    BY <2>5, <2>7 DEF Right
<1>2. CASE n > NBIT /\ p.divisor # 0
  <2>1. q \in SetInPart(p, i, short, S)
    BY <1>0, <1>2 DEF SetNode
  <2>2. Divided(n, p)
    BY <1>0, <1>2, SoundOf DEF Divided
  <2> QED
    BY <1>2, <2>1, <2>2, SetInPartIs
<1>3. CASE n > NBIT /\ p.divisor = 0
  <2>1. SoundHash(p.hash, p.set)
    BY <1>0, <1>3, SoundOf
  <2>2. Bits[n][p] = Values(p.hash)
    BY <1>0, <1>3, BitsOf
  <2>3. CASE ~Full(p, i)
    <3>1. q = Put(p, i)
      BY <1>0, <1>3, <2>3 DEF SetNode
    <3>2. i + 1 \notin Values(p.hash) => p.set + 1 < NINT
      BY <1>0, <2>1, <2>3, NotFull
    <3>3. /\ Put(p, i) \in Vectors[n] /\ Put(p, i).divisor = p.divisor
          /\ SoundHash(Put(p, i).hash, Put(p, i).set)
          /\ Values(Put(p, i).hash) = Values(p.hash) \cup {i + 1}
      BY <1>0, <2>1, <3>2, PutIs
    <3>4. /\ q \in Vectors[n] /\ q.divisor = 0 /\ SoundHash(q.hash, q.set)
          /\ Values(q.hash) = Values(p.hash) \cup {i + 1}
      BY <1>3, <3>1, <3>3
    <3>5. q \in Good(n) /\ Bits[n][q] = Values(q.hash)
      BY <1>3, <3>4, SoundOf, BitsOf
    <3> QED
      BY <2>2, <3>4, <3>5 DEF Right
  <2>4. CASE Full(p, i)
    <3>1. q \in SetAgain(p, i, short, S, NINT) \/ (q = p /\ short)
      BY <1>0, <1>3, <2>4 DEF SetNode, SplitFor
    <3>2. CASE q = p /\ short
      BY <3>2 DEF Right
    <3>3. CASE q \in SetAgain(p, i, short, S, NINT)
      <4>1. /\ Divided(n, q)
            /\ Bits[n][q] \subseteq Values(p.hash) \cup {i + 1}
            /\ ~short => Values(p.hash) \cup {i + 1} \subseteq Bits[n][q]
        BY <1>0, <1>3, <3>3, SetAgainIs
      <4> QED
        BY <2>2, <4>1 DEF Right, Divided
    <3> QED
      BY <3>1, <3>2, <3>3
  <2> QED
    BY <2>3, <2>4
<1> QED
  BY <1>0, <1>1, <1>2, <1>3

(* What bitvecSet does to a vector of any size.                            *)
LEMMA SetBitRight == \A n \in VectorSizes : SetsRight(n, SetBit[n])
<1> DEFINE P == {k \in Nat : \A n \in VectorSizes : n <= k => SetsRight(n, SetBit[n])}
<1>0. VectorSizes \subseteq Nat /\ NBIT \in Nat \ {0}
  BY BitvecSizes DEF VectorSizes
<1>1. ASSUME NEW n \in VectorSizes, n > NBIT => SetsRight(Share(n), SetBit[Share(n)])
      PROVE  SetsRight(n, SetBit[n])
  <2>1. ASSUME NEW p \in Good(n), NEW i \in 0 .. n - 1, NEW short \in BOOLEAN,
               NEW q \in SetBit[n][p][i][short]
        PROVE  Right(n, p, i, short, q)
    <3>1. p \in Vectors[n]
      BY DEF Good
    <3>2. SetBit[n][p][i][short] = SetNode(n, p, i, short, SetBit[Share(n)])
      <4>1. SetBit[n] = SetLevel(n, SetBit[Share(n)])
        BY SetBitIs
      <4>2. SetBit[n][p] = [k \in 0 .. n - 1 |-> [few \in BOOLEAN |->
                              SetNode(n, p, k, few, SetBit[Share(n)])]]
        BY <3>1, <4>1 DEF SetLevel
      <4>3. SetBit[n][p][i] = [few \in BOOLEAN |-> SetNode(n, p, i, few, SetBit[Share(n)])]
        BY <4>2
      <4> QED
        BY <4>3
    <3> QED
      BY <1>1, <2>1, <3>2, SetNodeIs
  <2> QED
    BY <2>1 DEF SetsRight
<1>2. 0 \in P
  <2>1. ASSUME NEW n \in VectorSizes, n <= 0 PROVE SetsRight(n, SetBit[n])
    BY <1>0, <1>1, <2>1
  <2> QED
    BY <2>1
<1>3. ASSUME NEW k \in Nat, k \in P PROVE k + 1 \in P
  <2>1. ASSUME NEW n \in VectorSizes, n <= k + 1 PROVE SetsRight(n, SetBit[n])
    <3>1. n > NBIT => SetsRight(Share(n), SetBit[Share(n)])
      <4> SUFFICES ASSUME n > NBIT PROVE SetsRight(Share(n), SetBit[Share(n)])
        OBVIOUS
      <4>1. Share(n) \in VectorSizes /\ Share(n) \in 1 .. n - 1
        BY SharesSmaller
      <4>2. Share(n) <= k
        BY <1>0, <2>1, <4>1
      <4> QED
        BY <1>3, <4>1, <4>2
    <3> HIDE DEF P
    <3> QED
      BY <1>1, <3>1
  <2> QED
    BY <2>1
<1> HIDE DEF P
<1>4. Size \in P
  BY <1>2, <1>3, NumberInduction, BitvecSizes
<1> QED
  BY <1>4, BitvecSizes DEF P, VectorSizes

-----------------------------------------------------------------------------
(* Clearing a number.                                                      *)

(* q is p without i.                                                       *)
Without(n, p, i, q) == q \in Good(n) /\ Bits[n][q] = Bits[n][p] \ {i + 1}

ClearsRight(n, C) == \A p \in Good(n), i \in 0 .. n - 1 : Without(n, p, i, C[p][i])

(* A number is cleared in its part.                                        *)
LEMMA ClearInPartIs ==
  ASSUME NEW n \in VectorSizes, n > NBIT, NEW p, Divided(n, p), NEW C, ClearsRight(Share(n), C),
         NEW i \in 0 .. n - 1
  PROVE  Without(n, p, i, ClearInPart(p, i, C))
<1>1. PICK d : d = Share(n)
  OBVIOUS
<1>2. /\ d \in VectorSizes /\ d \in Nat \ {0} /\ p \in Vectors[n] /\ p.divisor = d
      /\ p.sub \in [Bins -> Vectors[d] \cup {Null}]
      /\ \A c \in Bins : p.sub[c] # Null => p.sub[c] \in Good(d) /\ Bits[d][p.sub[c]] \subseteq 1 .. d
      /\ \A x : x \in Bits[n][p] <=> \E c \in Bins : InPart(d, p, c, x)
  BY <1>1, DividedIs
<1>3. i \div d \in Bins /\ i % d \in 0 .. d - 1 /\ i = d * (i \div d) + (i % d)
  BY <1>1, InShare
<1>4. PICK b \in Bins, u \in 0 .. d - 1 : b = i \div d /\ u = i % d /\ i = d * b + u
  BY <1>3
<1>5. PICK q : q = ClearInPart(p, i, C)
  OBVIOUS
<1>6. q = IF p.sub[b] = Null THEN p ELSE [p EXCEPT !.sub[b] = C[p.sub[b]][u]]
  BY <1>2, <1>4, <1>5 DEF ClearInPart
<1>7. i + 1 = d * b + (u + 1) /\ u + 1 \in 1 .. d /\ Bins \subseteq Int
  BY <1>2, <1>4 DEF Bins
<1>8. ASSUME NEW c \in Bins, InPart(d, p, c, i + 1) PROVE c = b
  <2>1. PICK v \in 1 .. d : i + 1 = d * c + v
    BY <1>2, <1>8 DEF InPart
  <2>2. d * c + v = d * b + (u + 1)
    BY <1>7, <2>1
  <2> QED
    BY <1>2, <1>7, <2>2, OneShare
<1>9. p \in Good(n)
  BY DEF Divided
<1>10. CASE p.sub[b] = Null
  <2>1. ~InPart(d, p, b, i + 1)
    BY <1>10 DEF InPart
  <2>2. i + 1 \notin Bits[n][p]
    BY <1>2, <1>8, <2>1
  <2> QED
    BY <1>5, <1>6, <1>9, <1>10, <2>2 DEF Without
<1>11. CASE p.sub[b] # Null
  <2>1. PICK part : part = p.sub[b]
    OBVIOUS
  <2>2. part \in Good(d) /\ Bits[d][part] \subseteq 1 .. d
    BY <1>2, <1>11, <2>1
  <2>3. PICK r : r = C[part][u]
    OBVIOUS
  <2>4. Without(d, part, u, r)
    BY <1>1, <1>4, <2>2, <2>3 DEF ClearsRight
  <2>5. r \in Good(d) /\ Bits[d][r] = Bits[d][part] \ {u + 1} /\ Bits[d][r] \subseteq 1 .. d
    BY <2>2, <2>4 DEF Without
  <2>6. q = [p EXCEPT !.sub[b] = r]
    BY <1>6, <1>11, <2>1, <2>3
  <2>7. /\ Divided(n, q)
        /\ \A x : x \in Bits[n][q] <=> \/ \E v \in Bits[d][r] : x = d * b + v
                                       \/ \E c \in Bins \ {b} : InPart(d, p, c, x)
    BY <1>1, <2>5, <2>6, PartIs
  <2>8. \A v \in 1 .. d : d * b + v = i + 1 => v = u + 1
    <3> SUFFICES ASSUME NEW v \in 1 .. d, d * b + v = i + 1 PROVE v = u + 1
      OBVIOUS
    <3>1. d * b + v = d * b + (u + 1)
      BY <1>7
    <3> QED
      BY <1>2, <1>7, <3>1, OneShare
  <2>9. ASSUME NEW x \in Bits[n][q] PROVE x \in Bits[n][p] \ {i + 1}
    <3>1. CASE \E c \in Bins \ {b} : InPart(d, p, c, x)
      BY <1>2, <1>8, <3>1
    <3>2. CASE \E v \in Bits[d][r] : x = d * b + v
      <4>1. PICK v \in Bits[d][r] : x = d * b + v
        BY <3>2
      <4>2. v \in Bits[d][part] /\ v # u + 1 /\ v \in 1 .. d
        BY <2>5, <4>1
      <4>3. InPart(d, p, b, x)
        BY <1>11, <2>1, <4>1, <4>2 DEF InPart
      <4>4. x # i + 1
        BY <2>8, <4>1, <4>2
      <4> QED
        BY <1>2, <4>3, <4>4
    <3> QED
      BY <2>7, <3>1, <3>2
  <2>10. ASSUME NEW x \in Bits[n][p] \ {i + 1} PROVE x \in Bits[n][q]
    <3>1. PICK c \in Bins : InPart(d, p, c, x)
      BY <1>2, <2>10
    <3>2. CASE c # b
      BY <2>7, <3>1, <3>2
    <3>3. CASE c = b
      <4>1. PICK v \in Bits[d][part] : x = d * b + v
        BY <2>1, <3>1, <3>3 DEF InPart
      <4>2. v # u + 1
        BY <1>7, <2>10, <4>1
      <4> QED
        BY <2>5, <2>7, <4>1, <4>2
    <3> QED
      BY <3>2, <3>3
  <2>11. q \in Good(n)
    BY <2>7 DEF Divided
  <2>12. Bits[n][q] = Bits[n][p] \ {i + 1}
    BY <2>9, <2>10
  <2> QED
    BY <1>5, <2>11, <2>12 DEF Without
<1> QED
  BY <1>10, <1>11

(* A number is cleared in a vector, by its kind.                           *)
LEMMA ClearNodeIs ==
  ASSUME NEW n \in VectorSizes, NEW p \in Good(n), NEW i \in 0 .. n - 1, NEW C,
         n > NBIT => ClearsRight(Share(n), C)
  PROVE  Without(n, p, i, ClearNode(n, p, i, C))
<1>0. n \in Nat /\ NBIT \in Nat /\ p \in Vectors[n]
  BY BitvecSizes DEF VectorSizes, Good
<1>1. CASE n <= NBIT
  <2>1. PICK q : q = ClearNode(n, p, i, C)
    OBVIOUS
  <2>2. q = [p EXCEPT !.bitmap = @ \ {i}]
    BY <1>0, <1>1, <2>1 DEF ClearNode
  <2>3. p.bitmap \in SUBSET (0 .. n - 1)
    BY <1>0, VectorTypes
  <2>4. PICK bitmap : bitmap \subseteq 0 .. n - 1 /\ bitmap = p.bitmap \ {i}
    BY <2>3
  <2>5. q = [p EXCEPT !.bitmap = bitmap]
    BY <2>2, <2>4
  <2>6. q \in Good(n) /\ Bits[n][q] = {k + 1 : k \in bitmap}
    <3>1. /\ [p EXCEPT !.bitmap = bitmap] \in Good(n)
          /\ Bits[n][[p EXCEPT !.bitmap = bitmap]] = {k + 1 : k \in bitmap}
      BY <1>0, <1>1, <2>4, BitmapSet
    <3> QED
      BY <2>5, <3>1
  <2>7. Bits[n][p] = {k + 1 : k \in p.bitmap}
    BY <1>0, <1>1, BitsOf
  <2>8. Bits[n][q] = Bits[n][p] \ {i + 1}
    BY <2>3, <2>4, <2>6, <2>7
  <2> QED
    BY <2>1, <2>6, <2>8 DEF Without
<1>2. CASE n > NBIT /\ p.divisor # 0
  <2>1. ClearNode(n, p, i, C) = ClearInPart(p, i, C)
    BY <1>0, <1>2 DEF ClearNode
  <2>2. Divided(n, p)
    BY <1>0, <1>2, SoundOf DEF Divided
  <2> QED
    BY <1>2, <2>1, <2>2, ClearInPartIs
<1>3. CASE n > NBIT /\ p.divisor = 0
  <2>1. PICK q : q = ClearNode(n, p, i, C)
    OBVIOUS
  <2>2. q = Rebuilt(p, i, NINT)
    BY <1>0, <1>3, <2>1 DEF ClearNode
  <2>3. SoundHash(p.hash, p.set) /\ Bits[n][p] = Values(p.hash)
    BY <1>0, <1>3, SoundOf, BitsOf
  <2>4. /\ q \in Vectors[n] /\ q.divisor = p.divisor /\ SoundHash(q.hash, q.set)
        /\ Values(q.hash) = Values(p.hash) \ {i + 1}
    BY <1>0, <2>2, <2>3, RebuiltIs
  <2>5. q \in Good(n) /\ Bits[n][q] = Values(q.hash)
    BY <1>3, <2>4, SoundOf, BitsOf
  <2> QED
    BY <2>1, <2>3, <2>4, <2>5 DEF Without
<1> QED
  BY <1>0, <1>1, <1>2, <1>3

(* What bitvecClear does to a vector of any size.                          *)
LEMMA ClearBitRight == \A n \in VectorSizes : ClearsRight(n, ClearBit[n])
<1> DEFINE P == {k \in Nat : \A n \in VectorSizes : n <= k => ClearsRight(n, ClearBit[n])}
<1>0. VectorSizes \subseteq Nat /\ NBIT \in Nat \ {0}
  BY BitvecSizes DEF VectorSizes
<1>1. ASSUME NEW n \in VectorSizes, n > NBIT => ClearsRight(Share(n), ClearBit[Share(n)])
      PROVE  ClearsRight(n, ClearBit[n])
  <2>1. ASSUME NEW p \in Good(n), NEW i \in 0 .. n - 1
        PROVE  Without(n, p, i, ClearBit[n][p][i])
    <3>1. p \in Vectors[n]
      BY DEF Good
    <3>2. ClearBit[n][p][i] = ClearNode(n, p, i, ClearBit[Share(n)])
      <4>1. ClearBit[n] = ClearLevel(n, ClearBit[Share(n)])
        BY ClearBitIs
      <4>2. ClearBit[n][p] = [k \in 0 .. n - 1 |-> ClearNode(n, p, k, ClearBit[Share(n)])]
        BY <3>1, <4>1 DEF ClearLevel
      <4> QED
        BY <4>2
    <3> QED
      BY <1>1, <2>1, <3>2, ClearNodeIs
  <2> QED
    BY <2>1 DEF ClearsRight
<1>2. 0 \in P
  <2>1. ASSUME NEW n \in VectorSizes, n <= 0 PROVE ClearsRight(n, ClearBit[n])
    BY <1>0, <1>1, <2>1
  <2> QED
    BY <2>1
<1>3. ASSUME NEW k \in Nat, k \in P PROVE k + 1 \in P
  <2>1. ASSUME NEW n \in VectorSizes, n <= k + 1 PROVE ClearsRight(n, ClearBit[n])
    <3>1. n > NBIT => ClearsRight(Share(n), ClearBit[Share(n)])
      <4> SUFFICES ASSUME n > NBIT PROVE ClearsRight(Share(n), ClearBit[Share(n)])
        OBVIOUS
      <4>1. Share(n) \in VectorSizes /\ Share(n) \in 1 .. n - 1
        BY SharesSmaller
      <4>2. Share(n) <= k
        BY <1>0, <2>1, <4>1
      <4> QED
        BY <1>3, <4>1, <4>2
    <3> HIDE DEF P
    <3> QED
      BY <1>1, <3>1
  <2> QED
    BY <2>1
<1> HIDE DEF P
<1>4. Size \in P
  BY <1>2, <1>3, NumberInduction, BitvecSizes
<1> QED
  BY <1>4, BitvecSizes DEF P, VectorSizes

-----------------------------------------------------------------------------
(* Asking for a number.                                                    *)

(* What is told when i is asked for is whether i + 1 is set.               *)
Tells(n, p, i, answers) == \A a \in answers : a <=> i + 1 \in Bits[n][p]

GetsRight(n, G) == \A p \in Good(n), i \in 0 .. n - 1 : Tells(n, p, i, G[p][i])

(* A number is asked for in its part.                                      *)
LEMMA GetInPartIs ==
  ASSUME NEW n \in VectorSizes, n > NBIT, NEW p, Divided(n, p), NEW G, GetsRight(Share(n), G),
         NEW i \in 0 .. n - 1
  PROVE  Tells(n, p, i, GetInPart(p, i, G))
<1>1. PICK d : d = Share(n)
  OBVIOUS
<1>2. /\ d \in VectorSizes /\ d \in Nat \ {0} /\ p \in Vectors[n] /\ p.divisor = d
      /\ \A c \in Bins : p.sub[c] # Null => p.sub[c] \in Good(d) /\ Bits[d][p.sub[c]] \subseteq 1 .. d
      /\ \A x : x \in Bits[n][p] <=> \E c \in Bins : InPart(d, p, c, x)
  BY <1>1, DividedIs
<1>3. i \div d \in Bins /\ i % d \in 0 .. d - 1 /\ i = d * (i \div d) + (i % d)
  BY <1>1, InShare
<1>4. PICK b \in Bins, u \in 0 .. d - 1 : b = i \div d /\ u = i % d /\ i = d * b + u
  BY <1>3
<1>5. GetInPart(p, i, G) = IF p.sub[b] = Null THEN {FALSE} ELSE G[p.sub[b]][u]
  BY <1>2, <1>4 DEF GetInPart
<1>6. i + 1 = d * b + (u + 1) /\ u + 1 \in 1 .. d /\ Bins \subseteq Int
  BY <1>2, <1>4 DEF Bins
<1>7. ASSUME NEW c \in Bins, NEW v \in 1 .. d, i + 1 = d * c + v PROVE c = b /\ v = u + 1
  <2>1. d * c + v = d * b + (u + 1)
    BY <1>6, <1>7
  <2> QED
    BY <1>2, <1>6, <2>1, OneShare
<1>8. i + 1 \in Bits[n][p] <=> p.sub[b] # Null /\ u + 1 \in Bits[d][p.sub[b]]
  <2>1. ASSUME i + 1 \in Bits[n][p] PROVE p.sub[b] # Null /\ u + 1 \in Bits[d][p.sub[b]]
    <3>1. PICK c \in Bins : InPart(d, p, c, i + 1)
      BY <1>2, <2>1
    <3>2. PICK v \in Bits[d][p.sub[c]] : i + 1 = d * c + v
      BY <3>1 DEF InPart
    <3>3. p.sub[c] # Null /\ v \in 1 .. d
      BY <1>2, <3>1, <3>2 DEF InPart
    <3>4. c = b /\ v = u + 1
      BY <1>7, <3>2, <3>3
    <3> QED
      BY <3>2, <3>3, <3>4
  <2>2. ASSUME p.sub[b] # Null, u + 1 \in Bits[d][p.sub[b]] PROVE i + 1 \in Bits[n][p]
    <3>1. InPart(d, p, b, i + 1)
      BY <1>6, <2>2 DEF InPart
    <3> QED
      BY <1>2, <3>1
  <2> QED
    BY <2>1, <2>2
<1>9. CASE p.sub[b] = Null
  BY <1>5, <1>8, <1>9 DEF Tells
<1>10. CASE p.sub[b] # Null
  <2>1. Tells(d, p.sub[b], u, G[p.sub[b]][u])
    BY <1>1, <1>2, <1>10 DEF GetsRight
  <2> QED
    BY <1>5, <1>8, <1>10, <2>1 DEF Tells
<1> QED
  BY <1>9, <1>10

(* A search of a hash finds the number if it is there, and else a free     *)
(* place.                                                                  *)
LEMMA SearchIs ==
  ASSUME NEW hash \in Hashes, NEW set, SoundHash(hash, set), NEW i \in Nat
  PROVE  hash[PlaceOf(hash, i)] # 0 <=> i + 1 \in Values(hash)
<1>1. PICK f \in Places : hash[f] = 0
  BY DEF SoundHash
<1>2. PICK k \in Places : Reached(hash, i, k) /\ PlaceOf(hash, i) = Probe(i, k)
  BY <1>1, PlaceOfIs
<1>3. PICK s \in Places : s = PlaceOf(hash, i) /\ hash[s] \in {0, i + 1}
  <2>1. k \in Nat
    BY BitvecSizes DEF Places
  <2> QED
    BY <1>2, <2>1, ProbeIn DEF Reached
<1>4. hash[s] # 0 => i + 1 \in Values(hash)
  BY <1>3 DEF Values
<1>5. ASSUME i + 1 \in Values(hash) PROVE hash[s] # 0
  <2>1. PICK t \in Places : hash[t] = i + 1 /\ hash[t] # 0
    BY <1>5 DEF Values
  <2>2. PlaceOf(hash, hash[t] - 1) = t
    BY <2>1, FoundIs
  <2>3. hash[t] - 1 = i
    BY <2>1
  <2> QED
    BY <1>3, <2>1, <2>2, <2>3
<1> QED
  BY <1>3, <1>4, <1>5

(* A number is asked for in a vector, by its kind.                         *)
LEMMA GetNodeIs ==
  ASSUME NEW n \in VectorSizes, NEW p \in Good(n), NEW i \in 0 .. n - 1, NEW G,
         n > NBIT => GetsRight(Share(n), G)
  PROVE  Tells(n, p, i, GetNode(n, p, i, G))
<1>0. n \in Nat /\ NBIT \in Nat /\ p \in Vectors[n]
  BY BitvecSizes DEF VectorSizes, Good
<1>1. CASE n <= NBIT
  <2>1. i # NBIT
    BY <1>0, <1>1
  <2>2. GetNode(n, p, i, G) = {i \in p.bitmap}
    BY <1>0, <1>1, <2>1 DEF GetNode
  <2>3. Bits[n][p] = {k + 1 : k \in p.bitmap} /\ p.bitmap \in SUBSET (0 .. n - 1)
    BY <1>0, <1>1, BitsOf, VectorTypes
  <2>4. i + 1 \in Bits[n][p] <=> i \in p.bitmap
    BY <2>3
  <2> QED
    BY <2>2, <2>4, Zenon DEF Tells
<1>2. CASE n > NBIT /\ p.divisor # 0
  <2>1. GetNode(n, p, i, G) = GetInPart(p, i, G)
    BY <1>0, <1>2 DEF GetNode
  <2>2. Divided(n, p)
    BY <1>0, <1>2, SoundOf DEF Divided
  <2> QED
    BY <1>2, <2>1, <2>2, GetInPartIs
<1>3. CASE n > NBIT /\ p.divisor = 0
  <2>1. GetNode(n, p, i, G) = {p.hash[PlaceOf(p.hash, i)] # 0}
    BY <1>0, <1>3 DEF GetNode
  <2>2. SoundHash(p.hash, p.set) /\ Bits[n][p] = Values(p.hash)
    BY <1>0, <1>3, SoundOf, BitsOf
  <2>3. p.hash \in Hashes /\ i \in Nat
    BY <1>0, HashTypes
  <2>4. p.hash[PlaceOf(p.hash, i)] # 0 <=> i + 1 \in Bits[n][p]
    BY <2>2, <2>3, SearchIs
  <2> QED
    BY <2>1, <2>4, Zenon DEF Tells
<1> QED
  BY <1>0, <1>1, <1>2, <1>3

(* What bitvecGet tells of a vector of any size.                           *)
LEMMA GetBitRight == \A n \in VectorSizes : GetsRight(n, GetBit[n])
<1> DEFINE P == {k \in Nat : \A n \in VectorSizes : n <= k => GetsRight(n, GetBit[n])}
<1>0. VectorSizes \subseteq Nat /\ NBIT \in Nat \ {0}
  BY BitvecSizes DEF VectorSizes
<1>1. ASSUME NEW n \in VectorSizes, n > NBIT => GetsRight(Share(n), GetBit[Share(n)])
      PROVE  GetsRight(n, GetBit[n])
  <2>1. ASSUME NEW p \in Good(n), NEW i \in 0 .. n - 1
        PROVE  Tells(n, p, i, GetBit[n][p][i])
    <3>1. p \in Vectors[n] /\ i \in 0 .. n
      BY <1>0 DEF Good
    <3>2. GetBit[n][p][i] = GetNode(n, p, i, GetBit[Share(n)])
      <4>1. GetBit[n] = GetLevel(n, GetBit[Share(n)])
        BY GetBitIs
      <4>2. GetBit[n][p] = [k \in 0 .. n |-> GetNode(n, p, k, GetBit[Share(n)])]
        BY <3>1, <4>1 DEF GetLevel
      <4> QED
        BY <3>1, <4>2
    <3> QED
      BY <1>1, <2>1, <3>2, GetNodeIs
  <2> QED
    BY <2>1 DEF GetsRight
<1>2. 0 \in P
  <2>1. ASSUME NEW n \in VectorSizes, n <= 0 PROVE GetsRight(n, GetBit[n])
    BY <1>0, <1>1, <2>1
  <2> QED
    BY <2>1
<1>3. ASSUME NEW k \in Nat, k \in P PROVE k + 1 \in P
  <2>1. ASSUME NEW n \in VectorSizes, n <= k + 1 PROVE GetsRight(n, GetBit[n])
    <3>1. n > NBIT => GetsRight(Share(n), GetBit[Share(n)])
      <4> SUFFICES ASSUME n > NBIT PROVE GetsRight(Share(n), GetBit[Share(n)])
        OBVIOUS
      <4>1. Share(n) \in VectorSizes /\ Share(n) \in 1 .. n - 1
        BY SharesSmaller
      <4>2. Share(n) <= k
        BY <1>0, <2>1, <4>1
      <4> QED
        BY <1>3, <4>1, <4>2
    <3> HIDE DEF P
    <3> QED
      BY <1>1, <3>1
  <2> QED
    BY <2>1
<1> HIDE DEF P
<1>4. Size \in P
  BY <1>2, <1>3, NumberInduction, BitvecSizes
<1> QED
  BY <1>4, BitvecSizes DEF P, VectorSizes

-----------------------------------------------------------------------------
(* The specification.                                                      *)

(* The inductive invariant: the vector is a sound one of its size.         *)
BitvecInv == vec \in Good(Size) /\ scarce \in BOOLEAN

(* The vector is created sound, and each operation leaves it so.  (bitvec.cu:38-192) *)
THEOREM BitvecInvariance == BitSpec => []BitvecInv
<1>0. Size \in VectorSizes
  BY BitvecSizes DEF VectorSizes
<1>1. BitInit => BitvecInv
  BY <1>0, NewIs DEF BitInit, BitvecInv
<1>2. BitvecInv /\ [BitNext]_bitVars => BitvecInv'
  <2> SUFFICES ASSUME BitvecInv, [BitNext]_bitVars PROVE BitvecInv'
    OBVIOUS
  <2> USE DEF BitvecInv
  <2>1. ASSUME NEW i \in 1 .. Size, bitvecSet(i) PROVE BitvecInv'
    <3>1. PICK short \in BOOLEAN : vec' \in SetBit[Size][vec][i - 1][short] /\ scarce' = short
      BY <2>1 DEF bitvecSet
    <3>2. i - 1 \in 0 .. Size - 1
      BY BitvecSizes
    <3>3. Right(Size, vec, i - 1, short, vec')
      BY <1>0, <3>1, <3>2, SetBitRight DEF SetsRight
    <3>4. vec' \in Good(Size)
      BY <3>3 DEF Right
    <3> QED
      BY <3>1, <3>4
  <2>2. ASSUME NEW i \in 1 .. Size, bitvecClear(i) PROVE BitvecInv'
    <3>1. vec' = ClearBit[Size][vec][i - 1] /\ scarce' = FALSE
      BY <2>2 DEF bitvecClear
    <3>2. i - 1 \in 0 .. Size - 1
      BY BitvecSizes
    <3>3. Without(Size, vec, i - 1, vec')
      BY <1>0, <3>1, <3>2, ClearBitRight DEF ClearsRight
    <3>4. vec' \in Good(Size)
      BY <3>3 DEF Without
    <3> QED
      BY <3>1, <3>4
  <2>3. ASSUME NEW i \in 0 .. Size + 1, bitvecGet(i) PROVE BitvecInv'
    BY <2>3 DEF bitvecGet
  <2>4. CASE UNCHANGED bitVars
    BY <2>4 DEF bitVars
  <2> QED
    BY <2>1, <2>2, <2>3, <2>4 DEF BitNext
<1> QED
  BY <1>1, <1>2, PTL DEF BitSpec

(* No probing is endless and none stops early, in any hash of the vector,  *)
(* and no part holds a number beyond its share.  (bitvec.cu:118-152)       *)
THEOREM ProbingIsSound == BitSpec => []ProbingSound
<1>1. BitvecInv => ProbingSound
  <2> SUFFICES ASSUME BitvecInv PROVE ProbingSound
    OBVIOUS
  <2>1. Size \in VectorSizes /\ vec \in Vectors[Size] /\ Sound[Size][vec]
    BY BitvecSizes DEF BitvecInv, Good, VectorSizes
  <2>2. vec.size \in {Size}
    BY <2>1, VectorTypes
  <2> QED
    BY <2>1, <2>2 DEF ProbingSound
<1> QED
  BY <1>1, BitvecInvariance, PTL

(* The vector is a set of numbers, whatever represents it.                 *)
THEOREM BitSetRefinement == BitSpec => ImplementsBitSet
<1>0. Size \in VectorSizes
  BY BitvecSizes DEF VectorSizes
<1>1. BitInit => AbstractSet!Init
  BY <1>0, NewIs DEF BitInit, AbstractSet!Init
<1>2. BitvecInv /\ BitvecInv' /\ [BitNext]_bitVars => [AbstractSet!Next]_<<Bits[Size][vec], scarce>>
  <2> SUFFICES ASSUME BitvecInv, [BitNext]_bitVars
               PROVE  [AbstractSet!Next]_<<Bits[Size][vec], scarce>>
    OBVIOUS
  <2> USE DEF BitvecInv
  <2>1. ASSUME NEW i \in 1 .. Size, bitvecSet(i) PROVE AbstractSet!Set(i)
    <3>1. PICK short \in BOOLEAN : vec' \in SetBit[Size][vec][i - 1][short] /\ scarce' = short
      BY <2>1 DEF bitvecSet
    <3>2. i - 1 \in 0 .. Size - 1 /\ (i - 1) + 1 = i
      BY BitvecSizes
    <3>3. Right(Size, vec, i - 1, short, vec')
      BY <1>0, <3>1, <3>2, SetBitRight DEF SetsRight
    <3>4. /\ Bits[Size][vec'] \subseteq Bits[Size][vec] \cup {i}
          /\ ~short => Bits[Size][vec] \cup {i} \subseteq Bits[Size][vec']
      BY <3>2, <3>3 DEF Right
    <3>5. CASE short = TRUE
      BY <3>1, <3>4, <3>5 DEF AbstractSet!Set
    <3>6. CASE short = FALSE
      <4>1. Bits[Size][vec'] = Bits[Size][vec] \cup {i}
        BY <3>4, <3>6
      <4> QED
        BY <3>1, <3>6, <4>1 DEF AbstractSet!Set
    <3> QED
      BY <3>5, <3>6
  <2>2. ASSUME NEW i \in 1 .. Size, bitvecClear(i) PROVE AbstractSet!Clear(i)
    <3>1. vec' = ClearBit[Size][vec][i - 1] /\ scarce' = FALSE
      BY <2>2 DEF bitvecClear
    <3>2. i - 1 \in 0 .. Size - 1 /\ (i - 1) + 1 = i
      BY BitvecSizes
    <3>3. Without(Size, vec, i - 1, vec')
      BY <1>0, <3>1, <3>2, ClearBitRight DEF ClearsRight
    <3>4. Bits[Size][vec'] = Bits[Size][vec] \ {i}
      BY <3>2, <3>3 DEF Without
    <3> QED
      BY <3>1, <3>4 DEF AbstractSet!Clear
  <2>3. ASSUME NEW i \in 0 .. Size + 1, bitvecGet(i)
        PROVE  UNCHANGED <<Bits[Size][vec], scarce>>
    BY <2>3 DEF bitvecGet
  <2>4. CASE UNCHANGED bitVars
    BY <2>4 DEF bitVars
  <2> QED
    BY <2>1, <2>2, <2>3, <2>4 DEF BitNext, AbstractSet!Next
<1> QED
  BY <1>1, <1>2, BitvecInvariance, PTL DEF BitSpec, ImplementsBitSet, AbstractSet!Spec

(* bitvecGet finds what is set, though it tells of the next number: no     *)
(* splitting or removal hides one from its search.  (bitvec.cu:71-93)      *)
THEOREM GetIsExact == BitSpec => GetTellsNext
<1>0. Size \in VectorSizes
  BY BitvecSizes DEF VectorSizes
<1>1. ASSUME BitvecInv, NEW i \in 0 .. Size - 1, bitvecGet(i)
      PROVE  told' <=> i + 1 \in Bits[Size][vec]
  <2>1. vec \in Good(Size) /\ vec.size \in {Size}
    BY <1>0, <1>1, VectorTypes DEF BitvecInv, Good
  <2>2. ~(i > vec.size)
    BY <2>1, BitvecSizes
  <2>3. told' \in GetBit[Size][vec][i]
    BY <1>1, <2>2 DEF bitvecGet
  <2>4. Tells(Size, vec, i, GetBit[Size][vec][i])
    BY <1>0, <2>1, GetBitRight DEF GetsRight
  <2> QED
    BY <2>3, <2>4 DEF Tells
<1>2. BitvecInv /\ [BitNext]_bitVars
      => [\A i \in 0 .. Size - 1 : bitvecGet(i) => (told' <=> i + 1 \in Bits[Size][vec])]_bitVars
  BY <1>1
<1> QED
  BY <1>2, BitvecInvariance, PTL DEF BitSpec, GetTellsNext
=============================================================================
