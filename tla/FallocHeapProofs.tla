-------------------------- MODULE FallocHeapProofs --------------------------
(***************************************************************************)
(* Proofs about the chunk heap used one call at a time: its buffer, with   *)
(* pointers of which only the low word moves, loses no chunk and hands out *)
(* none that is in use, until a caller frees a chunk of another one.       *)
(***************************************************************************)
EXTENDS FallocHeap, RingArithmetic, FiniteSetTheorems

(* The buffer divides the range of the low word: it has a number of chunks *)
(* that is a power of two.                                                 *)
Wraps == Word % Size = 0

(* Calls do not overlap, the buffer is smaller than the range of the low   *)
(* word, and the low words do not come round where that would be seen:     *)
(* either the buffer is such a power of two, or there are fewer gets.      *)
Sequential ==
  /\ Serialized /\ Size + 1 < Word
  /\ Wraps \/ Low + MaxGets + Size < Word

(* Where the places are counted from, and the pointers whose place that is.*)
Origin == IF Wraps \/ Base < Word THEN Base ELSE Base - Wide
Reach  == IF Wraps THEN Int ELSE Low .. Low + MaxGets + Size

Getting == {t \in Threads : pc[t] \in {"take", "mark", "clear"}}
Putting == {t \in Threads : pc[t] = "put"}
Pending == {chunk[t] : t \in Putting}

Unused == {c \in Chunks : out[c] = 0}
Used   == {c \in Chunks : out[c] = 1}

(* The places of the buffer in the order in which they come to be read:    *)
(* the first is the one an open get has reserved.                          *)
Start == IF Getting # {} THEN freePtr - 1 ELSE freePtr
At(i) == (Start - Origin + i) % Size

(* Chunks handed out, and references in the buffer. *)
Lent  == Ahead(retnPtr, freePtr) - IF Getting # {} THEN 1 ELSE 0
Width == Size - Lent - IF Putting # {} THEN 1 ELSE 0

-----------------------------------------------------------------------------
(* The inductive invariant, by parts.                                      *)

OneCall == \A t, u \in Threads : pc[t] # "idle" /\ pc[u] # "idle" => t = u

Single == \A c \in Chunks : out[c] <= 1

(* Where the open call works, and on what. *)
CallState ==
  \A t \in Threads :
    /\ pc[t] \in {"take", "mark", "clear"} => place[t] = At(0)
    /\ pc[t] \in {"mark", "clear"} => chunk[t] = refs[place[t]]
    /\ pc[t] = "clear" => chunk[t] # Null
    /\ pc[t] = "put" => place[t] = At(Width)
    /\ pc[t] \in {"put", "unmark"} => chunk[t] \in Unused

(* The first places have the chunks nobody holds, the others nothing. *)
Ring ==
  \A i \in 0 .. Size - 1 :
    refs[At(i)] \in IF i < Width THEN Unused \ Pending ELSE {Null}
Distinct == \A i, j \in 0 .. Width - 1 : refs[At(i)] = refs[At(j)] => i = j
Onto     == \A c \in Unused \ Pending : \E i \in 0 .. Width - 1 : refs[At(i)] = c

Counted == Cardinality(Used) = Lent /\ Lent \in 0 .. Size /\ Width \in 0 .. Size

(* Pointers that do not come round stay in order. *)
InBounds ==
  ~Wraps => Low <= retnPtr /\ retnPtr <= freePtr /\ freePtr <= Low + MaxGets

(* A chunk is marked while it is in use, from before it is handed out till *)
(* after it has come back.                                                 *)
Marked ==
  \A c \in Chunks : magic[c] <=>
    \/ out[c] = 1
    \/ \E t \in Threads : pc[t] \in {"clear", "put", "unmark"} /\ chunk[t] = c

IInv ==
  /\ TypeOK /\ OneCall /\ Single /\ CallState
  /\ Ring /\ Distinct /\ Onto /\ Counted /\ Marked /\ InBounds

-----------------------------------------------------------------------------
(* Arithmetic of the pointers.                                             *)

(* Types of the constants. *)
LEMMA Constant ==
  /\ Size \in Nat \ {0} /\ Word \in Nat \ {0} /\ Wide \in Nat \ {0} /\ Base \in 0 .. Wide - 1
  /\ Low \in 0 .. Word - 1 /\ Origin \in Int /\ MaxGets \in Nat
  /\ Reach \subseteq Int /\ Word <= Wide
<1>1. /\ Size \in Nat \ {0} /\ Word \in Nat \ {0} /\ Wide \in Nat \ {0} /\ Base \in 0 .. Wide - 1
      /\ MaxGets \in Nat /\ Base \in Int
  BY HeapAssumption
<1>2. Low \in 0 .. Word - 1
  BY <1>1, ModRange DEF Low
<1>3. Origin \in Int /\ Reach \subseteq Int
  BY <1>1, <1>2 DEF Origin, Reach
<1>4. Word <= Wide
  <2> SUFFICES ASSUME Wide < Word PROVE FALSE
    BY <1>1
  <2>1. Wide \in 0 .. Word - 1
    BY <1>1
  <2>2. Wide % Word = Wide
    BY <1>1, <2>1, ModSmall
  <2> QED
    BY <1>1, <2>2, HeapAssumption
<1> QED
  BY <1>1, <1>2, <1>3, <1>4

(* Within reach, the detour over the wide type does not change the place. *)
LEMMA PlaceIsMod ==
  ASSUME NEW i \in Reach, Wraps \/ Low + MaxGets + Size < Word
  PROVE  PlaceOf(i) = (i - Origin) % Size
<1>1. /\ Size \in Nat \ {0} /\ Word \in Nat \ {0} /\ Wide \in Nat \ {0} /\ Base \in 0 .. Wide - 1
      /\ Low \in 0 .. Word - 1 /\ MaxGets \in Nat /\ Word <= Wide /\ i \in Int /\ Base \in Int
  BY Constant
<1> PICK k \in Int : k = i - Base
  BY <1>1
<1>2. CASE Wraps
  <2>1. Wide % Word = 0 /\ Word % Size = 0
    BY <1>2, HeapAssumption DEF Wraps
  <2>2. (Wide % Word) % Size = Wide % Size
    <3>1. Wide \in Int
      BY <1>1
    <3> QED
      BY <1>1, <2>1, <3>1, ModMod
  <2>3. 0 % Size = 0
    BY <1>1
  <2>4. Wide % Size = 0
    BY <2>1, <2>2, <2>3
  <2>5. (k % Wide) % Size = k % Size
    BY <1>1, <2>4, ModMod
  <2> QED
    BY <1>2, <2>5 DEF PlaceOf, Origin
<1>3. CASE ~Wraps /\ Base < Word
  <2>1. Base % Word = Base
    <3>1. Base \in 0 .. Word - 1
      BY <1>1, <1>3
    <3> QED
      BY <1>1, <3>1, ModSmall
  <2>2. k \in 0 .. Wide - 1
    BY <1>1, <1>3, <2>1 DEF Reach, Low
  <2>3. k % Wide = k
    BY <1>1, <2>2, ModSmall
  <2> QED
    BY <1>3, <2>3 DEF PlaceOf, Origin
<1>4. CASE ~Wraps /\ ~(Base < Word)
  <2> PICK l \in 0 .. Wide - 1 : l = k + Wide
    BY <1>1, <1>4 DEF Reach
  <2>1. (k + Wide) % Wide = k % Wide
    BY <1>1, ModLap
  <2>2. l % Wide = l
    BY <1>1, ModSmall
  <2>3. i - (Base - Wide) = l
    BY <1>1
  <2> QED
    BY <1>4, <2>1, <2>2, <2>3 DEF PlaceOf, Origin
<1> QED
  BY <1>2, <1>3, <1>4

(* A pointer falls on a place of the buffer. *)
LEMMA PlaceInRange ==
  ASSUME NEW i \in Int
  PROVE  PlaceOf(i) \in Chunks
<1> PICK k \in Int : k = i - Base
  BY Constant
<1> PICK w \in Int : w = k % Wide
  BY Constant, ModRange
<1>1. w % Size \in 0 .. Size - 1
  BY Constant, ModRange
<1> QED
  BY <1>1 DEF Chunks, PlaceOf

(* A step of a pointer takes all places on by one, also where its low word *)
(* wraps.                                                                  *)
LEMMA PlaceNext ==
  ASSUME NEW p \in 0 .. Word - 1, NEW k \in Int, Wraps \/ p + 1 < Word
  PROVE  (Add(p) + k) % Size = ((p + 1) + k) % Size
<1>1. Size \in Nat \ {0} /\ Word \in Nat \ {0}
  BY Constant
<1> PICK e \in Int : e = p + 1
  BY <1>1
<1>2. CASE Wraps
  <2> PICK w \in Int : w = e % Word
    BY <1>1, ModRange
  <2>1. w % Size = e % Size
    BY <1>1, <1>2, ModMod DEF Wraps
  <2>2. ((w % Size) + k) % Size = (w + k) % Size
    BY <1>1, ModAdd
  <2>3. ((e % Size) + k) % Size = (e + k) % Size
    BY <1>1, ModAdd
  <2> QED
    BY <2>1, <2>2, <2>3 DEF Add
<1>3. CASE p + 1 < Word
  <2>1. e \in 0 .. Word - 1
    BY <1>1, <1>3
  <2>2. e % Word = e
    BY <1>1, <2>1, ModSmall
  <2> QED
    BY <2>2 DEF Add
<1> QED
  BY <1>2, <1>3

(* A get puts the pointers one further apart ... *)
LEMMA AheadGet ==
  ASSUME NEW p \in Int, NEW q \in Int, Ahead(p, q) + 1 < Word
  PROVE  Ahead(p, Add(q)) = Ahead(p, q) + 1
<1>1. Word \in Nat \ {0}
  BY HeapAssumption
<1> PICK d \in Int : d = q - p
  OBVIOUS
<1> PICK e \in Int : e = q + 1
  OBVIOUS
<1>2. d % Word \in 0 .. Word - 1 /\ e % Word \in 0 .. Word - 1
  BY <1>1, ModRange
<1> PICK m \in Int : m = -p
  OBVIOUS
<1>3. ((e % Word) + m) % Word = (e + m) % Word
  BY <1>1, ModAdd
<1> PICK one \in Int : one = 1
  OBVIOUS
<1>4. ((d % Word) + one) % Word = (d + one) % Word
  BY <1>1, ModAdd
<1>5. ((d % Word) + one) % Word = (d % Word) + one
  <2> PICK r \in 0 .. Word - 1 : r = (d % Word) + one
    BY <1>1, <1>2 DEF Ahead
  <2> QED
    BY <1>1, ModSmall
<1>6. e + m = d + one /\ (e % Word) + m = (e % Word) - p
  BY <1>2
<1> QED
  BY <1>3, <1>4, <1>5, <1>6 DEF Ahead, Add

(* ... and a free brings them closer. *)
LEMMA AheadFree ==
  ASSUME NEW p \in Int, NEW q \in Int, Ahead(p, q) > 0
  PROVE  Ahead(Add(p), q) = Ahead(p, q) - 1
<1>1. Word \in Nat \ {0}
  BY HeapAssumption
<1> PICK d \in Int : d = q - p
  OBVIOUS
<1> PICK e \in Int : e = p + 1
  OBVIOUS
<1>2. d % Word \in 0 .. Word - 1
  BY <1>1, ModRange
<1>3. (q - (e % Word)) % Word = (q - e) % Word
  BY <1>1, ModSubtract
<1> PICK one \in Int : one = -1
  OBVIOUS
<1>4. ((d % Word) + one) % Word = (d + one) % Word
  BY <1>1, ModAdd
<1>5. ((d % Word) + one) % Word = (d % Word) + one
  <2> PICK r \in 0 .. Word - 1 : r = (d % Word) + one
    BY <1>1, <1>2 DEF Ahead
  <2> QED
    BY <1>1, ModSmall
<1>6. q - e = d + one /\ (d % Word) + one = (d % Word) - 1
  BY <1>2
<1> QED
  BY <1>3, <1>4, <1>5, <1>6 DEF Ahead, Add

(* The distance of pointers that are in order. *)
LEMMA AheadSmall ==
  ASSUME NEW p \in 0 .. Word - 1, NEW q \in 0 .. Word - 1, p <= q
  PROVE  Ahead(p, q) = q - p
<1> PICK d \in 0 .. Word - 1 : d = q - p
  BY Constant
<1> QED
  BY Constant, ModSmall DEF Ahead

(* The place of the returning pointer, seen from the other one. *)
LEMMA PlaceBehind ==
  ASSUME NEW p \in 0 .. Word - 1, NEW q \in 0 .. Word - 1, Wraps \/ p <= q, NEW k \in Int
  PROVE  (p + k) % Size = ((q - Ahead(p, q)) + k) % Size
<1>1. Word \in Nat \ {0} /\ Size \in Nat \ {0} /\ p \in Int /\ q \in Int
  BY Constant
<1> PICK d \in Int : d = q - p
  BY <1>1
<1>2. Ahead(p, q) = d % Word /\ d % Word \in 0 .. Word - 1
  BY <1>1, ModRange DEF Ahead
<1>3. CASE p <= q
  BY <1>1, <1>3, AheadSmall
<1>4. CASE Wraps
  <2> PICK w \in Int : w = d \div Word /\ d = Word * w + (d % Word)
    BY <1>1, DivMod
  <2> PICK r \in Int : r = q - Ahead(p, q)
    BY <1>1, <1>2
  <2>1. r = p + Word * w
    BY <1>1, <1>2
  <2>2. r % Word = p % Word
    <3>1. (p + Word * w) % Word = p % Word
      BY <1>1, ModShift
    <3> QED
      BY <3>1, <2>1
  <2>3. (r % Word) % Size = r % Size /\ (p % Word) % Size = p % Size
    BY <1>1, <1>4, ModMod DEF Wraps
  <2>4. ((r % Size) + k) % Size = (r + k) % Size
    BY <1>1, ModAdd
  <2>5. ((p % Size) + k) % Size = (p + k) % Size
    BY <1>1, ModAdd
  <2> QED
    BY <2>2, <2>3, <2>4, <2>5
<1> QED
  BY <1>3, <1>4

-----------------------------------------------------------------------------
(* The window of places.                                                   *)

(* Types of the values the invariant counts with. *)
LEMMA Types ==
  ASSUME Sequential, TypeOK
  PROVE  /\ freePtr \in 0 .. Word - 1 /\ retnPtr \in 0 .. Word - 1
         /\ freePtr \in Int /\ retnPtr \in Int /\ Start \in Int /\ Origin \in Int
         /\ Size \in Nat \ {0} /\ Word \in Nat \ {0} /\ Size + 1 < Word
         /\ Lent \in Int /\ Width \in Int /\ Ahead(retnPtr, freePtr) \in 0 .. Word - 1
         /\ \A i \in Int : At(i) \in Chunks
<1>1. /\ freePtr \in 0 .. Word - 1 /\ retnPtr \in 0 .. Word - 1
      /\ freePtr \in Int /\ retnPtr \in Int /\ Start \in Int /\ Origin \in Int
      /\ Size \in Nat \ {0} /\ Word \in Nat \ {0} /\ Size + 1 < Word
  BY Constant DEF TypeOK, Start, Sequential
<1> PICK d \in Int : d = freePtr - retnPtr
  BY <1>1
<1>2. Ahead(retnPtr, freePtr) \in 0 .. Word - 1
  BY <1>1, ModRange DEF Ahead
<1>3. Lent \in Int /\ Width \in Int
  BY <1>1, <1>2 DEF Lent, Width
<1>4. \A i \in Int : At(i) \in Chunks
  <2> SUFFICES ASSUME NEW i \in Int PROVE At(i) \in Chunks
    OBVIOUS
  <2> PICK k \in Int : k = Start - Origin + i
    BY <1>1
  <2>1. k % Size \in 0 .. Size - 1
    BY <1>1, ModRange
  <2> QED
    BY <2>1 DEF At, Chunks
<1> QED
  BY <1>1, <1>2, <1>3, <1>4

(* The places of one lap are different. *)
LEMMA AtDiffers ==
  ASSUME Sequential, TypeOK, NEW i \in 0 .. Size - 1, NEW j \in 0 .. Size - 1, i # j
  PROVE  At(i) # At(j)
<1> PICK k \in Int : k = Start - Origin + i
  BY Types
<1> PICK l \in Int : l = Start - Origin + j
  BY Types
<1>1. k # l /\ k - l < Size /\ l - k < Size /\ Size \in Nat \ {0}
  BY Types
<1>2. k % Size # l % Size
  BY <1>1, ModDistinct
<1> QED
  BY <1>2 DEF At

(* The places on which the pointers fall between calls. *)
LEMMA AtPointers ==
  ASSUME Sequential, IInv, \A t \in Threads : pc[t] = "idle"
  PROVE  /\ PlaceOf(retnPtr) = At(Width)
         /\ \A i \in 0 .. Size : freePtr + i \in Reach /\ PlaceOf(freePtr + i) = At(i)
<1>1. /\ Start = freePtr /\ Lent = Ahead(retnPtr, freePtr) - 0 /\ Width = Size - Lent - 0
  BY DEF Getting, Putting, Start, Lent, Width
<1>2. /\ freePtr \in 0 .. Word - 1 /\ retnPtr \in 0 .. Word - 1 /\ Origin \in Int
      /\ Size \in Nat \ {0} /\ Word \in Nat \ {0} /\ Width \in Int
      /\ Ahead(retnPtr, freePtr) \in 0 .. Word - 1
  BY Types DEF IInv
<1>3. /\ Wraps \/ Low + MaxGets + Size < Word
      /\ Low \in 0 .. Word - 1 /\ MaxGets \in Nat
  BY Constant DEF Sequential
<1>4. ASSUME NEW i \in 0 .. Size
      PROVE  freePtr + i \in Reach /\ PlaceOf(freePtr + i) = At(i)
  <2> PICK k \in Int : k = freePtr + i
    BY <1>2
  <2>1. k \in Reach
    BY <1>2, <1>3 DEF Reach, IInv, InBounds
  <2>2. k - Origin = Start - Origin + i
    BY <1>1, <1>2
  <2> QED
    BY <1>3, <2>1, <2>2, PlaceIsMod DEF At
<1>5. PlaceOf(retnPtr) = At(Width)
  <2>1. retnPtr \in Reach /\ (Wraps \/ retnPtr <= freePtr)
    BY <1>2, <1>3 DEF Reach, IInv, InBounds
  <2> PICK k \in Int : k = -Origin
    BY <1>2
  <2> PICK l \in Int : l = (freePtr - Ahead(retnPtr, freePtr)) + k
    BY <1>2
  <2>2. (retnPtr + k) % Size = l % Size
    BY <1>2, <2>1, PlaceBehind
  <2>3. (l + Size) % Size = l % Size
    BY <1>2, ModLap
  <2>4. l + Size = Start - Origin + Width /\ retnPtr + k = retnPtr - Origin
    BY <1>1, <1>2
  <2> QED
    BY <1>3, <2>1, <2>2, <2>3, <2>4, PlaceIsMod DEF At
<1> QED
  BY <1>4, <1>5

(* With no call open the window begins at freeChunkPtr ... *)
LEMMA WindowIdle ==
  ASSUME \A t \in Threads : pc[t] = "idle"
  PROVE  /\ Getting = {} /\ Putting = {} /\ Pending = {}
         /\ Start = freePtr /\ Lent = Ahead(retnPtr, freePtr) - 0
         /\ Width = Size - Lent - 0
BY DEF Getting, Putting, Pending, Start, Lent, Width

(* ... with a get open, before it ... *)
LEMMA WindowGet ==
  ASSUME OneCall, NEW t \in Threads, pc[t] \in {"take", "mark", "clear"}
  PROVE  /\ Putting = {} /\ Pending = {}
         /\ Start = freePtr - 1 /\ Lent = Ahead(retnPtr, freePtr) - 1
         /\ Width = Size - Lent - 0
<1>1. t \in Getting /\ Putting = {}
  BY DEF OneCall, Getting, Putting
<1> QED
  BY <1>1 DEF Start, Lent, Width, Pending

(* ... and it is one shorter while a free has not written its reference. *)
LEMMA WindowPut ==
  ASSUME OneCall, NEW t \in Threads, pc[t] = "put"
  PROVE  /\ Getting = {} /\ Putting = {t} /\ Pending = {chunk[t]}
         /\ Start = freePtr /\ Lent = Ahead(retnPtr, freePtr) - 0
         /\ Width = Size - Lent - 1
<1>1. Putting = {t} /\ Getting = {}
  BY DEF OneCall, Getting, Putting
<1> QED
  BY <1>1 DEF Start, Lent, Width, Pending

(* After it the window is as with no call open. *)
LEMMA WindowUnmark ==
  ASSUME OneCall, NEW t \in Threads, pc[t] = "unmark"
  PROVE  /\ Getting = {} /\ Putting = {} /\ Pending = {}
         /\ Start = freePtr /\ Lent = Ahead(retnPtr, freePtr) - 0
         /\ Width = Size - Lent - 0
<1>1. Putting = {} /\ Getting = {}
  BY DEF OneCall, Getting, Putting
<1> QED
  BY <1>1 DEF Start, Lent, Width, Pending

(* There are finitely many chunks to count. *)
LEMMA UsedFinite == IsFiniteSet(Used) /\ Cardinality(Used) \in Nat
<1>1. IsFiniteSet(Chunks)
  BY HeapAssumption, FS_Interval DEF Chunks
<1>2. IsFiniteSet(Used)
  BY <1>1, FS_Subset DEF Used
<1> QED
  BY <1>2, FS_CardinalityType

(* The parts of the invariant that look at the window do not change while  *)
(* the places, the references and the chunks in use stay the same.         *)
LEMMA SameWindow ==
  ASSUME IInv, Sequential, UNCHANGED <<refs, out>>,
         \A i \in Int : At(i)' = At(i), Lent' = Lent, Width' = Width,
         Pending' = Pending
  PROVE  Ring' /\ Distinct' /\ Onto' /\ Counted'
<1>1. Unused' = Unused /\ Used' = Used
  BY DEF Unused, Used
<1>2. Width \in Int /\ Size \in Int
  BY Types DEF IInv
<1>3. Ring' /\ Distinct' /\ Onto'
  BY <1>1, <1>2 DEF IInv, Ring, Distinct, Onto
<1> QED
  BY <1>1, <1>3 DEF IInv, Counted

-----------------------------------------------------------------------------
(* The heap starts with every chunk unused and at its own place. *)
LEMMA InitInv == Sequential /\ Init => IInv
<1> SUFFICES ASSUME Sequential, Init PROVE IInv
  OBVIOUS
<1>1. 0 \in Chunks /\ Size \in Nat \ {0} /\ Word \in Nat \ {0} /\ Base \in Int
  BY HeapAssumption DEF Chunks
<1>2. Low \in 0 .. Word - 1
  BY <1>1, ModRange DEF Low
<1>3. TypeOK
  BY <1>1, <1>2 DEF Init, TypeOK
<1>4. OneCall /\ Single /\ Marked
  BY DEF Init, OneCall, Single, Marked
<1>5. \A t \in Threads : pc[t] = "idle"
  BY DEF Init
<1>6. Ahead(retnPtr, freePtr) = 0
  <2>1. Low - Low = 0
    BY <1>2
  <2>2. 0 % Word = 0
    BY <1>1
  <2> QED
    BY <2>1, <2>2 DEF Init, Ahead
<1>7. Pending = {} /\ Start = Low /\ Lent = 0 /\ Width = Size
  BY <1>1, <1>5, <1>6, WindowIdle DEF Init
<1>8. \A i \in Int : At(i) \in Chunks /\ refs[At(i)] = At(i)
  BY <1>3, Types DEF Init
<1>9. \A c \in Chunks : \E i \in Chunks : At(i) = c
  <2> SUFFICES ASSUME NEW c \in Chunks PROVE \E i \in Chunks : At(i) = c
    OBVIOUS
  <2>1. Low \in Int /\ Origin \in Int /\ c \in Int /\ c \in 0 .. Size - 1
    BY Constant DEF Chunks
  <2> PICK j \in Int : j = c - (Low - Origin)
    BY <2>1
  <2> PICK k \in Int : k = Low - Origin
    BY <2>1
  <2> PICK i \in Chunks : i = j % Size
    BY <1>1, ModRange DEF Chunks
  <2>2. ((j % Size) + k) % Size = (j + k) % Size
    BY <1>1, ModAdd
  <2>3. j + k = c /\ i + k = Start - Origin + i /\ c % Size = c
    BY <1>1, <1>7, <2>1, ModSmall DEF Chunks
  <2> QED
    BY <2>2, <2>3 DEF At
<1>10. Unused = Chunks /\ Used = {}
  BY DEF Init, Unused, Used
<1>11. CallState /\ InBounds
  BY <1>2, <1>5, Constant DEF Init, CallState, InBounds
<1>12. Ring /\ Distinct /\ Onto
  <2>1. Ring /\ Onto
    <3>1. Unused \ Pending = Chunks /\ 0 .. Width - 1 = Chunks /\ Chunks \subseteq Int
      BY <1>1, <1>7, <1>10 DEF Chunks
    <3>2. Onto
      BY <3>1, <1>8, <1>9 DEF Onto
    <3>3. \A i \in 0 .. Size - 1 : i \in Int /\ i < Width
      BY <1>1, <1>7
    <3> QED
      BY <3>1, <3>2, <3>3, <1>8 DEF Ring
  <2>2. Distinct
    BY <1>1, <1>3, <1>7, <1>8, AtDiffers DEF Distinct
  <2> QED
    BY <2>1, <2>2
<1>13. Counted
  BY <1>1, <1>7, <1>10, FS_EmptySet DEF Counted
<1> QED
  BY <1>3, <1>4, <1>11, <1>12, <1>13 DEF IInv

-----------------------------------------------------------------------------
(* One lemma per action: it preserves the invariant.                       *)

(* Reserving the next reference does not change the window. *)
LEMMA GetReserveInv ==
  ASSUME Sequential, IInv, NEW t \in Threads, GetReserve(t)
  PROVE  IInv'
<1> USE DEF IInv
<1>1. \A u \in Threads : pc[u] = "idle"
  BY DEF Sequential, GetReserve, CanCall
<1>2. /\ freePtr' = Add(freePtr) /\ place' = [place EXCEPT ![t] = PlaceOf(freePtr)]
      /\ pc' = [pc EXCEPT ![t] = "take"] /\ Ahead(Low, freePtr) < MaxGets
      /\ UNCHANGED <<retnPtr, refs, magic, out, user, stale, chunk, halted>>
  BY DEF GetReserve, Goto
<1>3. /\ freePtr \in Int /\ retnPtr \in Int /\ Size \in Nat \ {0} /\ Word \in Nat \ {0}
      /\ Size + 1 < Word /\ freePtr + 1 \in Int /\ PlaceOf(freePtr) \in Chunks
      /\ freePtr \in 0 .. Word - 1 /\ Origin \in Int /\ Start \in Int
  BY Types, PlaceInRange
<1>4. TypeOK'
  <2>1. Add(freePtr) \in 0 .. Word - 1
    BY <1>3, ModRange DEF Add
  <2> QED
    BY <1>2, <1>3, <2>1 DEF TypeOK
<1>5. pc'[t] = "take" /\ \A u \in Threads \ {t} : pc'[u] = "idle"
  BY <1>1, <1>2 DEF TypeOK
<1>6. OneCall' /\ Single'
  BY <1>2, <1>5 DEF OneCall, Single
<1>7. /\ Getting = {} /\ Pending = {} /\ Start = freePtr
      /\ Lent = Ahead(retnPtr, freePtr) - 0 /\ Width = Size - Lent - 0
  BY <1>1, WindowIdle
<1>8. Getting' # {} /\ Putting' = {} /\ Pending' = {}
  BY <1>5 DEF Getting, Putting, Pending
<1>9. Lent' = Lent /\ Width' = Width
  <2>1. Ahead(retnPtr, freePtr) + 1 < Word /\ Ahead(retnPtr, freePtr) \in Int
    BY <1>3, <1>7, Types DEF Counted
  <2>2. Ahead(retnPtr, Add(freePtr)) = Ahead(retnPtr, freePtr) + 1
    BY <1>3, <2>1, AheadGet
  <2>3. Lent' = Lent
    BY <1>2, <1>7, <1>8, <2>1, <2>2 DEF Lent, Ahead
  <2> QED
    BY <1>7, <1>8, <2>3 DEF Width
<1>10. (Wraps \/ freePtr + 1 < Word) /\ InBounds'
  <2>1. CASE Wraps
    BY <2>1 DEF InBounds
  <2>2. CASE ~Wraps
    <3>1. Low \in 0 .. Word - 1 /\ Low <= retnPtr /\ retnPtr <= freePtr
          /\ Low + MaxGets + Size < Word /\ MaxGets \in Nat
      BY <2>2, Constant DEF Sequential, InBounds
    <3> Low <= freePtr
      BY <1>3, <3>1
    <3>2. freePtr - Low < MaxGets
      BY <1>2, <1>3, <3>1, AheadSmall
    <3>3. freePtr + 1 \in 0 .. Word - 1
      BY <1>3, <3>1, <3>2
    <3>4. (freePtr + 1) % Word = freePtr + 1
      BY <1>3, <3>3, ModSmall
    <3> QED
      BY <1>2, <1>3, <3>1, <3>2, <3>3, <3>4 DEF InBounds, Add
  <2> QED
    BY <2>1, <2>2
<1>11. \A i \in Int : At(i)' = At(i)
  <2> SUFFICES ASSUME NEW i \in Int PROVE At(i)' = At(i)
    OBVIOUS
  <2> PICK k \in Int : k = i - Origin - 1
    BY <1>3
  <2>1. Add(freePtr) \in Int
    BY <1>2, <1>3, <1>4 DEF TypeOK
  <2>2. Start' - Origin + i = Add(freePtr) + k /\ Start - Origin + i = (freePtr + 1) + k
    BY <1>2, <1>3, <1>7, <1>8, <2>1 DEF Start
  <2> QED
    BY <1>3, <1>10, <2>2, PlaceNext DEF At, Origin, Wraps
<1>12. CallState'
  <2>1. place'[t] = At(0)
    <3>1. 0 \in 0 .. Size /\ freePtr + 0 = freePtr
      BY <1>3
    <3> QED
      BY <1>1, <1>2, <3>1, AtPointers DEF TypeOK
  <2> QED
    BY <1>5, <1>11, <2>1 DEF CallState
<1>13. Marked'
  BY <1>1, <1>2, <1>5 DEF Marked
<1> QED
  BY <1>2, <1>4, <1>6, <1>7, <1>8, <1>9, <1>10, <1>11, <1>12, <1>13, SameWindow

(* What stays when a call goes on and neither pointers, references nor     *)
(* chunks in use change.                                                   *)
LEMMA GoesOn ==
  ASSUME Sequential, IInv, NEW t \in Threads, pc[t] # "idle",
         NEW label, label # "idle", pc' = [pc EXCEPT ![t] = label],
         UNCHANGED <<freePtr, retnPtr, refs, out>>,
         label \in {"take", "mark", "clear"} <=> pc[t] \in {"take", "mark", "clear"},
         label # "put" /\ pc[t] # "put"
  PROVE  /\ OneCall' /\ Single' /\ Ring' /\ Distinct' /\ Onto' /\ Counted' /\ InBounds'
         /\ pc'[t] = label /\ \A u \in Threads \ {t} : pc[u] = "idle" /\ pc'[u] = "idle"
         /\ \A i \in Int : At(i)' = At(i)
<1> USE DEF IInv
<1>1. pc'[t] = label /\ \A u \in Threads \ {t} : pc[u] = "idle" /\ pc'[u] = "idle"
  BY DEF OneCall, TypeOK
<1>2. OneCall' /\ Single'
  BY <1>1 DEF OneCall, Single
<1>3. Getting' = Getting /\ Putting = {} /\ Putting' = {} /\ Pending = {} /\ Pending' = {}
  BY <1>1 DEF Getting, Putting, Pending
<1>4. Start' = Start /\ Lent' = Lent /\ Width' = Width
  BY <1>3 DEF Start, Lent, Width, Ahead
<1>5. \A i \in Int : At(i)' = At(i)
  BY <1>4 DEF At, Origin, Wraps
<1>6. InBounds'
  BY DEF InBounds, Wraps
<1> QED
  BY <1>1, <1>2, <1>3, <1>4, <1>5, <1>6, SameWindow

(* The reference at the reserved place is read. *)
LEMMA GetTakeInv ==
  ASSUME Sequential, IInv, NEW t \in Threads, GetTake(t)
  PROVE  IInv'
<1> USE DEF IInv
<1>1. /\ pc[t] = "take" /\ pc' = [pc EXCEPT ![t] = "mark"]
      /\ chunk' = [chunk EXCEPT ![t] = refs[place[t]]]
      /\ UNCHANGED <<freePtr, retnPtr, refs, magic, out, user, stale, place, halted>>
  BY DEF GetTake, Goto
<1>2. TypeOK'
  BY <1>1 DEF TypeOK
<1>3. /\ OneCall' /\ Single' /\ Ring' /\ Distinct' /\ Onto' /\ Counted' /\ InBounds'
      /\ pc'[t] = "mark" /\ \A u \in Threads \ {t} : pc[u] = "idle" /\ pc'[u] = "idle"
      /\ \A i \in Int : At(i)' = At(i)
  BY <1>1, GoesOn
<1>4. CallState'
  BY <1>1, <1>3 DEF CallState, TypeOK
<1>5. Marked'
  BY <1>1, <1>3 DEF Marked
<1> QED
  BY <1>2, <1>3, <1>4, <1>5

(* The mark is written into the header of the chunk that was read. *)
LEMMA GetMarkInv ==
  ASSUME Sequential, IInv, NEW t \in Threads, GetMark(t)
  PROVE  IInv'
<1> USE DEF IInv
<1>1. /\ pc[t] = "mark" /\ pc' = [pc EXCEPT ![t] = "clear"] /\ chunk[t] # Null
      /\ magic' = [magic EXCEPT ![chunk[t]] = TRUE]
      /\ UNCHANGED <<freePtr, retnPtr, refs, out, user, stale, place, chunk, halted>>
  BY DEF GetMark, Goto
<1>2. chunk[t] \in Chunks
  BY <1>1 DEF TypeOK
<1>3. TypeOK'
  BY <1>1, <1>2 DEF TypeOK
<1>4. /\ OneCall' /\ Single' /\ Ring' /\ Distinct' /\ Onto' /\ Counted' /\ InBounds'
      /\ pc'[t] = "clear" /\ \A u \in Threads \ {t} : pc[u] = "idle" /\ pc'[u] = "idle"
      /\ \A i \in Int : At(i)' = At(i)
  BY <1>1, GoesOn
<1>5. CallState'
  BY <1>1, <1>4 DEF CallState
<1>6. Marked'
  <2> SUFFICES ASSUME NEW c \in Chunks
               PROVE  magic'[c] <=> (out[c] = 1 \/ chunk[t] = c)
    BY <1>1, <1>4 DEF Marked
  <2>1. c # chunk[t] => (magic[c] <=> out[c] = 1)
    BY <1>1, <1>4 DEF Marked
  <2>2. magic'[c] = IF c = chunk[t] THEN TRUE ELSE magic[c]
    BY <1>1 DEF TypeOK
  <2> QED
    BY <2>1, <2>2
<1> QED
  BY <1>3, <1>4, <1>5, <1>6

(* The chunk at the head of the window is handed out. *)
LEMMA GetClearInv ==
  ASSUME Sequential, IInv, NEW t \in Threads, GetClear(t)
  PROVE  IInv' /\ stale' = stale /\ \E c \in Chunks : P!Get(t, c)
<1> USE DEF IInv
<1> DEFINE c == chunk[t]
<1>1. /\ pc[t] = "clear" /\ pc' = [pc EXCEPT ![t] = "idle"]
      /\ refs' = [refs EXCEPT ![place[t]] = Null]
      /\ out' = [out EXCEPT ![chunk[t]] = out[chunk[t]] + 1]
      /\ user' = [user EXCEPT ![chunk[t]] = t]
      /\ UNCHANGED <<freePtr, retnPtr, magic, stale, place, chunk, halted>>
  BY DEF GetClear, Goto
<1>2. place[t] = At(0) /\ c = refs[At(0)] /\ c # Null
  BY <1>1 DEF CallState
<1>3. /\ freePtr \in Int /\ Start \in Int /\ Size \in Nat \ {0} /\ Lent \in Int /\ Width \in Int
      /\ Ahead(retnPtr, freePtr) \in Int /\ Origin \in Int /\ \A i \in Int : At(i) \in Chunks
  BY Types
<1>4. /\ Pending = {} /\ Start = freePtr - 1
      /\ Lent = Ahead(retnPtr, freePtr) - 1 /\ Width = Size - Lent - 0
  BY <1>1, WindowGet
<1>5. Width > 0 /\ c \in Unused
  <2>1. 0 \in 0 .. Size - 1
    BY <1>3
  <2> QED
    BY <1>2, <1>3, <1>4, <2>1 DEF Ring
<1> HIDE DEF c
<1>6. c \in Chunks /\ out[c] = 0 /\ out' = [out EXCEPT ![c] = 1] /\ user' = [user EXCEPT ![c] = t]
  <2>1. c \in Chunks /\ out[c] = 0 /\ out' = [out EXCEPT ![c] = out[c] + 1]
    BY <1>1, <1>5 DEF Unused, c
  <2>2. out[c] + 1 = 1
    BY <2>1
  <2> QED
    BY <1>1, <2>1, <2>2 DEF c
<1>7. TypeOK'
  BY <1>1, <1>6 DEF TypeOK
<1>8. \A u \in Threads : pc'[u] = "idle"
  BY <1>1 DEF TypeOK, OneCall
<1>9. OneCall' /\ Single' /\ CallState' /\ InBounds'
  <2>1. Single'
    BY <1>6 DEF Single, TypeOK
  <2> QED
    BY <1>1, <1>8, <2>1 DEF OneCall, CallState, InBounds, Wraps
<1>10. /\ Pending' = {} /\ Start' = Start + 1 /\ Lent' = Lent + 1 /\ Width' = Width - 1
  <2>1. /\ Pending' = {} /\ Start' = freePtr'
        /\ Lent' = Ahead(retnPtr, freePtr)' - 0 /\ Width' = Size - Lent' - 0
    BY <1>8 DEF Getting, Putting, Pending, Start, Lent, Width
  <2>2. Ahead(retnPtr, freePtr)' = Ahead(retnPtr, freePtr)
    BY <1>1 DEF Ahead
  <2> QED
    BY <1>1, <1>3, <1>4, <2>1, <2>2
<1>11. \A i \in Int : At(i)' = At(i + 1)
  <2>1. \A i \in Int : Start' - Origin + i = Start - Origin + (i + 1)
    BY <1>3, <1>10
  <2> QED
    BY <2>1 DEF At, Origin, Wraps
<1>12. \A i \in 0 .. Size - 2 : At(i)' # At(0) /\ refs'[At(i)'] = refs[At(i + 1)]
  <2> SUFFICES ASSUME NEW i \in 0 .. Size - 2
               PROVE  At(i)' # At(0) /\ refs'[At(i)'] = refs[At(i + 1)]
    OBVIOUS
  <2> PICK k \in 0 .. Size - 1 : k = i + 1
    BY <1>3
  <2>1. 0 \in 0 .. Size - 1 /\ k # 0
    BY <1>3
  <2>2. At(k) # At(0) /\ At(k) \in Chunks
    BY <1>3, <2>1, AtDiffers
  <2>3. At(i)' = At(k)
    BY <1>11
  <2> QED
    BY <1>1, <1>2, <2>2, <2>3 DEF TypeOK
<1>13. refs'[At(Size - 1)'] = Null
  <2> PICK k \in Int : k = Start - Origin
    BY <1>3
  <2>1. At(Size - 1)' = At((Size - 1) + 1)
    BY <1>3, <1>11
  <2>2. Start - Origin + ((Size - 1) + 1) = k + Size /\ Start - Origin + 0 = k
    BY <1>3
  <2>3. (k + Size) % Size = k % Size
    BY <1>3, ModLap
  <2>4. At(Size - 1)' = At(0)
    BY <2>1, <2>2, <2>3 DEF At
  <2> QED
    BY <1>1, <1>2, <1>3, <2>4 DEF TypeOK
<1>14. Unused' = Unused \ {c} /\ Used' = Used \cup {c} /\ c \notin Used
  BY <1>6 DEF Unused, Used, TypeOK
<1>15. \A i \in 0 .. Width' - 1 : /\ i \in 0 .. Size - 2 /\ i + 1 \in 0 .. Size - 1 /\ i + 1 < Width
                                  /\ i + 1 \in 0 .. Width - 1 /\ i + 1 # 0
  BY <1>3, <1>10 DEF Counted
<1>16. Ring'
  <2> SUFFICES ASSUME NEW i \in 0 .. Size - 1
               PROVE  refs'[At(i)'] \in IF i < Width' THEN Unused' \ Pending' ELSE {Null}
    BY DEF Ring
  <2>1. CASE i = Size - 1
    BY <2>1, <1>3, <1>10, <1>13 DEF Counted
  <2>2. CASE i # Size - 1
    <3> PICK k \in 0 .. Size - 1 : k = i + 1 /\ k # 0
      BY <2>2, <1>3
    <3>1. i \in 0 .. Size - 2 /\ refs'[At(i)'] = refs[At(k)]
      BY <2>2, <1>3, <1>12
    <3>2. refs[At(k)] \in IF k < Width THEN Unused ELSE {Null}
      BY <1>4 DEF Ring
    <3>3. k < Width => refs[At(k)] # c
      <4> SUFFICES ASSUME k < Width PROVE refs[At(k)] # c
        OBVIOUS
      <4>1. k \in 0 .. Width - 1 /\ 0 \in 0 .. Width - 1
        BY <1>3, <1>5
      <4> QED
        BY <4>1, <1>2 DEF Distinct
    <3>4. k < Width <=> i < Width'
      BY <1>3, <1>10
    <3> QED
      BY <3>1, <3>2, <3>3, <3>4, <1>10, <1>14
  <2> QED
    BY <2>1, <2>2
<1>17. Distinct'
  <2> SUFFICES ASSUME NEW i \in 0 .. Width' - 1, NEW j \in 0 .. Width' - 1,
                      refs'[At(i)'] = refs'[At(j)']
               PROVE  i = j
    BY DEF Distinct
  <2> PICK k \in 0 .. Width - 1 : k = i + 1
    BY <1>15
  <2> PICK l \in 0 .. Width - 1 : l = j + 1
    BY <1>15
  <2>1. refs[At(k)] = refs[At(l)]
    BY <1>12, <1>15
  <2>2. k = l
    BY <2>1 DEF Distinct
  <2> QED
    BY <2>2
<1>18. Onto'
  <2> SUFFICES ASSUME NEW d \in Unused, d # c
               PROVE  \E i \in 0 .. Width' - 1 : refs'[At(i)'] = d
    BY <1>10, <1>14 DEF Onto
  <2>1. PICK k \in 0 .. Width - 1 : refs[At(k)] = d
    BY <1>4 DEF Onto
  <2>2. k # 0
    BY <1>2, <2>1
  <2> PICK i \in 0 .. Width' - 1 : i = k - 1
    BY <2>2, <1>3, <1>10
  <2>3. i \in 0 .. Size - 2 /\ i + 1 = k
    BY <1>15, <1>3
  <2> QED
    BY <2>1, <2>3, <1>12
<1>19. Counted'
  <2>1. Cardinality(Used') = Cardinality(Used) + 1
    BY <1>14, UsedFinite, FS_AddElement
  <2> QED
    BY <2>1, <1>3, <1>4, <1>5, <1>10 DEF Counted
<1>20. Marked'
  BY <1>1, <1>6, <1>8 DEF Marked, c, TypeOK, OneCall
<1>21. stale' = stale /\ P!Get(t, c)
  BY <1>1, <1>6 DEF P!Get
<1> QED
  BY <1>6, <1>7, <1>9, <1>16, <1>17, <1>18, <1>19, <1>20, <1>21

(* A free reserves the place behind the window; its chunk is on its way.   *)
LEMMA FreeReserveInv ==
  ASSUME Sequential, IInv, NEW t \in Threads, NEW c \in Chunks, FreeReserve(t, c)
  PROVE  IInv' /\ (stale' \/ (~stale /\ P!Free(t, c)))
<1> USE DEF IInv
<1>1. \A u \in Threads : pc[u] = "idle"
  BY DEF Sequential, FreeReserve, MayFree, CanCall
<1>2. /\ retnPtr' = Add(retnPtr) /\ place' = [place EXCEPT ![t] = PlaceOf(retnPtr)]
      /\ chunk' = [chunk EXCEPT ![t] = c] /\ pc' = [pc EXCEPT ![t] = "put"] /\ magic[c]
      /\ out' = [out EXCEPT ![c] = IF out[c] > 0 THEN out[c] - 1 ELSE 0]
      /\ user' = [user EXCEPT ![c] = Null]
      /\ stale' = (stale \/ (out[c] > 0 /\ user[c] # t))
      /\ UNCHANGED <<freePtr, refs, magic, halted>>
  BY DEF FreeReserve, Return, Goto
<1>3. out[c] = 1 /\ out' = [out EXCEPT ![c] = 0]
  <2>1. out[c] = 1
    BY <1>1, <1>2 DEF Marked
  <2>2. (IF out[c] > 0 THEN out[c] - 1 ELSE 0) = 0
    BY <2>1
  <2> QED
    BY <1>2, <2>1, <2>2
<1>4. /\ freePtr \in Int /\ retnPtr \in Int /\ Size \in Nat \ {0} /\ Word \in Nat \ {0}
      /\ Lent \in Int /\ Width \in Int /\ Ahead(retnPtr, freePtr) \in Int
      /\ retnPtr + 1 \in Int /\ PlaceOf(retnPtr) \in Chunks
      /\ freePtr \in 0 .. Word - 1 /\ retnPtr \in 0 .. Word - 1
  BY Types, PlaceInRange
<1>5. TypeOK'
  <2>1. Add(retnPtr) \in 0 .. Word - 1
    BY <1>4, ModRange DEF Add
  <2> QED
    BY <1>2, <1>3, <1>4, <2>1 DEF TypeOK
<1>6. pc'[t] = "put" /\ \A u \in Threads \ {t} : pc'[u] = "idle"
  BY <1>1, <1>2 DEF TypeOK
<1>7. OneCall' /\ Single'
  BY <1>3, <1>6 DEF OneCall, Single, TypeOK
<1>8. /\ Pending = {} /\ Start = freePtr
      /\ Lent = Ahead(retnPtr, freePtr) - 0 /\ Width = Size - Lent - 0
  BY <1>1, WindowIdle
<1>9. Unused' = Unused \cup {c} /\ c \notin Unused /\ Used' = Used \ {c} /\ c \in Used
  BY <1>3 DEF Unused, Used, TypeOK
<1>10. Cardinality(Used') = Cardinality(Used) - 1 /\ Cardinality(Used') \in Nat
  <2>1. Cardinality(Used \ {c}) = Cardinality(Used) - 1 /\ IsFiniteSet(Used \ {c})
    BY <1>9, UsedFinite, FS_RemoveElement
  <2> QED
    BY <1>9, <2>1, FS_CardinalityType
<1>11. Lent >= 1
  BY <1>4, <1>10, UsedFinite DEF Counted
<1>12. Putting' = {t} /\ Getting' = {} /\ Pending' = {c}
  <2>1. Putting' = {t} /\ Getting' = {}
    BY <1>6 DEF Getting, Putting
  <2>2. chunk'[t] = c
    BY <1>2 DEF TypeOK
  <2> QED
    BY <2>1, <2>2 DEF Pending
<1>13. Start' = Start /\ Lent' = Lent - 1 /\ Width' = Width
  <2>1. Ahead(Add(retnPtr), freePtr) = Ahead(retnPtr, freePtr) - 1
    BY <1>4, <1>8, <1>11, AheadFree
  <2>2. Ahead(retnPtr, freePtr)' = Ahead(retnPtr, freePtr) - 1
    BY <1>2, <2>1 DEF Ahead
  <2>3. Start' = freePtr' /\ Lent' = Ahead(retnPtr, freePtr)' - 0 /\ Width' = Size - Lent' - 1
    BY <1>12 DEF Start, Lent, Width
  <2> QED
    BY <1>2, <1>4, <1>8, <2>2, <2>3
<1>14. \A i \in Int : At(i)' = At(i)
  BY <1>13 DEF At, Origin, Wraps
<1>15. Unused' \ Pending' = Unused \ Pending
  BY <1>8, <1>9, <1>12
<1>16. Ring' /\ Distinct' /\ Onto'
  BY <1>2, <1>4, <1>13, <1>14, <1>15 DEF Ring, Distinct, Onto
<1>17. Counted'
  BY <1>4, <1>8, <1>10, <1>11, <1>13 DEF Counted
<1>18. CallState'
  <2>1. place'[t] = At(Width)
    BY <1>1, <1>2, AtPointers DEF TypeOK
  <2>2. chunk'[t] \in Unused'
    BY <1>2, <1>9 DEF TypeOK
  <2> QED
    BY <1>4, <1>6, <1>13, <1>14, <2>1, <2>2 DEF CallState
<1>19. Marked'
  <2> SUFFICES ASSUME NEW d \in Chunks
               PROVE  magic'[d] <=> (out'[d] = 1 \/ chunk'[t] = d)
    BY <1>6 DEF Marked
  <2>1. magic[d] <=> out[d] = 1
    BY <1>1 DEF Marked
  <2> QED
    BY <2>1, <1>2, <1>3 DEF TypeOK
<1>20. InBounds'
  <2> SUFFICES ASSUME ~Wraps PROVE InBounds'
    BY DEF InBounds, Wraps
  <2>1. Low <= retnPtr /\ retnPtr <= freePtr /\ freePtr <= Low + MaxGets /\ Low \in Int
    BY Constant DEF InBounds
  <2>2. freePtr - retnPtr >= 1
    BY <1>4, <1>8, <1>11, <2>1, AheadSmall
  <2>3. retnPtr + 1 \in 0 .. Word - 1
    BY <1>4, <2>2
  <2>4. Add(retnPtr) = retnPtr + 1
    BY <1>4, <2>3, ModSmall DEF Add
  <2> QED
    BY <1>2, <1>4, <2>1, <2>2, <2>4 DEF InBounds
<1>21. stale' \/ (~stale /\ P!Free(t, c))
  BY <1>2, <1>3 DEF P!Free, TypeOK
<1> QED
  BY <1>5, <1>7, <1>16, <1>17, <1>18, <1>19, <1>20, <1>21

(* The reference it writes becomes the last of the window. *)
LEMMA FreePutInv ==
  ASSUME Sequential, IInv, NEW t \in Threads, FreePut(t)
  PROVE  IInv'
<1> USE DEF IInv
<1>1. /\ pc[t] = "put" /\ pc' = [pc EXCEPT ![t] = "unmark"]
      /\ refs' = [refs EXCEPT ![place[t]] = chunk[t]]
      /\ UNCHANGED <<freePtr, retnPtr, magic, out, user, stale, place, chunk, halted>>
  BY DEF FreePut, Goto
<1>2. place[t] = At(Width) /\ chunk[t] \in Unused /\ chunk[t] \in Chunks
  BY <1>1 DEF CallState, Unused
<1>3. /\ freePtr \in Int /\ Start \in Int /\ Size \in Nat \ {0} /\ Lent \in Int /\ Width \in Int
      /\ Ahead(retnPtr, freePtr) \in Int /\ \A i \in Int : At(i) \in Chunks
  BY Types
<1>4. /\ Pending = {chunk[t]} /\ Start = freePtr
      /\ Lent = Ahead(retnPtr, freePtr) - 0 /\ Width = Size - Lent - 1
  BY <1>1, WindowPut
<1>5. TypeOK'
  BY <1>1, <1>2 DEF TypeOK
<1>6. pc'[t] = "unmark" /\ \A u \in Threads \ {t} : pc[u] = "idle" /\ pc'[u] = "idle"
  BY <1>1 DEF TypeOK, OneCall
<1>7. OneCall' /\ Single' /\ Marked'
  BY <1>1, <1>6 DEF OneCall, Single, Marked
<1>8. Unused' = Unused /\ Used' = Used
  BY <1>1 DEF Unused, Used
<1>9. Pending' = {} /\ Start' = Start /\ Lent' = Lent /\ Width' = Width + 1
  <2>1. /\ Pending' = {} /\ Start' = freePtr'
        /\ Lent' = Ahead(retnPtr, freePtr)' - 0 /\ Width' = Size - Lent' - 0
    BY <1>6 DEF Getting, Putting, Pending, Start, Lent, Width
  <2>2. Ahead(retnPtr, freePtr)' = Ahead(retnPtr, freePtr)
    BY <1>1 DEF Ahead
  <2> QED
    BY <1>1, <1>3, <1>4, <2>1, <2>2
<1>10. \A i \in Int : At(i)' = At(i)
  BY <1>9 DEF At, Origin, Wraps
<1>11. Width \in 0 .. Size - 1
  BY <1>3, <1>4 DEF Counted
<1>12. refs'[At(Width)] = chunk[t]
  BY <1>1, <1>2, <1>3 DEF TypeOK
<1>13. \A i \in 0 .. Size - 1 : i # Width => refs'[At(i)] = refs[At(i)]
  <2> SUFFICES ASSUME NEW i \in 0 .. Size - 1, i # Width
               PROVE  refs'[At(i)] = refs[At(i)]
    OBVIOUS
  <2>1. At(i) # At(Width) /\ At(i) \in Chunks
    BY <1>3, <1>11, AtDiffers
  <2> QED
    BY <1>1, <1>2, <2>1 DEF TypeOK
<1>14. \A i \in 0 .. Width - 1 : i \in 0 .. Size - 1 /\ i # Width /\ refs[At(i)] # chunk[t]
  <2> SUFFICES ASSUME NEW i \in 0 .. Width - 1
               PROVE  i \in 0 .. Size - 1 /\ i # Width /\ refs[At(i)] # chunk[t]
    OBVIOUS
  <2>1. i \in 0 .. Size - 1 /\ i # Width /\ i < Width
    BY <1>3, <1>11
  <2> QED
    BY <1>4, <2>1 DEF Ring
<1>15. \A i \in Int : i \in 0 .. Width' - 1 <=> i \in 0 .. Width - 1 \/ i = Width
  BY <1>3, <1>9, <1>11
<1>16. Ring'
  <2> SUFFICES ASSUME NEW i \in 0 .. Size - 1
               PROVE  refs'[At(i)] \in IF i < Width + 1 THEN Unused ELSE {Null}
    BY <1>8, <1>9, <1>10 DEF Ring
  <2>1. CASE i = Width
    BY <2>1, <1>2, <1>3, <1>12
  <2>2. CASE i # Width
    <3>1. i < Width + 1 <=> i < Width
      BY <2>2, <1>3
    <3> QED
      BY <2>2, <3>1, <1>13 DEF Ring
  <2> QED
    BY <2>1, <2>2
<1>17. Distinct'
  <2> SUFFICES ASSUME NEW i \in 0 .. Width' - 1, NEW j \in 0 .. Width' - 1,
                      refs'[At(i)] = refs'[At(j)]
               PROVE  i = j
    BY <1>10 DEF Distinct
  <2> QED
    BY <1>12, <1>13, <1>14, <1>15 DEF Distinct
<1>18. Onto'
  <2> SUFFICES ASSUME NEW d \in Unused
               PROVE  \E i \in 0 .. Width' - 1 : refs'[At(i)] = d
    BY <1>8, <1>9, <1>10 DEF Onto
  <2>1. CASE d = chunk[t]
    BY <2>1, <1>3, <1>12, <1>15
  <2>2. CASE d # chunk[t]
    <3>1. PICK i \in 0 .. Width - 1 : refs[At(i)] = d
      BY <2>2, <1>4 DEF Onto
    <3> QED
      BY <3>1, <1>13, <1>14, <1>15
  <2> QED
    BY <2>1, <2>2
<1>19. Counted'
  BY <1>3, <1>8, <1>9, <1>11 DEF Counted
<1>20. CallState' /\ InBounds'
  BY <1>1, <1>2, <1>6, <1>8 DEF CallState, InBounds, Wraps
<1> QED
  BY <1>5, <1>7, <1>16, <1>17, <1>18, <1>19, <1>20

(* The mark of a chunk is cleared when its reference is in the buffer. *)
LEMMA FreeUnmarkInv ==
  ASSUME Sequential, IInv, NEW t \in Threads, FreeUnmark(t)
  PROVE  IInv'
<1> USE DEF IInv
<1>1. /\ pc[t] = "unmark" /\ pc' = [pc EXCEPT ![t] = "idle"]
      /\ magic' = [magic EXCEPT ![chunk[t]] = FALSE]
      /\ UNCHANGED <<freePtr, retnPtr, refs, out, user, stale, place, chunk, halted>>
  BY DEF FreeUnmark, Goto
<1>2. chunk[t] \in Chunks /\ out[chunk[t]] = 0
  BY <1>1 DEF CallState, Unused
<1>3. TypeOK'
  BY <1>1, <1>2 DEF TypeOK
<1>4. \A u \in Threads : pc'[u] = "idle" /\ (u # t => pc[u] = "idle")
  BY <1>1 DEF TypeOK, OneCall
<1>5. OneCall' /\ Single' /\ CallState' /\ InBounds'
  BY <1>1, <1>4 DEF OneCall, Single, CallState, InBounds, Wraps
<1>6. Getting = {} /\ Putting = {} /\ Pending = {}
  BY <1>1, WindowUnmark
<1>7. Getting' = {} /\ Putting' = {} /\ Pending' = {}
  BY <1>4 DEF Getting, Putting, Pending
<1>8. Start' = Start /\ Lent' = Lent /\ Width' = Width
  BY <1>1, <1>6, <1>7 DEF Start, Lent, Width, Ahead
<1>9. \A i \in Int : At(i)' = At(i)
  BY <1>8 DEF At, Origin, Wraps
<1>10. Marked'
  <2> SUFFICES ASSUME NEW d \in Chunks PROVE magic'[d] <=> out[d] = 1
    BY <1>1, <1>4 DEF Marked
  <2>1. d # chunk[t] => (magic[d] <=> out[d] = 1)
    BY <1>1, <1>4 DEF Marked
  <2> QED
    BY <2>1, <1>1, <1>2 DEF TypeOK
<1> QED
  BY <1>1, <1>3, <1>5, <1>6, <1>7, <1>8, <1>9, <1>10, SameWindow

(* Whatever stops the kernel leaves the heap as it is. *)
LEMMA HaltInv ==
  ASSUME IInv, halted' \in BOOLEAN,
         UNCHANGED <<freePtr, retnPtr, refs, magic, out, user, stale, pc, place, chunk>>
  PROVE  IInv'
<1> USE DEF IInv
<1>1. TypeOK' /\ OneCall' /\ Single' /\ Marked' /\ InBounds'
  BY DEF TypeOK, OneCall, Single, Marked, InBounds, Wraps
<1>2. /\ Start' = Start /\ Lent' = Lent /\ Width' = Width /\ Pending' = Pending
      /\ Unused' = Unused /\ Used' = Used
  BY DEF Start, Lent, Width, Ahead, Getting, Putting, Pending, Unused, Used
<1>3. \A i \in Int : At(i)' = At(i)
  BY <1>2 DEF At, Origin, Wraps
<1>4. CallState' /\ Ring' /\ Distinct' /\ Onto' /\ Counted'
  BY <1>2, <1>3 DEF CallState, Ring, Distinct, Onto, Counted
<1> QED
  BY <1>1, <1>4

-----------------------------------------------------------------------------
(* Every step of a sequential program keeps the invariant and is a step of *)
(* the abstract pool, or leaves its chunks alone.                          *)
LEMMA StepInv ==
  ASSUME Sequential, IInv, [Next]_vars
  PROVE  IInv' /\ [P!Next]_<<out, user, stale>>
<1>1. CASE UNCHANGED vars
  BY <1>1, HaltInv DEF vars, IInv, TypeOK
<1>2. ASSUME NEW t \in Threads, GetReserve(t)
      PROVE  IInv' /\ [P!Next]_<<out, user, stale>>
  BY <1>2, GetReserveInv DEF GetReserve
<1>3. ASSUME NEW t \in Threads, GetTake(t)
      PROVE  IInv' /\ [P!Next]_<<out, user, stale>>
  BY <1>3, GetTakeInv DEF GetTake
<1>4. ASSUME NEW t \in Threads, GetMark(t)
      PROVE  IInv' /\ [P!Next]_<<out, user, stale>>
  BY <1>4, GetMarkInv DEF GetMark
<1>5. ASSUME NEW t \in Threads, GetFault(t)
      PROVE  IInv' /\ [P!Next]_<<out, user, stale>>
  BY <1>5, HaltInv DEF GetFault
<1>6. ASSUME NEW t \in Threads, GetClear(t)
      PROVE  IInv' /\ [P!Next]_<<out, user, stale>>
  BY <1>6, GetClearInv DEF P!Next, P!Work, P!Break, IInv, TypeOK
<1>7. ASSUME NEW t \in Threads, NEW c \in Chunks, FreeReserve(t, c)
      PROVE  IInv' /\ [P!Next]_<<out, user, stale>>
  BY <1>7, FreeReserveInv DEF P!Next, P!Work, P!Break
<1>8. ASSUME NEW t \in Threads, NEW c \in Chunks, FreeThrows(t, c)
      PROVE  IInv' /\ [P!Next]_<<out, user, stale>>
  BY <1>8, HaltInv DEF FreeThrows
<1>9. ASSUME NEW t \in Threads, FreePut(t)
      PROVE  IInv' /\ [P!Next]_<<out, user, stale>>
  BY <1>9, FreePutInv DEF FreePut
<1>10. ASSUME NEW t \in Threads, FreeUnmark(t)
       PROVE  IInv' /\ [P!Next]_<<out, user, stale>>
  BY <1>10, FreeUnmarkInv DEF FreeUnmark
<1> QED
  BY <1>1, <1>2, <1>3, <1>4, <1>5, <1>6, <1>7, <1>8, <1>9, <1>10 DEF Next, Get, Free

(* The invariant holds of every heap used by one call at a time, whatever  *)
(* its callers ask for or free: of a heap of a power of two chunks for     *)
(* ever, of any other, the default one included, until a low word wraps    *)
(* (there NonWrapped fails, falloc.cu:152).                                *)
THEOREM HeapInvariance == Sequential => (Spec => []IInv)
<1> SUFFICES ASSUME Sequential PROVE Spec => []IInv
  OBVIOUS
<1>1. Init => IInv
  BY InitInv
<1>2. IInv /\ [Next]_vars => IInv'
  BY StepInv
<1> QED
  BY <1>1, <1>2, PTL DEF Spec

(* fallocGetChunk finds no chunk only when all are in use, and between     *)
(* calls exactly the chunks in use carry the magic number; with heaps and  *)
(* callers as above.                                                       *)
THEOREM HaltsForMisuse == Sequential => (Spec => []HaltsOnMisuse)
<1> SUFFICES ASSUME Sequential PROVE Spec => []HaltsOnMisuse
  OBVIOUS
<1>1. IInv => HaltsOnMisuse
  <2> SUFFICES ASSUME IInv PROVE HaltsOnMisuse
    OBVIOUS
  <2> USE DEF IInv
  <2>1. ASSUME NEW t \in Threads, pc[t] = "mark", chunk[t] = Null, NEW c \in Chunks
        PROVE  out[c] = 1
    <3>1. refs[At(0)] = Null /\ Null \notin Unused
      BY <2>1, HeapAssumption DEF CallState, Unused
    <3>2. Size \in Nat \ {0} /\ Width \in Int /\ 0 \in 0 .. Size - 1
      BY Types
    <3>3. ~(0 < Width)
      BY <3>1, <3>2 DEF Ring
    <3>4. Pending = {}
      BY <2>1, WindowGet
    <3>5. c \notin Unused
      BY <3>2, <3>3, <3>4 DEF Onto
    <3>6. out[c] \in Nat /\ out[c] <= 1
      BY DEF TypeOK, Single
    <3> QED
      BY <3>5, <3>6 DEF Unused
  <2>2. AllIdle => \A c \in Chunks : magic[c] <=> out[c] = 1
    BY DEF AllIdle, Marked
  <2> QED
    BY <2>1, <2>2 DEF HaltsOnMisuse
<1> QED
  BY <1>1, HeapInvariance, PTL

(* Between calls, the gets to come find exactly the chunks nobody holds;   *)
(* with heaps and callers as above.                                        *)
THEOREM HeapUsed == Sequential => (Spec => []CompletelyUsed)
<1> SUFFICES ASSUME Sequential PROVE Spec => []CompletelyUsed
  OBVIOUS
<1>1. IInv => CompletelyUsed
  <2> SUFFICES ASSUME IInv, AllIdle
               PROVE  {refs[PlaceOf(freePtr + i)] :
                         i \in 0 .. Size - 1 - Ahead(retnPtr, freePtr)} = Unused
    BY DEF CompletelyUsed, Unused
  <2> USE DEF IInv
  <2>1. /\ Pending = {} /\ Start = freePtr
        /\ Lent = Ahead(retnPtr, freePtr) - 0 /\ Width = Size - Lent - 0
    BY WindowIdle DEF AllIdle
  <2>2. /\ Size \in Nat \ {0} /\ Lent \in Int /\ Width \in Int
        /\ Ahead(retnPtr, freePtr) \in Int
    BY Types
  <2>3. 0 .. Size - 1 - Ahead(retnPtr, freePtr) = 0 .. Width - 1
    BY <2>1, <2>2
  <2>4. \A i \in 0 .. Width - 1 : i \in 0 .. Size - 1 /\ i < Width
    BY <2>2 DEF Counted
  <2>5. \A i \in 0 .. Width - 1 : refs[At(i)] \in Unused
    BY <2>1, <2>4 DEF Ring
  <2>6. \A i \in 0 .. Width - 1 : PlaceOf(freePtr + i) = At(i)
    BY <2>2, <2>4, AtPointers DEF AllIdle
  <2>7. \A c \in Unused : \E i \in 0 .. Width - 1 : refs[At(i)] = c
    BY <2>1 DEF Onto
  <2>8. {refs[PlaceOf(freePtr + i)] : i \in 0 .. Width - 1} = {refs[At(i)] : i \in 0 .. Width - 1}
    BY <2>6
  <2>9. {refs[At(i)] : i \in 0 .. Width - 1} = Unused
    BY <2>5, <2>7
  <2> QED
    BY <2>3, <2>8, <2>9
<1> QED
  BY <1>1, HeapInvariance, PTL

(* Serialized calls implement a pool whose chunks have owners: nobody gets *)
(* a chunk that another one has got and not given back, also when callers  *)
(* ask for too many or free what nobody holds - until somebody frees the   *)
(* chunk of another one, which fallocFreeChunk cannot tell.                *)
THEOREM HeapRefinement == Sequential => (Spec => ImplementsPool)
<1> SUFFICES ASSUME Sequential PROVE Spec => P!Spec
  BY DEF ImplementsPool
<1>1. Init => P!Init
  BY DEF Init, P!Init
<1>2. IInv /\ [Next]_vars => [P!Next]_<<out, user, stale>>
  BY StepInv
<1> QED
  BY <1>1, <1>2, HeapInvariance, PTL DEF Spec, P!Spec
=============================================================================
