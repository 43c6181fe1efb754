------------------------------- MODULE Bitvec -------------------------------
(***************************************************************************)
(* The bit vector of src/libcu.ext/bitvec.cu, a set of the numbers 1..size.*)
(* A small vector is a bitmap.  A larger one starts as a hash table of the *)
(* numbers, probed linearly, and when that fills up becomes an array of    *)
(* vectors for equal shares of the numbers.  Numbers are counted from 0    *)
(* inside, except that the hash holds them from 1, 0 being a free place.   *)
(*                                                                         *)
(* What the code does in a loop down the vectors, or by calling itself, is *)
(* a function of the vector's size: the parts of a vector are smaller.     *)
(***************************************************************************)
EXTENDS NullPointer, Integers, FiniteSets

CONSTANTS
  Size,   (* of the vector that is created, at most 2^32 - NPTR *)
  NBIT,   (* BITVEC_NBIT, bits of a bitmap                      *)
  NINT,   (* BITVEC_NINT, places of a hash                      *)
  NPTR    (* BITVEC_NPTR, vectors a vector is split into        *)

ASSUME BitvecSizes ==
  Size \in Nat /\ NBIT \in Nat \ {0} /\ NINT \in Nat \ {0, 1} /\ NPTR \in Nat \ {0, 1}

VARIABLES
  vec,      (* the vector                                              *)
  scarce,   (* whether the latest call may have found no memory        *)
  told      (* the answer of the latest bitvecGet                      *)

bitVars == <<vec, scarce, told>>

---------------------------------------------------------------------------
(* Vectors. *)

MXHASH == NINT \div 2

VectorSizes == 0..Size
Places == 0..(NINT - 1)
Bins == 0..(NPTR - 1)
Free == [s \in Places |-> 0]
NoSub == [b \in Bins |-> Null]

(* How many numbers each part of a vector for n numbers handles. *)
Share(n) == (n + NPTR - 1) \div NPTR

(* bitmap, hash and sub share their memory: which one is meant is told by *)
(* size and divisor, the others are of no account.                        *)
Vectors[n \in VectorSizes] ==
  [size : {n}, set : Nat, divisor : IF n <= NBIT THEN {0} ELSE {0, Share(n)},
   bitmap : SUBSET (0..(n - 1)), hash : [Places -> 0..n],
   sub : [Bins -> IF n <= NBIT THEN {Null} ELSE Vectors[Share(n)] \cup {Null}]]

ASSUME NullIsNoVector == \A n \in VectorSizes : Null \notin Vectors[n]

bitvecNew(size) ==
  [size |-> size, set |-> 0, divisor |-> 0, bitmap |-> {}, hash |-> Free, sub |-> NoSub]

---------------------------------------------------------------------------
(* The hash. *)

HASH(j) == j % NINT

(* Place n of the places probed for number j. *)
Probe(j, n) == (HASH(j) + n) % NINT

(* The place where j (stored as j + 1) is, or else would go. *)
PlaceOf(hash, j) ==
  LET n == CHOOSE n \in Places :
             /\ hash[Probe(j, n)] \in {0, j + 1}
             /\ \A k \in 0..(n - 1) : hash[Probe(j, k)] \notin {0, j + 1}
  IN Probe(j, n)

(* Faulty variant: without a collision the hash may fill up. *)
FullFor(p, j) ==
  p.hash[PlaceOf(p.hash, j)] = 0 /\ p.hash[HASH(j)] # 0 /\ p.set >= MXHASH

(* The hash has no room for j: after a collision it is to be half empty,   *)
(* without one a place is to be left free.                                 *)
Full(p, j) ==
  /\ p.hash[PlaceOf(p.hash, j)] = 0
  /\ p.set >= IF p.hash[HASH(j)] # 0 THEN MXHASH ELSE NINT - 1

Put(p, j) ==
  LET s == PlaceOf(p.hash, j)
  IN IF p.hash[s] = j + 1 THEN p ELSE [p EXCEPT !.set = @ + 1, !.hash[s] = j + 1]

(* Faulty variant: the place of i is freed, the others stay where they are.*)
FreedOnly(p, i, k) ==
  LET s == PlaceOf(p.hash, i)
  IN IF p.hash[s] = 0 THEN p ELSE [p EXCEPT !.set = @ - 1, !.hash[s] = 0]

(* The hash built anew, in the order of its first k places, without i. *)
Rebuilt(p, i, k) ==
  LET after[n \in 0..k] ==
        IF n = 0 THEN [p EXCEPT !.set = 0, !.hash = Free]
        ELSE IF p.hash[n - 1] \in {0, i + 1} THEN after[n - 1]
        ELSE Put(after[n - 1], p.hash[n - 1] - 1)
  IN after[k]

---------------------------------------------------------------------------
(* The vectors that a call may leave of p.  S, C and G set, clear and get  *)
(* a number in the parts of p.  When memory is scarce (short) any          *)
(* allocation may fail, and what it was for is dropped.                    *)

Split(p) == [p EXCEPT !.divisor = Share(p.size), !.hash = Free, !.sub = NoSub]

SetInPart(p, i, short, S) ==
  LET b == i \div p.divisor
      part == IF p.sub[b] = Null THEN bitvecNew(p.divisor) ELSE p.sub[b]
  IN {[p EXCEPT !.sub[b] = q] : q \in S[part][i % p.divisor][short]}
     \cup {q \in {p} : short /\ p.sub[b] = Null}

(* p is split, and i and then the numbers of its first k places are set. *)
SetAgain(p, i, short, S, k) ==
  LET after[n \in 0..k] ==
        IF n = 0 THEN SetInPart(Split(p), i, short, S)
        ELSE IF p.hash[n - 1] = 0 THEN after[n - 1]
        ELSE UNION {SetInPart(q, p.hash[n - 1] - 1, short, S) : q \in after[n - 1]}
  IN after[k]

(* Faulty variant: the last place is forgotten. *)
SplitButLast(p, i, short, S) == SetAgain(p, i, short, S, NINT - 1) \cup {q \in {p} : short}

SplitFor(p, i, short, S) == SetAgain(p, i, short, S, NINT) \cup {q \in {p} : short}

SetNode(n, p, i, short, S) ==
  CASE n <= NBIT -> {[p EXCEPT !.bitmap = @ \cup {i}]}
    [] n > NBIT /\ p.divisor # 0 -> SetInPart(p, i, short, S)
    [] n > NBIT /\ p.divisor = 0 /\ ~Full(p, i) -> {Put(p, i)}
    [] n > NBIT /\ p.divisor = 0 /\ Full(p, i) -> SplitFor(p, i, short, S)

SetBit[n \in VectorSizes] ==
  [p \in Vectors[n] |-> [i \in 0..(n - 1) |->
     [short \in BOOLEAN |-> SetNode(n, p, i, short, SetBit[Share(n)])]]]

ClearInPart(p, i, C) ==
  LET b == i \div p.divisor
  IN IF p.sub[b] = Null THEN p ELSE [p EXCEPT !.sub[b] = C[@][i % p.divisor]]

ClearNode(n, p, i, C) ==
  CASE n <= NBIT -> [p EXCEPT !.bitmap = @ \ {i}]
    [] n > NBIT /\ p.divisor # 0 -> ClearInPart(p, i, C)
    [] n > NBIT /\ p.divisor = 0 -> Rebuilt(p, i, NINT)

ClearBit[n \in VectorSizes] ==
  [p \in Vectors[n] |-> [i \in 0..(n - 1) |-> ClearNode(n, p, i, ClearBit[Share(n)])]]

(* i is not counted down here as it is in the other operations, and behind *)
(* the last bitmap or vector the answer is whatever the memory there holds.*)
GetInPart(p, i, G) ==
  LET b == i \div p.divisor
  IN IF b \notin Bins THEN BOOLEAN
     ELSE IF p.sub[b] = Null THEN {FALSE} ELSE G[p.sub[b]][i % p.divisor]

GetNode(n, p, i, G) ==
  CASE n <= NBIT -> IF i = NBIT THEN BOOLEAN ELSE {i \in p.bitmap}
    [] n > NBIT /\ p.divisor # 0 -> GetInPart(p, i, G)
    [] n > NBIT /\ p.divisor = 0 -> {p.hash[PlaceOf(p.hash, i)] # 0}

GetBit[n \in VectorSizes] ==
  [p \in Vectors[n] |-> [i \in 0..n |-> GetNode(n, p, i, GetBit[Share(n)])]]

---------------------------------------------------------------------------
bitvecSet(i) ==
  \E short \in BOOLEAN :
    /\ vec' \in SetBit[Size][vec][i - 1][short]
    /\ scarce' = short
    /\ UNCHANGED told

bitvecClear(i) ==
  vec' = ClearBit[Size][vec][i - 1] /\ scarce' = FALSE /\ UNCHANGED told

bitvecGet(i) ==
  /\ told' \in IF i > vec.size THEN {FALSE} ELSE GetBit[Size][vec][i]
  /\ UNCHANGED <<vec, scarce>>

BitInit == vec = bitvecNew(Size) /\ scarce = FALSE /\ told = FALSE

BitNext ==
  \/ \E i \in 1..Size : bitvecSet(i) \/ bitvecClear(i)
  \/ \E i \in 0..(Size + 1) : bitvecGet(i)

BitSpec == BitInit /\ [][BitNext]_bitVars

---------------------------------------------------------------------------
(* Properties. *)

(* The numbers in a vector. *)
BitsNode(n, p, B) ==
  CASE n <= NBIT -> {i + 1 : i \in p.bitmap}
    [] n > NBIT /\ p.divisor = 0 -> {p.hash[s] : s \in Places} \ {0}
    [] n > NBIT /\ p.divisor # 0 ->
         UNION {{p.divisor * b + v : v \in B[p.sub[b]]} : b \in {b \in Bins : p.sub[b] # Null}}

Bits[n \in VectorSizes] == [p \in Vectors[n] |-> BitsNode(n, p, Bits[Share(n)])]

(* No probing is endless and none stops early: a place is free, a number   *)
(* is stored once, and no place probed before it is free.  The counter     *)
(* that decides about splitting is the number of places in use.            *)
SoundHash(hash, set) ==
  /\ \E s \in Places : hash[s] = 0
  /\ set = Cardinality({s \in Places : hash[s] # 0})
  /\ \A s \in Places : hash[s] # 0 =>
       \E n \in Places : /\ Probe(hash[s] - 1, n) = s
                         /\ \A k \in 0..(n - 1) : hash[Probe(hash[s] - 1, k)] \notin {0, hash[s]}

SoundNode(n, p, B, S) ==
  n > NBIT =>
    /\ p.divisor = 0 => SoundHash(p.hash, p.set)
    /\ p.divisor # 0 =>
         \A b \in Bins : p.sub[b] # Null => S[p.sub[b]] /\ B[p.sub[b]] \subseteq 1..p.divisor

Sound[n \in VectorSizes] == [p \in Vectors[n] |-> SoundNode(n, p, Bits[Share(n)], Sound[Share(n)])]

(* Every hash in the vector, however it came about, is sound, and no part  *)
(* of a vector holds a number beyond its share.                            *)
ProbingSound == vec.size = Size /\ Sound[Size][vec]

(* The vector is a set of numbers: it answers for no number that was not   *)
(* set, and loses one only when an allocation fails, through all changes   *)
(* of representation.                                                      *)
AbstractSet == INSTANCE BitSet WITH bits <- Bits[Size][vec]
ImplementsBitSet == AbstractSet!Spec

(* What bitvecGet does tell, in each representation and after every        *)
(* removal: whether the number after the one asked for is set.             *)
GetTellsNext ==
  [][\A i \in 0..(Size - 1) : bitvecGet(i) => (told' <=> i + 1 \in Bits[Size][vec])]_bitVars

(* bitvec.cu:68, "Check to see if the i-th bit is set.  Return true or     *)
(* false."                                                                 *)
GetTellsBit ==
  [][\A i \in 1..Size : bitvecGet(i) => (told' <=> i \in Bits[Size][vec])]_bitVars
=============================================================================
