--------------------------- MODULE RingArithmetic ---------------------------
(***************************************************************************)
(* Lemmas about counters that address a circular buffer of N places by     *)
(* their value modulo N, and about quotients, remainders and induction.    *)
(***************************************************************************)
EXTENDS Integers, WellFoundedInduction, TLAPS

(* A remainder is a place of the buffer. *)
LEMMA ModRange ==
  ASSUME NEW N \in Nat \ {0}, NEW i \in Int
  PROVE  i % N \in 0 .. N - 1
OBVIOUS

(* Quotient and remainder rebuild the counter. *)
LEMMA DivMod ==
  ASSUME NEW N \in Nat \ {0}, NEW i \in Int
  PROVE  i \div N \in Int /\ i = N * (i \div N) + (i % N)
OBVIOUS

(* A counter that has not come around is its own place. *)
LEMMA ModSmall ==
  ASSUME NEW N \in Nat \ {0}, NEW i \in 0 .. N - 1
  PROVE  i % N = i
OBVIOUS

(* A multiple of u that is not 0 is at least u. *)
LEMMA MultipleAtLeast ==
  ASSUME NEW u \in Nat \ {0}, NEW k \in Nat \ {0}
  PROVE  u * k >= u
OBVIOUS

(* Two places that are a multiple of N apart are the same. *)
LEMMA SamePlace ==
  ASSUME NEW N \in Nat \ {0}, NEW r \in 0 .. N - 1, NEW s \in 0 .. N - 1,
         NEW q \in Int, r - s = N * q
  PROVE  r = s
<1>1. q > 0 => N * q >= N
  OBVIOUS
<1>2. q < 0 => N * q <= -N
  OBVIOUS
<1> QED
  BY <1>1, <1>2

(* There is one remainder. *)
LEMMA ModUnique ==
  ASSUME NEW N \in Nat \ {0}, NEW i \in Int, NEW r \in 0 .. N - 1,
         NEW q \in Int, i = N * q + r
  PROVE  i % N = r
<1>1. i % N \in 0 .. N - 1 /\ i \div N \in Int /\ i = N * (i \div N) + (i % N)
  BY ModRange, DivMod
<1>2. q - (i \div N) \in Int /\ (i % N) - r = N * (q - (i \div N))
  BY <1>1
<1> QED
  BY <1>1, <1>2, SamePlace

(* Laps do not change the place. *)
LEMMA ModShift ==
  ASSUME NEW N \in Nat \ {0}, NEW i \in Int, NEW q \in Int
  PROVE  (i + N * q) % N = i % N
<1>1. i % N \in 0 .. N - 1 /\ i \div N \in Int /\ i = N * (i \div N) + (i % N)
  BY ModRange, DivMod
<1>2. i + N * q = N * ((i \div N) + q) + (i % N)
  BY <1>1
<1>3. (i \div N) + q \in Int /\ i + N * q \in Int
  BY <1>1
<1> QED
  BY <1>1, <1>2, <1>3, ModUnique

(* Less than a lap apart, two counters address different places. *)
LEMMA ModDistinct ==
  ASSUME NEW N \in Nat \ {0}, NEW i \in Int, NEW j \in Int,
         i # j, i - j < N, j - i < N
  PROVE  i % N # j % N
<1> SUFFICES ASSUME i % N = j % N PROVE FALSE
  OBVIOUS
<1> DEFINE q == (j \div N) - (i \div N)
<1>1. /\ i \div N \in Int /\ i = N * (i \div N) + (i % N)
      /\ j \div N \in Int /\ j = N * (j \div N) + (j % N)
      /\ i % N \in 0 .. N - 1
  BY DivMod, ModRange
<1>2. q \in Int /\ j - i = N * q
  BY <1>1
<1> HIDE DEF q
<1>3. (q > 0 => N * q >= N) /\ (q < 0 => N * q <= -N)
  BY <1>2
<1> QED
  BY <1>2, <1>3

(* A lap later, a counter addresses the same place. *)
LEMMA ModLap ==
  ASSUME NEW N \in Nat \ {0}, NEW i \in Int
  PROVE  (i + N) % N = i % N
<1> PICK q \in Int : q = 1
  OBVIOUS
<1>1. (i + N * q) % N = i % N
  BY ModShift
<1> QED
  BY <1>1

(* The place of a sum follows from the place of a summand. *)
LEMMA ModAdd ==
  ASSUME NEW N \in Nat \ {0}, NEW i \in Int, NEW j \in Int
  PROVE  ((i % N) + j) % N = (i + j) % N
<1>1. i \div N \in Int /\ i = N * (i \div N) + (i % N) /\ i % N \in 0 .. N - 1
  BY DivMod, ModRange
<1>2. (i % N) + j = (i + j) + N * (-(i \div N))
  BY <1>1
<1>3. -(i \div N) \in Int /\ i + j \in Int
  BY <1>1
<1> QED
  BY <1>2, <1>3, ModShift

(* ... and the place of a difference from that of the subtrahend. *)
LEMMA ModSubtract ==
  ASSUME NEW N \in Nat \ {0}, NEW i \in Int, NEW j \in Int
  PROVE  (j - (i % N)) % N = (j - i) % N
<1> PICK d \in Int : d = i \div N /\ i = N * d + (i % N)
  BY DivMod
<1>1. i % N \in 0 .. N - 1
  BY ModRange
<1> PICK k \in Int : k = j - i
  OBVIOUS
<1>2. j - (i % N) = k + N * d
  BY <1>1
<1>3. (k + N * d) % N = k % N
  BY ModShift
<1> QED
  BY <1>2, <1>3

(* A counter kept modulo W addresses the same place, if N divides W. *)
LEMMA ModMod ==
  ASSUME NEW N \in Nat \ {0}, NEW W \in Nat \ {0}, W % N = 0, NEW i \in Int
  PROVE  (i % W) % N = i % N
<1>1. W \div N \in Int /\ W = N * (W \div N)
  BY DivMod
<1>2. i \div W \in Int /\ i = W * (i \div W) + (i % W) /\ i % W \in 0 .. W - 1
  BY DivMod, ModRange
<1> DEFINE d == W \div N
           e == i \div W
<1> HIDE DEF d, e
<1>3. d \in Int /\ e \in Int /\ W = N * d /\ i = W * e + (i % W)
  BY <1>1, <1>2 DEF d, e
<1>4. (N * d) * e = N * (d * e)
  BY <1>3
<1>5. d * e \in Int /\ -(d * e) \in Int
  BY <1>3
<1>6. N * (-(d * e)) = -(N * (d * e))
  BY <1>5
<1>7. i % W = i + N * (-(d * e))
  BY <1>2, <1>3, <1>4, <1>5, <1>6
<1>8. PICK k \in Int : k = -(d * e)
  BY <1>5
<1>9. (i + N * k) % N = i % N
  BY ModShift
<1> QED
  BY <1>7, <1>8, <1>9

(* Induction over the numbers, for a set of them.                          *)
LEMMA NumberInduction ==
  ASSUME NEW P, 0 \in P, \A n \in Nat : n \in P => n + 1 \in P
  PROVE  Nat \subseteq P
<1> DEFINE Bad == Nat \ P
<1>1. SUFFICES ASSUME Bad # {} PROVE FALSE
  OBVIOUS
<1>2. PICK n \in Bad : \A m \in Bad : ~(<<m, n>> \in OpToRel(<, Nat))
  <2> HIDE DEF Bad
  <2>1. Bad \subseteq Nat
    BY DEF Bad
  <2> QED
    BY <1>1, <2>1, NatLessThanWellFounded, WFMin
<1>3. n \in Nat /\ n \notin P /\ n # 0
  BY <1>2
<1>4. n - 1 \in Nat /\ (n - 1) + 1 = n /\ n - 1 < n
  BY <1>3
<1>5. n - 1 \in Bad
  BY <1>3, <1>4
<1>6. <<n - 1, n>> \in OpToRel(<, Nat)
  BY <1>3, <1>4 DEF OpToRel
<1> QED
  BY <1>2, <1>5, <1>6

-----------------------------------------------------------------------------
=============================================================================
