----------------------------- MODULE FileProofs -----------------------------
(***************************************************************************)
(* Proofs about the in-memory file system: the path table, the lists of    *)
(* the directories and the pointers of streams and handles fit together    *)
(* for any number of blocks, names, streams and handles and any depth; and *)
(* about the files in memory, for any size of chunks and buffers.          *)
(***************************************************************************)
EXTENDS FileSystem, Memfile, RingArithmetic, SequenceTheorems, FiniteSetTheorems

-----------------------------------------------------------------------------
(* Lists of entities.                                                      *)

(* s lists the elements of S, each once. *)
Lists(s, S) ==
  /\ s \in Seq(S)
  /\ \A e \in S : \E i \in DOMAIN s : s[i] = e
  /\ \A i, j \in DOMAIN s : s[i] = s[j] => i = j

(* What s lists from e on. *)
After(s, e) == {s[i] : i \in {i \in DOMAIN s : \E j \in DOMAIN s : s[j] = e /\ j <= i}}

(* Places, members and the rest of a list. *)
LEMMA AfterIs ==
  ASSUME NEW S, NEW s, Lists(s, S), NEW i \in DOMAIN s
  PROVE  /\ Len(s) \in Nat /\ DOMAIN s = 1 .. Len(s) /\ s[i] \in S
         /\ After(s, s[i]) = {s[j] : j \in i .. Len(s)}
<1>1. Len(s) \in Nat /\ DOMAIN s = 1 .. Len(s) /\ s \in [1 .. Len(s) -> S]
  BY LenProperties DEF Lists
<1>2. \A j \in DOMAIN s : s[j] = s[i] => j = i
  BY DEF Lists
<1>3. {k \in DOMAIN s : \E j \in DOMAIN s : s[j] = s[i] /\ j <= k} = i .. Len(s)
  BY <1>1, <1>2
<1> QED
  BY <1>1, <1>3 DEF After

(* The last one is followed by nothing, the others by the next one. *)
LEMMA AfterNext ==
  ASSUME NEW S, NEW s, Lists(s, S), NEW i \in DOMAIN s
  PROVE  /\ i = Len(s) => After(s, s[i]) = {s[i]}
         /\ i # Len(s) => /\ i + 1 \in DOMAIN s
                          /\ After(s, s[i]) = {s[i]} \cup After(s, s[i + 1])
                          /\ s[i] \notin After(s, s[i + 1])
<1>1. Len(s) \in Nat /\ DOMAIN s = 1 .. Len(s)
  BY AfterIs
<1>2. After(s, s[i]) = {s[j] : j \in i .. Len(s)}
  BY AfterIs
<1>3. ASSUME i # Len(s)
      PROVE  /\ i + 1 \in DOMAIN s
             /\ After(s, s[i]) = {s[i]} \cup After(s, s[i + 1])
             /\ s[i] \notin After(s, s[i + 1])
  <2>1. i + 1 \in DOMAIN s /\ i .. Len(s) = {i} \cup (i + 1 .. Len(s))
    BY <1>1, <1>3
  <2>2. After(s, s[i + 1]) = {s[j] : j \in i + 1 .. Len(s)}
    BY <2>1, AfterIs
  <2>3. ASSUME s[i] \in After(s, s[i + 1]) PROVE FALSE
    <3>1. PICK j \in i + 1 .. Len(s) : s[j] = s[i]
      BY <2>2, <2>3
    <3>2. j \in DOMAIN s /\ j # i
      BY <1>1, <2>1
    <3> QED
      BY <3>1, <3>2 DEF Lists
  <2> QED
    BY <1>2, <2>1, <2>2, <2>3
<1>4. ASSUME i = Len(s) PROVE After(s, s[i]) = {s[i]}
  <2>1. i .. Len(s) = {i}
    BY <1>1, <1>4
  <2> QED
    BY <1>2, <2>1
<1> QED
  BY <1>3, <1>4

(* The first one is followed by all. *)
LEMMA AfterFirst ==
  ASSUME NEW S, NEW s, Lists(s, S), s # <<>>
  PROVE  Head(s) \in S /\ After(s, Head(s)) = S
<1>1. s \in Seq(S) /\ Len(s) \in Nat /\ DOMAIN s = 1 .. Len(s) /\ Head(s) = s[1] /\ Len(s) # 0
  BY LenProperties, EmptySeq DEF Lists
<1>2. 1 \in DOMAIN s
  BY <1>1
<1>3. After(s, s[1]) = {s[j] : j \in DOMAIN s}
  BY <1>1, <1>2, AfterIs
<1>4. {s[j] : j \in DOMAIN s} = S
  BY <1>1, ElementOfSeq DEF Lists
<1> QED
  BY <1>1, <1>2, <1>3, <1>4, ElementOfSeq

(* A list is empty when the set it lists is.                               *)
LEMMA ListedIs ==
  ASSUME NEW S, NEW s, Lists(s, S)
  PROVE  ToSet(s) = S /\ (s = <<>> <=> S = {})
<1>1. s \in Seq(S) /\ Len(s) \in Nat /\ DOMAIN s = 1 .. Len(s) /\ (s = <<>> <=> Len(s) = 0)
  BY LenProperties, EmptySeq DEF Lists
<1>2. ToSet(s) = S
  BY <1>1, ElementOfSeq DEF Lists, ToSet
<1>3. s = <<>> => S = {}
  BY <1>1 DEF Lists
<1>4. S = {} => s = <<>>
  <2> SUFFICES ASSUME S = {}, Len(s) # 0 PROVE FALSE
    BY <1>1
  <2>1. 1 \in 1 .. Len(s)
    BY <1>1
  <2> QED
    BY <1>1, <2>1, ElementOfSeq
<1> QED
  BY <1>2, <1>3, <1>4

(* A new entity comes first. *)
Push(e, s) == <<e>> \o s

(* What comes after an entity in a list stays when one is put in front.    *)
LEMMA PutFirst ==
  ASSUME NEW S, NEW s, Lists(s, S), NEW e, e \notin S
  PROVE  /\ Lists(Push(e, s), S \cup {e})
         /\ \A x \in S : After(Push(e, s), x) = After(s, x)
<1> DEFINE t == Push(e, s)
           U == S \cup {e}
<1>1. s \in Seq(S) /\ s \in Seq(U) /\ <<e>> \in Seq(U) /\ Len(<<e>>) = 1 /\ <<e>>[1] = e
  BY SeqMonotonic DEF Lists
<1>2. Len(s) \in Nat /\ DOMAIN s = 1 .. Len(s)
  BY <1>1, LenProperties
<1>3. /\ t \in Seq(U) /\ Len(t) = Len(s) + 1
      /\ \A i \in 1 .. Len(s) + 1 : t[i] = IF i <= 1 THEN <<e>>[i] ELSE s[i - 1]
  BY <1>1, <1>2, ConcatProperties DEF Push
<1>4. DOMAIN t = 1 .. Len(s) + 1
  BY <1>2, <1>3, LenProperties
<1>5. t[1] = e
  BY <1>1, <1>2, <1>3
<1>6. \A i \in DOMAIN s : i + 1 \in DOMAIN t /\ t[i + 1] = s[i]
  BY <1>2, <1>3, <1>4
<1>7. \A i \in DOMAIN t : i # 1 => i - 1 \in DOMAIN s /\ t[i] = s[i - 1] /\ t[i] \in S
  <2> TAKE i \in DOMAIN t
  <2>1. i # 1 => i - 1 \in DOMAIN s /\ t[i] = s[i - 1]
    BY <1>2, <1>3, <1>4
  <2> QED
    BY <1>1, <1>2, <2>1, ElementOfSeq
<1> HIDE DEF t
<1>8. \A i, j \in DOMAIN t : t[i] = t[j] => i = j
  <2> SUFFICES ASSUME NEW i \in DOMAIN t, NEW j \in DOMAIN t, t[i] = t[j] PROVE i = j
    OBVIOUS
  <2>1. i = 1 <=> j = 1
    BY <1>5, <1>7
  <2>2. CASE i # 1
    <3>1. i - 1 = j - 1
      BY <1>7, <2>1, <2>2 DEF Lists
    <3> QED
      BY <1>2, <1>4, <3>1
  <2> QED
    BY <2>1, <2>2
<1>9. \A x \in U : \E i \in DOMAIN t : t[i] = x
  <2> TAKE x \in U
  <2>1. CASE x = e
    BY <1>2, <1>4, <1>5, <2>1
  <2>2. CASE x \in S
    <3>1. PICK i \in DOMAIN s : s[i] = x
      BY <2>2 DEF Lists
    <3> QED
      BY <1>6, <3>1
  <2> QED
    BY <2>1, <2>2
<1>10. Lists(t, U)
  BY <1>3, <1>8, <1>9 DEF Lists
<1>11. ASSUME NEW x \in S PROVE After(t, x) = After(s, x)
  <2>1. PICK i \in DOMAIN s : s[i] = x
    BY DEF Lists
  <2>2. After(s, x) = {s[j] : j \in i .. Len(s)}
    BY <2>1, AfterIs
  <2>3. After(t, x) = {t[j] : j \in i + 1 .. Len(s) + 1}
    <3>1. i + 1 \in DOMAIN t /\ t[i + 1] = x
      BY <1>6, <2>1
    <3>2. After(t, t[i + 1]) = {t[j] : j \in i + 1 .. Len(t)}
      BY <1>10, <3>1, AfterIs
    <3> QED
      BY <1>3, <3>1, <3>2
  <2>4. \A j \in i .. Len(s) : j + 1 \in i + 1 .. Len(s) + 1 /\ t[j + 1] = s[j]
    BY <1>2, <1>6, <2>1
  <2>5. \A j \in i + 1 .. Len(s) + 1 : j - 1 \in i .. Len(s) /\ t[j] = s[j - 1]
    BY <1>2, <1>4, <1>7, <2>1
  <2> QED
    BY <2>2, <2>3, <2>4, <2>5
<1> QED
  BY <1>10, <1>11 DEF t

(* So it is for one entity.                                                *)
LEMMA PutAside ==
  ASSUME NEW S, NEW s, Lists(s, S), NEW e, e \notin S, NEW x \in S
  PROVE  After(Push(e, s), x) = After(s, x)
<1>1. \A y \in S : After(Push(e, s), y) = After(s, y)
  <2>1. Lists(Push(e, s), S \cup {e}) /\ \A y \in S : After(Push(e, s), y) = After(s, y)
    BY PutFirst
  <2> QED
    BY <2>1
<1> QED
  BY <1>1

(* One is taken out: the rest stays in order. *)
LEMMA TakeOut ==
  ASSUME NEW S, NEW s, Lists(s, S), NEW e \in S
  PROVE  /\ Lists(RemoveFirst(s, e), S \ {e})
         /\ \A x \in S \ {e} : After(RemoveFirst(s, e), x) = After(s, x) \ {e}
<1>1. PICK p \in DOMAIN s : s[p] = e
  BY DEF Lists
<1>2. s \in Seq(S) /\ Len(s) \in Nat /\ DOMAIN s = 1 .. Len(s) /\ p \in 1 .. Len(s)
  BY LenProperties DEF Lists
<1>3. \A i \in DOMAIN s : s[i] \in S /\ (s[i] = e <=> i = p)
  BY <1>1, <1>2, ElementOfSeq DEF Lists
<1> DEFINE l == SubSeq(s, 1, p - 1)
           r == SubSeq(s, p + 1, Len(s))
           U == S \ {e}
           t == l \o r
<1>4. RemoveFirst(s, e) = t
  <2>1. {i \in 1 .. Len(s) : s[i] = e} = {p}
    BY <1>2, <1>3
  <2>2. Min({p}) = p
    BY <1>2 DEF Min
  <2>3. SelectInSeq(s, LAMBDA v : v = e) = p
    BY <2>1, <2>2 DEF SelectInSeq
  <2> QED
    BY <1>1, <1>2, <2>3 DEF RemoveFirst, RemoveAt
<1>5. l \in Seq(U) /\ Len(l) = p - 1 /\ \A i \in 1 .. p - 1 : l[i] = s[i]
  <2>1. \A i \in 1 .. p - 1 : s[i] \in U
    BY <1>2, <1>3
  <2>2. /\ l \in Seq(U)
        /\ Len(l) = IF 1 <= p - 1 THEN (p - 1) - 1 + 1 ELSE 0
        /\ \A i \in 1 .. (p - 1) - 1 + 1 : l[i] = s[1 + i - 1]
    BY <1>2, <2>1, SubSeqProperties
  <2> QED
    BY <1>2, <2>2
<1>6. r \in Seq(U) /\ Len(r) = Len(s) - p /\ \A i \in 1 .. Len(s) - p : r[i] = s[p + i]
  <2>1. \A i \in p + 1 .. Len(s) : s[i] \in U
    BY <1>2, <1>3
  <2>2. /\ r \in Seq(U)
        /\ Len(r) = IF p + 1 <= Len(s) THEN Len(s) - (p + 1) + 1 ELSE 0
        /\ \A i \in 1 .. Len(s) - (p + 1) + 1 : r[i] = s[(p + 1) + i - 1]
    BY <1>2, <2>1, SubSeqProperties
  <2> QED
    BY <1>2, <2>2
<1>7. /\ t \in Seq(U) /\ Len(t) = Len(s) - 1
      /\ \A i \in 1 .. Len(s) - 1 : t[i] = IF i < p THEN s[i] ELSE s[i + 1]
  <2>1. /\ t \in Seq(U) /\ Len(t) = Len(l) + Len(r)
        /\ \A i \in 1 .. Len(l) + Len(r) : t[i] = IF i <= Len(l) THEN l[i] ELSE r[i - Len(l)]
    BY <1>5, <1>6, ConcatProperties
  <2> HIDE DEF l, r, t
  <2>2. ASSUME NEW i \in 1 .. Len(s) - 1 PROVE t[i] = IF i < p THEN s[i] ELSE s[i + 1]
    <3>1. CASE i < p
      BY <1>2, <1>5, <1>6, <2>1, <3>1
    <3>2. CASE i >= p
      <4>1. PICK k \in Int : k = i - (p - 1)
        BY <1>2
      <4>2. k \in 1 .. Len(s) - p /\ p + k = i + 1 /\ ~(i <= Len(l)) /\ i - Len(l) = k
        BY <1>2, <1>5, <3>2, <4>1
      <4>3. t[i] = r[k]
        <5>1. i \in 1 .. Len(l) + Len(r)
          BY <1>2, <1>5, <1>6
        <5>2. t[i] = r[i - Len(l)]
          BY <2>1, <4>2, <5>1
        <5> QED
          BY <4>2, <5>2
      <4>4. r[k] = s[p + k]
        BY <1>6, <4>2
      <4> QED
        BY <1>2, <3>2, <4>2, <4>3, <4>4
    <3> QED
      BY <1>2, <3>1, <3>2
  <2> QED
    BY <1>2, <1>5, <1>6, <2>1, <2>2
<1>8. DOMAIN t = 1 .. Len(s) - 1
  BY <1>7, LenProperties
<1> HIDE DEF t, l, r
<1> DEFINE Old(i) == IF i < p THEN i ELSE i + 1
           New(i) == IF i < p THEN i ELSE i - 1
<1>9. \A i \in DOMAIN t : Old(i) \in DOMAIN s /\ Old(i) # p /\ t[i] = s[Old(i)] /\ New(Old(i)) = i
  BY <1>2, <1>7, <1>8
<1>10. \A i \in DOMAIN s : i # p => New(i) \in DOMAIN t /\ t[New(i)] = s[i] /\ Old(New(i)) = i
  BY <1>2, <1>7, <1>8
<1>11. \A i, j \in DOMAIN t : Old(i) <= Old(j) <=> i <= j
  BY <1>2, <1>8
<1> HIDE DEF Old, New
<1>12. \A i, j \in DOMAIN t : t[i] = t[j] => i = j
  BY <1>9 DEF Lists
<1>13. \A x \in U : \E i \in DOMAIN t : t[i] = x
  <2> TAKE x \in U
  <2>1. PICK i \in DOMAIN s : s[i] = x
    BY DEF Lists
  <2> QED
    BY <1>1, <1>10, <2>1
<1>14. Lists(t, U)
  BY <1>7, <1>12, <1>13 DEF Lists
<1>15. ASSUME NEW x \in U PROVE After(t, x) = After(s, x) \ {e}
  <2>1. ASSUME NEW y \in After(t, x) PROVE y \in After(s, x) \ {e}
    <3>1. PICK i \in DOMAIN t, j \in DOMAIN t : y = t[i] /\ t[j] = x /\ j <= i
      BY <2>1 DEF After
    <3>2. y = s[Old(i)] /\ s[Old(j)] = x /\ Old(j) <= Old(i) /\ Old(i) \in DOMAIN s /\ Old(j) \in DOMAIN s
      BY <1>9, <1>11, <3>1
    <3>3. y # e
      BY <1>3, <1>9, <3>1
    <3> QED
      BY <3>2, <3>3 DEF After
  <2>2. ASSUME NEW y \in After(s, x) \ {e} PROVE y \in After(t, x)
    <3>1. PICK i \in DOMAIN s, j \in DOMAIN s : y = s[i] /\ s[j] = x /\ j <= i
      BY <2>2 DEF After
    <3>2. i # p /\ j # p
      BY <1>1, <2>2, <3>1
    <3>3. PICK a \in DOMAIN t : a = New(i) /\ t[a] = y /\ Old(a) = i
      BY <1>10, <3>1, <3>2
    <3>4. PICK b \in DOMAIN t : b = New(j) /\ t[b] = x /\ Old(b) = j
      BY <1>10, <3>1, <3>2
    <3>5. b <= a
      BY <1>11, <3>1, <3>3, <3>4
    <3> QED
      BY <3>3, <3>4, <3>5 DEF After
  <2> QED
    BY <2>1, <2>2
<1> QED
  BY <1>4, <1>14, <1>15

-----------------------------------------------------------------------------
(* The path table and the lists, as functions of what they are read from:  *)
(* the lemmas are used before and after a step.                            *)

Holding(ix, tx, p) == {k \in Keys : ix[k] # Null /\ tx[k] = p}
Found(ix, tx, p) ==
  IF Holding(ix, tx, p) = {} THEN Null ELSE ix[CHOOSE k \in Holding(ix, tx, p) : TRUE]

HomeIn(ls, e) == CHOOSE d \in Dirs : Contains(ls[d], e)
PlaceIn(ls, e) == CHOOSE i \in DOMAIN ls[HomeIn(ls, e)] : ls[HomeIn(ls, e)][i] = e
FromIn(ls, e) == {ls[HomeIn(ls, e)][i] : i \in PlaceIn(ls, e) .. Len(ls[HomeIn(ls, e)])}

(* The null pointer and the like are no entities. *)
LEMMA Distinct ==
  /\ Root \notin Ents /\ Null \notin Ents /\ Dangling \notin Ents /\ Garbage \notin Ents
  /\ Root # Null /\ Root # Dangling /\ Root # Garbage
  /\ Null # Dangling /\ Null # Garbage /\ Dangling # Garbage
BY FileSystemAssumption

(* What the table finds is what one of its elements leads to. *)
LEMMA FoundIs ==
  ASSUME NEW ix, NEW tx, NEW p
  PROVE  \/ Holding(ix, tx, p) = {} /\ Found(ix, tx, p) = Null
         \/ \E k \in Holding(ix, tx, p) : Found(ix, tx, p) = ix[k] /\ ix[k] # Null
BY DEF Found, Holding

(* An element is added, with block k for its path p. *)
Adds(ix, tx, k, e, p, ix2, tx2) ==
  /\ ix[k] = Null /\ e # Null /\ Holding(ix, tx, p) = {}
  /\ \A j \in Keys : ix2[j] = IF j = k THEN e ELSE ix[j]
  /\ \A j \in Keys : tx2[j] = IF j = k THEN p ELSE tx[j]

(* A new path is found, and nothing else changes. *)
LEMMA FoundNew ==
  ASSUME NEW ix, NEW tx, NEW k \in Keys, NEW e, NEW p, NEW ix2, NEW tx2,
         Adds(ix, tx, k, e, p, ix2, tx2)
  PROVE  /\ Found(ix2, tx2, p) = e
         /\ \A q : q # p => Found(ix2, tx2, q) = Found(ix, tx, q)
<1> USE DEF Adds
<1>1. Holding(ix2, tx2, p) = {k}
  BY DEF Holding
<1>2. Found(ix2, tx2, p) = e
  BY <1>1 DEF Found
<1>3. ASSUME NEW q, q # p PROVE Found(ix2, tx2, q) = Found(ix, tx, q)
  <2>1. Holding(ix2, tx2, q) = Holding(ix, tx, q)
    BY <1>3 DEF Holding
  <2>2. CASE Holding(ix, tx, q) = {}
    BY <2>1, <2>2 DEF Found
  <2>3. CASE Holding(ix, tx, q) # {}
    <3>1. PICK j : j = CHOOSE k1 \in Holding(ix, tx, q) : TRUE
      OBVIOUS
    <3>2. j \in Holding(ix, tx, q)
      BY <2>3, <3>1
    <3>3. j \in Keys /\ j # k
      BY <3>2 DEF Holding
    <3>4. ix2[j] = ix[j]
      BY <3>3
    <3> QED
      BY <2>1, <2>3, <3>1, <3>4 DEF Found
  <2> QED
    BY <2>2, <2>3
<1> QED
  BY <1>2, <1>3

(* The table still finds what was freed, but it is nothing any more. *)
LEMMA FoundFreed ==
  ASSUME NEW ix, NEW tx, NEW S \in SUBSET Ents, NEW p,
         NEW ix2, \A k \in Keys : ix2[k] = Cut(ix[k], S)
  PROVE  Found(ix2, tx, p) = Cut(Found(ix, tx, p), S)
<1>1. \A k \in Keys : ix2[k] = Null <=> ix[k] = Null
  BY Distinct DEF Cut
<1>2. Holding(ix2, tx, p) = Holding(ix, tx, p)
  BY <1>1 DEF Holding
<1>3. CASE Holding(ix, tx, p) = {}
  BY <1>2, <1>3, Distinct DEF Found, Cut
<1>4. CASE Holding(ix, tx, p) # {}
  <2>1. PICK j : j = CHOOSE k1 \in Holding(ix, tx, p) : TRUE
    OBVIOUS
  <2>2. j \in Keys
    BY <1>4, <2>1 DEF Holding
  <2>3. ix2[j] = Cut(ix[j], S)
    BY <2>2
  <2> QED
    BY <1>2, <1>4, <2>1, <2>3 DEF Found
<1> QED
  BY <1>3, <1>4

(* From goes by the list of the one directory that holds an entity. *)
LEMMA FromIs ==
  ASSUME NEW ls, NEW Ch, \A d \in Dirs : Lists(ls[d], Ch[d]),
         \A c, d \in Dirs : c # d => Ch[c] \cap Ch[d] = {},
         NEW d \in Dirs, NEW x \in Ch[d]
  PROVE  /\ HomeIn(ls, x) = d /\ FromIn(ls, x) = After(ls[d], x)
         /\ PlaceIn(ls, x) \in DOMAIN ls[d] /\ ls[d][PlaceIn(ls, x)] = x
<1>1. Contains(ls[d], x)
  <2>1. PICK i \in DOMAIN ls[d] : ls[d][i] = x
    BY DEF Lists
  <2>2. DOMAIN ls[d] = 1 .. Len(ls[d])
    BY <2>1, AfterIs
  <2> QED
    BY <2>1, <2>2 DEF Contains
<1>2. ASSUME NEW c \in Dirs, Contains(ls[c], x) PROVE c = d
  <2>1. ls[c] \in Seq(Ch[c])
    BY DEF Lists
  <2>2. x \in Ch[c]
    BY <1>2, <2>1, ElementOfSeq DEF Contains
  <2> QED
    BY <2>2
<1>3. HomeIn(ls, x) = d
  BY <1>1, <1>2 DEF HomeIn
<1>4. PICK i \in DOMAIN ls[d] : ls[d][i] = x
  BY DEF Lists
<1>5. PlaceIn(ls, x) = i
  BY <1>3, <1>4 DEF PlaceIn, Lists
<1>6. After(ls[d], x) = {ls[d][j] : j \in i .. Len(ls[d])}
  BY <1>4, AfterIs
<1> QED
  BY <1>3, <1>4, <1>5, <1>6 DEF FromIn

-----------------------------------------------------------------------------
(* The inductive invariant. *)

EntTypes ==
  /\ kind \in [Ents -> {"free", "dir", "file"}]
  /\ list \in [Dirs -> Seq(Ents)]
  /\ tail \in [Dirs -> {Null, Garbage}]
  /\ key \in [Ents -> Keys \cup {Null}]
  /\ text \in [Keys -> Paths \cup {Null}]
  /\ index \in [Keys -> Ents \cup {Dangling, Null}]
  /\ cwd \in Paths

(* A live entity is the element of its own key, no element leads to        *)
(* another one, and no path is in the table twice, removed ones included.  *)
IndexInv ==
  /\ \A e \in Live : key[e] \in Keys /\ index[key[e]] = e /\ PathOf(e) \in Paths
  /\ \A k \in Keys : index[k] \in Ents => index[k] \in Live /\ key[index[k]] = k
  /\ \A j, k \in Keys : index[j] # Null /\ index[k] # Null /\ text[j] = text[k] => j = k

(* The entities whose paths lead on from d's. *)
Children(d) == {e \in Live : FindParent(PathOf(e)) = d}

(* Every live entity is in a live directory, and listed there. *)
TreeInv ==
  /\ \A e \in Live : IsDir(FindParent(PathOf(e)))
  /\ \A d \in Dirs : Lists(list[d], Children(d))

(* Pointers that are kept lead to live entities, or nowhere. *)
HandlesInv == base \in [Handles -> Live \cup {Dangling, Null}]

StreamTypes ==
  [open : BOOLEAN, list : Live \cup {Null, Dangling, Garbage},
   listIdx : Live \cup {Null, Dangling, Garbage},
   fake : {0, 2}, fakeIdx : 0 .. 2, seen : SUBSET Live, owed : SUBSET Live]

(* What a stream owes it has returned, or comes by. *)
StreamOK(p) ==
  /\ p.listIdx \in Live => /\ From(p.listIdx) \cap p.seen = {}
                           /\ p.owed \subseteq p.seen \cup From(p.listIdx)
  /\ p.listIdx = Null => p.owed \subseteq p.seen

StreamsInv == dirp \in [Streams -> StreamTypes] /\ \A s \in Streams : StreamOK(dirp[s])

IInv ==
  /\ EntTypes /\ IndexInv /\ TreeInv /\ HandlesInv /\ StreamsInv
  /\ answer \in {"done", "exists", "failed"}
  /\ fault \in
       {"none", "removed", "panic", "handle", "cursor", "confused", "garbage", "null",
        "not a file"}

-----------------------------------------------------------------------------
(* What the invariant says of the lookups. *)

(* A path is found if an entity, or what one has left, holds it.           *)
LEMMA FindIs ==
  ASSUME EntTypes, IndexInv, NEW p
  PROVE  /\ Find(p) \in Live \cup {Dangling, Null}
         /\ Find(p) \in Live => PathOf(Find(p)) = p
         /\ Find(p) = Null <=> Holding(index, text, p) = {}
         /\ Live \subseteq Ents
<1>1. Find(p) = Found(index, text, p)
  BY DEF Find, Found, Matches, Holding
<1>2. CASE Holding(index, text, p) = {} /\ Find(p) = Null
  BY <1>2, Distinct DEF Live
<1>3. ASSUME NEW k \in Holding(index, text, p), Find(p) = index[k], index[k] # Null
      PROVE  /\ Find(p) \in Live \cup {Dangling}
             /\ Find(p) \in Live => PathOf(Find(p)) = p
  <2>1. k \in Keys /\ text[k] = p /\ index[k] \in Ents \cup {Dangling}
    BY <1>3 DEF Holding, EntTypes
  <2>2. CASE index[k] \in Ents
    BY <1>3, <2>1, <2>2 DEF IndexInv, PathOf
  <2>3. CASE index[k] = Dangling
    BY <1>3, <2>3, Distinct DEF Live
  <2> QED
    BY <2>1, <2>2, <2>3
<1> QED
  BY <1>1, <1>2, <1>3, FoundIs, Distinct DEF Live

(* A live entity is found by its path. *)
LEMMA FindLive ==
  ASSUME EntTypes, IndexInv, NEW e \in Live
  PROVE  Find(PathOf(e)) = e
<1>1. key[e] \in Holding(index, text, PathOf(e)) /\ index[key[e]] = e
  BY Distinct DEF Holding, PathOf, IndexInv, Live
<1>2. \A k \in Holding(index, text, PathOf(e)) : k = key[e]
  BY <1>1 DEF Holding, IndexInv
<1>3. Find(PathOf(e)) = Found(index, text, PathOf(e))
  BY DEF Find, Found, Matches, Holding
<1> QED
  BY <1>1, <1>2, <1>3, FoundIs

(* The parent of a path, as long as the path has one. *)
LEMMA ParentIs ==
  ASSUME NEW p \in Paths, p # <<>>
  PROVE  /\ Parent(p) \in Paths /\ Len(p) \in Nat \ {0} /\ Len(Parent(p)) = Len(p) - 1
         /\ Parent(p) # p /\ Len(<<>>) = 0
<1> DEFINE N == Names \cup {NoName}
<1>1. PICK n \in 0 .. MaxDepth : p \in [1 .. n -> N]
  BY DEF Paths
<1>2. p \in Seq(N) /\ Len(p) = n /\ n \in Nat
  BY <1>1, FileSystemAssumption
<1>3. n # 0
  BY <1>2, EmptySeq
<1>4. \A i \in 1 .. n - 1 : p[i] \in N
  BY <1>1
<1>5. /\ Parent(p) \in Seq(N)
      /\ Len(Parent(p)) = IF 1 <= n - 1 THEN (n - 1) - 1 + 1 ELSE 0
  BY <1>2, <1>4, SubSeqProperties DEF Parent
<1>6. Len(Parent(p)) = n - 1
  BY <1>2, <1>3, <1>5
<1>7. Parent(p) \in [1 .. n - 1 -> N] /\ n - 1 \in 0 .. MaxDepth
  BY <1>2, <1>3, <1>5, <1>6, LenProperties, FileSystemAssumption
<1>8. Parent(p) \in Paths
  BY <1>7 DEF Paths
<1>9. Parent(p) # p
  BY <1>2, <1>6
<1> QED
  BY <1>2, <1>3, <1>6, <1>8, <1>9

(* Entities in different directories are different. *)
LEMMA ChildrenApart ==
  ASSUME NEW c \in Dirs, NEW d \in Dirs, c # d
  PROVE  Children(c) \cap Children(d) = {}
BY DEF Children

(* From, NextOf and First in a list of the tree. *)
LEMMA FromLive ==
  ASSUME EntTypes, IndexInv, TreeInv, NEW x \in Live
  PROVE  \E d \in Dirs :
           /\ x \in Children(d) /\ Lists(list[d], Children(d))
           /\ Home(x) = d /\ From(x) = After(list[d], x)
           /\ Place(x) \in DOMAIN list[d] /\ list[d][Place(x)] = x
<1>1. PICK d \in Dirs : d = FindParent(PathOf(x))
  BY DEF TreeInv, IsDir, Dirs
<1>2. x \in Children(d)
  BY <1>1 DEF Children
<1> DEFINE Ch == [c \in Dirs |-> Children(c)]
<1>3. \A c \in Dirs : Lists(list[c], Ch[c])
  BY DEF TreeInv
<1>4. \A b, c \in Dirs : b # c => Ch[b] \cap Ch[c] = {}
  BY ChildrenApart
<1>5. x \in Ch[d]
  BY <1>2
<1> HIDE DEF Ch
<1>6. /\ HomeIn(list, x) = d /\ FromIn(list, x) = After(list[d], x)
      /\ PlaceIn(list, x) \in DOMAIN list[d] /\ list[d][PlaceIn(list, x)] = x
  BY <1>3, <1>4, <1>5, FromIs
<1>7. Home(x) = HomeIn(list, x) /\ Place(x) = PlaceIn(list, x) /\ From(x) = FromIn(list, x)
  BY DEF Home, HomeIn, Place, PlaceIn, From, FromIn
<1> QED
  BY <1>2, <1>6, <1>7 DEF TreeInv

(* Nothing is there at first. *)
LEMMA InitInv == Init => IInv
<1> SUFFICES ASSUME Init PROVE IInv
  OBVIOUS
<1>1. Live = {} /\ \A d \in Dirs : Children(d) = {} /\ list[d] = <<>>
  BY DEF Init, Live, Children
<1>2. <<NoName>> \in Paths
  <2>1. <<NoName>> \in [1 .. 1 -> Names \cup {NoName}]
    OBVIOUS
  <2> QED
    BY <2>1, FileSystemAssumption DEF Paths
<1>3. EntTypes
  BY <1>2, EmptySeq DEF Init, EntTypes
<1>4. IndexInv
  BY <1>1, Distinct DEF Init, IndexInv
<1>5. Lists(<<>>, {})
  BY EmptySeq, LenProperties DEF Lists
<1>6. TreeInv
  BY <1>1, <1>5 DEF TreeInv
<1>7. HandlesInv /\ StreamsInv
  BY <1>1, Distinct DEF Init, HandlesInv, StreamsInv, StreamTypes, StreamOK, ClosedStream
<1> QED
  BY <1>3, <1>4, <1>6, <1>7 DEF Init, IInv

-----------------------------------------------------------------------------
(* Creating an entity.                                                     *)

(* What FindParent finds. *)
LEMMA FindParentIs ==
  ASSUME EntTypes, IndexInv, NEW p
  PROVE  /\ FindParent(p) \in Live \cup {Root, Dangling, Null}
         /\ IsDir(FindParent(p)) => p # <<>> /\ FindParent(p) \in Live \cup {Root}
         /\ FindParent(p) \in Live => PathOf(FindParent(p)) = Parent(p) /\ Parent(p) # <<>>
<1>1. FindParent(p) \in Live => PathOf(FindParent(p)) = Parent(p) /\ Parent(p) # <<>>
  BY FindIs, Distinct DEF FindParent, FindDir, Live
<1>2. FindParent(p) \in Live \cup {Root, Dangling, Null}
  BY FindIs DEF FindParent, FindDir
<1>3. p = <<>> => FindParent(p) = Null
  BY DEF FindParent
<1> QED
  BY <1>1, <1>2, <1>3, Distinct DEF IsDir

(* createEnt, for a path that is not there and whose parent is a directory.*)
LEMMA CreateKeeps ==
  ASSUME IInv, NEW p \in Paths, NEW d, NEW type \in {"dir", "file"},
         Find(p) = Null, d = FindParent(p), IsDir(d), Create(d, p, type)
  PROVE  /\ EntTypes' /\ IndexInv' /\ TreeInv'
         /\ \E e \in Ents \ Live :
              /\ Live' = Live \cup {e} /\ kind' = [kind EXCEPT ![e] = type]
              /\ PathOf(e)' = p /\ \A f \in Live : PathOf(f)' = PathOf(f)
         /\ \A x \in Live : FromIn(list', x) = FromIn(list, x)
<1>0. EntTypes /\ IndexInv /\ TreeInv
  BY DEF IInv
<1>1. PICK e \in Ents, k \in Keys :
        /\ Allocate(e, k, p, type)
        /\ index[k] = Null
        /\ index' = [index EXCEPT ![k] = e]
        /\ list' = [list EXCEPT ![d] = <<e>> \o @]
        /\ UNCHANGED cwd
  BY DEF Create
<1>2. /\ kind[e] = "free" /\ \A f \in Live : key[f] # k
      /\ kind' = [kind EXCEPT ![e] = type] /\ key' = [key EXCEPT ![e] = k]
      /\ text' = [text EXCEPT ![k] = p]
      /\ \E g \in {Null, Garbage} : tail' = [tail EXCEPT ![e] = IF type = "dir" THEN g ELSE Null]
  BY <1>1 DEF Allocate
<1>3. /\ p # <<>> /\ d \in Live \cup {Root} /\ d \in Dirs /\ e \notin Live /\ d # e
      /\ e # Null /\ e # Root
  BY <1>0, <1>1, <1>2, FindParentIs, Distinct DEF Live, Dirs
<1>4. Live' = Live \cup {e} /\ \A f \in Live : kind'[f] = kind[f]
  BY <1>0, <1>2 DEF Live, EntTypes
<1>5. PathOf(e)' = p /\ \A f \in Live : PathOf(f)' = PathOf(f) /\ key'[f] = key[f]
  <2>1. text'[k] = p /\ key'[e] = k
    BY <1>0, <1>1, <1>2 DEF EntTypes
  <2>2. ASSUME NEW f \in Live PROVE key'[f] = key[f] /\ text'[key[f]] = text[key[f]]
    <3>1. f # e /\ key[f] # k /\ key[f] \in Keys /\ f \in Ents
      BY <1>0, <1>2, <1>3 DEF IndexInv, Live
    <3> QED
      BY <1>0, <1>2, <3>1 DEF EntTypes
  <2> QED
    BY <2>1, <2>2 DEF PathOf
<1>6. Find(p)' = e /\ \A q : q # p => Find(q)' = Find(q)
  <2>1. Holding(index, text, p) = {}
    BY <1>0, FindIs
  <2>2. \A j \in Keys : index'[j] = IF j = k THEN e ELSE index[j]
    BY <1>0, <1>1 DEF EntTypes
  <2>3. \A j \in Keys : text'[j] = IF j = k THEN p ELSE text[j]
    BY <1>0, <1>2 DEF EntTypes
  <2>4. Found(index', text', p) = e /\ \A q : q # p => Found(index', text', q) = Found(index, text, q)
    <3>1. Adds(index, text, k, e, p, index', text')
      BY <1>1, <1>3, <2>1, <2>2, <2>3 DEF Adds
    <3> QED
      BY <3>1, FoundNew
  <2>5. \A q : Find(q)' = Found(index', text', q) /\ Find(q) = Found(index, text, q)
    BY DEF Find, Found, Matches, Holding
  <2> QED
    BY <2>4, <2>5
<1>7. EntTypes'
  <2>1. <<e>> \o list[d] \in Seq(Ents)
    <3>1. list[d] \in Seq(Ents) /\ <<e>> \in Seq(Ents)
      BY <1>0, <1>3 DEF EntTypes
    <3> QED
      BY <3>1, ConcatProperties
  <2> QED
    BY <1>0, <1>1, <1>2, <1>3, <2>1 DEF EntTypes
<1>8. IndexInv'
  <2>1. ASSUME NEW f \in Live' PROVE key'[f] \in Keys /\ index'[key'[f]] = f /\ PathOf(f)' \in Paths
    <3>1. CASE f = e
      BY <1>0, <1>1, <1>2, <1>5, <3>1 DEF EntTypes
    <3>2. CASE f \in Live
      <4>1. key'[f] = key[f] /\ key[f] \in Keys /\ index[key[f]] = f /\ key[f] # k
        BY <1>0, <1>2, <1>5, <3>2 DEF IndexInv
      <4> QED
        BY <1>0, <1>1, <1>5, <3>2, <4>1 DEF EntTypes, IndexInv
    <3> QED
      BY <1>4, <3>1, <3>2
  <2>2. ASSUME NEW j \in Keys, index'[j] \in Ents PROVE index'[j] \in Live' /\ key'[index'[j]] = j
    <3>1. CASE j = k
      BY <1>0, <1>1, <1>2, <1>4, <3>1 DEF EntTypes
    <3>2. CASE j # k
      <4>1. index'[j] = index[j]
        BY <1>0, <1>1, <3>2 DEF EntTypes
      <4> QED
        BY <1>0, <1>4, <1>5, <2>2, <4>1 DEF IndexInv
    <3> QED
      BY <3>1, <3>2
  <2>3. ASSUME NEW i \in Keys, NEW j \in Keys, index'[i] # Null, index'[j] # Null, text'[i] = text'[j]
        PROVE  i = j
    <3>1. \A l \in Keys : l # k => index'[l] = index[l] /\ text'[l] = text[l]
      BY <1>0, <1>1, <1>2 DEF EntTypes
    <3>2. \A l \in Keys : index[l] # Null => text[l] # p
      BY <1>0, FindIs DEF Holding
    <3>3. text'[k] = p
      BY <1>0, <1>2 DEF EntTypes
    <3> QED
      BY <1>0, <2>3, <3>1, <3>2, <3>3 DEF IndexInv
  <2> QED
    BY <2>1, <2>2, <2>3 DEF IndexInv
<1>9. /\ FindParent(p)' = d
      /\ \A f \in Live : FindParent(PathOf(f))' = FindParent(PathOf(f))
  <2>1. ASSUME NEW q, Parent(q) # p PROVE FindParent(q)' = FindParent(q)
    BY <1>6, <2>1 DEF FindParent, FindDir
  <2>2. Parent(p) # p
    BY <1>3, ParentIs
  <2>3. ASSUME NEW f \in Live PROVE FindParent(PathOf(f))' = FindParent(PathOf(f))
    <3>1. PICK q : q = PathOf(f)
      OBVIOUS
    <3>2. IsDir(FindParent(q)) /\ q # <<>>
      BY <1>0, <3>1, FindParentIs DEF TreeInv
    <3>3. Parent(q) # p
      <4> SUFFICES ASSUME Parent(q) = p PROVE FALSE
        OBVIOUS
      <4>1. FindParent(q) = Null
        BY <1>3, <3>2 DEF FindParent, FindDir
      <4> QED
        BY <3>2, <4>1, Distinct DEF IsDir
    <3>4. FindParent(q)' = FindParent(q)
      BY <2>1, <3>3
    <3>5. PathOf(f)' = q
      BY <1>5, <3>1
    <3> QED
      BY <3>1, <3>4, <3>5
  <2> QED
    BY <2>1, <2>2, <2>3
<1>10. \A c \in Dirs : Children(c)' = IF c = d THEN Children(c) \cup {e} ELSE Children(c)
  <2>1. FindParent(PathOf(e))' = d
    BY <1>5, <1>9
  <2> QED
    BY <1>4, <1>9, <2>1 DEF Children
<1>11. TreeInv'
  <2>1. ASSUME NEW f \in Live' PROVE IsDir(FindParent(PathOf(f)))'
    <3>1. \A c \in Live \cup {Root} : IsDir(c)' <=> IsDir(c)
      BY <1>3, <1>4, Distinct DEF IsDir, Live
    <3>2. CASE f = e
      <4>1. FindParent(PathOf(e))' = d
        BY <1>5, <1>9
      <4>2. IsDir(d)'
        BY <1>3, <3>1
      <4> QED
        BY <3>2, <4>1, <4>2 DEF IsDir
    <3>3. CASE f \in Live
      <4>1. PICK c : c = FindParent(PathOf(f))
        OBVIOUS
      <4>2. IsDir(c) /\ c \in Live \cup {Root}
        BY <1>0, <3>3, <4>1, FindParentIs DEF TreeInv
      <4>3. FindParent(PathOf(f))' = c /\ IsDir(c)'
        BY <1>9, <3>1, <3>3, <4>1, <4>2
      <4> QED
        BY <4>3 DEF IsDir
    <3> QED
      BY <1>4, <3>2, <3>3
  <2>2. ASSUME NEW c \in Dirs PROVE Lists(list'[c], Children(c)')
    <3>1. CASE c = d
      <4>1. list'[c] = Push(e, list[c])
        BY <1>0, <1>1, <1>3, <3>1 DEF EntTypes, Push
      <4>2. Lists(list[c], Children(c)) /\ e \notin Children(c)
        BY <1>0, <1>3 DEF TreeInv, Children
      <4> QED
        BY <1>10, <3>1, <4>1, <4>2, PutFirst
    <3>2. CASE c # d
      <4>1. list'[c] = list[c]
        BY <1>0, <1>1, <3>2 DEF EntTypes
      <4> QED
        BY <1>0, <1>10, <3>2, <4>1 DEF TreeInv
    <3> QED
      BY <3>1, <3>2
  <2> QED
    BY <2>1, <2>2 DEF TreeInv
<1>12. ASSUME NEW x \in Live PROVE FromIn(list', x) = FromIn(list, x)
  <2>1. PICK c \in Dirs : x \in Children(c) /\ From(x) = After(list[c], x) /\ Lists(list[c], Children(c))
    BY <1>0, FromLive
  <2>2. PICK Ch : Ch = [b \in Dirs |-> Children(b)']
    OBVIOUS
  <2>3. \A b \in Dirs : Ch[b] = IF b = d THEN Children(b) \cup {e} ELSE Children(b)
    BY <1>10, <2>2
  <2>4. \A b \in Dirs : Lists(list'[b], Ch[b])
    BY <1>11, <2>2 DEF TreeInv
  <2>5. \A a, b \in Dirs : a # b => Ch[a] \cap Ch[b] = {}
    <3>1. \A b \in Dirs : e \notin Children(b)
      BY <1>3 DEF Children
    <3>2. \A a, b \in Dirs : a # b => Children(a) \cap Children(b) = {}
      BY ChildrenApart
    <3> QED
      <4> SUFFICES ASSUME NEW a \in Dirs, NEW b \in Dirs, a # b
                   PROVE  Ch[a] \cap Ch[b] = {}
        OBVIOUS
      <4>1. /\ Ch[a] = IF a = d THEN Children(a) \cup {e} ELSE Children(a)
            /\ Ch[b] = IF b = d THEN Children(b) \cup {e} ELSE Children(b)
        BY <2>3
      <4>2. e \notin Children(a) /\ e \notin Children(b)
        BY <3>1
      <4>3. Children(a) \cap Children(b) = {}
        BY <3>2
      <4> QED
        BY <4>1, <4>2, <4>3
  <2>6. x \in Ch[c]
    BY <2>1, <2>3
  <2>7. FromIn(list', x) = After(list'[c], x)
    BY <2>4, <2>5, <2>6, FromIs
  <2>8. After(list'[c], x) = After(list[c], x)
    <3>1. CASE c = d
      <4>1. list'[c] = Push(e, list[c])
        BY <1>0, <1>1, <1>3, <3>1 DEF EntTypes, Push
      <4>2. e \notin Children(c)
        BY <1>3 DEF Children
      <4>3. After(list'[c], x) = After(list[c], x)
        BY <2>1, <4>1, <4>2, PutAside
      <4> QED
        BY <4>3
    <3>2. CASE c # d
      BY <1>0, <1>1, <3>2 DEF EntTypes
    <3> QED
      BY <3>1, <3>2
  <2> QED
    BY <2>1, <2>7, <2>8 DEF From, FromIn, Home, HomeIn, Place, PlaceIn
<1> QED
  BY <1>2, <1>3, <1>4, <1>5, <1>7, <1>8, <1>11, <1>12

(* Streams and handles look on while an entity is created. *)
LEMMA PointersKept ==
  ASSUME EntTypes, StreamsInv, EntTypes', Live \subseteq Live', dirp' = dirp,
         \A x \in Live : FromIn(list', x) = FromIn(list, x)
  PROVE  StreamsInv'
<1>1. \A x \in Live : From(x)' = From(x)
  BY DEF From, FromIn, Home, HomeIn, Place, PlaceIn
<1>2. ASSUME NEW s \in Streams PROVE dirp[s] \in StreamTypes' /\ StreamOK(dirp[s])'
  <2>1. PICK p : p = dirp[s]
    OBVIOUS
  <2>2. p \in StreamTypes /\ StreamOK(p)
    BY <2>1 DEF StreamsInv
  <2>3. p \in StreamTypes'
    BY <2>2 DEF StreamTypes
  <2>4. p.listIdx \in Live' => p.listIdx \in Live
    BY <2>2, Distinct DEF StreamTypes, Live
  <2>5. StreamOK(p)'
    BY <1>1, <2>2, <2>4 DEF StreamOK
  <2>6. dirp'[s] = p
    BY <2>1
  <2> QED
    BY <2>1, <2>3, <2>5, <2>6 DEF StreamOK
<1> QED
  BY <1>2 DEF StreamsInv

-----------------------------------------------------------------------------
(* Freeing entities.                                                       *)

(* The lists, without those of S: nobody who stays was in one of S.        *)
Loses(S, ls) ==
  /\ ls = [d \in Dirs |-> ls[d]]
  /\ \A d \in Dirs : Lists(ls[d], Children(d) \ S)
  /\ \A d \in Dirs : \A x \in Children(d) \ S : After(ls[d], x) = After(list[d], x) \ S
  /\ \A x \in Live \ S : FindParent(PathOf(x)) \notin S

(* Freed entities leave elements that lead to nothing.                     *)
LEMMA FreedIndex ==
  ASSUME EntTypes, IndexInv, NEW S \in SUBSET Live, FreeEnts(S)
  PROVE  /\ Live' = Live \ S /\ IndexInv'
         /\ \A q : Find(q)' = Cut(Find(q), S) /\ FindParent(q)' = Cut(FindParent(q), S)
         /\ \A x \in Live \ S : PathOf(x)' = PathOf(x) /\ kind'[x] = kind[x]
<1>1. S \in SUBSET Ents
  BY DEF Live
<1>2. /\ \A e \in Ents : kind'[e] = IF e \in S THEN "free" ELSE kind[e]
      /\ \A e \in Ents : key'[e] = IF e \in S THEN Null ELSE key[e]
      /\ \A k \in Keys : index'[k] = Cut(index[k], S)
      /\ text' = text
  BY DEF FreeEnts
<1>3. Live' = Live \ S
  BY <1>2 DEF Live
<1>4. ASSUME NEW q PROVE Find(q)' = Cut(Find(q), S) /\ FindParent(q)' = Cut(FindParent(q), S)
  <2>1. ASSUME NEW r PROVE Find(r)' = Cut(Find(r), S)
    <3>1. Find(r)' = Found(index', text, r) /\ Find(r) = Found(index, text, r)
      BY <1>2 DEF Find, Found, Matches, Holding
    <3> QED
      BY <1>1, <1>2, <3>1, FoundFreed
  <2>2. Cut(Root, S) = Root /\ Cut(Null, S) = Null
    BY <1>1, Distinct DEF Cut
  <2> QED
    BY <2>1, <2>2 DEF FindParent, FindDir
<1>5. ASSUME NEW x \in Live \ S
      PROVE  PathOf(x)' = PathOf(x) /\ kind'[x] = kind[x] /\ key'[x] = key[x]
  BY <1>2 DEF PathOf, Live
<1>6. IndexInv'
  <2>1. ASSUME NEW e \in Live' PROVE key'[e] \in Keys /\ index'[key'[e]] = e /\ PathOf(e)' \in Paths
    <3>1. e \in Live \ S /\ key'[e] = key[e] /\ key[e] \in Keys /\ index[key[e]] = e /\ PathOf(e) \in Paths
      BY <1>3, <1>5 DEF IndexInv
    <3>2. index'[key[e]] = Cut(e, S)
      BY <1>2, <3>1
    <3> QED
      BY <1>5, <3>1, <3>2 DEF Cut
  <2>2. ASSUME NEW k \in Keys, index'[k] \in Ents PROVE index'[k] \in Live' /\ key'[index'[k]] = k
    <3>1. index'[k] = index[k] /\ index[k] \notin S
      BY <1>2, <2>2, Distinct DEF Cut
    <3>2. index[k] \in Live \ S /\ key[index[k]] = k
      BY <2>2, <3>1 DEF IndexInv
    <3> QED
      BY <1>3, <1>5, <3>1, <3>2
  <2>3. ASSUME NEW j \in Keys, NEW k \in Keys, index'[j] # Null, index'[k] # Null, text'[j] = text'[k]
        PROVE  j = k
    <3>1. index[j] # Null /\ index[k] # Null
      BY <1>1, <1>2, <2>3, Distinct DEF Cut
    <3> QED
      BY <1>2, <2>3, <3>1 DEF IndexInv
  <2> QED
    BY <2>1, <2>2, <2>3 DEF IndexInv
<1> QED
  BY <1>3, <1>4, <1>5, <1>6

(* Entities that are out of the lists are freed.                           *)
LEMMA FreedKeeps ==
  ASSUME IInv, NEW S \in SUBSET Live, FreeEnts(S), Loses(S, list')
  PROVE  EntTypes' /\ IndexInv' /\ TreeInv' /\ HandlesInv' /\ StreamsInv'
<1>1. EntTypes /\ IndexInv /\ TreeInv /\ HandlesInv /\ StreamsInv
  BY DEF IInv
<1>2. /\ Live' = Live \ S /\ IndexInv'
      /\ \A q : FindParent(q)' = Cut(FindParent(q), S)
      /\ \A x \in Live \ S : PathOf(x)' = PathOf(x) /\ kind'[x] = kind[x]
  BY <1>1, FreedIndex
<1>3. EntTypes'
  <2>1. ASSUME NEW d \in Dirs PROVE list'[d] \in Seq(Ents)
    <3>1. list'[d] \in Seq(Children(d) \ S)
      BY DEF Loses, Lists
    <3>2. Children(d) \ S \subseteq Ents
      BY DEF Children, Live
    <3> QED
      BY <3>1, <3>2, SeqMonotonic
  <2>2. list' \in [Dirs -> Seq(Ents)]
    BY <2>1 DEF Loses
  <2>3. index' \in [Keys -> Ents \cup {Dangling, Null}]
    <3>1. \A k \in Keys : Cut(index[k], S) \in Ents \cup {Dangling, Null}
      BY <1>1 DEF EntTypes, Cut
    <3> QED
      BY <3>1 DEF FreeEnts
  <2> QED
    BY <1>1, <2>2, <2>3 DEF EntTypes, FreeEnts
<1>4. \A x \in Live \ S : FindParent(PathOf(x))' = FindParent(PathOf(x))
  BY <1>2 DEF Loses, Cut
<1>5. \A d \in Dirs : Children(d)' = Children(d) \ S
  BY <1>2, <1>4 DEF Children
<1>6. TreeInv'
  <2>1. ASSUME NEW x \in Live' PROVE IsDir(FindParent(PathOf(x)))'
    <3>1. PICK c : c = FindParent(PathOf(x))
      OBVIOUS
    <3>2. x \in Live \ S /\ IsDir(c) /\ c \in Live \cup {Root} /\ c \notin S
      BY <1>1, <1>2, <3>1, FindParentIs DEF TreeInv, Loses
    <3>3. IsDir(c)'
      BY <1>2, <3>2, Distinct DEF IsDir
    <3> QED
      BY <1>4, <3>1, <3>2, <3>3 DEF IsDir
  <2> QED
    BY <1>5, <2>1 DEF TreeInv, Loses
<1>7. HandlesInv'
  <2>1. \A h \in Handles : Cut(base[h], S) \in Live' \cup {Dangling, Null}
    BY <1>1, <1>2 DEF HandlesInv, Cut
  <2> QED
    BY <2>1 DEF HandlesInv, FreeEnts
<1>8. ASSUME NEW x \in Live \ S PROVE From(x)' = From(x) \ S
  <2>1. PICK c \in Dirs : x \in Children(c) /\ From(x) = After(list[c], x)
    BY <1>1, FromLive
  <2>2. After(list'[c], x) = After(list[c], x) \ S
    BY <2>1 DEF Loses
  <2>3. PICK Ch : Ch = [b \in Dirs |-> Children(b)']
    OBVIOUS
  <2>4. \A b \in Dirs : Ch[b] = Children(b) \ S
    BY <1>5, <2>3
  <2>5. \A b \in Dirs : Lists(list'[b], Ch[b])
    BY <2>4 DEF Loses
  <2>6. \A a, b \in Dirs : a # b => Ch[a] \cap Ch[b] = {}
    BY <2>4, ChildrenApart
  <2>7. x \in Ch[c]
    BY <2>1, <2>4
  <2>8. FromIn(list', x) = After(list'[c], x)
    BY <2>5, <2>6, <2>7, FromIs
  <2> QED
    BY <2>1, <2>2, <2>8 DEF From, FromIn, Home, HomeIn, Place, PlaceIn
<1>9. StreamsInv'
  <2>1. ASSUME NEW s \in Streams PROVE dirp'[s] \in StreamTypes' /\ StreamOK(dirp[s])'
    <3>1. PICK p : p = dirp[s]
      OBVIOUS
    <3>2. p \in StreamTypes /\ StreamOK(p)
      BY <1>1, <3>1 DEF StreamsInv
    <3>3. PICK q : q = dirp'[s]
      OBVIOUS
    <3>4. q = [p EXCEPT !.list = Cut(@, S), !.listIdx = Cut(@, S), !.seen = @ \ S, !.owed = @ \ S]
      BY <3>1, <3>3 DEF FreeEnts
    <3>5. /\ q.list = Cut(p.list, S) /\ q.listIdx = Cut(p.listIdx, S)
          /\ q.seen = p.seen \ S /\ q.owed = p.owed \ S
      BY <3>2, <3>4 DEF StreamTypes
    <3>6. q \in StreamTypes'
      BY <1>2, <3>2, <3>4 DEF StreamTypes, Cut
    <3>7. q.listIdx \in Live' => q.listIdx = p.listIdx /\ p.listIdx \in Live \ S
      BY <1>2, <3>5, Distinct DEF Cut, Live
    <3>8. q.listIdx = Null => p.listIdx = Null
      BY <3>5, Distinct DEF Cut
    <3>9. StreamOK(q)'
      BY <1>8, <3>2, <3>5, <3>7, <3>8 DEF StreamOK
    <3> QED
      BY <3>3, <3>6, <3>9 DEF StreamOK
  <2>2. dirp' = [s \in Streams |-> dirp'[s]]
    BY DEF FreeEnts
  <2> QED
    BY <2>1, <2>2 DEF StreamsInv, StreamOK
<1> QED
  BY <1>2, <1>3, <1>6, <1>7, <1>9

-----------------------------------------------------------------------------
(* Every entity is reached from the root: its parent's path is shorter.    *)

(* Every entity is reached from the root.                                  *)
LEMMA AllReached ==
  ASSUME EntTypes, IndexInv, TreeInv
  PROVE  Live = Reachable
<1>1. \A d \in Dirs : ToSet(list[d]) = Children(d)
  BY ListedIs DEF TreeInv
<1>2. Live \in SUBSET Ents /\ \A d \in Live \cup {Root} : d \in Dirs
  BY DEF Live, Dirs
<1>3. ASSUME NEW e \in Reachable PROVE e \in Live
  <2>1. \A d \in Live \cup {Root} : ToSet(list[d]) \subseteq Live
    BY <1>1, <1>2 DEF Children
  <2> QED
    BY <1>2, <1>3, <2>1 DEF Reachable
<1>4. ASSUME NEW e \in Live, NEW S \in SUBSET Ents,
             \A d \in S \cup {Root} : ToSet(list[d]) \subseteq S
      PROVE  e \in S
  <2> SUFFICES ASSUME e \notin S PROVE FALSE
    OBVIOUS
  <2> DEFINE L == {Len(PathOf(x)) : x \in Live \ S}
  <2>1. \A x \in Live : PathOf(x) \in Paths /\ PathOf(x) # <<>>
    BY FindParentIs DEF IndexInv, TreeInv
  <2>2. L \subseteq Nat /\ L # {}
    BY <2>1, ParentIs
  <2>3. PICK m \in L : \A n \in L : ~ (<<n, m>> \in OpToRel(<, Nat))
    <3> HIDE DEF L
    <3> QED
      BY <2>2, NatLessThanWellFounded, WFMin
  <2>4. PICK x \in Live \ S : m = Len(PathOf(x))
    BY <2>3
  <2>5. PICK p \in Paths : p = PathOf(x) /\ p # <<>>
    BY <2>1, <2>4
  <2>6. PICK c : c = FindParent(p)
    OBVIOUS
  <2>7. c \in Live \cup {Root} /\ (c \in Live => PathOf(c) = Parent(p))
    BY <2>4, <2>5, <2>6, FindParentIs DEF TreeInv
  <2>8. x \in ToSet(list[c])
    BY <1>1, <1>2, <2>4, <2>5, <2>6, <2>7 DEF Children
  <2>9. c \in Live \ S
    BY <1>4, <2>4, <2>7, <2>8
  <2>10. Len(Parent(p)) \in Nat /\ m \in Nat /\ Len(Parent(p)) < m
    BY <2>4, <2>5, ParentIs
  <2>11. Len(Parent(p)) \in L
    BY <2>7, <2>9
  <2> QED
    BY <2>3, <2>10, <2>11 DEF OpToRel
<1> QED
  BY <1>2, <1>3, <1>4 DEF Reachable

(* What is listed from e on is listed. *)
LEMMA AfterIn ==
  ASSUME NEW S, NEW s, Lists(s, S), NEW x
  PROVE  After(s, x) \subseteq S
BY ElementOfSeq DEF Lists, After

(* unlink and rmdir. *)
LEMMA UnlinkKeeps ==
  ASSUME IInv, NEW p \in Paths, NEW dirOnly, UnlinkRemoves(p, dirOnly)
  PROVE  /\ EntTypes' /\ IndexInv' /\ TreeInv' /\ HandlesInv' /\ StreamsInv'
         /\ Find(p) \in Live /\ FreeEnts({Find(p)}) /\ Children(Find(p)) = {}
<1>1. EntTypes /\ IndexInv /\ TreeInv
  BY DEF IInv
<1>2. PICK e : e = Find(p)
  OBVIOUS
<1>3. PICK d : d = FindParent(p)
  OBVIOUS
<1>4. /\ e \in Ents /\ IsDir(d) /\ list[e] = <<>> /\ FreeEnts({e})
      /\ list' = [list EXCEPT ![d] = RemoveFirst(@, e)]
  BY <1>2, <1>3 DEF UnlinkRemoves
<1>5. e \in Live /\ PathOf(e) = p /\ d \in Live \cup {Root} /\ d \in Dirs /\ e \in Dirs
  BY <1>1, <1>2, <1>3, <1>4, FindIs, FindParentIs, Distinct DEF Dirs, Live
<1>6. Children(e) = {}
  BY <1>1, <1>4, <1>5, ListedIs DEF TreeInv
<1>7. e \in Children(d)
  BY <1>3, <1>5 DEF Children
<1>8. \A x \in Live \ {e} : FindParent(PathOf(x)) \notin {e}
  BY <1>6 DEF Children
<1>9. /\ Lists(list'[d], Children(d) \ {e})
      /\ \A x \in Children(d) \ {e} : After(list'[d], x) = After(list[d], x) \ {e}
  <2>1. PICK l, K : l = list[d] /\ K = Children(d)
    OBVIOUS
  <2>2. list'[d] = RemoveFirst(l, e)
    BY <1>1, <1>4, <1>5, <2>1 DEF EntTypes
  <2>3. Lists(l, K) /\ e \in K
    BY <1>1, <1>5, <1>7, <2>1 DEF TreeInv
  <2>4. /\ Lists(RemoveFirst(l, e), K \ {e})
        /\ \A x \in K \ {e} : After(RemoveFirst(l, e), x) = After(l, x) \ {e}
    BY <2>3, TakeOut
  <2> QED
    BY <2>1, <2>2, <2>4
<1>10. ASSUME NEW c \in Dirs, c # d
       PROVE  /\ Lists(list'[c], Children(c) \ {e})
              /\ \A x \in Children(c) \ {e} : After(list'[c], x) = After(list[c], x) \ {e}
  <2>1. list'[c] = list[c]
    BY <1>1, <1>4, <1>10 DEF EntTypes
  <2>2. Children(c) \ {e} = Children(c)
    BY <1>7, <1>10 DEF Children
  <2>3. Lists(list[c], Children(c))
    BY <1>1 DEF TreeInv
  <2>4. \A x : After(list[c], x) \subseteq Children(c)
    BY <2>3, AfterIn
  <2> QED
    BY <2>1, <2>2, <2>3, <2>4
<1>11. Loses({e}, list')
  <2>1. list' = [c \in Dirs |-> list'[c]]
    BY <1>1, <1>4 DEF EntTypes
  <2> QED
    BY <1>8, <1>9, <1>10, <2>1 DEF Loses
<1>12. {e} \in SUBSET Live
  BY <1>5
<1>13. EntTypes' /\ IndexInv' /\ TreeInv' /\ HandlesInv' /\ StreamsInv'
  BY <1>4, <1>11, <1>12, FreedKeeps
<1> QED
  BY <1>2, <1>4, <1>5, <1>6, <1>13

(* fsystemReset. *)
LEMMA ResetKeeps ==
  ASSUME IInv, ResetFrees
  PROVE  /\ EntTypes' /\ IndexInv' /\ TreeInv' /\ HandlesInv' /\ StreamsInv'
         /\ FreeEnts(Live)
<1>1. EntTypes /\ IndexInv /\ TreeInv
  BY DEF IInv
<1>2. Live = Reachable
  BY <1>1, AllReached
<1>3. FreeEnts(Live) /\ list' = [d \in Dirs |-> IF d \in Live \cup {Root} THEN <<>> ELSE list[d]]
  BY <1>2 DEF ResetFrees
<1>4. \A d \in Dirs : Children(d) \ Live = {}
  BY DEF Children
<1>5. \A d \in Dirs : list'[d] = <<>>
  <2>1. ASSUME NEW d \in Dirs, d \notin Live \cup {Root} PROVE list[d] = <<>>
    <3>1. Children(d) = {}
      BY <1>1, <2>1, FindParentIs DEF Children, TreeInv
    <3> QED
      BY <1>1, <3>1, ListedIs DEF TreeInv
  <2> QED
    BY <1>3, <2>1
<1>6. Lists(<<>>, {})
  BY EmptySeq, LenProperties DEF Lists
<1>7. Loses(Live, list')
  BY <1>3, <1>4, <1>5, <1>6 DEF Loses
<1>8. EntTypes' /\ IndexInv' /\ TreeInv' /\ HandlesInv' /\ StreamsInv'
  BY <1>3, <1>7, FreedKeeps
<1> QED
  BY <1>3, <1>8

-----------------------------------------------------------------------------
(* The steps that leave the entities alone.                                *)

(* Nothing happens to entities, streams and handles.                       *)
LEMMA Still ==
  ASSUME IInv, UNCHANGED entities, cwd' \in Paths
  PROVE  /\ EntTypes' /\ IndexInv' /\ TreeInv'
         /\ Live' = Live /\ StreamTypes' = StreamTypes
         /\ \A x : From(x)' = From(x)
         /\ \A p : StreamOK(p)' = StreamOK(p)
<1>1. /\ kind' = kind /\ list' = list /\ tail' = tail /\ key' = key /\ text' = text
      /\ index' = index
  BY DEF entities
<1>2. EntTypes /\ IndexInv /\ TreeInv
  BY DEF IInv
<1>3. Live' = Live /\ StreamTypes' = StreamTypes
  BY <1>1 DEF Live, StreamTypes
<1>4. \A x : From(x)' = From(x)
  BY <1>1 DEF From, Home, Place
<1>5. \A p : StreamOK(p)' = StreamOK(p)
  BY <1>3, <1>4 DEF StreamOK
<1>6. EntTypes'
  BY <1>1, <1>2 DEF EntTypes
<1>7. \A p : PathOf(p)' = PathOf(p) /\ FindParent(p)' = FindParent(p) /\ IsDir(p)' = IsDir(p)
  BY <1>1 DEF PathOf, FindParent, FindDir, Find, Matches, IsDir
<1>8. IndexInv'
  BY <1>1, <1>2, <1>3, <1>7 DEF IndexInv
<1>9. TreeInv'
  <2>1. \A d : Children(d)' = Children(d)
    BY <1>3, <1>7 DEF Children
  <2>2. \A e \in Live' : IsDir(FindParent(PathOf(e)))'
    BY <1>1, <1>2, <1>3 DEF TreeInv, PathOf, FindParent, FindDir, Find, Matches, IsDir
  <2> QED
    BY <1>1, <1>2, <2>1, <2>2 DEF TreeInv
<1> QED
  BY <1>3, <1>4, <1>5, <1>6, <1>8, <1>9

(* A call that only answers, fails or moves __cwd. *)
LEMMA LooksKeep ==
  ASSUME IInv, UNCHANGED <<entities, base, dirp>>, cwd' \in Paths,
         answer' \in {"done", "exists", "failed"},
         fault' \in {"none", "removed", "panic", "handle", "cursor", "confused", "garbage", "null",
                     "not a file"}
  PROVE  IInv'
<1>1. EntTypes' /\ IndexInv' /\ TreeInv' /\ Live' = Live /\ StreamTypes' = StreamTypes
  BY Still
<1>2. \A p : StreamOK(p)' = StreamOK(p)
  BY Still
<1>3. HandlesInv'
  BY <1>1 DEF IInv, HandlesInv
<1>4. StreamsInv'
  <2>1. ASSUME NEW s \in Streams PROVE StreamOK(dirp[s])'
    <3>1. PICK p : p = dirp[s]
      OBVIOUS
    <3>2. StreamOK(p)'
      BY <1>2, <3>1 DEF IInv, StreamsInv
    <3>3. dirp'[s] = p
      BY <3>1
    <3> QED
      BY <3>2, <3>3 DEF StreamOK
  <2> QED
    BY <1>1, <2>1 DEF IInv, StreamsInv
<1> QED
  BY <1>1, <1>3, <1>4 DEF IInv

(* A stream is opened, moved or closed. *)
LEMMA SetStreamKeeps ==
  ASSUME IInv, NEW s \in Streams, NEW r \in StreamTypes, StreamOK(r), SetStream(s, r),
         answer' \in {"done", "exists", "failed"}
  PROVE  IInv'
<1>1. EntTypes' /\ IndexInv' /\ TreeInv' /\ Live' = Live /\ StreamTypes' = StreamTypes
  BY Still DEF SetStream, IInv, EntTypes
<1>2. \A p : StreamOK(p)' = StreamOK(p)
  BY Still DEF SetStream, IInv, EntTypes
<1>3. HandlesInv'
  BY <1>1 DEF IInv, HandlesInv, SetStream
<1>4. dirp' \in [Streams -> StreamTypes]
  BY DEF IInv, StreamsInv, SetStream
<1>5. ASSUME NEW t \in Streams PROVE StreamOK(dirp[t])'
  <2>1. PICK p : p = dirp'[t]
    OBVIOUS
  <2>2. p = IF t = s THEN r ELSE dirp[t]
    BY <2>1 DEF IInv, StreamsInv, SetStream
  <2>3. StreamOK(p)'
    BY <1>2, <2>2 DEF IInv, StreamsInv
  <2> QED
    BY <2>1, <2>3 DEF StreamOK
<1> QED
  BY <1>1, <1>3, <1>4, <1>5 DEF IInv, StreamsInv, SetStream

(* A handle is opened or closed. *)
LEMMA SetHandleKeeps ==
  ASSUME IInv, NEW h \in Handles, NEW e \in Live \cup {Null},
         base' = [base EXCEPT ![h] = e], UNCHANGED <<entities, cwd, dirp, fault>>,
         answer' \in {"done", "exists", "failed"}
  PROVE  IInv'
<1>1. EntTypes' /\ IndexInv' /\ TreeInv' /\ Live' = Live /\ StreamTypes' = StreamTypes
  BY Still DEF IInv, EntTypes
<1>2. \A p : StreamOK(p)' = StreamOK(p)
  BY Still DEF IInv, EntTypes
<1>3. HandlesInv'
  BY <1>1 DEF IInv, HandlesInv
<1>4. ASSUME NEW s \in Streams PROVE StreamOK(dirp[s])'
  <2>1. PICK p : p = dirp[s]
    OBVIOUS
  <2>2. StreamOK(p)'
    BY <1>2, <2>1 DEF IInv, StreamsInv
  <2>3. dirp'[s] = p
    BY <2>1
  <2> QED
    BY <2>2, <2>3 DEF StreamOK
<1> QED
  BY <1>1, <1>3, <1>4 DEF IInv, StreamsInv

(* The paths a caller can name are paths. *)
LEMMA RequestIs ==
  ASSUME EntTypes, NEW r \in Requests, Len(Expand(r)) <= MaxDepth
  PROVE  Expand(r) \in Paths
<1> DEFINE N == Names \cup {NoName}
<1>1. CASE ~ r.rel
  <2>1. PICK n \in 0 .. MaxDepth : r.names \in [1 .. n -> Names]
    BY <1>1 DEF Requests
  <2>2. r.names \in [1 .. n -> N]
    BY <2>1
  <2> QED
    BY <1>1, <2>1, <2>2 DEF Paths, Expand
<1>2. CASE r.rel
  <2>1. PICK n \in Names : r.names = <<n>>
    BY <1>2 DEF Requests
  <2>2. PICK m \in 0 .. MaxDepth : cwd \in [1 .. m -> N]
    BY DEF EntTypes, Paths
  <2>3. cwd \in Seq(N) /\ <<n>> \in Seq(N)
    BY <2>2, FileSystemAssumption
  <2>4. PICK p : p = cwd \o <<n>>
    OBVIOUS
  <2>5. p \in Seq(N)
    BY <2>3, <2>4, ConcatProperties
  <2>6. p \in [1 .. Len(p) -> N] /\ Len(p) \in Nat
    BY <2>5, LenProperties
  <2>7. Expand(r) = p
    BY <1>2, <2>1, <2>4 DEF Expand
  <2>8. Len(p) \in 0 .. MaxDepth
    BY <2>6, <2>7, FileSystemAssumption
  <2> QED
    BY <2>6, <2>7, <2>8 DEF Paths
<1> QED
  BY <1>1, <1>2

-----------------------------------------------------------------------------
(* Directory streams: what is owed at first, and each step onward.         *)

(* From, in the list of the directory an entity is in. *)
LEMMA FromFirst ==
  ASSUME EntTypes, IndexInv, TreeInv, NEW d \in Dirs
  PROVE  /\ First(d) \in Live \cup {Null, Garbage}
         /\ First(d) \in Live => From(First(d)) = ToSet(list[d])
         /\ First(d) = Null => ToSet(list[d]) = {}
         /\ ToSet(list[d]) \subseteq Live
<1>1. Lists(list[d], Children(d)) /\ Children(d) \subseteq Live
  BY DEF TreeInv, Children
<1>2. ToSet(list[d]) = Children(d)
  BY <1>1, ListedIs
<1>3. CASE list[d] = <<>>
  <2>1. First(d) \in {Null, Garbage} /\ Children(d) = {}
    BY <1>1, <1>3, ListedIs DEF First, EntTypes
  <2> QED
    BY <1>2, <2>1, Distinct DEF Live
<1>4. CASE list[d] # <<>>
  <2>1. PICK x : x = First(d)
    OBVIOUS
  <2>2. x = Head(list[d])
    BY <1>4, <2>1 DEF First
  <2>3. x \in Children(d) /\ After(list[d], x) = Children(d)
    BY <1>1, <1>4, <2>2, AfterFirst
  <2>4. x \in Live
    BY <1>1, <2>3
  <2>5. PICK c \in Dirs : x \in Children(c) /\ From(x) = After(list[c], x)
    BY <2>4, FromLive
  <2>6. c = d
    BY <2>3, <2>5 DEF Children
  <2> QED
    BY <1>1, <1>2, <2>1, <2>3, <2>4, <2>5, <2>6, Distinct DEF Live
<1> QED
  BY <1>3, <1>4

(* From, at an entity and at the one that follows it. *)
LEMMA FromNext ==
  ASSUME EntTypes, IndexInv, TreeInv, NEW x \in Live
  PROVE  /\ From(x) \subseteq Live
         /\ NextOf(x) \in Live \cup {Null, Garbage}
         /\ NextOf(x) \notin Live => From(x) = {x}
         /\ NextOf(x) \in Live => From(x) = {x} \cup From(NextOf(x)) /\ x \notin From(NextOf(x))
<1>1. PICK d \in Dirs :
        /\ x \in Children(d) /\ Lists(list[d], Children(d))
        /\ Home(x) = d /\ From(x) = After(list[d], x)
        /\ Place(x) \in DOMAIN list[d] /\ list[d][Place(x)] = x
  BY FromLive
<1>2. From(x) \subseteq Live
  BY <1>1, AfterIn DEF Children
<1>3. PICK i \in DOMAIN list[d] : i = Place(x) /\ list[d][i] = x
  BY <1>1
<1>4. PICK l, K : l = list[d] /\ K = Children(d)
  OBVIOUS
<1>5. Lists(l, K) /\ i \in DOMAIN l /\ l[i] = x
  BY <1>1, <1>3, <1>4
<1>6. NextOf(x) = IF i = Len(l) THEN tail[d] ELSE l[i + 1]
  BY <1>1, <1>3, <1>4 DEF NextOf
<1>7. CASE i = Len(l)
  <2>1. After(l, x) = {x}
    BY <1>5, <1>7, AfterNext
  <2>2. NextOf(x) \in {Null, Garbage}
    BY <1>6, <1>7 DEF EntTypes
  <2> QED
    BY <1>1, <1>2, <1>4, <2>1, <2>2, Distinct DEF Live
<1>8. CASE i # Len(l)
  <2>1. /\ i + 1 \in DOMAIN l
        /\ After(l, l[i]) = {l[i]} \cup After(l, l[i + 1])
        /\ l[i] \notin After(l, l[i + 1])
    BY <1>5, <1>8, AfterNext
  <2>2. PICK y : y = l[i + 1]
    OBVIOUS
  <2>3. After(l, x) = {x} \cup After(l, y) /\ x \notin After(l, y) /\ NextOf(x) = y
    BY <1>5, <1>6, <1>8, <2>1, <2>2
  <2>4. y \in K
    BY <1>5, <2>1, <2>2, AfterIs
  <2>5. y \in Children(d) /\ y \in Live
    BY <1>4, <2>4 DEF Children
  <2>6. PICK c \in Dirs : y \in Children(c) /\ From(y) = After(list[c], y)
    BY <2>5, FromLive
  <2>7. c = d
    BY <2>5, <2>6 DEF Children
  <2>8. From(y) = After(l, y)
    BY <1>4, <2>6, <2>7
  <2> QED
    BY <1>1, <1>2, <1>4, <2>3, <2>5, <2>8
<1> QED
  BY <1>7, <1>8

(* A stream begins at the first entity of its directory.                   *)
LEMMA OpendirKeeps ==
  ASSUME IInv, NEW s \in Streams, NEW p, OpendirFinds(s, p)
  PROVE  IInv'
<1>1. EntTypes /\ IndexInv /\ TreeInv
  BY DEF IInv
<1>2. PICK d : d = FindDir(p)
  OBVIOUS
<1>3. d \in Dirs
  BY <1>2 DEF OpendirFinds, IsDir, Dirs
<1>4. PICK f : f = First(d)
  OBVIOUS
<1>5. PICK n \in {0, 2} : n = IF d = Root THEN 0 ELSE 2
  OBVIOUS
<1>6. PICK r : r = [open |-> TRUE, list |-> f, listIdx |-> f, fake |-> n, fakeIdx |-> n,
                    seen |-> {}, owed |-> ToSet(list[d])]
  OBVIOUS
<1>7. SetStream(s, r) /\ answer' = "done"
  BY <1>2, <1>4, <1>5, <1>6 DEF OpendirFinds
<1>8. /\ f \in Live \cup {Null, Garbage}
      /\ f \in Live => From(f) = ToSet(list[d])
      /\ f = Null => ToSet(list[d]) = {}
      /\ ToSet(list[d]) \subseteq Live
  BY <1>1, <1>3, <1>4, FromFirst
<1>9. r \in StreamTypes
  BY <1>5, <1>6, <1>8 DEF StreamTypes
<1>10. StreamOK(r)
  <2>1. r.listIdx = f /\ r.seen = {} /\ r.owed = ToSet(list[d])
    BY <1>6
  <2> QED
    BY <1>8, <2>1 DEF StreamOK
<1> QED
  BY <1>7, <1>9, <1>10, SetStreamKeeps

(* closedir, readdir and rewinddir. *)
LEMMA StreamKeeps ==
  ASSUME IInv, NEW s \in Streams, Stream(s), fault = "none"
  PROVE  IInv'
<1>1. EntTypes /\ IndexInv /\ TreeInv /\ cwd \in Paths
  BY DEF IInv, EntTypes
<1>2. PICK p : p = dirp[s]
  OBVIOUS
<1>3. p \in StreamTypes /\ StreamOK(p) /\ answer \in {"done", "exists", "failed"}
  BY <1>2 DEF IInv, StreamsInv
<1>4. CASE Closedir(s)
  <2>1. PICK r : r = ClosedStream
    OBVIOUS
  <2>2. r \in StreamTypes /\ r.listIdx = Null /\ r.owed = {}
    BY <2>1 DEF ClosedStream, StreamTypes
  <2>3. StreamOK(r)
    BY <2>2, Distinct DEF StreamOK, Live
  <2> QED
    BY <1>3, <1>4, <2>1, <2>2, <2>3, SetStreamKeeps DEF Closedir
<1>5. CASE ReaddirFake(s)
  <2>1. PICK r : r = [p EXCEPT !.fakeIdx = @ - 1]
    OBVIOUS
  <2>2. SetStream(s, r) /\ p.fakeIdx > 0 /\ UNCHANGED answer
    BY <1>2, <1>5, <2>1 DEF ReaddirFake
  <2>3. p.fakeIdx \in 0 .. 2
    BY <1>3 DEF StreamTypes
  <2>4. p.fakeIdx - 1 \in 0 .. 2
    BY <2>2, <2>3
  <2>5. r \in StreamTypes
    BY <1>3, <2>1, <2>4 DEF StreamTypes
  <2>6. r.listIdx = p.listIdx /\ r.seen = p.seen /\ r.owed = p.owed
    BY <1>3, <2>1 DEF StreamTypes
  <2>7. StreamOK(r)
    BY <1>3, <2>6 DEF StreamOK
  <2> QED
    BY <1>3, <2>2, <2>5, <2>7, SetStreamKeeps
<1>6. CASE ReaddirEntity(s)
  <2>1. PICK x : x = p.listIdx
    OBVIOUS
  <2>2. x \in Live
    BY <1>2, <1>3, <1>6, <2>1, Distinct DEF ReaddirEntity, StreamTypes
  <2>3. PICK y : y = NextOf(x)
    OBVIOUS
  <2>4. PICK r : r = [p EXCEPT !.listIdx = y, !.seen = p.seen \cup {x}]
    OBVIOUS
  <2>5. SetStream(s, r) /\ UNCHANGED answer
    BY <1>2, <1>3, <1>6, <2>1, <2>3, <2>4 DEF ReaddirEntity, StreamTypes
  <2>6. /\ From(x) \subseteq Live
        /\ y \in Live \cup {Null, Garbage}
        /\ y \notin Live => From(x) = {x}
        /\ y \in Live => From(x) = {x} \cup From(y) /\ x \notin From(y)
    BY <1>1, <2>2, <2>3, FromNext
  <2>7. r \in StreamTypes
    BY <1>3, <2>2, <2>4, <2>6 DEF StreamTypes
  <2>8. r.listIdx = y /\ r.seen = p.seen \cup {x} /\ r.owed = p.owed
    BY <1>3, <2>4 DEF StreamTypes
  <2>9. From(x) \cap p.seen = {} /\ p.owed \subseteq p.seen \cup From(x)
    BY <1>3, <2>1, <2>2 DEF StreamOK
  <2>10. StreamOK(r)
    BY <2>6, <2>8, <2>9, Distinct DEF StreamOK, Live
  <2> QED
    BY <1>3, <2>5, <2>7, <2>10, SetStreamKeeps
<1>7. CASE ReaddirFails(s)
  BY <1>1, <1>3, <1>7, LooksKeep DEF ReaddirFails, Fail
<1>8. CASE Rewinddir(s)
  <2>1. CASE dirp[s].list \in Ents
    <3>1. PICK x : x = p.list
      OBVIOUS
    <3>2. x \in Live
      BY <1>2, <1>3, <2>1, <3>1, Distinct DEF StreamTypes
    <3>3. PICK r : r = [p EXCEPT !.listIdx = x, !.fakeIdx = p.fake, !.seen = {}, !.owed = From(x)]
      OBVIOUS
    <3>4. SetStream(s, r) /\ UNCHANGED answer
      BY <1>2, <1>8, <2>1, <3>1, <3>3, Distinct DEF Rewinddir
    <3>5. From(x) \subseteq Live
      BY <1>1, <3>2, FromNext
    <3>6. r \in StreamTypes
      <4>1. PICK F : F = From(x)
        OBVIOUS
      <4>2. F \in SUBSET Live /\ p.fake \in {0, 2} /\ p.fake \in 0 .. 2
        BY <1>3, <3>5, <4>1 DEF StreamTypes
      <4>3. r = [p EXCEPT !.listIdx = x, !.fakeIdx = p.fake, !.seen = {}, !.owed = F]
        BY <3>3, <4>1
      <4> QED
        BY <1>3, <3>2, <4>2, <4>3 DEF StreamTypes
    <3>7. r.listIdx = x /\ r.seen = {} /\ r.owed = From(x)
      BY <1>3, <3>3 DEF StreamTypes
    <3>8. StreamOK(r)
      BY <3>2, <3>7, Distinct DEF StreamOK, Live
    <3> QED
      BY <1>3, <3>4, <3>6, <3>8, SetStreamKeeps
  <2>2. CASE dirp[s].list \notin Ents
    BY <1>1, <1>3, <1>8, <2>2, LooksKeep DEF Rewinddir, Fail
  <2> QED
    BY <2>1, <2>2
<1> QED
  BY <1>4, <1>5, <1>6, <1>7, <1>8 DEF Stream

-----------------------------------------------------------------------------
(* The calls on paths, and the invariant.                                  *)

(* An entity is made, and a handle may hold it.                            *)
LEMMA CreatesKeep ==
  ASSUME IInv, NEW p \in Paths, NEW type \in {"dir", "file"}, NEW h \in Handles \cup {Null},
         Find(p) = Null, IsDir(FindParent(p)), Create(FindParent(p), p, type), dirp' = dirp,
         \/ base' = base
         \/ \E e \in Ents : kind[e] # kind'[e] /\ h \in Handles /\ base' = [base EXCEPT ![h] = e]
  PROVE  IInv'
<1>1. PICK e \in Ents \ Live :
        /\ EntTypes' /\ IndexInv' /\ TreeInv'
        /\ Live' = Live \cup {e} /\ kind' = [kind EXCEPT ![e] = type]
        /\ \A x \in Live : FromIn(list', x) = FromIn(list, x)
  BY CreateKeeps
<1>2. StreamsInv'
  <2>1. EntTypes /\ StreamsInv /\ Live \subseteq Live'
    BY <1>1 DEF IInv
  <2> QED
    BY <1>1, <2>1, PointersKept
<1>3. HandlesInv'
  <2>1. \A f \in Ents : kind[f] # kind'[f] => f = e
    BY <1>1 DEF IInv, EntTypes
  <2> QED
    BY <1>1, <2>1 DEF IInv, HandlesInv
<1>4. answer' = "done" /\ fault' = fault
  BY DEF Create
<1> QED
  BY <1>1, <1>2, <1>3, <1>4 DEF IInv

(* A file is opened, and made if there is none.                            *)
LEMMA OpenKeeps ==
  ASSUME IInv, NEW p \in Paths, NEW h \in Handles, Open(h, p), fault = "none"
  PROVE  IInv'
<1>1. cwd \in Paths /\ answer \in {"done", "exists", "failed"} /\ EntTypes /\ IndexInv
  BY DEF IInv, EntTypes
<1>2. CASE OpenFound(h, p)
  <2>1. PICK e : e = Find(p)
    OBVIOUS
  <2>2. e \in Live
    BY <1>1, <1>2, <2>1, FindIs, Distinct DEF OpenFound
  <2> QED
    BY <1>2, <2>1, <2>2, SetHandleKeeps DEF OpenFound
<1>3. CASE Find(p) = Null /\ Answer("failed")
  BY <1>1, <1>3, LooksKeep DEF Answer
<1>4. CASE OpenCreates(h, p)
  <2>1. CASE CreatePanics
    BY <1>1, <2>1, LooksKeep DEF CreatePanics, Fail
  <2>2. CASE ~ CreatePanics
    BY <1>4, <2>2, CreatesKeep DEF OpenCreates
  <2> QED
    BY <2>1, <2>2
<1> QED
  BY <1>2, <1>3, <1>4 DEF Open

(* A directory is made.                                                    *)
LEMMA MkdirKeeps ==
  ASSUME IInv, NEW p \in Paths, Mkdir(p), fault = "none"
  PROVE  IInv'
<1>1. cwd \in Paths /\ answer \in {"done", "exists", "failed"} /\ EntTypes /\ IndexInv
  BY DEF IInv, EntTypes
<1>2. CASE Answer("exists") \/ Answer("failed")
  BY <1>1, <1>2, LooksKeep DEF Answer
<1>3. CASE MkdirCreates(p)
  <2>1. CASE CreatePanics
    BY <1>1, <2>1, LooksKeep DEF CreatePanics, Fail
  <2>2. CASE Create(FindParent(p), p, "dir") /\ UNCHANGED <<base, dirp>>
    BY <1>3, <2>2, CreatesKeep DEF MkdirCreates
  <2> QED
    BY <1>3, <2>1, <2>2 DEF MkdirCreates
<1> QED
  BY <1>2, <1>3 DEF Mkdir

(* One step per operation.                                                 *)
LEMMA StepKeeps == IInv /\ [Next]_vars => IInv'
<1> SUFFICES ASSUME IInv, [Next]_vars PROVE IInv'
  OBVIOUS
<1>1. /\ cwd \in Paths /\ answer \in {"done", "exists", "failed"} /\ EntTypes /\ IndexInv
      /\ fault \in {"none", "removed", "panic", "handle", "cursor", "confused", "garbage", "null",
                    "not a file"}
  BY DEF IInv, EntTypes
<1>2. CASE UNCHANGED vars
  BY <1>1, <1>2, LooksKeep DEF vars
<1>3. ASSUME NEW r \in Requests, Len(Expand(r)) <= MaxDepth, NEW p, p = Expand(r), fault = "none",
             \/ Mkdir(p) \/ Chdir(p) \/ Rename(r) \/ Removed(p) \/ Confused(p)
             \/ \E h \in Handles : Open(h, p)
             \/ \E dirOnly \in BOOLEAN : Unlink(p, dirOnly)
             \/ \E s \in Streams : Opendir(s, p)
      PROVE  IInv'
  <2>1. p \in Paths
    BY <1>1, <1>3, RequestIs
  <2>2. CASE Mkdir(p)
    BY <1>3, <2>1, <2>2, MkdirKeeps
  <2>3. CASE Chdir(p)
    BY <1>1, <2>1, <2>3, LooksKeep DEF Chdir
  <2>4. CASE Rename(r)
    BY <1>1, <2>4, LooksKeep DEF Rename, Answer
  <2>5. CASE Removed(p) \/ Confused(p)
    BY <1>1, <2>5, LooksKeep DEF Removed, Confused, Fail
  <2>6. ASSUME NEW h \in Handles, Open(h, p) PROVE IInv'
    BY <1>3, <2>1, <2>6, OpenKeeps
  <2>7. ASSUME NEW dirOnly \in BOOLEAN, Unlink(p, dirOnly) PROVE IInv'
    <3>1. CASE UnlinkRemoves(p, dirOnly)
      <4>1. EntTypes' /\ IndexInv' /\ TreeInv' /\ HandlesInv' /\ StreamsInv'
        BY <2>1, <3>1, UnlinkKeeps
      <4>2. answer' = "done" /\ fault' = fault
        BY <3>1 DEF UnlinkRemoves, FreeEnts
      <4> QED
        BY <1>1, <4>1, <4>2 DEF IInv
    <3>2. CASE Answer("failed") \/ Fail("garbage")
      BY <1>1, <3>2, LooksKeep DEF Answer, Fail
    <3> QED
      BY <2>7, <3>1, <3>2 DEF Unlink, UnlinkUnwritten
  <2>8. ASSUME NEW s \in Streams, Opendir(s, p) PROVE IInv'
    <3>1. CASE OpendirFinds(s, p)
      BY <3>1, OpendirKeeps
    <3>2. CASE Answer("failed")
      BY <1>1, <3>2, LooksKeep DEF Answer
    <3> QED
      BY <2>8, <3>1, <3>2 DEF Opendir
  <2> QED
    BY <1>3, <2>2, <2>3, <2>4, <2>5, <2>6, <2>7, <2>8
<1>4. ASSUME NEW h \in Handles, Close(h) PROVE IInv'
  BY <1>1, <1>4, SetHandleKeeps DEF Close
<1>5. ASSUME NEW h \in Handles, Transfer(h) PROVE IInv'
  BY <1>1, <1>5, LooksKeep DEF Transfer, Fail
<1>6. ASSUME NEW s \in Streams, Stream(s), fault = "none" PROVE IInv'
  BY <1>6, StreamKeeps
<1>7. CASE Reset
  <2>1. CASE ResetFrees
    <3>1. EntTypes' /\ IndexInv' /\ TreeInv' /\ HandlesInv' /\ StreamsInv'
      BY <2>1, ResetKeeps
    <3>2. answer' = "done" /\ fault' = fault
      BY <2>1 DEF ResetFrees, FreeEnts
    <3> QED
      BY <1>1, <3>1, <3>2 DEF IInv
  <2>2. CASE Fail("garbage")
    BY <1>1, <2>2, LooksKeep DEF Fail
  <2> QED
    BY <1>7, <2>1, <2>2 DEF Reset
<1> QED
  BY <1>2, <1>3, <1>4, <1>5, <1>6, <1>7 DEF Next

(* The path table, the lists and the kept pointers fit together.           *)
THEOREM FileSystemInvariance == Spec => []IInv
<1>1. Init => IInv
  BY InitInv
<1>2. IInv /\ [Next]_vars => IInv'
  BY StepKeeps
<1> QED
  BY <1>1, <1>2, PTL DEF Spec

-----------------------------------------------------------------------------
(* What the invariant says of the tree and of the streams.                 *)

(* The values have their types.                                            *)
LEMMA TypesHold ==
  ASSUME IInv
  PROVE  TypeOK
<1>1. base \in [Handles -> Ents \cup {Dangling, Null}]
  BY DEF IInv, HandlesInv, Live
<1>2. \A s \in Streams :
        dirp[s] \in [open : BOOLEAN, list : Ents \cup {Null, Dangling, Garbage},
                     listIdx : Ents \cup {Null, Dangling, Garbage},
                     fake : {0, 2}, fakeIdx : 0 .. 2, seen : SUBSET Ents, owed : SUBSET Ents]
  <2> TAKE s \in Streams
  <2>1. dirp[s] \in StreamTypes /\ Live \in SUBSET Ents
    BY DEF IInv, StreamsInv, Live
  <2> QED
    BY <2>1 DEF StreamTypes
<1>3. dirp \in [Streams -> StreamTypes]
  BY DEF IInv, StreamsInv
<1> QED
  BY <1>1, <1>2, <1>3 DEF IInv, EntTypes, TypeOK

(* The paths in the index are those of the tree.                           *)
LEMMA IndexHolds ==
  ASSUME IInv
  PROVE  IndexIsTree
<1>1. EntTypes /\ IndexInv /\ TreeInv
  BY DEF IInv
<1>2. ASSUME NEW e \in Live
      PROVE  Find(text[key[e]]) = e /\ \A k \in Keys : index[k] = e => k = key[e]
  BY <1>1, FindLive DEF PathOf, IndexInv, Live
<1>3. ASSUME NEW d \in Dirs, NEW e \in Ents
      PROVE  Cardinality({i \in DOMAIN list[d] : list[d][i] = e})
               = IF e \in Live /\ FindParent(text[key[e]]) = d THEN 1 ELSE 0
  <2>1. Lists(list[d], Children(d))
    BY <1>1 DEF TreeInv
  <2>2. e \in Children(d) <=> e \in Live /\ FindParent(text[key[e]]) = d
    BY DEF Children, PathOf
  <2>3. CASE e \in Children(d)
    <3>1. PICK i \in DOMAIN list[d] : list[d][i] = e
      BY <2>1, <2>3 DEF Lists
    <3>2. {j \in DOMAIN list[d] : list[d][j] = e} = {i}
      BY <2>1, <3>1 DEF Lists
    <3> QED
      BY <2>2, <2>3, <3>2, FS_Singleton
  <2>4. CASE e \notin Children(d)
    <3>1. \A j \in DOMAIN list[d] : list[d][j] \in Children(d)
      BY <2>1, ElementOfSeq DEF Lists
    <3>2. {j \in DOMAIN list[d] : list[d][j] = e} = {}
      BY <2>4, <3>1
    <3> QED
      BY <2>2, <2>4, <3>2, FS_EmptySet
  <2> QED
    BY <2>3, <2>4
<1> QED
  BY <1>2, <1>3, TypesHold DEF IndexIsTree

(* A stream returns what it owes, or comes by it.                          *)
LEMMA StreamHolds ==
  ASSUME IInv
  PROVE  StreamExact
<1> SUFFICES ASSUME NEW s \in Streams
             PROVE  /\ dirp[s].listIdx \in Ents => From(dirp[s].listIdx) \cap dirp[s].seen = {}
                    /\ dirp[s].listIdx = Null => dirp[s].owed \subseteq dirp[s].seen
  BY DEF StreamExact
<1>1. PICK p : p = dirp[s]
  OBVIOUS
<1>2. p \in StreamTypes /\ StreamOK(p)
  BY <1>1 DEF IInv, StreamsInv
<1>3. p.listIdx \in Ents => p.listIdx \in Live
  BY <1>2, Distinct DEF StreamTypes
<1> QED
  BY <1>1, <1>2, <1>3 DEF StreamOK

(* A live entity is found by its own path and by no other, and is listed   *)
(* once, in the directory its path leads to; nothing else is listed        *)
(* (createEnt, fsystemUnlink, fsystemReset).                               *)
THEOREM PathsAreATree == Spec => []IndexIsTree
<1>1. Spec => []IInv
  BY FileSystemInvariance
<1>2. IInv => IndexIsTree
  BY IndexHolds
<1> QED
  BY <1>1, <1>2, PTL

(* fsystemReset, which walks the lists from the root, comes by every       *)
(* entity there is.                                                        *)
THEOREM ResetFreesAll == Spec => []NothingLost
<1>1. Spec => []IInv
  BY FileSystemInvariance
<1>2. IInv => NothingLost
  BY AllReached DEF IInv, NothingLost
<1> QED
  BY <1>1, <1>2, PTL

(* Whatever is created and removed meanwhile, readdir returns no entity    *)
(* twice, and at the end has returned all that stayed.                     *)
THEOREM StreamsAreExact == Spec => []StreamExact
<1>1. Spec => []IInv
  BY FileSystemInvariance
<1>2. IInv => StreamExact
  BY StreamHolds
<1> QED
  BY <1>1, <1>2, PTL

-----------------------------------------------------------------------------
(* The entities as a tree of directories and files.                        *)

Tree == [p \in {PathOf(e) : e \in Live} |-> kind[EntAt(p)]]

(* The tree, in terms of the lookups. *)
LEMMA TreeIs ==
  ASSUME EntTypes, IndexInv, TreeInv
  PROVE  /\ DOMAIN Tree = {PathOf(e) : e \in Live}
         /\ \A e \in Live : Tree[PathOf(e)] = kind[e]
         /\ \A p : p \in DOMAIN Tree <=> Find(p) \in Live
         /\ \A p : T!IsDir(p) <=> IsDir(FindDir(p))
         /\ \A p : T!Parent(p) = Parent(p)
<1>1. DOMAIN Tree = {PathOf(e) : e \in Live}
  BY DEF Tree
<1>2. ASSUME NEW e \in Live PROVE Tree[PathOf(e)] = kind[e]
  <2>1. \A f \in Live : PathOf(f) = PathOf(e) => f = e
    BY FindLive
  <2>2. EntAt(PathOf(e)) = e
    BY <2>1 DEF EntAt
  <2> QED
    BY <2>2 DEF Tree
<1>3. ASSUME NEW p PROVE p \in DOMAIN Tree <=> Find(p) \in Live
  BY <1>1, FindLive, FindIs
<1>4. ASSUME NEW p PROVE T!IsDir(p) <=> IsDir(FindDir(p))
  <2>1. T!IsDir(p) <=> p = <<>> \/ (p \in DOMAIN Tree /\ Tree[p] = "dir")
    BY DEF T!IsDir, Tree
  <2>2. CASE p = <<>>
    BY <2>1, <2>2 DEF IsDir, FindDir
  <2>3. CASE p # <<>> /\ Find(p) \in Live
    <3>1. Tree[p] = kind[Find(p)]
      BY <1>2, <2>3, FindIs
    <3> QED
      BY <1>3, <2>1, <2>3, <3>1, Distinct DEF IsDir, FindDir, Live
  <2>4. CASE p # <<>> /\ Find(p) \notin Live
    <3>1. Find(p) \in {Dangling, Null}
      BY <2>4, FindIs
    <3> QED
      BY <1>3, <2>1, <2>4, <3>1, Distinct DEF IsDir, FindDir
  <2> QED
    BY <2>2, <2>3, <2>4
<1>5. \A p : T!Parent(p) = Parent(p)
  BY DEF T!Parent, Parent
<1> QED
  BY <1>1, <1>2, <1>3, <1>4, <1>5

TreeFact ==
  /\ DOMAIN Tree = {PathOf(e) : e \in Live}
  /\ \A e \in Live : Tree[PathOf(e)] = kind[e]

(* What a path leads to, in the tree and in the index.                     *)
LEMMA TreeTells == EntTypes /\ IndexInv /\ TreeInv => TreeFact
BY TreeIs DEF TreeFact

(* The tree is empty at first. *)
LEMMA NoTree == Live = {} => Tree = <<>>
<1> SUFFICES ASSUME Live = {} PROVE Tree = <<>>
  OBVIOUS
<1>1. DOMAIN Tree = {} /\ Tree = [p \in {} |-> kind[EntAt(p)]]
  BY DEF Tree
<1>2. DOMAIN <<>> = {} /\ <<>> = [i \in 1 .. Len(<<>>) |-> <<>>[i]]
  BY EmptySeq, LenProperties
<1> QED
  BY <1>1, <1>2

(* The tree depends on the entities alone.                                 *)
LEMMA TreeStays ==
  ASSUME IInv, UNCHANGED entities
  PROVE  Tree' = Tree
BY DEF entities, Tree, EntAt, PathOf, Live

(* An entity comes to the tree. *)
LEMMA TreeGrows ==
  ASSUME IInv, NEW p \in Paths, NEW type \in {"dir", "file"},
         Find(p) = Null, IsDir(FindParent(p)), Create(FindParent(p), p, type)
  PROVE  T!Add(p, type)
<1>1. EntTypes /\ IndexInv /\ TreeInv
  BY DEF IInv
<1>2. PICK e \in Ents \ Live :
        /\ EntTypes' /\ IndexInv' /\ TreeInv'
        /\ Live' = Live \cup {e} /\ kind' = [kind EXCEPT ![e] = type]
        /\ PathOf(e)' = p /\ \A f \in Live : PathOf(f)' = PathOf(f)
  BY CreateKeeps
<1>3. DOMAIN Tree = {PathOf(f) : f \in Live} /\ \A f \in Live : Tree[PathOf(f)] = kind[f]
  BY <1>1, TreeIs
<1>4. TreeFact'
  <2>1. (EntTypes /\ IndexInv /\ TreeInv)'
    BY <1>2
  <2> QED
    BY <2>1, TreeTells, PTL
<1>5. /\ DOMAIN Tree' = {PathOf(f)' : f \in Live'}
      /\ \A f \in Live' : Tree'[PathOf(f)'] = kind'[f]
  BY <1>4 DEF TreeFact
<1>6. Tree' = [q \in DOMAIN Tree \cup {p} |-> IF q = p THEN type ELSE Tree[q]]
  <2>1. DOMAIN Tree' = DOMAIN Tree \cup {p}
    BY <1>2, <1>3, <1>5
  <2>2. Tree'[p] = type
    BY <1>1, <1>2, <1>5 DEF EntTypes
  <2>3. ASSUME NEW q \in DOMAIN Tree, q # p PROVE Tree'[q] = Tree[q]
    <3>1. PICK f \in Live : q = PathOf(f)
      BY <1>3, <2>3
    <3>2. f # e /\ f \in Ents
      BY <1>2, <3>1 DEF Live
    <3> QED
      BY <1>1, <1>2, <1>3, <1>5, <3>1, <3>2 DEF EntTypes
  <2>4. Tree' = [q \in DOMAIN Tree' |-> Tree'[q]]
    BY DEF Tree
  <2> QED
    BY <2>1, <2>2, <2>3, <2>4
<1>7. p # <<>> /\ p \notin DOMAIN Tree /\ T!IsDir(T!Parent(p)) /\ answer' = "done"
  <2>1. p # <<>> /\ FindParent(p) = FindDir(Parent(p))
    BY <1>1, FindParentIs DEF FindParent
  <2> QED
    BY <1>1, <2>1, TreeIs, Distinct DEF Create, Live
<1> QED
  BY <1>6, <1>7 DEF T!Add, T!With, Tree

(* An entity that nothing is in leaves the tree. *)
LEMMA TreeShrinks ==
  ASSUME IInv, NEW p \in Paths, NEW dirOnly, UnlinkRemoves(p, dirOnly)
  PROVE  T!Remove(p)
<1>1. EntTypes /\ IndexInv /\ TreeInv
  BY DEF IInv
<1>2. PICK e \in Live : e = Find(p) /\ FreeEnts({e}) /\ Children(e) = {} /\ PathOf(e) = p
  BY <1>1, UnlinkKeeps, FindIs
<1>3. DOMAIN Tree = {PathOf(f) : f \in Live} /\ \A f \in Live : Tree[PathOf(f)] = kind[f]
  BY <1>1, TreeIs
<1>4. (EntTypes /\ IndexInv /\ TreeInv)'
  BY UnlinkKeeps
<1>5. TreeFact'
  BY <1>4, TreeTells, PTL
<1>6. /\ DOMAIN Tree' = {PathOf(f)' : f \in Live'}
      /\ \A f \in Live' : Tree'[PathOf(f)'] = kind'[f]
  BY <1>5 DEF TreeFact
<1>7. Live' = Live \ {e} /\ \A f \in Live \ {e} : PathOf(f)' = PathOf(f) /\ kind'[f] = kind[f]
  BY <1>1, <1>2, FreedIndex
<1>8. \A f \in Live : PathOf(f) = p => f = e
  BY <1>1, <1>2, FindLive
<1>9. Tree' = [q \in DOMAIN Tree \ {p} |-> Tree[q]]
  <2>1. DOMAIN Tree' = DOMAIN Tree \ {p}
    BY <1>2, <1>3, <1>6, <1>7, <1>8
  <2>2. \A q \in DOMAIN Tree \ {p} : Tree'[q] = Tree[q]
    BY <1>2, <1>3, <1>6, <1>7
  <2>3. Tree' = [q \in DOMAIN Tree' |-> Tree'[q]]
    BY DEF Tree
  <2> QED
    BY <2>1, <2>2, <2>3
<1>10. p \in DOMAIN Tree
  BY <1>2, <1>3
<1>11. ASSUME NEW q \in DOMAIN Tree, q # <<>> PROVE Parent(q) # p
  <2>1. PICK x \in Live : q = PathOf(x)
    BY <1>3, <1>11
  <2>2. p # <<>>
    BY <1>1, <1>2, FindParentIs DEF TreeInv
  <2>3. Parent(q) = p => FindParent(PathOf(x)) = e
    BY <1>2, <1>11, <2>1, <2>2 DEF FindParent, FindDir
  <2> QED
    BY <1>2, <2>1, <2>3 DEF Children
<1>12. T!Empty(p)
  BY <1>11 DEF T!Empty, T!Parent, Parent, Tree
<1>13. answer' = "done"
  BY DEF UnlinkRemoves
<1> QED
  BY <1>9, <1>10, <1>12, <1>13 DEF T!Remove, T!Without, Tree

(* All is freed: the tree is empty.                                        *)
LEMMA TreeGone ==
  ASSUME IInv, ResetFrees
  PROVE  T!Reset
<1>1. EntTypes /\ IndexInv /\ TreeInv
  BY DEF IInv
<1>2. Live \in SUBSET Live /\ FreeEnts(Live)
  BY ResetKeeps
<1>3. Live' = {}
  BY <1>1, <1>2, FreedIndex
<1>4. (Live = {} => Tree = <<>>)'
  BY NoTree, PTL
<1> QED
  BY <1>3, <1>4 DEF T!Reset, Tree, ResetFrees

(* Opening, and making a directory. *)
LEMMA OpenMaps ==
  ASSUME IInv, NEW p \in Paths, NEW h \in Handles, Open(h, p)
  PROVE  T!Open(p) \/ (Tree' = Tree /\ answer' = answer)
<1>1. EntTypes /\ IndexInv /\ TreeInv
  BY DEF IInv
<1>2. p \in DOMAIN Tree <=> Find(p) \in Live
  BY <1>1, TreeIs
<1>3. CASE OpenFound(h, p)
  <2>1. p \in DOMAIN Tree
    BY <1>1, <1>2, <1>3, FindIs, Distinct DEF OpenFound
  <2>2. Tree' = Tree /\ answer' = "done"
    BY <1>3, TreeStays DEF OpenFound
  <2> QED
    BY <2>1, <2>2 DEF T!Open, T!Answer, Tree
<1>4. CASE Find(p) = Null /\ Answer("failed")
  <2>1. p \notin DOMAIN Tree
    BY <1>2, <1>4, Distinct DEF Live
  <2>2. Tree' = Tree /\ answer' = "failed"
    BY <1>4, TreeStays DEF Answer
  <2> QED
    BY <2>1, <2>2 DEF T!Open, T!Answer, Tree
<1>5. CASE OpenCreates(h, p)
  <2>1. CASE CreatePanics
    BY <2>1, TreeStays DEF CreatePanics, Fail
  <2>2. CASE ~ CreatePanics
    <3>1. T!Add(p, "file")
      BY <1>5, <2>2, TreeGrows DEF OpenCreates
    <3> QED
      BY <3>1 DEF T!Open
  <2> QED
    BY <2>1, <2>2
<1> QED
  BY <1>3, <1>4, <1>5 DEF Open

(* mkdir makes a directory of the tree, or fails.                          *)
LEMMA MkdirMaps ==
  ASSUME IInv, NEW p \in Paths, Mkdir(p)
  PROVE  T!Mkdir(p) \/ (Tree' = Tree /\ answer' = answer)
<1>1. EntTypes /\ IndexInv /\ TreeInv
  BY DEF IInv
<1>2. /\ p \in DOMAIN Tree <=> Find(p) \in Live
      /\ T!IsDir(T!Parent(p)) <=> IsDir(FindDir(Parent(p)))
  BY <1>1, TreeIs
<1>3. CASE Find(p) \in Ents /\ Answer("exists")
  <2>1. p \in DOMAIN Tree
    BY <1>1, <1>2, <1>3, FindIs, Distinct
  <2>2. Tree' = Tree /\ answer' = "exists"
    BY <1>3, TreeStays DEF Answer
  <2> QED
    BY <2>1, <2>2 DEF T!Mkdir, T!Answer, Tree
<1>4. CASE Find(p) = Null /\ FindParent(p) = Null /\ Answer("failed")
  <2>1. p = <<>> \/ (p \notin DOMAIN Tree /\ ~ T!IsDir(T!Parent(p)))
    BY <1>2, <1>4, Distinct DEF FindParent, IsDir, Live
  <2>2. Tree' = Tree /\ answer' = "failed"
    BY <1>4, TreeStays DEF Answer
  <2>3. T!Refuse(p)
    BY <2>1, <2>2 DEF T!Refuse, T!Answer, Tree
  <2> QED
    BY <2>3 DEF T!Mkdir
<1>5. CASE MkdirCreates(p)
  <2>1. CASE CreatePanics
    BY <2>1, TreeStays DEF CreatePanics, Fail
  <2>2. CASE ~ CreatePanics
    <3>1. T!Add(p, "dir")
      BY <1>5, <2>2, TreeGrows DEF MkdirCreates
    <3> QED
      BY <3>1 DEF T!Mkdir
  <2> QED
    BY <2>1, <2>2
<1> QED
  BY <1>3, <1>4, <1>5 DEF Mkdir

(* Removing. *)
LEMMA UnlinkMaps ==
  ASSUME IInv, NEW p \in Paths, NEW dirOnly, Unlink(p, dirOnly)
  PROVE  T!Remove(p) \/ (Tree' = Tree /\ answer' = answer)
<1>1. EntTypes /\ IndexInv /\ TreeInv
  BY DEF IInv
<1>2. p \in DOMAIN Tree <=> Find(p) \in Live
  BY <1>1, TreeIs
<1>3. CASE UnlinkRefused(p, dirOnly) /\ Answer("failed")
  <2>1. Tree' = Tree /\ answer' = "failed"
    BY <1>3, TreeStays DEF Answer
  <2>2. p \notin DOMAIN Tree \/ Tree[p] = "file" \/ ~ T!Empty(p)
    <3>1. CASE Find(p) = Null
      BY <1>2, <3>1, Distinct DEF Live
    <3>2. CASE Find(p) \in Ents
      <4>1. PICK e \in Live : e = Find(p) /\ PathOf(e) = p
        BY <1>1, <3>2, FindIs, Distinct
      <4>2. Tree[p] = kind[e]
        BY <1>1, <4>1, TreeIs
      <4>3. CASE kind[e] = "dir" /\ list[e] # <<>>
        <5>1. Children(e) # {}
          BY <1>1, <4>1, <4>3, ListedIs DEF TreeInv, Dirs, Live
        <5>2. PICK x \in Live : FindParent(PathOf(x)) = e
          BY <5>1 DEF Children
        <5>3. PICK q : q = PathOf(x)
          OBVIOUS
        <5>4. q # <<>> /\ Parent(q) = p
          BY <1>1, <4>1, <5>2, <5>3, FindParentIs DEF TreeInv
        <5>5. q \in DOMAIN Tree
          BY <1>1, <5>3, TreeIs
        <5> QED
          BY <5>4, <5>5 DEF T!Empty, T!Parent, Parent, Tree
      <4>4. kind[e] = "file" \/ (kind[e] = "dir" /\ list[e] # <<>>)
        BY <1>3, <3>2, <4>1, Distinct DEF UnlinkRefused
      <4> QED
        BY <4>2, <4>3, <4>4
    <3> QED
      BY <1>3, <3>1, <3>2 DEF UnlinkRefused
  <2> QED
    BY <2>1, <2>2 DEF T!Remove, T!Answer, Tree
<1>4. CASE UnlinkRemoves(p, dirOnly)
  BY <1>4, TreeShrinks
<1>5. CASE UnlinkUnwritten(p)
  BY <1>5, TreeStays DEF UnlinkUnwritten, Fail
<1> QED
  BY <1>3, <1>4, <1>5 DEF Unlink

(* Looking for a directory, and for what to rename. *)
LEMMA OpendirMaps ==
  ASSUME IInv, NEW p \in Paths, NEW s \in Streams, Opendir(s, p)
  PROVE  T!Find(p)
<1>1. T!IsDir(p) <=> IsDir(FindDir(p))
  BY TreeIs DEF IInv
<1>2. Tree' = Tree
  BY TreeStays DEF Opendir, OpendirFinds, SetStream, Answer
<1>3. answer' = IF IsDir(FindDir(p)) THEN "done" ELSE "failed"
  BY Distinct DEF Opendir, OpendirFinds, Answer, IsDir
<1> QED
  BY <1>1, <1>2, <1>3 DEF T!Find, T!Answer, Tree

(* rename answers as that of the tree.                                     *)
LEMMA RenameMaps ==
  ASSUME IInv, NEW r \in Requests, NEW p, p = Expand(r), Rename(r)
  PROVE  T!Rename(p)
<1>1. EntTypes /\ IndexInv /\ TreeInv
  BY DEF IInv
<1>2. Tree' = Tree
  BY TreeStays DEF Rename, Answer
<1>3. answer' = "failed" \/ (answer' = "done" /\ Find(p) \in Ents)
  BY DEF Rename, Answer, Expand
<1>4. Find(p) \in Ents => p \in DOMAIN Tree
  BY <1>1, TreeIs, FindIs, Distinct
<1> QED
  BY <1>2, <1>3, <1>4 DEF T!Rename, T!Answer, Tree

(* Each operation is one of the tree.                                      *)
LEMMA StepMaps == IInv /\ [Next]_vars => [T!Next]_<<Tree, answer>>
<1> SUFFICES ASSUME IInv, [Next]_vars
             PROVE  T!Next \/ (Tree' = Tree /\ answer' = answer)
  OBVIOUS
<1>1. EntTypes /\ IndexInv /\ TreeInv
  BY DEF IInv
<1>2. CASE UNCHANGED vars
  BY <1>2, TreeStays DEF vars
<1>3. ASSUME NEW r \in Requests, Len(Expand(r)) <= MaxDepth, NEW p, p = Expand(r),
             \/ Mkdir(p) \/ Chdir(p) \/ Rename(r) \/ Removed(p) \/ Confused(p)
             \/ \E h \in Handles : Open(h, p)
             \/ \E dirOnly \in BOOLEAN : Unlink(p, dirOnly)
             \/ \E s \in Streams : Opendir(s, p)
      PROVE  T!Next \/ (Tree' = Tree /\ answer' = answer)
  <2>1. p \in Paths
    BY <1>1, <1>3, RequestIs
  <2>2. CASE Chdir(p) \/ Removed(p) \/ Confused(p)
    BY <2>2, TreeStays DEF Chdir, Removed, Confused, Fail
  <2>3. CASE Mkdir(p)
    BY <2>1, <2>3, MkdirMaps DEF T!Next
  <2>4. CASE Rename(r)
    BY <1>3, <2>1, <2>4, RenameMaps DEF T!Next
  <2>5. ASSUME NEW h \in Handles, Open(h, p)
        PROVE  T!Next \/ (Tree' = Tree /\ answer' = answer)
    BY <2>1, <2>5, OpenMaps DEF T!Next
  <2>6. ASSUME NEW dirOnly \in BOOLEAN, Unlink(p, dirOnly)
        PROVE  T!Next \/ (Tree' = Tree /\ answer' = answer)
    BY <2>1, <2>6, UnlinkMaps DEF T!Next
  <2>7. ASSUME NEW s \in Streams, Opendir(s, p) PROVE T!Next
    BY <2>1, <2>7, OpendirMaps DEF T!Next
  <2> QED
    BY <1>3, <2>2, <2>3, <2>4, <2>5, <2>6, <2>7
<1>4. ASSUME NEW h \in Handles, Close(h) \/ Transfer(h) PROVE Tree' = Tree /\ answer' = answer
  BY <1>4, TreeStays DEF Close, Transfer, Fail
<1>5. ASSUME NEW s \in Streams, Stream(s) PROVE Tree' = Tree /\ answer' = answer
  BY <1>5, TreeStays
     DEF Stream, Closedir, ReaddirFake, ReaddirEntity, ReaddirFails, Rewinddir, SetStream, Fail
<1>6. CASE Reset
  <2>1. CASE ResetFrees
    BY <2>1, TreeGone DEF T!Next
  <2>2. CASE Fail("garbage")
    BY <2>2, TreeStays DEF Fail
  <2> QED
    BY <1>6, <2>1, <2>2 DEF Reset
<1> QED
  BY <1>2, <1>3, <1>4, <1>5, <1>6 DEF Next

(* Until it faults, the file system does to its paths what a tree of       *)
(* directories and files does, and answers accordingly (fsystemMkdir,      *)
(* fsystemOpen, fsystemUnlink, fsystemRename, fsystemReset, opendir).      *)
THEOREM FileTreeRefinement == Spec => ImplementsFileTree
<1>1. Init => T!Init
  <2>1. Init => Live = {} /\ answer = "done"
    BY DEF Init, Live
  <2> QED
    BY <2>1, NoTree DEF T!Init, Tree
<1>2. IInv /\ [Next]_vars => [T!Next]_<<Tree, answer>>
  BY StepMaps
<1>3. Spec => []IInv
  BY FileSystemInvariance
<1> QED
  BY <1>1, <1>2, <1>3, PTL DEF Spec, ImplementsFileTree, T!Spec, Tree

-----------------------------------------------------------------------------
(* Files in memory.  First, what a quotient is.                            *)

(* A quotient is the only one with its remainder. *)
LEMMA DivUnique ==
  ASSUME NEW N \in Nat \ {0}, NEW i \in Int, NEW r \in 0 .. N - 1,
         NEW q \in Int, i = N * q + r
  PROVE  i \div N = q /\ i % N = r
<1>1. i % N = r
  BY ModUnique
<1>2. PICK d \in Int : d = i \div N /\ i = N * d + r
  BY <1>1, DivMod
<1>3. d = q
  <2>1. N * d = N * q
    BY <1>2
  <2> QED
    BY <2>1
<1> QED
  BY <1>1, <1>2, <1>3

(* One step further is one chunk further. *)
LEMMA TimesLess ==
  ASSUME NEW N \in Nat \ {0}, NEW a \in Int, NEW b \in Int, a < b
  PROVE  N * a + N <= N * b
<1>1. PICK d \in Nat : b = a + 1 + d
  <2>1. b - a - 1 \in Nat /\ b = a + 1 + (b - a - 1)
    OBVIOUS
  <2> QED
    BY <2>1
<1>2. N * b = N * a + N + N * d
  BY <1>1
<1>3. N * d \in Nat /\ N * a \in Int
  OBVIOUS
<1> QED
  BY <1>2, <1>3

-----------------------------------------------------------------------------
(* The chunks of a file in their order.                                    *)

(* The i-th of n chunks s, Null behind the last. *)
Seg(s, n, i) == IF i < n THEN s[i] ELSE Null

Now == [file |-> file, chunk |-> chunk]

MemfileTypes ==
  [opened : BOOLEAN, first : Chunks \cup {Null},
   endpoint : [offset : Nat, chunk : Chunks \cup {Null}],
   readpoint : [offset : Nat, chunk : Chunks \cup {Null}]]

(* s are the n chunks of the file: they are linked in this order, and each *)
(* but the last one is full.                                               *)
Laid(m, s, n) ==
  /\ m.file \in MemfileTypes
  /\ n \in Nat /\ s \in [0 .. n - 1 -> Chunks]
  /\ \A i, j \in 0 .. n - 1 : s[i] = s[j] => i = j
  /\ m.chunk \in [{s[i] : i \in 0 .. n - 1} -> [next : Chunks \cup {Null}, data : Seq(Bytes)]]
  /\ m.file.first = Seg(s, n, 0)
  /\ m.file.endpoint.chunk = IF n = 0 THEN Null ELSE s[n - 1]
  /\ \A i \in 0 .. n - 1 : m.chunk[s[i]].next = Seg(s, n, i + 1)
  /\ \A i \in 0 .. n - 1 : i # n - 1 => Len(m.chunk[s[i]].data) = ChunkSize
  /\ n = 0 => m.file.endpoint.offset = 0
  /\ n # 0 => /\ Len(m.chunk[s[n - 1]].data) \in 1 .. ChunkSize
              /\ m.file.endpoint.offset = ChunkSize * (n - 1) + Len(m.chunk[s[n - 1]].data)

(* c are the bytes in them. *)
Holds(m, s, n, c) ==
  /\ c \in Seq(Bytes) /\ Len(c) = m.file.endpoint.offset
  /\ \A i \in 0 .. n - 1 : \A j \in 1 .. Len(m.chunk[s[i]].data) :
       ChunkSize * i + j \in 1 .. Len(c) /\ c[ChunkSize * i + j] = m.chunk[s[i]].data[j]

(* The chunk of the read point. *)
ReadAt(m, s, n) ==
  LET r == m.file.readpoint IN
  /\ r.offset <= m.file.endpoint.offset
  /\ \/ r.chunk = Seg(s, n, r.offset \div ChunkSize)
     \/ r.chunk = Null /\ r.offset % ChunkSize = 0

Intact(m, s, n, c) ==
  Laid(m, s, n) /\ Holds(m, s, n, c) /\ ReadAt(m, s, n) /\ (m.file.opened \/ n = 0)

FileInv ==
  /\ got \in [is : {"done", "failed", "fault"}, data : Seq(Bytes)]
  /\ \E s, n, c : Intact(Now, s, n, c)

-----------------------------------------------------------------------------
(* Following the links.                                                    *)

IsWalk(g, c, n) ==
  g = [i \in 0 .. n |-> IF i = 0 THEN c ELSE IF g[i - 1] = Null THEN Null ELSE chunk[g[i - 1]].next]

(* k links further is k chunks further.                                    *)
LEMMA FollowIs ==
  ASSUME NEW s, NEW n, Laid(Now, s, n), NEW i \in Nat, NEW k \in Nat
  PROVE  Follow(Seg(s, n, i), k) = Seg(s, n, i + k)
<1> DEFINE c == Seg(s, n, i)
           g == [j \in 0 .. k |-> Seg(s, n, i + j)]
<1>1. n \in Nat /\ s \in [0 .. n - 1 -> Chunks] /\ Null \notin Chunks
  BY MemfileSizes DEF Laid
<1>2. \A j \in 0 .. n - 1 : chunk[s[j]].next = Seg(s, n, j + 1)
  BY DEF Laid, Now
<1>3. ASSUME NEW j \in Nat
      PROVE  Seg(s, n, j + 1) = IF Seg(s, n, j) = Null THEN Null ELSE chunk[Seg(s, n, j)].next
  <2>1. CASE j < n
    <3>1. j \in 0 .. n - 1 /\ Seg(s, n, j) = s[j] /\ s[j] # Null
      BY <1>1, <2>1 DEF Seg
    <3> QED
      BY <1>2, <3>1
  <2>2. CASE ~(j < n)
    BY <1>1, <2>2 DEF Seg
  <2> QED
    BY <2>1, <2>2
<1>4. IsWalk(g, c, k)
  <2>1. ASSUME NEW j \in 0 .. k
        PROVE  g[j] = IF j = 0 THEN c ELSE IF g[j - 1] = Null THEN Null ELSE chunk[g[j - 1]].next
    <3>1. CASE j = 0
      BY <3>1
    <3>2. CASE j # 0
      <4>1. PICK l \in Nat : l = i + (j - 1) /\ l + 1 = i + j /\ j - 1 \in 0 .. k
        BY <3>2
      <4>2. g[j] = Seg(s, n, l + 1) /\ g[j - 1] = Seg(s, n, l)
        BY <4>1
      <4> HIDE DEF g
      <4> QED
        BY <1>3, <3>2, <4>1, <4>2
    <3> QED
      BY <3>1, <3>2
  <2>2. g = [j \in 0 .. k |-> g[j]]
    OBVIOUS
  <2> HIDE DEF g
  <2> QED
    BY <2>1, <2>2 DEF IsWalk
<1>5. PICK f : f = CHOOSE f0 : IsWalk(f0, c, k)
  OBVIOUS
<1>6. IsWalk(f, c, k)
  BY <1>4, <1>5
<1>7. f[k] = g[k]
  <2> DEFINE P == {j \in Nat : j <= k => f[j] = g[j]}
  <2>1. 0 \in P
    <3>1. f[0] = c /\ g[0] = c
      <4>1. 0 \in 0 .. k
        OBVIOUS
      <4> HIDE DEF c, g
      <4> QED
        BY <1>4, <1>6, <4>1 DEF IsWalk
    <3> QED
      BY <3>1
  <2>2. ASSUME NEW j \in Nat, j \in P PROVE j + 1 \in P
    <3> SUFFICES ASSUME j + 1 <= k PROVE f[j + 1] = g[j + 1]
      BY <2>2
    <3>1. j + 1 \in 0 .. k /\ (j + 1) - 1 = j /\ f[j] = g[j] /\ j + 1 # 0
      BY <2>2
    <3> HIDE DEF c, g
    <3>2. f[j + 1] = IF f[j] = Null THEN Null ELSE chunk[f[j]].next
      BY <1>6, <3>1 DEF IsWalk
    <3>3. g[j + 1] = IF g[j] = Null THEN Null ELSE chunk[g[j]].next
      BY <1>4, <3>1 DEF IsWalk
    <3> QED
      BY <3>1, <3>2, <3>3
  <2> HIDE DEF P
  <2>3. k \in P
    BY <2>1, <2>2, NumberInduction
  <2> QED
    BY <2>3 DEF P
<1>8. g[k] = Seg(s, n, i + k)
  OBVIOUS
<1>9. Follow(c, k) = f[k]
  BY <1>5 DEF Follow, IsWalk
<1> QED
  BY <1>7, <1>8, <1>9

(* The chunk and the place in it of byte p, counted from 0. *)
LEMMA ByteIn ==
  ASSUME NEW m, NEW s, NEW n, NEW c, Laid(m, s, n), Holds(m, s, n, c),
         NEW p \in Nat, p < m.file.endpoint.offset
  PROVE  /\ p \div ChunkSize \in 0 .. n - 1 /\ p + 1 \in 1 .. Len(c)
         /\ (p % ChunkSize) + 1 \in 1 .. Len(m.chunk[s[p \div ChunkSize]].data)
         /\ c[p + 1] = m.chunk[s[p \div ChunkSize]].data[(p % ChunkSize) + 1]
<1>1. /\ ChunkSize \in Nat \ {0} /\ n \in Nat /\ m.file.endpoint.offset \in Nat
      /\ Len(c) = m.file.endpoint.offset
  BY MemfileSizes DEF Laid, MemfileTypes, Holds
<1>2. PICK q \in Int, r \in 0 .. ChunkSize - 1 :
        q = p \div ChunkSize /\ r = p % ChunkSize /\ p = ChunkSize * q + r
  <2>1. p \in Int
    OBVIOUS
  <2> QED
    BY <1>1, <2>1, DivMod, ModRange
<1>3. q >= 0
  <2> SUFFICES ASSUME q < 0 PROVE FALSE
    BY <1>2
  <2>1. ChunkSize * q + ChunkSize <= ChunkSize * 0
    BY <1>1, <1>2, TimesLess
  <2> QED
    BY <1>1, <1>2, <2>1
<1>4. n # 0
  BY <1>1 DEF Laid
<1>5. PICK l \in Int : l = n - 1 /\ l \in 0 .. n - 1
  BY <1>1, <1>4
<1>6. /\ Len(m.chunk[s[l]].data) \in 1 .. ChunkSize
      /\ m.file.endpoint.offset = ChunkSize * l + Len(m.chunk[s[l]].data)
  BY <1>4, <1>5 DEF Laid
<1>a. PICK b \in Int : b = ChunkSize * l
  BY <1>1, <1>5
<1>b. PICK a \in Int : a = ChunkSize * q
  BY <1>1, <1>2
<1>c. PICK e \in 1 .. ChunkSize : e = Len(m.chunk[s[l]].data)
  BY <1>6
<1>d. p = a + r /\ p < b + e
  BY <1>2, <1>6, <1>a, <1>b, <1>c
<1>7. q <= l
  <2> SUFFICES ASSUME l < q PROVE FALSE
    BY <1>2, <1>5
  <2>1. b + ChunkSize <= a
    BY <1>1, <1>2, <1>5, <1>a, <1>b, TimesLess
  <2> QED
    BY <1>1, <1>d, <2>1
<1>8. q \in 0 .. n - 1
  BY <1>1, <1>2, <1>3, <1>5, <1>7
<1>9. r + 1 \in 1 .. Len(m.chunk[s[q]].data)
  <2>1. CASE q = l
    <3>1. a = b
      BY <1>a, <1>b, <2>1
    <3>2. r + 1 \in 1 .. e
      BY <1>1, <1>d, <3>1
    <3> QED
      BY <1>c, <2>1, <3>2
  <2>2. CASE q # l
    <3>1. Len(m.chunk[s[q]].data) = ChunkSize
      BY <1>5, <1>8, <2>2 DEF Laid
    <3> QED
      BY <1>1, <1>2, <3>1
  <2> QED
    BY <2>1, <2>2
<1>10. PICK j \in 1 .. Len(m.chunk[s[q]].data) : j = r + 1
  BY <1>9
<1>11. ChunkSize * q + j \in 1 .. Len(c) /\ c[ChunkSize * q + j] = m.chunk[s[q]].data[j]
  BY <1>8, <1>10 DEF Holds
<1>12. ChunkSize * q + j = p + 1
  BY <1>10, <1>b, <1>d
<1> QED
  BY <1>2, <1>8, <1>10, <1>11, <1>12

(* The file's content is the bytes its chunks hold. *)
LEMMA ContentIs ==
  \A s, n, c : Laid(Now, s, n) /\ Holds(Now, s, n, c) => Content = c
<1> SUFFICES ASSUME NEW s, NEW n, NEW c, Laid(Now, s, n), Holds(Now, s, n, c)
             PROVE  Content = c
  OBVIOUS
<1>1. /\ ChunkSize \in Nat \ {0} /\ n \in Nat /\ file.endpoint.offset \in Nat
      /\ c \in Seq(Bytes) /\ Len(c) = file.endpoint.offset
  BY MemfileSizes DEF Laid, MemfileTypes, Holds, Now
<1>2. \A i \in Nat : Nth(i) = Seg(s, n, i)
  <2> TAKE i \in Nat
  <2>1. file.first = Seg(s, n, 0)
    BY DEF Laid, Now
  <2>2. Follow(Seg(s, n, 0), i) = Seg(s, n, 0 + i)
    BY FollowIs
  <2> QED
    BY <2>1, <2>2 DEF Nth
<1>3. ASSUME NEW i \in 1 .. file.endpoint.offset
      PROVE  chunk[Nth((i - 1) \div ChunkSize)].data[((i - 1) % ChunkSize) + 1] = c[i]
  <2>1. PICK p \in Nat : p = i - 1 /\ p < file.endpoint.offset /\ p + 1 = i
    BY <1>1
  <2>2. /\ p \div ChunkSize \in 0 .. n - 1
        /\ c[p + 1] = chunk[s[p \div ChunkSize]].data[(p % ChunkSize) + 1]
    <3>1. Now.file = file /\ Now.chunk = chunk
      BY DEF Now
    <3>2. /\ p \div ChunkSize \in 0 .. n - 1
          /\ c[p + 1] = Now.chunk[s[p \div ChunkSize]].data[(p % ChunkSize) + 1]
      BY <2>1, <3>1, ByteIn
    <3> QED
      BY <3>1, <3>2
  <2>3. Nth(p \div ChunkSize) = s[p \div ChunkSize]
    BY <1>1, <1>2, <2>2 DEF Seg
  <2> QED
    BY <2>1, <2>2, <2>3
<1>4. Content = [i \in 1 .. file.endpoint.offset |-> c[i]]
  BY <1>3 DEF Content
<1> QED
  BY <1>1, <1>4, LenProperties

-----------------------------------------------------------------------------
(* Appending a byte.                                                       *)

(* As many chunks are allocated as the file has. *)
LEMMA CountIs ==
  ASSUME NEW m, NEW s, NEW n, Laid(m, s, n)
  PROVE  IsFiniteSet(DOMAIN m.chunk) /\ Cardinality(DOMAIN m.chunk) = n
<1> DEFINE D == DOMAIN m.chunk
<1>0. n \in Nat /\ s \in [0 .. n - 1 -> Chunks] /\ D = {s[i] : i \in 0 .. n - 1}
  BY DEF Laid
<1>1. IsFiniteSet(0 .. n - 1) /\ Cardinality(0 .. n - 1) = n
  <2>1. PICK a \in Int, b \in Int : a = 0 /\ b = n - 1
    BY <1>0
  <2>2. IsFiniteSet(a .. b) /\ Cardinality(a .. b) = IF a > b THEN 0 ELSE b - a + 1
    BY FS_Interval
  <2> QED
    BY <1>0, <2>1, <2>2
<1>2. s \in Bijection(0 .. n - 1, D)
  <2>1. s \in [0 .. n - 1 -> D] /\ \A d \in D : \E i \in 0 .. n - 1 : s[i] = d
    BY <1>0
  <2>2. \A i, j \in 0 .. n - 1 : s[i] = s[j] => i = j
    BY DEF Laid
  <2> QED
    BY <2>1, <2>2 DEF Bijection, Injection, Surjection, IsInjective
<1> HIDE DEF D
<1>3. IsFiniteSet(D) /\ Cardinality(D) = n
  BY <1>1, <1>2, FS_Bijection DEF ExistsBijection
<1> QED
  BY <1>3 DEF D
(* There is a block for one more byte. *)
LEMMA BlockLeft ==
  ASSUME NEW m, NEW s, NEW n, Laid(m, s, n), m.file.endpoint.offset < MaxSize,
         n # 0 => m.file.endpoint.offset = ChunkSize * n
  PROVE  Chunks \ DOMAIN m.chunk # {}
<1>1. /\ ChunkSize \in Nat \ {0} /\ n \in Nat /\ m.file.endpoint.offset \in Nat
      /\ DOMAIN m.chunk = {s[i] : i \in 0 .. n - 1} /\ s \in [0 .. n - 1 -> Chunks]
      /\ MaxSize \in Nat
  BY MemfileSizes DEF Laid, MemfileTypes
<1>2. m.file.endpoint.offset = ChunkSize * n
  <2>1. n = 0 => ChunkSize * n = 0
    BY <1>1
  <2> QED
    BY <2>1 DEF Laid
<1> DEFINE D == DOMAIN m.chunk
<1>3. IsFiniteSet(D) /\ Cardinality(D) = n
  BY CountIs
<1>4. D \subseteq Chunks
  BY <1>1
<1> SUFFICES ASSUME Chunks = D PROVE FALSE
  BY <1>4
<1>5. MaxSize <= ChunkSize * n
  BY <1>3, MemfileSizes
<1> QED
  BY <1>1, <1>2, <1>5

(* s2 begins with the chunks of s, and the file is k bytes longer. *)
Longer(m, s, n, r, s2, n2, k) ==
  /\ n2 \in Nat /\ n <= n2 /\ \A i \in 0 .. n - 1 : s2[i] = s[i]
  /\ r.file.opened = m.file.opened /\ r.file.readpoint = m.file.readpoint
  /\ r.file.endpoint.offset = m.file.endpoint.offset + k

(* The byte goes into the last chunk. *)
LEMMA PutInLast ==
  ASSUME NEW m, NEW s, NEW n, NEW c, Laid(m, s, n), Holds(m, s, n, c), NEW b \in Bytes,
         m.file.endpoint.offset % ChunkSize # 0, NEW r, r = PutByte(m, b)
  PROVE  Laid(r, s, n) /\ Holds(r, s, n, Append(c, b)) /\ Longer(m, s, n, r, s, n, 1)
<1>0. PICK off : off = m.file.endpoint.offset
  OBVIOUS
<1>1. /\ ChunkSize \in Nat \ {0} /\ n \in Nat /\ off \in Nat /\ m.file \in MemfileTypes
      /\ s \in [0 .. n - 1 -> Chunks] /\ c \in Seq(Bytes) /\ Len(c) = off
      /\ \A i, j \in 0 .. n - 1 : s[i] = s[j] => i = j
      /\ m.chunk \in [{s[i] : i \in 0 .. n - 1} -> [next : Chunks \cup {Null}, data : Seq(Bytes)]]
  BY <1>0, MemfileSizes DEF Laid, MemfileTypes, Holds
<1>2. n # 0
  <2>1. 0 % ChunkSize = 0
    BY <1>1, ModSmall
  <2> QED
    BY <1>0, <2>1 DEF Laid
<1>3. PICK l \in 0 .. n - 1 : l = n - 1 /\ \A i \in 0 .. n - 1 : i # n - 1 => i < l
  BY <1>1, <1>2
<1>4. PICK d : d = m.chunk[s[l]].data
  OBVIOUS
<1>5. PICK a \in Int : a = ChunkSize * l
  BY <1>1, <1>3
<1>6. d \in Seq(Bytes) /\ Len(d) \in 1 .. ChunkSize /\ off = a + Len(d)
  BY <1>0, <1>1, <1>2, <1>3, <1>4, <1>5 DEF Laid
<1>7. Len(d) < ChunkSize
  <2> SUFFICES ASSUME Len(d) = ChunkSize PROVE FALSE
    BY <1>1, <1>6
  <2>1. PICK q \in Int : q = l + 1 /\ ChunkSize * q = a + ChunkSize
    BY <1>1, <1>3, <1>5
  <2>2. PICK z \in 0 .. ChunkSize - 1 : z = 0 /\ off = ChunkSize * q + z
    BY <1>1, <1>6, <2>1
  <2>3. off % ChunkSize = z
    <3>1. off \in Int /\ ChunkSize \in Nat \ {0}
      BY <1>1
    <3> QED
      BY <2>2, <3>1, ModUnique
  <2> QED
    BY <1>0, <2>2, <2>3
<1>8. PICK e : e = Append(d, b)
  OBVIOUS
<1>9. /\ e \in Seq(Bytes) /\ Len(e) = Len(d) + 1 /\ Len(d) \in Nat /\ e[Len(d) + 1] = b
      /\ \A j \in 1 .. Len(d) : e[j] = d[j]
  BY <1>6, <1>8
<1>10. PICK c2 : c2 = Append(c, b)
  OBVIOUS
<1>11. /\ c2 \in Seq(Bytes) /\ Len(c2) = off + 1 /\ c2[off + 1] = b
       /\ \A j \in 1 .. off : c2[j] = c[j]
  BY <1>1, <1>10
<1>12. m.file.endpoint.chunk = s[l] /\ m.file.first = Seg(s, n, 0)
  BY <1>1, <1>2, <1>3 DEF Laid
<1>13. /\ r.file = [m.file EXCEPT !.endpoint.offset = @ + 1]
       /\ r.chunk = [m.chunk EXCEPT ![s[l]].data = Append(@, b)]
  BY <1>12 DEF PutByte, InLast
<1>a. PICK p : p = m.file.endpoint
  OBVIOUS
<1>b. r.file = [m.file EXCEPT !.endpoint = [p EXCEPT !.offset = off + 1]]
  BY <1>0, <1>13, <1>a
<1>c. p \in [offset : Nat, chunk : Chunks \cup {Null}] /\ p.offset = off /\ p.chunk = s[l]
  BY <1>0, <1>1, <1>12, <1>a DEF MemfileTypes
<1>14. /\ r.file \in MemfileTypes /\ r.file.endpoint.offset = off + 1
       /\ r.file.endpoint.chunk = s[l] /\ r.file.first = m.file.first
       /\ r.file.opened = m.file.opened /\ r.file.readpoint = m.file.readpoint
  <2>1. PICK p2 : p2 = [p EXCEPT !.offset = off + 1]
    OBVIOUS
  <2>2. p2 \in [offset : Nat, chunk : Chunks \cup {Null}] /\ p2.offset = off + 1 /\ p2.chunk = s[l]
    BY <1>1, <1>c, <2>1
  <2>3. r.file = [m.file EXCEPT !.endpoint = p2]
    BY <1>b, <2>1
  <2> QED
    BY <1>1, <2>2, <2>3 DEF MemfileTypes
<1>15. /\ r.chunk[s[l]].next = m.chunk[s[l]].next /\ r.chunk[s[l]].data = e
       /\ \A i \in 0 .. n - 1 : i # l => r.chunk[s[i]] = m.chunk[s[i]]
       /\ r.chunk \in [{s[i] : i \in 0 .. n - 1} -> [next : Chunks \cup {Null}, data : Seq(Bytes)]]
  <2>1. PICK D : D = {s[i] : i \in 0 .. n - 1}
    OBVIOUS
  <2>2. s[l] \in D /\ m.chunk \in [D -> [next : Chunks \cup {Null}, data : Seq(Bytes)]]
    BY <1>1, <2>1
  <2>3. r.chunk = [m.chunk EXCEPT ![s[l]] = [m.chunk[s[l]] EXCEPT !.data = e]]
    BY <1>4, <1>8, <1>13, <2>2
  <2>4. /\ [m.chunk[s[l]] EXCEPT !.data = e] \in [next : Chunks \cup {Null}, data : Seq(Bytes)]
        /\ [m.chunk[s[l]] EXCEPT !.data = e].next = m.chunk[s[l]].next
        /\ [m.chunk[s[l]] EXCEPT !.data = e].data = e
    BY <1>9, <2>2
  <2>5. PICK v : v = [m.chunk[s[l]] EXCEPT !.data = e]
    OBVIOUS
  <2>6. r.chunk = [m.chunk EXCEPT ![s[l]] = v]
    BY <2>3, <2>5
  <2>7. \A i \in 0 .. n - 1 : i # l => s[i] \in D /\ s[i] # s[l]
    BY <1>1, <2>1
  <2> QED
    BY <2>1, <2>2, <2>4, <2>5, <2>6, <2>7
<1>16. Laid(r, s, n)
  <2>1. \A i \in 0 .. n - 1 : r.chunk[s[i]].next = Seg(s, n, i + 1)
    BY <1>15 DEF Laid
  <2>2. \A i \in 0 .. n - 1 : i # n - 1 => Len(r.chunk[s[i]].data) = ChunkSize
    BY <1>3, <1>15 DEF Laid
  <2>3. /\ Len(r.chunk[s[n - 1]].data) \in 1 .. ChunkSize
        /\ r.file.endpoint.offset = ChunkSize * (n - 1) + Len(r.chunk[s[n - 1]].data)
    <3>1. Len(r.chunk[s[n - 1]].data) = Len(d) + 1 /\ ChunkSize * (n - 1) = a
      BY <1>3, <1>5, <1>9, <1>15
    <3>2. Len(d) + 1 \in 1 .. ChunkSize /\ r.file.endpoint.offset = a + (Len(d) + 1)
      BY <1>1, <1>6, <1>7, <1>14
    <3> QED
      BY <3>1, <3>2
  <2> QED
    BY <1>1, <1>2, <1>3, <1>12, <1>14, <1>15, <2>1, <2>2, <2>3 DEF Laid
<1>17. Holds(r, s, n, c2)
  <2>1. ASSUME NEW i \in 0 .. n - 1, NEW j \in 1 .. Len(r.chunk[s[i]].data)
        PROVE  ChunkSize * i + j \in 1 .. Len(c2) /\ c2[ChunkSize * i + j] = r.chunk[s[i]].data[j]
    <3>1. CASE j \in 1 .. Len(m.chunk[s[i]].data)
      <4>1. ChunkSize * i + j \in 1 .. off /\ c[ChunkSize * i + j] = m.chunk[s[i]].data[j]
        <5>1. PICK w : w = m.chunk[s[i]].data
          OBVIOUS
        <5>2. ChunkSize * i + j \in 1 .. Len(c) /\ c[ChunkSize * i + j] = m.chunk[s[i]].data[j]
          BY <3>1 DEF Holds
        <5> QED
          BY <1>1, <5>2
      <4>2. r.chunk[s[i]].data[j] = m.chunk[s[i]].data[j]
        <5>1. CASE i = l
          BY <1>4, <1>9, <1>15, <3>1, <5>1
        <5>2. CASE i # l
          BY <1>15, <5>2
        <5> QED
          BY <5>1, <5>2
      <4>3. PICK k \in 1 .. off : k = ChunkSize * i + j
        BY <4>1
      <4>4. k \in 1 .. Len(c2) /\ c2[k] = c[k]
        BY <1>1, <1>11, <4>3
      <4> QED
        BY <4>1, <4>2, <4>3, <4>4
    <3>2. CASE j \notin 1 .. Len(m.chunk[s[i]].data)
      <4>1. i = l
        BY <1>15, <3>2
      <4>a. j \in 1 .. Len(e) /\ j \notin 1 .. Len(d)
        BY <1>4, <1>15, <3>2, <4>1
      <4>b. j = Len(d) + 1
        BY <1>9, <4>a
      <4>2. ChunkSize * i + j = off + 1
        BY <1>5, <1>6, <1>9, <4>1, <4>b
      <4> QED
        <5>1. r.chunk[s[i]].data[j] = b
          BY <1>9, <1>15, <4>1, <4>b
        <5>2. off + 1 \in 1 .. Len(c2)
          BY <1>1, <1>11
        <5> QED
          BY <1>11, <4>2, <5>1, <5>2
    <3> QED
      BY <3>1, <3>2
  <2> QED
    BY <1>11, <1>14, <2>1 DEF Holds
<1> QED
  BY <1>0, <1>1, <1>10, <1>14, <1>16, <1>17 DEF Longer

(* The byte goes into a new chunk. *)
LEMMA PutInNew ==
  ASSUME NEW m, NEW s, NEW n, NEW c, Laid(m, s, n), Holds(m, s, n, c), NEW b \in Bytes,
         m.file.endpoint.offset < MaxSize,
         m.file.endpoint.offset % ChunkSize = 0, NEW r, r = PutByte(m, b)
  PROVE  \E t : Laid(r, t, n + 1) /\ Holds(r, t, n + 1, Append(c, b)) /\ Longer(m, s, n, r, t, n + 1, 1)
<1>0. PICK off : off = m.file.endpoint.offset
  OBVIOUS
<1>1. /\ ChunkSize \in Nat \ {0} /\ n \in Nat /\ off \in Nat /\ m.file \in MemfileTypes
      /\ s \in [0 .. n - 1 -> Chunks] /\ c \in Seq(Bytes) /\ Len(c) = off
      /\ \A i, j \in 0 .. n - 1 : s[i] = s[j] => i = j
      /\ m.chunk \in [{s[i] : i \in 0 .. n - 1} -> [next : Chunks \cup {Null}, data : Seq(Bytes)]]
      /\ Null \notin Chunks
  BY <1>0, MemfileSizes DEF Laid, MemfileTypes, Holds
<1>2. off = ChunkSize * n /\ (n # 0 => Len(m.chunk[s[n - 1]].data) = ChunkSize)
  <2>1. CASE n = 0
    BY <1>0, <1>1, <2>1 DEF Laid
  <2>2. CASE n # 0
    <3>0. PICK l \in Int : l = n - 1
      BY <1>1
    <3>1. PICK e \in 1 .. ChunkSize :
            l = n - 1 /\ e = Len(m.chunk[s[n - 1]].data) /\ off = ChunkSize * l + e
      BY <1>0, <2>2, <3>0 DEF Laid
    <3>2. e = ChunkSize
      <4> SUFFICES ASSUME e # ChunkSize PROVE FALSE
        OBVIOUS
      <4>1. e \in 0 .. ChunkSize - 1
        BY <1>1
      <4>2. off % ChunkSize = e
        <5>1. off \in Int /\ ChunkSize \in Nat \ {0}
          BY <1>1
        <5> QED
          BY <3>0, <3>1, <4>1, <5>1, ModUnique
      <4> QED
        BY <1>0, <4>2
    <3>3. ChunkSize * n = ChunkSize * l + ChunkSize
      BY <1>1, <3>1
    <3> QED
      BY <3>1, <3>2, <3>3
  <2> QED
    BY <2>1, <2>2
<1>3. PICK a \in Int : a = ChunkSize * n
  BY <1>1
<1>4. PICK x : x = CHOOSE y \in Chunks \ DOMAIN m.chunk : TRUE
  OBVIOUS
<1>5. x \in Chunks /\ x \notin {s[i] : i \in 0 .. n - 1} /\ x # Null
  <2>1. Chunks \ DOMAIN m.chunk # {}
    BY <1>0, <1>2, BlockLeft
  <2>2. x \in Chunks \ DOMAIN m.chunk
    BY <1>4, <2>1
  <2> QED
    BY <1>1, <2>2
<1> DEFINE t == [i \in 0 .. n |-> IF i = n THEN x ELSE s[i]]
<1>6. /\ t \in [0 .. n -> Chunks] /\ t[n] = x /\ \A i \in 0 .. n - 1 : i \in 0 .. n /\ t[i] = s[i]
      /\ (n + 1) - 1 = n /\ \A i \in 0 .. n : i # n => i \in 0 .. n - 1
  BY <1>1, <1>5
<1> HIDE DEF t
<1>7. \A i, j \in 0 .. n : t[i] = t[j] => i = j
  BY <1>1, <1>5, <1>6
<1>8. {t[i] : i \in 0 .. n} = {s[i] : i \in 0 .. n - 1} \cup {x}
  BY <1>1, <1>6
<1>9. PICK c2 : c2 = Append(c, b)
  OBVIOUS
<1>10. /\ c2 \in Seq(Bytes) /\ Len(c2) = off + 1 /\ c2[off + 1] = b
       /\ \A j \in 1 .. off : c2[j] = c[j]
  BY <1>1, <1>9
<1>11. PICK v : v = [next |-> Null, data |-> <<b>>]
  OBVIOUS
<1>12. v \in [next : Chunks \cup {Null}, data : Seq(Bytes)] /\ v.next = Null /\ v.data = <<b>>
  BY <1>11
<1>13. PICK lc : lc = m.file.endpoint.chunk
  OBVIOUS
<1>14. lc = IF n = 0 THEN Null ELSE s[n - 1]
  BY <1>13 DEF Laid
<1>15. PICK old : old = IF lc = Null THEN m.chunk ELSE [m.chunk EXCEPT ![lc].next = x]
  OBVIOUS
<1>16. /\ r.file = [m.file EXCEPT !.endpoint = [offset |-> off + 1, chunk |-> x],
                                  !.first = IF lc = Null THEN x ELSE @]
       /\ r.chunk = [y \in DOMAIN old \cup {x} |-> IF y = x THEN v ELSE old[y]]
  <2>0. m.file.endpoint.offset % ChunkSize = 0 /\ r = PutByte(m, b)
    OBVIOUS
  <2>1. r = InNew(m, b, x)
    BY <1>4, <2>0 DEF PutByte
  <2> QED
    <3>1. r.file = [m.file EXCEPT !.endpoint = [offset |-> m.file.endpoint.offset + 1, chunk |-> x],
                                  !.first = IF m.file.endpoint.chunk = Null THEN x ELSE @]
      BY <2>1 DEF InNew
    <3>2. old = IF m.file.endpoint.chunk = Null THEN m.chunk
                ELSE [m.chunk EXCEPT ![m.file.endpoint.chunk].next = x]
      BY <1>13, <1>15
    <3>3. r.chunk = [y \in DOMAIN old \cup {x} |-> IF y = x THEN v ELSE old[y]]
      <4> DEFINE Linked == IF m.file.endpoint.chunk = Null THEN m.chunk
                           ELSE [m.chunk EXCEPT ![m.file.endpoint.chunk].next = x]
      <4>1. r.chunk = [y \in DOMAIN Linked \cup {x} |->
                         IF y = x THEN [next |-> Null, data |-> <<b>>] ELSE Linked[y]]
        BY <2>1 DEF InNew
      <4>2. old = Linked
        BY <3>2
      <4> HIDE DEF Linked
      <4> QED
        BY <1>11, <4>1, <4>2
    <3>4. r.file = [m.file EXCEPT !.endpoint = [offset |-> off + 1, chunk |-> x],
                                  !.first = IF lc = Null THEN x ELSE @]
      BY <1>0, <1>13, <3>1
    <3> QED
      BY <3>3, <3>4
<1>17. /\ r.file \in MemfileTypes /\ r.file.endpoint.offset = off + 1
       /\ r.file.endpoint.chunk = x /\ r.file.first = (IF lc = Null THEN x ELSE m.file.first)
       /\ r.file.opened = m.file.opened /\ r.file.readpoint = m.file.readpoint
  <2>1. PICK p : p = [offset |-> off + 1, chunk |-> x]
    OBVIOUS
  <2>2. PICK fst : fst = IF lc = Null THEN x ELSE m.file.first
    OBVIOUS
  <2>3. p \in [offset : Nat, chunk : Chunks \cup {Null}] /\ p.offset = off + 1 /\ p.chunk = x
    BY <1>1, <1>5, <2>1
  <2>4. fst \in Chunks \cup {Null}
    BY <1>1, <1>5, <2>2 DEF MemfileTypes
  <2>5. r.file = [m.file EXCEPT !.endpoint = p, !.first = fst]
    BY <1>16, <2>1, <2>2
  <2> QED
    BY <1>1, <2>2, <2>3, <2>4, <2>5 DEF MemfileTypes
<1>18. /\ old \in [{s[i] : i \in 0 .. n - 1} -> [next : Chunks \cup {Null}, data : Seq(Bytes)]]
       /\ \A i \in 0 .. n - 1 : /\ old[s[i]].data = m.chunk[s[i]].data
                                /\ old[s[i]].next = IF i = n - 1 THEN x ELSE m.chunk[s[i]].next
  <2>1. CASE n = 0
    BY <1>1, <1>14, <1>15, <2>1
  <2>2. CASE n # 0
    <3>1. PICK D : D = {s[i] : i \in 0 .. n - 1}
      OBVIOUS
    <3>2. /\ n - 1 \in 0 .. n - 1 /\ lc = s[n - 1] /\ lc \in D /\ lc # Null
          /\ m.chunk \in [D -> [next : Chunks \cup {Null}, data : Seq(Bytes)]]
      BY <1>1, <1>14, <2>2, <3>1
    <3>3. PICK w : w = [m.chunk[lc] EXCEPT !.next = x]
      OBVIOUS
    <3>4. /\ w \in [next : Chunks \cup {Null}, data : Seq(Bytes)]
          /\ w.next = x /\ w.data = m.chunk[lc].data
      BY <1>5, <3>2, <3>3
    <3>5. old = [m.chunk EXCEPT ![lc] = w]
      BY <1>15, <3>2, <3>3
    <3>6. \A i \in 0 .. n - 1 : s[i] \in D /\ (i # n - 1 => s[i] # lc)
      BY <1>1, <3>1, <3>2
    <3> QED
      BY <3>1, <3>2, <3>4, <3>5, <3>6
  <2> QED
    BY <2>1, <2>2
<1>19. /\ r.chunk \in [{t[i] : i \in 0 .. n} -> [next : Chunks \cup {Null}, data : Seq(Bytes)]]
       /\ r.chunk[x] = v /\ \A i \in 0 .. n - 1 : r.chunk[s[i]] = old[s[i]]
  <2>1. PICK D : D = {s[i] : i \in 0 .. n - 1}
    OBVIOUS
  <2>2. old \in [D -> [next : Chunks \cup {Null}, data : Seq(Bytes)]] /\ x \notin D
    BY <1>5, <1>18, <2>1
  <2>3. r.chunk = [y \in D \cup {x} |-> IF y \in D THEN old[y] ELSE v]
    BY <1>16, <2>2
  <2>4. \A i \in 0 .. n - 1 : s[i] \in D
    BY <2>1
  <2>5. r.chunk \in [D \cup {x} -> [next : Chunks \cup {Null}, data : Seq(Bytes)]]
    BY <1>12, <2>2, <2>3
  <2>6. r.chunk[x] = v /\ \A i \in 0 .. n - 1 : r.chunk[s[i]] = old[s[i]]
    BY <2>2, <2>3, <2>4
  <2> QED
    BY <1>8, <2>1, <2>5, <2>6
<1>20. Laid(r, t, n + 1)
  <2>1. ASSUME NEW i \in 0 .. n PROVE r.chunk[t[i]].next = Seg(t, n + 1, i + 1)
    <3>1. CASE i = n
      BY <1>1, <1>6, <1>12, <1>19, <3>1 DEF Seg
    <3>2. CASE i # n /\ i = n - 1
      BY <1>1, <1>6, <1>18, <1>19, <3>2, SMTT(30) DEF Seg
    <3>3. CASE i # n /\ i # n - 1
      <4>1. i \in 0 .. n - 1 /\ i + 1 \in 0 .. n - 1 /\ i + 1 < n /\ i + 1 < n + 1
        BY <1>1, <3>3
      <4>2. m.chunk[s[i]].next = s[i + 1]
        BY <4>1 DEF Laid, Seg
      <4> QED
        BY <1>6, <1>18, <1>19, <3>3, <4>1, <4>2 DEF Seg
    <3> QED
      BY <3>1, <3>2, <3>3
  <2>2. ASSUME NEW i \in 0 .. n, i # n PROVE Len(r.chunk[t[i]].data) = ChunkSize
    <3>1. i \in 0 .. n - 1 /\ r.chunk[t[i]].data = m.chunk[s[i]].data
      BY <1>6, <1>18, <1>19, <2>2
    <3>2. Len(m.chunk[s[i]].data) = ChunkSize
      BY <1>2, <3>1, SMTT(30) DEF Laid
    <3> QED
      BY <3>1, <3>2
  <2>3. /\ Len(r.chunk[t[n]].data) = 1 /\ 1 \in 1 .. ChunkSize
        /\ r.file.endpoint.offset = ChunkSize * n + Len(r.chunk[t[n]].data)
    <3>1. r.chunk[t[n]].data = <<b>>
      BY <1>6, <1>12, <1>19
    <3>2. Len(<<b>>) = 1
      OBVIOUS
    <3>3. Len(r.chunk[t[n]].data) = 1
      BY <3>1, <3>2
    <3> QED
      BY <1>1, <1>2, <1>17, <3>3
  <2>4. r.file.first = Seg(t, n + 1, 0)
    <3>1. CASE n = 0
      BY <1>1, <1>6, <1>14, <1>17, <3>1 DEF Seg
    <3>2. CASE n # 0
      <4>1. 0 \in 0 .. n - 1 /\ n - 1 \in 0 .. n - 1 /\ 0 < n /\ 0 < n + 1
        BY <1>1, <3>2
      <4>2. lc # Null /\ m.file.first = s[0]
        BY <1>1, <1>14, <3>2, <4>1 DEF Laid, Seg
      <4> QED
        BY <1>6, <1>17, <4>1, <4>2 DEF Seg
    <3> QED
      BY <3>1, <3>2
  <2>5. PICK k : k = n + 1 /\ k \in Nat /\ k # 0 /\ k - 1 = n
    BY <1>1
  <2>6. /\ k \in Nat /\ t \in [0 .. k - 1 -> Chunks]
        /\ \A i, j \in 0 .. k - 1 : t[i] = t[j] => i = j
        /\ r.chunk \in [{t[i] : i \in 0 .. k - 1} -> [next : Chunks \cup {Null}, data : Seq(Bytes)]]
    BY <1>6, <1>7, <1>19, <2>5
  <2>7. /\ r.file \in MemfileTypes /\ r.file.first = Seg(t, k, 0)
        /\ r.file.endpoint.chunk = t[k - 1] /\ k # 0
    BY <1>6, <1>17, <2>4, <2>5
  <2>8. /\ \A i \in 0 .. k - 1 : r.chunk[t[i]].next = Seg(t, k, i + 1)
        /\ \A i \in 0 .. k - 1 : i # k - 1 => Len(r.chunk[t[i]].data) = ChunkSize
    BY <2>1, <2>2, <2>5
  <2>9. /\ Len(r.chunk[t[k - 1]].data) \in 1 .. ChunkSize
        /\ r.file.endpoint.offset = ChunkSize * (k - 1) + Len(r.chunk[t[k - 1]].data)
    BY <2>3, <2>5
  <2>10. Laid(r, t, k)
    BY <2>6, <2>7, <2>8, <2>9 DEF Laid
  <2> QED
    BY <2>5, <2>10
<1>21. Holds(r, t, n + 1, c2)
  <2>1. ASSUME NEW i \in 0 .. n, NEW j \in 1 .. Len(r.chunk[t[i]].data)
        PROVE  ChunkSize * i + j \in 1 .. Len(c2) /\ c2[ChunkSize * i + j] = r.chunk[t[i]].data[j]
    <3>1. CASE i # n
      <4>1. i \in 0 .. n - 1 /\ r.chunk[t[i]].data = m.chunk[s[i]].data
        BY <1>6, <1>18, <1>19, <3>1
      <4>2. ChunkSize * i + j \in 1 .. off /\ c[ChunkSize * i + j] = m.chunk[s[i]].data[j]
        BY <1>1, <4>1 DEF Holds
      <4>3. PICK k \in 1 .. off : k = ChunkSize * i + j
        BY <4>2
      <4>4. k \in 1 .. Len(c2) /\ c2[k] = c[k]
        BY <1>1, <1>10, <4>3
      <4> QED
        BY <4>1, <4>2, <4>3, <4>4
    <3>2. CASE i = n
      <4>a. r.chunk[t[i]].data = <<b>> /\ Len(<<b>>) = 1
        BY <1>6, <1>12, <1>19, <3>2
      <4>b. Len(r.chunk[t[i]].data) = 1
        BY <4>a
      <4>1. r.chunk[t[i]].data = <<b>> /\ j = 1
        BY <4>a, <4>b
      <4>2. ChunkSize * i + j = off + 1 /\ <<b>>[1] = b
        BY <1>1, <1>2, <3>2, <4>1
      <4>3. off + 1 \in 1 .. Len(c2) /\ r.chunk[t[i]].data[j] = b
        BY <1>1, <1>10, <4>1, <4>2
      <4> QED
        BY <1>10, <4>2, <4>3
    <3> QED
      BY <3>1, <3>2
  <2>2. PICK k : k = n + 1 /\ k - 1 = n
    BY <1>1
  <2>3. Holds(r, t, k, c2)
    BY <1>10, <1>17, <2>1, <2>2 DEF Holds
  <2> QED
    BY <2>2, <2>3
<1>22. Longer(m, s, n, r, t, n + 1, 1)
  BY <1>0, <1>1, <1>6, <1>17 DEF Longer
<1> QED
  BY <1>9, <1>20, <1>21, <1>22

(* A byte is put where it belongs, if there may be memory for it. *)
LEMMA PutIs ==
  ASSUME NEW m, NEW s, NEW n, NEW c, Laid(m, s, n), Holds(m, s, n, c), NEW b \in Bytes,
         m.file.endpoint.offset < MaxSize, NEW r, r = PutByte(m, b)
  PROVE  \E t, l : Laid(r, t, l) /\ Holds(r, t, l, Append(c, b)) /\ Longer(m, s, n, r, t, l, 1)
<1>1. CASE m.file.endpoint.offset % ChunkSize = 0
  <2>1. \E t : Laid(r, t, n + 1) /\ Holds(r, t, n + 1, Append(c, b)) /\ Longer(m, s, n, r, t, n + 1, 1)
    BY <1>1, PutInNew
  <2> QED
    BY <2>1
<1>2. CASE m.file.endpoint.offset % ChunkSize # 0
  <2>1. Laid(r, s, n) /\ Holds(r, s, n, Append(c, b)) /\ Longer(m, s, n, r, s, n, 1)
    BY <1>2, PutInLast
  <2> QED
    BY <2>1
<1> QED
  BY <1>1, <1>2

-----------------------------------------------------------------------------
(* Appending several bytes.                                                *)

(* The first k of bytes bs behind those of c. *)
Joined(c, bs, k) == [i \in 1 .. Len(c) + k |-> IF i <= Len(c) THEN c[i] ELSE bs[i - Len(c)]]

(* The bytes of a concatenation.                                           *)
LEMMA ConcatIs ==
  ASSUME NEW c \in Seq(Bytes), NEW u \in Seq(Bytes)
  PROVE  c \o u = [i \in 1 .. Len(c) + Len(u) |-> IF i <= Len(c) THEN c[i] ELSE u[i - Len(c)]]
<1>1. PICK z : z = c \o u
  OBVIOUS
<1>2. /\ z \in Seq(Bytes) /\ Len(z) = Len(c) + Len(u) /\ Len(c) \in Nat /\ Len(u) \in Nat
      /\ \A i \in 1 .. Len(c) + Len(u) : z[i] = IF i <= Len(c) THEN c[i] ELSE u[i - Len(c)]
  BY <1>1, ConcatProperties
<1>3. z = [i \in 1 .. Len(c) + Len(u) |-> z[i]]
  BY <1>2, LenProperties
<1> QED
  BY <1>1, <1>2, <1>3

(* Contents c with the first k bytes of bs behind it.                      *)
LEMMA JoinedIs ==
  ASSUME NEW c \in Seq(Bytes), NEW bs \in Seq(Bytes), NEW k \in 0 .. Len(bs)
  PROVE  /\ Joined(c, bs, 0) = c /\ Joined(c, bs, k) \in Seq(Bytes)
         /\ Len(Joined(c, bs, k)) = Len(c) + k
         /\ k < Len(bs) => /\ bs[k + 1] \in Bytes
                           /\ Append(Joined(c, bs, k), bs[k + 1]) = Joined(c, bs, k + 1)
         /\ Joined(c, bs, k) = c \o SubSeq(bs, 1, k)
         /\ Joined(c, bs, Len(bs)) = c \o bs
<1>1. /\ Len(c) \in Nat /\ Len(bs) \in Nat /\ k \in Nat
      /\ c \in [1 .. Len(c) -> Bytes] /\ bs \in [1 .. Len(bs) -> Bytes]
  BY LenProperties
<1>2. PICK lc \in Nat, lb \in Nat : lc = Len(c) /\ lb = Len(bs)
  BY <1>1
<1>3. Joined(c, bs, 0) = c
  BY <1>1, <1>2 DEF Joined
<1>4. Joined(c, bs, k) \in [1 .. lc + k -> Bytes]
  <2> SUFFICES ASSUME NEW i \in 1 .. lc + k, ~(i <= lc) PROVE i - lc \in 1 .. lb
    BY <1>1, <1>2 DEF Joined
  <2> QED
    BY <1>1, <1>2
<1>5. Joined(c, bs, k) \in Seq(Bytes) /\ Len(Joined(c, bs, k)) = lc + k
  <2>1. lc + k \in Nat
    BY <1>1, <1>2
  <2> QED
    BY <1>4, <2>1
<1>6. ASSUME k < Len(bs)
      PROVE  /\ bs[k + 1] \in Bytes
             /\ Append(Joined(c, bs, k), bs[k + 1]) = Joined(c, bs, k + 1)
  <2>1. bs[k + 1] \in Bytes
    BY <1>1, <1>6
  <2>2. PICK a : a = Append(Joined(c, bs, k), bs[k + 1])
    OBVIOUS
  <2>3. PICK lk \in Nat : lk = lc + k /\ lk + 1 = lc + (k + 1) /\ k + 1 \in 1 .. lb
    BY <1>1, <1>2, <1>6
  <2>4. /\ a \in Seq(Bytes) /\ Len(a) = lk + 1 /\ a[lk + 1] = bs[k + 1]
        /\ \A i \in 1 .. lk : a[i] = Joined(c, bs, k)[i]
    BY <1>5, <2>1, <2>2, <2>3
  <2>5. a = [i \in 1 .. lk + 1 |-> a[i]]
    BY <2>4, LenProperties
  <2>6. ASSUME NEW i \in 1 .. lk + 1 PROVE a[i] = IF i <= lc THEN c[i] ELSE bs[i - lc]
    <3>1. CASE i = lk + 1
      BY <1>1, <1>2, <2>3, <2>4, <3>1
    <3>2. CASE i # lk + 1
      <4>1. i \in 1 .. lk
        BY <3>2
      <4> QED
        BY <1>2, <2>3, <2>4, <4>1 DEF Joined
    <3> QED
      BY <3>1, <3>2
  <2>7. a = Joined(c, bs, k + 1)
    BY <1>2, <2>3, <2>5, <2>6 DEF Joined
  <2> QED
    BY <2>1, <2>2, <2>7
<1>7. Joined(c, bs, k) = c \o SubSeq(bs, 1, k)
  <2>1. PICK u : u = SubSeq(bs, 1, k)
    OBVIOUS
  <2>2. u \in Seq(Bytes) /\ Len(u) = k /\ \A i \in 1 .. k : u[i] = bs[i]
    BY <1>1, <1>2, <2>1
  <2>3. c \o u = [i \in 1 .. lc + k |-> IF i <= lc THEN c[i] ELSE u[i - lc]]
    <3>1. c \o u = [i \in 1 .. Len(c) + Len(u) |-> IF i <= Len(c) THEN c[i] ELSE u[i - Len(c)]]
      BY <2>2, ConcatIs
    <3> QED
      BY <1>2, <2>2, <3>1
  <2>4. \A i \in 1 .. lc + k : ~(i <= lc) => i - lc \in 1 .. k
    BY <1>1, <1>2
  <2> QED
    BY <1>2, <2>1, <2>2, <2>3, <2>4 DEF Joined
<1>8. Joined(c, bs, Len(bs)) = c \o bs
  BY ConcatIs DEF Joined
<1> QED
  BY <1>2, <1>3, <1>5, <1>6, <1>7, <1>8

IsPut(f, bs, k) ==
  f = [i \in 0 .. k |-> IF i = 0 THEN Now ELSE PutByte(f[i - 1], bs[i])]

(* There is a function that puts one byte after the other. *)
LEMMA PutExists ==
  ASSUME NEW bs, NEW k \in Nat
  PROVE  \E f : IsPut(f, bs, k) /\ Written(bs, k) = f[k]
<1> DEFINE P == {j \in Nat : \E f : IsPut(f, bs, j)}
<1>1. 0 \in P
  <2>1. IsPut([i \in 0 .. 0 |-> Now], bs, 0)
    BY DEF IsPut
  <2> QED
    BY <2>1
<1>2. ASSUME NEW j \in Nat, j \in P PROVE j + 1 \in P
  <2>1. PICK f : IsPut(f, bs, j)
    BY <1>2
  <2> DEFINE g == [i \in 0 .. j + 1 |-> IF i = j + 1 THEN PutByte(f[j], bs[j + 1]) ELSE f[i]]
  <2>2. \A i \in 0 .. j : i \in 0 .. j + 1 /\ g[i] = f[i]
    OBVIOUS
  <2>3. ASSUME NEW i \in 0 .. j + 1
        PROVE  g[i] = IF i = 0 THEN Now ELSE PutByte(g[i - 1], bs[i])
    <3>1. CASE i = j + 1
      <4>1. i - 1 = j /\ i # 0 /\ g[j] = f[j]
        BY <2>2, <3>1
      <4>2. g[i] = PutByte(f[j], bs[i])
        BY <3>1
      <4> HIDE DEF g
      <4> QED
        BY <4>1, <4>2
    <3>2. CASE i # j + 1
      <4>1. i \in 0 .. j
        BY <3>2
      <4>2. f[i] = IF i = 0 THEN Now ELSE PutByte(f[i - 1], bs[i])
        BY <2>1, <4>1 DEF IsPut
      <4>3. i # 0 => i - 1 \in 0 .. j
        BY <4>1
      <4> HIDE DEF g
      <4> QED
        BY <2>2, <4>1, <4>2, <4>3
    <3> QED
      BY <3>1, <3>2
  <2>4. g = [i \in 0 .. j + 1 |-> g[i]]
    OBVIOUS
  <2> HIDE DEF g
  <2>5. IsPut(g, bs, j + 1)
    BY <2>3, <2>4 DEF IsPut
  <2> QED
    BY <2>5
<1> HIDE DEF P
<1>3. k \in P
  BY <1>1, <1>2, NumberInduction
<1>4. PICK f : f = CHOOSE f0 : IsPut(f0, bs, k)
  OBVIOUS
<1>5. IsPut(f, bs, k)
  BY <1>3, <1>4 DEF P
<1>6. Written(bs, k) = f[k]
  BY <1>4 DEF Written, IsPut, Now
<1> QED
  BY <1>5, <1>6

(* Each of the bytes written is put behind the one before. *)
LEMMA WriteIs ==
  ASSUME NEW s, NEW n, NEW c, Laid(Now, s, n), Holds(Now, s, n, c), NEW bs \in Seq(Bytes),
         file.endpoint.offset + Len(bs) <= MaxSize, NEW k \in 0 .. Len(bs)
  PROVE  \E r, t, l : /\ r = Written(bs, k) /\ Laid(r, t, l) /\ Holds(r, t, l, Joined(c, bs, k))
                      /\ Longer(Now, s, n, r, t, l, k)
<1>1. /\ c \in Seq(Bytes) /\ Len(bs) \in Nat /\ file.endpoint.offset \in Nat
      /\ MaxSize \in Nat /\ n \in Nat /\ k \in Nat /\ Now.file = file
  BY MemfileSizes DEF Laid, Holds, MemfileTypes, Now
<1>2. PICK f : IsPut(f, bs, k) /\ Written(bs, k) = f[k]
  BY <1>1, PutExists
<1> DEFINE At(j, t, l) == /\ Laid(f[j], t, l) /\ Holds(f[j], t, l, Joined(c, bs, j))
                          /\ Longer(Now, s, n, f[j], t, l, j)
           P == {j \in Nat : j <= k => \E t, l : At(j, t, l)}
<1>3. 0 \in P
  <2>1. f[0] = Now
    BY <1>1, <1>2 DEF IsPut
  <2>2. Joined(c, bs, 0) = c
    <3>1. PICK z \in 0 .. Len(bs) : z = 0
      BY <1>1
    <3> QED
      BY <1>1, <3>1, JoinedIs
  <2>3. Longer(Now, s, n, Now, s, n, 0)
    BY <1>1 DEF Longer
  <2>4. At(0, s, n)
    BY <2>1, <2>2, <2>3
  <2> QED
    BY <2>4
<1>4. ASSUME NEW j \in Nat, j \in P PROVE j + 1 \in P
  <2> SUFFICES ASSUME j + 1 <= k PROVE \E t, l : At(j + 1, t, l)
    OBVIOUS
  <2>1. PICK t, l : At(j, t, l)
    BY <1>1, <1>4
  <2>2. PICK m, r : m = f[j] /\ r = f[j + 1]
    OBVIOUS
  <2>3. r = PutByte(m, bs[j + 1])
    <3>1. j + 1 \in 0 .. k /\ j + 1 # 0 /\ (j + 1) - 1 = j
      BY <1>1
    <3> QED
      BY <1>2, <2>2, <3>1 DEF IsPut
  <2>4. PICK c2 : c2 = Joined(c, bs, j)
    OBVIOUS
  <2>5. Laid(m, t, l) /\ Holds(m, t, l, c2) /\ Longer(Now, s, n, m, t, l, j)
    BY <2>1, <2>2, <2>4
  <2>6. m.file.endpoint.offset < MaxSize
    BY <1>1, <2>5 DEF Longer
  <2>7. bs[j + 1] \in Bytes /\ Append(c2, bs[j + 1]) = Joined(c, bs, j + 1)
    <3>1. j \in 0 .. Len(bs) /\ j < Len(bs)
      BY <1>1
    <3> QED
      BY <1>1, <2>4, <3>1, JoinedIs
  <2>8. PICK b \in Bytes : b = bs[j + 1]
    BY <2>7
  <2>9. r = PutByte(m, b)
    BY <2>3, <2>8
  <2> HIDE DEF At
  <2>10. PICK t2, l2 : /\ Laid(r, t2, l2) /\ Holds(r, t2, l2, Append(c2, b))
                       /\ Longer(m, t, l, r, t2, l2, 1)
    BY <2>5, <2>6, <2>9, PutIs
  <2>11. Longer(Now, s, n, r, t2, l2, j + 1)
    <3>1. l \in Nat
      BY <2>5 DEF Laid
    <3>2. \A i \in 0 .. n - 1 : i \in 0 .. l - 1
      <4>1. n <= l
        BY <2>5 DEF Longer
      <4> QED
        BY <1>1, <3>1, <4>1
    <3>3. \A i \in 0 .. n - 1 : t2[i] = s[i]
      BY <2>5, <2>10, <3>2 DEF Longer
    <3>4. l2 \in Nat /\ n <= l2
      BY <1>1, <2>5, <2>10, <3>1 DEF Longer
    <3>5. /\ r.file.opened = Now.file.opened /\ r.file.readpoint = Now.file.readpoint
          /\ r.file.endpoint.offset = Now.file.endpoint.offset + (j + 1)
      <4>1. /\ m.file.opened = Now.file.opened /\ m.file.readpoint = Now.file.readpoint
            /\ m.file.endpoint.offset = file.endpoint.offset + j
        BY <1>1, <2>5 DEF Longer
      <4>2. /\ r.file.opened = m.file.opened /\ r.file.readpoint = m.file.readpoint
            /\ r.file.endpoint.offset = m.file.endpoint.offset + 1
        BY <2>10 DEF Longer
      <4>3. PICK o \in Nat : o = file.endpoint.offset
        BY <1>1
      <4>6. PICK v \in Nat : v = m.file.endpoint.offset /\ v = o + j
        BY <4>1, <4>3
      <4>4. r.file.endpoint.offset = o + (j + 1)
        BY <4>2, <4>6
      <4>5. Now.file.endpoint.offset = o
        BY <1>1, <4>3
      <4> QED
        BY <4>1, <4>2, <4>4, <4>5
    <3> QED
      BY <3>3, <3>4, <3>5 DEF Longer
  <2>12. At(j + 1, t2, l2)
    BY <2>2, <2>7, <2>8, <2>10, <2>11 DEF At
  <2> QED
    BY <2>12
<1> HIDE DEF P
<1>5. k \in P
  BY <1>1, <1>3, <1>4, NumberInduction
<1> QED
  BY <1>1, <1>2, <1>5 DEF P

-----------------------------------------------------------------------------
(* Reading.                                                                *)

(* Quotient and remainder j places further.                                *)
LEMMA DivAdd ==
  ASSUME NEW N \in Nat \ {0}, NEW o \in Int, NEW j \in Int
  PROVE  /\ (o + j) \div N = o \div N + (((o % N) + j) \div N)
         /\ (o + j) % N = ((o % N) + j) % N
<1>1. PICK q \in Int, p \in Int : q = o \div N /\ p = o % N /\ o = N * q + p
  BY DivMod, ModRange
<1>2. PICK e \in Int : e = p + j
  BY <1>1
<1>3. PICK d \in Int, r \in 0 .. N - 1 : d = e \div N /\ r = e % N /\ e = N * d + r
  BY DivMod, ModRange
<1>4. PICK i \in Int : i = o + j
  OBVIOUS
<1>5. PICK u \in Int : u = q + d
  OBVIOUS
<1>6. N * u = N * q + N * d
  BY <1>5
<1>7. i = N * u + r
  <2>1. PICK x \in Int, y \in Int : x = N * q /\ y = N * d
    OBVIOUS
  <2> QED
    BY <1>1, <1>2, <1>3, <1>4, <1>6, <2>1
<1>8. i \div N = u /\ i % N = r
  BY <1>7, DivUnique
<1> QED
  BY <1>1, <1>2, <1>3, <1>4, <1>5, <1>8

(* A place that is not in a chunk is the end of the last one. *)
LEMMA BehindLast ==
  ASSUME NEW m, NEW s, NEW n, NEW c, Laid(m, s, n), Holds(m, s, n, c),
         NEW o \in Nat, o <= m.file.endpoint.offset
  PROVE  /\ o \div ChunkSize \in Nat
         /\ Seg(s, n, o \div ChunkSize) = Null => /\ o = m.file.endpoint.offset
                                                  /\ o % ChunkSize = 0
         /\ Seg(s, n, o \div ChunkSize) # Null => /\ o \div ChunkSize \in 0 .. n - 1
                                                  /\ Seg(s, n, o \div ChunkSize) = s[o \div ChunkSize]
<1>1. /\ ChunkSize \in Nat \ {0} /\ n \in Nat /\ m.file.endpoint.offset \in Nat
      /\ s \in [0 .. n - 1 -> Chunks] /\ Null \notin Chunks
  BY MemfileSizes DEF Laid, MemfileTypes
<1>2. PICK q \in Int, r \in 0 .. ChunkSize - 1 :
        q = o \div ChunkSize /\ r = o % ChunkSize /\ o = ChunkSize * q + r
  <2>1. o \in Int
    OBVIOUS
  <2> QED
    BY <1>1, <2>1, DivMod, ModRange
<1>3. q \in Nat
  <2> SUFFICES ASSUME q < 0 PROVE FALSE
    BY <1>2
  <2>1. PICK z \in Int : z = 0 /\ ChunkSize * z = 0
    BY <1>1
  <2>2. ChunkSize * q + ChunkSize <= ChunkSize * z
    BY <1>1, <1>2, <2>1, TimesLess
  <2> QED
    BY <1>1, <1>2, <2>1, <2>2
<1>4. ASSUME Seg(s, n, q) = Null PROVE o = m.file.endpoint.offset /\ r = 0
  <2>1. ~(q < n)
    BY <1>1, <1>3, <1>4 DEF Seg
  <2>2. o = m.file.endpoint.offset
    <3> SUFFICES ASSUME o < m.file.endpoint.offset PROVE FALSE
      BY <1>1
    <3>1. o \div ChunkSize \in 0 .. n - 1
      BY ByteIn
    <3> QED
      BY <1>1, <1>2, <2>1, <3>1
  <2>3. r = 0
    <3>1. CASE n = 0
      <4>1. o = 0 /\ 0 % ChunkSize = 0
        BY <1>1, <2>2, <3>1, ModSmall DEF Laid
      <4> QED
        BY <1>2, <4>1
    <3>2. CASE n # 0
      <4>1. PICK l \in Int : l = n - 1 /\ l < q
        BY <1>1, <1>2, <2>1
      <4>2. PICK e \in 1 .. ChunkSize : o = ChunkSize * l + e
        BY <2>2, <3>2, <4>1 DEF Laid
      <4>3. ChunkSize * l + ChunkSize <= ChunkSize * q
        BY <1>1, <1>2, <4>1, TimesLess
      <4>4. PICK x \in Int, y \in Int : x = ChunkSize * l /\ y = ChunkSize * q
        <5>1. ChunkSize \in Int /\ l \in Int /\ q \in Int
          BY <1>1, <1>2, <4>1
        <5>2. ChunkSize * l \in Int /\ ChunkSize * q \in Int
          BY <5>1
        <5> QED
          BY <5>2
      <4> QED
        BY <1>1, <1>2, <4>2, <4>3, <4>4
    <3> QED
      BY <3>1, <3>2
  <2> QED
    BY <2>2, <2>3
<1>5. ASSUME Seg(s, n, q) # Null PROVE q \in 0 .. n - 1 /\ Seg(s, n, q) = s[q]
  BY <1>1, <1>3, <1>5 DEF Seg
<1> QED
  BY <1>2, <1>3, <1>4, <1>5

(* A read starts in the chunk its offset is in, or in none where the       *)
(* latest read has stopped behind the chunks of then.                      *)
LEMMA StartIs ==
  ASSUME NEW s, NEW n, NEW c, Laid(Now, s, n), Holds(Now, s, n, c), ReadAt(Now, s, n),
         NEW o \in Nat, o <= file.endpoint.offset
  PROVE  \/ Start(o) = Seg(s, n, o \div ChunkSize)
         \/ /\ Start(o) = Null /\ o % ChunkSize = 0 /\ o # 0
            /\ file.readpoint = [offset |-> o, chunk |-> Null]
<1>1. Now.file = file /\ file.first = Seg(s, n, 0) /\ file \in MemfileTypes
  BY DEF Laid, Now
<1>2. CASE file.readpoint.offset # o \/ o = 0
  <2>1. o \div ChunkSize \in Nat
    BY <1>1, BehindLast
  <2>2. PICK k \in Nat, z \in Nat : k = o \div ChunkSize /\ z = 0 /\ z + k = k
    BY <2>1
  <2>3. Follow(Seg(s, n, z), k) = Seg(s, n, z + k)
    BY FollowIs
  <2> QED
    BY <1>1, <1>2, <2>2, <2>3 DEF Start
<1>3. CASE file.readpoint.offset = o /\ o # 0
  <2>1. Start(o) = file.readpoint.chunk
    BY <1>3 DEF Start
  <2>2. file.readpoint = [offset |-> file.readpoint.offset, chunk |-> file.readpoint.chunk]
    BY <1>1 DEF MemfileTypes
  <2> QED
    BY <1>1, <1>3, <2>1, <2>2 DEF ReadAt
<1> QED
  BY <1>2, <1>3

(* The bytes read at o are those of c. *)
TakenFrom(c, o, k) == \A i \in 1 .. k : ByteAt(o, i) = c[o + i]

(* What a read finds, and where it stops. *)
LEMMA ReadIs ==
  ASSUME NEW s, NEW n, NEW c, Laid(Now, s, n), Holds(Now, s, n, c), ReadAt(Now, s, n),
         NEW o \in Nat, NEW k \in Nat, o + k <= file.endpoint.offset
  PROVE  /\ Start(o) = Null /\ k # 0 =>
              o # 0 /\ file.readpoint = [offset |-> o, chunk |-> Null]
         /\ Start(o) # Null => TakenFrom(c, o, k)
         /\ Start(o) # Null \/ k = 0 =>
              \/ Stop(o, k) = Seg(s, n, (o + k) \div ChunkSize)
              \/ /\ Stop(o, k) = Null /\ (o + k) % ChunkSize = 0 /\ k = 0
                 /\ file.readpoint = [offset |-> o, chunk |-> Null]
<1>1. /\ Now.file = file /\ Now.chunk = chunk /\ ChunkSize \in Nat \ {0}
      /\ n \in Nat /\ s \in [0 .. n - 1 -> Chunks] /\ Null \notin Chunks
      /\ file.endpoint.offset \in Nat /\ o <= file.endpoint.offset
  BY MemfileSizes DEF Laid, MemfileTypes, Now
<1>2. PICK q \in Nat : q = o \div ChunkSize
  BY <1>1, BehindLast
<1>3. CASE Start(o) = Seg(s, n, q)
  <2>1. ASSUME NEW j \in Nat
        PROVE  /\ (o + j) \div ChunkSize = q + (((o % ChunkSize) + j) \div ChunkSize)
               /\ (o + j) % ChunkSize = ((o % ChunkSize) + j) % ChunkSize
               /\ ((o % ChunkSize) + j) \div ChunkSize \in Nat
    <3>1. /\ (o + j) \div ChunkSize = q + (((o % ChunkSize) + j) \div ChunkSize)
          /\ (o + j) % ChunkSize = ((o % ChunkSize) + j) % ChunkSize
      <4>1. o \in Int /\ j \in Int
        OBVIOUS
      <4> QED
        BY <1>1, <1>2, <4>1, DivAdd
    <3>2. (o % ChunkSize) + j \in Nat
      BY <1>1, ModRange
    <3>3. \A a \in Nat : a \div ChunkSize \in Nat
      BY <1>1
    <3> QED
      BY <3>1, <3>2, <3>3
  <2>2. ASSUME NEW j \in Nat
        PROVE  Follow(Start(o), ((o % ChunkSize) + j) \div ChunkSize)
                 = Seg(s, n, (o + j) \div ChunkSize)
    <3>1. PICK d \in Nat : d = ((o % ChunkSize) + j) \div ChunkSize /\ q + d = (o + j) \div ChunkSize
      BY <2>1
    <3>2. Follow(Seg(s, n, q), d) = Seg(s, n, q + d)
      BY FollowIs
    <3> QED
      BY <1>3, <3>1, <3>2
  <2>3. Start(o) = Null /\ k # 0 => FALSE
    <3>1. Seg(s, n, o \div ChunkSize) = Null => o = Now.file.endpoint.offset
      BY <1>1, BehindLast
    <3> QED
      BY <1>1, <1>2, <1>3, <3>1
  <2>4. ASSUME NEW i \in 1 .. k PROVE ByteAt(o, i) = c[o + i]
    <3>1. PICK j \in Nat : j = i - 1 /\ o + j < file.endpoint.offset /\ (o + j) + 1 = o + i
      BY <1>1
    <3>2. PICK p \in Nat : p = o + j /\ p < Now.file.endpoint.offset
      BY <1>1, <3>1
    <3>3. /\ p \div ChunkSize \in 0 .. n - 1
          /\ c[p + 1] = chunk[s[p \div ChunkSize]].data[(p % ChunkSize) + 1]
      <4>1. /\ p \div ChunkSize \in 0 .. n - 1
            /\ c[p + 1] = Now.chunk[s[p \div ChunkSize]].data[(p % ChunkSize) + 1]
        BY <3>2, ByteIn
      <4> QED
        BY <1>1, <4>1
    <3>4. Seg(s, n, p \div ChunkSize) = s[p \div ChunkSize]
      BY <1>1, <3>3 DEF Seg
    <3>5. (o % ChunkSize) + i - 1 = (o % ChunkSize) + j
      BY <1>1, <3>1, ModRange
    <3>6. Follow(Start(o), ((o % ChunkSize) + i - 1) \div ChunkSize) = s[p \div ChunkSize]
      BY <2>2, <3>2, <3>4, <3>5
    <3>7. ((o % ChunkSize) + i - 1) % ChunkSize = p % ChunkSize
      BY <2>1, <3>2, <3>5
    <3> QED
      BY <3>1, <3>2, <3>3, <3>6, <3>7 DEF ByteAt
  <2>5. Stop(o, k) = Seg(s, n, (o + k) \div ChunkSize)
    BY <2>2 DEF Stop
  <2>6. TakenFrom(c, o, k)
    BY <2>4 DEF TakenFrom
  <2> QED
    BY <2>3, <2>5, <2>6
<1>4. CASE /\ Start(o) = Null /\ o % ChunkSize = 0 /\ o # 0
           /\ file.readpoint = [offset |-> o, chunk |-> Null]
  <2>1. ASSUME k = 0 PROVE Stop(o, k) = Null /\ (o + k) % ChunkSize = 0
    <3>1. PICK z \in Nat : z = 0 /\ z \div ChunkSize = z /\ n + z = n
      BY <1>1
    <3>2. Follow(Seg(s, n, n), z) = Seg(s, n, n + z)
      BY <1>1, FollowIs
    <3>3. Seg(s, n, n) = Null
      BY <1>1 DEF Seg
    <3>4. ((o % ChunkSize) + k) \div ChunkSize = z /\ o + k = o
      BY <1>4, <2>1, <3>1
    <3> QED
      BY <1>4, <3>1, <3>2, <3>3, <3>4 DEF Stop
  <2> QED
    BY <1>4, <2>1
<1> QED
  BY <1>1, <1>2, <1>3, <1>4, StartIs

-----------------------------------------------------------------------------
(* The calls.                                                              *)

(* Freed chunks are all there are. *)
LEMMA NoneLeft ==
  ASSUME NEW s, NEW n, NEW c, Intact(Now, s, n, c)
  PROVE  DOMAIN Freed = {} /\ Freed = [x \in {} |-> chunk[x]]
<1>1. /\ n \in Nat /\ s \in [0 .. n - 1 -> Chunks] /\ DOMAIN chunk = {s[i] : i \in 0 .. n - 1}
      /\ file.first = Seg(s, n, 0) /\ Laid(Now, s, n)
  BY DEF Intact, Laid, Now
<1>2. Cardinality(DOMAIN chunk) = n
  <2>1. Cardinality(DOMAIN Now.chunk) = n
    BY <1>1, CountIs
  <2> QED
    BY <2>1 DEF Now
<1>3. \A i \in 0 .. n - 1 : Follow(file.first, i) = s[i]
  <2> TAKE i \in 0 .. n - 1
  <2>1. PICK z \in Nat : z = 0 /\ z + i = i /\ i \in Nat
    OBVIOUS
  <2>2. Follow(Seg(s, n, z), i) = Seg(s, n, z + i)
    BY <1>1, <2>1, FollowIs
  <2> QED
    BY <1>1, <2>1, <2>2 DEF Seg
<1>4. DOMAIN chunk \subseteq {Follow(file.first, i) : i \in 0 .. Cardinality(DOMAIN chunk)}
  <2>1. \A i \in 0 .. n - 1 : i \in 0 .. n
    BY <1>1
  <2> QED
    BY <1>1, <1>2, <1>3, <2>1
<1> QED
  BY <1>4 DEF Freed

(* A file without chunks is empty. *)
LEMMA EmptyIs ==
  ASSUME NEW m, m.file = Closed \/ m.file = [Closed EXCEPT !.opened = TRUE],
         m.chunk = [y \in {} |-> m.chunk[y]]
  PROVE  \E s, n : Intact(m, s, n, <<>>)
<1> DEFINE s == [i \in 0 .. 0 - 1 |-> Null]
<1>1. s \in [0 .. 0 - 1 -> Chunks] /\ {s[i] : i \in 0 .. 0 - 1} = {}
  OBVIOUS
<1> HIDE DEF s
<1>2. /\ m.file \in MemfileTypes /\ m.file.first = Null
      /\ m.file.endpoint = [offset |-> 0, chunk |-> Null]
      /\ m.file.readpoint = [offset |-> 0, chunk |-> Null]
  <2>1. PICK z : z = [offset |-> 0, chunk |-> Null]
    OBVIOUS
  <2>2. Closed = [opened |-> FALSE, first |-> Null, endpoint |-> z, readpoint |-> z]
    BY <2>1 DEF Closed
  <2>3. z \in [offset : Nat, chunk : Chunks \cup {Null}]
    BY <2>1
  <2>4. CASE m.file = Closed
    BY <2>1, <2>2, <2>3, <2>4 DEF MemfileTypes
  <2>5. CASE m.file = [Closed EXCEPT !.opened = TRUE]
    BY <2>1, <2>2, <2>3, <2>5 DEF MemfileTypes
  <2> QED
    BY <2>4, <2>5
<1>3. m.chunk \in [{} -> [next : Chunks \cup {Null}, data : Seq(Bytes)]]
  OBVIOUS
<1>4. \A i : i \notin 0 .. 0 - 1
  OBVIOUS
<1>5. Seg(s, 0, 0) = Null
  BY DEF Seg
<1>6. Laid(m, s, 0)
  BY <1>1, <1>2, <1>3, <1>4, <1>5 DEF Laid
<1>7. Holds(m, s, 0, <<>>)
  BY <1>2, <1>4 DEF Holds
<1>8. ReadAt(m, s, 0)
  <2>1. 0 % ChunkSize = 0
    BY MemfileSizes, ModSmall
  <2> QED
    BY <1>2, <2>1 DEF ReadAt
<1> QED
  BY <1>6, <1>7, <1>8 DEF Intact

(* Opening, truncating and closing leave an empty file. *)
LEMMA EmptyStep ==
  ASSUME NEW s, NEW n, NEW c, Intact(Now, s, n, c),
         memfileOpen \/ memfileTruncate \/ memfileClose
  PROVE  /\ \E t, l : Intact(Now', t, l, <<>>)
         /\ file'.readpoint = [offset |-> 0, chunk |-> Null] /\ got' = got
<1>1. file' = Closed \/ file' = [Closed EXCEPT !.opened = TRUE]
  BY DEF memfileOpen, memfileTruncate, memfileClose
<1>2. chunk' = [y \in {} |-> chunk'[y]]
  <2>1. CASE memfileTruncate \/ memfileClose
    <3>1. chunk' = Freed
      BY <2>1 DEF memfileTruncate, memfileClose
    <3>2. Freed = [y \in {} |-> chunk[y]]
      BY NoneLeft
    <3> QED
      BY <3>1, <3>2
  <2>2. CASE memfileOpen
    <3>1. ~file.opened /\ chunk' = chunk
      BY <2>2 DEF memfileOpen
    <3>2. n = 0
      BY <3>1 DEF Intact, Now
    <3>3. chunk \in [{} -> [next : Chunks \cup {Null}, data : Seq(Bytes)]]
      <4>1. {s[i] : i \in 0 .. n - 1} = {}
        BY <3>2
      <4>2. chunk \in [{s[i] : i \in 0 .. n - 1} -> [next : Chunks \cup {Null}, data : Seq(Bytes)]]
        BY DEF Intact, Laid, Now
      <4> QED
        BY <4>1, <4>2
    <3> QED
      BY <3>1, <3>3
  <2> QED
    BY <2>1, <2>2
<1>3. Now'.file = file' /\ Now'.chunk = chunk'
  BY DEF Now
<1>4. \E t, l : Intact(Now', t, l, <<>>)
  BY <1>1, <1>2, <1>3, EmptyIs
<1>5. file'.readpoint = [offset |-> 0, chunk |-> Null]
  BY <1>1 DEF Closed
<1> QED
  BY <1>4, <1>5 DEF memfileOpen, memfileTruncate, memfileClose

(* A read moves the read point and nothing else. *)
LEMMA ReadStep ==
  ASSUME NEW s, NEW n, NEW c, Intact(Now, s, n, c),
         NEW o \in Nat, NEW k \in Nat, memfileRead(o, k)
  PROVE  /\ Intact(Now', s, n, c) /\ chunk' = chunk
         /\ \/ /\ got' = [is |-> "fault", data |-> <<>>] /\ file' = file
               /\ k # 0 /\ o # 0 /\ file.readpoint = [offset |-> o, chunk |-> Null]
            \/ /\ got' = [is |-> "done", data |-> SubSeq(c, o + 1, o + k)]
               /\ file'.readpoint.offset = o + k
               /\ file'.readpoint.chunk = Null =>
                    \/ o + k = file.endpoint.offset
                    \/ k = 0 /\ file.readpoint = [offset |-> o, chunk |-> Null]
<1>1. /\ Now.file = file /\ Now.chunk = chunk /\ Now' = [file |-> file', chunk |-> chunk']
      /\ Laid(Now, s, n) /\ Holds(Now, s, n, c) /\ ReadAt(Now, s, n) /\ file \in MemfileTypes
      /\ (file.opened \/ n = 0) /\ n \in Nat /\ s \in [0 .. n - 1 -> Chunks]
      /\ c \in Seq(Bytes) /\ Len(c) = file.endpoint.offset /\ file.endpoint.offset \in Nat
  BY DEF Intact, Laid, Holds, Now, MemfileTypes
<1>2. o + k <= file.endpoint.offset /\ chunk' = chunk
  BY DEF memfileRead
<1>3. CASE Start(o) = Null /\ k > 0 /\ Says("fault") /\ UNCHANGED file
  <2>1. o # 0 /\ file.readpoint = [offset |-> o, chunk |-> Null]
    BY <1>1, <1>2, <1>3, ReadIs
  <2>2. Now' = Now
    BY <1>1, <1>2, <1>3 DEF Now
  <2>3. Intact(Now', s, n, c)
    BY <2>2
  <2> QED
    BY <1>2, <1>3, <2>1, <2>3 DEF Says
<1>4. CASE /\ Start(o) # Null \/ k = 0
           /\ got' = [is |-> "done", data |-> [i \in 1 .. k |-> ByteAt(o, i)]]
           /\ file' = [file EXCEPT !.readpoint = [offset |-> o + k, chunk |-> Stop(o, k)]]
  <2>1. PICK st : st = Stop(o, k)
    OBVIOUS
  <2>2. \/ st = Seg(s, n, (o + k) \div ChunkSize)
        \/ /\ st = Null /\ (o + k) % ChunkSize = 0 /\ k = 0
           /\ file.readpoint = [offset |-> o, chunk |-> Null]
    BY <1>1, <1>2, <1>4, <2>1, ReadIs
  <2>3. PICK p \in Nat : p = o + k /\ p <= file.endpoint.offset
    BY <1>2
  <2>4. /\ Seg(s, n, p \div ChunkSize) = Null => p = file.endpoint.offset
        /\ Seg(s, n, p \div ChunkSize) \in Chunks \cup {Null}
    <3>1. /\ Seg(s, n, p \div ChunkSize) = Null => p = Now.file.endpoint.offset
          /\ Seg(s, n, p \div ChunkSize) # Null =>
               /\ p \div ChunkSize \in 0 .. n - 1
               /\ Seg(s, n, p \div ChunkSize) = s[p \div ChunkSize]
      BY <1>1, <2>3, BehindLast
    <3> QED
      BY <1>1, <3>1
  <2>5. st \in Chunks \cup {Null}
    BY <2>2, <2>3, <2>4
  <2>6. PICK rp : rp = [offset |-> p, chunk |-> st]
    OBVIOUS
  <2>7. /\ rp \in [offset : Nat, chunk : Chunks \cup {Null}] /\ rp.offset = p /\ rp.chunk = st
        /\ file' = [file EXCEPT !.readpoint = rp]
    BY <1>4, <2>1, <2>3, <2>5, <2>6
  <2>8. /\ file' \in MemfileTypes /\ file'.readpoint = rp /\ file'.opened = file.opened
        /\ file'.first = file.first /\ file'.endpoint = file.endpoint
    BY <1>1, <2>7 DEF MemfileTypes
  <2>9. Now'.file = file' /\ Now'.chunk = chunk
    BY <1>1, <1>2
  <2>10. Laid(Now', s, n)
    BY <1>1, <2>8, <2>9 DEF Laid
  <2>11. Holds(Now', s, n, c)
    <3>1. Now'.file.endpoint = Now.file.endpoint /\ Now'.chunk = Now.chunk
      BY <1>1, <2>8, <2>9
    <3> QED
      BY <1>1, <3>1 DEF Holds
  <2>12. ReadAt(Now', s, n)
    BY <2>2, <2>3, <2>7, <2>8, <2>9 DEF ReadAt
  <2>13. Intact(Now', s, n, c)
    BY <1>1, <2>8, <2>9, <2>10, <2>11, <2>12 DEF Intact
  <2>14. [i \in 1 .. k |-> ByteAt(o, i)] = SubSeq(c, o + 1, o + k)
    <3>1. PICK u : u = SubSeq(c, o + 1, o + k)
      OBVIOUS
    <3>2. u \in Seq(Bytes) /\ Len(u) = k /\ \A i \in 1 .. k : u[i] = c[o + i]
      <4>1. o + 1 \in Nat /\ o + k \in Nat /\ o + k <= Len(c)
        BY <1>1, <1>2
      <4> QED
        BY <1>1, <3>1, <4>1, SubSeqProperties
    <3>3. u = [i \in 1 .. k |-> u[i]]
      BY <3>2, LenProperties
    <3>4. \A i \in 1 .. k : ByteAt(o, i) = c[o + i]
      <4>1. CASE Start(o) # Null
        <5>1. TakenFrom(c, o, k)
          BY <1>1, <1>2, <4>1, ReadIs
        <5> QED
          BY <5>1 DEF TakenFrom
      <4>2. CASE k = 0
        BY <4>2
      <4> QED
        BY <1>4, <4>1, <4>2
    <3> QED
      BY <3>1, <3>2, <3>3, <3>4
  <2>15. st = Null => \/ p = file.endpoint.offset
                      \/ k = 0 /\ file.readpoint = [offset |-> o, chunk |-> Null]
    BY <2>2, <2>3, <2>4
  <2> QED
    BY <1>2, <1>4, <2>3, <2>7, <2>8, <2>13, <2>14, <2>15
<1> QED
  BY <1>3, <1>4 DEF memfileRead

(* A write puts some of its bytes behind the others. *)
LEMMA WriteStep ==
  ASSUME NEW s, NEW n, NEW c, Intact(Now, s, n, c),
         NEW bs \in Seq(Bytes), memfileWrite(bs)
  PROVE  \E k, t, l :
           /\ k \in 0 .. Len(bs)
           /\ Intact(Now', t, l, Joined(c, bs, k)) /\ file'.readpoint = file.readpoint
           /\ got' = [is |-> IF k = Len(bs) THEN "done" ELSE "failed", data |-> <<>>]
<1>1. /\ Now.file = file /\ Now.chunk = chunk /\ Now' = [file |-> file', chunk |-> chunk']
      /\ Laid(Now, s, n) /\ Holds(Now, s, n, c) /\ ReadAt(Now, s, n) /\ file \in MemfileTypes
      /\ n \in Nat /\ s \in [0 .. n - 1 -> Chunks] /\ ChunkSize \in Nat \ {0}
      /\ file.endpoint.offset \in Nat /\ file.readpoint.offset \in Nat
  BY MemfileSizes DEF Intact, Laid, Now, MemfileTypes
<1>2. file.opened /\ file.endpoint.offset + Len(bs) <= MaxSize
  BY DEF memfileWrite
<1>3. PICK k \in 0 .. Len(bs) :
        /\ file' = Written(bs, k).file /\ chunk' = Written(bs, k).chunk
        /\ Says(IF k = Len(bs) THEN "done" ELSE "failed")
  BY DEF memfileWrite
<1>4. PICK r, t, l : /\ r = Written(bs, k) /\ Laid(r, t, l) /\ Holds(r, t, l, Joined(c, bs, k))
                     /\ Longer(Now, s, n, r, t, l, k)
  BY <1>1, <1>2, WriteIs
<1>5. Now'.file = r.file /\ Now'.chunk = r.chunk /\ file' = r.file
  BY <1>1, <1>3, <1>4
<1>6. Laid(Now', t, l)
  BY <1>4, <1>5 DEF Laid
<1>7. Holds(Now', t, l, Joined(c, bs, k))
  BY <1>4, <1>5 DEF Holds
<1>8. /\ file'.readpoint = file.readpoint /\ file'.opened
      /\ file'.endpoint.offset = file.endpoint.offset + k
      /\ l \in Nat /\ n <= l /\ \A i \in 0 .. n - 1 : t[i] = s[i]
  BY <1>1, <1>2, <1>4, <1>5 DEF Longer
<1>9. ReadAt(Now', t, l)
  <2>1. PICK o \in Nat : o = file.readpoint.offset /\ o <= file.endpoint.offset
    BY <1>1 DEF ReadAt
  <2>2. o <= file'.endpoint.offset
    BY <1>1, <1>8, <2>1
  <2>3. CASE file.readpoint.chunk = Null /\ o % ChunkSize = 0
    BY <1>5, <1>8, <2>1, <2>2, <2>3 DEF ReadAt
  <2>4. CASE file.readpoint.chunk = Seg(s, n, o \div ChunkSize)
    <3>1. /\ o \div ChunkSize \in Nat
          /\ Seg(s, n, o \div ChunkSize) = Null => o % ChunkSize = 0
          /\ Seg(s, n, o \div ChunkSize) # Null => o \div ChunkSize \in 0 .. n - 1
      <4>1. o <= Now.file.endpoint.offset
        BY <1>1, <2>1
      <4> QED
        BY <1>1, <4>1, BehindLast, SMTT(30)
    <3>2. CASE Seg(s, n, o \div ChunkSize) = Null
      BY <2>3, <2>4, <3>1, <3>2
    <3>3. CASE Seg(s, n, o \div ChunkSize) # Null
      <4>1. PICK q \in 0 .. n - 1 : q = o \div ChunkSize
        BY <3>1, <3>3
      <4>2. Seg(t, l, q) = Seg(s, n, q)
        BY <1>1, <1>8 DEF Seg
      <4> QED
        BY <1>5, <1>8, <2>1, <2>2, <2>4, <4>1, <4>2 DEF ReadAt
    <3> QED
      BY <3>2, <3>3
  <2> QED
    BY <1>1, <2>1, <2>3, <2>4 DEF ReadAt
<1>10. Intact(Now', t, l, Joined(c, bs, k))
  BY <1>5, <1>6, <1>7, <1>8, <1>9 DEF Intact
<1> QED
  BY <1>3, <1>8, <1>10 DEF Says

-----------------------------------------------------------------------------
(* The invariant.                                                          *)

(* A file is empty at first.                                               *)
LEMMA FileInvInit == MemInit => FileInv
<1> SUFFICES ASSUME MemInit PROVE FileInv
  OBVIOUS
<1>1. Now.file = Closed /\ Now.chunk = <<>>
  BY DEF MemInit, Now
<1>2. Now.chunk = [y \in {} |-> Now.chunk[y]]
  BY <1>1
<1>3. \E s, n : Intact(Now, s, n, <<>>)
  BY <1>1, <1>2, EmptyIs
<1> QED
  BY <1>3 DEF FileInv, MemInit

(* One step per operation.                                                 *)
LEMMA FileInvNext == FileInv /\ [MemNext]_memVars => FileInv'
<1> SUFFICES ASSUME FileInv, [MemNext]_memVars PROVE FileInv'
  OBVIOUS
<1>1. PICK s, n, c : Intact(Now, s, n, c)
  BY DEF FileInv
<1>2. got \in [is : {"done", "failed", "fault"}, data : Seq(Bytes)] /\ c \in Seq(Bytes)
  BY <1>1 DEF FileInv, Intact, Holds
<1>3. SUFFICES /\ \E t, l, d : Intact(Now', t, l, d)
               /\ got' \in [is : {"done", "failed", "fault"}, data : Seq(Bytes)]
  <2> SUFFICES ASSUME NEW t, NEW l, NEW d, Intact(Now', t, l, d) PROVE (\E t0, l0, d0 : Intact(Now, t0, l0, d0))'
    BY DEF FileInv
  <2> QED
    OBVIOUS
<1>4. CASE memfileOpen \/ memfileTruncate \/ memfileClose
  BY <1>1, <1>2, <1>4, EmptyStep
<1>5. ASSUME NEW k \in 0 .. MaxSize, NEW bs \in [1 .. k -> Bytes], memfileWrite(bs)
      PROVE  /\ \E t, l, d : Intact(Now', t, l, d)
             /\ got' \in [is : {"done", "failed", "fault"}, data : Seq(Bytes)]
  <2>1. bs \in Seq(Bytes)
    BY MemfileSizes
  <2> QED
    <3>1. PICK j, t, l :
            /\ j \in 0 .. Len(bs)
            /\ Intact(Now', t, l, Joined(c, bs, j)) /\ file'.readpoint = file.readpoint
            /\ got' = [is |-> IF j = Len(bs) THEN "done" ELSE "failed", data |-> <<>>]
      BY <1>1, <1>5, <2>1, WriteStep
    <3>2. PICK w \in {"done", "failed"} : got' = [is |-> w, data |-> <<>>]
      BY <3>1
    <3> QED
      BY <3>1, <3>2
<1>6. ASSUME NEW o \in 0 .. MaxSize, NEW k \in 0 .. MaxSize, memfileRead(o, k)
      PROVE  /\ \E t, l, d : Intact(Now', t, l, d)
             /\ got' \in [is : {"done", "failed", "fault"}, data : Seq(Bytes)]
  <2>1. o \in Nat /\ k \in Nat
    BY MemfileSizes
  <2>2. /\ Intact(Now', s, n, c)
        /\ \/ got' = [is |-> "fault", data |-> <<>>]
           \/ got' = [is |-> "done", data |-> SubSeq(c, o + 1, o + k)]
    <3>1. /\ Intact(Now', s, n, c) /\ chunk' = chunk
          /\ \/ /\ got' = [is |-> "fault", data |-> <<>>] /\ file' = file
                /\ k # 0 /\ o # 0 /\ file.readpoint = [offset |-> o, chunk |-> Null]
             \/ /\ got' = [is |-> "done", data |-> SubSeq(c, o + 1, o + k)]
                /\ file'.readpoint.offset = o + k
                /\ file'.readpoint.chunk = Null =>
                     \/ o + k = file.endpoint.offset
                     \/ k = 0 /\ file.readpoint = [offset |-> o, chunk |-> Null]
      BY <1>1, <1>6, <2>1, ReadStep
    <3> QED
      BY <3>1
  <2>3. SubSeq(c, o + 1, o + k) \in Seq(Bytes)
    <3>1. o + k <= Len(c) /\ Len(c) \in Nat
      BY <1>1, <1>2, <1>6 DEF memfileRead, Intact, Holds, Now
    <3>2. \A i \in o + 1 .. o + k : c[i] \in Bytes
      BY <1>2, <2>1, <3>1
    <3> QED
      BY <2>1, <3>2, SubSeqProperties
  <2>4. PICK u \in Seq(Bytes) : u = SubSeq(c, o + 1, o + k)
    BY <2>3
  <2>5. PICK w \in {"done", "fault"}, v \in Seq(Bytes) : got' = [is |-> w, data |-> v]
    <3>1. <<>> \in Seq(Bytes)
      OBVIOUS
    <3>2. CASE got' = [is |-> "fault", data |-> <<>>]
      BY <3>1, <3>2
    <3>3. CASE got' = [is |-> "done", data |-> SubSeq(c, o + 1, o + k)]
      BY <2>4, <3>3
    <3> QED
      BY <2>2, <3>2, <3>3
  <2>6. got' \in [is : {"done", "failed", "fault"}, data : Seq(Bytes)]
    BY <2>5
  <2> QED
    BY <2>2, <2>6
<1>7. CASE UNCHANGED memVars
  <2>1. Now' = Now /\ got' = got
    BY <1>7 DEF memVars, Now
  <2> QED
    BY <1>1, <1>2, <2>1
<1> QED
  BY <1>4, <1>5, <1>6, <1>7 DEF MemNext

(* What it says of the walk along the links. *)
LEMMA FileInvImplies == FileInv => FileIntact
<1> SUFFICES ASSUME FileInv PROVE FileIntact
  OBVIOUS
<1>1. PICK s, n, c : Intact(Now, s, n, c)
  BY DEF FileInv
<1>2. /\ Laid(Now, s, n) /\ Holds(Now, s, n, c) /\ ReadAt(Now, s, n)
      /\ Now.file = file /\ Now.chunk = chunk /\ ChunkSize \in Nat \ {0}
      /\ n \in Nat /\ s \in [0 .. n - 1 -> Chunks] /\ DOMAIN chunk = {s[i] : i \in 0 .. n - 1}
      /\ file.first = Seg(s, n, 0) /\ file.endpoint.offset \in Nat /\ file.readpoint.offset \in Nat
  BY <1>1, MemfileSizes DEF Intact, Laid, Now, MemfileTypes
<1>3. Cardinality(DOMAIN chunk) = n
  <2>1. Cardinality(DOMAIN Now.chunk) = n
    BY <1>2, CountIs
  <2> QED
    BY <1>2, <2>1
<1>4. ASSUME NEW i \in Nat PROVE Nth(i) = Seg(s, n, i)
  <2>1. PICK z \in Nat : z = 0 /\ z + i = i
    OBVIOUS
  <2>2. Follow(Seg(s, n, z), i) = Seg(s, n, z + i)
    BY <1>2, <2>1, FollowIs
  <2> QED
    BY <1>2, <2>1, <2>2 DEF Nth
<1>5. \A i \in 0 .. n - 1 : Nth(i) = s[i]
  BY <1>2, <1>4 DEF Seg
<1>6. n = (file.endpoint.offset + ChunkSize - 1) \div ChunkSize
  <2>1. CASE n = 0
    <3>1. PICK z \in Int, r \in 0 .. ChunkSize - 1, e \in Int :
            z = 0 /\ r = ChunkSize - 1 /\ e = ChunkSize * z + r
            /\ e = file.endpoint.offset + ChunkSize - 1
      BY <1>2, <2>1 DEF Laid
    <3>2. e \div ChunkSize = z
      BY <1>2, <3>1, DivUnique
    <3> QED
      BY <2>1, <3>1, <3>2
  <2>2. CASE n # 0
    <3>0. PICK l \in Int : l = n - 1
      BY <1>2
    <3>1. PICK j \in 1 .. ChunkSize : file.endpoint.offset = ChunkSize * l + j
      BY <1>2, <2>2, <3>0 DEF Laid
    <3>2. ChunkSize * n = ChunkSize * l + ChunkSize
      BY <1>2, <3>0
    <3>3. PICK r \in 0 .. ChunkSize - 1 : r = j - 1
      BY <1>2
    <3>4. PICK x \in Int, y \in Int : x = ChunkSize * l /\ y = ChunkSize * n
      BY <1>2, <3>0
    <3>5. PICK e \in Int : e = file.endpoint.offset + ChunkSize - 1
      BY <1>2
    <3>6. e = ChunkSize * n + r
      BY <1>2, <3>1, <3>2, <3>3, <3>4, <3>5
    <3>7. n \in Int
      BY <1>2
    <3>8. e \div ChunkSize = n
      BY <1>2, <3>6, <3>7, DivUnique
    <3> QED
      BY <3>5, <3>8
  <2> QED
    BY <2>1, <2>2
<1>7. DOMAIN chunk = {Nth(i) : i \in 0 .. n - 1}
  BY <1>2, <1>5
<1>8. Nth(n) = Null
  BY <1>2, <1>4 DEF Seg
<1>9. file.endpoint.chunk = IF n = 0 THEN Null ELSE Nth(n - 1)
  <2>1. n # 0 => n - 1 \in 0 .. n - 1
    BY <1>2
  <2> QED
    BY <1>2, <1>5, <2>1 DEF Laid
<1>10. \A i \in 0 .. n - 2 : Len(chunk[Nth(i)].data) = ChunkSize
  <2> TAKE i \in 0 .. n - 2
  <2>1. i \in 0 .. n - 1 /\ i # n - 1
    BY <1>2
  <2> QED
    BY <1>2, <1>5, <2>1 DEF Laid
<1>11. ChunksExact
  BY <1>3, <1>6, <1>7, <1>8, <1>9, <1>10 DEF ChunksExact
<1>12. ReadPointExact
  <2>1. PICK o \in Nat : o = file.readpoint.offset /\ o <= Now.file.endpoint.offset
    BY <1>2 DEF ReadAt
  <2>2. o \div ChunkSize \in Nat
    BY <1>2, <2>1, BehindLast
  <2> QED
    BY <1>2, <1>4, <2>1, <2>2 DEF ReadAt, ReadPointExact
<1> QED
  BY <1>11, <1>12 DEF FileIntact

(* Through every call a memory file is a chain of chunks that hold its     *)
(* bytes.                                                                  *)
THEOREM FileInvariance == MemSpec => []FileInv
<1> QED
  BY FileInvInit, FileInvNext, PTL DEF MemSpec

(* memfileWrite and memfileTruncate lose no chunk, and the read point is   *)
(* in the chunk of its offset.                                             *)
THEOREM ChunksAreTheFile == MemSpec => []FileIntact
<1> QED
  BY FileInvariance, FileInvImplies, PTL

-----------------------------------------------------------------------------
(* The file is a sequence of bytes.                                        *)

ContentExact == \A s, n, c : Intact(Now, s, n, c) => Content = c

(* What a file holds is the sequence the invariant speaks of.              *)
LEMMA ContentNow == ContentExact
BY ContentIs DEF ContentExact, Intact

(* So it is in the next state.                                             *)
LEMMA ContentNext == \A s, n, c : Intact(Now', s, n, c) => Content' = c
<1>1. ContentExact'
  BY ContentNow, PTL
<1> QED
  BY <1>1 DEF ContentExact

AbsVars == <<Content, Edge, got>>

(* The empty file is the empty sequence.                                   *)
LEMMA ByteFileInit == MemInit => AbstractFile!Init
<1> SUFFICES ASSUME MemInit PROVE AbstractFile!Init
  OBVIOUS
<1>1. file = Closed /\ file.endpoint.offset = 0
  BY DEF MemInit, Closed
<1>2. Content = <<>>
  BY <1>1 DEF Content
<1>3. Edge = 0
  BY <1>1 DEF Edge, Closed
<1> QED
  BY <1>2, <1>3 DEF AbstractFile!Init, MemInit

(* Each operation is one of the sequence of bytes.                         *)
LEMMA ByteFileStep == FileInv /\ [MemNext]_memVars => [AbstractFile!Next]_AbsVars
<1> SUFFICES ASSUME FileInv, [MemNext]_memVars
             PROVE  AbstractFile!Next \/ UNCHANGED AbsVars
  OBVIOUS
<1>1. PICK s, n, c : Intact(Now, s, n, c)
  BY DEF FileInv
<1>2. /\ Content = c /\ c \in Seq(Bytes) /\ Len(c) = file.endpoint.offset /\ Len(c) \in Nat
  BY <1>1, ContentNow DEF ContentExact, Intact, Holds, Now
<1>3. CASE memfileOpen \/ memfileTruncate \/ memfileClose
  <2>1. PICK t, l : Intact(Now', t, l, <<>>)
    BY <1>1, <1>3, EmptyStep
  <2>2. Content' = <<>>
    BY <2>1, ContentNext
  <2>3. file'.readpoint = [offset |-> 0, chunk |-> Null] /\ got' = got
    BY <1>1, <1>3, EmptyStep
  <2>4. Edge' = 0
    BY <2>3 DEF Edge
  <2> QED
    BY <2>2, <2>3, <2>4 DEF AbstractFile!Next, AbstractFile!Empty
<1>4. ASSUME NEW k \in 0 .. MaxSize, NEW bs \in [1 .. k -> Bytes], memfileWrite(bs)
      PROVE  AbstractFile!Next
  <2>1. bs \in Seq(Bytes) /\ Len(bs) \in Nat
    BY MemfileSizes
  <2>2. PICK j, t, l :
          /\ j \in 0 .. Len(bs)
          /\ Intact(Now', t, l, Joined(c, bs, j)) /\ file'.readpoint = file.readpoint
          /\ got' = [is |-> IF j = Len(bs) THEN "done" ELSE "failed", data |-> <<>>]
    BY <1>1, <1>4, <2>1, WriteStep
  <2>3. Content' = Joined(c, bs, j)
    BY <2>2, ContentNext
  <2>4. Edge' = Edge
    BY <2>2 DEF Edge
  <2>5. Joined(c, bs, j) = c \o SubSeq(bs, 1, j) /\ Joined(c, bs, Len(bs)) = c \o bs
    BY <1>2, <2>1, <2>2, JoinedIs
  <2>6. Len(Content) + Len(bs) <= MaxSize
    BY <1>2, <1>4 DEF memfileWrite
  <2>7. \/ Content' = Content \o bs /\ AbstractFile!Says("done")
        \/ /\ \E i \in 0 .. (Len(bs) - 1) : Content' = Content \o SubSeq(bs, 1, i)
           /\ AbstractFile!Says("failed")
    <3>1. CASE j = Len(bs)
      BY <1>2, <2>2, <2>3, <2>5, <3>1 DEF AbstractFile!Says
    <3>2. CASE j # Len(bs)
      <4>1. j \in 0 .. (Len(bs) - 1)
        BY <2>1, <2>2, <3>2
      <4> QED
        BY <1>2, <2>2, <2>3, <2>5, <3>2, <4>1 DEF AbstractFile!Says
    <3> QED
      BY <3>1, <3>2
  <2>8. AbstractFile!Write(bs)
    BY <2>4, <2>6, <2>7 DEF AbstractFile!Write
  <2> QED
    BY <1>4, <2>8 DEF AbstractFile!Next
<1>5. ASSUME NEW o \in 0 .. MaxSize, NEW k \in 0 .. MaxSize, memfileRead(o, k)
      PROVE  AbstractFile!Next
  <2>1. o \in Nat /\ k \in Nat /\ o + k <= file.endpoint.offset
    BY <1>5, MemfileSizes DEF memfileRead
  <2>2. /\ Intact(Now', s, n, c)
        /\ \/ /\ got' = [is |-> "fault", data |-> <<>>] /\ file' = file
              /\ k # 0 /\ o # 0 /\ file.readpoint = [offset |-> o, chunk |-> Null]
           \/ /\ got' = [is |-> "done", data |-> SubSeq(c, o + 1, o + k)]
              /\ file'.readpoint.offset = o + k
              /\ file'.readpoint.chunk = Null =>
                   \/ o + k = file.endpoint.offset
                   \/ k = 0 /\ file.readpoint = [offset |-> o, chunk |-> Null]
    BY <1>1, <1>5, <2>1, ReadStep
  <2>3. Content' = c
    BY <2>2, ContentNext
  <2>4. CASE /\ got' = [is |-> "fault", data |-> <<>>] /\ file' = file
             /\ k # 0 /\ o # 0 /\ file.readpoint = [offset |-> o, chunk |-> Null]
    <3>1. Edge' = Edge /\ Edge = o
      BY <2>4 DEF Edge
    <3>2. AbstractFile!Read(o, k)
      BY <1>2, <2>1, <2>3, <2>4, <3>1 DEF AbstractFile!Read, AbstractFile!Says
    <3> QED
      BY <1>2, <2>1, <3>2 DEF AbstractFile!Next
  <2>5. CASE /\ got' = [is |-> "done", data |-> SubSeq(c, o + 1, o + k)]
             /\ file'.readpoint.offset = o + k
             /\ file'.readpoint.chunk = Null =>
                  \/ o + k = file.endpoint.offset
                  \/ k = 0 /\ file.readpoint = [offset |-> o, chunk |-> Null]
    <3>1. Edge' = IF file'.readpoint.chunk = Null THEN o + k ELSE 0
      BY <2>5 DEF Edge
    <3>2. file.readpoint = [offset |-> o, chunk |-> Null] => Edge = o
      BY DEF Edge
    <3>3. \/ Edge' = 0
          \/ Edge' = o + k /\ (o + k = Len(Content) \/ (k = 0 /\ o = Edge))
      BY <1>2, <2>5, <3>1, <3>2
    <3>4. AbstractFile!Read(o, k)
      BY <1>2, <2>1, <2>3, <2>5, <3>3 DEF AbstractFile!Read
    <3> QED
      BY <1>2, <2>1, <3>4 DEF AbstractFile!Next
  <2> QED
    BY <2>2, <2>4, <2>5
<1>6. CASE UNCHANGED memVars
  <2>1. Now' = Now /\ got' = got /\ file' = file
    BY <1>6 DEF memVars, Now
  <2>2. Content' = c
    BY <1>1, <2>1, ContentNext
  <2>3. Edge' = Edge
    BY <2>1 DEF Edge
  <2> QED
    BY <1>2, <2>1, <2>2, <2>3 DEF AbsVars
<1> QED
  BY <1>3, <1>4, <1>5, <1>6 DEF MemNext

(* A memory file is a sequence of bytes that grows at its end, and a read  *)
(* that answers returns the bytes at its offset.  Every read within the    *)
(* file answers but one: that which goes on from where the latest read     *)
(* stopped with the last chunk of then (ByteFile's edge), which may fault. *)
THEOREM ByteFileRefinement == MemSpec => ImplementsByteFile
<1>1. MemInit => AbstractFile!Init
  BY ByteFileInit
<1>2. FileInv /\ [MemNext]_memVars => [AbstractFile!Next]_<<Content, Edge, got>>
  BY ByteFileStep DEF AbsVars
<1> QED
  BY <1>1, <1>2, FileInvariance, PTL DEF MemSpec, ImplementsByteFile, AbstractFile!Spec
=============================================================================
