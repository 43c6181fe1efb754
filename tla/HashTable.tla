----------------------------- MODULE HashTable ------------------------------
(***************************************************************************)
(* The hash table of src/libcu/ext/hash.cu, which indexes the in-memory    *)
(* file system by path.  All elements hang on one doubly-linked list; a    *)
(* bucket is a stretch of that list, known by its first element and its    *)
(* length.  There are no buckets until the table has grown for the first   *)
(* time, and every change of the table's size threads the list anew.       *)
(*                                                                         *)
(* A key stands for all spellings of it that differ in case only, which    *)
(* getHashCode and stricmp treat alike.                                    *)
(***************************************************************************)
EXTENDS NullPointer, Integers, FiniteSets, SequencesExt

CONSTANTS
  Keys, Data,
  Elems,      (* the blocks malloc has for elements                         *)
  Codes,      (* the values of getHashCode                                  *)
  MinCount,   (* 10 in the code: no buckets for fewer elements              *)
  Load,       (* 2: elements per bucket before the table grows              *)
  Growth      (* 2: buckets per element after it has grown                  *)

ASSUME HashSizes ==
  /\ MinCount \in Nat \ {0} /\ Load \in Nat \ {0} /\ Growth \in Nat \ {0}
  /\ Codes \subseteq Nat
ASSUME HashValues == Null \notin Data \cup Elems /\ "assert" \notin Data \cup Elems \cup {Null}

VARIABLES
  code,   (* getHashCode, some function of the keys                         *)
  h,      (* hash_t: first, count, the buckets, and the elements allocated  *)
  found   (* what the latest call returned, "assert" when one has failed    *)

hashVars == <<code, h, found>>

---------------------------------------------------------------------------
(* The table as a structure. *)

Empty == [first |-> Null, count |-> 0, table |-> <<>>, elem |-> <<>>]

hashInit == h = Empty

tableSize(t) == Len(t.table)
Bucket(t, k) == (code[k] % tableSize(t)) + 1

(* The n elements from e on; Null where the list has ended before. *)
Stretch(t, e, n) ==
  LET at[i \in 1..n] ==
        IF i = 1 THEN e
        ELSE IF at[i - 1] = Null THEN Null ELSE t.elem[at[i - 1]].next
  IN at

List(t) == Stretch(t, t.first, Cardinality(DOMAIN t.elem))

(* Faulty variant: the bucket is searched up to the end of the list. *)
CandidatesToEnd(t, k) ==
  IF t.table # <<>>
  THEN Stretch(t, t.table[Bucket(t, k)].chain, t.count)
  ELSE Stretch(t, t.first, t.count)

(* The stretch in which an element with key k is looked for. *)
Candidates(t, k) ==
  IF t.table # <<>>
  THEN Stretch(t, t.table[Bucket(t, k)].chain, t.table[Bucket(t, k)].count)
  ELSE Stretch(t, t.first, t.count)

(* The element, Null when there is none, "assert" when the list is too short. *)
findElementWithHash(t, k) ==
  LET c == Candidates(t, k)
      Stops == {i \in DOMAIN c : c[i] = Null \/ t.elem[c[i]].key = k}
      stop == CHOOSE i \in Stops : \A j \in Stops : i <= j
  IN IF Stops = {} THEN Null ELSE IF c[stop] = Null THEN "assert" ELSE c[stop]

Found(k) == findElementWithHash(h, k)

---------------------------------------------------------------------------
(* Linking and unlinking. *)

SetNext(f, e, x) == IF e = Null THEN f ELSE [f EXCEPT ![e].next = x]
SetPrev(f, e, x) == IF e = Null THEN f ELSE [f EXCEPT ![e].prev = x]

(* Element e goes in front of bucket b, or of the list if b has no element *)
(* or there is no bucket (0).                                              *)
insertElement(t, b, e) ==
  LET head == IF b # 0 /\ t.table[b].count # 0 THEN t.table[b].chain ELSE t.first
      before == IF head = t.first THEN Null ELSE t.elem[head].prev
      Linked == SetPrev(SetNext(t.elem, e, head), e, before)
  IN [first |-> IF before = Null THEN e ELSE t.first,
      count |-> t.count,
      table |-> IF b = 0 THEN t.table
                ELSE [t.table EXCEPT ![b] = [count |-> @.count + 1, chain |-> e]],
      elem |-> SetNext(SetPrev(Linked, head, e), before, e)]

(* The first i elements of list es threaded anew, through n empty buckets. *)
Threaded(t, n, es, i) ==
  LET at[j \in 0..i] ==
        IF j = 0 THEN [first |-> Null, count |-> t.count, elem |-> t.elem,
                       table |-> [b \in 1..n |-> [count |-> 0, chain |-> Null]]]
        ELSE IF es[j] = Null THEN at[j - 1]
        ELSE insertElement(at[j - 1], Bucket(at[j - 1], t.elem[es[j]].key), es[j])
  IN at[i]

rehash(t, n) == Threaded(t, n, List(t), Len(List(t)))

(* Faulty variant: an emptied bucket is forgotten to be counted down. *)
UnlinkedOnly(t, e) ==
  LET r == t.elem[e]
      Linked == SetPrev(SetNext(t.elem, r.prev, r.next), r.next, r.prev)
      b == Bucket(t, r.key)
  IN [first |-> IF r.prev = Null THEN r.next ELSE t.first,
      count |-> t.count - 1,
      table |-> IF t.table = <<>> \/ t.table[b].chain # e THEN t.table
                ELSE [t.table EXCEPT ![b].chain = r.next],
      elem |-> [x \in DOMAIN t.elem \ {e} |-> Linked[x]]]

(* The bucket's first element may become one of the next bucket: only its  *)
(* count tells.                                                            *)
Unlinked(t, e) ==
  LET r == t.elem[e]
      Linked == SetPrev(SetNext(t.elem, r.prev, r.next), r.next, r.prev)
      b == Bucket(t, r.key)
  IN [first |-> IF r.prev = Null THEN r.next ELSE t.first,
      count |-> t.count - 1,
      table |-> IF t.table = <<>> THEN <<>> ELSE
                [t.table EXCEPT ![b] = [count |-> @.count - 1,
                                        chain |-> IF @.chain = e THEN r.next ELSE @.chain]],
      elem |-> [x \in DOMAIN t.elem \ {e} |-> Linked[x]]]

(* The table is emptied with its last element, unless an assertion fails. *)
removeElementGivenHash(e) ==
  LET u == Unlinked(h, e)
      Sound == /\ \A b \in DOMAIN u.table : u.table[b].count >= 0
               /\ u.count = 0 => u.first = Null
  IN /\ h' = IF u.count = 0 THEN Empty ELSE u
     /\ found' = IF Sound THEN h.elem[e].data ELSE "assert"

---------------------------------------------------------------------------
(* The operations. *)

hashFind(k) ==
  /\ found' = IF Found(k) \in Elems THEN h.elem[Found(k)].data ELSE Found(k)
  /\ UNCHANGED h

(* The key is in the table: its element is removed or gets the new data. *)
InsertKnown(k, d) ==
  /\ Found(k) \in Elems
  /\ \/ d = Null /\ removeElementGivenHash(Found(k))
     \/ /\ d # Null
        /\ h' = [h EXCEPT !.elem[Found(k)].data = d]
        /\ found' = h.elem[Found(k)].data

(* The table wants more buckets for n elements. *)
Crowded(n) == n >= MinCount /\ n > Load * tableSize(h)

(* The table with a new element e; "grown" tells whether rehash, if it is  *)
(* called, gets its memory.                                                *)
WithElement(k, d, e, grown) ==
  LET n == h.count + 1
      r == [key |-> k, data |-> d, next |-> Null, prev |-> Null]
      g == IF Crowded(n) /\ grown THEN rehash([h EXCEPT !.count = n], n * Growth)
                                  ELSE [h EXCEPT !.count = n]
      b == IF g.table = <<>> THEN 0 ELSE Bucket(g, k)
      New == [x \in DOMAIN g.elem \cup {e} |-> IF x = e THEN r ELSE g.elem[x]]
  IN insertElement([g EXCEPT !.elem = New], b, e)

(* The key is new: an element for it, which malloc may refuse. *)
InsertNew(k, d) ==
  /\ Found(k) = Null /\ d # Null
  /\ \/ found' = d /\ UNCHANGED h
     \/ \E e \in Elems \ DOMAIN h.elem, grown \in BOOLEAN :
          h' = WithElement(k, d, e, grown) /\ found' = Null

hashInsert(k, d) ==
  \/ InsertKnown(k, d)
  \/ InsertNew(k, d)
  \/ Found(k) = Null /\ d = Null /\ found' = Null /\ UNCHANGED h
  \/ Found(k) = "assert" /\ found' = "assert" /\ UNCHANGED h

hashClear == h' = Empty /\ UNCHANGED found

---------------------------------------------------------------------------
HashInit == code \in [Keys -> Codes] /\ hashInit /\ found = Null

HashNext ==
  /\ found # "assert" /\ UNCHANGED code
  /\ \/ \E k \in Keys : hashFind(k) \/ \E d \in Data \cup {Null} : hashInsert(k, d)
     \/ hashClear

HashSpec == HashInit /\ [][HashNext]_hashVars

---------------------------------------------------------------------------
(* Properties. *)

InList == {List(h)[i] : i \in DOMAIN List(h)} \ {Null}

(* Every element malloc gave out is on the list, once; the links back are  *)
(* the links forth; and the count is the length of the list.               *)
ListIntact ==
  /\ InList = DOMAIN h.elem /\ h.count = Cardinality(DOMAIN h.elem)
  /\ \A e \in DOMAIN h.elem :
       /\ h.elem[e].next # Null => h.elem[h.elem[e].next].prev = e
       /\ IF h.elem[e].prev = Null THEN h.first = e
                                   ELSE h.elem[h.elem[e].prev].next = e

BucketsExact ==
  \A b \in DOMAIN h.table :
    LET s == Stretch(h, h.table[b].chain, h.table[b].count)
    IN {s[i] : i \in DOMAIN s} = {e \in DOMAIN h.elem : Bucket(h, h.elem[e].key) = b}

(* No element is lost and no link dangles; and every bucket is exactly the *)
(* elements whose keys fall into it, next to each other on the one list,   *)
(* although insertions, removals and changes of the table's size move the  *)
(* elements of other buckets about.                                        *)
TableIntact == ListIntact /\ BucketsExact

(* The table is a map from keys to data, and no assertion fails. *)
MapOf ==
  [k \in {h.elem[e].key : e \in InList} |->
     h.elem[CHOOSE e \in InList : h.elem[e].key = k].data]

AbstractMap == INSTANCE Map WITH map <- MapOf, answer <- found
ImplementsMap == AbstractMap!Spec
=============================================================================
