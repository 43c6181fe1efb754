-------------------------- MODULE HandlePoolProofs --------------------------
(***************************************************************************)
(* Proofs about the host-pointer and stream pools used one call at a time, *)
(* by a program that holds no more handles than there are.                 *)
(***************************************************************************)
EXTENDS HandlePool, RingArithmetic, FiniteSetTheorems

Sequential == Serialized /\ ~ByPlace /\ Capacity <= Size

Getting == {t \in Threads : pc[t] \in {"read", "fresh"}}
Putting == {t \in Threads : pc[t] = "put"}

(* The counters of the references that coming gets will find, the one an   *)
(* open get has reserved included, the one an open free has not yet        *)
(* written excluded.                                                       *)
FirstPlace == IF Getting # {} THEN freePtr - 1 ELSE freePtr
LastPlace  == IF Putting # {} THEN retnPtr + Size - 2 ELSE retnPtr + Size - 1

Unused == {h \in Objects : out[h] = 0}
Used   == {h \in Objects : out[h] = 1}

-----------------------------------------------------------------------------
(* The inductive invariant, by parts.                                      *)

OneCall == \A t, u \in Threads : pc[t] # "idle" /\ pc[u] # "idle" => t = u

(* Where the open call works, and on what. *)
CallState ==
  \A t \in Threads :
    /\ pc[t] \in {"idle", "read", "fresh", "put"}
    /\ pc[t] \in {"read", "fresh"} => freePtr > 0 /\ place[t] = PlaceOf(freePtr - 1)
    /\ pc[t] = "fresh" => refs[place[t]] = Null
    /\ pc[t] = "put" =>
         /\ retnPtr > 0 /\ place[t] = PlaceOf(retnPtr - 1)
         /\ obj[t] \in Unused

(* Coming gets find different objects ... *)
Distinct ==
  \A i, j \in FirstPlace .. LastPlace : Content(PlaceOf(i)) = Content(PlaceOf(j)) => i = j

(* ... which are the unused ones, but for the one an open free returns. *)
Available ==
  {Content(PlaceOf(i)) : i \in FirstPlace .. LastPlace} = Unused \ {obj[t] : t \in Putting}

Counted ==
  /\ Cardinality(Used) = FirstPlace - retnPtr
  /\ Outstanding <= Size /\ FirstPlace <= LastPlace + 1

IInv == PoolTypeOK /\ OneCall /\ CallState /\ NoSharing /\ Distinct /\ Available /\ Counted

-----------------------------------------------------------------------------
(* A pointer falls on a place of the buffer. *)
LEMMA PlaceInRange ==
  ASSUME NEW i \in Nat
  PROVE  PlaceOf(i) \in Objects
BY PoolAssumption, ModRange DEF PlaceOf, Objects

(* Coming gets look at places of the buffer, each at its own. *)
LEMMA PlacesDiffer ==
  ASSUME NEW i \in Nat, NEW j \in Nat, i # j, i - j < Size, j - i < Size
  PROVE  PlaceOf(i) # PlaceOf(j)
<1>1. i \in Int /\ j \in Int /\ Size \in Nat \ {0}
  BY PoolAssumption
<1>2. i % Size # j % Size
  BY <1>1, ModDistinct
<1> QED
  BY <1>2 DEF PlaceOf

(* What the contents of a place are. *)
LEMMA ContentType ==
  ASSUME PoolTypeOK, NEW p \in Objects
  PROVE  Content(p) \in Objects
BY DEF PoolTypeOK, Content

(* While no call is open the window reaches from pointer to pointer. *)
LEMMA WindowIdle ==
  ASSUME \A t \in Threads : pc[t] = "idle"
  PROVE  Getting = {} /\ Putting = {} /\ FirstPlace = freePtr /\ LastPlace = retnPtr + Size - 1
BY DEF Getting, Putting, FirstPlace, LastPlace

(* While a get is open its reserved reference comes first. *)
LEMMA WindowGet ==
  ASSUME OneCall, NEW t \in Threads, pc[t] \in {"read", "fresh"}
  PROVE  Putting = {} /\ FirstPlace = freePtr - 1 /\ LastPlace = retnPtr + Size - 1
<1>1. t \in Getting
  BY DEF Getting
<1>2. Putting = {}
  BY DEF OneCall, Putting
<1> QED
  BY <1>1, <1>2 DEF FirstPlace, LastPlace

(* While a free is open its unwritten reference is left out. *)
LEMMA WindowPut ==
  ASSUME OneCall, NEW t \in Threads, pc[t] = "put"
  PROVE  Getting = {} /\ Putting = {t} /\ FirstPlace = freePtr /\ LastPlace = retnPtr + Size - 2
<1>1. Putting = {t}
  BY DEF OneCall, Putting
<1>2. Getting = {}
  BY DEF OneCall, Getting
<1> QED
  BY <1>1, <1>2 DEF FirstPlace, LastPlace

(* There are finitely many handles to count. *)
LEMMA UsedFinite == IsFiniteSet(Used)
<1>1. IsFiniteSet(Objects)
  BY PoolAssumption, FS_Interval DEF Objects
<1> QED
  BY <1>1, FS_Subset DEF Used

-----------------------------------------------------------------------------
(* The pool starts with every object unused and at its own place. *)
LEMMA InitInv == Sequential /\ PoolInit => IInv
<1> SUFFICES ASSUME Sequential, PoolInit PROVE IInv
  OBVIOUS
<1>1. 0 \in Objects /\ Size \in Nat \ {0}
  BY PoolAssumption DEF Objects
<1>2. PoolTypeOK
  BY <1>1, PoolAssumption DEF PoolInit, PoolTypeOK
<1>3. OneCall /\ CallState /\ NoSharing
  BY DEF PoolInit, OneCall, CallState, NoSharing
<1>4. Putting = {} /\ FirstPlace = 0 /\ LastPlace = Size - 1
  BY WindowIdle, <1>1 DEF PoolInit
<1>5. \A p \in Objects : Content(p) = p
  BY DEF PoolInit, Content
<1>6. \A i \in FirstPlace .. LastPlace : PlaceOf(i) \in Objects /\ Content(PlaceOf(i)) = i
  <2> SUFFICES ASSUME NEW i \in 0 .. Size - 1 PROVE PlaceOf(i) = i /\ i \in Objects
    BY <1>4, <1>5
  <2> QED
    BY <1>1 DEF PlaceOf, Objects
<1>7. Distinct
  BY <1>6 DEF Distinct
<1>8. Unused = Objects /\ Used = {}
  BY DEF PoolInit, Unused, Used
<1>9. Available
  BY <1>4, <1>6, <1>8 DEF Available, Objects
<1>10. Counted
  BY <1>1, <1>4, <1>8, FS_EmptySet DEF Counted, Outstanding, PoolInit
<1> QED
  BY <1>2, <1>3, <1>7, <1>9, <1>10 DEF IInv

(* One lemma per action: it preserves the invariant. *)

(* Reserving the next reference moves it from the coming gets to this one. *)
LEMMA GetReserveInv ==
  ASSUME Sequential, IInv, NEW t \in Threads, GetReserve(t)
  PROVE  IInv'
<1> USE DEF IInv
<1>1. \A u \in Threads : pc[u] = "idle"
  BY DEF Sequential, GetReserve, CanCall
<1>2. /\ freePtr \in Nat /\ retnPtr \in Nat /\ Size \in Nat \ {0} /\ MaxGets \in Nat
      /\ Capacity \in Nat
      /\ freePtr' = freePtr + 1 /\ retnPtr' = retnPtr
      /\ freePtr - retnPtr < Size /\ freePtr < MaxGets
  BY PoolAssumption DEF PoolTypeOK, GetReserve, Sequential, Outstanding
<1>3. PlaceOf(freePtr) \in Objects
  BY <1>2, PlaceInRange
<1>4. pc' = [pc EXCEPT ![t] = "read"] /\ place' = [place EXCEPT ![t] = PlaceOf(freePtr)]
  BY DEF GetReserve, Goto
<1>5. refs' = refs /\ out' = out /\ obj' = obj
  BY DEF GetReserve
<1>6. PoolTypeOK'
  BY <1>2, <1>3, <1>4, <1>5 DEF PoolTypeOK
<1>7. pc'[t] = "read" /\ \A u \in Threads \ {t} : pc'[u] = "idle"
  BY <1>1, <1>4 DEF PoolTypeOK
<1>8. OneCall'
  BY <1>7 DEF OneCall
<1>9. CallState'
  BY <1>2, <1>4, <1>7 DEF CallState, PoolTypeOK
<1>10. NoSharing'
  BY <1>5 DEF NoSharing
<1>11. Putting = {} /\ FirstPlace = freePtr /\ LastPlace = retnPtr + Size - 1
  BY <1>1, WindowIdle
<1>12. Putting' = {} /\ FirstPlace' = freePtr' - 1 /\ LastPlace' = retnPtr' + Size - 1
  <2>1. t \in Getting' /\ Putting' = {}
    BY <1>7 DEF Getting, Putting
  <2> QED
    BY <2>1 DEF FirstPlace, LastPlace
<1>13. Putting' = Putting /\ FirstPlace' = FirstPlace /\ LastPlace' = LastPlace
  BY <1>2, <1>11, <1>12
<1>14. Distinct' /\ Available'
  BY <1>5, <1>11, <1>12, <1>13 DEF Distinct, Available, Content, Unused
<1>15. Counted'
  BY <1>2, <1>5, <1>13 DEF Counted, Used, Outstanding
<1> QED
  BY <1>6, <1>8, <1>9, <1>10, <1>14, <1>15

(* A get that ends hands out an unused object and leaves the rest. *)
LEMMA Delivered ==
  ASSUME IInv, NEW t \in Threads, pc[t] \in {"read", "fresh"},
         NEW o, o = Content(place[t]), Deliver(o), Goto(t, "idle"),
         PoolTypeOK', UNCHANGED <<freePtr, retnPtr, place, obj>>,
         \A p \in Objects : Content(p)' = Content(p)
  PROVE  IInv' /\ out[o] = 0 /\ o \in Objects
<1> USE DEF IInv
<1>1. /\ freePtr \in Nat /\ retnPtr \in Nat /\ Size \in Nat \ {0}
      /\ freePtr > 0 /\ place[t] = PlaceOf(freePtr - 1)
      /\ freePtr' = freePtr /\ retnPtr' = retnPtr
  BY PoolAssumption DEF PoolTypeOK, CallState
<1>2. Putting = {} /\ FirstPlace = freePtr - 1 /\ LastPlace = retnPtr + Size - 1
  BY WindowGet
<1>3. FirstPlace \in Nat /\ FirstPlace \in FirstPlace .. LastPlace /\ freePtr - 1 \in Nat
  BY <1>1, <1>2 DEF Counted, Outstanding
<1>4. o \in Unused
  BY <1>1, <1>2, <1>3 DEF Available
<1>5. o \in Objects /\ out[o] = 0 /\ out' = [out EXCEPT ![o] = 1]
  BY <1>4 DEF Unused, Deliver, PoolTypeOK
<1>6. \A u \in Threads : pc'[u] = "idle"
  BY DEF Goto, PoolTypeOK, OneCall
<1>7. OneCall' /\ CallState'
  BY <1>6 DEF OneCall, CallState
<1>8. NoSharing'
  BY <1>5 DEF NoSharing, PoolTypeOK
<1>9. Putting' = {} /\ FirstPlace' = FirstPlace + 1 /\ LastPlace' = LastPlace
  <2>1. Putting' = {} /\ Getting' = {}
    BY <1>6 DEF Putting, Getting
  <2> QED
    BY <2>1, <1>1, <1>2 DEF FirstPlace, LastPlace
<1>10. \A i \in FirstPlace .. LastPlace : PlaceOf(i) \in Objects /\ Content(PlaceOf(i))' = Content(PlaceOf(i))
  <2> SUFFICES ASSUME NEW i \in FirstPlace .. LastPlace
               PROVE  PlaceOf(i) \in Objects /\ Content(PlaceOf(i))' = Content(PlaceOf(i))
    OBVIOUS
  <2>1. i \in Nat
    BY <1>1, <1>2, <1>3
  <2> QED
    BY <2>1, PlaceInRange DEF Content
<1>11. FirstPlace' .. LastPlace' = (FirstPlace .. LastPlace) \ {FirstPlace}
  BY <1>1, <1>2, <1>3, <1>9
<1>12. Distinct'
  BY <1>10, <1>11 DEF Distinct
<1>13. Unused' = Unused \ {o}
  BY <1>5 DEF Unused, PoolTypeOK
<1>14. {Content(PlaceOf(i))' : i \in FirstPlace' .. LastPlace'}
         = {Content(PlaceOf(i)) : i \in FirstPlace .. LastPlace} \ {o}
  BY <1>1, <1>2, <1>3, <1>10, <1>11 DEF Distinct
<1>15. Available'
  BY <1>2, <1>9, <1>13, <1>14 DEF Available
<1>16. Used' = Used \cup {o} /\ o \notin Used
  BY <1>5 DEF Used, PoolTypeOK
<1>17. Counted'
  <2>1. Cardinality(Used') = Cardinality(Used) + 1
    BY <1>16, UsedFinite, FS_AddElement
  <2> QED
    BY <2>1, <1>1, <1>2, <1>9 DEF Counted, Outstanding
<1> QED
  BY <1>5, <1>7, <1>8, <1>12, <1>15, <1>17

(* A get that finds a reference hands out its object. *)
LEMMA GetRefInv ==
  ASSUME Sequential, IInv, NEW t \in Threads, GetRef(t)
  PROVE  IInv' /\ \E o \in Objects : P!Get(o)
<1>1. pc[t] = "read" /\ refs[place[t]] # Null /\ place[t] \in Objects
  BY DEF GetRef, IInv, PoolTypeOK
<1> DEFINE o == Content(place[t])
<1>2. o = refs[place[t]] /\ o \in Objects
  BY <1>1, ContentType DEF Content, IInv
<1>3. Deliver(o) /\ Goto(t, "idle") /\ UNCHANGED <<freePtr, retnPtr, place, obj>> /\ refs' = refs
  BY <1>2 DEF GetRef, Sequential
<1>4. PoolTypeOK'
  BY <1>2, <1>3 DEF PoolTypeOK, IInv, Deliver, Goto
<1>5. \A p \in Objects : Content(p)' = Content(p)
  BY <1>3 DEF Content
<1> HIDE DEF o
<1>6. IInv' /\ out[o] = 0 /\ o \in Objects
  BY <1>1, <1>3, <1>4, <1>5, Delivered DEF o
<1>7. P!Get(o)
  BY <1>3, <1>6 DEF P!Get, Deliver, IInv, PoolTypeOK
<1> QED
  BY <1>6, <1>7

(* Reading an empty reference changes nothing yet. *)
LEMMA GetNullInv ==
  ASSUME Sequential, IInv, NEW t \in Threads, GetNull(t)
  PROVE  IInv'
<1> USE DEF IInv
<1>1. /\ pc[t] = "read" /\ refs[place[t]] = Null /\ pc' = [pc EXCEPT ![t] = "fresh"]
      /\ UNCHANGED <<freePtr, retnPtr, refs, out, place, obj>>
  BY DEF GetNull, Goto
<1>2. PoolTypeOK'
  BY <1>1 DEF PoolTypeOK
<1>3. pc'[t] = "fresh" /\ \A u \in Threads \ {t} : pc[u] = "idle" /\ pc'[u] = "idle"
  BY <1>1 DEF PoolTypeOK, OneCall
<1>4. OneCall' /\ CallState' /\ NoSharing'
  BY <1>1, <1>3 DEF OneCall, CallState, NoSharing
<1>5. Putting' = Putting /\ FirstPlace' = FirstPlace /\ LastPlace' = LastPlace /\ Putting = {}
  <2>1. t \in Getting /\ t \in Getting' /\ Putting = {} /\ Putting' = {}
    BY <1>1, <1>3 DEF Getting, Putting
  <2> QED
    BY <2>1, <1>1 DEF FirstPlace, LastPlace
<1>6. Distinct' /\ Available' /\ Counted'
  BY <1>1, <1>5 DEF Distinct, Available, Counted, Content, Unused, Used, Outstanding
<1> QED
  BY <1>2, <1>4, <1>6

(* A get at a fresh place hands out the object of that place. *)
LEMMA GetFreshInv ==
  ASSUME Sequential, IInv, NEW t \in Threads, GetFresh(t)
  PROVE  IInv' /\ \E o \in Objects : P!Get(o)
<1>1. pc[t] = "fresh" /\ refs[place[t]] = Null /\ place[t] \in Objects
  BY DEF GetFresh, IInv, PoolTypeOK, CallState
<1> DEFINE o == Content(place[t])
<1>2. o = place[t] /\ o \in Objects
  BY <1>1 DEF Content
<1>3. /\ Deliver(o) /\ Goto(t, "idle") /\ UNCHANGED <<freePtr, retnPtr, place, obj>>
      /\ refs' = [refs EXCEPT ![place[t]] = place[t]]
  BY <1>2 DEF GetFresh
<1>4. PoolTypeOK'
  BY <1>1, <1>2, <1>3 DEF PoolTypeOK, IInv, Deliver, Goto
<1>5. \A p \in Objects : Content(p)' = Content(p)
  BY <1>1, <1>3, PoolAssumption DEF Content, IInv, PoolTypeOK
<1> HIDE DEF o
<1>6. IInv' /\ out[o] = 0 /\ o \in Objects
  BY <1>1, <1>3, <1>4, <1>5, Delivered DEF o
<1>7. P!Get(o)
  BY <1>3, <1>6 DEF P!Get, Deliver, IInv, PoolTypeOK
<1> QED
  BY <1>6, <1>7

(* A free reserves the place of a reference nobody waits for. *)
LEMMA FreeReserveInv ==
  ASSUME Sequential, IInv, NEW t \in Threads, NEW h \in Objects, FreeReserve(t, h)
  PROVE  IInv' /\ P!Free(h)
<1> USE DEF IInv
<1>1. \A u \in Threads : pc[u] = "idle"
  BY DEF Sequential, FreeReserve, CanCall
<1>2. /\ freePtr \in Nat /\ retnPtr \in Nat /\ Size \in Nat \ {0}
      /\ freePtr' = freePtr /\ retnPtr' = retnPtr + 1 /\ refs' = refs
      /\ PlaceOf(retnPtr) \in Objects
  BY PoolAssumption, PlaceInRange DEF PoolTypeOK, FreeReserve, ReturnOf
<1>3. /\ pc' = [pc EXCEPT ![t] = "put"]
      /\ place' = [place EXCEPT ![t] = PlaceOf(retnPtr)]
      /\ obj' = [obj EXCEPT ![t] = h]
  BY DEF FreeReserve, ReturnOf, Goto
<1>4. out[h] = 1 /\ out' = [out EXCEPT ![h] = 0]
  <2>1. out[h] \in Nat /\ out[h] <= 1 /\ out[h] > 0
    BY DEF FreeReserve, NoSharing, PoolTypeOK
  <2>2. out' = [out EXCEPT ![h] = out[h] - 1]
    BY DEF FreeReserve
  <2>3. out[h] = 1 /\ out[h] - 1 = 0
    BY <2>1
  <2> QED
    BY <2>2, <2>3
<1>5. PoolTypeOK'
  BY <1>2, <1>3, <1>4 DEF PoolTypeOK
<1>6. pc'[t] = "put" /\ \A u \in Threads \ {t} : pc'[u] = "idle"
  BY <1>1, <1>3 DEF PoolTypeOK
<1>7. OneCall' /\ NoSharing'
  BY <1>4, <1>6 DEF OneCall, NoSharing, PoolTypeOK
<1>8. CallState'
  <2>1. place'[t] = PlaceOf(retnPtr' - 1) /\ obj'[t] = h /\ retnPtr' > 0
    BY <1>2, <1>3 DEF PoolTypeOK
  <2>2. h \in Unused'
    BY <1>4 DEF Unused, PoolTypeOK
  <2> QED
    BY <2>1, <2>2, <1>6 DEF CallState, PlaceOf
<1>9. Putting = {} /\ FirstPlace = freePtr /\ LastPlace = retnPtr + Size - 1
  BY <1>1, WindowIdle
<1>10. Putting' = {t} /\ FirstPlace' = FirstPlace /\ LastPlace' = LastPlace
  <2>1. Getting' = {} /\ Putting' = {t}
    BY <1>6 DEF Getting, Putting
  <2> QED
    BY <2>1, <1>2, <1>9 DEF FirstPlace, LastPlace
<1>11. Distinct'
  BY <1>2, <1>10 DEF Distinct, Content, PlaceOf
<1>12. Unused' \ {obj'[u] : u \in Putting'} = Unused \ {obj[u] : u \in Putting}
  <2>1. Unused' = Unused \cup {h} /\ h \notin Unused
    BY <1>4 DEF Unused, PoolTypeOK
  <2>2. {obj'[u] : u \in Putting'} = {h}
    BY <1>3, <1>10 DEF PoolTypeOK
  <2> QED
    BY <2>1, <2>2, <1>9
<1>13. Available'
  BY <1>2, <1>10, <1>12 DEF Available, Content, PlaceOf
<1>14. Used = Used' \cup {h} /\ h \notin Used' /\ Used' = Used \ {h} /\ h \in Used
  BY <1>4 DEF Used, PoolTypeOK
<1>15. Counted'
  <2>1. Cardinality(Used') = Cardinality(Used) - 1
    BY <1>14, UsedFinite, FS_RemoveElement
  <2> QED
    BY <2>1, <1>2, <1>9, <1>10 DEF Counted, Outstanding
<1>16. P!Free(h)
  BY <1>4 DEF P!Free
<1> QED
  BY <1>5, <1>7, <1>8, <1>11, <1>13, <1>15, <1>16

(* The reference a free writes comes last of the coming gets. *)
LEMMA FreePutInv ==
  ASSUME Sequential, IInv, NEW t \in Threads, FreePut(t)
  PROVE  IInv'
<1> USE DEF IInv
<1>1. /\ pc[t] = "put" /\ obj[t] \in Unused /\ obj[t] \in Objects
      /\ freePtr \in Nat /\ retnPtr \in Nat /\ retnPtr > 0 /\ Size \in Nat \ {0}
      /\ place[t] = PlaceOf(retnPtr - 1) /\ place[t] \in Objects
  BY PoolAssumption DEF FreePut, CallState, PoolTypeOK, Unused
<1>2. /\ refs' = [refs EXCEPT ![place[t]] = obj[t]] /\ pc' = [pc EXCEPT ![t] = "idle"]
      /\ UNCHANGED <<freePtr, retnPtr, out, place, obj>>
  BY DEF FreePut, Goto
<1>3. PoolTypeOK'
  BY <1>1, <1>2 DEF PoolTypeOK
<1>4. \A u \in Threads : pc'[u] = "idle"
  BY <1>1, <1>2 DEF PoolTypeOK, OneCall
<1>5. OneCall' /\ CallState' /\ NoSharing'
  BY <1>2, <1>4 DEF OneCall, CallState, NoSharing
<1>6. Putting = {t} /\ FirstPlace = freePtr /\ LastPlace = retnPtr + Size - 2
  BY <1>1, WindowPut
<1>7. Putting' = {} /\ FirstPlace' = FirstPlace /\ LastPlace' = LastPlace + 1
  <2>1. Putting' = {} /\ Getting' = {}
    BY <1>4 DEF Putting, Getting
  <2> QED
    BY <2>1, <1>1, <1>2, <1>6 DEF FirstPlace, LastPlace
<1>8. FirstPlace \in Nat /\ LastPlace \in Int /\ retnPtr <= FirstPlace /\ FirstPlace <= LastPlace + 1
  <2>1. Cardinality(Used) \in Nat
    BY UsedFinite, FS_CardinalityType
  <2> QED
    BY <2>1, <1>1, <1>6 DEF Counted, Outstanding
<1> PICK k \in Int : k = LastPlace + 1
  BY <1>8
<1>9. Content(PlaceOf(k))' = obj[t]
  <2>1. retnPtr - 1 \in Nat /\ k = retnPtr - 1 + Size
    BY <1>1, <1>6
  <2>2. PlaceOf(k) = place[t]
    <3>1. PICK i \in Int : i = retnPtr - 1
      BY <2>1
    <3>2. (i + Size) % Size = i % Size
      BY <1>1, ModLap
    <3> QED
      BY <3>1, <3>2, <2>1, <1>1 DEF PlaceOf
  <2>3. refs'[place[t]] = obj[t] /\ obj[t] # Null
    BY <1>1, <1>2, PoolAssumption DEF PoolTypeOK
  <2> QED
    BY <2>2, <2>3 DEF Content, PlaceOf
<1>10. \A i \in FirstPlace .. LastPlace : Content(PlaceOf(i))' = Content(PlaceOf(i))
  <2> SUFFICES ASSUME NEW i \in FirstPlace .. LastPlace
               PROVE  Content(PlaceOf(i))' = Content(PlaceOf(i))
    OBVIOUS
  <2>1. /\ i \in Nat /\ retnPtr - 1 \in Nat
        /\ i # retnPtr - 1 /\ i - (retnPtr - 1) < Size /\ (retnPtr - 1) - i < Size
    BY <1>1, <1>6, <1>8
  <2>2. PlaceOf(i) # place[t] /\ PlaceOf(i) \in Objects
    BY <2>1, <1>1, PlacesDiffer, PlaceInRange
  <2> QED
    BY <2>2, <1>2 DEF Content, PlaceOf, PoolTypeOK
<1>11. FirstPlace' .. LastPlace' = (FirstPlace .. LastPlace) \cup {k} /\ k \notin FirstPlace .. LastPlace
  BY <1>1, <1>7, <1>8
<1>12. Unused' = Unused /\ Used' = Used
  BY <1>2 DEF Unused, Used
<1>13. {Content(PlaceOf(i)) : i \in FirstPlace .. LastPlace} = Unused \ {obj[t]}
  BY <1>6 DEF Available
<1>14. Distinct'
  <2>1. \A i \in FirstPlace .. LastPlace : Content(PlaceOf(i)) # obj[t]
    BY <1>13
  <2> QED
    BY <2>1, <1>9, <1>10, <1>11 DEF Distinct
<1>15. Available'
  <2>1. {Content(PlaceOf(i))' : i \in FirstPlace' .. LastPlace'} = (Unused \ {obj[t]}) \cup {obj[t]}
    BY <1>9, <1>10, <1>11, <1>13
  <2> QED
    BY <2>1, <1>1, <1>7, <1>12 DEF Available
<1>16. Counted'
  BY <1>2, <1>7, <1>8, <1>12 DEF Counted, Outstanding
<1> QED
  BY <1>3, <1>5, <1>14, <1>15, <1>16

-----------------------------------------------------------------------------
(* Every step of a sequential program keeps the invariant and is a step of *)
(* the abstract pool, or leaves its handles alone.                         *)
LEMMA StepInv ==
  ASSUME Sequential, IInv, [PoolNext]_poolVars
  PROVE  IInv' /\ [P!Next]_out
<1>1. CASE UNCHANGED poolVars
  BY <1>1 DEF poolVars, IInv, PoolTypeOK, OneCall, CallState, NoSharing, Distinct, Available,
     Counted, Content, FirstPlace, LastPlace, Getting, Putting, Unused, Used, Outstanding
<1>2. ASSUME NEW t \in Threads, GetReserve(t)
      PROVE  IInv' /\ [P!Next]_out
  BY <1>2, GetReserveInv DEF GetReserve
<1>3. ASSUME NEW t \in Threads, GetRef(t)
      PROVE  IInv' /\ [P!Next]_out
  BY <1>3, GetRefInv DEF P!Next
<1>4. ASSUME NEW t \in Threads, GetNull(t)
      PROVE  IInv' /\ [P!Next]_out
  BY <1>4, GetNullInv DEF GetNull
<1>5. ASSUME NEW t \in Threads, GetFresh(t)
      PROVE  IInv' /\ [P!Next]_out
  BY <1>5, GetFreshInv DEF P!Next
<1>6. ASSUME NEW t \in Threads, NEW h \in Objects, FreeReserve(t, h)
      PROVE  IInv' /\ [P!Next]_out
  BY <1>6, FreeReserveInv DEF P!Next
<1>7. ASSUME NEW t \in Threads, FreePut(t)
      PROVE  IInv' /\ [P!Next]_out
  BY <1>7, FreePutInv DEF FreePut
<1> QED
  BY <1>1, <1>2, <1>3, <1>4, <1>5, <1>6, <1>7 DEF PoolNext, Get, Free

(* The invariant holds of every sequential use of a pool of any size. *)
THEOREM PoolInvariance == Sequential => (PoolSpec => []IInv)
<1> SUFFICES ASSUME Sequential PROVE PoolSpec => []IInv
  OBVIOUS
<1>1. PoolInit => IInv
  BY InitInv
<1>2. IInv /\ [PoolNext]_poolVars => IInv'
  BY StepInv
<1> QED
  BY <1>1, <1>2, PTL DEF PoolSpec

(* Between sequential calls, the gets to come find exactly the objects     *)
(* that __hostptrGet and streamGet have handed to nobody.                  *)
THEOREM PoolConserved == Sequential => (PoolSpec => []NoHandleLost)
<1> SUFFICES ASSUME Sequential PROVE PoolSpec => []NoHandleLost
  OBVIOUS
<1>1. IInv => NoHandleLost
  BY WindowIdle DEF IInv, Available, NoHandleLost, Unused
<1> QED
  BY <1>1, PoolInvariance, PTL

(* Used sequentially, the buffer of references implements a pool: what     *)
(* __hostptrGet and streamGet hand out is in nobody's hands.               *)
THEOREM PoolRefinement == Sequential => (PoolSpec => ImplementsPool)
<1> SUFFICES ASSUME Sequential PROVE PoolSpec => P!Spec
  BY DEF ImplementsPool
<1>1. PoolInit => P!Init
  BY DEF PoolInit, P!Init
<1>2. IInv /\ [PoolNext]_poolVars => [P!Next]_out
  BY StepInv
<1> QED
  BY <1>1, <1>2, PoolInvariance, PTL DEF PoolSpec, P!Spec
=============================================================================
