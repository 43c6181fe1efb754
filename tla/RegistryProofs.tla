--------------------------- MODULE RegistryProofs ---------------------------
(***************************************************************************)
(* Proofs about three parts of a program that do not meet: the calls of    *)
(* runtimeInitialize and runtimeShutdown, for any number of threads and of *)
(* failing allocations; the list of executors, for any number of           *)
(* executors, however often they are registered and unregistered; and the  *)
(* hash table, for any keys, codes and elements.                           *)
(***************************************************************************)
EXTENDS RuntimeInit, Executors, HashTable, RingArithmetic, SequenceTheorems,
        FiniteSetTheorems

(* The threads at some labels are finitely many. *)
LEMMA AtFinite ==
  ASSUME NEW L
  PROVE  IsFiniteSet(At(L)) /\ Cardinality(At(L)) \in Nat
BY RuntimeConstants, FS_Subset, FS_CardinalityType DEF At

(* Nobody has called yet.                                                  *)
LEMMA InitInv == RtInit => RtIInv
<1> SUFFICES ASSUME RtInit PROVE RtIInv
  OBVIOUS
<1>1. RtTypeOK
  BY DEF RtInit, RtTypeOK, Down, Labels
<1>2. \A t \in Threads : pc[t] = "out"
  BY DEF RtInit
<1>3. At(Counted) = {} /\ At(Counted \cup {"count"}) = {}
  BY <1>2 DEF At, Counted
<1>4. InitMutexLives
  BY <1>3, FS_EmptySet DEF InitMutexLives, RtInit, Down
<1>5. InsideOwns
  BY <1>2, RuntimeConstants DEF InsideOwns, InMaster, RtInit, Down
<1>6. SetUpBeforeUse /\ BodyOnce
  BY <1>2 DEF SetUpBeforeUse, BodyOnce, InStatic, InMaster, Counted, RtInit
<1> QED
  BY <1>1, <1>4, <1>5, <1>6 DEF RtIInv

---------------------------------------------------------------------------
(* A thread that moves without entering or leaving a mutex, and without    *)
(* being counted or uncounted, leaves initMutex as it is.                  *)
LEMMA Moved ==
  ASSUME RtIInv, NEW t \in Threads, NEW l \in Labels,
         pc' = [pc EXCEPT ![t] = l], owner' = owner,
         config'.initMutex = config.initMutex, config'.refs = config.refs,
         pc[t] \in Counted <=> l \in Counted, pc[t] = "count" <=> l = "count",
         pc[t] \in InMaster <=> l \in InMaster, pc[t] \in InInit <=> l \in InInit
  PROVE  InitMutexLives' /\ InsideOwns'
<1>1. \A u \in Threads : /\ pc'[u] \in Counted <=> pc[u] \in Counted
                         /\ pc'[u] = "count" <=> pc[u] = "count"
                         /\ pc'[u] \in InMaster <=> pc[u] \in InMaster
                         /\ pc'[u] \in InInit <=> pc[u] \in InInit
  BY DEF RtIInv, RtTypeOK
<1>2. At(Counted)' = At(Counted) /\ At(Counted \cup {"count"})' = At(Counted \cup {"count"})
  BY <1>1 DEF At
<1>3. InitMutexLives'
  BY <1>2 DEF RtIInv, InitMutexLives
<1>4. InsideOwns'
  BY <1>1 DEF RtIInv, InsideOwns
<1> QED
  BY <1>3, <1>4

(* What depends on the label alone. *)
LEMMA StaysSetUp ==
  ASSUME RtIInv, NEW t \in Threads, NEW l \in Labels, pc' = [pc EXCEPT ![t] = l],
         mutexIsInit' => statics', statics => statics', methods = "all" => methods' = "all",
         l \in {"lock", "setup", "known", "spin"} \cup InStatic => methods' = "all",
         l \in {"known"} \cup InStatic => statics'
  PROVE  SetUpBeforeUse'
BY DEF RtIInv, RtTypeOK, SetUpBeforeUse

(* A step outside of the body does not change that it runs once.           *)
LEMMA StaysOnce ==
  ASSUME RtIInv, NEW t \in Threads, NEW l \in Labels, pc' = [pc EXCEPT ![t] = l],
         config'.isInit = config.isInit, l = "set" => ~config.isInit,
         l \in {"leave", "again", "uncount"} => config.isInit
  PROVE  BodyOnce'
BY DEF RtIInv, RtTypeOK, BodyOnce

(* One lemma for each group of actions: it preserves the invariant. *)

(* On the way to the master mutex. *)
LEMMA ArrivesInv ==
  ASSUME RtIInv, NEW t \in Threads,
         Call(t) \/ CheckInit(t) \/ CheckMethods(t) \/ CopyMethods(t) \/ CopyAlloc(t)
           \/ ElectSetup(t) \/ SetupStatics(t) \/ SetupKnown(t) \/ AwaitSetup(t)
  PROVE  RtIInv'
<1> DEFINE Before == {"out", "check", "methods", "copy", "alloc", "lock", "setup", "known",
                      "spin", "master"}
<1>1. PICK l \in Before : pc' = [pc EXCEPT ![t] = l] /\ pc[t] \in Before \ {"master"}
  BY DEF Goto, Return, Call, CheckInit, CheckMethods, CopyMethods, CopyAlloc,
     ElectSetup, SetupStatics, SetupKnown, AwaitSetup
<1>2. l \in Labels /\ owner' = owner /\ config' = config /\ fails' = fails
  BY <1>1 DEF Labels, InStatic, Call, CheckInit, CheckMethods, CopyMethods, CopyAlloc,
     ElectSetup, SetupStatics, SetupKnown, AwaitSetup
<1>3. RtTypeOK'
  <2>1. /\ methods' \in {"none", "partial", "all"} /\ mutexLock' \in {0, 1}
        /\ statics' \in BOOLEAN /\ mutexIsInit' \in BOOLEAN
    BY DEF RtIInv, RtTypeOK, Call, CheckInit, CheckMethods, CopyMethods, CopyAlloc,
       ElectSetup, SetupStatics, SetupKnown, AwaitSetup, config_of
  <2>2. reply' \in [Threads -> {"out", "ok", "failed"}]
    BY DEF RtIInv, RtTypeOK, Goto, Return, Call, CheckInit, CheckMethods, CopyMethods, CopyAlloc,
       ElectSetup, SetupStatics, SetupKnown, AwaitSetup
  <2>3. pc' \in [Threads -> Labels]
    BY <1>1, <1>2 DEF RtIInv, RtTypeOK
  <2> QED
    BY <1>2, <2>1, <2>2, <2>3 DEF RtIInv, RtTypeOK
<1>4. InitMutexLives' /\ InsideOwns'
  BY <1>1, <1>2, Moved DEF Counted, InMaster, InInit
<1>5. SetUpBeforeUse'
  BY <1>1, <1>2 DEF RtIInv, RtTypeOK, SetUpBeforeUse, InStatic, InMaster, Counted, Goto, Return, Call,
     CheckInit, CheckMethods, CopyMethods, CopyAlloc, ElectSetup, SetupStatics, SetupKnown,
     AwaitSetup, config_of
<1>6. BodyOnce'
  BY <1>1, <1>2, StaysOnce
<1> QED
  BY <1>3, <1>4, <1>5, <1>6 DEF RtIInv


(* What the invariant says of a thread in the master mutex, and of the     *)
(* names of the mutexes.                                                   *)
LEMMA Insiders ==
  ASSUME RtIInv
  PROVE  /\ "master" \in DOMAIN owner /\ Null \notin DOMAIN owner /\ Null \notin Threads
         /\ config.initMutex # "master"
         /\ config.initMutex # Null => config.initMutex \in DOMAIN owner
         /\ \A t, u \in Threads : pc[t] \in InMaster /\ pc[u] \in InMaster => t = u
         /\ \A t \in Threads : pc[t] \in Counted \cup {"count"} => config.initMutex # Null
         /\ config.initMutex # Null =>
              \A t, u \in Threads : pc[t] \in InInit /\ pc[u] \in InInit => t = u
<1>1. config.initMutex \in Mutexes \cup {Null}
  BY DEF RtIInv, RtTypeOK
<1>2. \A t \in Threads : pc[t] \in Counted \cup {"count"} => config.initMutex # Null
  BY DEF RtIInv, InitMutexLives, At
<1> QED
  BY <1>1, <1>2, RuntimeConstants DEF RtIInv, InitMutexLives, InsideOwns

(* A thread that moves without being counted or uncounted: the count is    *)
(* still that of the threads counted.                                      *)
LEMMA CountStays ==
  ASSUME RtIInv, NEW t \in Threads, NEW l \in Labels, pc' = [pc EXCEPT ![t] = l],
         DOMAIN owner' = DOMAIN owner,
         config'.initMutex = config.initMutex, config'.refs = config.refs,
         pc[t] \in Counted <=> l \in Counted, pc[t] = "count" <=> l = "count"
  PROVE  InitMutexLives'
<1>1. \A u \in Threads : (pc'[u] \in Counted <=> pc[u] \in Counted)
                         /\ (pc'[u] = "count" <=> pc[u] = "count")
  BY DEF RtIInv, RtTypeOK
<1>2. At(Counted)' = At(Counted) /\ At(Counted \cup {"count"})' = At(Counted \cup {"count"})
  BY <1>1 DEF At
<1> QED
  BY <1>2 DEF RtIInv, InitMutexLives

(* Entering a mutex: the static one, to begin and to end the call, and     *)
(* initMutex in between.                                                   *)
LEMMA EnterInv ==
  ASSUME RtIInv, NEW t \in Threads,
         EnterMaster(t) \/ EnterInit(t) \/ EnterMasterAgain(t)
  PROVE  RtIInv'
<1>1. PICK l \in Labels, m \in {"master", config.initMutex} :
        /\ pc' = [pc EXCEPT ![t] = l]
        /\ owner[m] = Null /\ owner' = [owner EXCEPT ![m] = t]
        /\ \/ pc[t] = "master" /\ l = "malloc" /\ m = "master"
           \/ pc[t] = "enter" /\ l = "body" /\ m = config.initMutex
           \/ pc[t] = "again" /\ l = "uncount" /\ m = "master"
  BY DEF EnterMaster, EnterInit, EnterMasterAgain, Enter, Goto, Labels, InStatic, InMaster, Counted
<1>2. /\ config' = config /\ UNCHANGED config_of /\ fails' = fails /\ reply' = reply
  BY DEF EnterMaster, EnterInit, EnterMasterAgain, Goto
<1>3. m \in DOMAIN owner
  BY <1>1, Insiders DEF Counted
<1>4. RtTypeOK'
  BY <1>1, <1>2, <1>3 DEF RtIInv, RtTypeOK, config_of
<1>5. InitMutexLives'
  BY <1>1, <1>2, CountStays DEF Counted
<1>6. InsideOwns'
  <2> SUFFICES ASSUME NEW u \in Threads
               PROVE  /\ pc'[u] \in InMaster <=> owner'["master"] = u
                      /\ config.initMutex # Null => (pc'[u] \in InInit <=> owner'[config.initMutex] = u)
    BY <1>2 DEF InsideOwns
  <2>1. /\ pc[u] \in InMaster <=> owner["master"] = u
        /\ config.initMutex # Null => (pc[u] \in InInit <=> owner[config.initMutex] = u)
    BY DEF RtIInv, InsideOwns
  <2>2. pc'[u] = IF u = t THEN l ELSE pc[u]
    BY <1>1 DEF RtIInv, RtTypeOK
  <2> QED
    BY <1>1, <1>3, <2>1, <2>2, Insiders DEF InMaster, InInit
<1>7. SetUpBeforeUse'
  <2>1. methods = "all" /\ statics
    BY <1>1 DEF RtIInv, SetUpBeforeUse, InStatic, Counted
  <2> QED
    BY <1>1, <1>2, <2>1, StaysSetUp DEF RtIInv, SetUpBeforeUse, config_of
<1>8. BodyOnce'
  BY <1>1, <1>2, StaysOnce DEF RtIInv, BodyOnce
<1> QED
  BY <1>4, <1>5, <1>6, <1>7, <1>8 DEF RtIInv

(* The body, when the library is found to be up or is brought up. *)
LEMMA BodyInv ==
  ASSUME RtIInv, NEW t \in Threads, Body(t) \/ SetInit(t)
  PROVE  RtIInv'
<1>1. PICK l \in {"leave", "set"} :
        /\ pc' = [pc EXCEPT ![t] = l] /\ pc[t] \in {"body", "set"}
        /\ l = "set" => ~config.isInit
        /\ l = "leave" => config'.isInit
        /\ pc[t] = "body" => config' = config
        /\ pc[t] = "set" => l = "leave"
  BY DEF Body, SetInit, Goto, RtIInv, RtTypeOK
<1>2. /\ owner' = owner /\ UNCHANGED config_of /\ fails' = fails /\ reply' = reply
      /\ \/ config' = config
         \/ config' = [config EXCEPT !.isInit = TRUE]
  BY DEF Body, SetInit, Goto
<1>3. l \in Labels
  BY DEF Labels, InStatic, Counted
<1>4. RtTypeOK'
  BY <1>1, <1>2, <1>3 DEF RtIInv, RtTypeOK, config_of
<1>5. config'.initMutex = config.initMutex /\ config'.refs = config.refs
  BY <1>2 DEF RtIInv, RtTypeOK
<1>6. InitMutexLives' /\ InsideOwns'
  BY <1>1, <1>2, <1>3, <1>5, Moved DEF Counted, InMaster, InInit
<1>7. SetUpBeforeUse'
  <2>1. methods = "all" /\ statics
    BY <1>1 DEF RtIInv, SetUpBeforeUse, InStatic, Counted
  <2> QED
    BY <1>1, <1>2, <1>3, <2>1, StaysSetUp DEF RtIInv, SetUpBeforeUse, config_of
<1>8. \A u \in Threads \ {t} : pc[u] # "set"  \/ config'.isInit = config.isInit
  BY <1>1, Insiders DEF InInit, Counted
<1>9. config.isInit => config'.isInit
  BY <1>2 DEF RtIInv, RtTypeOK
<1>10. BodyOnce'
  BY <1>1, <1>8, <1>9 DEF RtIInv, RtTypeOK, BodyOnce
<1> QED
  BY <1>4, <1>6, <1>7, <1>10 DEF RtIInv

(* Leaving initMutex. *)
LEMMA LeaveInv ==
  ASSUME RtIInv, NEW t \in Threads, LeaveInit(t)
  PROVE  RtIInv'
<1>1. /\ pc[t] = "leave" /\ pc' = [pc EXCEPT ![t] = "again"] /\ reply' = reply
      /\ owner' = [owner EXCEPT ![config.initMutex] = Null]
      /\ config' = config /\ UNCHANGED config_of /\ fails' = fails
  BY DEF LeaveInit, Goto, Release
<1>2. "again" \in Labels /\ config.initMutex \in DOMAIN owner /\ config.initMutex # Null
  BY <1>1, Insiders DEF Labels, InStatic, Counted
<1>3. RtTypeOK'
  BY <1>1, <1>2 DEF RtIInv, RtTypeOK, config_of
<1>4. InitMutexLives'
  BY <1>1, <1>2, CountStays DEF Counted
<1>5. InsideOwns'
  <2> SUFFICES ASSUME NEW u \in Threads
               PROVE  /\ pc'[u] \in InMaster <=> owner'["master"] = u
                      /\ pc'[u] \in InInit <=> owner'[config.initMutex] = u
    BY <1>1 DEF InsideOwns
  <2>1. /\ pc[u] \in InMaster <=> owner["master"] = u
        /\ pc[u] \in InInit <=> owner[config.initMutex] = u
    BY <1>2 DEF RtIInv, InsideOwns
  <2>2. pc'[u] = IF u = t THEN "again" ELSE pc[u]
    BY <1>1 DEF RtIInv, RtTypeOK
  <2>3. pc[u] \in InInit => u = t
    BY <1>1, <1>2, Insiders DEF InInit
  <2> QED
    BY <1>1, <1>2, <2>1, <2>2, <2>3, Insiders DEF InMaster, InInit
<1>6. SetUpBeforeUse'
  <2>1. methods = "all" /\ statics
    BY <1>1 DEF RtIInv, SetUpBeforeUse, InStatic, Counted
  <2> QED
    BY <1>1, <1>2, <2>1, StaysSetUp DEF RtIInv, SetUpBeforeUse, config_of
<1>7. BodyOnce'
  BY <1>1, <1>2, StaysOnce DEF RtIInv, BodyOnce
<1> QED
  BY <1>3, <1>4, <1>5, <1>6, <1>7 DEF RtIInv

(* Leaving the master mutex, with initMutex as it was. *)
LEMMA OutOfMaster ==
  ASSUME RtIInv, NEW t \in Threads, NEW l \in Labels, pc' = [pc EXCEPT ![t] = l],
         pc[t] \in InMaster, l \notin InMaster, l \notin InInit,
         config'.initMutex \in {config.initMutex, Null},
         owner'["master"] = Null,
         config'.initMutex # Null => owner'[config.initMutex] = owner[config.initMutex]
  PROVE  InsideOwns'
<1> SUFFICES ASSUME NEW u \in Threads
             PROVE  /\ pc'[u] \in InMaster <=> owner'["master"] = u
                    /\ config'.initMutex # Null
                         => (pc'[u] \in InInit <=> owner'[config'.initMutex] = u)
  BY DEF InsideOwns
<1>1. /\ pc[u] \in InMaster <=> owner["master"] = u
      /\ config.initMutex # Null => (pc[u] \in InInit <=> owner[config.initMutex] = u)
  BY DEF RtIInv, InsideOwns
<1>2. pc'[u] = IF u = t THEN l ELSE pc[u]
  BY DEF RtIInv, RtTypeOK
<1>3. pc[u] \in InMaster => u = t
  BY Insiders
<1>4. pc[t] \notin InInit
  BY DEF InMaster, InInit
<1> QED
  BY <1>1, <1>2, <1>3, <1>4, Insiders

(* An allocation fails. *)
LEMMA FailInv ==
  ASSUME RtIInv, NEW t \in Threads, pc[t] \in {"malloc", "make"}, Fail(t), UNCHANGED config
  PROVE  RtIInv'
<1>1. /\ pc' = [pc EXCEPT ![t] = "out"] /\ reply' = [reply EXCEPT ![t] = "failed"]
      /\ owner' = [owner EXCEPT !["master"] = Null]
      /\ fails' = fails + 1 /\ UNCHANGED config_of
  BY DEF Fail, Return, Release
<1>2. "out" \in Labels /\ "master" \in DOMAIN owner
  BY Insiders DEF Labels
<1>3. RtTypeOK'
  BY <1>1, <1>2 DEF RtIInv, RtTypeOK, config_of
<1>4. InitMutexLives'
  BY <1>1, <1>2, CountStays DEF Counted
<1>5. InsideOwns'
  BY <1>1, <1>2, OutOfMaster, Insiders DEF InMaster, InInit
<1>6. SetUpBeforeUse'
  BY <1>1, <1>2, StaysSetUp DEF RtIInv, SetUpBeforeUse, config_of, InStatic, InMaster, Counted
<1>7. BodyOnce'
  BY <1>1, <1>2, StaysOnce
<1> QED
  BY <1>3, <1>4, <1>5, <1>6, <1>7 DEF RtIInv

(* The allocator comes up. *)
LEMMA MallocInv ==
  ASSUME RtIInv, NEW t \in Threads, InitMalloc(t)
  PROVE  RtIInv'
<1>1. CASE Fail(t) /\ UNCHANGED config
  BY <1>1, FailInv DEF InitMalloc
<1>2. CASE /\ config' = [config EXCEPT !.isMallocInit = TRUE]
           /\ Goto(t, "make") /\ UNCHANGED <<config_of, owner, fails>>
  <2>1. /\ pc[t] = "malloc" /\ pc' = [pc EXCEPT ![t] = "make"] /\ reply' = reply
        /\ owner' = owner /\ fails' = fails /\ UNCHANGED config_of
        /\ config' = [config EXCEPT !.isMallocInit = TRUE]
    BY <1>2 DEF InitMalloc, Goto
  <2>2. "make" \in Labels
    BY DEF Labels, InStatic, InMaster
  <2>3. RtTypeOK'
    BY <2>1, <2>2 DEF RtIInv, RtTypeOK, config_of
  <2>4. /\ config'.initMutex = config.initMutex /\ config'.refs = config.refs
        /\ config'.isInit = config.isInit
    BY <2>1 DEF RtIInv, RtTypeOK
  <2>5. InitMutexLives' /\ InsideOwns'
    BY <2>1, <2>2, <2>4, Moved DEF Counted, InMaster, InInit
  <2>6. SetUpBeforeUse'
    BY <2>1, <2>2, StaysSetUp DEF RtIInv, SetUpBeforeUse, config_of, InStatic, InMaster, Counted
  <2>7. BodyOnce'
    BY <2>1, <2>2, <2>4, StaysOnce
  <2> QED
    BY <2>3, <2>5, <2>6, <2>7 DEF RtIInv
<1> QED
  BY <1>1, <1>2 DEF InitMalloc

(* initMutex is made, or has been. *)
LEMMA MakeInv ==
  ASSUME RtIInv, NEW t \in Threads, MakeInitMutex(t)
  PROVE  RtIInv'
<1>0. pc[t] = "make" /\ "count" \in Labels
  BY DEF MakeInitMutex, Labels, InStatic, InMaster
<1>1. CASE Fail(t) /\ UNCHANGED config
  BY <1>0, <1>1, FailInv
<1>2. ASSUME ~(Fail(t) /\ UNCHANGED config)
      PROVE  RtIInv'
  <2>1. /\ pc' = [pc EXCEPT ![t] = "count"] /\ reply' = reply
        /\ fails' = fails /\ UNCHANGED config_of
        /\ \/ config.initMutex # Null /\ config' = config /\ owner' = owner
           \/ /\ config.initMutex = Null
              /\ \E m \in Mutexes \ DOMAIN owner :
                   /\ config' = [config EXCEPT !.initMutex = m]
                   /\ owner' = [x \in DOMAIN owner \cup {m} |-> IF x = m THEN Null ELSE owner[x]]
    BY <1>2 DEF MakeInitMutex, Goto
  <2>2. PICK m \in Mutexes :
          /\ config' = [config EXCEPT !.initMutex = m]
          /\ config.initMutex \in {m, Null}
          /\ config.initMutex = m => owner' = owner
          /\ config.initMutex = Null =>
               /\ m \notin DOMAIN owner
               /\ owner' = [x \in DOMAIN owner \cup {m} |-> IF x = m THEN Null ELSE owner[x]]
    <3>1. CASE config.initMutex # Null /\ config' = config /\ owner' = owner
      <4>1. config.initMutex \in Mutexes /\ config' = [config EXCEPT !.initMutex = config.initMutex]
        BY <3>1 DEF RtIInv, RtTypeOK
      <4> QED
        BY <3>1, <4>1
    <3> QED
      BY <2>1, <3>1, RuntimeConstants
  <2>3. /\ config'.initMutex = m /\ config'.refs = config.refs /\ config'.isInit = config.isInit
        /\ m # Null /\ m # "master"
    BY <2>2, RuntimeConstants DEF RtIInv, RtTypeOK
  <2>4. /\ DOMAIN owner' = {"master"} \cup {m}
        /\ \A x \in DOMAIN owner : owner'[x] = owner[x]
        /\ config.initMutex = Null => owner'[m] = Null
    BY <2>2, <2>3 DEF RtIInv, InitMutexLives
  <2>5. RtTypeOK'
    <3>1. owner' \in [DOMAIN owner' -> Threads \cup {Null}]
      BY <2>2 DEF RtIInv, RtTypeOK
    <3>2. config' \in [isInit : BOOLEAN, isMallocInit : BOOLEAN,
                       initMutex : Mutexes \cup {Null}, refs : Nat]
      BY <2>2 DEF RtIInv, RtTypeOK
    <3> QED
      BY <1>0, <2>1, <3>1, <3>2 DEF RtIInv, RtTypeOK, config_of
  <2>6. \A u \in Threads : pc'[u] = IF u = t THEN "count" ELSE pc[u]
    BY <2>1 DEF RtIInv, RtTypeOK
  <2>7. InitMutexLives'
    <3>1. At(Counted)' = At(Counted)
      BY <1>0, <2>6 DEF At, Counted
    <3>2. At(Counted \cup {"count"})' # {}
      BY <2>6 DEF At
    <3> QED
      BY <2>3, <2>4, <3>1, <3>2 DEF RtIInv, InitMutexLives
  <2>8. InsideOwns'
    <3> SUFFICES ASSUME NEW u \in Threads
                 PROVE  /\ pc'[u] \in InMaster <=> owner'["master"] = u
                        /\ pc'[u] \in InInit <=> owner'[m] = u
      BY <2>3 DEF InsideOwns
    <3>1. /\ pc[u] \in InMaster <=> owner["master"] = u
          /\ config.initMutex # Null => (pc[u] \in InInit <=> owner[config.initMutex] = u)
      BY DEF RtIInv, InsideOwns
    <3>2. config.initMutex = Null => pc[u] \notin InInit
      BY Insiders DEF InInit, Counted
    <3>3. config.initMutex = m => owner' = owner
      BY <2>2
    <3> QED
      BY <1>0, <2>2, <2>4, <2>6, <3>1, <3>2, <3>3, Insiders DEF InMaster, InInit
  <2>9. SetUpBeforeUse'
    BY <1>0, <2>1, StaysSetUp DEF RtIInv, SetUpBeforeUse, config_of, InStatic, InMaster, Counted
  <2>10. BodyOnce'
    BY <1>0, <2>1, <2>3, StaysOnce
  <2> QED
    BY <2>5, <2>7, <2>8, <2>9, <2>10 DEF RtIInv
<1> QED
  BY <1>1, <1>2

(* A caller is counted. *)
LEMMA CountInv ==
  ASSUME RtIInv, NEW t \in Threads, Count(t)
  PROVE  RtIInv'
<1>1. /\ pc[t] = "count" /\ pc' = [pc EXCEPT ![t] = "enter"] /\ reply' = reply
      /\ config' = [config EXCEPT !.refs = @ + 1]
      /\ owner' = [owner EXCEPT !["master"] = Null]
      /\ fails' = fails /\ UNCHANGED config_of
  BY DEF Count, Goto, Release
<1>2. "enter" \in Labels /\ "master" \in DOMAIN owner
  BY Insiders DEF Labels, InStatic, Counted
<1>3. RtTypeOK'
  BY <1>1, <1>2 DEF RtIInv, RtTypeOK, config_of
<1>4. /\ config'.initMutex = config.initMutex /\ config'.isInit = config.isInit
      /\ config'.refs = config.refs + 1
  BY <1>1 DEF RtIInv, RtTypeOK
<1>5. \A u \in Threads : pc'[u] = IF u = t THEN "enter" ELSE pc[u]
  BY <1>1 DEF RtIInv, RtTypeOK
<1>6. InitMutexLives'
  <2>1. At(Counted)' = At(Counted) \cup {t} /\ t \notin At(Counted)
    BY <1>1, <1>5 DEF At, Counted
  <2>2. Cardinality(At(Counted)') = Cardinality(At(Counted)) + 1
    BY <2>1, AtFinite, FS_AddElement
  <2>3. At(Counted \cup {"count"})' = At(Counted \cup {"count"})
    BY <1>1, <1>5 DEF At, Counted
  <2>4. DOMAIN owner' = DOMAIN owner
    BY <1>1
  <2> QED
    BY <1>4, <2>2, <2>3, <2>4 DEF RtIInv, InitMutexLives
<1>7. InsideOwns'
  BY <1>1, <1>2, <1>4, OutOfMaster, Insiders DEF InMaster, InInit
<1>8. SetUpBeforeUse'
  BY <1>1, <1>2, StaysSetUp DEF RtIInv, SetUpBeforeUse, config_of, InStatic, InMaster, Counted
<1>9. BodyOnce'
  BY <1>1, <1>2, <1>4, StaysOnce
<1> QED
  BY <1>3, <1>6, <1>7, <1>8, <1>9 DEF RtIInv

(* A caller leaves; the last one frees initMutex. *)
LEMMA UncountInv ==
  ASSUME RtIInv, NEW t \in Threads, Uncount(t)
  PROVE  RtIInv'
<1> DEFINE last == config.refs = 1
           Rest == At(Counted) \ {t}
<1>1. /\ pc[t] = "uncount" /\ pc' = [pc EXCEPT ![t] = "out"] /\ reply' = [reply EXCEPT ![t] = "ok"]
      /\ config' = [config EXCEPT !.refs = @ - 1, !.initMutex = IF last THEN Null ELSE @]
      /\ owner' = [m \in DOMAIN owner \ (IF last THEN {config.initMutex} ELSE {})
                     |-> IF m = "master" THEN Null ELSE owner[m]]
      /\ fails' = fails /\ UNCHANGED config_of
  BY DEF Uncount, Return, Release
<1>2. /\ "out" \in Labels /\ "master" \in DOMAIN owner /\ config.initMutex # "master"
      /\ config.initMutex # Null /\ config.initMutex \in DOMAIN owner
  BY <1>1, Insiders DEF Labels, Counted
<1>3. \A u \in Threads : pc'[u] = IF u = t THEN "out" ELSE pc[u]
  BY <1>1 DEF RtIInv, RtTypeOK
<1>4. /\ t \in At(Counted) /\ At(Counted)' = Rest
      /\ At(Counted \cup {"count"})' = Rest
  <2>1. \A u \in Threads : pc[u] = "count" => u = t
    BY <1>1, Insiders DEF InMaster
  <2> QED
    BY <1>1, <1>3, <2>1 DEF At, Counted
<1>5. IsFiniteSet(Rest) /\ Cardinality(Rest) = config.refs - 1 /\ config.refs \in Nat
  BY <1>4, AtFinite, FS_RemoveElement DEF RtIInv, RtTypeOK, InitMutexLives
<1>6. Cardinality(Rest) \in Nat /\ (last <=> Rest = {})
  BY <1>5, FS_CardinalityType, FS_EmptySet
<1>7. /\ config'.refs = config.refs - 1 /\ config'.isInit = config.isInit
      /\ config'.initMutex = IF last THEN Null ELSE config.initMutex
  BY <1>1 DEF RtIInv, RtTypeOK
<1>8. RtTypeOK'
  <2>1. owner' \in [DOMAIN owner' -> Threads \cup {Null}]
    BY <1>1 DEF RtIInv, RtTypeOK
  <2>2. config.refs - 1 \in Nat
    BY <1>5, <1>6
  <2>3. config' \in [isInit : BOOLEAN, isMallocInit : BOOLEAN,
                     initMutex : Mutexes \cup {Null}, refs : Nat]
    BY <1>1, <2>2 DEF RtIInv, RtTypeOK
  <2> QED
    BY <1>1, <1>2, <2>1, <2>3 DEF RtIInv, RtTypeOK, config_of
<1>9. InitMutexLives'
  <2>1. DOMAIN owner' = {"master"} \cup ({config'.initMutex} \ {Null})
    BY <1>1, <1>2, <1>7 DEF RtIInv, InitMutexLives
  <2> QED
    BY <1>2, <1>4, <1>5, <1>6, <1>7, <2>1 DEF InitMutexLives
<1>10. InsideOwns'
  <2>1. owner'["master"] = Null
    BY <1>1, <1>2
  <2>2. config'.initMutex # Null => owner'[config'.initMutex] = owner[config'.initMutex]
    BY <1>1, <1>2, <1>7
  <2>3. config'.initMutex \in {config.initMutex, Null}
    BY <1>7
  <2>4. pc[t] \in InMaster /\ "out" \notin InMaster /\ "out" \notin InInit
    BY <1>1 DEF InMaster, InInit
  <2>5. config'.initMutex # Null => owner'[config.initMutex] = owner[config.initMutex]
    BY <2>2, <2>3
  <2> QED
    BY <1>1, <1>2, <2>1, <2>3, <2>4, <2>5, OutOfMaster
<1>11. SetUpBeforeUse'
  BY <1>1, <1>2, StaysSetUp DEF RtIInv, SetUpBeforeUse, config_of, InStatic, InMaster, Counted
<1>12. BodyOnce'
  BY <1>1, <1>2, <1>7, StaysOnce
<1> QED
  BY <1>8, <1>9, <1>10, <1>11, <1>12 DEF RtIInv

(* The library goes down when nobody is calling. *)
LEMMA ShutdownInv ==
  ASSUME RtIInv, Shutdown
  PROVE  RtIInv'
<1>1. /\ \A t \in Threads : pc[t] = "out"
      /\ config' = [config EXCEPT !.isInit = FALSE, !.isMallocInit = FALSE]
      /\ mutexLock' = 0 /\ statics' = FALSE /\ mutexIsInit' = FALSE
      /\ UNCHANGED <<methods, owner, fails, pc, reply>>
  BY DEF Shutdown
<1>2. config'.initMutex = config.initMutex /\ config'.refs = config.refs
  BY <1>1 DEF RtIInv, RtTypeOK
<1>3. RtTypeOK'
  BY <1>1 DEF RtIInv, RtTypeOK
<1>4. InitMutexLives'
  BY <1>1, <1>2 DEF RtIInv, InitMutexLives, At
<1>5. InsideOwns'
  BY <1>1, <1>2 DEF RtIInv, InsideOwns
<1>6. SetUpBeforeUse' /\ BodyOnce'
  BY <1>1 DEF SetUpBeforeUse, BodyOnce, InStatic, InMaster, Counted
<1> QED
  BY <1>3, <1>4, <1>5, <1>6 DEF RtIInv

(* One step per label.                                                     *)
LEMMA StepInv == RtIInv /\ [RtNext]_rtVars => RtIInv'
<1> SUFFICES ASSUME RtIInv, [RtNext]_rtVars PROVE RtIInv'
  OBVIOUS
<1>1. CASE Shutdown
  BY <1>1, ShutdownInv
<1>2. ASSUME NEW t \in Threads, Call(t) \/ Proceed(t)
      PROVE  RtIInv'
  BY <1>2, ArrivesInv, EnterInv, BodyInv, LeaveInv, MallocInv, MakeInv, CountInv, UncountInv
     DEF Proceed
<1>3. CASE UNCHANGED rtVars
  <2>1. /\ config' = config /\ methods' = methods /\ mutexLock' = mutexLock /\ statics' = statics
        /\ mutexIsInit' = mutexIsInit /\ owner' = owner /\ fails' = fails /\ pc' = pc
        /\ reply' = reply
    BY <1>3 DEF rtVars, config_of
  <2> QED
    BY <2>1 DEF RtIInv, RtTypeOK, InitMutexLives, InsideOwns, SetUpBeforeUse, BodyOnce, At
<1> QED
  BY <1>1, <1>2, <1>3 DEF RtNext

(* For any number of threads, mutexes and failures: the mutexes are set up *)
(* before they are used and freed after, and the body of                   *)
(* runtimeInitialize runs once between two shutdowns.                      *)
THEOREM RuntimeInvariance == RtSpec => []RtIInv
<1>1. RtInit => RtIInv
  BY InitInv
<1>2. RtIInv /\ [RtNext]_rtVars => RtIInv'
  BY StepInv
<1> QED
  BY <1>1, <1>2, PTL DEF RtSpec

---------------------------------------------------------------------------
(* Every step is one that callers are promised, or shows them nothing. *)
LEMMA StepPromised ==
  RtIInv /\ [RtNext]_rtVars => [AbstractInit!Next]_<<config.isInit,
                                  [t \in Threads |-> IF pc[t] = "out" THEN reply[t] ELSE "in"]>>
<1> DEFINE up == config.isInit
           caller == [t \in Threads |-> IF pc[t] = "out" THEN reply[t] ELSE "in"]
           Quiet == up' = up /\ caller' = caller
<1> SUFFICES ASSUME RtIInv, [RtNext]_rtVars
             PROVE  AbstractInit!Next \/ Quiet
  OBVIOUS
<1>1. CASE UNCHANGED rtVars
  BY <1>1 DEF rtVars
<1>2. CASE Shutdown
  <2>1. /\ \A t \in Threads : pc[t] = "out" /\ reply[t] # "in"
        /\ up' = FALSE /\ caller' = caller
    BY <1>2 DEF Shutdown, RtIInv, RtTypeOK
  <2>2. AbstractInit!BringDown
    BY <2>1 DEF AbstractInit!BringDown
  <2> QED
    BY <2>2 DEF AbstractInit!Next
<1>3. ASSUME NEW t \in Threads, NEW l \in Labels \ {"out"}, pc[t] # "out",
             pc' = [pc EXCEPT ![t] = l], reply' = reply
      PROVE  caller' = caller
  BY <1>3 DEF RtIInv, RtTypeOK
<1>4. ASSUME NEW t \in Threads, NEW rc \in {"ok", "failed"}, pc[t] # "out", Return(t, rc), up' = up,
             rc = "ok" => up
      PROVE  AbstractInit!Next
  <2>1. caller' = [caller EXCEPT ![t] = rc] /\ caller[t] = "in"
    BY <1>4 DEF Return, RtIInv, RtTypeOK
  <2>2. AbstractInit!Leave(t, rc)
    BY <1>4, <2>1 DEF AbstractInit!Leave
  <2> QED
    BY <1>4, <2>2 DEF AbstractInit!Next
<1>5. ASSUME NEW t \in Threads, Call(t)
      PROVE  AbstractInit!Next
  <2>1. up' = up /\ caller' = [caller EXCEPT ![t] = "in"] /\ caller[t] # "in"
    BY <1>5 DEF Call, Goto, RtIInv, RtTypeOK
  <2>2. AbstractInit!Enter(t)
    BY <2>1 DEF AbstractInit!Enter
  <2> QED
    BY <2>2 DEF AbstractInit!Next
<1>6. ASSUME NEW t \in Threads, SetInit(t)
      PROVE  AbstractInit!Next
  <2>1. ~up /\ up' = TRUE /\ caller[t] = "in"
    BY <1>6 DEF SetInit, RtIInv, RtTypeOK, BodyOnce
  <2>2. pc[t] # "out" /\ pc' = [pc EXCEPT ![t] = "leave"] /\ reply' = reply
        /\ "leave" \in Labels \ {"out"}
    BY <1>6 DEF SetInit, Goto, Labels, InStatic, Counted
  <2>3. caller' = caller
    BY <1>3, <2>2
  <2>4. AbstractInit!BringUp(t)
    BY <2>1, <2>3 DEF AbstractInit!BringUp
  <2> QED
    BY <2>4 DEF AbstractInit!Next
<1> DEFINE Answers(t) == \/ CheckInit(t) /\ config.isInit
                         \/ Uncount(t)
                         \/ Fail(t) /\ UNCHANGED config /\ pc[t] # "out"
<1>7. ASSUME NEW t \in Threads, Answers(t)
      PROVE  AbstractInit!Next
  <2>1. up' = up /\ pc[t] # "out"
    BY <1>7 DEF CheckInit, Uncount, Fail, RtIInv, RtTypeOK
  <2>2. PICK rc \in {"ok", "failed"} : Return(t, rc) /\ (rc = "ok" => up)
    BY <1>7 DEF CheckInit, Uncount, Fail, RtIInv, BodyOnce
  <2> QED
    BY <1>4, <2>1, <2>2
<1>8. ASSUME NEW t \in Threads, Proceed(t), ~SetInit(t), ~Answers(t)
      PROVE  Quiet
  <2>1. PICK l \in Labels \ {"out"} : pc[t] # "out" /\ Goto(t, l)
    BY <1>8 DEF Proceed, CheckInit, CheckMethods, CopyMethods, CopyAlloc, ElectSetup, SetupStatics,
       SetupKnown, AwaitSetup, EnterMaster, InitMalloc, MakeInitMutex, Count, EnterInit, Body,
       LeaveInit, EnterMasterAgain, Labels, InStatic, InMaster, Counted
  <2>2. up' = up
    BY <1>8 DEF Proceed, CheckInit, CheckMethods, CopyMethods, CopyAlloc, ElectSetup, SetupStatics,
       SetupKnown, AwaitSetup, EnterMaster, InitMalloc, MakeInitMutex, Count, EnterInit, Body,
       LeaveInit, EnterMasterAgain, RtIInv, RtTypeOK
  <2> QED
    BY <1>3, <2>1, <2>2 DEF Goto
<1>9. ASSUME NEW t \in Threads, Proceed(t)
      PROVE  AbstractInit!Next \/ Quiet
  <2>1. CASE SetInit(t)
    BY <1>6, <2>1
  <2>2. CASE Answers(t)
    BY <1>7, <2>2
  <2>3. CASE ~SetInit(t) /\ ~Answers(t)
    BY <1>8, <1>9, <2>3
  <2> QED
    BY <2>1, <2>2, <2>3
<1> QED
  <2>1. CASE RtNext
    BY <1>2, <1>5, <1>9, <2>1 DEF RtNext
  <2> QED
    BY <1>1, <2>1

(* For any number of threads: runtimeInitialize brings the library up      *)
(* once, and tells nobody that it is up before it is.                      *)
THEOREM RuntimeRefinement == RtSpec => ImplementsOnceInit
<1>1. RtInit => AbstractInit!Init
  BY DEF RtInit, Down, AbstractInit!Init
<1>2. RtIInv /\ [RtNext]_rtVars => [AbstractInit!Next]_<<config.isInit,
                                     [t \in Threads |-> IF pc[t] = "out" THEN reply[t] ELSE "in"]>>
  BY StepPromised
<1> QED
  BY <1>1, <1>2, RuntimeInvariance, PTL DEF RtSpec, ImplementsOnceInit, AbstractInit!Spec

---------------------------------------------------------------------------
(* The list of the executors.  That all of it is reached from its head is  *)
(* said without a walk: whatever set no link leads out of holds it all.    *)

Links == [Execs -> Execs \cup {Null}]

(* No link f leads out of S. *)
Closed(f, S) == \A x \in S : f[x] \in S \cup {Null}

(* Whoever goes on from x by the links f comes by y. *)
Reaches(f, x, y) ==
  /\ x # Null
  /\ \A S \in SUBSET Execs : Closed(f, S) /\ x \in S => y \in S

(* From the head l, the links f lead through all of R, and once. *)
Chained(f, l, R) ==
  /\ l \in R \cup {Null} /\ Closed(f, R)
  /\ \A y \in R : Reaches(f, l, y)
  /\ \A x \in R : f[x] # Null => f[x] # l
  /\ \A x, y \in R : f[x] = f[y] /\ f[x] # Null => x = y

(* The links when the ones of R to e are led past it. *)
Past(f, R, e) == [x \in Execs |-> IF f[x] = e /\ x \in R THEN f[e] ELSE f[x]]

(* Going on from x without stopping at x. *)
LEMMA OneOn ==
  ASSUME NEW f \in Links, NEW x \in Execs, NEW y \in Execs, Reaches(f, x, y), y # x
  PROVE  f[x] # Null /\ Reaches(f, f[x], y)
<1>1. f[x] # Null
  <2>1. CASE f[x] = Null
    <3>1. Closed(f, {x})
      BY <2>1 DEF Closed
    <3> QED
      BY <3>1 DEF Reaches
  <2> QED
    BY <2>1
<1>2. ASSUME NEW S \in SUBSET Execs, Closed(f, S), f[x] \in S PROVE y \in S
  <2>1. Closed(f, S \cup {x}) /\ S \cup {x} \in SUBSET Execs
    BY <1>2 DEF Closed
  <2>2. y \in S \cup {x}
    BY <2>1 DEF Reaches
  <2> QED
    BY <2>2
<1> QED
  BY <1>1, <1>2 DEF Reaches

(* Links outside the part that is walked do not matter. *)
LEMMA SameInside ==
  ASSUME NEW f \in Links, NEW g \in Links, NEW R \in SUBSET Execs, Closed(f, R),
         \A x \in R : g[x] = f[x], NEW x \in R, NEW y, Reaches(f, x, y)
  PROVE  Reaches(g, x, y)
<1>1. x # Null
  BY DEF Reaches
<1>2. ASSUME NEW S \in SUBSET Execs, Closed(g, S), x \in S PROVE y \in S
  <2>1. Closed(f, S \cap R)
    BY <1>2 DEF Closed
  <2>2. y \in S \cap R
    BY <1>2, <2>1 DEF Reaches
  <2> QED
    BY <2>2
<1> QED
  BY <1>1, <1>2 DEF Reaches

(* Everybody else is still reached past e, also by whoever stands on e. *)
LEMMA PastReaches ==
  ASSUME NEW f \in Links, NEW R \in SUBSET Execs, NEW e \in Execs,
         NEW x, NEW y, y # e, Reaches(f, x, y)
  PROVE  Reaches(Past(f, R, e), x, y)
<1> DEFINE g == Past(f, R, e)
<1>1. x # Null
  BY DEF Reaches
<1>2. ASSUME NEW S \in SUBSET Execs, Closed(g, S), x \in S PROVE y \in S
  <2>1. CASE \E p \in S \cap R : f[p] = e
    <3>1. PICK p \in S \cap R : f[p] = e
      BY <2>1
    <3>2. f[e] \in S \cup {Null}
      <4>1. g[p] = f[e]
        BY <3>1 DEF Past
      <4> QED
        BY <1>2, <4>1 DEF Closed
    <3>3. Closed(f, S \cup {e})
      <4> SUFFICES ASSUME NEW z \in S \cup {e} PROVE f[z] \in S \cup {e} \cup {Null}
        BY DEF Closed
      <4>1. CASE z = e
        BY <4>1, <3>2
      <4>2. CASE z \in S /\ f[z] # e
        <5>1. g[z] = f[z]
          BY <4>2 DEF Past
        <5> QED
          BY <5>1, <4>2, <1>2 DEF Closed
      <4> QED
        BY <4>1, <4>2
    <3>4. y \in S \cup {e}
      BY <3>3, <1>2 DEF Reaches
    <3> QED
      BY <3>4
  <2>2. CASE ~ \E p \in S \cap R : f[p] = e
    <3>1. \A z \in S : g[z] = f[z]
      BY <2>2 DEF Past
    <3>2. Closed(f, S)
      BY <3>1, <1>2 DEF Closed
    <3> QED
      BY <3>2, <1>2 DEF Reaches
  <2> QED
    BY <2>1, <2>2
<1> QED
  BY <1>1, <1>2 DEF Reaches

(* No executor of the list is linked to itself. *)
LEMMA NoSelfLink ==
  ASSUME NEW f \in Links, NEW R \in SUBSET Execs, NEW l, Chained(f, l, R), NEW e \in R
  PROVE  f[e] # e
<1> SUFFICES ASSUME f[e] = e PROVE FALSE
  OBVIOUS
<1>0. e # Null
  BY ExecConstants
<1>1. l # e
  BY <1>0 DEF Chained
<1>2. Closed(f, R \ {e})
  <2> SUFFICES ASSUME NEW x \in R \ {e} PROVE f[x] \in (R \ {e}) \cup {Null}
    BY DEF Closed
  <2>1. f[x] \in R \cup {Null}
    BY DEF Chained, Closed
  <2>2. f[x] # e
    BY <1>0 DEF Chained
  <2> QED
    BY <2>1, <2>2
<1>3. Reaches(f, l, e)
  BY DEF Chained
<1>4. l \in R \ {e}
  BY <1>1, <1>3 DEF Chained, Reaches
<1> QED
  BY <1>2, <1>3, <1>4 DEF Reaches

(* Taking the head out of the list. *)
LEMMA HeadOut ==
  ASSUME NEW f \in Links, NEW R \in SUBSET Execs, NEW e \in R, Chained(f, e, R)
  PROVE  Chained(f, f[e], R \ {e})
<1>0. e # Null
  BY ExecConstants
<1>1. f[e] \in (R \ {e}) \cup {Null}
  BY NoSelfLink DEF Chained, Closed
<1>2. Closed(f, R \ {e})
  BY <1>0 DEF Chained, Closed
<1>3. \A y \in R \ {e} : Reaches(f, f[e], y)
  BY OneOn DEF Chained
<1>4. \A x \in R \ {e} : f[x] # Null => f[x] # f[e]
  BY DEF Chained
<1>5. \A x, y \in R \ {e} : f[x] = f[y] /\ f[x] # Null => x = y
  BY DEF Chained
<1> QED
  BY <1>1, <1>2, <1>3, <1>4, <1>5 DEF Chained

(* Taking another one out of it. *)
LEMMA OtherOut ==
  ASSUME NEW f \in Links, NEW R \in SUBSET Execs, NEW e \in R, NEW l, l # e, Chained(f, l, R)
  PROVE  Chained(Past(f, R, e), l, R \ {e})
<1>0. e # Null
  BY ExecConstants
<1>1. PICK g \in Links : g = Past(f, R, e)
  BY DEF Past, Links
<1>2. \A x \in R : IF f[x] = e THEN g[x] = f[e] ELSE g[x] = f[x]
  BY <1>1 DEF Past
<1>3. f[e] # e
  BY NoSelfLink
<1>4. l \in (R \ {e}) \cup {Null}
  BY DEF Chained
<1>5. Closed(g, R \ {e})
  BY <1>2, <1>3 DEF Chained, Closed
<1>6. \A y \in R \ {e} : Reaches(g, l, y)
  BY <1>1, PastReaches DEF Chained
<1>7. \A x \in R \ {e} : g[x] # Null => g[x] # l
  BY <1>2 DEF Chained
<1>8. \A x, y \in R \ {e} : g[x] = g[y] /\ g[x] # Null => x = y
  <2> SUFFICES ASSUME NEW x \in R \ {e}, NEW y \in R \ {e}, g[x] = g[y], g[x] # Null PROVE x = y
    OBVIOUS
  <2>1. \A z \in R \ {e} : f[z] = f[e] => f[e] = Null
    BY DEF Chained
  <2> QED
    BY <1>0, <1>2, <2>1 DEF Chained
<1> QED
  BY <1>1, <1>4, <1>5, <1>6, <1>7, <1>8 DEF Chained

(* Putting one in front of the list. *)
LEMMA InFront ==
  ASSUME NEW f \in Links, NEW R \in SUBSET Execs, NEW l, Chained(f, l, R),
         NEW e \in Execs, e \notin R, f[e] = l
  PROVE  Chained(f, e, R \cup {e})
<1>0. e # Null
  BY ExecConstants
<1>1. Closed(f, R \cup {e})
  BY DEF Chained, Closed
<1>2. ASSUME NEW y \in R \cup {e} PROVE Reaches(f, e, y)
  <2> SUFFICES ASSUME NEW S \in SUBSET Execs, Closed(f, S), e \in S PROVE y \in S
    BY <1>0 DEF Reaches
  <2>1. CASE y \in R
    <3>1. Reaches(f, l, y)
      BY <2>1 DEF Chained
    <3>2. l \in S
      BY <3>1 DEF Reaches, Closed
    <3> QED
      BY <3>1, <3>2 DEF Reaches
  <2> QED
    BY <2>1
<1>3. \A x \in R \cup {e} : f[x] # Null => f[x] # e
  BY DEF Chained, Closed
<1>4. \A x, y \in R \cup {e} : f[x] = f[y] /\ f[x] # Null => x = y
  BY DEF Chained
<1> QED
  BY <1>1, <1>2, <1>3, <1>4 DEF Chained

(* Putting e behind l, whose link it has: whoever came by, still does. *)
LEMMA BehindReaches ==
  ASSUME NEW f \in Links, NEW l \in Execs, NEW e \in Execs, e # l, f[e] = f[l],
         NEW x, NEW y, Reaches(f, x, y)
  PROVE  Reaches([f EXCEPT ![l] = e], x, y)
<1>1. PICK g \in Links : g = [f EXCEPT ![l] = e]
  BY DEF Links
<1>2. g[l] = e /\ \A z \in Execs \ {l} : g[z] = f[z]
  BY <1>1 DEF Links
<1>3. x # Null
  BY DEF Reaches
<1>4. ASSUME NEW S \in SUBSET Execs, Closed(g, S), x \in S PROVE y \in S
  <2>1. Closed(f, S)
    <3>1. CASE l \notin S
      BY <1>2, <1>4, <3>1 DEF Closed
    <3>2. CASE l \in S
      <4>0. e # Null
        BY ExecConstants
      <4>1. e \in S
        BY <1>2, <1>4, <3>2, <4>0 DEF Closed
      <4>2. f[l] \in S \cup {Null}
        BY <1>2, <1>4, <4>1 DEF Closed
      <4> QED
        BY <1>2, <1>4, <4>2 DEF Closed
    <3> QED
      BY <3>1, <3>2
  <2> QED
    BY <2>1, <1>4 DEF Reaches
<1> QED
  BY <1>1, <1>3, <1>4 DEF Reaches

(* Putting one in second place.                                            *)
LEMMA InSecond ==
  ASSUME NEW f \in Links, NEW R \in SUBSET Execs, NEW l \in R, Chained(f, l, R),
         NEW e \in Execs, e \notin R, f[e] = f[l]
  PROVE  Chained([f EXCEPT ![l] = e], l, R \cup {e})
<1>0. e # Null /\ l # Null
  BY ExecConstants
<1>1. PICK g \in Links : g = [f EXCEPT ![l] = e]
  BY DEF Links
<1>2. g[l] = e /\ \A z \in Execs \ {l} : g[z] = f[z]
  BY <1>1 DEF Links
<1>3. \A x \in R : f[x] \in R \cup {Null}
  BY DEF Chained, Closed
<1>4. Closed(g, R \cup {e})
  BY <1>2, <1>3 DEF Closed
<1>5. ASSUME NEW y \in R \cup {e} PROVE Reaches(g, l, y)
  <2>1. CASE y \in R
    <3>1. Reaches(f, l, y)
      BY <2>1 DEF Chained
    <3> QED
      BY <3>1, <1>1, BehindReaches
  <2>2. CASE y = e
    BY <2>2, <1>0, <1>2 DEF Reaches, Closed
  <2> QED
    BY <2>1, <2>2
<1>6. \A x \in R \cup {e} : g[x] # Null => g[x] # l
  BY <1>2, <1>3 DEF Chained
<1>7. \A x, y \in R \cup {e} : g[x] = g[y] /\ g[x] # Null => x = y
  <2>1. \A x \in R \ {l} : g[x] = f[x] /\ f[x] # e
    BY <1>0, <1>2, <1>3
  <2>2. g[e] = f[l] /\ f[l] # e
    BY <1>0, <1>2, <1>3
  <2>3. \A x, y \in R : f[x] = f[y] /\ f[x] # Null => x = y
    BY DEF Chained
  <2> QED
    BY <1>2, <2>1, <2>2, <2>3
<1> QED
  BY <1>1, <1>4, <1>5, <1>6, <1>7 DEF Chained

---------------------------------------------------------------------------
(* The inductive invariant. *)

ExecTypes ==
  /\ list \in Execs \cup {Null} /\ next \in Links
  /\ moving \in Execs \cup {Null} /\ exec \in Execs \cup {Null}
  /\ asDefault \in BOOLEAN /\ linked \in BOOLEAN /\ serving \in BOOLEAN
  /\ registered \subseteq Execs /\ known \subseteq Execs
  /\ stayed \subseteq Execs /\ asked \subseteq Execs

(* The executor that is being registered has the link it will need. *)
MovingInv ==
  /\ moving \notin registered
  /\ moving # Null /\ linked => next[moving] = IF First THEN list ELSE next[list]

(* The known executors whose links lead on in the list. *)
Walkable == IF moving # Null /\ ~linked THEN known \ {moving} ELSE known

(* Unless a known executor was moved, the service thread is on its way to  *)
(* all who stayed and were not asked yet.                                  *)
WalkInv ==
  /\ registered \subseteq known /\ stayed \subseteq known /\ moving \in known \cup {Null}
  /\ stayed # {} => exec \in Walkable \cup {Null} /\ Closed(next, Walkable)
  /\ \A y \in stayed \ asked : Reaches(next, exec, y)

ExecInv ==
  /\ ExecTypes
  /\ Chained(next, list, registered)
  /\ MovingInv
  /\ serving => WalkInv

(* The list of the base executor alone.                                    *)
LEMMA ExecStart == ExecInit => ExecInv
<1> SUFFICES ASSUME ExecInit PROVE ExecInv
  OBVIOUS
<1>1. PICK base \in Execs : list = base /\ registered = {base}
  BY DEF ExecInit
<1>2. ExecTypes
  BY <1>1 DEF ExecInit, ExecTypes, Links
<1>3. Chained(next, list, registered)
  BY <1>1, ExecConstants DEF ExecInit, Chained, Closed, Reaches
<1> QED
  BY <1>1, <1>2, <1>3, ExecConstants DEF ExecInit, ExecInv, MovingInv

(* Taking an executor out, or one that is not there. *)
LEMMA UnlinkKeeps ==
  ASSUME ExecInv, NEW e \in Execs, sentinelUnlinkExecutor(e), registered' = registered \ {e}
  PROVE  /\ next' \in Links /\ list' \in Execs \cup {Null}
         /\ Chained(next', list', registered')
         /\ \A x : \A y : y # e /\ Reaches(next, x, y) => Reaches(next', x, y)
         /\ \A K \in SUBSET Execs : registered \subseteq K /\ Closed(next, K) => Closed(next', K)
         /\ e \notin registered => next' = next
<1>0. e # Null
  BY ExecConstants
<1>1. next \in Links /\ registered \in SUBSET Execs /\ Chained(next, list, registered)
  BY DEF ExecInv, ExecTypes
<1>2. CASE e \notin registered
  <2>1. list # e /\ \A x \in registered : next[x] # e
    BY <1>0, <1>1, <1>2 DEF Chained, Closed
  <2>2. list' = list /\ next' = next
    BY <1>1, <2>1 DEF sentinelUnlinkExecutor, Links
  <2>3. registered' = registered
    BY <1>2
  <2> QED
    BY <1>1, <2>2, <2>3 DEF ExecInv, ExecTypes
<1>3. CASE e \in registered /\ list = e
  <2>1. list' = next[e] /\ next' = next
    BY <1>1, <1>3 DEF sentinelUnlinkExecutor, Links
  <2>2. Chained(next, next[e], registered \ {e})
    BY <1>1, <1>3, HeadOut
  <2> QED
    BY <1>1, <1>3, <2>1, <2>2 DEF Links
<1>4. CASE e \in registered /\ list # e
  <2>1. list' = list /\ next' = Past(next, registered, e)
    BY <1>4 DEF sentinelUnlinkExecutor, Past
  <2>2. next' \in Links
    BY <1>1, <2>1 DEF Past, Links
  <2>3. Chained(next', list, registered \ {e})
    BY <1>1, <1>4, <2>1, OtherOut
  <2>4. ASSUME NEW K \in SUBSET Execs, registered \subseteq K, Closed(next, K)
        PROVE  Closed(next', K)
    BY <1>4, <2>1, <2>4 DEF Closed, Past
  <2>5. \A x : \A y : y # e /\ Reaches(next, x, y) => Reaches(next', x, y)
    BY <1>1, <2>1, PastReaches
  <2>6. list \in Execs \cup {Null}
    BY DEF ExecInv, ExecTypes
  <2> QED
    BY <1>4, <2>1, <2>2, <2>3, <2>4, <2>5, <2>6
<1> QED
  BY <1>2, <1>3, <1>4

(* An executor is put in front, or found registered.                       *)
LEMMA RegisterKeeps ==
  ASSUME ExecInv, NEW e \in Execs, NEW d \in BOOLEAN, sentinelRegisterExecutor(e, d)
  PROVE  ExecInv'
<1>0. e # Null /\ moving = Null /\ registered' = registered \ {e} /\ UNCHANGED serveVars
  BY ExecConstants DEF sentinelRegisterExecutor, Begin
<1>1. moving' = e /\ asDefault' = d /\ ~linked' /\ known' = known \cup {e}
      /\ stayed' = IF e \in known THEN {} ELSE stayed
  BY DEF sentinelRegisterExecutor
<1>2. /\ next' \in Links /\ list' \in Execs \cup {Null}
      /\ Chained(next', list', registered')
      /\ e \notin registered => next' = next
  BY <1>0, UnlinkKeeps DEF sentinelRegisterExecutor, Begin
<1>3. ExecTypes'
  BY <1>0, <1>1, <1>2 DEF ExecInv, ExecTypes, serveVars, sentinelRegisterExecutor
<1>4. MovingInv'
  BY <1>0, <1>1 DEF MovingInv
<1>5. ASSUME serving' PROVE WalkInv'
  <2>1. WalkInv /\ exec' = exec /\ asked' = asked
    BY <1>0, <1>5 DEF ExecInv, serveVars
  <2>2. registered' \subseteq known' /\ stayed' \subseteq known' /\ moving' \in known'
    BY <1>0, <1>1, <2>1 DEF WalkInv
  <2>3. CASE e \in known
    BY <1>1, <2>2, <2>3 DEF WalkInv
  <2>4. CASE e \notin known
    <3>1. next' = next /\ stayed' = stayed
      BY <1>1, <1>2, <2>1, <2>4 DEF WalkInv
    <3>2. Walkable = known /\ Walkable' = known
      BY <1>0, <1>1, <2>4 DEF Walkable
    <3> QED
      BY <2>1, <2>2, <3>1, <3>2 DEF WalkInv
  <2> QED
    BY <2>3, <2>4
<1> QED
  BY <1>2, <1>3, <1>4, <1>5 DEF ExecInv

(* An executor is about to leave the list.                                 *)
LEMMA UnregisterKeeps ==
  ASSUME ExecInv, NEW e \in Execs, sentinelUnregisterExecutor(e)
  PROVE  ExecInv'
<1>0. e # Null /\ moving = Null /\ registered' = registered \ {e} /\ UNCHANGED serveVars
  BY ExecConstants DEF sentinelUnregisterExecutor, Begin
<1>1. stayed' = stayed \ {e} /\ UNCHANGED <<moving, asDefault, linked, known>>
  BY DEF sentinelUnregisterExecutor
<1>2. /\ next' \in Links /\ list' \in Execs \cup {Null}
      /\ Chained(next', list', registered')
      /\ \A x : \A y : y # e /\ Reaches(next, x, y) => Reaches(next', x, y)
      /\ \A K \in SUBSET Execs : registered \subseteq K /\ Closed(next, K) => Closed(next', K)
  BY <1>0, UnlinkKeeps DEF sentinelUnregisterExecutor, Begin
<1>3. ExecTypes'
  BY <1>0, <1>1, <1>2 DEF ExecInv, ExecTypes, serveVars
<1>4. MovingInv'
  BY <1>0, <1>1, ExecConstants DEF MovingInv, ExecInv, ExecTypes
<1>5. ASSUME serving' PROVE WalkInv'
  <2>1. WalkInv /\ exec' = exec /\ asked' = asked
    BY <1>0, <1>5 DEF ExecInv, serveVars
  <2>2. Walkable = known /\ Walkable' = known /\ known \in SUBSET Execs
    BY <1>0, <1>1 DEF Walkable, ExecInv, ExecTypes
  <2>3. stayed' # {} => exec' \in Walkable' \cup {Null} /\ Closed(next', Walkable')
    BY <1>1, <1>2, <2>1, <2>2 DEF WalkInv
  <2>4. \A y \in stayed' \ asked' : Reaches(next', exec', y)
    BY <1>1, <1>2, <2>1 DEF WalkInv
  <2> QED
    BY <1>0, <1>1, <2>1, <2>3, <2>4 DEF WalkInv
<1> QED
  BY <1>2, <1>3, <1>4, <1>5 DEF ExecInv

(* One link is written.                                                    *)
LEMMA LinkKeeps ==
  ASSUME ExecInv, Link PROVE ExecInv'
<1>0. /\ moving \in Execs /\ moving \notin registered /\ ~linked /\ linked'
      /\ UNCHANGED <<list, moving, asDefault, ops, registered, serveVars, walkVars>>
  BY DEF Link, ExecInv, ExecTypes, MovingInv
<1>t. ExecTypes /\ Chained(next, list, registered)
  BY DEF ExecInv
<1>1. PICK to : to = IF First THEN list ELSE next[list]
  OBVIOUS
<1>2. to \in registered \cup {Null}
  BY <1>1, <1>t DEF First, Chained, Closed
<1>3. next' = [next EXCEPT ![moving] = to]
  BY <1>1 DEF Link
<1>4. next' \in Links /\ next'[moving] = to /\ \A x \in Execs \ {moving} : next'[x] = next[x]
  BY <1>0, <1>2, <1>3, <1>t DEF ExecTypes, Links
<1>5. ExecTypes'
  BY <1>0, <1>4, <1>t DEF ExecTypes, serveVars, walkVars
<1>6. Chained(next', list, registered)
  <2>1. registered \in SUBSET Execs /\ moving \notin registered /\ next \in Links
    BY <1>0, <1>t DEF ExecTypes
  <2>2. \A x \in registered : next'[x] = next[x]
    BY <1>4, <2>1
  <2>3. Closed(next', registered) /\ Closed(next, registered)
    BY <1>t, <2>2 DEF Chained, Closed
  <2>4. ASSUME NEW y \in registered PROVE Reaches(next', list, y)
    <3>1. Reaches(next, list, y) /\ list \in registered
      BY <1>t DEF Chained, Reaches
    <3> QED
      BY <1>4, <2>1, <2>2, <2>3, <3>1, SameInside
  <2> QED
    BY <1>t, <2>2, <2>3, <2>4 DEF Chained
<1>7. MovingInv'
  <2>1. First' <=> First
    BY <1>0 DEF First
  <2>2. list # Null => next'[list] = next[list]
    BY <1>0, <1>4, <1>t DEF Chained, ExecTypes
  <2> QED
    BY <1>0, <1>1, <1>4, <2>1, <2>2 DEF MovingInv, First
<1>8. ASSUME serving' PROVE WalkInv'
  <2>1. WalkInv /\ UNCHANGED <<exec, asked, known, stayed>>
    BY <1>0, <1>8 DEF ExecInv, serveVars, walkVars
  <2>2. CASE stayed = {}
    BY <1>0, <2>1, <2>2 DEF WalkInv
  <2>3. CASE stayed # {}
    <3>0. moving # Null
      BY <1>0, ExecConstants
    <3>1. PICK W \in SUBSET Execs : W = known \ {moving}
      BY <1>t DEF ExecTypes
    <3>2. exec \in W \cup {Null} /\ Closed(next, W) /\ Walkable' = known /\ known \subseteq W \cup {moving}
      BY <1>0, <2>1, <2>3, <3>0, <3>1 DEF WalkInv, Walkable
    <3>3. \A x \in W : next'[x] = next[x]
      BY <1>4, <3>1
    <3>4. Closed(next', known)
      BY <1>2, <1>4, <2>1, <3>1, <3>2, <3>3 DEF Closed, WalkInv
    <3>5. ASSUME NEW y \in stayed \ asked PROVE Reaches(next', exec, y)
      <4>1. Reaches(next, exec, y) /\ exec \in W
        BY <2>1, <3>2 DEF WalkInv, Reaches
      <4> QED
        BY <1>4, <1>t, <3>2, <3>3, <4>1, SameInside DEF ExecTypes
    <3> QED
      BY <1>0, <2>1, <3>1, <3>2, <3>4, <3>5 DEF WalkInv
  <2> QED
    BY <2>2, <2>3
<1>9. Chained(next, list, registered)'
  BY <1>0, <1>6
<1> QED
  BY <1>5, <1>7, <1>8, <1>9 DEF ExecInv

(* The head of the list is written.                                        *)
LEMMA PublishKeeps ==
  ASSUME ExecInv, Publish PROVE ExecInv'
<1>0. /\ moving \in Execs /\ moving # Null /\ moving \notin registered /\ linked /\ moving' = Null
      /\ registered' = registered \cup {moving}
      /\ next[moving] = IF First THEN list ELSE next[list]
      /\ UNCHANGED <<asDefault, linked, ops, serveVars, walkVars>>
  BY DEF Publish, ExecInv, ExecTypes, MovingInv
<1>t. ExecTypes /\ Chained(next, list, registered)
  BY DEF ExecInv
<1>1. MovingInv'
  BY <1>0, <1>t, ExecConstants DEF MovingInv, ExecTypes
<1>2. /\ next' \in Links /\ list' \in Execs \cup {Null}
      /\ Chained(next', list', registered')
      /\ \A x : \A y : Reaches(next, x, y) => Reaches(next', x, y)
      /\ \A K \in SUBSET Execs : moving \in K /\ Closed(next, K) => Closed(next', K)
  <2>1. CASE First
    <3>1. list' = moving /\ next' = next
      BY <2>1 DEF Publish
    <3>2. Chained(next, moving, registered \cup {moving})
      BY <1>0, <1>t, <2>1, InFront DEF ExecTypes
    <3> QED
      BY <1>0, <1>t, <3>1, <3>2 DEF ExecTypes
  <2>2. CASE ~First
    <3>1. list' = list /\ next' = [next EXCEPT ![list] = moving]
      BY <2>2 DEF Publish
    <3>2. list \in registered /\ list \in Execs /\ list # moving /\ next[moving] = next[list]
      BY <1>0, <1>t, <2>2 DEF First, Chained, ExecTypes
    <3>3. Chained(next', list, registered \cup {moving})
      BY <1>0, <1>t, <3>1, <3>2, InSecond DEF ExecTypes
    <3>4. \A x : \A y : Reaches(next, x, y) => Reaches(next', x, y)
      BY <1>0, <1>t, <3>1, <3>2, BehindReaches DEF ExecTypes
    <3>5. next' \in Links
      BY <1>0, <1>t, <3>1 DEF ExecTypes, Links
    <3>6. ASSUME NEW K \in SUBSET Execs, moving \in K, Closed(next, K) PROVE Closed(next', K)
      BY <1>t, <3>1, <3>2, <3>6 DEF Closed, ExecTypes, Links
    <3> QED
      BY <1>0, <1>t, <3>1, <3>3, <3>4, <3>5, <3>6 DEF ExecTypes
  <2> QED
    BY <2>1, <2>2
<1>3. ExecTypes'
  BY <1>0, <1>2, <1>t DEF ExecTypes, serveVars, walkVars
<1>4. ASSUME serving' PROVE WalkInv'
  <2>1. WalkInv /\ UNCHANGED <<exec, asked, known, stayed>>
    BY <1>0, <1>4 DEF ExecInv, serveVars, walkVars
  <2>2. Walkable = known /\ Walkable' = known /\ known \in SUBSET Execs /\ moving \in known
    BY <1>0, <1>t, <2>1 DEF Walkable, ExecTypes, WalkInv
  <2> QED
    BY <1>0, <1>2, <2>1, <2>2 DEF WalkInv
<1> QED
  BY <1>1, <1>2, <1>3, <1>4 DEF ExecInv

(* A message is taken, and the walk begins.                                *)
LEMMA TakeKeeps ==
  ASSUME ExecInv, Take PROVE ExecInv'
<1>0. /\ UNCHANGED <<list, next, moving, asDefault, linked, registered>>
      /\ exec' = list /\ asked' = {} /\ serving'
      /\ known' = registered \cup ({moving} \ {Null}) /\ stayed' = registered
  BY DEF Take, regVars
<1>t. ExecTypes /\ Chained(next, list, registered) /\ MovingInv
  BY DEF ExecInv
<1>1. ExecTypes' /\ Chained(next, list, registered)' /\ MovingInv'
  BY <1>0, <1>t DEF ExecTypes, MovingInv, First
<1>2. CASE moving # Null /\ linked
  <2>1. Walkable' = registered \cup {moving}
    BY <1>0, <1>2 DEF Walkable
  <2>2. next[moving] \in registered \cup {Null}
    BY <1>2, <1>t DEF MovingInv, First, Chained, Closed
  <2> QED
    BY <1>0, <1>1, <1>t, <2>1, <2>2 DEF ExecInv, WalkInv, Chained, Closed
<1>3. CASE ~(moving # Null /\ linked)
  <2>1. Walkable' = registered
    BY <1>0, <1>3, <1>t DEF Walkable, MovingInv
  <2> QED
    BY <1>0, <1>1, <1>t, <2>1 DEF ExecInv, WalkInv, Chained
<1> QED
  BY <1>2, <1>3

(* The walk asks an executor and goes on.                                  *)
LEMMA ServeKeeps ==
  ASSUME ExecInv, Serve PROVE ExecInv'
<1>0. UNCHANGED <<list, next, moving, asDefault, linked, registered, known, stayed>>
  BY DEF Serve, Ask, Pass, regVars, walkVars
<1>t. ExecTypes /\ Chained(next, list, registered) /\ MovingInv
  BY DEF ExecInv
<1>1. Chained(next, list, registered)' /\ MovingInv'
  BY <1>0, <1>t DEF MovingInv, First
<1>2. CASE serving' = FALSE /\ UNCHANGED <<exec, asked>>
  BY <1>0, <1>1, <1>2, <1>t DEF ExecInv, ExecTypes
<1>3. CASE serving' = serving /\ serving /\ exec # Null
           /\ exec' = next[exec] /\ asked' = asked \cup {exec}
  <2>0. exec \in Execs /\ next \in Links
    BY <1>3, <1>t DEF ExecTypes
  <2>1. ExecTypes'
    BY <1>0, <1>3, <1>t, <2>0 DEF ExecTypes, Links
  <2>2. WalkInv /\ (Walkable' = Walkable)
    BY <1>0, <1>3 DEF ExecInv, Walkable
  <2>3. stayed # {} => exec' \in Walkable \cup {Null}
    BY <1>3, <2>2 DEF WalkInv, Closed
  <2>4. ASSUME NEW y \in stayed \ asked, y # exec PROVE Reaches(next, exec', y)
    <3>1. Reaches(next, exec, y) /\ y \in Execs
      BY <1>t, <2>2 DEF WalkInv, ExecTypes
    <3> QED
      BY <1>3, <2>0, <2>4, <3>1, OneOn
  <2>5. WalkInv'
    BY <1>0, <1>3, <2>2, <2>3, <2>4 DEF WalkInv
  <2> QED
    BY <1>1, <2>1, <2>5 DEF ExecInv
<1> QED
  BY <1>2, <1>3 DEF Serve, Ask, Pass

(* However executors come and go, the registered ones are a chain from the *)
(* head of the list, each linked once, and the service thread is on its    *)
(* way to those it has yet to ask (the two writes of                       *)
(* sentinelRegisterExecutor and the dispatch loop).                        *)
THEOREM ExecutorsInvariance == ExecSpec => []ExecInv
<1>1. ASSUME ExecInv, [ExecNext]_execVars PROVE ExecInv'
  <2>1. CASE ExecNext
    BY <1>1, <2>1, RegisterKeeps, UnregisterKeeps, LinkKeeps, PublishKeeps, TakeKeeps, ServeKeeps
    DEF ExecNext
  <2>2. CASE UNCHANGED execVars
    BY <1>1, <2>2 DEF execVars, regVars, serveVars, walkVars, ExecInv, ExecTypes,
                      MovingInv, First, WalkInv, Walkable
  <2> QED
    BY <1>1, <2>1, <2>2
<1> QED
  BY <1>1, ExecStart, PTL DEF ExecSpec

(* However many executors, and however often they come and go: whoever     *)
(* is registered from a message's arrival to the end of its walk is asked. *)
THEOREM NobodySkipped == ExecSpec => []NoneSkipped
<1>1. ExecInv => NoneSkipped
  <2> SUFFICES ASSUME ExecInv, serving, exec = Null PROVE stayed \subseteq asked
    BY DEF NoneSkipped
  <2>1. \A y \in stayed \ asked : exec # Null
    BY DEF ExecInv, WalkInv, Reaches
  <2> QED
    BY <2>1
<1> QED
  BY <1>1, ExecutorsInvariance, PTL

-----------------------------------------------------------------------------
(* The list and the buckets of the hash table.                             *)

Place == Elems \cup {Null}
Cells == [key : Keys, data : Data, next : Place, prev : Place]
Buckets == [count : Nat, chain : Place]

Tables == UNION {[1 .. n -> Buckets] : n \in Nat}

HashTypes(t) ==
  /\ t.first \in Place /\ t.count \in Nat /\ t.table \in Tables
  /\ t.elem \in [DOMAIN t.elem -> Cells] /\ DOMAIN t.elem \subseteq Elems

(* The i-th of n elements s, Null in front of the first and behind the last. *)
Item(s, n, i) == IF i \in 1 .. n THEN s[i] ELSE Null

(* s are n different elements of D. *)
Row(D, s, n) ==
  n \in Nat /\ s \in [1 .. n -> D] /\ \A i, j \in 1 .. n : s[i] = s[j] => i = j

Members(s, n) == {s[i] : i \in 1 .. n}

Off(e, s, n) == \A i \in 1 .. n : s[i] # e

(* They are linked in this order, forth and back. *)
Strung(f, s, n) ==
  \A i \in 1 .. n : f[s[i]].next = Item(s, n, i + 1) /\ f[s[i]].prev = Item(s, n, i - 1)

Ordered(t, s, n) ==
  Row(DOMAIN t.elem, s, n) /\ t.first = Item(s, n, 1) /\ Strung(t.elem, s, n)

(* The c elements from the p-th on are those of bucket b. *)
Pile(t, s, n, b, p, c) ==
  /\ p \in Nat /\ c \in Nat
  /\ \A i \in 1 .. n : Bucket(t, t.elem[s[i]].key) = b <=> p <= i /\ i < p + c
  /\ c # 0 => 1 <= p /\ p + c <= n + 1

Piled(t, s, n) ==
  \A b \in DOMAIN t.table :
    \E p : /\ Pile(t, s, n, b, p, t.table[b].count)
           /\ t.table[b].count # 0 => t.table[b].chain = s[p]

(* Keys and data are the same. *)
SameCells(f, g) ==
  /\ DOMAIN f = DOMAIN g
  /\ \A x \in DOMAIN g : f[x].key = g[x].key /\ f[x].data = g[x].data

(* No two elements have the same key. *)
Distinct(t) == \A x, y \in DOMAIN t.elem : t.elem[x].key = t.elem[y].key => x = y

Sound(t, s, n) ==
  /\ HashTypes(t) /\ Ordered(t, s, n) /\ Piled(t, s, n) /\ Distinct(t)
  /\ DOMAIN t.elem = {s[i] : i \in 1 .. n} /\ t.count = n

(* A key belongs to one of the buckets there are.                          *)
LEMMA BucketIn ==
  ASSUME code \in [Keys -> Nat], NEW t, t.table \in Tables, t.table # <<>>, NEW k \in Keys
  PROVE  Bucket(t, k) \in DOMAIN t.table /\ DOMAIN t.table = 1 .. tableSize(t)
         /\ tableSize(t) \in Nat \ {0} /\ DOMAIN t.table # {}
<1>1. PICK n \in Nat : t.table \in [1 .. n -> Buckets]
  BY DEF Tables
<1>2. t.table \in Seq(Buckets) /\ Len(t.table) = n
  BY <1>1
<1>3. n # 0
  BY <1>2
<1>4. code[k] \in Int /\ n \in Nat \ {0}
  BY <1>1, <1>3
<1>5. code[k] % n \in 0 .. n - 1
  BY <1>4, ModRange
<1>6. (code[k] % n) + 1 \in 1 .. n
  BY <1>4, <1>5
<1>7. 1 \in 1 .. n
  BY <1>4
<1> QED
  BY <1>1, <1>2, <1>4, <1>6, <1>7 DEF Bucket, tableSize

-----------------------------------------------------------------------------
(* Writing a link.                                                         *)

(* A write of next changes nothing else.                                   *)
LEMMA SetNextIs ==
  ASSUME NEW D, Null \notin D, NEW f \in [D -> Cells], NEW e \in D \cup {Null}, NEW x \in Place,
         NEW g, g = SetNext(f, e, x)
  PROVE  /\ g \in [D -> Cells] /\ SameCells(g, f)
         /\ \A y \in D : g[y].next = (IF y = e THEN x ELSE f[y].next) /\ g[y].prev = f[y].prev
<1>1. CASE e = Null
  BY <1>1 DEF SetNext, SameCells
<1>2. CASE e # Null
  <2>1. PICK r : r = [f[e] EXCEPT !.next = x]
    OBVIOUS
  <2>2. e \in D /\ f[e] \in Cells
    BY <1>2
  <2>3. /\ r \in Cells /\ r.next = x /\ r.prev = f[e].prev
        /\ r.key = f[e].key /\ r.data = f[e].data
    BY <2>1, <2>2 DEF Cells
  <2>4. SetNext(f, e, x) = [f EXCEPT ![e] = r]
    BY <1>2, <2>1 DEF SetNext
  <2>5. /\ [f EXCEPT ![e] = r] \in [D -> Cells] /\ DOMAIN f = D
        /\ \A y \in D : [f EXCEPT ![e] = r][y] = IF y = e THEN r ELSE f[y]
    BY <2>2, <2>3
  <2> QED
    BY <2>3, <2>4, <2>5 DEF SameCells
<1> QED
  BY <1>1, <1>2

(* A write of prev changes nothing else.                                   *)
LEMMA SetPrevIs ==
  ASSUME NEW D, Null \notin D, NEW f \in [D -> Cells], NEW e \in D \cup {Null}, NEW x \in Place,
         NEW g, g = SetPrev(f, e, x)
  PROVE  /\ g \in [D -> Cells] /\ SameCells(g, f)
         /\ \A y \in D : g[y].prev = (IF y = e THEN x ELSE f[y].prev) /\ g[y].next = f[y].next
<1>1. CASE e = Null
  BY <1>1 DEF SetPrev, SameCells
<1>2. CASE e # Null
  <2>1. PICK r : r = [f[e] EXCEPT !.prev = x]
    OBVIOUS
  <2>2. e \in D /\ f[e] \in Cells
    BY <1>2
  <2>3. /\ r \in Cells /\ r.prev = x /\ r.next = f[e].next
        /\ r.key = f[e].key /\ r.data = f[e].data
    BY <2>1, <2>2 DEF Cells
  <2>4. SetPrev(f, e, x) = [f EXCEPT ![e] = r]
    BY <1>2, <2>1 DEF SetPrev
  <2>5. /\ [f EXCEPT ![e] = r] \in [D -> Cells] /\ DOMAIN f = D
        /\ \A y \in D : [f EXCEPT ![e] = r][y] = IF y = e THEN r ELSE f[y]
    BY <2>2, <2>3
  <2> QED
    BY <2>3, <2>4, <2>5 DEF SameCells
<1> QED
  BY <1>1, <1>2

-----------------------------------------------------------------------------
(* Putting an element into a list.                                         *)

With(s, n, q, e) == [i \in 1 .. n + 1 |-> IF i < q THEN s[i] ELSE IF i = q THEN e ELSE s[i - 1]]

(* What a list is with e at place q.                                       *)
LEMMA WithIs ==
  ASSUME NEW D, NEW n, NEW s, Row(D, s, n), NEW e \in D, Off(e, s, n),
         NEW q \in 1 .. n + 1, NEW w, w = With(s, n, q, e)
  PROVE  /\ Row(D, w, n + 1)
         /\ \A i \in 1 .. n + 1 : w[i] = IF i < q THEN s[i] ELSE IF i = q THEN e ELSE s[i - 1]
         /\ Members(w, n + 1) = Members(s, n) \cup {e}
         /\ \A j \in Int : Item(w, n + 1, j) = IF j < q THEN Item(s, n, j)
                                             ELSE IF j = q THEN e ELSE Item(s, n, j - 1)
<1>0. /\ n \in Nat /\ s \in [1 .. n -> D]
      /\ \A i, j \in 1 .. n : s[i] = s[j] => i = j
      /\ \A i \in 1 .. n : s[i] # e
  BY DEF Row, Off
<1>1. \A i \in 1 .. n + 1 : w[i] = IF i < q THEN s[i] ELSE IF i = q THEN e ELSE s[i - 1]
  BY <1>0 DEF With
<1>2. \A i \in 1 .. n + 1 : /\ i < q => i \in 1 .. n
                            /\ i # q /\ ~(i < q) => i - 1 \in 1 .. n
  BY <1>0
<1>3. w \in [1 .. n + 1 -> D]
  BY <1>0, <1>2 DEF With
<1>4. ASSUME NEW i \in 1 .. n + 1, NEW j \in 1 .. n + 1, w[i] = w[j] PROVE i = j
  <2>1. CASE i = q \/ j = q
    BY <1>0, <1>1, <1>2, <1>4, <2>1
  <2>2. CASE i # q /\ j # q
    <3>1. PICK a \in 1 .. n, b \in 1 .. n :
            /\ a = IF i < q THEN i ELSE i - 1
            /\ b = IF j < q THEN j ELSE j - 1
      BY <1>2, <2>2
    <3>2. a = b
      BY <1>0, <1>1, <1>4, <2>2, <3>1
    <3> QED
      BY <2>2, <3>1, <3>2
  <2> QED
    BY <2>1, <2>2
<1>5. {w[i] : i \in 1 .. n + 1} = {s[i] : i \in 1 .. n} \cup {e}
  <2>1. \A i \in 1 .. n + 1 : w[i] \in {s[k] : k \in 1 .. n} \cup {e}
    BY <1>0, <1>1, <1>2
  <2>2. w[q] = e
    BY <1>0, <1>1
  <2>3. ASSUME NEW k \in 1 .. n PROVE \E i \in 1 .. n + 1 : w[i] = s[k]
    <3>1. CASE k < q
      <4>1. k \in 1 .. n + 1 /\ w[k] = s[k]
        BY <1>0, <1>1, <3>1
      <4> QED
        BY <4>1
    <3>2. CASE ~(k < q)
      <4>1. PICK i \in 1 .. n + 1 : i = k + 1 /\ ~(i < q) /\ i # q /\ i - 1 = k
        BY <1>0, <3>2
      <4>2. w[i] = s[k]
        BY <1>0, <1>1, <4>1
      <4> QED
        BY <4>2
    <3> QED
      BY <3>1, <3>2
  <2> QED
    BY <2>1, <2>2, <2>3
<1>6. ASSUME NEW j \in Int
      PROVE  Item(w, n + 1, j) = IF j < q THEN Item(s, n, j) ELSE IF j = q THEN e ELSE Item(s, n, j - 1)
  <2>1. CASE j \in 1 .. n + 1
    BY <1>0, <1>1, <1>2, <2>1 DEF Item
  <2>2. CASE j \notin 1 .. n + 1
    BY <1>0, <2>2 DEF Item
  <2> QED
    BY <2>1, <2>2
<1>7. n + 1 \in Nat
  BY <1>0
<1>8. Row(D, w, n + 1)
  BY <1>3, <1>4, <1>7 DEF Row
<1> QED
  BY <1>1, <1>5, <1>6, <1>8 DEF Members

-----------------------------------------------------------------------------
(* insertElement: what it puts the element in front of.                    *)

HeadOf(t, b) == IF b # 0 /\ t.table[b].count # 0 THEN t.table[b].chain ELSE t.first
BeforeOf(t, b) == IF HeadOf(t, b) = t.first THEN Null ELSE t.elem[HeadOf(t, b)].prev

(* The element is put in front of the q-th: the first of its bucket, or of *)
(* the list if the bucket is empty.                                        *)
AtFront(t, s, n, b, q) ==
  IF b # 0 /\ t.table[b].count # 0 THEN Pile(t, s, n, b, q, t.table[b].count) ELSE q = 1

(* insertElement finds the front of the bucket, or of the whole list.      *)
LEMMA HeadIs ==
  ASSUME NEW t, NEW s, NEW n, HashTypes(t), Ordered(t, s, n), Piled(t, s, n),
         NEW b \in DOMAIN t.table \cup {0}
  PROVE  \E q \in 1 .. n + 1 : /\ AtFront(t, s, n, b, q)
                              /\ HeadOf(t, b) = Item(s, n, q) /\ BeforeOf(t, b) = Item(s, n, q - 1)
<1>0. n \in Nat /\ s \in [1 .. n -> DOMAIN t.elem] /\ Null \notin DOMAIN t.elem
  BY HashValues DEF Ordered, Row, HashTypes
<1>1. CASE b # 0 /\ t.table[b].count # 0
  <2>1. PICK p : Pile(t, s, n, b, p, t.table[b].count) /\ t.table[b].chain = s[p]
    BY <1>1 DEF Piled
  <2>2. p \in 1 .. n
    <3>1. PICK c : c = t.table[b].count
      OBVIOUS
    <3>2. p \in Nat /\ c \in Nat /\ c # 0 /\ 1 <= p /\ p + c <= n + 1
      BY <1>1, <2>1, <3>1 DEF Pile
    <3> QED
      BY <1>0, <3>2
  <2>3. HeadOf(t, b) = s[p] /\ Item(s, n, p) = s[p] /\ s[p] \in DOMAIN t.elem
    BY <1>0, <1>1, <2>1, <2>2 DEF HeadOf, Item
  <2>4. t.elem[s[p]].prev = Item(s, n, p - 1)
    BY <2>2 DEF Ordered, Strung
  <2>5. p = 1 => t.first = s[p] /\ Item(s, n, p - 1) = Null
    BY <1>0, <2>2 DEF Ordered, Item
  <2>6. p # 1 => t.first # s[p]
    <3>1. 1 \in 1 .. n
      BY <1>0, <2>2
    <3> QED
      BY <2>2, <3>1 DEF Ordered, Row, Item
  <2>7. BeforeOf(t, b) = Item(s, n, p - 1)
    BY <2>3, <2>4, <2>5, <2>6 DEF BeforeOf
  <2>8. p \in 1 .. n + 1
    BY <1>0, <2>2
  <2> QED
    BY <1>1, <2>1, <2>3, <2>7, <2>8 DEF AtFront
<1>2. CASE ~(b # 0 /\ t.table[b].count # 0)
  <2>1. HeadOf(t, b) = t.first /\ BeforeOf(t, b) = Null
    BY <1>2 DEF HeadOf, BeforeOf
  <2>2. 1 \in 1 .. n + 1 /\ Item(s, n, 1 - 1) = Null /\ t.first = Item(s, n, 1)
    BY <1>0 DEF Ordered, Item
  <2> QED
    BY <1>2, <2>1, <2>2 DEF AtFront
<1> QED
  BY <1>1, <1>2

(* The links after insertElement, whatever the list. *)
LEMMA LinksIs ==
  ASSUME NEW D, Null \notin D, D \subseteq Elems, NEW f \in [D -> Cells], NEW e \in D,
         NEW head \in D \cup {Null}, NEW before \in D \cup {Null}, head # e, before # e,
         NEW g, g = SetNext(SetPrev(SetPrev(SetNext(f, e, head), e, before), head, e), before, e)
  PROVE  /\ g \in [D -> Cells] /\ SameCells(g, f)
         /\ \A y \in D : /\ g[y].next = IF y = before THEN e ELSE IF y = e THEN head ELSE f[y].next
                         /\ g[y].prev = IF y = head THEN e ELSE IF y = e THEN before ELSE f[y].prev
<1>1. head \in Place /\ before \in Place /\ e \in Place
  BY DEF Place
<1>2. PICK f1 : f1 = SetNext(f, e, head)
  OBVIOUS
<1>3. PICK f2 : f2 = SetPrev(f1, e, before)
  OBVIOUS
<1>4. PICK f3 : f3 = SetPrev(f2, head, e)
  OBVIOUS
<1>5. g = SetNext(f3, before, e)
  BY <1>2, <1>3, <1>4
<1>6. /\ f1 \in [D -> Cells] /\ SameCells(f1, f)
      /\ \A y \in D : f1[y].next = (IF y = e THEN head ELSE f[y].next) /\ f1[y].prev = f[y].prev
  BY <1>1, <1>2, SetNextIs
<1>7. /\ f2 \in [D -> Cells] /\ SameCells(f2, f1)
      /\ \A y \in D : f2[y].prev = (IF y = e THEN before ELSE f1[y].prev) /\ f2[y].next = f1[y].next
  BY <1>1, <1>3, <1>6, SetPrevIs
<1>8. /\ f3 \in [D -> Cells] /\ SameCells(f3, f2)
      /\ \A y \in D : f3[y].prev = (IF y = head THEN e ELSE f2[y].prev) /\ f3[y].next = f2[y].next
  BY <1>1, <1>4, <1>7, SetPrevIs
<1>9. /\ g \in [D -> Cells] /\ SameCells(g, f3)
      /\ \A y \in D : g[y].next = (IF y = before THEN e ELSE f3[y].next) /\ g[y].prev = f3[y].prev
  BY <1>1, <1>5, <1>8, SetNextIs
<1>10. SameCells(g, f)
  BY <1>6, <1>7, <1>8, <1>9 DEF SameCells
<1>12. \A y \in D : /\ g[y].next = IF y = before THEN e ELSE IF y = e THEN head ELSE f[y].next
                    /\ g[y].prev = IF y = head THEN e ELSE IF y = e THEN before ELSE f[y].prev
  BY <1>6, <1>7, <1>8, <1>9
<1> QED
  BY <1>9, <1>10, <1>12

(* Element e can become the q-th. *)
Insertable(D, f, s, n, e, q) ==
  /\ D \subseteq Elems /\ f \in [D -> Cells] /\ Row(D, s, n) /\ Strung(f, s, n)
  /\ e \in D /\ Off(e, s, n) /\ q \in 1 .. n + 1

(* The four writes of insertElement link e in at place q.                  *)
LEMMA LinkedIs ==
  ASSUME NEW D, NEW f, NEW n, NEW s, NEW e, NEW q, Insertable(D, f, s, n, e, q),
         NEW head, head = Item(s, n, q), NEW before, before = Item(s, n, q - 1),
         NEW g, g = SetNext(SetPrev(SetPrev(SetNext(f, e, head), e, before), head, e), before, e),
         NEW w, w = With(s, n, q, e)
  PROVE  g \in [D -> Cells] /\ SameCells(g, f) /\ Strung(g, w, n + 1)
<1>a. /\ D \subseteq Elems /\ f \in [D -> Cells] /\ Row(D, s, n) /\ Strung(f, s, n)
      /\ e \in D /\ Off(e, s, n) /\ q \in 1 .. n + 1
  BY DEF Insertable
<1>0. /\ Null \notin D /\ n \in Nat /\ s \in [1 .. n -> D]
      /\ \A i, j \in 1 .. n : s[i] = s[j] => i = j
      /\ \A i \in 1 .. n : s[i] # e
      /\ \A i \in 1 .. n : f[s[i]].next = Item(s, n, i + 1) /\ f[s[i]].prev = Item(s, n, i - 1)
  BY <1>a, HashValues DEF Row, Off, Strung
<1>11. head \in D \cup {Null} /\ before \in D \cup {Null} /\ head # e /\ before # e
  BY <1>0, <1>a DEF Item
<1>12. /\ g \in [D -> Cells] /\ SameCells(g, f)
       /\ \A y \in D : /\ g[y].next = IF y = before THEN e ELSE IF y = e THEN head ELSE f[y].next
                       /\ g[y].prev = IF y = head THEN e ELSE IF y = e THEN before ELSE f[y].prev
  <2>1. Null \notin D /\ D \subseteq Elems /\ f \in [D -> Cells] /\ e \in D
    BY <1>0, <1>a
  <2> QED
    BY <1>11, <2>1, LinksIs, SMTT(30)
<1>13. /\ Row(D, w, n + 1)
       /\ \A i \in 1 .. n + 1 : w[i] = IF i < q THEN s[i] ELSE IF i = q THEN e ELSE s[i - 1]
       /\ \A j \in Int : Item(w, n + 1, j) = IF j < q THEN Item(s, n, j)
                                           ELSE IF j = q THEN e ELSE Item(s, n, j - 1)
  BY <1>a, WithIs
<1>15. w \in [1 .. n + 1 -> D]
  BY <1>13 DEF Row
<1>14. ASSUME NEW i \in 1 .. n + 1
       PROVE  g[w[i]].next = Item(w, n + 1, i + 1) /\ g[w[i]].prev = Item(w, n + 1, i - 1)
  <2>1. i + 1 \in Int /\ i - 1 \in Int /\ w[i] \in D
    BY <1>0, <1>a, <1>15
  <2>2. CASE i = q
    <3>1. w[i] = e
      BY <1>0, <1>a, <1>13, <2>2
    <3>2. Item(w, n + 1, i + 1) = Item(s, n, q) /\ Item(w, n + 1, i - 1) = Item(s, n, q - 1)
      <4>1. ~(i + 1 < q) /\ i + 1 # q /\ (i + 1) - 1 = q /\ i - 1 < q
        BY <1>0, <1>a, <2>2
      <4> QED
        BY <1>0, <1>a, <1>13, <2>1, <2>2, <4>1
    <3> QED
      BY <1>0, <1>a, <1>11, <1>12, <3>1, <3>2
  <2>3. CASE i < q
    <3>1. i \in 1 .. n /\ w[i] = s[i] /\ s[i] # e /\ i # q /\ i - 1 < q
      BY <1>0, <1>a, <1>13, <2>3
    <3>2. g[w[i]].prev = Item(w, n + 1, i - 1)
      <4>1. s[i] # head
        BY <1>0, <1>a, <3>1 DEF Item
      <4>2. Item(w, n + 1, i - 1) = Item(s, n, i - 1)
        BY <1>0, <1>a, <1>13, <2>1, <3>1
      <4>3. g[s[i]].prev = f[s[i]].prev
        BY <1>12, <2>1, <3>1, <4>1
      <4>4. f[s[i]].prev = Item(s, n, i - 1)
        BY <1>0, <3>1
      <4> QED
        BY <3>1, <4>2, <4>3, <4>4
    <3>3. CASE i + 1 = q
      <4>1. s[i] = before
        <5>1. q - 1 = i
          BY <1>0, <1>a, <3>3
        <5> QED
          BY <1>0, <1>a, <3>1, <5>1 DEF Item
      <4>2. Item(w, n + 1, i + 1) = e
        BY <1>0, <1>a, <1>13, <2>1, <3>3
      <4> QED
        BY <1>0, <1>a, <1>12, <2>1, <3>1, <3>2, <4>1, <4>2
    <3>4. CASE i + 1 # q
      <4>1. i + 1 < q
        BY <1>0, <1>a, <2>3, <3>4
      <4>2. s[i] # before
        <5>1. q - 1 # i
          BY <1>0, <1>a, <4>1
        <5> QED
          BY <1>0, <1>a, <3>1, <5>1 DEF Item
      <4>3. Item(w, n + 1, i + 1) = Item(s, n, i + 1)
        BY <1>0, <1>a, <1>13, <2>1, <4>1
      <4> QED
        BY <1>0, <1>a, <1>12, <2>1, <3>1, <3>2, <4>2, <4>3
    <3> QED
      BY <1>0, <1>a, <3>3, <3>4
  <2>4. CASE q < i
    <3>1. PICK k \in 1 .. n : k = i - 1
      BY <1>0, <1>a, <2>4
    <3>2. w[i] = s[k] /\ s[k] # e /\ i = k + 1 /\ q <= k
      <4>1. i = k + 1 /\ q <= k
        BY <1>0, <1>a, <2>4, <3>1
      <4>2. ~(i < q) /\ i # q
        BY <1>0, <1>a, <2>4
      <4> QED
        BY <1>0, <1>a, <1>13, <3>1, <4>1, <4>2
    <3>3. g[w[i]].next = Item(w, n + 1, i + 1)
      <4>1. s[k] # before
        <5>1. q - 1 # k
          BY <1>0, <1>a, <3>2
        <5> QED
          BY <1>0, <1>a, <5>1 DEF Item
      <4>2. Item(w, n + 1, i + 1) = Item(s, n, k + 1)
        <5>1. ~(i + 1 < q) /\ i + 1 # q /\ (i + 1) - 1 = k + 1
          BY <1>0, <1>a, <3>2
        <5> QED
          BY <1>0, <1>a, <1>13, <2>1, <5>1
      <4> QED
        BY <1>0, <1>a, <1>12, <2>1, <3>2, <4>1, <4>2
    <3>4. CASE k = q
      <4>1. s[k] = head
        BY <1>0, <1>a, <3>4 DEF Item
      <4>2. Item(w, n + 1, i - 1) = e
        BY <1>0, <1>a, <1>13, <2>1, <3>1, <3>4
      <4> QED
        BY <1>0, <1>a, <1>12, <2>1, <3>2, <3>3, <4>1, <4>2
    <3>5. CASE k # q
      <4>1. s[k] # head
        BY <1>0, <1>a, <3>5 DEF Item
      <4>2. Item(w, n + 1, i - 1) = Item(s, n, k - 1)
        <5>1. ~(i - 1 < q) /\ i - 1 # q /\ (i - 1) - 1 = k - 1
          BY <1>0, <1>a, <3>1, <3>2, <3>5
        <5> QED
          BY <1>0, <1>a, <1>13, <2>1, <5>1
      <4> QED
        BY <1>0, <1>a, <1>12, <2>1, <3>2, <3>3, <4>1, <4>2
    <3> QED
      BY <1>0, <1>a, <3>4, <3>5
  <2> QED
    BY <1>0, <1>a, <2>2, <2>3, <2>4
<1> QED
  BY <1>0, <1>a, <1>12, <1>14 DEF Strung

-----------------------------------------------------------------------------
(* insertElement: the buckets.                                             *)

(* An interval of c numbers from p on, before or after q is put in. *)
LEMMA IntervalMoves ==
  ASSUME NEW n \in Nat, NEW q \in 1 .. n + 1, NEW p \in Nat, NEW c \in Nat,
         c # 0 => 1 <= p /\ p + c <= n + 1 /\ (p + c <= q \/ q <= p),
         NEW r, r = IF c # 0 /\ q <= p THEN p + 1 ELSE p
  PROVE  /\ r \in Nat /\ (c # 0 => 1 <= r /\ r + c <= n + 2)
         /\ \A i \in 1 .. n + 1 : i < q => (p <= i /\ i < p + c <=> r <= i /\ i < r + c)
         /\ \A i \in 1 .. n + 1 : q < i => (p <= i - 1 /\ i - 1 < p + c <=> r <= i /\ i < r + c)
         /\ ~(r <= q /\ q < r + c)
  OBVIOUS

(* The bucket of a key depends on the number of buckets alone.             *)
LEMMA SameBucket ==
  ASSUME NEW t, NEW u, t.table \in Tables, u.table \in Tables, DOMAIN u.table = DOMAIN t.table, NEW k
  PROVE  Bucket(u, k) = Bucket(t, k)
<1>1. PICK m \in Nat, n \in Nat : t.table \in [1 .. m -> Buckets] /\ u.table \in [1 .. n -> Buckets]
  BY DEF Tables
<1>2. Len(t.table) = m /\ Len(u.table) = n /\ m = n
  <2>1. t.table \in Seq(Buckets) /\ u.table \in Seq(Buckets)
    BY <1>1
  <2>2. 1 .. m = 1 .. n
    BY <1>1
  <2> QED
    BY <1>1, <2>1, <2>2
<1> QED
  BY <1>2 DEF Bucket, tableSize

(* So does that of an element whose key stays.                             *)
LEMMA KeysMove ==
  ASSUME NEW t, NEW u, DOMAIN u.table = DOMAIN t.table, t.table \in Tables, u.table \in Tables,
         SameCells(u.elem, t.elem), NEW x \in DOMAIN t.elem
  PROVE  Bucket(u, u.elem[x].key) = Bucket(t, t.elem[x].key)
<1>1. u.elem[x].key = t.elem[x].key
  BY DEF SameCells
<1> QED
  BY <1>1, SameBucket

(* A bucket has an element more, those behind it move by one place.        *)
LEMMA PiledMoves ==
  ASSUME NEW t, NEW u, DOMAIN u.table = DOMAIN t.table, t.table \in Tables, u.table \in Tables,
         SameCells(u.elem, t.elem), NEW s, NEW n, Row(DOMAIN t.elem, s, n), Piled(t, s, n),
         NEW e \in DOMAIN t.elem, Off(e, s, n), NEW q \in 1 .. n + 1, NEW w, w = With(s, n, q, e),
         NEW b \in DOMAIN t.table, b = Bucket(t, t.elem[e].key), AtFront(t, s, n, b, q),
         u.table[b].count = t.table[b].count + 1, u.table[b].chain = e,
         \A d \in DOMAIN t.table : d # b => u.table[d] = t.table[d]
  PROVE  Piled(u, w, n + 1)
<1>1. PICK K : K = [x \in DOMAIN t.elem |-> Bucket(t, t.elem[x].key)]
  OBVIOUS
<1>2. /\ Row(DOMAIN t.elem, w, n + 1)
      /\ \A i \in 1 .. n + 1 : w[i] = IF i < q THEN s[i] ELSE IF i = q THEN e ELSE s[i - 1]
  BY WithIs
<1>3. \A i \in 1 .. n + 1 :
        Bucket(u, u.elem[w[i]].key) = IF i < q THEN K[s[i]] ELSE IF i = q THEN K[e] ELSE K[s[i - 1]]
  <2>1. \A x \in DOMAIN t.elem : Bucket(u, u.elem[x].key) = Bucket(t, t.elem[x].key)
    BY KeysMove
  <2>4. w \in [1 .. n + 1 -> DOMAIN t.elem]
    BY <1>2 DEF Row
  <2>2. \A i \in 1 .. n + 1 : /\ i < q => i \in 1 .. n
                              /\ q < i => i - 1 \in 1 .. n
    BY DEF Row
  <2>3. s \in [1 .. n -> DOMAIN t.elem]
    BY DEF Row
  <2> QED
    BY <1>1, <1>2, <2>1, <2>2, <2>3, <2>4
<1>4. /\ n \in Nat /\ s \in [1 .. n -> DOMAIN t.elem] /\ K[e] = b
      /\ \A i \in 1 .. n : K[s[i]] = Bucket(t, t.elem[s[i]].key)
  BY <1>1 DEF Row
<1>5. ASSUME NEW d \in DOMAIN t.table
      PROVE  \E r : /\ Pile(u, w, n + 1, d, r, u.table[d].count)
                    /\ u.table[d].count # 0 => u.table[d].chain = w[r]
  <2>1. PICK p : /\ Pile(t, s, n, d, p, t.table[d].count)
                 /\ t.table[d].count # 0 => t.table[d].chain = s[p]
    BY DEF Piled
  <2>2. PICK c : c = t.table[d].count
    OBVIOUS
  <2>3. /\ p \in Nat /\ c \in Nat /\ (c # 0 => 1 <= p /\ p + c <= n + 1)
        /\ \A i \in 1 .. n : K[s[i]] = d <=> p <= i /\ i < p + c
    BY <1>4, <2>1, <2>2 DEF Pile
  <2>4. \A i \in 1 .. n + 1 : /\ i < q => i \in 1 .. n
                              /\ q < i => i - 1 \in 1 .. n
    BY <1>4
  <2>5. CASE d = b
    <3>1. u.table[d].count = c + 1 /\ w[q] = e
      BY <1>2, <2>2, <2>5
    <3>2. \A i \in 1 .. n : K[s[i]] = d <=> q <= i /\ i < q + c
      <4>1. CASE c = 0
        BY <1>4, <2>3, <4>1
      <4>2. CASE c # 0
        <5>1. b # 0
          BY DEF Tables
        <5>2. Pile(t, s, n, b, q, c)
          BY <2>2, <2>5, <4>2, <5>1 DEF AtFront
        <5> QED
          BY <1>4, <2>5, <5>2 DEF Pile
      <4> QED
        BY <4>1, <4>2
    <3>3. 1 <= q /\ q + c <= n + 1
      <4>1. CASE c = 0
        BY <1>4, <4>1
      <4>2. CASE c # 0
        <5>1. b # 0
          BY DEF Tables
        <5>2. Pile(t, s, n, b, q, c)
          BY <2>2, <2>5, <4>2, <5>1 DEF AtFront
        <5> QED
          BY <4>2, <5>2 DEF Pile
      <4> QED
        BY <4>1, <4>2
    <3>4. c = 0 => q = 1
      <4>1. b # 0
        BY DEF Tables
      <4> QED
        BY <2>2, <2>5, <4>1 DEF AtFront
    <3>5. ASSUME NEW i \in 1 .. n + 1
          PROVE  Bucket(u, u.elem[w[i]].key) = d <=> q <= i /\ i < q + (c + 1)
      <4>1. CASE i = q
        BY <1>3, <1>4, <2>3, <2>5, <4>1
      <4>2. CASE i < q
        <5>1. i \in 1 .. n /\ Bucket(u, u.elem[w[i]].key) = K[s[i]] /\ ~(q <= i)
          BY <1>3, <2>4, <4>2
        <5> QED
          BY <3>2, <5>1
      <4>3. CASE q < i
        <5>1. PICK k \in 1 .. n : k = i - 1
          BY <2>4, <4>3
        <5>2. Bucket(u, u.elem[w[i]].key) = K[s[k]]
          <6>1. ~(i < q) /\ i # q
            BY <4>3
          <6> QED
            BY <1>3, <5>1, <6>1
        <5>3. i = k + 1 /\ q <= k
          BY <4>3, <5>1
        <5> QED
          BY <2>3, <3>2, <5>2, <5>3
      <4> QED
        BY <4>1, <4>2, <4>3
    <3>6. q \in Nat /\ c + 1 \in Nat /\ q + (c + 1) <= (n + 1) + 1
      BY <1>4, <2>3, <3>3
    <3>7. Pile(u, w, n + 1, d, q, c + 1)
      BY <3>3, <3>5, <3>6 DEF Pile
    <3> QED
      BY <2>5, <3>1, <3>7
  <2>6. CASE d # b
    <3>1. c # 0 => p + c <= q \/ q <= p
      <4> SUFFICES ASSUME c # 0, p < q, q < p + c PROVE FALSE
        BY <1>4, <2>3
      <4>1. q \in 1 .. n /\ q # 1
        BY <1>4, <2>3
      <4>2. b # 0 /\ t.table[b].count # 0
        BY <4>1 DEF AtFront
      <4>3. K[s[q]] = b
        <5>1. PICK m : m = t.table[b].count
          OBVIOUS
        <5>2. Pile(t, s, n, b, q, m) /\ m # 0
          BY <4>2, <5>1 DEF AtFront
        <5>3. m \in Nat /\ (Bucket(t, t.elem[s[q]].key) = b <=> q <= q /\ q < q + m)
          BY <4>1, <5>2 DEF Pile
        <5> QED
          BY <1>4, <4>1, <5>2, <5>3
      <4>4. K[s[q]] = d
        BY <2>3, <4>1
      <4> QED
        BY <2>6, <4>3, <4>4
    <3>2. PICK r : r = IF c # 0 /\ q <= p THEN p + 1 ELSE p
      OBVIOUS
    <3>3. /\ r \in Nat /\ (c # 0 => 1 <= r /\ r + c <= n + 2)
          /\ \A i \in 1 .. n + 1 : i < q => (p <= i /\ i < p + c <=> r <= i /\ i < r + c)
          /\ \A i \in 1 .. n + 1 : q < i => (p <= i - 1 /\ i - 1 < p + c <=> r <= i /\ i < r + c)
          /\ ~(r <= q /\ q < r + c)
      BY <1>4, <2>3, <3>1, <3>2, IntervalMoves
    <3>4. ASSUME NEW i \in 1 .. n + 1
          PROVE  Bucket(u, u.elem[w[i]].key) = d <=> r <= i /\ i < r + c
      <4>1. CASE i = q
        <5>1. Bucket(u, u.elem[w[i]].key) = b
          BY <1>3, <1>4, <4>1
        <5> QED
          BY <2>6, <3>3, <4>1, <5>1
      <4>2. CASE i < q
        <5>1. i \in 1 .. n /\ Bucket(u, u.elem[w[i]].key) = K[s[i]]
          BY <1>3, <2>4, <4>2
        <5> QED
          BY <2>3, <3>3, <4>2, <5>1
      <4>3. CASE q < i
        <5>1. PICK k \in 1 .. n : k = i - 1
          BY <2>4, <4>3
        <5>2. Bucket(u, u.elem[w[i]].key) = K[s[k]]
          <6>1. ~(i < q) /\ i # q
            BY <4>3
          <6> QED
            BY <1>3, <5>1, <6>1
        <5> QED
          BY <2>3, <3>3, <4>3, <5>1, <5>2
      <4> QED
        BY <4>1, <4>2, <4>3
    <3>5. c # 0 => 1 <= r /\ r + c <= (n + 1) + 1
      BY <1>4, <2>3, <3>3
    <3>6. Pile(u, w, n + 1, d, r, c)
      BY <2>3, <3>3, <3>4, <3>5 DEF Pile
    <3>7. c # 0 => s[p] = w[r]
      <4> SUFFICES ASSUME c # 0 PROVE s[p] = w[r]
        OBVIOUS
      <4>1. p \in 1 .. n
        BY <1>4, <2>3
      <4>2. CASE q <= p
        <5>1. r \in 1 .. n + 1 /\ ~(r < q) /\ r # q /\ r - 1 = p
          BY <1>4, <3>2, <4>1, <4>2
        <5> QED
          BY <1>2, <5>1
      <4>3. CASE ~(q <= p)
        <5>1. r \in 1 .. n + 1 /\ r < q /\ r = p
          BY <1>4, <3>2, <4>1, <4>3
        <5> QED
          BY <1>2, <5>1
      <4> QED
        BY <4>2, <4>3
    <3> QED
      BY <2>1, <2>2, <2>6, <3>6, <3>7
  <2> QED
    BY <2>5, <2>6
<1> QED
  BY <1>5 DEF Piled

-----------------------------------------------------------------------------
(* insertElement.                                                          *)

InOrder(t, s, n) == HashTypes(t) /\ Ordered(t, s, n) /\ Piled(t, s, n)

(* Links apart, and the lengths of buckets, t and u are the same. *)
Alike(u, t) ==
  SameCells(u.elem, t.elem) /\ u.count = t.count /\ DOMAIN u.table = DOMAIN t.table

(* insertElement keeps the order and the buckets.                          *)
LEMMA InsertIs ==
  ASSUME code \in [Keys -> Codes], NEW t, NEW s, NEW n, InOrder(t, s, n),
         NEW e \in DOMAIN t.elem, Off(e, s, n),
         NEW b, b = IF t.table = <<>> THEN 0 ELSE Bucket(t, t.elem[e].key),
         NEW u, u = insertElement(t, b, e)
  PROVE  \E w : InOrder(u, w, n + 1) /\ Alike(u, t) /\ Members(w, n + 1) = Members(s, n) \cup {e}
<1>0. HashTypes(t) /\ Ordered(t, s, n) /\ Piled(t, s, n)
  BY DEF InOrder
<1>1. PICK D : D = DOMAIN t.elem
  OBVIOUS
<1>2. /\ t.first \in Place /\ t.count \in Nat /\ t.table \in Tables
      /\ t.elem \in [D -> Cells] /\ D \subseteq Elems /\ e \in D
      /\ Row(D, s, n) /\ t.first = Item(s, n, 1) /\ Strung(t.elem, s, n)
  BY <1>0, <1>1 DEF HashTypes, Ordered
<1>13. n \in Nat /\ s \in [1 .. n -> D] /\ Null \notin D
  BY <1>2, HashValues DEF Row
<1>3. \A k \in Keys : code[k] \in Nat
  BY HashSizes
<1>4. code \in [Keys -> Nat]
  BY HashSizes
<1>5. t.elem[e].key \in Keys
  BY <1>2 DEF Cells
<1>6. b \in DOMAIN t.table \cup {0} /\ (b = 0 <=> t.table = <<>>)
  <2>1. CASE t.table = <<>>
    BY <2>1
  <2>2. CASE t.table # <<>>
    <3>1. b \in DOMAIN t.table /\ DOMAIN t.table = 1 .. tableSize(t)
      BY <1>2, <1>4, <1>5, <2>2, BucketIn
    <3>2. tableSize(t) \in Nat
      BY <1>2, <1>4, <1>5, <2>2, BucketIn
    <3> QED
      BY <2>2, <3>1, <3>2
  <2> QED
    BY <2>1, <2>2
<1>7. PICK q \in 1 .. n + 1 : /\ AtFront(t, s, n, b, q)
                             /\ HeadOf(t, b) = Item(s, n, q) /\ BeforeOf(t, b) = Item(s, n, q - 1)
  BY <1>0, <1>6, HeadIs
<1>8. PICK head, before : head = HeadOf(t, b) /\ before = BeforeOf(t, b)
  OBVIOUS
<1>9. /\ u.first = IF before = Null THEN e ELSE t.first
      /\ u.count = t.count
      /\ u.table = IF b = 0 THEN t.table
                   ELSE [t.table EXCEPT ![b] = [count |-> @.count + 1, chain |-> e]]
      /\ u.elem = SetNext(SetPrev(SetPrev(SetNext(t.elem, e, head), e, before), head, e), before, e)
  BY <1>8 DEF insertElement, HeadOf, BeforeOf
<1>10. PICK w : w = With(s, n, q, e)
  OBVIOUS
<1>11. /\ Row(D, w, n + 1)
       /\ Members(w, n + 1) = Members(s, n) \cup {e}
       /\ \A j \in Int : Item(w, n + 1, j) = IF j < q THEN Item(s, n, j)
                                           ELSE IF j = q THEN e ELSE Item(s, n, j - 1)
  <2>1. Row(D, s, n) /\ e \in D
    BY <1>2
  <2> QED
    BY <1>7, <1>10, <1>13, <2>1, WithIs
<1>12. u.elem \in [D -> Cells] /\ SameCells(u.elem, t.elem) /\ Strung(u.elem, w, n + 1)
  <2>1. PICK f, g : f = t.elem /\ g = u.elem
    OBVIOUS
  <2>2. D \subseteq Elems /\ f \in [D -> Cells] /\ Row(D, s, n) /\ Strung(f, s, n) /\ e \in D
    BY <1>2, <2>1
  <2>3. head = Item(s, n, q) /\ before = Item(s, n, q - 1)
    BY <1>7, <1>8
  <2>4. g = SetNext(SetPrev(SetPrev(SetNext(f, e, head), e, before), head, e), before, e)
    BY <1>9, <2>1
  <2>6. Insertable(D, f, s, n, e, q)
    BY <1>7, <2>2 DEF Insertable
  <2>5. g \in [D -> Cells] /\ SameCells(g, f) /\ Strung(g, w, n + 1)
    BY <1>10, <2>3, <2>4, <2>6, LinkedIs
  <2> QED
    BY <2>1, <2>5
<1>14. u.first = Item(w, n + 1, 1)
  <2>1. CASE q = 1
    <3>1. before = Null
      BY <1>7, <1>8, <2>1 DEF Item
    <3> QED
      BY <1>9, <1>11, <2>1, <3>1
  <2>2. CASE q # 1
    <3>1. q - 1 \in 1 .. n /\ 1 < q
      BY <1>13, <2>2
    <3>2. before # Null
      BY <1>7, <1>8, <1>13, <3>1 DEF Item
    <3> QED
      BY <1>2, <1>9, <1>11, <3>1, <3>2
  <2> QED
    BY <2>1, <2>2
<1>15. /\ u.table \in Tables /\ DOMAIN u.table = DOMAIN t.table
       /\ b # 0 => /\ u.table[b].count = t.table[b].count + 1 /\ u.table[b].chain = e
                   /\ \A d \in DOMAIN t.table : d # b => u.table[d] = t.table[d]
  <2>1. CASE b = 0
    BY <1>2, <1>9, <2>1
  <2>2. CASE b # 0
    <3>1. PICK m \in Nat : t.table \in [1 .. m -> Buckets]
      BY <1>2 DEF Tables
    <3>2. b \in 1 .. m
      BY <1>6, <2>2, <3>1
    <3>3. PICK c : c = [count |-> t.table[b].count + 1, chain |-> e]
      OBVIOUS
    <3>4. c \in Buckets /\ c.count = t.table[b].count + 1 /\ c.chain = e
      BY <1>2, <3>1, <3>2, <3>3 DEF Buckets, Place
    <3>5. u.table = [t.table EXCEPT ![b] = c]
      BY <1>9, <2>2, <3>3
    <3>6. u.table \in [1 .. m -> Buckets] /\ u.table[b] = c /\ \A d \in 1 .. m : d # b => u.table[d] = t.table[d]
      BY <3>1, <3>2, <3>4, <3>5
    <3> QED
      BY <3>1, <3>4, <3>6 DEF Tables
  <2> QED
    BY <2>1, <2>2
<1>16. Piled(u, w, n + 1)
  <2>1. CASE b = 0
    <3>1. DOMAIN u.table = {}
      BY <1>6, <1>15, <2>1
    <3> QED
      BY <3>1 DEF Piled
  <2>2. CASE b # 0
    <3>1. b \in DOMAIN t.table /\ b = Bucket(t, t.elem[e].key)
      BY <1>6, <2>2
    <3> QED
      BY <1>0, <1>1, <1>2, <1>7, <1>10, <1>12, <1>15, <2>2, <3>1, PiledMoves
  <2> QED
    BY <2>1, <2>2
<1>17. DOMAIN u.elem = D /\ u.first \in Place /\ u.count \in Nat
  BY <1>2, <1>9, <1>12 DEF Place
<1>18. HashTypes(u) /\ Ordered(u, w, n + 1)
  BY <1>2, <1>11, <1>12, <1>14, <1>15, <1>17 DEF HashTypes, Ordered
<1>19. Alike(u, t)
  BY <1>9, <1>12, <1>15 DEF Alike
<1> QED
  BY <1>11, <1>16, <1>18, <1>19 DEF InOrder

-----------------------------------------------------------------------------
(* Taking an element out of a list.                                        *)

Without(s, n, q) == [i \in 1 .. n - 1 |-> IF i < q THEN s[i] ELSE s[i + 1]]

(* What a list is without its q-th element.                                *)
LEMMA WithoutIs ==
  ASSUME NEW D, NEW n, NEW s, Row(D, s, n), NEW q \in 1 .. n, NEW w, w = Without(s, n, q)
  PROVE  /\ Row(D \ {s[q]}, w, n - 1) /\ Members(w, n - 1) = Members(s, n) \ {s[q]}
         /\ \A i \in 1 .. n - 1 : w[i] = IF i < q THEN s[i] ELSE s[i + 1]
         /\ \A j \in Int : Item(w, n - 1, j) = IF j < q THEN Item(s, n, j) ELSE Item(s, n, j + 1)
<1>0. n \in Nat /\ s \in [1 .. n -> D] /\ n - 1 \in Nat /\ \A i, j \in 1 .. n : s[i] = s[j] => i = j
  BY DEF Row
<1>1. \A i \in 1 .. n - 1 : w[i] = IF i < q THEN s[i] ELSE s[i + 1]
  BY DEF Without
<1>2. \A i \in 1 .. n - 1 : i \in 1 .. n /\ i + 1 \in 1 .. n
  BY <1>0
<1>3. w \in [1 .. n - 1 -> D \ {s[q]}]
  <2>1. ASSUME NEW i \in 1 .. n - 1
        PROVE  (IF i < q THEN s[i] ELSE s[i + 1]) \in D \ {s[q]}
    <3>1. CASE i < q
      <4>1. i # q
        BY <1>0, <3>1
      <4> QED
        BY <1>0, <1>2, <3>1, <4>1
    <3>2. CASE ~(i < q)
      <4>1. i + 1 # q /\ i + 1 \in 1 .. n
        BY <1>2, <3>2
      <4>2. s[i + 1] \in D /\ s[i + 1] # s[q]
        BY <1>0, <4>1
      <4> QED
        BY <3>2, <4>2
    <3> QED
      BY <3>1, <3>2
  <2> QED
    BY <2>1 DEF Without
<1>4. ASSUME NEW i \in 1 .. n - 1, NEW j \in 1 .. n - 1, w[i] = w[j] PROVE i = j
  <2>1. PICK a \in 1 .. n, b \in 1 .. n :
          a = (IF i < q THEN i ELSE i + 1) /\ b = (IF j < q THEN j ELSE j + 1)
    BY <1>2
  <2>2. w[i] = s[a] /\ w[j] = s[b]
    BY <1>1, <2>1
  <2>3. a = b
    BY <1>0, <1>4, <2>2
  <2> QED
    BY <2>1, <2>3
<1>5. Row(D \ {s[q]}, w, n - 1)
  BY <1>0, <1>3, <1>4 DEF Row
<1>6. Members(w, n - 1) = Members(s, n) \ {s[q]}
  <2>1. \A i \in 1 .. n - 1 : w[i] \in Members(s, n) /\ w[i] # s[q]
    BY <1>1, <1>2, <1>3 DEF Members
  <2>2. ASSUME NEW k \in 1 .. n, s[k] # s[q] PROVE s[k] \in Members(w, n - 1)
    <3>1. CASE k < q
      <4>1. k \in 1 .. n - 1
        BY <1>0, <3>1
      <4>2. w[k] = s[k]
        BY <1>1, <3>1, <4>1
      <4> QED
        BY <4>1, <4>2 DEF Members
    <3>2. CASE ~(k < q)
      <4>1. PICK i \in 1 .. n - 1 : i + 1 = k /\ ~(i < q)
        <5>1. k # q
          BY <2>2
        <5>2. k - 1 \in 1 .. n - 1 /\ (k - 1) + 1 = k /\ ~(k - 1 < q)
          BY <1>0, <3>2, <5>1
        <5> QED
          BY <5>2
      <4>2. w[i] = s[k]
        BY <1>1, <4>1
      <4> QED
        BY <4>1, <4>2 DEF Members
    <3> QED
      BY <3>1, <3>2
  <2> QED
    BY <2>1, <2>2 DEF Members
<1>7. ASSUME NEW j \in Int
      PROVE  Item(w, n - 1, j) = IF j < q THEN Item(s, n, j) ELSE Item(s, n, j + 1)
  <2>1. CASE j \in 1 .. n - 1
    BY <1>1, <1>2, <2>1 DEF Item
  <2>2. CASE j \notin 1 .. n - 1
    <3>1. j < q => j \notin 1 .. n
      BY <1>0, <2>2
    <3>2. ~(j < q) => j + 1 \notin 1 .. n
      BY <1>0, <2>2
    <3> QED
      BY <2>2, <3>1, <3>2 DEF Item
  <2> QED
    BY <2>1, <2>2
<1> QED
  BY <1>1, <1>5, <1>6, <1>7

Listed(D, f, s, n) == D \subseteq Elems /\ f \in [D -> Cells] /\ Row(D, s, n) /\ Strung(f, s, n)

(* The elements left when e is taken out between its neighbours. *)
Spared(D, f, before, after, e) ==
  [x \in D \ {e} |-> SetPrev(SetNext(f, before, after), after, before)[x]]

Untouched(k, f) == \A x \in DOMAIN k : k[x].key = f[x].key /\ k[x].data = f[x].data

(* The writes of removeElementGivenHash take the q-th element out.         *)
LEMMA UnlinkedIs ==
  ASSUME NEW D, NEW f, NEW n, NEW s, Listed(D, f, s, n), NEW q \in 1 .. n,
         NEW k, k = Spared(D, f, Item(s, n, q - 1), Item(s, n, q + 1), s[q]), NEW w, w = Without(s, n, q)
  PROVE  k \in [D \ {s[q]} -> Cells] /\ Strung(k, w, n - 1) /\ Untouched(k, f)
<1>b. PICK before, after, g :
        /\ before = Item(s, n, q - 1) /\ after = Item(s, n, q + 1)
        /\ g = SetPrev(SetNext(f, before, after), after, before)
  OBVIOUS
<1>c. k = [x \in D \ {s[q]} |-> g[x]]
  BY <1>b DEF Spared
<1>a. D \subseteq Elems /\ f \in [D -> Cells] /\ Row(D, s, n) /\ Strung(f, s, n)
  BY DEF Listed
<1>0. /\ Null \notin D /\ n \in Nat /\ s \in [1 .. n -> D]
      /\ \A i, j \in 1 .. n : s[i] = s[j] => i = j
      /\ \A i \in 1 .. n : f[s[i]].next = Item(s, n, i + 1) /\ f[s[i]].prev = Item(s, n, i - 1)
  BY <1>a, HashValues DEF Row, Strung
<1>1. before \in D \cup {Null} /\ after \in D \cup {Null}
  BY <1>0, <1>b DEF Item
<1>2. before \in Place /\ after \in Place
  BY <1>1, <1>a DEF Place
<1>3. PICK f1 : f1 = SetNext(f, before, after)
  OBVIOUS
<1>4. /\ f1 \in [D -> Cells] /\ SameCells(f1, f)
      /\ \A y \in D : f1[y].next = (IF y = before THEN after ELSE f[y].next) /\ f1[y].prev = f[y].prev
  <2>1. Null \notin D /\ f \in [D -> Cells]
    BY <1>0, <1>a
  <2> QED
    BY <1>1, <1>2, <1>3, <2>1, SetNextIs
<1>5. /\ g \in [D -> Cells] /\ SameCells(g, f1)
      /\ \A y \in D : g[y].prev = (IF y = after THEN before ELSE f1[y].prev) /\ g[y].next = f1[y].next
  <2>1. Null \notin D /\ g = SetPrev(f1, after, before) /\ f1 \in [D -> Cells]
    BY <1>0, <1>3, <1>4, <1>b
  <2> QED
    BY <1>1, <1>2, <2>1, SetPrevIs
<1>6. \A x \in D : /\ g[x].key = f[x].key /\ g[x].data = f[x].data
                   /\ g[x].next = IF x = before THEN after ELSE f[x].next
                   /\ g[x].prev = IF x = after THEN before ELSE f[x].prev
  BY <1>4, <1>5 DEF SameCells
<1>7. k \in [D \ {s[q]} -> Cells] /\ \A x \in D \ {s[q]} : k[x] = g[x]
  BY <1>5, <1>c
<1>8. /\ Row(D \ {s[q]}, w, n - 1)
      /\ \A i \in 1 .. n - 1 : w[i] = IF i < q THEN s[i] ELSE s[i + 1]
      /\ \A j \in Int : Item(w, n - 1, j) = IF j < q THEN Item(s, n, j) ELSE Item(s, n, j + 1)
  BY <1>a, WithoutIs
<1>9. w \in [1 .. n - 1 -> D \ {s[q]}]
  BY <1>8 DEF Row
<1>10. ASSUME NEW i \in 1 .. n - 1
       PROVE  k[w[i]].next = Item(w, n - 1, i + 1) /\ k[w[i]].prev = Item(w, n - 1, i - 1)
  <2>0. w[i] \in D \ {s[q]} /\ k[w[i]] = g[w[i]] /\ i \in 1 .. n /\ i + 1 \in 1 .. n
    BY <1>0, <1>7, <1>9
  <2>1. CASE i < q
    <3>1. w[i] = s[i]
      BY <1>8, <2>1
    <3>2. k[w[i]].prev = Item(w, n - 1, i - 1)
      <4>1. s[i] # after
        <5>1. q + 1 # i
          BY <2>1
        <5> QED
          BY <1>0, <1>a, <1>b, <2>0, <5>1 DEF Item
      <4>2. i - 1 < q /\ i - 1 \in Int
        BY <2>1
      <4>3. Item(w, n - 1, i - 1) = Item(s, n, i - 1)
        BY <1>8, <4>2
      <4> QED
        BY <1>0, <1>6, <2>0, <3>1, <4>1, <4>3
    <3>3. CASE i + 1 = q
      <4>1. s[i] = before
        <5>1. q - 1 = i
          BY <3>3
        <5> QED
          BY <1>b, <2>0, <5>1 DEF Item
      <4>2. Item(w, n - 1, i + 1) = after
        <5>1. ~(i + 1 < q) /\ (i + 1) + 1 = q + 1 /\ i + 1 \in Int
          BY <3>3
        <5> QED
          BY <1>8, <1>b, <5>1
      <4> QED
        BY <1>6, <2>0, <3>1, <3>2, <4>1, <4>2
    <3>4. CASE i + 1 # q
      <4>1. s[i] # before
        <5>1. q - 1 # i
          BY <3>4
        <5> QED
          BY <1>0, <1>a, <1>b, <2>0, <5>1 DEF Item
      <4>2. i + 1 < q /\ i + 1 \in Int
        BY <2>1, <3>4
      <4>3. Item(w, n - 1, i + 1) = Item(s, n, i + 1)
        BY <1>8, <4>2
      <4> QED
        BY <1>0, <1>6, <2>0, <3>1, <3>2, <4>1, <4>3
    <3> QED
      BY <3>3, <3>4
  <2>2. CASE ~(i < q)
    <3>1. PICK m \in 1 .. n : m = i + 1 /\ q < m
      BY <2>0, <2>2
    <3>2. w[i] = s[m]
      BY <1>8, <2>2, <3>1
    <3>3. k[w[i]].next = Item(w, n - 1, i + 1)
      <4>1. s[m] # before
        <5>1. q - 1 # m
          BY <3>1
        <5> QED
          BY <1>0, <1>b, <5>1, SMTT(30) DEF Item
      <4>2. ~(i + 1 < q) /\ i + 1 \in Int /\ i + 1 = m
        BY <2>2, <3>1
      <4>3. Item(w, n - 1, i + 1) = Item(s, n, m + 1)
        BY <1>8, <4>2
      <4> QED
        BY <1>0, <1>6, <2>0, <3>2, <4>1, <4>3
    <3>4. CASE i = q
      <4>1. s[m] = after
        BY <1>b, <3>1, <3>4 DEF Item
      <4>2. Item(w, n - 1, i - 1) = before
        <5>1. i - 1 < q /\ i - 1 \in Int
          BY <3>4
        <5> QED
          BY <1>8, <1>b, <3>4, <5>1
      <4> QED
        BY <1>6, <2>0, <3>2, <3>3, <4>1, <4>2
    <3>5. CASE i # q
      <4>1. s[m] # after
        <5>1. q + 1 # m
          BY <3>1, <3>5
        <5> QED
          BY <1>0, <1>b, <5>1, SMTT(30) DEF Item
      <4>2. ~(i - 1 < q) /\ i - 1 \in Int /\ (i - 1) + 1 = m - 1
        BY <2>2, <3>1, <3>5
      <4>3. Item(w, n - 1, i - 1) = Item(s, n, m - 1)
        BY <1>8, <4>2
      <4> QED
        BY <1>0, <1>6, <2>0, <3>2, <3>3, <4>1, <4>3
    <3> QED
      BY <3>4, <3>5
  <2> QED
    BY <2>1, <2>2
<1>11. Strung(k, w, n - 1)
  BY <1>10 DEF Strung
<1>12. Untouched(k, f)
  BY <1>6, <1>7 DEF Untouched
<1> QED
  BY <1>7, <1>11, <1>12

(* An interval of c numbers from p on, after q is taken out. *)
LEMMA IntervalShrinks ==
  ASSUME NEW n \in Nat, NEW q \in 1 .. n, NEW p \in Nat, NEW c \in Nat,
         c # 0 => 1 <= p /\ p + c <= n + 1 /\ (p + c <= q \/ q < p),
         NEW r, r = IF c # 0 /\ q < p THEN p - 1 ELSE p
  PROVE  /\ r \in Nat /\ (c # 0 => 1 <= r /\ r + c <= n)
         /\ \A i \in 1 .. n - 1 : i < q => (p <= i /\ i < p + c <=> r <= i /\ i < r + c)
         /\ \A i \in 1 .. n - 1 : q <= i => (p <= i + 1 /\ i + 1 < p + c <=> r <= i /\ i < r + c)
  OBVIOUS

(* The places of a bucket, when place q of the list is gone.               *)
LEMMA IntervalLosesOne ==
  ASSUME NEW n \in Nat, NEW q \in 1 .. n, NEW p \in Nat, NEW c \in Nat,
         p <= q, q < p + c, 1 <= p, p + c <= n + 1
  PROVE  /\ c - 1 \in Nat /\ p + (c - 1) <= (n - 1) + 1
         /\ \A i \in 1 .. n - 1 : i < q => (p <= i /\ i < p + c <=> p <= i /\ i < p + (c - 1))
         /\ \A i \in 1 .. n - 1 : q <= i => (p <= i + 1 /\ i + 1 < p + c <=> p <= i /\ i < p + (c - 1))
  OBVIOUS

(* Bucket b of t is one element e shorter in u. *)
Shortened(u, t, b, e) ==
  /\ DOMAIN u.table = DOMAIN t.table /\ t.table \in Tables /\ u.table \in Tables
  /\ \A x \in DOMAIN t.elem \ {e} : u.elem[x].key = t.elem[x].key
  /\ b \in DOMAIN t.table /\ b = Bucket(t, t.elem[e].key)
  /\ u.table[b].count = t.table[b].count - 1
  /\ u.table[b].chain = IF t.table[b].chain = e THEN t.elem[e].next ELSE t.table[b].chain
  /\ \A d \in DOMAIN t.table : d # b => u.table[d] = t.table[d]

(* A bucket has an element less, those behind it move by one place.        *)
LEMMA PiledShrinks ==
  ASSUME NEW t, NEW u, NEW s, NEW n, Row(DOMAIN t.elem, s, n), Piled(t, s, n), Strung(t.elem, s, n),
         NEW q \in 1 .. n, NEW w, w = Without(s, n, q), NEW b, Shortened(u, t, b, s[q])
  PROVE  Piled(u, w, n - 1)
<1>a. /\ DOMAIN u.table = DOMAIN t.table /\ t.table \in Tables /\ u.table \in Tables
      /\ \A x \in DOMAIN t.elem \ {s[q]} : u.elem[x].key = t.elem[x].key
      /\ b \in DOMAIN t.table /\ b = Bucket(t, t.elem[s[q]].key)
      /\ u.table[b].count = t.table[b].count - 1
      /\ u.table[b].chain = IF t.table[b].chain = s[q] THEN t.elem[s[q]].next ELSE t.table[b].chain
      /\ \A d \in DOMAIN t.table : d # b => u.table[d] = t.table[d]
  BY DEF Shortened
<1>1. PICK K : K = [x \in DOMAIN t.elem |-> Bucket(t, t.elem[x].key)]
  OBVIOUS
<1>2. /\ Row(DOMAIN t.elem \ {s[q]}, w, n - 1)
      /\ \A i \in 1 .. n - 1 : w[i] = IF i < q THEN s[i] ELSE s[i + 1]
  BY WithoutIs
<1>3. /\ n \in Nat /\ s \in [1 .. n -> DOMAIN t.elem] /\ K[s[q]] = b
      /\ \A i \in 1 .. n : K[s[i]] = Bucket(t, t.elem[s[i]].key)
      /\ \A i, j \in 1 .. n : s[i] = s[j] => i = j
  BY <1>1, <1>a DEF Row
<1>4. \A i \in 1 .. n - 1 : /\ i < q => i \in 1 .. n
                            /\ q <= i => i + 1 \in 1 .. n
  BY <1>3
<1>5. ASSUME NEW i \in 1 .. n - 1 PROVE Bucket(u, u.elem[w[i]].key) = K[w[i]]
  <2>1. w[i] \in DOMAIN t.elem \ {s[q]}
    BY <1>2 DEF Row
  <2>2. Bucket(u, u.elem[w[i]].key) = Bucket(t, u.elem[w[i]].key)
    <3>1. DOMAIN u.table = DOMAIN t.table /\ t.table \in Tables /\ u.table \in Tables
      BY <1>a
    <3> QED
      BY <3>1, SameBucket
  <2> QED
    BY <1>1, <1>a, <2>1, <2>2
<1>6. ASSUME NEW d \in DOMAIN t.table
      PROVE  \E r : /\ Pile(u, w, n - 1, d, r, u.table[d].count)
                    /\ u.table[d].count # 0 => u.table[d].chain = w[r]
  <2>1. PICK p : /\ Pile(t, s, n, d, p, t.table[d].count)
                 /\ t.table[d].count # 0 => t.table[d].chain = s[p]
    BY DEF Piled
  <2>2. PICK c : c = t.table[d].count
    OBVIOUS
  <2>3. /\ p \in Nat /\ c \in Nat /\ (c # 0 => 1 <= p /\ p + c <= n + 1)
        /\ \A i \in 1 .. n : K[s[i]] = d <=> p <= i /\ i < p + c
    BY <1>3, <2>1, <2>2 DEF Pile
  <2>4. CASE d = b
    <3>1. p <= q /\ q < p + c /\ c # 0
      BY <1>3, <2>3, <2>4
    <3>2. /\ c - 1 \in Nat /\ p + (c - 1) <= (n - 1) + 1
          /\ \A i \in 1 .. n - 1 : i < q => (p <= i /\ i < p + c <=> p <= i /\ i < p + (c - 1))
          /\ \A i \in 1 .. n - 1 : q <= i => (p <= i + 1 /\ i + 1 < p + c <=> p <= i /\ i < p + (c - 1))
      BY <1>3, <2>3, <3>1, IntervalLosesOne
    <3>3. ASSUME NEW i \in 1 .. n - 1
          PROVE  Bucket(u, u.elem[w[i]].key) = d <=> p <= i /\ i < p + (c - 1)
      <4>1. CASE i < q
        BY <1>2, <1>4, <1>5, <2>3, <3>2, <4>1
      <4>2. CASE q <= i
        <5>1. w[i] = s[i + 1] /\ i + 1 \in 1 .. n
          BY <1>2, <1>4, <4>2
        <5> QED
          BY <1>5, <2>3, <3>2, <4>2, <5>1
      <4> QED
        BY <4>1, <4>2
    <3>4. Pile(u, w, n - 1, d, p, c - 1)
      BY <2>3, <3>1, <3>2, <3>3 DEF Pile
    <3>5. ASSUME c - 1 # 0 PROVE u.table[d].chain = w[p]
      <4>1. p \in 1 .. n /\ t.table[b].chain = s[p]
        <5>1. p \in 1 .. n
          BY <1>3, <2>3, <3>1
        <5>2. t.table[b].chain = s[p]
          BY <2>1, <2>2, <2>4, <3>1
        <5> QED
          BY <5>1, <5>2
      <4>2. CASE p = q
        <5>1. p \in 1 .. n - 1 /\ p + 1 \in 1 .. n
          BY <1>3, <2>3, <3>1, <3>5
        <5>2. w[p] = s[p + 1]
          BY <1>2, <4>2, <5>1
        <5>3. t.elem[s[q]].next = s[p + 1]
          BY <4>2, <5>1 DEF Strung, Item
        <5> QED
          BY <1>a, <2>4, <4>1, <4>2, <5>2, <5>3
      <4>3. CASE p # q
        <5>1. p \in 1 .. n - 1 /\ p < q
          BY <1>3, <2>3, <3>1, <4>3
        <5>2. w[p] = s[p] /\ s[p] # s[q]
          BY <1>2, <1>3, <4>1, <4>3, <5>1
        <5> QED
          BY <1>a, <2>4, <4>1, <5>2
      <4> QED
        BY <4>2, <4>3
    <3>6. u.table[d].count = c - 1
      BY <1>a, <2>2, <2>4
    <3> QED
      BY <3>4, <3>5, <3>6
  <2>5. CASE d # b
    <3>1. c # 0 => p + c <= q \/ q < p
      BY <1>3, <2>3, <2>5
    <3>2. PICK r : r = IF c # 0 /\ q < p THEN p - 1 ELSE p
      OBVIOUS
    <3>3. /\ r \in Nat /\ (c # 0 => 1 <= r /\ r + c <= n)
          /\ \A i \in 1 .. n - 1 : i < q => (p <= i /\ i < p + c <=> r <= i /\ i < r + c)
          /\ \A i \in 1 .. n - 1 : q <= i => (p <= i + 1 /\ i + 1 < p + c <=> r <= i /\ i < r + c)
      BY <1>3, <2>3, <3>1, <3>2, IntervalShrinks
    <3>4. ASSUME NEW i \in 1 .. n - 1
          PROVE  Bucket(u, u.elem[w[i]].key) = d <=> r <= i /\ i < r + c
      <4>1. CASE i < q
        BY <1>2, <1>4, <1>5, <2>3, <3>3, <4>1
      <4>2. CASE q <= i
        <5>1. w[i] = s[i + 1] /\ i + 1 \in 1 .. n
          BY <1>2, <1>4, <4>2
        <5> QED
          BY <1>5, <2>3, <3>3, <4>2, <5>1
      <4> QED
        BY <4>1, <4>2
    <3>5. c # 0 => 1 <= r /\ r + c <= (n - 1) + 1
      BY <1>3, <2>3, <3>3
    <3>6. Pile(u, w, n - 1, d, r, c)
      BY <2>3, <3>3, <3>4, <3>5 DEF Pile
    <3>7. c # 0 => s[p] = w[r]
      <4> SUFFICES ASSUME c # 0 PROVE s[p] = w[r]
        OBVIOUS
      <4>1. p \in 1 .. n
        BY <1>3, <2>3
      <4>2. CASE q < p
        <5>1. r \in 1 .. n - 1 /\ ~(r < q) /\ r + 1 = p
          BY <1>3, <3>2, <4>1, <4>2
        <5> QED
          BY <1>2, <5>1
      <4>3. CASE ~(q < p)
        <5>1. r \in 1 .. n - 1 /\ r < q /\ r = p
          BY <1>3, <2>3, <3>1, <3>2, <4>1, <4>3
        <5> QED
          BY <1>2, <5>1
      <4> QED
        BY <4>2, <4>3
    <3> QED
      BY <1>a, <2>1, <2>2, <2>5, <3>6, <3>7
  <2> QED
    BY <2>4, <2>5
<1> QED
  BY <1>6, <1>a DEF Piled

(* removeElementGivenHash keeps the list, the buckets and all other elements. *)
LEMMA RemoveIs ==
  ASSUME code \in [Keys -> Codes], NEW t, NEW s, NEW n, Sound(t, s, n), NEW e \in DOMAIN t.elem,
         NEW u, u = Unlinked(t, e)
  PROVE  /\ \E w : Sound(u, w, n - 1)
         /\ DOMAIN u.elem = DOMAIN t.elem \ {e}
         /\ \A x \in DOMAIN u.elem : u.elem[x].key = t.elem[x].key /\ u.elem[x].data = t.elem[x].data
<1>0. HashTypes(t) /\ Ordered(t, s, n) /\ Piled(t, s, n) /\ Distinct(t)
      /\ DOMAIN t.elem = {s[i] : i \in 1 .. n} /\ t.count = n
  BY DEF Sound
<1>1. PICK D : D = DOMAIN t.elem
  OBVIOUS
<1>2. /\ t.first \in Place /\ t.count \in Nat /\ t.table \in Tables
      /\ t.elem \in [D -> Cells] /\ D \subseteq Elems /\ e \in D
      /\ Row(D, s, n) /\ t.first = Item(s, n, 1) /\ Strung(t.elem, s, n)
  BY <1>0, <1>1 DEF HashTypes, Ordered
<1>3. PICK q \in 1 .. n : e = s[q]
  BY <1>0
<1>4. n \in Nat /\ s \in [1 .. n -> D] /\ Null \notin D /\ n - 1 \in Nat
  BY <1>2, <1>3, HashValues DEF Row
<1>5. PICK before, after, k, b :
        /\ before = t.elem[e].prev /\ after = t.elem[e].next /\ b = Bucket(t, t.elem[e].key)
        /\ k = SetPrev(SetNext(t.elem, before, after), after, before)
  OBVIOUS
<1>6. before = Item(s, n, q - 1) /\ after = Item(s, n, q + 1)
  BY <1>2, <1>3, <1>5 DEF Strung
<1>7. /\ u.first = IF before = Null THEN after ELSE t.first
      /\ u.count = t.count - 1
      /\ u.table = IF t.table = <<>> THEN <<>> ELSE
                   [t.table EXCEPT ![b] = [count |-> @.count - 1,
                                           chain |-> IF @.chain = e THEN after ELSE @.chain]]
      /\ u.elem = [x \in D \ {e} |-> k[x]]
  BY <1>1, <1>5 DEF Unlinked
<1>8. PICK w : w = Without(s, n, q)
  OBVIOUS
<1>9. /\ Row(D \ {s[q]}, w, n - 1) /\ Members(w, n - 1) = Members(s, n) \ {s[q]}
      /\ \A j \in Int : Item(w, n - 1, j) = IF j < q THEN Item(s, n, j) ELSE Item(s, n, j + 1)
  <2>1. Row(D, s, n)
    BY <1>2
  <2> QED
    BY <1>3, <1>8, <2>1, WithoutIs
<1>10. /\ u.elem \in [D \ {e} -> Cells] /\ Strung(u.elem, w, n - 1)
       /\ \A x \in D \ {e} : u.elem[x].key = t.elem[x].key /\ u.elem[x].data = t.elem[x].data
  <2>1. PICK f, g : f = t.elem /\ g = u.elem
    OBVIOUS
  <2>2. D \subseteq Elems /\ f \in [D -> Cells] /\ Row(D, s, n) /\ Strung(f, s, n)
    BY <1>2, <2>1
  <2>4. g = Spared(D, f, Item(s, n, q - 1), Item(s, n, q + 1), s[q])
    <3>1. k = SetPrev(SetNext(f, before, after), after, before)
      BY <1>5, <2>1
    <3> QED
      BY <1>3, <1>6, <1>7, <2>1, <3>1 DEF Spared
  <2>6. Listed(D, f, s, n)
    BY <2>2 DEF Listed
  <2>5. g \in [D \ {s[q]} -> Cells] /\ Strung(g, w, n - 1) /\ Untouched(g, f)
    BY <1>3, <1>8, <2>4, <2>6, UnlinkedIs
  <2> QED
    BY <1>3, <2>1, <2>5 DEF Untouched
<1>11. DOMAIN u.elem = D \ {e} /\ D \ {e} \subseteq Elems
  BY <1>2, <1>10
<1>12. u.first = Item(w, n - 1, 1)
  <2>1. CASE q = 1
    <3>1. before = Null /\ after = Item(s, n, 1 + 1)
      BY <1>6, <2>1 DEF Item
    <3> QED
      BY <1>7, <1>9, <2>1, <3>1
  <2>2. CASE q # 1
    <3>1. q - 1 \in 1 .. n /\ 1 < q
      BY <1>3, <1>4, <2>2
    <3>2. before # Null
      BY <1>4, <1>6, <3>1 DEF Item
    <3> QED
      BY <1>2, <1>7, <1>9, <3>1, <3>2
  <2> QED
    BY <2>1, <2>2
<1>13. CASE t.table = <<>>
  <2>1. u.table = <<>> /\ u.table \in Tables /\ DOMAIN u.table = {}
    BY <1>2, <1>7, <1>13
  <2>2. Piled(u, w, n - 1)
    BY <2>1 DEF Piled
  <2>3. HashTypes(u) /\ Ordered(u, w, n - 1)
    <3>1. u.first \in Place /\ u.count \in Nat
      <4>1. before \in Place /\ after \in Place
        BY <1>2, <1>5 DEF Cells
      <4> QED
        BY <1>0, <1>2, <1>4, <1>7, <4>1
    <3> QED
      BY <1>3, <1>9, <1>10, <1>11, <1>12, <2>1, <3>1 DEF HashTypes, Ordered
  <2>4. Distinct(u)
    BY <1>0, <1>1, <1>10, <1>11 DEF Distinct
  <2>5. DOMAIN u.elem = {w[i] : i \in 1 .. n - 1} /\ u.count = n - 1
    BY <1>0, <1>1, <1>3, <1>7, <1>9, <1>11 DEF Members
  <2>6. Sound(u, w, n - 1)
    BY <2>2, <2>3, <2>4, <2>5 DEF Sound
  <2> QED
    BY <1>1, <1>10, <1>11, <2>6
<1>14. CASE t.table # <<>>
  <2>0. t.elem[e].key \in Keys
    BY <1>2 DEF Cells
  <2>1. b \in DOMAIN t.table
    <3>1. code \in [Keys -> Nat]
      BY HashSizes
    <3>2. t.table \in Tables
      BY <1>2
    <3> QED
      BY <1>5, <1>14, <2>0, <3>1, <3>2, BucketIn
  <2>2. t.table[b].count # 0
    <3>1. PICK p : Pile(t, s, n, b, p, t.table[b].count)
      BY <1>0, <2>1 DEF Piled
    <3>2. PICK c : c = t.table[b].count
      OBVIOUS
    <3>3. p \in Nat /\ c \in Nat /\ p <= q /\ q < p + c
      BY <1>3, <1>5, <3>1, <3>2 DEF Pile
    <3> QED
      BY <3>2, <3>3
  <2>3. PICK m \in Nat : t.table \in [1 .. m -> Buckets]
    BY <1>2 DEF Tables
  <2>4. PICK c : c = [count |-> t.table[b].count - 1,
                     chain |-> IF t.table[b].chain = e THEN after ELSE t.table[b].chain]
    OBVIOUS
  <2>5. c \in Buckets
    <3>1. after \in Place
      BY <1>2, <1>5 DEF Cells
    <3>2. t.table[b] \in Buckets
      BY <2>1, <2>3
    <3>3. t.table[b].count \in Nat /\ t.table[b].chain \in Place
      BY <3>2 DEF Buckets
    <3> QED
      BY <2>2, <2>4, <3>1, <3>3 DEF Buckets
  <2>6. u.table = [t.table EXCEPT ![b] = c]
    BY <1>7, <1>14, <2>4
  <2>7. /\ u.table \in [1 .. m -> Buckets] /\ u.table[b] = c
        /\ \A d \in DOMAIN t.table : d # b => u.table[d] = t.table[d]
    BY <2>1, <2>3, <2>5, <2>6
  <2>8. u.table \in Tables /\ DOMAIN u.table = DOMAIN t.table
    BY <2>3, <2>7 DEF Tables
  <2>9. Piled(u, w, n - 1)
    <3>1. u.table[b].count = t.table[b].count - 1
      BY <2>4, <2>7
    <3>2. u.table[b].chain = IF t.table[b].chain = s[q] THEN t.elem[s[q]].next ELSE t.table[b].chain
      <4>1. u.table[b].chain = IF t.table[b].chain = e THEN after ELSE t.table[b].chain
        <5>1. c.chain = IF t.table[b].chain = e THEN after ELSE t.table[b].chain
          BY <2>4
        <5> QED
          BY <2>7, <5>1
      <4>2. t.elem[s[q]].next = after
        BY <1>3, <1>5
      <4> QED
        BY <1>3, <4>1, <4>2
    <3>3. \A x \in DOMAIN t.elem \ {s[q]} : u.elem[x].key = t.elem[x].key
      BY <1>1, <1>3, <1>10
    <3>4. Row(DOMAIN t.elem, s, n) /\ Piled(t, s, n) /\ Strung(t.elem, s, n) /\ t.table \in Tables
      BY <1>0, <1>1, <1>2
    <3>5. b = Bucket(t, t.elem[s[q]].key)
      BY <1>3, <1>5
    <3> QED
      <4>1. Shortened(u, t, b, s[q])
        BY <2>1, <2>7, <2>8, <3>1, <3>2, <3>3, <3>4, <3>5 DEF Shortened
      <4> QED
        BY <1>3, <1>8, <3>4, <4>1, PiledShrinks
  <2>10. HashTypes(u) /\ Ordered(u, w, n - 1)
    <3>1. u.first \in Place /\ u.count \in Nat
      <4>1. before \in Place /\ after \in Place
        BY <1>2, <1>5 DEF Cells
      <4> QED
        BY <1>0, <1>2, <1>4, <1>7, <4>1
    <3> QED
      BY <1>3, <1>9, <1>10, <1>11, <1>12, <2>8, <3>1 DEF HashTypes, Ordered
  <2>11. Distinct(u)
    BY <1>0, <1>1, <1>10, <1>11 DEF Distinct
  <2>12. DOMAIN u.elem = {w[i] : i \in 1 .. n - 1} /\ u.count = n - 1
    BY <1>0, <1>1, <1>3, <1>7, <1>9, <1>11 DEF Members
  <2>13. Sound(u, w, n - 1)
    BY <2>9, <2>10, <2>11, <2>12 DEF Sound
  <2> QED
    BY <1>1, <1>10, <1>11, <2>13
<1> QED
  BY <1>13, <1>14

-----------------------------------------------------------------------------
(* Following the links.                                                    *)

IsStretch(f, t, e, c) ==
  f = [i \in 1 .. c |-> IF i = 1 THEN e
                        ELSE IF f[i - 1] = Null THEN Null ELSE t.elem[f[i - 1]].next]

(* The c elements one comes by from the p-th of a list on.                 *)
LEMMA StretchIs ==
  ASSUME NEW t, NEW n, NEW s, Listed(DOMAIN t.elem, t.elem, s, n), NEW p \in Nat \ {0}, NEW c \in Nat
  PROVE  Stretch(t, Item(s, n, p), c) = [i \in 1 .. c |-> Item(s, n, p + i - 1)]
<1> DEFINE e == Item(s, n, p)
           f == Stretch(t, e, c)
           g == [i \in 1 .. c |-> Item(s, n, p + i - 1)]
<1>0. /\ n \in Nat /\ s \in [1 .. n -> DOMAIN t.elem] /\ Null \notin DOMAIN t.elem
      /\ \A i \in 1 .. n : t.elem[s[i]].next = Item(s, n, i + 1)
  BY HashValues DEF Listed, Row, Strung
<1>1. \A j \in Nat \ {0} :
        Item(s, n, j + 1) = IF Item(s, n, j) = Null THEN Null ELSE t.elem[Item(s, n, j)].next
  <2> SUFFICES ASSUME NEW j \in Nat \ {0}
               PROVE  Item(s, n, j + 1) = IF Item(s, n, j) = Null THEN Null ELSE t.elem[Item(s, n, j)].next
    OBVIOUS
  <2>1. CASE j \in 1 .. n
    BY <1>0, <2>1 DEF Item
  <2>2. CASE j \notin 1 .. n
    <3>1. j + 1 \notin 1 .. n
      BY <1>0, <2>2
    <3> QED
      BY <2>2, <3>1 DEF Item
  <2> QED
    BY <2>1, <2>2
<1>2. IsStretch(g, t, e, c)
  <2>1. ASSUME NEW i \in 1 .. c
        PROVE  g[i] = IF i = 1 THEN e ELSE IF g[i - 1] = Null THEN Null ELSE t.elem[g[i - 1]].next
    <3>1. CASE i = 1
      BY <3>1
    <3>2. CASE i # 1
      <4>1. i - 1 \in 1 .. c /\ p + (i - 1) - 1 \in Nat \ {0}
        BY <3>2
      <4>2. PICK j \in Nat \ {0} : j = p + (i - 1) - 1
        BY <4>1
      <4>3. g[i - 1] = Item(s, n, j)
        BY <4>1, <4>2
      <4>4. g[i] = Item(s, n, j + 1)
        <5>1. p + i - 1 = j + 1
          BY <4>2
        <5> QED
          BY <5>1
      <4> HIDE DEF g
      <4> QED
        BY <1>1, <3>2, <4>3, <4>4
    <3> QED
      BY <3>1, <3>2
  <2>2. g = [i \in 1 .. c |-> g[i]]
    OBVIOUS
  <2> HIDE DEF g, e
  <2> QED
    BY <2>1, <2>2 DEF IsStretch
<1>3. f = CHOOSE x : IsStretch(x, t, e, c)
  BY DEF Stretch, IsStretch
<1> HIDE DEF f, g
<1>4. IsStretch(f, t, e, c)
  BY <1>2, <1>3
<1>5. DOMAIN f = 1 .. c
  BY <1>4 DEF IsStretch
<1>6. \A i \in 1 .. c :
        f[i] = IF i = 1 THEN e ELSE IF f[i - 1] = Null THEN Null ELSE t.elem[f[i - 1]].next
  <2> HIDE DEF e
  <2> QED
    BY <1>4 DEF IsStretch
<1> DEFINE P == {i \in Nat : i + 1 \in 1 .. c => f[i + 1] = Item(s, n, p + i)}
<1>7. 0 \in P
  BY <1>6
<1>8. ASSUME NEW i \in Nat, i \in P PROVE i + 1 \in P
  <2> SUFFICES ASSUME (i + 1) + 1 \in 1 .. c PROVE f[(i + 1) + 1] = Item(s, n, p + (i + 1))
    OBVIOUS
  <2>1. i + 1 \in 1 .. c /\ (i + 1) + 1 # 1 /\ ((i + 1) + 1) - 1 = i + 1
    OBVIOUS
  <2>2. f[i + 1] = Item(s, n, p + i)
    BY <1>8, <2>1
  <2>3. PICK j \in Nat \ {0} : j = p + i
    OBVIOUS
  <2>4. f[(i + 1) + 1] = IF f[i + 1] = Null THEN Null ELSE t.elem[f[i + 1]].next
    BY <1>6, <2>1
  <2>5. p + (i + 1) = j + 1
    BY <2>3
  <2> QED
    BY <1>1, <2>2, <2>3, <2>4, <2>5
<1> HIDE DEF P
<1>9. Nat \subseteq P
  BY <1>7, <1>8, NumberInduction
<1>10. ASSUME NEW i \in 1 .. c PROVE f[i] = Item(s, n, p + i - 1)
  <2>1. i - 1 \in P /\ (i - 1) + 1 = i /\ p + (i - 1) = p + i - 1
    BY <1>9
  <2> QED
    BY <2>1 DEF P
<1>11. f = [i \in 1 .. c |-> f[i]]
  BY <1>4 DEF IsStretch
<1>12. f = [i \in 1 .. c |-> Item(s, n, p + i - 1)]
  BY <1>10, <1>11
<1> QED
  BY <1>12 DEF f, e

(* No element on no steps.                                                 *)
LEMMA EmptyStretch ==
  ASSUME NEW t, NEW e PROVE DOMAIN Stretch(t, e, 0) = {}
<1> DEFINE g == [i \in 1 .. 0 |-> Null]
<1>1. IsStretch(g, t, e, 0)
  BY DEF IsStretch
<1>2. Stretch(t, e, 0) = CHOOSE x : IsStretch(x, t, e, 0)
  BY DEF Stretch, IsStretch
<1> HIDE DEF g
<1>3. IsStretch(Stretch(t, e, 0), t, e, 0)
  BY <1>1, <1>2
<1> QED
  BY <1>3 DEF IsStretch

(* The list of a table is its elements in their order. *)
LEMMA ListIs ==
  ASSUME NEW t, NEW s, NEW n, HashTypes(t), Ordered(t, s, n), DOMAIN t.elem = Members(s, n)
  PROVE  List(t) = s /\ Len(List(t)) = n /\ DOMAIN List(t) = 1 .. n /\ Cardinality(DOMAIN t.elem) = n
<1>1. Listed(DOMAIN t.elem, t.elem, s, n) /\ t.first = Item(s, n, 1)
  BY DEF HashTypes, Ordered, Listed
<1>2. n \in Nat /\ s \in [1 .. n -> DOMAIN t.elem] /\ \A i, j \in 1 .. n : s[i] = s[j] => i = j
  BY <1>1 DEF Listed, Row
<1>3. Cardinality(DOMAIN t.elem) = n
  <2> DEFINE D == DOMAIN t.elem
  <2>1. s \in Bijection(1 .. n, D)
    <3>1. s \in [1 .. n -> D] /\ \A d \in D : \E i \in 1 .. n : s[i] = d
      BY <1>2 DEF Members
    <3> QED
      BY <1>2, <3>1 DEF Bijection, Injection, Surjection, IsInjective
  <2>2. IsFiniteSet(1 .. n) /\ Cardinality(1 .. n) = n
    <3>1. PICK a \in Int, b \in Int : a = 1 /\ b = n
      BY <1>2
    <3>2. IsFiniteSet(a .. b) /\ Cardinality(a .. b) = IF a > b THEN 0 ELSE b - a + 1
      BY FS_Interval
    <3> QED
      BY <1>2, <3>1, <3>2
  <2> HIDE DEF D
  <2>3. Cardinality(D) = n
    BY <2>1, <2>2, FS_Bijection DEF ExistsBijection
  <2> QED
    BY <2>3 DEF D
<1>4. PICK f : f = List(t)
  OBVIOUS
<1>5. f = Stretch(t, Item(s, n, 1), n)
  BY <1>1, <1>3, <1>4 DEF List
<1>6. f = [i \in 1 .. n |-> Item(s, n, 1 + i - 1)]
  <2>1. 1 \in Nat \ {0}
    OBVIOUS
  <2> QED
    BY <1>1, <1>2, <1>5, <2>1, StretchIs
<1>9. f = s
  <2>1. \A i \in 1 .. n : Item(s, n, 1 + i - 1) = s[i]
    <3> TAKE i \in 1 .. n
    <3>1. 1 + i - 1 = i
      OBVIOUS
    <3> QED
      BY <3>1 DEF Item
  <2>2. s = [i \in 1 .. n |-> s[i]]
    BY <1>2
  <2> QED
    BY <1>6, <2>1, <2>2
<1>10. Len(s) = n
  <2>1. s \in Seq(DOMAIN t.elem)
    BY <1>2
  <2> QED
    BY <1>2, <2>1
<1> QED
  BY <1>2, <1>3, <1>4, <1>9, <1>10

-----------------------------------------------------------------------------
(* The elements of a bucket, and findElementWithHash.                      *)

(* f is the stretch of the c elements s from the p-th on. *)
Covers(f, s, n, p, c) ==
  /\ p \in Nat \ {0} /\ c \in Nat /\ p + c <= n + 1
  /\ DOMAIN f = 1 .. c /\ \A i \in 1 .. c : f[i] = s[p + i - 1]

(* They are that part of the list.                                         *)
LEMMA CoveredBy ==
  ASSUME NEW t, NEW s, NEW n, Listed(DOMAIN t.elem, t.elem, s, n), NEW p \in Nat \ {0}, NEW c \in Nat,
         p + c <= n + 1
  PROVE  Covers(Stretch(t, Item(s, n, p), c), s, n, p, c)
<1>1. Stretch(t, Item(s, n, p), c) = [i \in 1 .. c |-> Item(s, n, p + i - 1)]
  BY StretchIs
<1>2. n \in Nat
  BY DEF Listed, Row
<1>3. \A i \in 1 .. c : p + i - 1 \in 1 .. n
  BY <1>2
<1>4. \A i \in 1 .. c : Item(s, n, p + i - 1) = s[p + i - 1]
  BY <1>3 DEF Item
<1> QED
  BY <1>1, <1>4 DEF Covers

(* A walk of a bucket comes by the elements of the bucket.                 *)
LEMMA BucketCovered ==
  ASSUME NEW t, NEW s, NEW n, Listed(DOMAIN t.elem, t.elem, s, n), Piled(t, s, n), NEW b \in DOMAIN t.table
  PROVE  \E p, c : /\ Covers(Stretch(t, t.table[b].chain, t.table[b].count), s, n, p, c)
                   /\ \A i \in 1 .. n : Bucket(t, t.elem[s[i]].key) = b <=> p <= i /\ i < p + c
<1>0. n \in Nat
  BY DEF Listed, Row
<1>1. PICK c : c = t.table[b].count
  OBVIOUS
<1>2. PICK p : Pile(t, s, n, b, p, c) /\ (c # 0 => t.table[b].chain = s[p])
  BY <1>1 DEF Piled
<1>3. /\ p \in Nat /\ c \in Nat /\ (c # 0 => 1 <= p /\ p + c <= n + 1)
      /\ \A i \in 1 .. n : Bucket(t, t.elem[s[i]].key) = b <=> p <= i /\ i < p + c
  BY <1>2 DEF Pile
<1>4. CASE c = 0
  <2>1. DOMAIN Stretch(t, t.table[b].chain, t.table[b].count) = {}
    BY <1>1, <1>4, EmptyStretch
  <2>2. Covers(Stretch(t, t.table[b].chain, t.table[b].count), s, n, 1, 0)
    BY <1>0, <2>1 DEF Covers
  <2>3. \A i \in 1 .. n : Bucket(t, t.elem[s[i]].key) = b <=> 1 <= i /\ i < 1 + 0
    BY <1>0, <1>3, <1>4
  <2> QED
    BY <2>2, <2>3
<1>5. CASE c # 0
  <2>1. p \in 1 .. n /\ p \in Nat \ {0}
    BY <1>0, <1>3, <1>5
  <2>2. t.table[b].chain = Item(s, n, p)
    BY <1>2, <1>5, <2>1 DEF Item
  <2>3. Covers(Stretch(t, Item(s, n, p), c), s, n, p, c)
    BY <1>3, <1>5, <2>1, CoveredBy
  <2> QED
    BY <1>1, <1>3, <2>2, <2>3
<1> QED
  BY <1>3, <1>4, <1>5

(* A search comes by each element that may have the key.                   *)
LEMMA CandidatesCover ==
  ASSUME code \in [Keys -> Codes], NEW t, NEW s, NEW n, Sound(t, s, n), NEW k \in Keys
  PROVE  \E p, c : /\ Covers(Candidates(t, k), s, n, p, c)
                   /\ \A i \in 1 .. n : t.elem[s[i]].key = k => p <= i /\ i < p + c
<1>1. /\ Listed(DOMAIN t.elem, t.elem, s, n) /\ Piled(t, s, n) /\ t.first = Item(s, n, 1) /\ t.count = n
      /\ t.table \in Tables
  BY DEF Sound, HashTypes, Ordered, Listed
<1>2. n \in Nat
  BY <1>1 DEF Listed, Row
<1>3. CASE t.table = <<>>
  <2>1. Candidates(t, k) = Stretch(t, Item(s, n, 1), n)
    BY <1>1, <1>3 DEF Candidates
  <2>2. Covers(Stretch(t, Item(s, n, 1), n), s, n, 1, n)
    <3>1. 1 \in Nat \ {0} /\ 1 + n <= n + 1
      BY <1>2
    <3> QED
      BY <1>1, <1>2, <3>1, CoveredBy
  <2>3. \A i \in 1 .. n : 1 <= i /\ i < 1 + n
    BY <1>2
  <2> QED
    BY <2>1, <2>2, <2>3
<1>4. CASE t.table # <<>>
  <2>1. PICK b : b = Bucket(t, k)
    OBVIOUS
  <2>2. b \in DOMAIN t.table
    <3>1. code \in [Keys -> Nat]
      BY HashSizes
    <3> QED
      BY <1>1, <1>4, <2>1, <3>1, BucketIn
  <2>3. Candidates(t, k) = Stretch(t, t.table[b].chain, t.table[b].count)
    BY <1>4, <2>1 DEF Candidates
  <2>4. PICK p, c : /\ Covers(Stretch(t, t.table[b].chain, t.table[b].count), s, n, p, c)
                    /\ \A i \in 1 .. n : Bucket(t, t.elem[s[i]].key) = b <=> p <= i /\ i < p + c
    BY <1>1, <2>2, BucketCovered
  <2> QED
    BY <2>1, <2>3, <2>4
<1> QED
  BY <1>3, <1>4

(* findElementWithHash finds the element of a key if there is one.         *)
LEMMA FindIs ==
  ASSUME code \in [Keys -> Codes], NEW t, NEW s, NEW n, Sound(t, s, n), NEW k \in Keys,
         NEW x, x = findElementWithHash(t, k)
  PROVE  \/ x \in DOMAIN t.elem /\ t.elem[x].key = k
         \/ x = Null /\ \A y \in DOMAIN t.elem : t.elem[y].key # k
<1>1. PICK p, c : /\ Covers(Candidates(t, k), s, n, p, c)
                  /\ \A i \in 1 .. n : t.elem[s[i]].key = k => p <= i /\ i < p + c
  BY CandidatesCover
<1>2. PICK f : f = Candidates(t, k)
  OBVIOUS
<1>3. /\ p \in Nat \ {0} /\ c \in Nat /\ p + c <= n + 1
      /\ DOMAIN f = 1 .. c /\ \A i \in 1 .. c : f[i] = s[p + i - 1]
  BY <1>1, <1>2 DEF Covers
<1>4. /\ Row(DOMAIN t.elem, s, n) /\ DOMAIN t.elem \subseteq Elems
      /\ DOMAIN t.elem = {s[i] : i \in 1 .. n} /\ Distinct(t)
  BY DEF Sound, HashTypes, Ordered
<1>5. /\ n \in Nat /\ s \in [1 .. n -> DOMAIN t.elem] /\ Null \notin DOMAIN t.elem
      /\ \A i, j \in 1 .. n : s[i] = s[j] => i = j
  BY <1>4, HashValues DEF Row
<1>6. \A i \in 1 .. c : p + i - 1 \in 1 .. n
  BY <1>3, <1>5
<1>7. \A i \in 1 .. c : f[i] \in DOMAIN t.elem /\ f[i] # Null
  BY <1>3, <1>5, <1>6
<1> DEFINE Stops == {i \in DOMAIN f : f[i] = Null \/ t.elem[f[i]].key = k}
           stop == CHOOSE i \in Stops : \A j \in Stops : i <= j
<1>8. x = IF Stops = {} THEN Null ELSE IF f[stop] = Null THEN "assert" ELSE f[stop]
  BY <1>2 DEF findElementWithHash
<1>9. \A i \in Stops : i \in 1 .. c /\ t.elem[f[i]].key = k
  BY <1>3, <1>7
<1>10. \A y \in DOMAIN t.elem : t.elem[y].key = k => Stops # {}
  <2> SUFFICES ASSUME NEW y \in DOMAIN t.elem, t.elem[y].key = k PROVE Stops # {}
    OBVIOUS
  <2>1. PICK m \in 1 .. n : y = s[m]
    BY <1>4
  <2>2. p <= m /\ m < p + c
    BY <1>1, <2>1
  <2>3. PICK i \in 1 .. c : p + i - 1 = m
    <3>1. m - p + 1 \in 1 .. c /\ p + (m - p + 1) - 1 = m
      BY <1>3, <2>2
    <3> QED
      BY <3>1
  <2>4. f[i] = y
    BY <1>3, <2>1, <2>3
  <2>5. i \in Stops
    BY <1>3, <2>4
  <2> QED
    BY <2>5
<1>11. CASE Stops = {}
  BY <1>8, <1>10, <1>11
<1>12. CASE Stops # {}
  <2>1. PICK i \in Stops : TRUE
    BY <1>12
  <2>2. ASSUME NEW j \in Stops PROVE j = i
    <3>1. i \in 1 .. c /\ j \in 1 .. c /\ t.elem[f[i]].key = k /\ t.elem[f[j]].key = k
      BY <1>9, <2>1, <2>2
    <3>2. f[i] = f[j]
      BY <1>4, <1>7, <3>1 DEF Distinct
    <3>3. s[p + i - 1] = s[p + j - 1] /\ p + i - 1 \in 1 .. n /\ p + j - 1 \in 1 .. n
      BY <1>3, <1>6, <3>1, <3>2
    <3>4. p + i - 1 = p + j - 1
      BY <1>5, <3>3
    <3> QED
      BY <1>3, <3>1, <3>4
  <2>3. \A j \in Stops : i <= j
    <3>1. i \in Int
      BY <1>9, <2>1
    <3> QED
      BY <2>2, <3>1
  <2> HIDE DEF Stops
  <2>4. stop \in Stops
    BY <2>1, <2>3
  <2> HIDE DEF stop
  <2>5. stop \in 1 .. c /\ t.elem[f[stop]].key = k
    BY <1>9, <2>4
  <2> QED
    BY <1>7, <1>8, <1>12, <2>5
<1> QED
  BY <1>11, <1>12

-----------------------------------------------------------------------------
(* rehash.                                                                 *)

IsTable(t) == t = [first |-> t.first, count |-> t.count, table |-> t.table, elem |-> t.elem]

Bare(t, m) == [first |-> Null, count |-> t.count, elem |-> t.elem,
               table |-> [b \in 1 .. m |-> [count |-> 0, chain |-> Null]]]

(* One element more is threaded. *)
Step(t, u, e) ==
  IF e = Null THEN u ELSE insertElement(u, Bucket(u, t.elem[e].key), e)

IsThreading(f, t, m, es, i) ==
  f = [j \in 0 .. i |-> IF j = 0 THEN Bare(t, m) ELSE Step(t, f[j - 1], es[j])]

(* The recursive function of the loop of rehash exists.                    *)
LEMMA ThreadingExists ==
  ASSUME NEW t, NEW m, NEW es, NEW k \in Nat
  PROVE  \E f : IsThreading(f, t, m, es, k) /\ Threaded(t, m, es, k) = f[k]
<1> DEFINE P == {j \in Nat : \E f : IsThreading(f, t, m, es, j)}
<1>1. 0 \in P
  <2>1. IsThreading([i \in 0 .. 0 |-> Bare(t, m)], t, m, es, 0)
    BY DEF IsThreading
  <2> QED
    BY <2>1
<1>2. ASSUME NEW j \in Nat, j \in P PROVE j + 1 \in P
  <2>1. PICK f : IsThreading(f, t, m, es, j)
    BY <1>2
  <2> DEFINE g == [i \in 0 .. j + 1 |-> IF i = j + 1 THEN Step(t, f[j], es[j + 1]) ELSE f[i]]
  <2>2. \A i \in 0 .. j : i \in 0 .. j + 1 /\ g[i] = f[i]
    OBVIOUS
  <2>3. ASSUME NEW i \in 0 .. j + 1
        PROVE  g[i] = IF i = 0 THEN Bare(t, m) ELSE Step(t, g[i - 1], es[i])
    <3>1. CASE i = j + 1
      <4>1. i - 1 = j /\ i # 0 /\ g[j] = f[j]
        BY <2>2, <3>1
      <4>2. g[i] = Step(t, f[j], es[j + 1])
        BY <3>1
      <4> HIDE DEF g
      <4> QED
        BY <3>1, <4>1, <4>2
    <3>2. CASE i # j + 1
      <4>1. i \in 0 .. j
        BY <3>2
      <4>2. f[i] = IF i = 0 THEN Bare(t, m) ELSE Step(t, f[i - 1], es[i])
        BY <2>1, <4>1 DEF IsThreading
      <4>3. i # 0 => i - 1 \in 0 .. j
        BY <4>1
      <4> HIDE DEF g
      <4> QED
        BY <2>2, <4>1, <4>2, <4>3
    <3> QED
      BY <3>1, <3>2
  <2>4. g = [i \in 0 .. j + 1 |-> g[i]]
    OBVIOUS
  <2> HIDE DEF g
  <2>5. IsThreading(g, t, m, es, j + 1)
    BY <2>3, <2>4 DEF IsThreading
  <2> QED
    BY <2>5
<1> HIDE DEF P
<1>3. k \in P
  BY <1>1, <1>2, NumberInduction
<1>4. Threaded(t, m, es, k) = (CHOOSE f : IsThreading(f, t, m, es, k))[k]
  BY DEF Threaded, IsThreading, Bare, Step
<1>5. IsThreading(CHOOSE f : IsThreading(f, t, m, es, k), t, m, es, k)
  BY <1>3 DEF P
<1> QED
  BY <1>4, <1>5

(* Before the first element. *)
LEMMA BareIs ==
  ASSUME NEW t, HashTypes(t), NEW m \in Nat, NEW u, u = Bare(t, m)
  PROVE  /\ \E w : InOrder(u, w, 0) /\ Members(w, 0) = {}
         /\ SameCells(u.elem, t.elem) /\ u.count = t.count /\ DOMAIN u.table = 1 .. m /\ IsTable(u)
<1>1. /\ u.first = Null /\ u.count = t.count /\ u.elem = t.elem
      /\ u.table = [b \in 1 .. m |-> [count |-> 0, chain |-> Null]]
  BY DEF Bare
<1>2. IsTable(u)
  BY DEF Bare, IsTable
<1>3. HashTypes(u)
  <2>1. [count |-> 0, chain |-> Null] \in Buckets /\ Null \in Place
    BY DEF Buckets, Place
  <2>2. u.table \in Tables
    BY <1>1, <2>1 DEF Tables
  <2> QED
    BY <1>1, <2>1, <2>2 DEF HashTypes
<1> DEFINE w == [i \in 1 .. 0 |-> Null]
<1>4. w \in [1 .. 0 -> DOMAIN u.elem] /\ Members(w, 0) = {}
  BY DEF Members
<1> HIDE DEF w
<1>5. Row(DOMAIN u.elem, w, 0) /\ Strung(u.elem, w, 0) /\ Item(w, 0, 1) = Null
  BY <1>4 DEF Row, Strung, Item
<1>6. Piled(u, w, 0)
  <2>1. ASSUME NEW b \in DOMAIN u.table PROVE Pile(u, w, 0, b, 0, 0) /\ u.table[b].count = 0
    BY <1>1 DEF Pile
  <2> QED
    BY <2>1 DEF Piled
<1>7. InOrder(u, w, 0)
  BY <1>1, <1>3, <1>5, <1>6 DEF InOrder, Ordered
<1>8. SameCells(u.elem, t.elem)
  BY <1>1 DEF SameCells
<1> QED
  BY <1>1, <1>2, <1>4, <1>7, <1>8

(* rehash keeps the elements, and the new buckets are right.               *)
LEMMA RehashIs ==
  ASSUME code \in [Keys -> Codes], NEW t, NEW s, NEW n, HashTypes(t), Ordered(t, s, n),
         DOMAIN t.elem = Members(s, n), NEW m \in Nat \ {0}, NEW u, u = rehash(t, m)
  PROVE  /\ \E w : InOrder(u, w, n) /\ Members(w, n) = Members(s, n)
         /\ SameCells(u.elem, t.elem) /\ u.count = t.count /\ DOMAIN u.table = 1 .. m /\ IsTable(u)
<1>1. u = Threaded(t, m, s, n)
  BY ListIs DEF rehash
<1>2. /\ n \in Nat /\ s \in [1 .. n -> DOMAIN t.elem] /\ Null \notin DOMAIN t.elem
      /\ \A i, j \in 1 .. n : s[i] = s[j] => i = j
  BY HashValues DEF Ordered, Row, HashTypes
<1>3. PICK f : IsThreading(f, t, m, s, n) /\ u = f[n]
  BY <1>1, <1>2, ThreadingExists
<1>4. \A j \in 0 .. n : f[j] = IF j = 0 THEN Bare(t, m) ELSE Step(t, f[j - 1], s[j])
  BY <1>3 DEF IsThreading
<1> DEFINE Up(g, j) == /\ \E w : InOrder(g, w, j) /\ Members(w, j) = Members(s, j)
                       /\ SameCells(g.elem, t.elem) /\ g.count = t.count
                       /\ DOMAIN g.table = 1 .. m /\ IsTable(g)
           P == {j \in Nat : j \in 0 .. n => Up(f[j], j)}
<1>5. 0 \in P
  <2>1. PICK g : g = f[0]
    OBVIOUS
  <2>2. g = Bare(t, m)
    BY <1>2, <1>4, <2>1
  <2>3. Members(s, 0) = {}
    BY DEF Members
  <2>4. Up(g, 0)
    BY <2>2, <2>3, BareIs
  <2> QED
    BY <2>1, <2>4
<1>6. ASSUME NEW j \in Nat, j \in P PROVE j + 1 \in P
  <2> SUFFICES ASSUME j + 1 \in 0 .. n PROVE Up(f[j + 1], j + 1)
    OBVIOUS
  <2>1. PICK g, v, e : g = f[j] /\ v = f[j + 1] /\ e = s[j + 1]
    OBVIOUS
  <2>2. j \in 0 .. n /\ j + 1 \in 1 .. n /\ j + 1 # 0 /\ (j + 1) - 1 = j
    BY <1>2
  <2>3. PICK w : InOrder(g, w, j) /\ Members(w, j) = Members(s, j)
    BY <1>6, <2>1, <2>2
  <2>4. SameCells(g.elem, t.elem) /\ g.count = t.count /\ DOMAIN g.table = 1 .. m
    BY <1>6, <2>1, <2>2
  <2>5. e \in DOMAIN t.elem /\ e # Null /\ e \in DOMAIN g.elem
    BY <1>2, <2>1, <2>2, <2>4 DEF SameCells
  <2>6. v = insertElement(g, Bucket(g, t.elem[e].key), e)
    <3>1. v = Step(t, g, e)
      BY <1>4, <2>1, <2>2
    <3> QED
      BY <2>5, <3>1 DEF Step
  <2>7. Off(e, w, j)
    <3> SUFFICES ASSUME NEW i \in 1 .. j, w[i] = e PROVE FALSE
      BY DEF Off
    <3>1. e \in Members(s, j)
      BY <2>3 DEF Members
    <3>2. PICK a \in 1 .. j : s[a] = s[j + 1]
      BY <2>1, <3>1 DEF Members
    <3>3. a \in 1 .. n /\ a # j + 1
      BY <1>2, <2>2
    <3> QED
      BY <1>2, <2>2, <3>2, <3>3
  <2>8. PICK b : b = Bucket(g, t.elem[e].key)
    OBVIOUS
  <2>9. b = IF g.table = <<>> THEN 0 ELSE Bucket(g, g.elem[e].key)
    <3>1. g.table # <<>>
      <4>1. 1 \in DOMAIN g.table
        BY <2>4
      <4> QED
        BY <4>1
    <3>2. g.elem[e].key = t.elem[e].key
      BY <2>4, <2>5 DEF SameCells
    <3> QED
      BY <2>8, <3>1, <3>2
  <2>10. v = insertElement(g, b, e)
    BY <2>6, <2>8
  <2>11. PICK y : InOrder(v, y, j + 1) /\ Alike(v, g) /\ Members(y, j + 1) = Members(w, j) \cup {e}
    BY <2>3, <2>5, <2>7, <2>9, <2>10, InsertIs
  <2>12. Members(s, j + 1) = Members(s, j) \cup {e}
    <3>1. \A i \in 1 .. j + 1 : i \in 1 .. j \/ i = j + 1
      OBVIOUS
    <3>2. 1 .. j \subseteq 1 .. j + 1 /\ j + 1 \in 1 .. j + 1
      OBVIOUS
    <3> QED
      BY <2>1, <3>1, <3>2 DEF Members
  <2>13. IsTable(v)
    BY <2>10 DEF insertElement, IsTable
  <2>14. SameCells(v.elem, t.elem) /\ v.count = t.count /\ DOMAIN v.table = 1 .. m
    BY <2>4, <2>11 DEF Alike, SameCells
  <2> QED
    BY <2>1, <2>3, <2>11, <2>12, <2>13, <2>14
<1> HIDE DEF P
<1>7. n \in P
  BY <1>2, <1>5, <1>6, NumberInduction
<1> QED
  BY <1>2, <1>3, <1>7 DEF P

-----------------------------------------------------------------------------
(* The invariant, and a new element.                                       *)

HashInv ==
  /\ code \in [Keys -> Codes] /\ found \in Data \cup {Null}
  /\ IsTable(h) /\ \E s, n : Sound(h, s, n)

(* Only the count is ahead of the list. *)
LEMMA CountedIs ==
  ASSUME NEW t, IsTable(t), NEW s, NEW n, InOrder(t, s, n), NEW m \in Nat, NEW u, u = [t EXCEPT !.count = m]
  PROVE  InOrder(u, s, n) /\ IsTable(u) /\ u.elem = t.elem /\ u.count = m /\ u.table = t.table
<1>1. u = [first |-> t.first, count |-> m, table |-> t.table, elem |-> t.elem]
  BY DEF IsTable
<1>2. u.first = t.first /\ u.elem = t.elem /\ u.count = m /\ u.table = t.table
  BY <1>1
<1>3. HashTypes(u)
  BY <1>2 DEF InOrder, HashTypes
<1>4. Ordered(u, s, n)
  BY <1>2 DEF InOrder, Ordered
<1>5. Piled(u, s, n)
  BY <1>2 DEF InOrder, Piled, Pile, Bucket, tableSize
<1>6. IsTable(u)
  BY <1>1, <1>2 DEF IsTable
<1> QED
  BY <1>2, <1>3, <1>4, <1>5, <1>6 DEF InOrder

(* An element that is not on the list. *)
Added(t, e, r) == [t EXCEPT !.elem = [x \in DOMAIN t.elem \cup {e} |-> IF x = e THEN r ELSE t.elem[x]]]

(* A new element that no other leads to.                                   *)
LEMMA AddedIs ==
  ASSUME NEW t, IsTable(t), NEW s, NEW n, InOrder(t, s, n), NEW e \in Elems \ DOMAIN t.elem,
         NEW r \in Cells, NEW u, u = Added(t, e, r)
  PROVE  /\ InOrder(u, s, n) /\ IsTable(u) /\ u.count = t.count /\ u.table = t.table
         /\ DOMAIN u.elem = DOMAIN t.elem \cup {e} /\ u.elem[e] = r
         /\ \A x \in DOMAIN t.elem : u.elem[x] = t.elem[x]
<1>0. /\ t.first \in Place /\ t.count \in Nat /\ t.table \in Tables /\ DOMAIN t.elem \subseteq Elems
      /\ t.elem \in [DOMAIN t.elem -> Cells] /\ Ordered(t, s, n) /\ Piled(t, s, n)
      /\ Row(DOMAIN t.elem, s, n) /\ Strung(t.elem, s, n) /\ t.first = Item(s, n, 1)
  BY DEF InOrder, HashTypes, Ordered
<1> DEFINE f == [x \in DOMAIN t.elem \cup {e} |-> IF x = e THEN r ELSE t.elem[x]]
<1>1. u = [first |-> t.first, count |-> t.count, table |-> t.table, elem |-> f]
  BY DEF IsTable, Added
<1>2. u.first = t.first /\ u.elem = f /\ u.count = t.count /\ u.table = t.table
  BY <1>1
<1>3. /\ f \in [DOMAIN t.elem \cup {e} -> Cells] /\ f[e] = r
      /\ \A x \in DOMAIN t.elem : f[x] = t.elem[x]
  BY <1>0
<1> HIDE DEF f
<1>4. HashTypes(u)
  <2>1. DOMAIN f = DOMAIN t.elem \cup {e} /\ f \in [DOMAIN f -> Cells] /\ DOMAIN f \subseteq Elems
    BY <1>0, <1>3
  <2> QED
    BY <1>0, <1>2, <2>1 DEF HashTypes
<1>5. \A i \in 1 .. n : s[i] \in DOMAIN t.elem /\ f[s[i]] = t.elem[s[i]]
  BY <1>0, <1>3 DEF Row
<1>6. Ordered(u, s, n)
  <2>1. Row(DOMAIN f, s, n)
    BY <1>0, <1>3 DEF Row
  <2>2. Strung(f, s, n)
    BY <1>0, <1>5 DEF Strung
  <2> QED
    BY <1>0, <1>2, <2>1, <2>2 DEF Ordered
<1>7. Piled(u, s, n)
  <2>1. ASSUME NEW b \in DOMAIN t.table
        PROVE  \E p : /\ Pile(u, s, n, b, p, t.table[b].count)
                      /\ t.table[b].count # 0 => t.table[b].chain = s[p]
    <3>1. PICK p : /\ Pile(t, s, n, b, p, t.table[b].count)
                   /\ t.table[b].count # 0 => t.table[b].chain = s[p]
      BY <1>0 DEF Piled
    <3>2. \A i \in 1 .. n : Bucket(u, u.elem[s[i]].key) = Bucket(t, t.elem[s[i]].key)
      BY <1>2, <1>5 DEF Bucket, tableSize
    <3>3. Pile(u, s, n, b, p, t.table[b].count)
      BY <3>1, <3>2 DEF Pile
    <3> QED
      BY <3>1, <3>3
  <2> QED
    BY <1>2, <2>1 DEF Piled
<1>8. IsTable(u)
  BY <1>1, <1>2 DEF IsTable
<1> QED
  BY <1>2, <1>3, <1>4, <1>6, <1>7, <1>8 DEF InOrder

(* hashInsert of a key that is not there, with a rehash or without.        *)
LEMMA WithElementIs ==
  ASSUME code \in [Keys -> Codes], IsTable(h), NEW s, NEW n, Sound(h, s, n), NEW k \in Keys, NEW d \in Data,
         \A x \in DOMAIN h.elem : h.elem[x].key # k, NEW e \in Elems \ DOMAIN h.elem, NEW grown \in BOOLEAN,
         NEW u, u = WithElement(k, d, e, grown)
  PROVE  /\ IsTable(u) /\ \E w : Sound(u, w, n + 1)
         /\ DOMAIN u.elem = DOMAIN h.elem \cup {e} /\ u.elem[e].key = k /\ u.elem[e].data = d
         /\ \A x \in DOMAIN h.elem : u.elem[x].key = h.elem[x].key /\ u.elem[x].data = h.elem[x].data
<1>0. /\ InOrder(h, s, n) /\ Distinct(h) /\ DOMAIN h.elem = Members(s, n) /\ h.count = n
      /\ h.table \in Tables
  BY DEF Sound, InOrder, Members, HashTypes
<1>1. n \in Nat /\ n + 1 \in Nat \ {0} /\ (n + 1) * Growth \in Nat \ {0}
  <2>1. n \in Nat
    BY DEF Sound, Ordered, Row
  <2>2. PICK a \in Nat \ {0} : a = n + 1
    BY <2>1
  <2>3. Growth \in Nat \ {0}
    BY HashSizes
  <2>4. a * Growth \in Nat \ {0}
    BY <2>2, <2>3
  <2> QED
    BY <2>1, <2>2, <2>4
<1>2. PICK h1 : h1 = [h EXCEPT !.count = n + 1]
  OBVIOUS
<1>3. /\ InOrder(h1, s, n) /\ IsTable(h1) /\ h1.elem = h.elem /\ h1.count = n + 1 /\ h1.table = h.table
  BY <1>0, <1>1, <1>2, CountedIs
<1>4. PICK g : g = IF Crowded(n + 1) /\ grown THEN rehash(h1, (n + 1) * Growth) ELSE h1
  OBVIOUS
<1>5. /\ IsTable(g) /\ g.count = n + 1 /\ SameCells(g.elem, h.elem)
      /\ \E w : InOrder(g, w, n) /\ Members(w, n) = Members(s, n)
  <2>1. CASE g = h1
    <3>1. SameCells(g.elem, h.elem)
      BY <1>3, <2>1 DEF SameCells
    <3> QED
      BY <1>3, <2>1, <3>1
  <2>2. CASE g = rehash(h1, (n + 1) * Growth)
    <3>1. HashTypes(h1) /\ Ordered(h1, s, n) /\ DOMAIN h1.elem = Members(s, n)
      BY <1>0, <1>3 DEF InOrder
    <3>2. PICK m \in Nat \ {0} : m = (n + 1) * Growth
      BY <1>1
    <3>3. g = rehash(h1, m)
      BY <2>2, <3>2
    <3>4. /\ \E w : InOrder(g, w, n) /\ Members(w, n) = Members(s, n)
          /\ SameCells(g.elem, h1.elem) /\ g.count = h1.count /\ IsTable(g)
      BY <3>1, <3>2, <3>3, RehashIs
    <3> QED
      BY <1>3, <3>4
  <2> QED
    BY <1>4, <2>1, <2>2
<1>6. PICK w : InOrder(g, w, n) /\ Members(w, n) = Members(s, n)
  BY <1>5
<1>7. DOMAIN g.elem = DOMAIN h.elem /\ e \in Elems \ DOMAIN g.elem /\ g.table \in Tables
  BY <1>5, <1>6 DEF SameCells, InOrder, HashTypes
<1>8. PICK r : r = [key |-> k, data |-> d, next |-> Null, prev |-> Null]
  OBVIOUS
<1>9. r \in Cells /\ r.key = k /\ r.data = d
  BY <1>8 DEF Cells, Place
<1>11. PICK v : v = Added(g, e, r)
  OBVIOUS
<1>12. /\ InOrder(v, w, n) /\ v.count = g.count /\ v.table = g.table
       /\ DOMAIN v.elem = DOMAIN g.elem \cup {e} /\ v.elem[e] = r
       /\ \A x \in DOMAIN g.elem : v.elem[x] = g.elem[x]
  BY <1>5, <1>6, <1>7, <1>9, <1>11, AddedIs
<1>13. PICK b : b = IF g.table = <<>> THEN 0 ELSE Bucket(g, k)
  OBVIOUS
<1>14. u = insertElement(v, b, e)
  BY <1>0, <1>2, <1>4, <1>8, <1>11, <1>13 DEF WithElement, Added
<1>15. b = IF v.table = <<>> THEN 0 ELSE Bucket(v, v.elem[e].key)
  <2>1. v.elem[e].key = k
    BY <1>9, <1>12
  <2>2. Bucket(v, k) = Bucket(g, k)
    BY <1>12 DEF Bucket, tableSize
  <2> QED
    BY <1>12, <1>13, <2>1, <2>2
<1>16. Off(e, w, n)
  <2>1. \A i \in 1 .. n : w[i] \in DOMAIN h.elem
    BY <1>0, <1>6 DEF Members
  <2> QED
    BY <2>1 DEF Off
<1>17. e \in DOMAIN v.elem
  BY <1>12
<1>18. PICK y : InOrder(u, y, n + 1) /\ Alike(u, v) /\ Members(y, n + 1) = Members(w, n) \cup {e}
  BY <1>12, <1>14, <1>15, <1>16, <1>17, InsertIs
<1>19. IsTable(u)
  BY <1>14 DEF insertElement, IsTable
<1>20. /\ DOMAIN u.elem = DOMAIN h.elem \cup {e} /\ u.elem[e].key = k /\ u.elem[e].data = d
       /\ \A x \in DOMAIN h.elem : u.elem[x].key = h.elem[x].key /\ u.elem[x].data = h.elem[x].data
  BY <1>5, <1>7, <1>9, <1>12, <1>18 DEF Alike, SameCells
<1>21. Distinct(u)
  BY <1>0, <1>20 DEF Distinct
<1>22. DOMAIN u.elem = Members(y, n + 1) /\ u.count = n + 1
  BY <1>0, <1>5, <1>6, <1>12, <1>18, <1>20 DEF Alike
<1>23. Sound(u, y, n + 1)
  BY <1>18, <1>21, <1>22 DEF Sound, InOrder, Members
<1> QED
  BY <1>19, <1>20, <1>23

-----------------------------------------------------------------------------
(* The calls.                                                              *)

(* A table that is new or cleared.                                         *)
LEMMA EmptySound == IsTable(Empty) /\ DOMAIN Empty.elem = {} /\ \E s : Sound(Empty, s, 0)
<1>1. Empty.first = Null /\ Empty.count = 0 /\ Empty.table = <<>> /\ Empty.elem = <<>>
  BY DEF Empty
<1>2. IsTable(Empty)
  BY DEF Empty, IsTable
<1>3. DOMAIN Empty.elem = {} /\ DOMAIN Empty.table = {} /\ Empty.elem \in [{} -> Cells]
      /\ Empty.table \in [1 .. 0 -> Buckets]
  BY <1>1
<1>4. HashTypes(Empty)
  BY <1>1, <1>3 DEF HashTypes, Tables, Place
<1> DEFINE s == [i \in 1 .. 0 |-> Null]
<1>5. s \in [1 .. 0 -> DOMAIN Empty.elem] /\ {s[i] : i \in 1 .. 0} = {}
  OBVIOUS
<1> HIDE DEF s
<1>6. Row(DOMAIN Empty.elem, s, 0) /\ Strung(Empty.elem, s, 0) /\ Item(s, 0, 1) = Null
  BY <1>5 DEF Row, Strung, Item
<1>7. Piled(Empty, s, 0) /\ Distinct(Empty)
  BY <1>3 DEF Piled, Distinct
<1>8. Sound(Empty, s, 0)
  BY <1>1, <1>3, <1>4, <1>5, <1>6, <1>7 DEF Sound, Ordered
<1> QED
  BY <1>2, <1>3, <1>8

(* Element e of t has gone. *)
Deleted(u, t, e) ==
  /\ DOMAIN u.elem = DOMAIN t.elem \ {e}
  /\ \A x \in DOMAIN u.elem : u.elem[x].key = t.elem[x].key /\ u.elem[x].data = t.elem[x].data

(* Element e has key k and data d, and the others are as in t. *)
Has(u, t, e, k, d) ==
  /\ DOMAIN u.elem = DOMAIN t.elem \cup {e} /\ u.elem[e].key = k /\ u.elem[e].data = d
  /\ \A x \in DOMAIN t.elem : t.elem[x].key = k <=> x = e
  /\ \A x \in DOMAIN t.elem \ {e} : u.elem[x].key = t.elem[x].key /\ u.elem[x].data = t.elem[x].data

(* What the new table is does not depend on the state it is seen from.     *)
LEMMA SoundNext ==
  ASSUME UNCHANGED code, NEW s, NEW n, Sound(h', s, n)
  PROVE  Sound(h, s, n)'
BY DEF Sound, HashTypes, Ordered, Piled, Pile, Bucket, tableSize, Distinct

(* A sound table is all the invariant asks for.                            *)
LEMMA InvNext ==
  ASSUME code \in [Keys -> Codes], UNCHANGED code, found' \in Data \cup {Null}, IsTable(h'),
         NEW s, NEW n, Sound(h', s, n)
  PROVE  HashInv'
<1>1. Sound(h, s, n)'
  BY SoundNext
<1>2. IsTable(h)'
  BY DEF IsTable
<1> QED
  BY <1>1, <1>2 DEF HashInv

(* An element is removed.                                                  *)
LEMMA RemoveStep ==
  ASSUME HashInv, UNCHANGED code, NEW e \in DOMAIN h.elem, removeElementGivenHash(e)
  PROVE  HashInv' /\ found' = h.elem[e].data /\ Deleted(h', h, e)
<1>1. PICK s, n : Sound(h, s, n)
  BY DEF HashInv
<1>2. code \in [Keys -> Codes] /\ h.elem[e].data \in Data
  BY <1>1 DEF HashInv, Sound, HashTypes, Cells
<1>3. PICK u : u = Unlinked(h, e)
  OBVIOUS
<1>4. Deleted(u, h, e) /\ \E w : Sound(u, w, n - 1)
  BY <1>1, <1>2, <1>3, RemoveIs DEF Deleted
<1>5. PICK w : Sound(u, w, n - 1)
  BY <1>4
<1>6. IsTable(u)
  BY <1>3 DEF Unlinked, IsTable
<1>7. /\ u.count = n - 1 /\ u.table \in Tables /\ u.first = Item(w, n - 1, 1) /\ n - 1 \in Nat
      /\ DOMAIN u.elem = {w[i] : i \in 1 .. n - 1}
  BY <1>5 DEF Sound, HashTypes, Ordered, Row
<1>8. \A b \in DOMAIN u.table : u.table[b].count >= 0
  BY <1>7 DEF Tables, Buckets
<1>9. u.count = 0 => u.first = Null /\ DOMAIN u.elem = {}
  BY <1>7 DEF Item
<1>10. found' = h.elem[e].data
  BY <1>3, <1>8, <1>9 DEF removeElementGivenHash
<1>11. CASE u.count = 0
  <2>1. h' = Empty
    BY <1>3, <1>11 DEF removeElementGivenHash
  <2>2. Deleted(h', h, e)
    BY <1>4, <1>9, <1>11, <2>1, EmptySound DEF Deleted
  <2>3. HashInv'
    BY <1>2, <1>10, <2>1, EmptySound, InvNext
  <2> QED
    BY <1>10, <2>2, <2>3
<1>12. CASE u.count # 0
  <2>1. h' = u
    BY <1>3, <1>12 DEF removeElementGivenHash
  <2>2. HashInv'
    BY <1>2, <1>5, <1>6, <1>10, <2>1, InvNext
  <2> QED
    BY <1>4, <1>10, <2>1, <2>2
<1> QED
  BY <1>11, <1>12

(* The data of an element is replaced.                                     *)
LEMMA ReplaceIs ==
  ASSUME NEW t, IsTable(t), NEW s, NEW n, Sound(t, s, n), NEW e \in DOMAIN t.elem, NEW d \in Data,
         NEW u, u = [t EXCEPT !.elem[e].data = d]
  PROVE  Sound(u, s, n) /\ IsTable(u) /\ Has(u, t, e, t.elem[e].key, d)
<1>0. /\ t.first \in Place /\ t.count \in Nat /\ t.table \in Tables /\ DOMAIN t.elem \subseteq Elems
      /\ t.elem \in [DOMAIN t.elem -> Cells] /\ Ordered(t, s, n) /\ Piled(t, s, n) /\ Distinct(t)
      /\ Row(DOMAIN t.elem, s, n) /\ Strung(t.elem, s, n) /\ t.first = Item(s, n, 1)
      /\ DOMAIN t.elem = {s[i] : i \in 1 .. n} /\ t.count = n
  BY DEF Sound, HashTypes, Ordered
<1>1. PICK r : r = [t.elem[e] EXCEPT !.data = d]
  OBVIOUS
<1>2. /\ r \in Cells /\ r.data = d /\ r.key = t.elem[e].key
      /\ r.next = t.elem[e].next /\ r.prev = t.elem[e].prev
  <2>1. t.elem[e] \in Cells
    BY <1>0
  <2> QED
    BY <1>1, <2>1 DEF Cells
<1>3. PICK f : f = [t.elem EXCEPT ![e] = r]
  OBVIOUS
<1>4. u = [first |-> t.first, count |-> t.count, table |-> t.table, elem |-> f]
  <2>1. u = [t EXCEPT !.elem = [t.elem EXCEPT ![e] = [t.elem[e] EXCEPT !.data = d]]]
    BY DEF IsTable
  <2>2. u = [t EXCEPT !.elem = f]
    BY <1>1, <1>3, <2>1
  <2> QED
    BY <2>2 DEF IsTable
<1>5. u.first = t.first /\ u.count = t.count /\ u.table = t.table /\ u.elem = f
  BY <1>4
<1>6. /\ f \in [DOMAIN t.elem -> Cells] /\ f[e] = r
      /\ \A x \in DOMAIN t.elem : f[x] = IF x = e THEN r ELSE t.elem[x]
  BY <1>0, <1>2, <1>3
<1>7. \A x \in DOMAIN t.elem : /\ f[x].key = t.elem[x].key /\ f[x].next = t.elem[x].next
                               /\ f[x].prev = t.elem[x].prev
  BY <1>2, <1>6
<1>8. DOMAIN f = DOMAIN t.elem
  BY <1>6
<1>9. HashTypes(u)
  BY <1>0, <1>5, <1>6, <1>8 DEF HashTypes
<1>10. \A i \in 1 .. n : s[i] \in DOMAIN t.elem
  BY <1>0
<1>11. Ordered(u, s, n)
  <2>1. Strung(f, s, n)
    BY <1>0, <1>7, <1>10 DEF Strung
  <2> QED
    BY <1>0, <1>5, <1>8, <2>1 DEF Ordered
<1>12. Piled(u, s, n)
  <2>1. ASSUME NEW b \in DOMAIN t.table
        PROVE  \E p : /\ Pile(u, s, n, b, p, t.table[b].count)
                      /\ t.table[b].count # 0 => t.table[b].chain = s[p]
    <3>1. PICK p : /\ Pile(t, s, n, b, p, t.table[b].count)
                   /\ t.table[b].count # 0 => t.table[b].chain = s[p]
      BY <1>0 DEF Piled
    <3>2. \A i \in 1 .. n : Bucket(u, u.elem[s[i]].key) = Bucket(t, t.elem[s[i]].key)
      BY <1>5, <1>7, <1>10 DEF Bucket, tableSize
    <3>3. Pile(u, s, n, b, p, t.table[b].count)
      BY <3>1, <3>2 DEF Pile
    <3> QED
      BY <3>1, <3>3
  <2> QED
    BY <1>5, <2>1 DEF Piled
<1>13. Distinct(u)
  BY <1>0, <1>5, <1>7, <1>8 DEF Distinct
<1>14. Sound(u, s, n)
  BY <1>0, <1>5, <1>8, <1>9, <1>11, <1>12, <1>13 DEF Sound
<1>15. IsTable(u)
  BY <1>4, <1>5 DEF IsTable
<1>16. Has(u, t, e, t.elem[e].key, d)
  BY <1>0, <1>2, <1>5, <1>6, <1>8 DEF Has, Distinct
<1> QED
  BY <1>14, <1>15, <1>16

(* What a call says of key k: its data, Null when it is not there. *)
Tells(t, k, a) ==
  \/ \E x \in DOMAIN t.elem : t.elem[x].key = k /\ a = t.elem[x].data
  \/ a = Null /\ \A x \in DOMAIN t.elem : t.elem[x].key # k

(* What a call can do. *)
Outcome ==
  \/ \E k \in Keys : Tells(h, k, found') /\ h' = h
  \/ \E k \in Keys, e \in DOMAIN h.elem :
       Tells(h, k, found') /\ h.elem[e].key = k /\ Deleted(h', h, e)
  \/ \E k \in Keys, d \in Data, e \in Elems : Tells(h, k, found') /\ Has(h', h, e, k, d)
  \/ \E k \in Keys, d \in Data : found' = d /\ h' = h /\ \A x \in DOMAIN h.elem : h.elem[x].key # k
  \/ h' = Empty /\ found' = found

(* One step per operation.                                                 *)
LEMMA HashStep == HashInv /\ HashNext => HashInv' /\ Outcome
<1> SUFFICES ASSUME HashInv, HashNext PROVE HashInv' /\ Outcome
  OBVIOUS
<1>1. PICK s, n : Sound(h, s, n)
  BY DEF HashInv
<1>2. /\ code \in [Keys -> Codes] /\ UNCHANGED code /\ IsTable(h) /\ found \in Data \cup {Null}
      /\ DOMAIN h.elem \subseteq Elems /\ h.elem \in [DOMAIN h.elem -> Cells]
  BY <1>1 DEF HashInv, HashNext, Sound, HashTypes
<1>3. \A x \in DOMAIN h.elem : h.elem[x].key \in Keys /\ h.elem[x].data \in Data
  BY <1>2 DEF Cells
<1>4. \A k \in Keys : \/ Found(k) \in DOMAIN h.elem /\ h.elem[Found(k)].key = k
                      \/ Found(k) = Null /\ \A y \in DOMAIN h.elem : h.elem[y].key # k
  BY <1>1, <1>2, FindIs DEF Found
<1>5. ASSUME NEW k \in Keys
      PROVE  /\ Found(k) \in Elems => Found(k) \in DOMAIN h.elem /\ h.elem[Found(k)].key = k
             /\ Found(k) \notin Elems => Found(k) = Null /\ \A y \in DOMAIN h.elem : h.elem[y].key # k
  BY <1>2, <1>4, HashValues
<1>6. ASSUME h' = h, found' \in Data \cup {Null} PROVE HashInv'
  BY <1>1, <1>2, <1>6, InvNext
<1>7. ASSUME NEW k \in Keys, hashFind(k) PROVE HashInv' /\ Outcome
  <2>1. h' = h
    BY <1>7 DEF hashFind
  <2>2. CASE Found(k) \in Elems
    <3>1. found' = h.elem[Found(k)].data
      BY <1>7, <2>2 DEF hashFind
    <3>2. Tells(h, k, found') /\ found' \in Data
      BY <1>3, <1>5, <2>2, <3>1 DEF Tells
    <3> QED
      BY <1>6, <2>1, <3>2 DEF Outcome
  <2>3. CASE Found(k) \notin Elems
    <3>1. found' = Null
      BY <1>5, <1>7, <2>3 DEF hashFind
    <3>2. Tells(h, k, found')
      BY <1>5, <2>3, <3>1 DEF Tells
    <3> QED
      BY <1>6, <2>1, <3>1, <3>2 DEF Outcome
  <2> QED
    BY <2>2, <2>3
<1>8. ASSUME NEW k \in Keys, NEW d \in Data \cup {Null}, hashInsert(k, d) PROVE HashInv' /\ Outcome
  <2>1. CASE Found(k) \in Elems /\ d = Null /\ removeElementGivenHash(Found(k))
    <3>1. PICK e \in DOMAIN h.elem : e = Found(k) /\ h.elem[e].key = k
      BY <1>5, <2>1
    <3>2. removeElementGivenHash(e)
      BY <2>1, <3>1
    <3>3. HashInv' /\ found' = h.elem[e].data /\ Deleted(h', h, e)
      BY <1>2, <3>2, RemoveStep
    <3>4. Tells(h, k, found')
      BY <3>1, <3>3 DEF Tells
    <3> QED
      BY <3>1, <3>3, <3>4 DEF Outcome
  <2>2. CASE /\ Found(k) \in Elems /\ d # Null
             /\ h' = [h EXCEPT !.elem[Found(k)].data = d] /\ found' = h.elem[Found(k)].data
    <3>1. PICK e \in DOMAIN h.elem : e = Found(k) /\ h.elem[e].key = k
      BY <1>5, <2>2
    <3>2. d \in Data /\ h' = [h EXCEPT !.elem[e].data = d] /\ found' = h.elem[e].data
      BY <2>2, <3>1
    <3>3. Sound(h', s, n) /\ IsTable(h') /\ Has(h', h, e, h.elem[e].key, d)
      BY <1>1, <1>2, <3>2, ReplaceIs
    <3>4. HashInv'
      BY <1>2, <1>3, <3>2, <3>3, InvNext
    <3>5. Tells(h, k, found')
      BY <3>1, <3>2 DEF Tells
    <3> QED
      BY <1>2, <3>1, <3>2, <3>3, <3>4, <3>5 DEF Outcome
  <2>3. CASE InsertNew(k, d)
    <3>1. d \in Data /\ \A x \in DOMAIN h.elem : h.elem[x].key # k
      BY <1>4, <1>2, <2>3, HashValues DEF InsertNew
    <3>2. CASE found' = d /\ UNCHANGED h
      BY <1>6, <3>1, <3>2 DEF Outcome
    <3>3. ASSUME NEW e \in Elems \ DOMAIN h.elem, NEW grown \in BOOLEAN,
                 h' = WithElement(k, d, e, grown), found' = Null
          PROVE  HashInv' /\ Outcome
      <4>1. PICK u : u = WithElement(k, d, e, grown)
        OBVIOUS
      <4>2. /\ IsTable(u) /\ \E w : Sound(u, w, n + 1)
            /\ DOMAIN u.elem = DOMAIN h.elem \cup {e} /\ u.elem[e].key = k /\ u.elem[e].data = d
            /\ \A x \in DOMAIN h.elem : u.elem[x].key = h.elem[x].key /\ u.elem[x].data = h.elem[x].data
        BY <1>1, <1>2, <3>1, <4>1, WithElementIs
      <4>3. h' = u
        BY <3>3, <4>1
      <4>4. HashInv'
        BY <1>2, <3>3, <4>2, <4>3, InvNext
      <4>5. Has(u, h, e, k, d)
        BY <3>1, <4>2 DEF Has
      <4>6. Tells(h, k, found')
        BY <3>1, <3>3 DEF Tells
      <4> QED
        BY <3>1, <4>3, <4>4, <4>5, <4>6 DEF Outcome
    <3> QED
      BY <2>3, <3>2, <3>3 DEF InsertNew
  <2>4. CASE Found(k) = Null /\ d = Null /\ found' = Null /\ UNCHANGED h
    <3>1. \A x \in DOMAIN h.elem : h.elem[x].key # k
      BY <1>4, <1>2, <2>4, HashValues
    <3>2. Tells(h, k, found')
      BY <2>4, <3>1 DEF Tells
    <3> QED
      BY <1>6, <2>4, <3>2 DEF Outcome
  <2>5. CASE Found(k) = "assert"
    <3>1. Found(k) \in Elems \cup {Null}
      BY <1>5
    <3> QED
      BY <2>5, <3>1, HashValues
  <2> QED
    BY <1>8, <2>1, <2>2, <2>3, <2>4, <2>5 DEF hashInsert, InsertKnown
<1>9. CASE hashClear
  <2>1. h' = Empty /\ found' = found
    BY <1>9 DEF hashClear
  <2>2. HashInv'
    BY <1>2, <2>1, EmptySound, InvNext
  <2> QED
    BY <2>1, <2>2 DEF Outcome
<1> QED
  BY <1>7, <1>8, <1>9 DEF HashNext

(* Through every call the table is one list of its elements with different *)
(* keys, linked forth and back, in which each bucket is an interval.       *)
THEOREM HashInvariance == HashSpec => []HashInv
<1>1. HashInit => HashInv
  <2> SUFFICES ASSUME HashInit PROVE HashInv
    OBVIOUS
  <2>1. code \in [Keys -> Codes] /\ h = Empty /\ found = Null
    BY DEF HashInit, hashInit
  <2> QED
    BY <2>1, EmptySound DEF HashInv
<1>2. HashInv /\ [HashNext]_hashVars => HashInv'
  <2> SUFFICES ASSUME HashInv, [HashNext]_hashVars PROVE HashInv'
    OBVIOUS
  <2>1. CASE HashNext
    BY <2>1, HashStep
  <2>2. CASE UNCHANGED hashVars
    <3>1. PICK s, n : Sound(h, s, n)
      BY DEF HashInv
    <3>2. h' = h /\ UNCHANGED code /\ found' = found
      BY <2>2 DEF hashVars
    <3> QED
      BY <3>1, <3>2, InvNext DEF HashInv
  <2> QED
    BY <2>1, <2>2
<1> QED
  BY <1>1, <1>2, PTL DEF HashSpec

(* The list has all elements, and count is their number.                   *)
LEMMA InListIs ==
  ASSUME NEW s, NEW n, Sound(h, s, n)
  PROVE  InList = DOMAIN h.elem /\ h.count = Cardinality(DOMAIN h.elem)
<1>1. HashTypes(h) /\ Ordered(h, s, n) /\ DOMAIN h.elem = Members(s, n) /\ h.count = n
  BY DEF Sound, Members
<1>2. List(h) = s /\ DOMAIN List(h) = 1 .. n /\ Cardinality(DOMAIN h.elem) = n
  BY <1>1, ListIs
<1>3. Null \notin DOMAIN h.elem
  BY <1>1, HashValues DEF HashTypes
<1> QED
  BY <1>1, <1>2, <1>3 DEF InList, Members

(* What runs check of a table follows from the invariant.                  *)
LEMMA TableIntactIs == HashInv => TableIntact
<1> SUFFICES ASSUME HashInv PROVE TableIntact
  OBVIOUS
<1>1. PICK s, n : Sound(h, s, n)
  BY DEF HashInv
<1>2. /\ Ordered(h, s, n) /\ DOMAIN h.elem = {s[i] : i \in 1 .. n} /\ Null \notin DOMAIN h.elem
      /\ Row(DOMAIN h.elem, s, n) /\ Strung(h.elem, s, n) /\ h.first = Item(s, n, 1)
      /\ Listed(DOMAIN h.elem, h.elem, s, n) /\ Piled(h, s, n)
  BY <1>1, HashValues DEF Sound, Ordered, HashTypes, Listed
<1>3. /\ n \in Nat /\ s \in [1 .. n -> DOMAIN h.elem]
      /\ \A i \in 1 .. n : /\ h.elem[s[i]].next = Item(s, n, i + 1)
                           /\ h.elem[s[i]].prev = Item(s, n, i - 1)
  BY <1>2 DEF Row, Strung
<1>4. ASSUME NEW e \in DOMAIN h.elem
      PROVE  /\ h.elem[e].next # Null => h.elem[h.elem[e].next].prev = e
             /\ IF h.elem[e].prev = Null THEN h.first = e ELSE h.elem[h.elem[e].prev].next = e
  <2>1. PICK i \in 1 .. n : e = s[i]
    BY <1>2
  <2>2. ASSUME h.elem[e].next # Null PROVE h.elem[h.elem[e].next].prev = e
    <3>1. i + 1 \in 1 .. n /\ (i + 1) - 1 = i /\ h.elem[e].next = s[i + 1]
      BY <1>3, <2>1, <2>2 DEF Item
    <3>2. h.elem[s[i + 1]].prev = Item(s, n, i)
      BY <1>3, <3>1
    <3> QED
      BY <2>1, <3>1, <3>2 DEF Item
  <2>3. CASE h.elem[e].prev = Null
    <3>1. i = 1
      <4> SUFFICES ASSUME i # 1 PROVE FALSE
        OBVIOUS
      <4>1. i - 1 \in 1 .. n
        BY <1>3
      <4>2. h.elem[e].prev = s[i - 1] /\ s[i - 1] \in DOMAIN h.elem
        BY <1>3, <2>1, <4>1 DEF Item
      <4> QED
        BY <1>2, <2>3, <4>2
    <3> QED
      BY <1>2, <2>1, <2>2, <2>3, <3>1 DEF Item
  <2>4. CASE h.elem[e].prev # Null
    <3>1. i - 1 \in 1 .. n /\ (i - 1) + 1 = i /\ h.elem[e].prev = s[i - 1]
      BY <1>3, <2>1, <2>4 DEF Item
    <3>2. h.elem[s[i - 1]].next = Item(s, n, i)
      BY <1>3, <3>1
    <3> QED
      BY <2>1, <2>2, <2>4, <3>1, <3>2 DEF Item
  <2> QED
    BY <2>3, <2>4
<1>5. ListIntact
  BY <1>1, <1>4, InListIs DEF ListIntact
<1>6. ASSUME NEW b \in DOMAIN h.table
      PROVE  LET f == Stretch(h, h.table[b].chain, h.table[b].count)
             IN {f[i] : i \in DOMAIN f} = {e \in DOMAIN h.elem : Bucket(h, h.elem[e].key) = b}
  <2>1. PICK f : f = Stretch(h, h.table[b].chain, h.table[b].count)
    OBVIOUS
  <2>2. PICK p, c : /\ Covers(f, s, n, p, c)
                    /\ \A i \in 1 .. n : Bucket(h, h.elem[s[i]].key) = b <=> p <= i /\ i < p + c
    <3>1. Listed(DOMAIN h.elem, h.elem, s, n) /\ Piled(h, s, n)
      BY <1>2
    <3>2. \E p, c : /\ Covers(Stretch(h, h.table[b].chain, h.table[b].count), s, n, p, c)
                    /\ \A i \in 1 .. n : Bucket(h, h.elem[s[i]].key) = b <=> p <= i /\ i < p + c
      BY <1>6, <3>1, BucketCovered
    <3> QED
      BY <2>1, <3>2
  <2>3. /\ p \in Nat \ {0} /\ c \in Nat /\ p + c <= n + 1
        /\ DOMAIN f = 1 .. c /\ \A i \in 1 .. c : f[i] = s[p + i - 1]
    BY <2>2 DEF Covers
  <2>4. ASSUME NEW i \in DOMAIN f PROVE f[i] \in DOMAIN h.elem /\ Bucket(h, h.elem[f[i]].key) = b
    <3>0. i \in 1 .. c /\ n \in Nat
      BY <1>3, <2>3, <2>4
    <3>1. PICK m \in 1 .. n : m = p + i - 1 /\ p <= m /\ m < p + c
      BY <2>3, <3>0
    <3>2. f[i] = s[m]
      BY <2>3, <3>0, <3>1
    <3>3. Bucket(h, h.elem[s[m]].key) = b /\ s[m] \in DOMAIN h.elem
      BY <1>3, <2>2, <3>1
    <3> QED
      BY <3>2, <3>3
  <2>5. ASSUME NEW e \in DOMAIN h.elem, Bucket(h, h.elem[e].key) = b PROVE \E i \in DOMAIN f : f[i] = e
    <3>1. PICK m \in 1 .. n : e = s[m]
      BY <1>2
    <3>2. p <= m /\ m < p + c
      BY <2>2, <2>5, <3>1
    <3>3. m - p + 1 \in 1 .. c /\ p + (m - p + 1) - 1 = m
      BY <2>3, <3>2
    <3> QED
      BY <2>3, <3>1, <3>3
  <2> QED
    BY <2>1, <2>4, <2>5
<1>7. BucketsExact
  BY <1>6 DEF BucketsExact
<1> QED
  BY <1>5, <1>7 DEF TableIntact

(* hashInsert, hashClear and rehash lose no element and leave no link or   *)
(* bucket that is wrong.                                                   *)
THEOREM ElementsKept == HashSpec => []TableIntact
<1> QED
  BY HashInvariance, TableIntactIs, PTL

-----------------------------------------------------------------------------
(* The table is a map.                                                     *)

Keyed(t) == {t.elem[x].key : x \in DOMAIN t.elem}

IsMap(m, t) ==
  m = [k \in Keyed(t) |-> m[k]] /\ \A x \in DOMAIN t.elem : m[t.elem[x].key] = t.elem[x].data

MapExact == HashInv => IsMap(MapOf, h)

(* The map of the table has its keys and their data.                       *)
LEMMA MapNow == MapExact
<1> SUFFICES ASSUME HashInv PROVE IsMap(MapOf, h)
  BY DEF MapExact
<1>1. PICK s, n : Sound(h, s, n)
  BY DEF HashInv
<1>2. InList = DOMAIN h.elem /\ Distinct(h)
  BY <1>1, InListIs DEF Sound
<1>3. MapOf = [k \in Keyed(h) |-> h.elem[CHOOSE e \in DOMAIN h.elem : h.elem[e].key = k].data]
  BY <1>2 DEF MapOf, Keyed
<1>4. ASSUME NEW x \in DOMAIN h.elem PROVE MapOf[h.elem[x].key] = h.elem[x].data
  <2>1. PICK k : k = h.elem[x].key
    OBVIOUS
  <2>2. k \in Keyed(h)
    BY <2>1 DEF Keyed
  <2>3. PICK y : y = CHOOSE e \in DOMAIN h.elem : h.elem[e].key = k
    OBVIOUS
  <2>4. y \in DOMAIN h.elem /\ h.elem[y].key = k
    BY <2>1, <2>3
  <2>5. y = x
    BY <1>2, <2>1, <2>4 DEF Distinct
  <2> QED
    BY <1>3, <2>1, <2>2, <2>3, <2>5
<1> QED
  BY <1>3, <1>4 DEF IsMap

(* So has that of the next state.                                          *)
LEMMA MapNext == HashInv' => IsMap(MapOf', h')
<1>1. MapExact'
  BY MapNow, PTL
<1> QED
  BY <1>1 DEF MapExact, IsMap, Keyed

(* A search answers as the map does.                                       *)
LEMMA MapTells ==
  ASSUME NEW m, NEW t, IsMap(m, t), NEW k, NEW a, Tells(t, k, a)
  PROVE  a = IF k \in DOMAIN m THEN m[k] ELSE Null
<1>1. DOMAIN m = Keyed(t)
  BY DEF IsMap
<1>2. ASSUME NEW x \in DOMAIN t.elem, t.elem[x].key = k, a = t.elem[x].data
      PROVE  k \in DOMAIN m /\ m[k] = a
  BY <1>1, <1>2 DEF Keyed, IsMap
<1>3. ASSUME a = Null, \A x \in DOMAIN t.elem : t.elem[x].key # k
      PROVE  k \notin DOMAIN m
  BY <1>1, <1>3 DEF Keyed
<1> QED
  BY <1>2, <1>3 DEF Tells

(* An element less is a key less.                                          *)
LEMMA MapGone ==
  ASSUME NEW m, NEW t, IsMap(m, t), Distinct(t), NEW w, NEW u, IsMap(w, u), NEW e \in DOMAIN t.elem,
         Deleted(u, t, e), NEW k, t.elem[e].key = k
  PROVE  w = [j \in DOMAIN m \ {k} |-> m[j]]
<1>1. DOMAIN m = Keyed(t) /\ DOMAIN w = Keyed(u) /\ w = [j \in Keyed(u) |-> w[j]]
  BY DEF IsMap
<1>2. Keyed(u) = Keyed(t) \ {k}
  BY DEF Keyed, Deleted, Distinct
<1>3. ASSUME NEW j \in Keyed(u) PROVE w[j] = m[j]
  <2>1. PICK x \in DOMAIN u.elem : j = u.elem[x].key
    BY DEF Keyed
  <2>2. x \in DOMAIN t.elem /\ t.elem[x].key = j /\ t.elem[x].data = u.elem[x].data
    BY <2>1 DEF Deleted
  <2> QED
    BY <2>1, <2>2 DEF IsMap
<1> QED
  BY <1>1, <1>2, <1>3

WithKey(m, k, d) == [j \in DOMAIN m \cup {k} |-> IF j = k THEN d ELSE m[j]]

(* An element more, or with other data, is a key that is set.              *)
LEMMA MapHas ==
  ASSUME NEW m, NEW t, IsMap(m, t), NEW w, NEW u, IsMap(w, u), NEW e, NEW k, NEW d, Has(u, t, e, k, d)
  PROVE  w = WithKey(m, k, d)
<1>1. DOMAIN m = Keyed(t) /\ DOMAIN w = Keyed(u) /\ w = [j \in Keyed(u) |-> w[j]]
  BY DEF IsMap
<1>2. /\ DOMAIN u.elem = DOMAIN t.elem \cup {e} /\ u.elem[e].key = k /\ u.elem[e].data = d
      /\ \A x \in DOMAIN t.elem : t.elem[x].key = k <=> x = e
      /\ \A x \in DOMAIN t.elem \ {e} : u.elem[x].key = t.elem[x].key /\ u.elem[x].data = t.elem[x].data
  BY DEF Has
<1>3. e \in DOMAIN t.elem => t.elem[e].key = k
  BY <1>2
<1>4. Keyed(u) = Keyed(t) \cup {k}
  BY <1>2, <1>3 DEF Keyed
<1>5. ASSUME NEW j \in Keyed(u) PROVE w[j] = IF j = k THEN d ELSE m[j]
  <2>1. CASE j = k
    BY <1>2, <2>1 DEF IsMap
  <2>2. CASE j # k
    <3>1. PICK x \in DOMAIN u.elem : j = u.elem[x].key
      BY DEF Keyed
    <3>2. x \in DOMAIN t.elem \ {e}
      BY <1>2, <2>2, <3>1
    <3>3. t.elem[x].key = j /\ t.elem[x].data = u.elem[x].data
      BY <1>2, <3>1, <3>2
    <3> QED
      BY <2>2, <3>1, <3>2, <3>3 DEF IsMap
  <2> QED
    BY <2>1, <2>2
<1> QED
  BY <1>1, <1>4, <1>5 DEF WithKey

MapVars == <<MapOf, found>>

(* The empty table is the empty map.                                       *)
LEMMA MapInit == HashInit => AbstractMap!Init
<1> SUFFICES ASSUME HashInit PROVE AbstractMap!Init
  OBVIOUS
<1>1. h = Empty /\ found = Null /\ code \in [Keys -> Codes]
  BY DEF HashInit, hashInit
<1>2. HashInv
  BY <1>1, EmptySound DEF HashInv
<1>3. IsMap(MapOf, h)
  BY <1>2, MapNow DEF MapExact
<1>4. Keyed(h) = {}
  BY <1>1, EmptySound DEF Keyed
<1>5. MapOf = <<>>
  BY <1>3, <1>4 DEF IsMap
<1> QED
  BY <1>1, <1>5 DEF AbstractMap!Init

(* Each operation is one of the map.                                       *)
LEMMA MapStep == HashInv /\ [HashNext]_hashVars => [AbstractMap!Next]_MapVars
<1> SUFFICES ASSUME HashInv, [HashNext]_hashVars PROVE AbstractMap!Next \/ UNCHANGED MapVars
  OBVIOUS
<1>1. IsMap(MapOf, h)
  BY MapNow DEF MapExact
<1>2. PICK s, n : Sound(h, s, n)
  BY DEF HashInv
<1>3. Distinct(h)
  BY <1>2 DEF Sound
<1>4. ASSUME HashInv', h' = h PROVE MapOf' = MapOf
  <2>1. IsMap(MapOf', h)
    BY <1>4, MapNext
  <2>2. PICK m, w : m = MapOf /\ w = MapOf'
    OBVIOUS
  <2>3. IsMap(m, h) /\ IsMap(w, h)
    BY <1>1, <2>1, <2>2
  <2>4. ASSUME NEW k \in Keyed(h) PROVE m[k] = w[k]
    <3>1. PICK x \in DOMAIN h.elem : k = h.elem[x].key
      BY DEF Keyed
    <3>2. m[h.elem[x].key] = h.elem[x].data /\ w[h.elem[x].key] = h.elem[x].data
      BY <2>3, <3>1 DEF IsMap
    <3> QED
      BY <3>1, <3>2
  <2>5. m = w
    BY <2>3, <2>4 DEF IsMap
  <2> QED
    BY <2>2, <2>5
<1>5. ASSUME NEW k, Tells(h, k, found') PROVE found' = AbstractMap!Old(k)
  BY <1>1, <1>5, MapTells DEF AbstractMap!Old
<1>6. CASE HashNext
  <2>1. HashInv' /\ Outcome
    BY <1>6, HashStep
  <2>2. PICK w : w = MapOf'
    OBVIOUS
  <2>3. IsMap(w, h')
    BY <2>1, <2>2, MapNext
  <2>4. ASSUME NEW k \in Keys, Tells(h, k, found'), h' = h PROVE AbstractMap!Next
    <3>1. AbstractMap!Find(k)
      BY <1>4, <1>5, <2>1, <2>4 DEF AbstractMap!Find
    <3> QED
      BY <3>1 DEF AbstractMap!Next
  <2>5. ASSUME NEW k \in Keys, NEW e \in DOMAIN h.elem,
               Tells(h, k, found'), h.elem[e].key = k, Deleted(h', h, e)
        PROVE  AbstractMap!Next
    <3>1. w = [j \in DOMAIN MapOf \ {k} |-> MapOf[j]]
      <4>1. PICK m, t, u : m = MapOf /\ t = h /\ u = h'
        OBVIOUS
      <4>2. IsMap(m, t) /\ Distinct(t) /\ IsMap(w, u) /\ e \in DOMAIN t.elem /\ Deleted(u, t, e)
            /\ t.elem[e].key = k
        BY <1>1, <1>3, <2>3, <2>5, <4>1
      <4>3. w = [j \in DOMAIN m \ {k} |-> m[j]]
        BY <4>2, MapGone
      <4> QED
        BY <4>1, <4>3
    <3>2. AbstractMap!Remove(k)
      BY <1>5, <2>2, <2>5, <3>1 DEF AbstractMap!Remove
    <3> QED
      BY <3>2 DEF AbstractMap!Next
  <2>6. ASSUME NEW k \in Keys, NEW d \in Data, NEW e \in Elems,
               Tells(h, k, found'), Has(h', h, e, k, d)
        PROVE  AbstractMap!Next
    <3>1. w = [j \in DOMAIN MapOf \cup {k} |-> IF j = k THEN d ELSE MapOf[j]]
      <4>1. PICK m, t, u : m = MapOf /\ t = h /\ u = h'
        OBVIOUS
      <4>2. IsMap(m, t) /\ IsMap(w, u) /\ Has(u, t, e, k, d)
        BY <1>1, <2>3, <2>6, <4>1
      <4>3. w = WithKey(m, k, d)
        BY <4>2, MapHas
      <4> QED
        BY <4>1, <4>3 DEF WithKey
    <3>2. AbstractMap!Put(k, d)
      BY <1>5, <2>2, <2>6, <3>1 DEF AbstractMap!Put
    <3> QED
      BY <3>2 DEF AbstractMap!Next
  <2>7. ASSUME NEW k \in Keys, NEW d \in Data,
               found' = d, h' = h, \A x \in DOMAIN h.elem : h.elem[x].key # k
        PROVE  AbstractMap!Next
    <3>1. k \notin DOMAIN MapOf
      BY <1>1, <2>7 DEF IsMap, Keyed
    <3>2. AbstractMap!NoMemory(k, d)
      BY <1>4, <2>1, <2>7, <3>1 DEF AbstractMap!NoMemory
    <3> QED
      BY <3>2 DEF AbstractMap!Next
  <2>8. CASE h' = Empty /\ found' = found
    <3>1. Keyed(h') = {}
      BY <2>8, EmptySound DEF Keyed
    <3>2. w = <<>>
      BY <2>3, <3>1 DEF IsMap
    <3>3. AbstractMap!Clear
      BY <2>2, <2>8, <3>2 DEF AbstractMap!Clear
    <3> QED
      BY <3>3 DEF AbstractMap!Next
  <2> QED
    BY <2>1, <2>4, <2>5, <2>6, <2>7, <2>8 DEF Outcome
<1>7. CASE UNCHANGED hashVars
  <2>1. h' = h /\ UNCHANGED code /\ found' = found
    BY <1>7 DEF hashVars
  <2>2. HashInv'
    BY <1>2, <2>1, InvNext DEF HashInv
  <2> QED
    BY <1>4, <2>1, <2>2 DEF MapVars
<1> QED
  BY <1>6, <1>7

(* hashFind and hashInsert answer as a map from keys to data does, and no  *)
(* assertion of theirs fails.                                              *)
THEOREM MapRefinement == HashSpec => ImplementsMap
<1>1. HashInit => AbstractMap!Init
  BY MapInit
<1>2. HashInv /\ [HashNext]_hashVars => [AbstractMap!Next]_<<MapOf, found>>
  BY MapStep DEF MapVars
<1> QED
  BY <1>1, <1>2, HashInvariance, PTL DEF HashSpec, ImplementsMap, AbstractMap!Spec
=============================================================================
