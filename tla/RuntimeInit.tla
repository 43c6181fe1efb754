---------------------------- MODULE RuntimeInit -----------------------------
(***************************************************************************)
(* runtimeInitialize and runtimeShutdown of src/libcu.ext/main.cu, called  *)
(* by several threads, with mutexInitialize of mutex.cu and the Windows    *)
(* mutexes under it (mutex-win.cpp).  The first caller brings the library  *)
(* up under a mutex made for the purpose, initMutex, that exists only as   *)
(* long as a caller counts on it; the count is kept under the static       *)
(* master mutex, which has to be set up before it, by whoever comes first. *)
(*                                                                         *)
(* The code reads isInit, the mutex methods and the pointer initMutex      *)
(* without a lock: every such read is a step of its own.  Shutdown is      *)
(* called when no call is under way, as its comment (main.cu:217-218) asks.*)
(***************************************************************************)
EXTENDS NullPointer, Integers, FiniteSets

CONSTANTS
  Threads,
  Mutexes,    (* the blocks mutexAlloc has for dynamic mutexes      *)
  MaxFails    (* bound: allocations that fail                       *)

ASSUME RuntimeConstants ==
  /\ IsFiniteSet(Threads) /\ MaxFails \in Nat
  /\ Null \notin Threads \cup Mutexes \cup {"master"} /\ "master" \notin Mutexes

VARIABLES
  config,      (* _runtimeConfig: isInit, isMallocInit, initMutex, refs      *)
  methods,     (* __mutexsystem: "none", "partial" (all but alloc), "all"    *)
  mutexLock,   (* _mutexLock of mutex-win.cpp                                *)
  statics,     (* the static critical sections are set up                    *)
  mutexIsInit, (* ... and known to be                                        *)
  owner,       (* who is in the master mutex and in each dynamic one (Null:  *)
               (* nobody); a dynamic mutex is in its domain while allocated  *)
  fails,       (* allocations that have failed                               *)
  pc,          (* where each thread is in the code                           *)
  reply        (* what its latest call returned                              *)

config_of == <<methods, mutexLock, statics, mutexIsInit>>
rtVars == <<config, config_of, owner, fails, pc, reply>>

Down == [isInit |-> FALSE, isMallocInit |-> FALSE, initMutex |-> Null, refs |-> 0]

Goto(t, l) == pc' = [pc EXCEPT ![t] = l] /\ UNCHANGED reply
Return(t, rc) == pc' = [pc EXCEPT ![t] = "out"] /\ reply' = [reply EXCEPT ![t] = rc]

Enter(t, m) == owner[m] = Null /\ owner' = [owner EXCEPT ![m] = t]
Release(m) == [owner EXCEPT ![m] = Null]

---------------------------------------------------------------------------
Call(t) ==
  /\ pc[t] = "out" /\ Goto(t, "check")
  /\ UNCHANGED <<config, config_of, owner, fails>>

(* Faulty variant: the allocator is up, so the library is. *)
CheckInitMalloc(t) ==
  /\ pc[t] = "check"
  /\ IF config.isMallocInit THEN Return(t, "ok") ELSE Goto(t, "methods")
  /\ UNCHANGED <<config, config_of, owner, fails>>

(* main.cu:104, without a lock. *)
CheckInit(t) ==
  /\ pc[t] = "check"
  /\ IF config.isInit THEN Return(t, "ok") ELSE Goto(t, "methods")
  /\ UNCHANGED <<config, config_of, owner, fails>>

(* mutexInitialize: alloc is looked at and written, last, to tell whether  *)
(* the other methods are there.                                            *)
CheckMethods(t) ==
  /\ pc[t] = "methods"
  /\ Goto(t, IF methods = "all" THEN "lock" ELSE "copy")
  /\ UNCHANGED <<config, config_of, owner, fails>>

CopyMethods(t) ==
  /\ pc[t] = "copy" /\ Goto(t, "alloc")
  /\ methods' = IF methods = "all" THEN "all" ELSE "partial"
  /\ UNCHANGED <<config, mutexLock, statics, mutexIsInit, owner, fails>>

CopyAlloc(t) ==
  /\ pc[t] = "alloc" /\ Goto(t, "lock")
  /\ methods' = "all"
  /\ UNCHANGED <<config, mutexLock, statics, mutexIsInit, owner, fails>>

(* The exchange that elects the thread that sets up the static mutexes. *)
ElectSetup(t) ==
  /\ pc[t] = "lock"
  /\ mutexLock' = 1 /\ Goto(t, IF mutexLock = 0 THEN "setup" ELSE "spin")
  /\ UNCHANGED <<config, methods, statics, mutexIsInit, owner, fails>>

SetupStatics(t) ==
  /\ pc[t] = "setup" /\ Goto(t, "known")
  /\ statics' = TRUE
  /\ UNCHANGED <<config, methods, mutexLock, mutexIsInit, owner, fails>>

SetupKnown(t) ==
  /\ pc[t] = "known" /\ Goto(t, "master")
  /\ mutexIsInit' = TRUE
  /\ UNCHANGED <<config, methods, mutexLock, statics, owner, fails>>

AwaitSetup(t) ==
  /\ pc[t] = "spin" /\ mutexIsInit /\ Goto(t, "master")
  /\ UNCHANGED <<config, config_of, owner, fails>>

EnterMaster(t) ==
  /\ pc[t] = "master" /\ Enter(t, "master") /\ Goto(t, "malloc")
  /\ UNCHANGED <<config, config_of, fails>>

(* Out of the master mutex, with an error. *)
Fail(t) ==
  /\ fails < MaxFails /\ fails' = fails + 1
  /\ owner' = Release("master") /\ Return(t, "failed")
  /\ UNCHANGED config_of

InitMalloc(t) ==
  /\ pc[t] = "malloc"
  /\ \/ ~config.isMallocInit /\ Fail(t) /\ UNCHANGED config
     \/ /\ config' = [config EXCEPT !.isMallocInit = TRUE]
        /\ Goto(t, "make") /\ UNCHANGED <<config_of, owner, fails>>

MakeInitMutex(t) ==
  /\ pc[t] = "make"
  /\ \/ config.initMutex # Null /\ Goto(t, "count") /\ UNCHANGED <<config, config_of, owner, fails>>
     \/ config.initMutex = Null /\ Fail(t) /\ UNCHANGED config
     \/ /\ config.initMutex = Null
        /\ \E m \in Mutexes \ DOMAIN owner :
             /\ config' = [config EXCEPT !.initMutex = m]
             /\ owner' = [x \in DOMAIN owner \cup {m} |-> IF x = m THEN Null ELSE owner[x]]
        /\ Goto(t, "count") /\ UNCHANGED <<config_of, fails>>

Count(t) ==
  /\ pc[t] = "count" /\ Goto(t, "enter")
  /\ config' = [config EXCEPT !.refs = @ + 1]
  /\ owner' = Release("master")
  /\ UNCHANGED <<config_of, fails>>

(* initMutex is read without a lock: the count keeps it in place. *)
EnterInit(t) ==
  /\ pc[t] = "enter" /\ Goto(t, "body")
  /\ Enter(t, config.initMutex)
  /\ UNCHANGED <<config, config_of, fails>>

Body(t) ==
  /\ pc[t] = "body" /\ Goto(t, IF config.isInit THEN "leave" ELSE "set")
  /\ UNCHANGED <<config, config_of, owner, fails>>

SetInit(t) ==
  /\ pc[t] = "set" /\ Goto(t, "leave")
  /\ config' = [config EXCEPT !.isInit = TRUE]
  /\ UNCHANGED <<config_of, owner, fails>>

LeaveInit(t) ==
  /\ pc[t] = "leave" /\ Goto(t, "again")
  /\ owner' = Release(config.initMutex)
  /\ UNCHANGED <<config, config_of, fails>>

EnterMasterAgain(t) ==
  /\ pc[t] = "again" /\ Enter(t, "master") /\ Goto(t, "uncount")
  /\ UNCHANGED <<config, config_of, fails>>

(* Faulty variant: whoever leaves first frees the mutex. *)
UncountFirst(t) ==
  /\ pc[t] = "uncount" /\ Return(t, "ok")
  /\ config' = [config EXCEPT !.refs = @ - 1, !.initMutex = Null]
  /\ owner' = [m \in DOMAIN owner \ {config.initMutex} |-> Release("master")[m]]
  /\ UNCHANGED <<config_of, fails>>

(* Faulty variant: only the last one leaves the master mutex. *)
UncountHolding(t) ==
  /\ pc[t] = "uncount" /\ Return(t, "ok")
  /\ LET last == config.refs = 1 IN
     /\ config' = [config EXCEPT !.refs = @ - 1, !.initMutex = IF last THEN Null ELSE @]
     /\ owner' = IF last THEN [m \in {"master"} |-> Null] ELSE owner
  /\ UNCHANGED <<config_of, fails>>

(* The last one frees the mutex. *)
Uncount(t) ==
  /\ pc[t] = "uncount" /\ Return(t, "ok")
  /\ LET last == config.refs = 1 IN
     /\ config' = [config EXCEPT !.refs = @ - 1, !.initMutex = IF last THEN Null ELSE @]
     /\ owner' = [m \in DOMAIN owner \ (IF last THEN {config.initMutex} ELSE {})
                    |-> Release("master")[m]]
  /\ UNCHANGED <<config_of, fails>>

(* mutexShutdown leaves the methods in place.  The one under it is taken to *)
(* be MutexShutdown (mutex-win.cpp:107), which undoes what mutexInitialize  *)
(* has done there: the table (mutex-win.cpp:302) names mutexShutdown, which *)
(* is the caller of the table itself (mutex.cu:41).                         *)
Shutdown ==
  /\ \A t \in Threads : pc[t] = "out"
  /\ config' = [config EXCEPT !.isInit = FALSE, !.isMallocInit = FALSE]
  /\ mutexLock' = 0 /\ statics' = FALSE /\ mutexIsInit' = FALSE
  /\ UNCHANGED <<methods, owner, fails, pc, reply>>

---------------------------------------------------------------------------
RtInit ==
  /\ config = Down /\ methods = "none" /\ mutexLock = 0
  /\ statics = FALSE /\ mutexIsInit = FALSE
  /\ owner = [m \in {"master"} |-> Null] /\ fails = 0
  /\ pc = [t \in Threads |-> "out"] /\ reply = [t \in Threads |-> "out"]

(* What a thread does once it has called. *)
Proceed(t) ==
  \/ CheckInit(t) \/ CheckMethods(t) \/ CopyMethods(t) \/ CopyAlloc(t)
  \/ ElectSetup(t) \/ SetupStatics(t) \/ SetupKnown(t) \/ AwaitSetup(t)
  \/ EnterMaster(t) \/ InitMalloc(t) \/ MakeInitMutex(t) \/ Count(t)
  \/ EnterInit(t) \/ Body(t) \/ SetInit(t) \/ LeaveInit(t)
  \/ EnterMasterAgain(t) \/ Uncount(t)

RtNext == Shutdown \/ \E t \in Threads : Call(t) \/ Proceed(t)

(* A thread that has called is scheduled; no thread has to call. *)
RtFairness == \A t \in Threads : WF_rtVars(Proceed(t))

RtSpec == RtInit /\ [][RtNext]_rtVars /\ RtFairness

---------------------------------------------------------------------------
(* Properties. *)

InMaster == {"malloc", "make", "count", "uncount"}
Counted == {"enter", "body", "set", "leave", "again", "uncount"}
InInit == {"body", "set", "leave"}
InStatic == {"master"} \cup InMaster \cup Counted
Labels == {"out", "check", "methods", "copy", "alloc", "lock", "setup", "known", "spin"}
            \cup InStatic

At(L) == {t \in Threads : pc[t] \in L}

RtTypeOK ==
  /\ config \in [isInit : BOOLEAN, isMallocInit : BOOLEAN,
                 initMutex : Mutexes \cup {Null}, refs : Nat]
  /\ methods \in {"none", "partial", "all"} /\ mutexLock \in {0, 1}
  /\ statics \in BOOLEAN /\ mutexIsInit \in BOOLEAN /\ fails \in Nat
  /\ owner \in [DOMAIN owner -> Threads \cup {Null}]
  /\ pc \in [Threads -> Labels] /\ reply \in [Threads -> {"out", "ok", "failed"}]

(* initMutex is there as long as a caller counts on it, the only dynamic   *)
(* mutex: none is freed under a caller, and none is left behind.           *)
InitMutexLives ==
  /\ config.refs = Cardinality(At(Counted))
  /\ config.initMutex # Null <=> At(Counted \cup {"count"}) # {}
  /\ DOMAIN owner = {"master"} \cup ({config.initMutex} \ {Null})

(* Who is in a mutex: it is not freed with somebody inside, and the one    *)
(* that is left is the one that was entered.                               *)
InsideOwns ==
  \A t \in Threads :
    /\ pc[t] \in InMaster <=> owner["master"] = t
    /\ config.initMutex # Null => (pc[t] \in InInit <=> owner[config.initMutex] = t)

(* The static mutexes are set up, and all methods there, when one is used. *)
SetUpBeforeUse ==
  /\ mutexIsInit => statics
  /\ \A t \in Threads :
       /\ pc[t] \in {"lock", "setup", "known", "spin"} \cup InStatic => methods = "all"
       /\ pc[t] \in {"known"} \cup InStatic => statics

(* The body runs only for a library that is down, and nobody leaves before *)
(* it is up.                                                               *)
BodyOnce ==
  \A t \in Threads :
    /\ pc[t] = "set" => ~config.isInit
    /\ pc[t] \in {"leave", "again", "uncount"} => config.isInit

(* The inductive invariant: mutexes are set up before they are used, freed *)
(* after the last use, and the body runs once per start.                   *)
RtIInv == RtTypeOK /\ InitMutexLives /\ InsideOwns /\ SetUpBeforeUse /\ BodyOnce

(* The library is brought up once, and "ok" means that it is up. *)
AbstractInit == INSTANCE OnceInit WITH
  up <- config.isInit, caller <- [t \in Threads |-> IF pc[t] = "out" THEN reply[t] ELSE "in"]
ImplementsOnceInit == AbstractInit!Spec

(* Every call returns. *)
EveryCallEnds == \A t \in Threads : pc[t] # "out" ~> pc[t] = "out"
=============================================================================
