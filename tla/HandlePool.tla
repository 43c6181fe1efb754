----------------------------- MODULE HandlePool -----------------------------
(***************************************************************************)
(* The handle pools of libcu: host pointers (crtdefscu.cu), streams        *)
(* (stdiocu.cu) and files (fsystem.cu) are each a static array of objects  *)
(* and a circular buffer of references to them.  A get takes the reference *)
(* at freePtr, a free puts one at retnPtr; both pointers only move forward.*)
(* A reference nobody has written yet stands for the object of its own     *)
(* index.  Every device thread of a kernel may call any of them.           *)
(*                                                                         *)
(* One unit of a pointer stands for the size of one reference; the         *)
(* pointers are 64 bits wide and do not wrap in the life of a program.     *)
(***************************************************************************)
EXTENDS NullPointer, Naturals

CONSTANTS
  Threads,     (* device threads                                           *)
  Size,        (* CORE_MAXHOSTPTR, or CORE_MAXFILESTREAM                   *)
  MaxGets,     (* bound on the gets of a behaviour                         *)
  Capacity,    (* handles the program holds at once, at most               *)
  Serialized,  (* TRUE: callers never let two calls overlap                *)
  ByPlace      (* TRUE: fileGet, whose handle is the place of a reference  *)

Objects == 0 .. Size - 1

ASSUME PoolAssumption ==
  /\ Size \in Nat \ {0}
  /\ MaxGets \in Nat
  /\ Capacity \in Nat
  /\ Serialized \in BOOLEAN
  /\ ByPlace \in BOOLEAN
  /\ Null \notin Objects

VARIABLES
  freePtr,  (* gets so far: __iob_freeDevicePtr, ...StreamPtr, ...FilePtr  *)
  retnPtr,  (* frees so far: __iob_retnDevicePtr, ...                      *)
  refs,     (* the circular buffer: __iob_hostRefs, ...                    *)
  out,      (* history: how often each handle is in its users' hands       *)
  pc,       (* where each thread is in its call                            *)
  place,    (* the index its call works on: offset / sizeof(ref)           *)
  obj       (* the object its call works on                                *)

poolVars == <<freePtr, retnPtr, refs, out, pc, place, obj>>

(* Mutants are faulty variants of the definition they precede; the run's   *)
(* properties are tested on them.                                          *)

(* Mutant: the place of a reference is held at the end. *)
PlaceClamped(ptr) == IF ptr < Size THEN ptr ELSE Size - 1

PlaceOf(ptr) == ptr % Size

(* Gets that have not been matched by a free. *)
Outstanding == freePtr - retnPtr

-----------------------------------------------------------------------------
PoolInit ==
  /\ freePtr = 0 /\ retnPtr = 0
  /\ refs = [p \in Objects |-> Null]
  /\ out = [h \in Objects |-> 0]
  /\ pc = [t \in Threads |-> "idle"]
  /\ place = [t \in Threads |-> 0]
  /\ obj = [t \in Threads |-> Null]

Goto(t, label) == pc' = [pc EXCEPT ![t] = label]

(* A thread is free to call; a serialized program has no other call open. *)
CanCall(t) ==
  /\ pc[t] = "idle"
  /\ Serialized => \A u \in Threads : pc[u] = "idle"

Deliver(h) == out' = [out EXCEPT ![h] = @ + 1]

-----------------------------------------------------------------------------
(* __hostptrGet, streamGet and fileGet *)

(* atomicAdd on the free pointer. *)
GetReserve(t) ==
  /\ CanCall(t)
  /\ freePtr < MaxGets /\ Outstanding < Capacity
  /\ place' = [place EXCEPT ![t] = PlaceOf(freePtr)]
  /\ freePtr' = freePtr + 1
  /\ Goto(t, "read")
  /\ UNCHANGED <<retnPtr, refs, out, obj>>

(* The reference at the place is there: its object is handed out. *)
GetRef(t) ==
  /\ pc[t] = "read"
  /\ refs[place[t]] # Null
  /\ Deliver(IF ByPlace THEN place[t] ELSE refs[place[t]])
  /\ Goto(t, "idle")
  /\ UNCHANGED <<freePtr, retnPtr, refs, place, obj>>

(* No reference was ever written here ... *)
GetNull(t) ==
  /\ pc[t] = "read"
  /\ refs[place[t]] = Null
  /\ Goto(t, "fresh")
  /\ UNCHANGED <<freePtr, retnPtr, refs, out, place, obj>>

(* ... so the object of this index is handed out, its reference written. *)
GetFresh(t) ==
  /\ pc[t] = "fresh"
  /\ refs' = [refs EXCEPT ![place[t]] = place[t]]
  /\ Deliver(place[t])
  /\ Goto(t, "idle")
  /\ UNCHANGED <<freePtr, retnPtr, place, obj>>

Get(t) == GetReserve(t) \/ GetRef(t) \/ GetNull(t) \/ GetFresh(t)

-----------------------------------------------------------------------------
(* __hostptrFree, streamFree and fileFree *)

(* atomicAdd on the return pointer. *)
ReturnOf(t, o) ==
  /\ place' = [place EXCEPT ![t] = PlaceOf(retnPtr)]
  /\ obj' = [obj EXCEPT ![t] = o]
  /\ retnPtr' = retnPtr + 1

(* The object of handle h is h: GETFILE(fd) undoes GETFD(offsetId). *)
FreeReserve(t, h) ==
  /\ CanCall(t)
  /\ out[h] > 0
  /\ out' = [out EXCEPT ![h] = @ - 1]
  /\ ReturnOf(t, h)
  /\ Goto(t, "put")
  /\ UNCHANGED <<freePtr, refs>>

(* Mutant: the author of the reference is written, the reference is not. *)
FreeForgets(t) ==
  /\ pc[t] = "put"
  /\ Goto(t, "idle")
  /\ UNCHANGED <<freePtr, retnPtr, refs, out, place, obj>>

(* writeHostRef, writeStreamRef, writeFileRef *)
FreePut(t) ==
  /\ pc[t] = "put"
  /\ refs' = [refs EXCEPT ![place[t]] = obj[t]]
  /\ Goto(t, "idle")
  /\ UNCHANGED <<freePtr, retnPtr, out, place, obj>>

Free(t) == (\E h \in Objects : FreeReserve(t, h)) \/ FreePut(t)

-----------------------------------------------------------------------------
PoolNext == \E t \in Threads : Get(t) \/ Free(t)

PoolSpec == PoolInit /\ [][PoolNext]_poolVars

-----------------------------------------------------------------------------
PoolTypeOK ==
  /\ freePtr \in 0 .. MaxGets /\ retnPtr \in Nat
  /\ refs \in [Objects -> Objects \cup {Null}]
  /\ out \in [Objects -> Nat]
  /\ pc \in [Threads -> {"idle", "read", "fresh", "put"}]
  /\ place \in [Threads -> Objects]
  /\ obj \in [Threads -> Objects \cup {Null}]

(* An open that succeeds creates a new stream, descriptor or host pointer: *)
(* no handle is handed out while a user still holds it.                    *)
NoSharing == \A h \in Objects : out[h] <= 1

(* The object a get finds at place p. *)
Content(p) == IF refs[p] = Null THEN p ELSE refs[p]

(* Between calls, the gets to come find exactly the objects nobody holds:  *)
(* none is lost from the buffer and none is in it that is still in use.    *)
NoHandleLost ==
  (\A t \in Threads : pc[t] = "idle") =>
    {Content(PlaceOf(i)) : i \in freePtr .. retnPtr + Size - 1}
      = {h \in Objects : out[h] = 0}

P == INSTANCE Pool WITH holders <- out

(* Serialized calls for at most Size handles implement a pool of objects.  *)
ImplementsPool == P!Spec
=============================================================================
