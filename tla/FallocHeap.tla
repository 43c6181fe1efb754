----------------------------- MODULE FallocHeap -----------------------------
(***************************************************************************)
(* The chunk heap of libcu.falloc: a circular buffer of references to the  *)
(* free chunks.  A get empties the reference at freeChunkPtr and marks the *)
(* chunk's header with FALLOC_MAGIC, a free writes the reference at        *)
(* retnChunkPtr and clears the mark.                                       *)
(*                                                                         *)
(* The two pointers are 64 bits wide, but are added to as unsigned int:    *)
(* only their low word moves, and the offset into the buffer is the low    *)
(* word minus the full address of the buffer, as a size_t, modulo the      *)
(* length of the buffer.  All in units of sizeof(fallocChunkRef).          *)
(***************************************************************************)
EXTENDS NullPointer, CallingThreads, Integers

CONSTANTS
  Size,        (* chunks of the heap: chunkRefsLength in references        *)
  Word,        (* values of an unsigned int                                *)
  Wide,        (* values of a size_t                                       *)
  Base,        (* the address of chunkRefs                                 *)
  MaxGets,     (* bound on the gets of a behaviour, if it is below Word    *)
  Capacity,    (* chunks the program holds at once, at most                *)
  Serialized,  (* TRUE: callers never let two calls overlap                *)
  DoubleFrees  (* TRUE: callers also free chunks that nobody holds, or     *)
               (* that another one has got                                 *)

Chunks == 0 .. Size - 1

ASSUME HeapAssumption ==
  /\ Size \in Nat \ {0}
  /\ Word \in Nat \ {0}
  /\ Wide \in Nat \ {0} /\ Wide % Word = 0
  /\ Base \in 0 .. Wide - 1
  /\ MaxGets \in Nat
  /\ Capacity \in Nat
  /\ Serialized \in BOOLEAN
  /\ DoubleFrees \in BOOLEAN
  /\ Null \notin Chunks \cup Threads

VARIABLES
  freePtr,  (* the low word of freeChunkPtr                                *)
  retnPtr,  (* the low word of retnChunkPtr                                *)
  refs,     (* chunkRefs                                                   *)
  magic,    (* fallocChunkHeader.magic = FALLOC_MAGIC, for every chunk     *)
  out,      (* history: how often each chunk is in its users' hands        *)
  user,     (* history: who has got it last                                *)
  stale,    (* history: somebody has freed a chunk that another one has got*)
  pc,       (* where each thread is in its call                            *)
  place,    (* the index of chunkRefs its call works on                    *)
  chunk,    (* the chunk its call works on                                 *)
  halted    (* the kernel has been stopped by a trap or a fault            *)

vars == <<freePtr, retnPtr, refs, magic, out, user, stale, pc, place, chunk, halted>>

Low == Base % Word

(* Mutants are faulty variants of the definition they precede; the run's   *)
(* properties are tested on them.                                          *)

(* atomicAdd of one reference on the low word. *)
Add(ptr) == (ptr + 1) % Word

(* offset = (size_t)low word - (size_t)chunkRefs, modulo chunkRefsLength. *)
PlaceOf(ptr) == ((ptr - Base) % Wide) % Size

(* The number of steps of Add from low word p to low word q. *)
Ahead(p, q) == (q - p) % Word

Init ==
  /\ freePtr = Low /\ retnPtr = Low
  /\ refs = [p \in Chunks |-> p]
  /\ magic = [c \in Chunks |-> FALSE]
  /\ out = [c \in Chunks |-> 0]
  /\ user = [c \in Chunks |-> Null] /\ stale = FALSE
  /\ pc = [t \in Threads |-> "idle"]
  /\ place = [t \in Threads |-> 0]
  /\ chunk = [t \in Threads |-> Null]
  /\ halted = FALSE

Goto(t, label) == pc' = [pc EXCEPT ![t] = label]

CanCall(t) ==
  /\ ~halted /\ pc[t] = "idle"
  /\ Serialized => \A u \in Threads : pc[u] = "idle"

-----------------------------------------------------------------------------
(* fallocGetChunk *)

GetReserve(t) ==
  /\ CanCall(t)
  /\ Ahead(Low, freePtr) < MaxGets /\ Ahead(retnPtr, freePtr) < Capacity
  /\ place' = [place EXCEPT ![t] = PlaceOf(freePtr)]
  /\ freePtr' = Add(freePtr)
  /\ Goto(t, "take")
  /\ UNCHANGED <<retnPtr, refs, magic, out, user, stale, chunk, halted>>

GetTake(t) ==
  /\ ~halted /\ pc[t] = "take"
  /\ chunk' = [chunk EXCEPT ![t] = refs[place[t]]]
  /\ Goto(t, "mark")
  /\ UNCHANGED <<freePtr, retnPtr, refs, magic, out, user, stale, place, halted>>

(* Mutant: the header is left as it is. *)
GetMarkForgets(t) ==
  /\ ~halted /\ pc[t] = "mark"
  /\ chunk[t] # Null
  /\ Goto(t, "clear")
  /\ UNCHANGED <<freePtr, retnPtr, refs, magic, out, user, stale, place, chunk, halted>>

(* writeChunkHeader *)
GetMark(t) ==
  /\ ~halted /\ pc[t] = "mark"
  /\ chunk[t] # Null
  /\ magic' = [magic EXCEPT ![chunk[t]] = TRUE]
  /\ Goto(t, "clear")
  /\ UNCHANGED <<freePtr, retnPtr, refs, out, user, stale, place, chunk, halted>>

(* There is no chunk at this place: the header is written at address 0. *)
GetFault(t) ==
  /\ ~halted /\ pc[t] = "mark"
  /\ chunk[t] = Null
  /\ halted' = TRUE
  /\ UNCHANGED <<freePtr, retnPtr, refs, magic, out, user, stale, pc, place, chunk>>

GetClear(t) ==
  /\ ~halted /\ pc[t] = "clear"
  /\ refs' = [refs EXCEPT ![place[t]] = Null]
  /\ out' = [out EXCEPT ![chunk[t]] = @ + 1]
  /\ user' = [user EXCEPT ![chunk[t]] = t]
  /\ Goto(t, "idle")
  /\ UNCHANGED <<freePtr, retnPtr, magic, stale, place, chunk, halted>>

Get(t) ==
  \/ GetReserve(t) \/ GetTake(t) \/ GetMark(t) \/ GetFault(t) \/ GetClear(t)

-----------------------------------------------------------------------------
(* fallocFreeChunk *)

MayFree(t, c) == CanCall(t) /\ ((out[c] > 0 /\ user[c] = t) \/ DoubleFrees)

(* History: the chunk leaves its user's hands. *)
Return(t, c) ==
  /\ out' = [out EXCEPT ![c] = IF @ > 0 THEN @ - 1 ELSE 0]
  /\ user' = [user EXCEPT ![c] = Null]
  /\ stale' = (stale \/ (out[c] > 0 /\ user[c] # t))

(* Mutant: the header is not looked at. *)
FreeReserveUnchecked(t, c) ==
  /\ MayFree(t, c)
  /\ Return(t, c)
  /\ place' = [place EXCEPT ![t] = PlaceOf(retnPtr)]
  /\ retnPtr' = Add(retnPtr)
  /\ chunk' = [chunk EXCEPT ![t] = c]
  /\ Goto(t, "put")
  /\ UNCHANGED <<freePtr, refs, magic, halted>>

FreeReserve(t, c) ==
  /\ MayFree(t, c)
  /\ magic[c]
  /\ Return(t, c)
  /\ place' = [place EXCEPT ![t] = PlaceOf(retnPtr)]
  /\ retnPtr' = Add(retnPtr)
  /\ chunk' = [chunk EXCEPT ![t] = c]
  /\ Goto(t, "put")
  /\ UNCHANGED <<freePtr, refs, magic, halted>>

(* bad magic: __THROW *)
FreeThrows(t, c) ==
  /\ MayFree(t, c)
  /\ ~magic[c]
  /\ halted' = TRUE
  /\ UNCHANGED <<freePtr, retnPtr, refs, magic, out, user, stale, pc, place, chunk>>

(* Mutant: no reference is written. *)
FreePutForgets(t) ==
  /\ ~halted /\ pc[t] = "put"
  /\ Goto(t, "unmark")
  /\ UNCHANGED <<freePtr, retnPtr, refs, magic, out, user, stale, place, chunk, halted>>

(* writeChunkRef: from here on another get can find the chunk ... *)
FreePut(t) ==
  /\ ~halted /\ pc[t] = "put"
  /\ refs' = [refs EXCEPT ![place[t]] = chunk[t]]
  /\ Goto(t, "unmark")
  /\ UNCHANGED <<freePtr, retnPtr, magic, out, user, stale, place, chunk, halted>>

(* ... and only now is its mark cleared. *)
FreeUnmark(t) ==
  /\ ~halted /\ pc[t] = "unmark"
  /\ magic' = [magic EXCEPT ![chunk[t]] = FALSE]
  /\ Goto(t, "idle")
  /\ UNCHANGED <<freePtr, retnPtr, refs, out, user, stale, place, chunk, halted>>

Free(t) ==
  \/ \E c \in Chunks : FreeReserve(t, c) \/ FreeThrows(t, c)
  \/ FreePut(t) \/ FreeUnmark(t)

-----------------------------------------------------------------------------
Next == \E t \in Threads : Get(t) \/ Free(t)

Spec == Init /\ [][Next]_vars

-----------------------------------------------------------------------------
TypeOK ==
  /\ freePtr \in 0 .. Word - 1 /\ retnPtr \in 0 .. Word - 1
  /\ refs \in [Chunks -> Chunks \cup {Null}]
  /\ magic \in [Chunks -> BOOLEAN]
  /\ out \in [Chunks -> Nat]
  /\ user \in [Chunks -> Threads \cup {Null}] /\ stale \in BOOLEAN
  /\ pc \in [Threads -> {"idle", "take", "mark", "clear", "put", "unmark"}]
  /\ place \in [Threads -> Chunks]
  /\ chunk \in [Threads -> Chunks \cup {Null}]
  /\ halted \in BOOLEAN

AllIdle == \A t \in Threads : pc[t] = "idle"

(* Nothing leaves its type, and the kernel is stopped for nothing but      *)
(* misuse: a get finds no chunk only when all are in use, and a free is    *)
(* rejected - the mark is missing - exactly for the chunks not in use.     *)
HaltsOnMisuse ==
  /\ TypeOK
  /\ (\E t \in Threads : pc[t] = "mark" /\ chunk[t] = Null)
       => \A c \in Chunks : out[c] = 1
  /\ AllIdle => \A c \in Chunks : magic[c] <=> out[c] = 1

(* The buffer is completely used: between calls every chunk nobody holds   *)
(* is found by one of the coming gets, and no chunk in use is.             *)
CompletelyUsed ==
  (~halted /\ AllIdle) =>
    {refs[PlaceOf(freePtr + i)] : i \in 0 .. Size - 1 - Ahead(retnPtr, freePtr)}
      = {c \in Chunks : out[c] = 0}

P == INSTANCE OwnedPool WITH
       Objects <- Chunks, Users <- Threads, None <- Null,
       holders <- out, owner <- user, broken <- stale

(* Serialized calls implement a pool of chunks, also for callers that ask  *)
(* for more chunks than there are or free what nobody holds: these stop    *)
(* the kernel before they take an object from another user.  It ends when  *)
(* a caller frees what another one has got since: the mark is there, and   *)
(* fallocFreeChunk cannot tell.                                            *)
ImplementsPool == P!Spec

-----------------------------------------------------------------------------
(* A claim of the code that fails in a long run.                           *)

(* falloc.cu:32, :33: a pointer is an "atomically-incremented non-wrapped  *)
(* offset": each step of it moves its place on by one.  It is not so where *)
(* its low word wraps, unless Word is a multiple of Size.                  *)
NonWrapped ==
  [][/\ freePtr' # freePtr => PlaceOf(freePtr') = (PlaceOf(freePtr) + 1) % Size
     /\ retnPtr' # retnPtr => PlaceOf(retnPtr') = (PlaceOf(retnPtr) + 1) % Size]_vars
=============================================================================
