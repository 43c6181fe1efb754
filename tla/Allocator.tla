----------------------------- MODULE Allocator ------------------------------
(***************************************************************************)
(* The allocator of src/libcu.ext/alloc.cu with its statistics (status.cu):*)
(* blocks of the heap, buffers from the scratch memory of the              *)
(* configuration, the soft limit, and the counters that other code asks.   *)
(* Every operation works on the counters under one mutex, except that      *)
(* allocAlarm gives it up between the test of the limit and the allocation,*)
(* and scratchAlloc before and after it takes a block from the heap.       *)
(* What is done under the mutex without giving it up is one step.          *)
(*                                                                         *)
(* Statistics are on (_runtimeConfig.memstat), and releasing memory does   *)
(* nothing (ENABLE_MEMORY_MANAGEMENT is not defined).                      *)
(***************************************************************************)
EXTENDS NullPointer, CallingThreads, Integers, FiniteSetsExt, SequencesExt

CONSTANTS
  Blocks,        (* names for the blocks of the heap                        *)
  Scratch,       (* _runtimeConfig.scratchs: scratch buffers                *)
  ScratchSize,   (* _runtimeConfig.scratchSize                              *)
  Sizes,         (* the sizes asked for                                     *)
  Unit,          (* 8: the heap rounds sizes up to multiples of it          *)
  Limits,        (* the values of the soft limit, 0 among them: none        *)
  LongWord       (* 2^64: alarmThreshold - fullSize is unsigned             *)

ASSUME AllocSizes ==
  /\ Scratch \in Nat /\ Unit \in Nat \ {0} /\ LongWord \in Nat
  /\ Sizes \subseteq Nat \ {0} /\ 0 \in Limits /\ Limits \subseteq Nat

VARIABLES
  heap,         (* the size of each block that is allocated                 *)
  forScratch,   (* the blocks scratchAlloc took from the heap               *)
  free,         (* mem0.scratchFree: the list of unused scratch buffers     *)
  lent,         (* the scratch buffers that callers hold                    *)
  limit,        (* mem0.alarmThreshold                                      *)
  nearlyFull,   (* mem0.nearlyFull                                          *)
  stat,         (* the current and highest values of status.cu              *)
  job           (* what each thread is in the middle of                     *)

allocVars == <<heap, forScratch, free, lent, limit, nearlyFull, stat, job>>

Slots == 1..Scratch
Roundup(s) == ((s + Unit - 1) \div Unit) * Unit

Done == [is |-> "none"]
Finish(t) == job' = [job EXCEPT ![t] = Done]

(* status_inc, status_dec: now is unsigned. *)
Inc(s, op, n) ==
  LET sum == (s.now[op] + n) % LongWord
  IN  [s EXCEPT !.now[op] = sum, !.max[op] = IF sum > @ THEN sum ELSE @]
Dec(s, op, n) == [s EXCEPT !.now[op] = (@ - n) % LongWord]
Used == stat.now.used

---------------------------------------------------------------------------
(* Allocation. *)

(* The heap has a block of size s for thread t, or has not. *)
Take(b, s) == heap' = [x \in DOMAIN heap \cup {b} |-> IF x = b THEN s ELSE heap[x]]
Counted(st, s) == Inc(Inc(st, "used", s), "count", 1)

(* A block that scratchAlloc asks for has to be counted once more. *)
Grant(t, s, for) ==
  \/ /\ \E b \in Blocks \ DOMAIN heap :
          /\ Take(b, s)
          /\ IF for = "scratch"
             THEN forScratch' = forScratch \cup {b} /\ job' = [job EXCEPT ![t] = [is |-> "overflow", block |-> b]]
             ELSE UNCHANGED forScratch /\ Finish(t)
     /\ stat' = Counted(stat, s)
  \/ UNCHANGED <<heap, forScratch, stat>> /\ Finish(t)

(* The test of the limit: the difference wraps for a request above it. *)
Alarm(s) == limit > 0 /\ Used >= (limit - s) % LongWord

(* allocWithAlarm, called by alloc or by scratchAlloc.  With an alarm the  *)
(* mutex is given up.                                                      *)
allocWithAlarm(t, s, for) ==
  /\ nearlyFull' = IF limit > 0 THEN Alarm(s) ELSE nearlyFull
  /\ IF Alarm(s)
     THEN job' = [job EXCEPT ![t] = [is |-> "alloc", size |-> s, for |-> for]]
          /\ UNCHANGED <<heap, forScratch, stat>>
     ELSE Grant(t, s, for)

alloc(t, n) ==
  /\ job[t] = Done /\ allocWithAlarm(t, Roundup(n), "heap")
  /\ UNCHANGED <<free, lent, limit>>

AllocResumed(t) ==
  /\ job[t].is = "alloc" /\ Grant(t, job[t].size, job[t].for)
  /\ UNCHANGED <<free, lent, limit, nearlyFull>>

(* Blocks that their threads may free or resize: not those in the middle   *)
(* of an operation.                                                        *)
Busy == {job[t].block : t \in {t \in Threads : job[t].is \in {"overflow", "realloc", "retry"}}}

Gone(b) == heap' = [x \in DOMAIN heap \ {b} |-> heap[x]]

mfree(t, b) ==
  /\ job[t] = Done /\ b \in DOMAIN heap \ (forScratch \cup Busy)
  /\ stat' = Dec(Dec(stat, "used", heap[b]), "count", 1)
  /\ Gone(b) /\ UNCHANGED <<forScratch, free, lent, limit, nearlyFull, job>>

---------------------------------------------------------------------------
(* Resizing: a test of the limit, the attempt, and if that fails under a   *)
(* limit one more, each after the mutex may have been given up.            *)

(* Faulty variant: the growth is counted as if the block were new. *)
ResizedAnew(t, b, s) ==
  /\ heap' = [heap EXCEPT ![b] = s]
  /\ stat' = Inc(stat, "used", s)
  /\ Finish(t)

Resized(t, b, s) ==
  /\ heap' = [heap EXCEPT ![b] = s]
  /\ stat' = IF s >= heap[b] THEN Inc(stat, "used", s - heap[b])
                             ELSE Dec(stat, "used", heap[b] - s)
  /\ Finish(t)

Kept(t) == UNCHANGED <<heap, stat>> /\ Finish(t)

Attempt(t, b, s) ==
  \/ Resized(t, b, s)
  \/ limit = 0 /\ Kept(t)
  \/ /\ limit > 0 /\ UNCHANGED <<heap, stat>>
     /\ job' = [job EXCEPT ![t] = [is |-> "retry", block |-> b, size |-> s]]

allocRealloc(t, b, n) ==
  LET s == Roundup(n) IN
  /\ job[t] = Done /\ b \in DOMAIN heap \ (forScratch \cup Busy) /\ heap[b] # s
  /\ IF s > heap[b] /\ limit > 0 /\ Used >= limit - (s - heap[b])
     THEN job' = [job EXCEPT ![t] = [is |-> "realloc", block |-> b, size |-> s]]
          /\ UNCHANGED <<heap, stat>>
     ELSE Attempt(t, b, s)
  /\ UNCHANGED <<forScratch, free, lent, limit, nearlyFull>>

ReallocResumed(t) ==
  /\ job[t].is = "realloc" /\ Attempt(t, job[t].block, job[t].size)
  /\ UNCHANGED <<forScratch, free, lent, limit, nearlyFull>>

ReallocRetried(t) ==
  /\ job[t].is = "retry"
  /\ Resized(t, job[t].block, job[t].size) \/ Kept(t)
  /\ UNCHANGED <<forScratch, free, lent, limit, nearlyFull>>

---------------------------------------------------------------------------
(* Scratch buffers: from the list, or from the heap when there is none or  *)
(* the request is too large.                                               *)

ScratchFromList(t, n) ==
  /\ job[t] = Done /\ free # <<>> /\ ScratchSize >= n
  /\ free' = Tail(free) /\ lent' = lent \cup {Head(free)} /\ stat' = Inc(stat, "scratch", 1)
  /\ UNCHANGED <<heap, forScratch, limit, nearlyFull, job>>

ScratchFromHeap(t, n) ==
  /\ job[t] = Done /\ ~(free # <<>> /\ ScratchSize >= n)
  /\ job' = [job EXCEPT ![t] = [is |-> "scratch", size |-> Roundup(n)]]
  /\ UNCHANGED <<heap, forScratch, free, lent, limit, nearlyFull, stat>>

(* By now there may be a buffer again. *)
ScratchResumed(t) ==
  /\ job[t].is = "scratch" /\ allocWithAlarm(t, job[t].size, "scratch")
  /\ UNCHANGED <<free, lent, limit>>

ScratchOverflow(t) ==
  /\ job[t].is = "overflow" /\ stat' = Inc(stat, "overflow", heap[job[t].block])
  /\ Finish(t) /\ UNCHANGED <<heap, forScratch, free, lent, limit, nearlyFull>>

(* Faulty variant: the buffers behind it are forgotten. *)
ScratchFreeAlone(t, s) ==
  /\ job[t] = Done /\ s \in lent
  /\ free' = <<s>> /\ lent' = lent \ {s} /\ stat' = Dec(stat, "scratch", 1)
  /\ UNCHANGED <<heap, forScratch, limit, nearlyFull, job>>

ScratchFreeSlot(t, s) ==
  /\ job[t] = Done /\ s \in lent
  /\ free' = <<s>> \o free /\ lent' = lent \ {s} /\ stat' = Dec(stat, "scratch", 1)
  /\ UNCHANGED <<heap, forScratch, limit, nearlyFull, job>>

ScratchFreeBlock(t, b) ==
  /\ job[t] = Done /\ b \in forScratch \ Busy
  /\ stat' = Dec(Dec(Dec(stat, "overflow", heap[b]), "used", heap[b]), "count", 1)
  /\ Gone(b) /\ forScratch' = forScratch \ {b}
  /\ UNCHANGED <<free, lent, limit, nearlyFull, job>>

---------------------------------------------------------------------------
alloc_softheaplimit64(t, n) ==
  /\ job[t] = Done
  /\ limit' = n /\ nearlyFull' = (n > 0 /\ n <= Used)
  /\ UNCHANGED <<heap, forScratch, free, lent, stat, job>>

(* status64 with resetFlag. *)
status64(op) ==
  /\ stat' = [stat EXCEPT !.max[op] = stat.now[op]]
  /\ UNCHANGED <<heap, forScratch, free, lent, limit, nearlyFull, job>>

Ops == {"used", "count", "scratch", "overflow"}

AllocInit ==
  /\ heap = <<>> /\ forScratch = {} /\ free = [s \in Slots |-> s] /\ lent = {}
  /\ limit = 0 /\ nearlyFull = FALSE
  /\ stat = [now |-> [op \in Ops |-> 0], max |-> [op \in Ops |-> 0]]
  /\ job = [t \in Threads |-> Done]

AllocNext ==
  \/ \E t \in Threads :
       \/ \E n \in Sizes : \/ alloc(t, n) \/ ScratchFromList(t, n) \/ ScratchFromHeap(t, n)
                           \/ \E b \in DOMAIN heap : allocRealloc(t, b, n)
       \/ \E b \in DOMAIN heap : mfree(t, b) \/ ScratchFreeBlock(t, b)
       \/ AllocResumed(t) \/ ReallocResumed(t) \/ ReallocRetried(t)
       \/ ScratchResumed(t) \/ ScratchOverflow(t)
       \/ \E s \in Slots : ScratchFreeSlot(t, s)
       \/ \E n \in Limits : alloc_softheaplimit64(t, n)
  \/ \E op \in Ops : status64(op)

AllocSpec == AllocInit /\ [][AllocNext]_allocVars

---------------------------------------------------------------------------
(* Properties. *)

SizeOf(B) == MapThenSumSet(LAMBDA b : heap[b], B)
Uncounted == {job[t].block : t \in {t \in Threads : job[t].is = "overflow"}}

(* The counters tell what is allocated: whenever the mutex is free, also   *)
(* while a thread waits for it in the middle of an operation, they are the *)
(* sizes and numbers of the blocks and buffers that are out, no counter    *)
(* has gone below zero, and the highest value is no lower than the current.*)
StatsExact ==
  /\ stat.now = [used |-> SizeOf(DOMAIN heap), count |-> Cardinality(DOMAIN heap),
                 scratch |-> Cardinality(lent), overflow |-> SizeOf(forScratch \ Uncounted)]
  /\ \A op \in Ops : stat.max[op] >= stat.now[op]

(* A scratch buffer is in the list, once, or with one caller. *)
ScratchExact ==
  /\ {free[i] : i \in DOMAIN free} = Slots \ lent
  /\ Len(free) = Cardinality(Slots \ lent)
=============================================================================
