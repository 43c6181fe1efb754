----------------------------- MODULE Lookaside ------------------------------
(***************************************************************************)
(* The allocator of one tag (tagbase_t), src/libcu.ext/alloc.cu: small     *)
(* requests are met from a list of slots, the others from the heap.  The   *)
(* first allocation that fails sets mallocFailed, which turns the slots    *)
(* off and makes every later request fail until the end of the outermost   *)
(* call clears it.  A tag is used under its mutex: one operation, one step.*)
(*                                                                         *)
(* The users of a tag, which are not in this repository, nest executions,  *)
(* turn the slots off and on again, declare failures benign and ask to     *)
(* measure instead of to free: external actions.                           *)
(***************************************************************************)
EXTENDS NullPointer, Integers, FiniteSets, SequencesExt

CONSTANTS
  SlotCount,   (* slots setupLookaside has made                 *)
  Heap,        (* names for the blocks alloc has for the tag    *)
  MaxNest      (* bound: nested executions, and nested disables *)

ASSUME LookasideConstants ==
  SlotCount \in Nat \ {0} /\ MaxNest \in Nat /\ Heap \cap 1..SlotCount = {}

VARIABLES
  slots,         (* lookaside.free: the list of unused slots                  *)
  outs,          (* lookaside.outs                                            *)
  disable,       (* lookaside.disable                                         *)
  mallocFailed,
  vdbeExecs,
  isInterrupted,
  benign,        (* benignMalloc: failures do not count                       *)
  measuring,     (* bytesFreed is set: tagfree only measures                  *)
  held,          (* what the users hold: slots and blocks of the heap         *)
  turnedOff      (* how often the users have turned the slots off             *)

flagVars == <<vdbeExecs, isInterrupted, benign, measuring, turnedOff>>
tagVars == <<slots, outs, disable, mallocFailed, held, flagVars>>

AllSlots == 1..SlotCount
LookasideSlots == held \cap AllSlots

tagOomFault ==
  LET first == ~mallocFailed /\ ~benign IN
  /\ mallocFailed' = (mallocFailed \/ first)
  /\ isInterrupted' = (isInterrupted \/ (first /\ vdbeExecs > 0))
  /\ disable' = IF first THEN disable + 1 ELSE disable

Unfailed == UNCHANGED <<disable, mallocFailed, isInterrupted>>

(* The heap gives the users a block in place of those in "instead", or     *)
(* fails.                                                                  *)
FromHeap(instead) ==
  \/ /\ \E b \in Heap \ held : held' = (held \ instead) \cup {b}
     /\ Unfailed
  \/ tagOomFault /\ UNCHANGED held

(* A request, small enough for a slot or not.  That it is made with the    *)
(* slots on and mallocFailed is an assertion of the code (FailureDisables).*)
tagallocRawNN(small) ==
  /\ ~measuring
  /\ IF disable = 0 /\ small /\ slots # <<>>
     THEN /\ held' = held \cup {Head(slots)} /\ slots' = Tail(slots) /\ outs' = outs + 1
          /\ Unfailed
     ELSE /\ IF disable > 0 /\ mallocFailed THEN Unfailed /\ UNCHANGED held ELSE FromHeap({})
          /\ UNCHANGED <<slots, outs>>
  /\ UNCHANGED <<vdbeExecs, benign, measuring, turnedOff>>

(* Faulty variant: a freed slot goes back to the heap's list, not its own. *)
PutBackLost(p) == UNCHANGED slots /\ outs' = IF p \in AllSlots THEN outs - 1 ELSE outs

(* A slot goes back to the front of the list. *)
PutBack(p) ==
  IF p \in AllSlots THEN slots' = <<p>> \o slots /\ outs' = outs - 1
                    ELSE UNCHANGED <<slots, outs>>

tagfreeNN(p) ==
  /\ IF measuring THEN UNCHANGED <<slots, outs, held>>
                  ELSE PutBack(p) /\ held' = held \ {p}
  /\ UNCHANGED <<disable, mallocFailed, flagVars>>

(* A slot that is too small is exchanged for a block; a block may move.    *)
(* When the request cannot be met the prior memory stays as it is.         *)
tagrealloc(p, small) ==
  /\ ~measuring /\ ~(p \in AllSlots /\ small) /\ ~mallocFailed
  /\ IF p \in AllSlots
     THEN \/ \E b \in Heap \ held : held' = (held \ {p}) \cup {b} /\ PutBack(p) /\ Unfailed
          \/ tagOomFault /\ UNCHANGED <<held, slots, outs>>
     ELSE /\ \/ UNCHANGED held /\ Unfailed
             \/ FromHeap({p})
          /\ UNCHANGED <<slots, outs>>
  /\ UNCHANGED <<vdbeExecs, benign, measuring, turnedOff>>

(* ... unless it is to be freed then: also when mallocFailed was set. *)
tagreallocOrFree(p) ==
  /\ ~measuring /\ PutBack(p) /\ held' = held \ {p}
  /\ IF mallocFailed THEN Unfailed ELSE tagOomFault
  /\ UNCHANGED <<vdbeExecs, benign, measuring, turnedOff>>

(* Faulty variant: cleared in a nested execution, but not enabled there. *)
tagOomClearNested ==
  /\ mallocFailed /\ mallocFailed' = FALSE /\ isInterrupted' = FALSE
  /\ disable' = IF vdbeExecs = 0 THEN disable - 1 ELSE disable

tagOomClear ==
  /\ mallocFailed /\ vdbeExecs = 0
  /\ mallocFailed' = FALSE /\ isInterrupted' = FALSE
  /\ disable' = disable - 1

tagApiExit ==
  tagOomClear /\ UNCHANGED <<slots, outs, held, vdbeExecs, benign, measuring, turnedOff>>

---------------------------------------------------------------------------
(* External: what the users of a tag do. *)

Nest == vdbeExecs < MaxNest /\ vdbeExecs' = vdbeExecs + 1 /\ UNCHANGED <<disable, turnedOff>>
Unnest == vdbeExecs > 0 /\ vdbeExecs' = vdbeExecs - 1 /\ UNCHANGED <<disable, turnedOff>>
TurnOff ==
  /\ turnedOff < MaxNest /\ turnedOff' = turnedOff + 1
  /\ disable' = disable + 1 /\ UNCHANGED vdbeExecs
TurnOn ==
  /\ turnedOff > 0 /\ turnedOff' = turnedOff - 1
  /\ disable' = disable - 1 /\ UNCHANGED vdbeExecs
Toggle ==
  /\ \/ benign' = ~benign /\ UNCHANGED measuring
     \/ measuring' = ~measuring /\ UNCHANGED benign
  /\ UNCHANGED <<slots, outs, disable, mallocFailed, held, vdbeExecs, isInterrupted, turnedOff>>

Use ==
  /\ Nest \/ Unnest \/ TurnOff \/ TurnOn
  /\ UNCHANGED <<slots, outs, mallocFailed, held, isInterrupted, benign, measuring>>

---------------------------------------------------------------------------
TagInit ==
  /\ slots = [s \in AllSlots |-> s] /\ outs = 0 /\ disable = 0 /\ held = {}
  /\ mallocFailed = FALSE /\ isInterrupted = FALSE /\ benign = FALSE /\ measuring = FALSE
  /\ vdbeExecs = 0 /\ turnedOff = 0

TagNext ==
  \/ \E small \in BOOLEAN : \/ tagallocRawNN(small)
                            \/ \E p \in held : tagrealloc(p, small)
  \/ \E p \in held : tagfreeNN(p) \/ tagreallocOrFree(p)
  \/ tagApiExit \/ Toggle \/ Use

TagSpec == TagInit /\ [][TagNext]_tagVars

---------------------------------------------------------------------------
(* Properties. *)

(* Every slot is in the list, once, or held, and the count that setup and  *)
(* the statistics rely on is the number of those held.                     *)
SlotsExact ==
  /\ {slots[i] : i \in DOMAIN slots} = AllSlots \ held
  /\ Len(slots) = Cardinality(AllSlots \ held)
  /\ outs = Cardinality(LookasideSlots)

(* alloc.cu:533 and :661: with mallocFailed the slots are off, and turning *)
(* them on at the end undoes exactly that; the two assertions hold in any  *)
(* order of failures, nested executions and users that turn slots off.     *)
FailureDisables == disable = turnedOff + IF mallocFailed THEN 1 ELSE 0
=============================================================================
