------------------------------ MODULE ByteFile ------------------------------
(***************************************************************************)
(* What the users of a memory file are promised: bytes that are appended   *)
(* and read back, at any offset.  One reading is not promised: going on    *)
(* from where a read has stopped at the end the file had then.             *)
(***************************************************************************)
EXTENDS Naturals, Sequences

CONSTANTS
  Bytes,
  MaxSize   (* bytes a file can have *)

VARIABLES
  bytes,    (* the content                                             *)
  edge,     (* where the latest read stopped at the file's end, or 0   *)
  answer    (* of the latest call: what it is and the bytes it returns *)

Says(s) == answer' = [is |-> s, data |-> <<>>]

Init == bytes = <<>> /\ edge = 0 /\ answer = [is |-> "done", data |-> <<>>]

Read(o, n) ==
  /\ o + n <= Len(bytes)
  /\ UNCHANGED bytes
  /\ \/ /\ answer' = [is |-> "done", data |-> SubSeq(bytes, o + 1, o + n)]
        /\ \/ edge' = 0
           \/ edge' = o + n /\ (o + n = Len(bytes) \/ (n = 0 /\ o = edge))
     \/ o = edge /\ o # 0 /\ n > 0 /\ Says("fault") /\ UNCHANGED edge

(* A write that finds no memory has written the bytes in front. *)
Write(b) ==
  /\ Len(bytes) + Len(b) <= MaxSize /\ UNCHANGED edge
  /\ \/ bytes' = bytes \o b /\ Says("done")
     \/ /\ \E n \in 0..(Len(b) - 1) : bytes' = bytes \o SubSeq(b, 1, n)
        /\ Says("failed")

Empty == bytes' = <<>> /\ edge' = 0 /\ UNCHANGED answer

Next ==
  \/ \E o \in 0..Len(bytes) : \E n \in 0..(Len(bytes) - o) : Read(o, n)
  \/ \E n \in 0..MaxSize : \E b \in [1..n -> Bytes] : Write(b)
  \/ Empty

Spec == Init /\ [][Next]_<<bytes, edge, answer>>
=============================================================================
