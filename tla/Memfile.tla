------------------------------ MODULE Memfile -------------------------------
(***************************************************************************)
(* A file in memory, src/libcu/ext/memfile.cu: a singly linked list of     *)
(* chunks, the point where the next byte is appended, and the point where  *)
(* the latest read has stopped, from which a read of the bytes that follow *)
(* goes on without walking the list.                                       *)
(*                                                                         *)
(* Callers keep to the assertions: they append at the end, read no further *)
(* than the end and truncate to nothing.                                   *)
(***************************************************************************)
EXTENDS NullPointer, Integers, FiniteSets, SequencesExt

CONSTANTS
  Bytes,
  Chunks,      (* the blocks malloc has for chunks       *)
  ChunkSize,   (* JOURNAL_CHUNKSIZE, bytes in a chunk    *)
  MaxSize      (* bound: bytes in the file               *)

(* There are blocks for the largest file, though malloc may not have them. *)
ASSUME MemfileSizes ==
  /\ ChunkSize \in Nat \ {0} /\ MaxSize \in Nat /\ Null \notin Chunks
  /\ IsFiniteSet(Chunks) => MaxSize <= ChunkSize * Cardinality(Chunks)

VARIABLES
  file,    (* memfile_t                                                     *)
  chunk,   (* the chunks allocated: next, and the bytes written (data)      *)
  got      (* the latest call's answer: what it says, and the bytes it read *)

memVars == <<file, chunk, got>>

Closed == [opened |-> FALSE, first |-> Null,
           endpoint |-> [offset |-> 0, chunk |-> Null],
           readpoint |-> [offset |-> 0, chunk |-> Null]]

Says(s) == got' = [is |-> s, data |-> <<>>]

(* The chunk n links behind c, Null where the list has ended before. *)
Follow(c, n) ==
  LET at[i \in 0..n] == IF i = 0 THEN c
                        ELSE IF at[i - 1] = Null THEN Null ELSE chunk[at[i - 1]].next
  IN at[n]

(* Faulty variant: the read point is trusted at offset 0 as well. *)
StartAlways(o) ==
  IF file.readpoint.offset # o THEN Follow(file.first, o \div ChunkSize)
                               ELSE file.readpoint.chunk

(* The chunk a read at offset o starts with. *)
Start(o) ==
  IF file.readpoint.offset # o \/ o = 0 THEN Follow(file.first, o \div ChunkSize)
                                        ELSE file.readpoint.chunk

(* ... and the one the next byte is in, if there is one already. *)
Stop(o, n) == Follow(Start(o), ((o % ChunkSize) + n) \div ChunkSize)

(* Byte i of a read at o. *)
ByteAt(o, i) ==
  LET p == (o % ChunkSize) + i - 1
  IN chunk[Follow(Start(o), p \div ChunkSize)].data[(p % ChunkSize) + 1]

memfileRead(o, n) ==
  /\ o + n <= file.endpoint.offset
  /\ UNCHANGED chunk
  /\ \/ /\ Start(o) = Null /\ n > 0          \* copies from a null chunk
        /\ Says("fault") /\ UNCHANGED file
     \/ /\ Start(o) # Null \/ n = 0
        /\ got' = [is |-> "done", data |-> [i \in 1..n |-> ByteAt(o, i)]]
        /\ file' = [file EXCEPT !.readpoint = [offset |-> o + n, chunk |-> Stop(o, n)]]

(* File and chunks with one more byte: in the last chunk, *)
InLast(m, b) ==
  [file |-> [m.file EXCEPT !.endpoint.offset = @ + 1],
   chunk |-> [m.chunk EXCEPT ![m.file.endpoint.chunk].data = Append(@, b)]]

(* ... or in a new chunk behind it. *)
InNew(m, b, new) ==
  LET end == m.file.endpoint
      Linked == IF end.chunk = Null THEN m.chunk ELSE [m.chunk EXCEPT ![end.chunk].next = new]
  IN [file |-> [m.file EXCEPT !.endpoint = [offset |-> end.offset + 1, chunk |-> new],
                              !.first = IF end.chunk = Null THEN new ELSE @],
      chunk |-> [c \in DOMAIN Linked \cup {new} |->
                   IF c = new THEN [next |-> Null, data |-> <<b>>] ELSE Linked[c]]]

PutByte(m, b) ==
  IF m.file.endpoint.offset % ChunkSize # 0
  THEN InLast(m, b) ELSE InNew(m, b, CHOOSE c \in Chunks \ DOMAIN m.chunk : TRUE)

(* File and chunks with the first n of bytes bs. *)
Written(bs, n) ==
  LET at[i \in 0..n] == IF i = 0 THEN [file |-> file, chunk |-> chunk]
                        ELSE PutByte(at[i - 1], bs[i])
  IN at[n]

(* Bytes bs are copied chunk by chunk; the write ends early, after n bytes *)
(* of bs, when the chunk that would come next gets no memory.              *)
memfileWrite(bs) ==
  LET o == file.endpoint.offset IN
  /\ file.opened /\ o + Len(bs) <= MaxSize
  /\ \E n \in 0..Len(bs) :
       /\ n = Len(bs) \/ (o + n) % ChunkSize = 0
       /\ file' = Written(bs, n).file /\ chunk' = Written(bs, n).chunk
       /\ Says(IF n = Len(bs) THEN "done" ELSE "failed")

(* All chunks are freed; what has been freed is not reachable any more. *)
Freed == [c \in DOMAIN chunk \ {Follow(file.first, i) : i \in 0..Cardinality(DOMAIN chunk)}
            |-> chunk[c]]

(* Faulty variant: the read point survives. *)
memfileTruncateKeeping ==
  /\ file.opened
  /\ file' = [Closed EXCEPT !.opened = TRUE, !.readpoint = file.readpoint]
  /\ chunk' = Freed /\ UNCHANGED got

memfileTruncate ==
  /\ file.opened
  /\ file' = [Closed EXCEPT !.opened = TRUE]
  /\ chunk' = Freed /\ UNCHANGED got

memfileClose == file.opened /\ file' = Closed /\ chunk' = Freed /\ UNCHANGED got

memfileOpen ==
  ~file.opened /\ file' = [Closed EXCEPT !.opened = TRUE] /\ UNCHANGED <<chunk, got>>

---------------------------------------------------------------------------
MemInit == file = Closed /\ chunk = <<>> /\ got = [is |-> "done", data |-> <<>>]

MemNext ==
  /\ got.is # "fault"
  /\ \/ memfileOpen \/ memfileTruncate \/ memfileClose
     \/ \E n \in 0..MaxSize : \E bs \in [1..n -> Bytes] : memfileWrite(bs)
     \/ \E o, n \in 0..MaxSize : memfileRead(o, n)

MemSpec == MemInit /\ [][MemNext]_memVars

---------------------------------------------------------------------------
(* Properties. *)

Nth(i) == Follow(file.first, i)

ChunksExact ==
  LET n == Cardinality(DOMAIN chunk) IN
  /\ n = (file.endpoint.offset + ChunkSize - 1) \div ChunkSize
  /\ DOMAIN chunk = {Nth(i) : i \in 0..(n - 1)}
  /\ Nth(n) = Null
  /\ file.endpoint.chunk = IF n = 0 THEN Null ELSE Nth(n - 1)
  /\ \A i \in 0..(n - 2) : Len(chunk[Nth(i)].data) = ChunkSize

ReadPointExact ==
  LET r == file.readpoint IN
  /\ r.offset <= file.endpoint.offset
  /\ \/ r.chunk = Nth(r.offset \div ChunkSize)
     \/ r.chunk = Null /\ r.offset % ChunkSize = 0

(* The chunks are those of the file, as many as its size needs, each but   *)
(* the last one full, and the end point is in the last one: no chunk is    *)
(* lost when a write stops early, and none is appended to the wrong one.   *)
(* The read point's chunk is the one its offset is in, or none if the read *)
(* that set it stopped with the last chunk of then.                        *)
FileIntact == ChunksExact /\ ReadPointExact

(* The file is a sequence of bytes. *)
Content ==
  [i \in 1..file.endpoint.offset |->
     chunk[Nth((i - 1) \div ChunkSize)].data[((i - 1) % ChunkSize) + 1]]
Edge == IF file.readpoint.chunk = Null THEN file.readpoint.offset ELSE 0

(* Appended bytes are read back, whatever the offset and the sizes of the  *)
(* pieces, but for the one read that ByteFile leaves out: the reading-on   *)
(* from a point at which no chunk is remembered (memfile.cu:64), which     *)
(* copies from a null chunk once the file has grown.                       *)
AbstractFile == INSTANCE ByteFile WITH bytes <- Content, edge <- Edge, answer <- got
ImplementsByteFile == AbstractFile!Spec
=============================================================================
