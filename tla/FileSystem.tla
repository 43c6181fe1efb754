----------------------------- MODULE FileSystem -----------------------------
(***************************************************************************)
(* The in-memory file system of the device (fsystem.cu) and its directory  *)
(* streams (direntcu.cu).  An entity is a malloc'ed dirEnt_t; a directory  *)
(* holds the list of its entities; the hash table __iob_dir finds an       *)
(* entity by its path.  The key of a hash element is the very block of     *)
(* memory the entity's path is in, so the table is a function of blocks.   *)
(*                                                                         *)
(* One thread calls: fsystem.cu has no lock, and its tests run one thread. *)
(* The list of a directory (u.list, next) is a sequence, latest first.     *)
(* When an entity is freed every pointer left to it becomes Dangling; the  *)
(* bytes of a freed block stay until the block is allocated again.  Once a *)
(* pointer without meaning is followed, the behaviour ends with a fault.   *)
(*                                                                         *)
(* Paths are sequences of names, as expandPath leaves them.  ":" is the    *)
(* empty sequence and ":\", which __cwd holds at first, is <<NoName>>.     *)
(* Names have two characters or more and are neither "." nor "..".         *)
(***************************************************************************)
EXTENDS NullPointer, Naturals, Sequences, FiniteSets, SequencesExt

CONSTANTS
  Names,     (* file and directory names                                   *)
  NoName,    (* the empty name                                             *)
  MaxDepth,  (* bound on the names of an expanded path, for MAX_PATH       *)
  Ents,      (* blocks of memory for entities                              *)
  Keys,      (* blocks of memory for paths                                 *)
  Handles,   (* FILE streams and descriptors                               *)
  Streams,   (* DIR streams                                                *)
  MaxOpen,   (* bound on the handles and streams open at a time            *)
  Root,      (* __iob_root                                                 *)
  Dangling,  (* a pointer to an entity that has been freed                 *)
  Garbage    (* a pointer read from memory nobody has written              *)

Dirs == Ents \cup {Root}

ASSUME FileSystemAssumption ==
  /\ MaxDepth \in Nat \ {0} /\ MaxOpen \in Nat
  /\ NoName \notin Names
  /\ Ents \cap {Root, Null, Dangling, Garbage} = {}
  /\ Root \notin {Null, Dangling, Garbage}
  /\ Null \notin {Dangling, Garbage} /\ Dangling # Garbage

VARIABLES
  kind,    (* dir.d_type of each entity, "free" before and after its life  *)
  list,    (* u.list of each directory                                     *)
  tail,    (* what its last entity's next points to: Null, or Garbage      *)
  key,     (* ent->path                                                    *)
  text,    (* the path in each block of Keys, Null before its first use    *)
  index,   (* __iob_dir: the data of the element with this key, Null: none *)
  cwd,     (* __cwd                                                        *)
  base,    (* _base of each handle, Null when it is not open               *)
  dirp,    (* the DIR streams                                              *)
  answer,  (* of the latest call on the tree                               *)
  fault    (* why the behaviour has ended, "none" while it goes on         *)

entities == <<kind, list, tail, key, text, index>>
vars == <<entities, cwd, base, dirp, answer, fault>>

Live == {e \in Ents : kind[e] # "free"}
Paths == UNION {[1 .. n -> Names \cup {NoName}] : n \in 0 .. MaxDepth}

(* What callers pass: a path from the root, or relative to __cwd. *)
Requests ==
  {[rel |-> FALSE, names |-> p] : p \in UNION {[1 .. n -> Names] : n \in 0 .. MaxDepth}}
    \cup {[rel |-> TRUE, names |-> <<n>>] : n \in Names}

(* expandPath *)
Expand(r) == IF r.rel THEN cwd \o r.names ELSE r.names

Parent(p) == SubSeq(p, 1, Len(p) - 1)

(* hashFind; at most one element matches (IndexIsTree). *)
Matches(p) == {k \in Keys : index[k] # Null /\ text[k] = p}
Find(p) == IF Matches(p) = {} THEN Null ELSE index[CHOOSE k \in Matches(p) : TRUE]

(* findDir, findDirInPath: the root is not in the table. *)
FindDir(p) == IF p = <<>> THEN Root ELSE Find(p)
(* Mutant: what has no parent goes to the root. *)
FindParentOrRoot(p) ==
  IF p = <<>> THEN Null ELSE IF FindDir(Parent(p)) = Null THEN Root ELSE FindDir(Parent(p))

FindParent(p) == IF p = <<>> THEN Null ELSE FindDir(Parent(p))
IsDir(d) == d = Root \/ (d \in Ents /\ kind[d] = "dir")

ClosedStream ==
  [open |-> FALSE, list |-> Null, listIdx |-> Null, fake |-> 0, fakeIdx |-> 0,
   seen |-> {}, owed |-> {}]

Init ==
  /\ kind = [e \in Ents |-> "free"]
  /\ list = [d \in Dirs |-> <<>>]
  /\ tail = [d \in Dirs |-> Null]
  /\ key = [e \in Ents |-> Null]
  /\ text = [k \in Keys |-> Null]
  /\ index = [k \in Keys |-> Null]
  /\ cwd = <<NoName>>
  /\ base = [h \in Handles |-> Null]
  /\ dirp = [s \in Streams |-> ClosedStream]
  /\ answer = "done"
  /\ fault = "none"

-----------------------------------------------------------------------------
(* A call that changes nothing but what it answers, and one that follows a *)
(* pointer without meaning.                                                *)
Answer(a) == answer' = a /\ UNCHANGED <<entities, cwd, base, dirp, fault>>

Fail(f) == fault' = f /\ UNCHANGED <<entities, cwd, base, dirp, answer>>

(* createEnt: strcpy of the path, then hashInsert.  Neither malloc nor     *)
(* createEnt writes u.list of a new directory.                             *)
Allocate(e, k, p, type) ==
  /\ kind[e] = "free" /\ \A f \in Live : key[f] # k
  /\ kind' = [kind EXCEPT ![e] = type]
  /\ key' = [key EXCEPT ![e] = k]
  /\ text' = [text EXCEPT ![k] = p]
  /\ \E g \in {Null, Garbage} :
       tail' = [tail EXCEPT ![e] = IF type = "dir" THEN g ELSE Null]

Create(d, p, type) ==
  \E e \in Ents, k \in Keys :
    /\ Allocate(e, k, p, type)
    /\ index[k] = Null
    /\ index' = [index EXCEPT ![k] = e]
    /\ list' = [list EXCEPT ![d] = <<e>> \o @]
    /\ answer' = "done"
    /\ UNCHANGED <<cwd, fault>>

(* An element of a removed entity has this block as its key: hashInsert    *)
(* finds it, for the block now holds the new path - "removed entity".      *)
CreatePanics ==
  /\ \E k \in Keys : index[k] # Null /\ \A f \in Live : key[f] # k
  /\ Live # Ents
  /\ Fail("panic")

(* fsystemMkdir *)
MkdirCreates(p) ==
  /\ Find(p) = Null /\ IsDir(FindParent(p))
  /\ \/ Create(FindParent(p), p, "dir") /\ UNCHANGED <<base, dirp>>
     \/ CreatePanics

Mkdir(p) ==
  \/ Find(p) \in Ents /\ Answer("exists")
  \/ Find(p) = Null /\ FindParent(p) = Null /\ Answer("failed")
  \/ MkdirCreates(p)

(* fsystemOpen of what exists: neither its type nor the mode matters. *)
OpenFound(h, p) ==
  /\ Find(p) \in Ents
  /\ base' = [base EXCEPT ![h] = Find(p)]
  /\ answer' = "done"
  /\ UNCHANGED <<entities, cwd, dirp, fault>>

(* The mode allows to create the file. *)
OpenCreates(h, p) ==
  /\ Find(p) = Null /\ IsDir(FindParent(p))
  /\ \/ /\ Create(FindParent(p), p, "file")
        /\ \E e \in Ents :
             kind[e] # kind'[e] /\ base' = [base EXCEPT ![h] = e]
        /\ UNCHANGED dirp
     \/ CreatePanics

MayOpen ==
  Cardinality({h \in Handles : base[h] # Null})
    + Cardinality({s \in Streams : dirp[s].open}) < MaxOpen

Open(h, p) ==
  /\ base[h] = Null /\ MayOpen
  /\ \/ OpenFound(h, p)
     \/ Find(p) = Null /\ Answer("failed")   (* O_RDONLY, or no parent *)
     \/ OpenCreates(h, p)

(* fsystemClose, called by fclose and close. *)
Close(h) ==
  /\ base[h] # Null
  /\ base' = [base EXCEPT ![h] = Null]
  /\ UNCHANGED <<entities, cwd, dirp, answer, fault>>

(* fread and fwrite look at the entity of the handle first. *)
Transfer(h) ==
  \/ base[h] = Dangling /\ Fail("handle")
  \/ base[h] \in Ents /\ kind[base[h]] = "dir" /\ Fail("not a file")

-----------------------------------------------------------------------------
(* freeEnt of each of S.  The hash table keeps their elements. *)
Cut(pointer, S) == IF pointer \in S THEN Dangling ELSE pointer

FreeEnts(S) ==
  /\ kind' = [e \in Ents |-> IF e \in S THEN "free" ELSE kind[e]]
  /\ key' = [e \in Ents |-> IF e \in S THEN Null ELSE key[e]]
  /\ tail' = [d \in Dirs |-> IF d \in S THEN Null ELSE tail[d]]
  /\ index' = [k \in Keys |-> Cut(index[k], S)]
  /\ base' = [h \in Handles |-> Cut(base[h], S)]
  /\ dirp' = [s \in Streams |->
       [dirp[s] EXCEPT !.list = Cut(@, S), !.listIdx = Cut(@, S),
                       !.seen = @ \ S, !.owed = @ \ S]]
  /\ UNCHANGED <<text, cwd, fault>>

(* fsystemUnlink, called by remove, unlink (dirOnly FALSE) and rmdir.  The *)
(* emptiness of a directory shows in a u.list that may be unwritten.       *)
UnlinkRefused(p, dirOnly) ==
  LET e == Find(p)
  IN  \/ e = Null
      \/ e \in Ents /\ kind[e] = "file" /\ dirOnly
      \/ e \in Ents /\ kind[e] = "dir" /\ list[e] # <<>>

(* Mutants: the entity stays in the list of its directory; a directory is  *)
(* removed with what is in it.                                             *)
UnlinkKeepsListed(p, dirOnly) ==
  LET e == Find(p)
  IN  /\ e \in Ents /\ (kind[e] = "file" => ~dirOnly)
      /\ list[e] = <<>> /\ tail[e] = Null
      /\ FreeEnts({e})
      /\ answer' = "done" /\ UNCHANGED list

UnlinkUnchecked(p, dirOnly) ==
  LET e == Find(p)
      d == FindParent(p)
  IN  /\ e \in Ents /\ IsDir(d) /\ (kind[e] = "file" => ~dirOnly)
      /\ list' = [list EXCEPT ![d] = RemoveFirst(@, e), ![e] = <<>>]
      /\ FreeEnts({e})
      /\ answer' = "done"

UnlinkRemoves(p, dirOnly) ==
  LET e == Find(p)
      d == FindParent(p)
  IN  /\ e \in Ents /\ IsDir(d)
      /\ kind[e] = "file" => ~dirOnly
      /\ list[e] = <<>> /\ tail[e] = Null
      /\ list' = [list EXCEPT ![d] = RemoveFirst(@, e)]
      /\ FreeEnts({e})
      /\ answer' = "done"

UnlinkUnwritten(p) ==
  /\ Find(p) \in Ents /\ list[Find(p)] = <<>> /\ tail[Find(p)] = Garbage
  /\ Fail("garbage")

Unlink(p, dirOnly) ==
  \/ UnlinkRefused(p, dirOnly) /\ Answer("failed")
  \/ UnlinkRemoves(p, dirOnly)
  \/ UnlinkUnwritten(p)

(* fsystemReset: freeEnt of the root. *)
Reachable ==
  {e \in Ents : \A S \in SUBSET Ents :
     (\A d \in S \cup {Root} : ToSet(list[d]) \subseteq S) => e \in S}

ResetFrees ==
  /\ \A d \in Reachable : tail[d] = Null
  /\ FreeEnts(Reachable)
  /\ list' = [d \in Dirs |-> IF d \in Reachable \cup {Root} THEN <<>> ELSE list[d]]
  /\ answer' = "done"

Reset ==
  \/ ResetFrees
  \/ (\E d \in Reachable : tail[d] = Garbage) /\ Fail("garbage")

(* fsystemChdir: whether the directory exists does not matter.  A deeper   *)
(* one leaves no room for a relative path within the bound.                *)
Chdir(p) ==
  /\ Len(p) < MaxDepth
  /\ cwd' = p
  /\ UNCHANGED <<entities, base, dirp, answer, fault>>

(* fsystemRename: a stub, and it looks for the path before it is expanded. *)
Rename(r) ==
  \/ ~r.rel /\ Find(r.names) \in Ents /\ Answer("done")
  \/ (r.rel \/ Find(r.names) = Null) /\ Answer("failed")

-----------------------------------------------------------------------------
(* Directory streams.  seen and owed are history: the entities returned    *)
(* since the stream was opened or rewound, and those it had in front of it *)
(* then and that have not been removed since.                              *)
First(d) == IF list[d] = <<>> THEN tail[d] ELSE Head(list[d])

Home(e) == CHOOSE d \in Dirs : Contains(list[d], e)
Place(e) == CHOOSE i \in DOMAIN list[Home(e)] : list[Home(e)][i] = e
From(e) == {list[Home(e)][i] : i \in Place(e) .. Len(list[Home(e)])}
(* Mutant: one entity is skipped. *)
NextButOne(e) ==
  IF Place(e) + 1 >= Len(list[Home(e)]) THEN tail[Home(e)] ELSE list[Home(e)][Place(e) + 2]

NextOf(e) ==
  IF Place(e) = Len(list[Home(e)]) THEN tail[Home(e)] ELSE list[Home(e)][Place(e) + 1]

SetStream(s, r) ==
  dirp' = [dirp EXCEPT ![s] = r] /\ UNCHANGED <<entities, cwd, base, fault>>

(* opendir; the entries "." and ".." are made up, but not for the root. *)
OpendirFinds(s, p) ==
  LET d == FindDir(p)
      fakes == IF d = Root THEN 0 ELSE 2
  IN  /\ IsDir(d)
      /\ SetStream(s, [open |-> TRUE, list |-> First(d), listIdx |-> First(d),
                       fake |-> fakes, fakeIdx |-> fakes,
                       seen |-> {}, owed |-> ToSet(list[d])])
      /\ answer' = "done"

Opendir(s, p) ==
  /\ ~dirp[s].open /\ MayOpen
  /\ \/ OpendirFinds(s, p)
     \/ FindDir(p) = Null /\ Answer("failed")
     \/ FindDir(p) \in Ents /\ ~IsDir(FindDir(p)) /\ Answer("failed")

Closedir(s) == dirp[s].open /\ SetStream(s, ClosedStream) /\ UNCHANGED answer

(* readdir; at the end, listIdx = Null, nothing changes. *)
ReaddirFake(s) ==
  /\ dirp[s].open /\ dirp[s].listIdx # Null /\ dirp[s].fakeIdx > 0
  /\ SetStream(s, [dirp[s] EXCEPT !.fakeIdx = @ - 1])
  /\ UNCHANGED answer

ReaddirEntity(s) ==
  /\ dirp[s].open /\ dirp[s].listIdx \in Ents /\ dirp[s].fakeIdx = 0
  /\ SetStream(s, [dirp[s] EXCEPT !.listIdx = NextOf(@), !.seen = @ \cup {dirp[s].listIdx}])
  /\ UNCHANGED answer

ReaddirFails(s) ==
  /\ dirp[s].open /\ dirp[s].fakeIdx = 0
  /\ \/ dirp[s].listIdx = Dangling /\ Fail("cursor")
     \/ dirp[s].listIdx = Garbage /\ Fail("garbage")

(* rewinddir copies from the first entity even if there is none. *)
Rewinddir(s) ==
  /\ dirp[s].open
  /\ \/ /\ dirp[s].list \in Ents
        /\ SetStream(s, [dirp[s] EXCEPT !.listIdx = dirp[s].list, !.fakeIdx = dirp[s].fake,
                                        !.seen = {}, !.owed = From(dirp[s].list)])
        /\ UNCHANGED answer
     \/ dirp[s].list = Dangling /\ Fail("cursor")
     \/ dirp[s].list = Garbage /\ Fail("garbage")
     \/ dirp[s].list = Null /\ Fail("null")

Stream(s) ==
  \/ Closedir(s) \/ ReaddirFake(s) \/ ReaddirEntity(s) \/ ReaddirFails(s) \/ Rewinddir(s)

-----------------------------------------------------------------------------
(* A lookup, in any of the calls, that ends at a removed entity; a file    *)
(* taken for a directory to create something in.                           *)
Removed(p) == Dangling \in {Find(p), FindParent(p)} /\ Fail("removed")

Confused(p) ==
  /\ Find(p) = Null /\ FindParent(p) \in Ents /\ ~IsDir(FindParent(p))
  /\ Fail("confused")

Next ==
  /\ fault = "none"
  /\ \/ \E r \in Requests :
          LET p == Expand(r)
          IN  /\ Len(p) <= MaxDepth
              /\ \/ Mkdir(p) \/ Chdir(p) \/ Rename(r) \/ Removed(p) \/ Confused(p)
                 \/ \E h \in Handles : Open(h, p)
                 \/ \E dirOnly \in BOOLEAN : Unlink(p, dirOnly)
                 \/ \E s \in Streams : Opendir(s, p)
     \/ \E h \in Handles : Close(h) \/ Transfer(h)
     \/ \E s \in Streams : Stream(s)
     \/ Reset

Spec == Init /\ [][Next]_vars

-----------------------------------------------------------------------------
TypeOK ==
  /\ kind \in [Ents -> {"free", "dir", "file"}]
  /\ list \in [Dirs -> Seq(Ents)]
  /\ tail \in [Dirs -> {Null, Garbage}]
  /\ key \in [Ents -> Keys \cup {Null}]
  /\ text \in [Keys -> Paths \cup {Null}]
  /\ index \in [Keys -> Ents \cup {Dangling, Null}]
  /\ cwd \in Paths
  /\ base \in [Handles -> Ents \cup {Dangling, Null}]
  /\ dirp \in [Streams ->
       [open : BOOLEAN, list : Ents \cup {Null, Dangling, Garbage},
        listIdx : Ents \cup {Null, Dangling, Garbage},
        fake : {0, 2}, fakeIdx : 0 .. 2, seen : SUBSET Ents, owed : SUBSET Ents]]
  /\ answer \in {"done", "exists", "failed"}
  /\ fault \in 
       {"none", "removed", "panic", "handle", "cursor", "confused", "garbage", "null",
        "not a file"}

(* The path table and the directories agree, and nothing leaves its type:  *)
(* a live entity is found by its own path and by no other, and is listed   *)
(* once, in the directory at the parent of its path; nothing else is       *)
(* listed (createEnt, fsystemUnlink).                                      *)
IndexIsTree ==
  /\ TypeOK
  /\ \A e \in Live : Find(text[key[e]]) = e /\ \A k \in Keys : index[k] = e => k = key[e]
  /\ \A d \in Dirs, e \in Ents :
       Cardinality({i \in DOMAIN list[d] : list[d][i] = e})
         = IF e \in Live /\ FindParent(text[key[e]]) = d THEN 1 ELSE 0

(* No entity is lost: fsystemReset, which walks from the root, frees all.  *)
NothingLost == Live = Reachable

(* A directory stream never returns an entity twice, and when it has come  *)
(* to its end it has returned all that stayed in the directory (readdir,   *)
(* while createEnt and fsystemUnlink change the list it walks).            *)
StreamExact ==
  \A s \in Streams :
    LET p == dirp[s]
    IN  /\ p.listIdx \in Ents => From(p.listIdx) \cap p.seen = {}
        /\ p.listIdx = Null => p.owed \subseteq p.seen

PathOf(e) == text[key[e]]
EntAt(p) == CHOOSE e \in Live : PathOf(e) = p

T == INSTANCE FileTree WITH
       tree <- [p \in {PathOf(e) : e \in Live} |-> kind[EntAt(p)]]

(* Until it faults, the file system does to its paths what a tree of       *)
(* directories and files does, and answers accordingly.                    *)
ImplementsFileTree == T!Spec

(* A removed name can be used again: makeAFile("test.txt") and remove are  *)
(* done over and over in stdioTest.cu, with no use of freed memory.        *)
NoUseAfterRemove == fault \notin {"removed", "panic"}
=============================================================================
