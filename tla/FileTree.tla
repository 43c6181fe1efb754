------------------------------ MODULE FileTree ------------------------------
(***************************************************************************)
(* What callers of the in-memory file system are promised: a tree of       *)
(* directories and files, and an answer that tells what a call found.      *)
(***************************************************************************)
EXTENDS Naturals, Sequences

CONSTANT Paths   (* absolute paths: sequences of names, <<>> the root *)

VARIABLES
  tree,    (* the kind, "dir" or "file", of each path that exists *)
  answer   (* of the latest call                                  *)

Init == tree = <<>> /\ answer = "done"

Parent(p) == SubSeq(p, 1, Len(p) - 1)
IsDir(p) == p = <<>> \/ (p \in DOMAIN tree /\ tree[p] = "dir")

Answer(a) == answer' = a /\ UNCHANGED tree

With(p, k) == [q \in DOMAIN tree \cup {p} |-> IF q = p THEN k ELSE tree[q]]
Without(p) == [q \in DOMAIN tree \ {p} |-> tree[q]]
Empty(p) == \A q \in DOMAIN tree : q = <<>> \/ Parent(q) # p

Add(p, k) ==
  /\ p # <<>> /\ p \notin DOMAIN tree /\ IsDir(Parent(p))
  /\ tree' = With(p, k) /\ answer' = "done"

Refuse(p) ==
  (p = <<>> \/ (p \notin DOMAIN tree /\ ~IsDir(Parent(p)))) /\ Answer("failed")

(* A directory that is there already is no failure. *)
Mkdir(p) == Add(p, "dir") \/ Refuse(p) \/ (p \in DOMAIN tree /\ Answer("exists"))

(* Opening creates a file unless it is for reading only. *)
Open(p) ==
  \/ Add(p, "file") \/ Refuse(p)
  \/ p \in DOMAIN tree /\ Answer("done")
  \/ p \notin DOMAIN tree /\ Answer("failed")

Remove(p) ==
  \/ /\ p \in DOMAIN tree /\ Empty(p)
     /\ tree' = Without(p) /\ answer' = "done"
  \/ (p \notin DOMAIN tree \/ tree[p] = "file" \/ ~Empty(p)) /\ Answer("failed")

Find(p) ==
  \/ IsDir(p) /\ Answer("done")
  \/ ~IsDir(p) /\ Answer("failed")

(* There is no renaming yet: the call only tells whether it found the path. *)
Rename(p) ==
  \/ p \in DOMAIN tree /\ Answer("done")
  \/ Answer("failed")

Reset == tree' = <<>> /\ answer' = "done"

Next ==
  \/ \E p \in Paths : Mkdir(p) \/ Open(p) \/ Remove(p) \/ Find(p) \/ Rename(p)
  \/ Reset

Spec == Init /\ [][Next]_<<tree, answer>>
=============================================================================
