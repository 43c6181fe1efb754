------------------------------ MODULE MCFiles -------------------------------
(* The files of a device, each part by itself in a behaviour: the file     *)
(* system, and a pool of handles.                                          *)
EXTENDS FileSystem, HandlePoolProofs, TLC

VARIABLE part

parts == <<part, vars, poolVars>>

MCInit == part \in {"files", "handles"} /\ Init /\ PoolInit

MCNext ==
  \/ part = "files" /\ Next /\ UNCHANGED <<part, poolVars>>
  \/ part = "handles" /\ PoolNext /\ UNCHANGED <<part, vars>>

MCSpec == MCInit /\ [][MCNext]_parts

(* The file system alone. *)
FilesOnly == MCInit /\ part = "files" /\ [][MCNext]_parts

Blocks == Permutations(Ents) \cup Permutations(Keys) \cup Permutations(Names)
=============================================================================
