----------------------------- MODULE Executors ------------------------------
(***************************************************************************)
(* The list of executors of a service thread, src/libcu/sentinel.cpp: the  *)
(* thread asks one after the other whether it takes a message, without a   *)
(* lock, while another thread registers and unregisters executors.  An     *)
(* executor that is registered again is moved, and one that is moved or    *)
(* taken out keeps its link for whoever stands on it.                      *)
(*                                                                         *)
(* One thread registers, as sentinelServerInitialize and the main program  *)
(* of the file utilities do; every write to a link is a step of its own.   *)
(***************************************************************************)
EXTENDS NullPointer, Integers

CONSTANTS
  Execs,
  MaxOps    (* bound: calls that register or unregister *)

ASSUME ExecConstants == MaxOps \in Nat /\ Null \notin Execs

VARIABLES
  list,        (* _ctx.DeviceList or HostList                               *)
  next,        (* the link of each executor                                 *)
  moving,      (* the executor that is being registered, Null: none         *)
  asDefault,   (* ... in front of all others                                *)
  linked,      (* ... and its own link is written                           *)
  ops,         (* calls made to register and unregister                     *)
  registered,  (* the executors whose registration is complete              *)
  exec,        (* the executor the service thread stands on, Null: the end  *)
  serving,     (* the service thread has a message                          *)
  asked,       (* the executors it has asked about this message             *)
  known,       (* the executors that were registered at some time since it  *)
               (* has the message                                           *)
  stayed       (* those registered all the time since; none any more once   *)
               (* a known executor has been registered again                *)

regVars == <<list, next, moving, asDefault, linked, ops, registered>>
serveVars == <<exec, serving, asked>>
walkVars == <<known, stayed>>
execVars == <<regVars, serveVars, walkVars>>

---------------------------------------------------------------------------
(* The registering thread. *)

(* Faulty variant: an executor is linked again where it is linked already. *)
UnlinkNothing(e) == UNCHANGED <<list, next>>

(* The walk to the executor in front of e sees only links this thread has  *)
(* written: one step, with the one write it ends in.                       *)
sentinelUnlinkExecutor(e) ==
  /\ list' = IF list = e THEN next[e] ELSE list
  /\ next' = [x \in Execs |-> IF list # e /\ next[x] = e /\ x \in registered
                              THEN next[e] ELSE next[x]]

Begin(e) ==
  /\ moving = Null /\ ops < MaxOps /\ ops' = ops + 1
  /\ sentinelUnlinkExecutor(e)
  /\ registered' = registered \ {e}
  /\ UNCHANGED serveVars

sentinelRegisterExecutor(e, makeDefault) ==
  /\ Begin(e)
  /\ moving' = e /\ asDefault' = makeDefault /\ linked' = FALSE
  /\ known' = known \cup {e} /\ stayed' = IF e \in known THEN {} ELSE stayed

sentinelUnregisterExecutor(e) ==
  /\ Begin(e)
  /\ stayed' = stayed \ {e} /\ UNCHANGED <<moving, asDefault, linked, known>>

First == asDefault \/ list = Null

(* Faulty variant: put in second place, the executor takes the end's link. *)
LinkToNothing ==
  /\ moving # Null /\ ~linked /\ linked' = TRUE
  /\ next' = [next EXCEPT ![moving] = IF First THEN list ELSE Null]
  /\ UNCHANGED <<list, moving, asDefault, ops, registered, serveVars, walkVars>>

(* First the executor's own link ... *)
Link ==
  /\ moving # Null /\ ~linked /\ linked' = TRUE
  /\ next' = [next EXCEPT ![moving] = IF First THEN list ELSE next[list]]
  /\ UNCHANGED <<list, moving, asDefault, ops, registered, serveVars, walkVars>>

(* ... then the link to it. *)
Publish ==
  /\ moving # Null /\ linked /\ moving' = Null
  /\ list' = IF First THEN moving ELSE list
  /\ next' = IF First THEN next ELSE [next EXCEPT ![list] = moving]
  /\ registered' = registered \cup {moving}
  /\ UNCHANGED <<asDefault, linked, ops, serveVars, walkVars>>

---------------------------------------------------------------------------
(* The service thread. *)

Take ==
  /\ ~serving /\ serving' = TRUE
  /\ exec' = list /\ asked' = {}
  /\ known' = registered \cup ({moving} \ {Null}) /\ stayed' = registered
  /\ UNCHANGED regVars

(* Asked, the executor takes the message, which ends the walk, or not.  An *)
(* executor without a function would end it too (sentinel.cpp:86); those   *)
(* that get registered have one (sentinel.cpp:23, libcu.fileutils.cu:20).  *)
Ask ==
  /\ serving /\ exec # Null
  /\ \/ serving' = FALSE /\ UNCHANGED <<exec, asked>>
     \/ exec' = next[exec] /\ asked' = asked \cup {exec} /\ UNCHANGED serving
  /\ UNCHANGED <<regVars, walkVars>>

(* Nobody takes it: it is answered all the same. *)
Pass ==
  /\ serving /\ exec = Null /\ serving' = FALSE
  /\ UNCHANGED <<regVars, exec, asked, walkVars>>

---------------------------------------------------------------------------
(* The base executor is registered before the service thread is started. *)
ExecInit ==
  /\ \E base \in Execs : list = base /\ registered = {base}
  /\ next = [e \in Execs |-> Null]
  /\ moving = Null /\ asDefault = FALSE /\ linked = FALSE /\ ops = 0
  /\ exec = Null /\ serving = FALSE /\ asked = {} /\ known = {} /\ stayed = {}

Serve == Ask \/ Pass

ExecNext ==
  \/ \E e \in Execs : \/ \E d \in BOOLEAN : sentinelRegisterExecutor(e, d)
                      \/ sentinelUnregisterExecutor(e)
  \/ Link \/ Publish \/ Take \/ Serve

(* The service thread, once it has a message, is scheduled. *)
ExecFairness == WF_execVars(Serve)

ExecSpec == ExecInit /\ [][ExecNext]_execVars /\ ExecFairness

---------------------------------------------------------------------------
(* Properties. *)

(* A message that nobody took has been offered to every executor that was  *)
(* registered all the time, wherever the service thread stood when new     *)
(* ones came and others, that one included, were taken out.  (The promise  *)
(* does not extend to moving an executor that is in the list: it leads the *)
(* thread past others, or past the moved one.)                             *)
NoneSkipped == serving /\ exec = Null => stayed \subseteq asked

(* The walk ends, however the links change under it, moves included. *)
WalkEnds == serving ~> ~serving
=============================================================================
