----------------------------- MODULE MCStartup ------------------------------
(* Two parts of a program that starts, each by itself in a behaviour: its  *)
(* threads call runtimeInitialize, or its executors come and go.           *)
EXTENDS RuntimeInit, Executors

VARIABLE part

vars == <<part, rtVars, execVars>>

Init ==
  /\ part \in {"runtime", "executors"}
  /\ RtInit /\ ExecInit
  /\ part = "runtime" => list = CHOOSE e \in Execs : TRUE

Next ==
  \/ part = "runtime" /\ RtNext /\ UNCHANGED <<part, execVars>>
  \/ part = "executors" /\ ExecNext /\ UNCHANGED <<part, rtVars>>

Spec == Init /\ [][Next]_vars /\ RtFairness /\ ExecFairness
=============================================================================
