------------------------------ MODULE Deployer ------------------------------
(* What the deployers of pkg/driver/deployment share: the position of the   *)
(* loader in RunExperiment, the index of the loop over the functions, and   *)
(* the endpoints of the functions.                                          *)
EXTENDS Integers

CONSTANT NumFunctions   \* functions of the trace

ASSUME FunctionsAssumption == NumFunctions \in Nat

Functions == 0 .. NumFunctions - 1
AnyFunction == Functions \cup {NumFunctions}  \* NumFunctions: one that only another trace has

VARIABLES
  pc,         \* where the loader is in Deploy, the load and Clean
  next,       \* the index i of a loop
  endpoint,   \* the functions that have an endpoint
  cleanError  \* Clean has logged that something could not be removed

deployerVars == <<pc, next, endpoint, cleanError>>

DeployerInit == pc = "start" /\ next = 0 /\ endpoint = {} /\ cleanError = FALSE

Exited == pc = "exited"
Alive == ~Exited
Exit == pc' = "exited"

(* A command that fails ends the loader.                                    *)
FatalOr(then) == pc' \in {"exited", then}

(* A loop over the functions ends.                                          *)
EndLoop(at, then) ==
  /\ pc = at /\ next = NumFunctions
  /\ pc' = then /\ next' = 0
  /\ UNCHANGED <<endpoint, cleanError>>

(* RunExperiment: Deploy has returned, the load starts.                     *)
StartLoad ==
  /\ pc = "deployed"
  /\ pc' = "load"
  /\ UNCHANGED <<next, endpoint, cleanError>>

(* RunExperiment: the load has ended.                                       *)
EndLoad ==
  /\ pc = "load"
  /\ pc' = "clean"
  /\ UNCHANGED <<next, endpoint, cleanError>>

\* The value of a set of resources after a command that removes r from it and fails.
MaybeRemoved(r, set) == {set, set \ {r}}
MaybeAdded(r, set) == {set, set \cup {r}}
=============================================================================
