-------------------------- MODULE FunctionDeployer --------------------------
(* What RunExperiment expects of a FunctionDeployer, whatever the platform  *)
(* (pkg/driver/deployment/deployer.go): functions are given endpoints until  *)
(* Deploy returns, the load reads them, Clean follows the load, and the      *)
(* loader may end with log.Fatal before it is done.                          *)
CONSTANT Functions

VARIABLES
  stage,       \* "deploying", "load", "cleaning", "done" or "exited"
  endpoint,    \* the functions that have an endpoint
  bestEffort   \* does the platform go on without a function it could not deploy?

vars == <<stage, endpoint, bestEffort>>

Init == stage = "deploying" /\ endpoint = {} /\ bestEffort \in BOOLEAN

Deploy ==
  /\ stage = "deploying"
  /\ endpoint' \in {e \in SUBSET Functions : endpoint \subseteq e}
  /\ UNCHANGED <<stage, bestEffort>>

StartLoad ==
  /\ stage = "deploying" /\ (bestEffort \/ endpoint = Functions)
  /\ stage' = "load"
  /\ UNCHANGED <<endpoint, bestEffort>>

Clean ==
  /\ \/ stage = "load" /\ stage' = "cleaning"
     \/ stage = "cleaning" /\ stage' = "done"
  /\ UNCHANGED <<endpoint, bestEffort>>

Fatal ==
  /\ stage \in {"deploying", "load", "cleaning"}
  /\ stage' = "exited"
  /\ UNCHANGED <<endpoint, bestEffort>>

Next == Deploy \/ StartLoad \/ Clean \/ Fatal

Spec == Init /\ [][Next]_vars
=============================================================================
