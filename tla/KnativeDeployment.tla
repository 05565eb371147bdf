------------------------- MODULE KnativeDeployment --------------------------
(* Deployment on Knative (pkg/driver/deployment/knative.go): a goroutine per*)
(* function applies the function's predeployment files and runs knative.sh, *)
(* at most NumCPU of them at a time.  A script that fails is a warning: the *)
(* function has no endpoint.  Clean deletes everything of the namespace.    *)
EXTENDS Deployer, FiniteSets

CONSTANTS
  NumCPU,             \* runtime.NumCPU()
  WithPredeployment   \* the functions that have predeployment files

ASSUME KnativeAssumption ==
  /\ NumCPU \in Nat \ {0}
  /\ WithPredeployment \subseteq Functions

VARIABLES
  deploying,     \* where the goroutine of a function is
  services,      \* on the cluster: the functions whose Knative service exists
  predeployed    \* on the cluster: pods and services of predeployment files, by function

knativeVars == <<deploying, services, predeployed>>

(* `kn service apply` also works on a service that an earlier experiment    *)
(* has left.                                                                *)
KnativeInit ==
  /\ deploying = [f \in Functions |-> "idle"]
  /\ services = {}
  /\ predeployed = [pods |-> {}, services |-> {}]

\* The goroutines that have sent to the channel and not received from it.
Queue == {f \in Functions : deploying[f] \in {"predeployment", "script"}}

StartGoroutine ==
  /\ pc = "start" /\ next < NumFunctions
  /\ deploying' = [deploying EXCEPT ![next] = "blocked"]
  /\ next' = next + 1
  /\ UNCHANGED <<pc, endpoint, cleanError, services, predeployed>>

Enqueue(f) ==
  /\ Alive /\ deploying[f] = "blocked" /\ Cardinality(Queue) < NumCPU
  /\ deploying' = [deploying EXCEPT ![f] = "predeployment"]
  /\ UNCHANGED <<deployerVars, services, predeployed>>

(* Whether `kubectl apply` has worked is not looked at.                     *)
Predeploy(f) ==
  /\ Alive /\ deploying[f] = "predeployment"
  /\ deploying' = [deploying EXCEPT ![f] = "script"]
  /\ \/ UNCHANGED predeployed
     \/ /\ f \in WithPredeployment
        /\ predeployed' = [kind \in DOMAIN predeployed |-> predeployed[kind] \cup {f}]
  /\ UNCHANGED <<deployerVars, services>>

(* knative.sh succeeds, fails with or without the service, or prints no URL,*)
(* which the code takes for granted: the index is out of range.             *)
knativeDeploySingleFunction(f) ==
  /\ Alive /\ deploying[f] = "script"
  /\ \/ /\ services' = services \cup {f}
        /\ endpoint' = endpoint \cup {f}
        /\ deploying' = [deploying EXCEPT ![f] = "done"]
        /\ UNCHANGED pc
     \/ /\ services' \in MaybeAdded(f, services)
        /\ deploying' = [deploying EXCEPT ![f] = "done"]
        /\ UNCHANGED <<pc, endpoint>>
     \/ /\ Exit
        /\ services' = services \cup {f}
        /\ UNCHANGED <<endpoint, deploying>>
  /\ UNCHANGED <<next, cleanError, predeployed>>

\* deployed.Add in the goroutine: Wait only waits for those that have begun.
AllKnativeDone_LateAdd == \A f \in Functions : deploying[f] \in {"idle", "blocked", "done"}

\* deployed.Wait(): Add(len(cfg.Functions)) comes before the first goroutine.
AllKnativeDone == \A f \in Functions : deploying[f] = "done"

KnativeDeployed ==
  /\ AllKnativeDone
  /\ EndLoop("start", "deployed")
  /\ UNCHANGED knativeVars

KnativeClean == EndLoad /\ UNCHANGED knativeVars

DeleteKnativeServices ==
  /\ pc = "clean"
  /\ pc' = "cleanPods"
  /\ \/ services' = {} /\ UNCHANGED cleanError
     \/ services' \in SUBSET services /\ cleanError' = TRUE
  /\ UNCHANGED <<next, endpoint, deploying, predeployed>>

DeletePredeployed(kind) ==
  \/ predeployed' = [predeployed EXCEPT ![kind] = {}] /\ UNCHANGED cleanError
  \/ UNCHANGED predeployed /\ cleanError' = TRUE

DeletePods ==
  /\ pc = "cleanPods"
  /\ pc' = "cleanServices"
  /\ DeletePredeployed("pods")
  /\ UNCHANGED <<next, endpoint, deploying, services>>

DeleteServices ==
  /\ pc = "cleanServices"
  /\ pc' = "done"
  /\ DeletePredeployed("services")
  /\ UNCHANGED <<next, endpoint, deploying, services>>

KnativeStep ==
  \/ StartGoroutine \/ KnativeDeployed
  \/ KnativeClean \/ DeleteKnativeServices \/ DeletePods \/ DeleteServices
  \/ \E f \in Functions : Enqueue(f) \/ Predeploy(f) \/ knativeDeploySingleFunction(f)
=============================================================================
