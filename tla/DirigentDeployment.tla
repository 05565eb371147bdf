------------------------- MODULE DirigentDeployment -------------------------
(* Deployment on Dirigent (pkg/driver/deployment/dirigent.go): a goroutine  *)
(* per function registers it with the control plane and, in a prepull mode, *)
(* polls until the control plane says that it is ready.  A registration     *)
(* that fails is only logged.  In workflow mode the functions of the        *)
(* workflow are registered one after the other, then the workflow itself,   *)
(* and the functions of the trace are replaced by its compositions.  Clean  *)
(* does nothing: registrations stay.                                        *)
EXTENDS Deployer, Sequences

CONSTANT NumCompositions   \* compositions of the workflow's configuration

ASSUME DirigentAssumption == NumCompositions \in Nat \ {0}

VARIABLES
  deployWorkflow, \* DirigentConfiguration.Workflow
  prepull,        \* is PrepullMode something else than "" and "none"?
  registering,    \* where the registration of a function is
  registered,     \* control plane: the functions it was told of
  prepulled,      \* control plane: the functions for which /check answers 200
  cfgFunctions,   \* cfg.Functions: a sequence of pointers, as the first function's object
  name,           \* the Name of the object: 0, or the number of a composition
  wfEndpoint      \* Deploy's local variable endpoint is not ""

dirigentConfig == <<deployWorkflow, prepull>>
workflowVars == <<cfgFunctions, name, wfEndpoint>>
dirigentVars == <<dirigentConfig, registering, registered, prepulled, workflowVars>>

DirigentInit ==
  /\ deployWorkflow \in BOOLEAN /\ prepull \in BOOLEAN
  /\ registering = [f \in Functions |-> "idle"]
  /\ registered = {} /\ prepulled = {}
  /\ cfgFunctions = [i \in 1 .. NumFunctions |-> i - 1]
  /\ name = [f \in Functions |-> 0] /\ wfEndpoint = FALSE

(***************************************************************************)
(* deployDirigentFunction                                                  *)
(***************************************************************************)
\* The endpoint is stored and the readiness is not waited for.
AfterRegistration_NoCheck == "done"

AfterRegistration == IF prepull THEN "check" ELSE "done"

(* The answers of the control plane: an endpoint; an empty body, from which *)
(* strings.Split makes one empty endpoint; or an error, with the function   *)
(* registered or not.                                                       *)
deployDirigentFunction(f, gotEndpoint) ==
  /\ Alive /\ registering[f] = "register"
  /\ \/ /\ registered' = registered \cup {f}
        /\ registering' = [registering EXCEPT ![f] = AfterRegistration]
     \/ /\ registered' \in MaybeAdded(f, registered)
        /\ ~gotEndpoint
        /\ registering' = [registering EXCEPT ![f] = "done"]

(* The loop of checkForRegistration ends when the control plane answers 200;*)
(* any other answer, or none, leads to the next attempt.                    *)
checkForRegistration(f) ==
  /\ Alive /\ registering[f] = "check" /\ f \in prepulled
  /\ registering' = [registering EXCEPT ![f] = "done"]
  /\ UNCHANGED <<deployerVars, dirigentConfig, registered, prepulled, workflowVars>>

(* The control plane and its workers pull the image.                        *)
Prepull(f) ==
  /\ prepull /\ f \in registered \ prepulled
  /\ prepulled' = prepulled \cup {f}
  /\ UNCHANGED <<deployerVars, dirigentConfig, registering, registered, workflowVars>>

(***************************************************************************)
(* Deploy, one goroutine per function                                      *)
(***************************************************************************)
StartRegistration ==
  /\ pc = "start" /\ ~deployWorkflow /\ next < NumFunctions
  /\ registering' = [registering EXCEPT ![next] = "register"]
  /\ next' = next + 1
  /\ UNCHANGED <<pc, endpoint, cleanError, dirigentConfig, registered, prepulled, workflowVars>>

(* A function without metadata ends the loader.                             *)
RegisterFunction(f) ==
  /\ ~deployWorkflow
  /\ \/ /\ \E gotEndpoint \in BOOLEAN :
             /\ deployDirigentFunction(f, gotEndpoint)
             /\ endpoint' = IF gotEndpoint THEN endpoint \cup {f} ELSE endpoint
        /\ UNCHANGED pc
     \/ /\ Alive /\ registering[f] = "register" /\ Exit
        /\ UNCHANGED <<endpoint, registering, registered>>
  /\ UNCHANGED <<next, cleanError, dirigentConfig, prepulled, workflowVars>>

DirigentDeployed ==
  /\ ~deployWorkflow /\ \A f \in Functions : registering[f] = "done"
  /\ EndLoop("start", "deployed")
  /\ UNCHANGED dirigentVars

(***************************************************************************)
(* Deploy in workflow mode                                                 *)
(***************************************************************************)
(* The configuration and the metadata of the first function are needed.     *)
ReadWorkflowConfig ==
  /\ pc = "start" /\ deployWorkflow
  /\ pc' \in {"exited"} \cup (IF NumFunctions > 0 THEN {"workflow"} ELSE {})
  /\ UNCHANGED <<next, endpoint, cleanError, dirigentVars>>

\* The call of deployDirigentFunction has returned.
WorkflowIdle == \A f \in Functions : registering[f] \in {"idle", "done"}

StartWorkflowFunction ==
  /\ pc = "workflow" /\ next < NumFunctions /\ WorkflowIdle
  /\ registering' = [registering EXCEPT ![next] = "register"]
  /\ next' = next + 1
  /\ UNCHANGED <<pc, endpoint, cleanError, dirigentConfig, registered, prepulled, workflowVars>>

(* The endpoint that is kept is the one of the last function.               *)
DeployWorkflowFunction(f) ==
  /\ pc = "workflow"
  /\ \E gotEndpoint \in BOOLEAN :
       deployDirigentFunction(f, gotEndpoint) /\ wfEndpoint' = gotEndpoint
  /\ UNCHANGED <<deployerVars, dirigentConfig, prepulled, cfgFunctions, name>>

(* The control plane has registered n compositions.  newFunctions[i] is the *)
(* pointer cfg.Functions[0] for every i, so that each assignment to its     *)
(* Name overwrites the one before; there are InData for NumCompositions.    *)
deployDirigentWorkflow ==
  /\ pc = "workflow" /\ next = NumFunctions /\ WorkflowIdle
  /\ \/ Exit /\ UNCHANGED <<next, endpoint, cfgFunctions, name>>
     \/ \E n \in 1 .. NumCompositions :
          /\ cfgFunctions' = [i \in 1 .. n |-> cfgFunctions[1]]
          /\ name' = [name EXCEPT ![cfgFunctions[1]] = n]
          /\ endpoint' = IF wfEndpoint THEN {cfgFunctions[1]} ELSE {}
          /\ pc' = "deployed" /\ next' = 0
  /\ UNCHANGED <<cleanError, dirigentConfig, registering, registered, prepulled, wfEndpoint>>

(* Clean                                                                    *)
DirigentClean ==
  /\ \/ pc = "load" /\ pc' = "clean"
     \/ pc = "clean" /\ pc' = "done"
  /\ UNCHANGED <<next, endpoint, cleanError, dirigentVars>>

DirigentLoaderStep ==
  \/ StartRegistration \/ DirigentDeployed \/ ReadWorkflowConfig \/ StartWorkflowFunction
  \/ deployDirigentWorkflow \/ DirigentClean
  \/ \E f \in Functions :
       RegisterFunction(f) \/ DeployWorkflowFunction(f) \/ checkForRegistration(f)

DirigentStep == DirigentLoaderStep \/ \E f \in Functions : Prepull(f)
=============================================================================
