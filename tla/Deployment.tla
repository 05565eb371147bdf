----------------------------- MODULE Deployment -----------------------------
(* RunExperiment of pkg/driver/trace_driver.go around the load: a deployer  *)
(* is created for the platform, deploys the functions, the load runs beside *)
(* the injected failure, and the deployer cleans up.                        *)
EXTENDS AwsDeployment, AzureDeployment, KnativeDeployment, DirigentDeployment,
        OpenWhiskDeployment, FailureTrigger

VARIABLE platform

vars == <<platform, deployerVars, awsVars, azureVars, knativeVars, dirigentVars, actions, failureVars>>

Platforms == {"awslambda", "azurefunctions", "knative", "dirigent", "openwhisk"}

(* What another platform holds is of no interest.                           *)
NoLeftovers ==
  /\ platform # "awslambda" => stacks = {} /\ ~repository
  /\ platform # "azurefunctions" => folders = {} /\ zips = {} /\ ~execFunc
  /\ platform # "dirigent" => ~deployWorkflow /\ ~prepull
  /\ platform # "openwhisk" => actions = {}

Init ==
  /\ platform \in Platforms
  /\ DeployerInit /\ AwsInit /\ AzureInit /\ KnativeInit /\ DirigentInit /\ OpenWhiskInit
  /\ FailureInit
  /\ NoLeftovers

(* CreateDeployer: the methods of the platform's deployer.                  *)
DeployerStep ==
  /\ \/ /\ platform = "awslambda" /\ AwsStep
        /\ UNCHANGED <<azureVars, knativeVars, dirigentVars, actions>>
     \/ /\ platform = "azurefunctions" /\ AzureStep
        /\ UNCHANGED <<awsVars, knativeVars, dirigentVars, actions>>
     \/ /\ platform = "knative" /\ KnativeStep
        /\ UNCHANGED <<awsVars, azureVars, dirigentVars, actions>>
     \/ /\ platform = "dirigent" /\ DirigentLoaderStep
        /\ UNCHANGED <<awsVars, azureVars, knativeVars, actions>>
     \/ /\ platform = "openwhisk" /\ OpenWhiskStep
        /\ UNCHANGED <<awsVars, azureVars, knativeVars, dirigentVars>>
  /\ UNCHANGED <<platform, failureVars>>

ControlPlaneStep ==
  /\ \E f \in Functions : Prepull(f)
  /\ UNCHANGED <<platform, awsVars, azureVars, knativeVars, actions, failureVars>>

platformVars == <<platform, awsVars, azureVars, knativeVars, dirigentVars, actions>>

RunExperiment ==
  /\ StartLoad /\ GoScheduleFailure
  /\ UNCHANGED platformVars

ScheduleFailure ==
  /\ \/ TriggerFailure(CASE platform = "knative" -> triggerKnativeFailure
                         [] platform = "dirigent" -> triggerDirigentFailure
                         [] OTHER -> {})
     \/ \E n \in failing : CommandEnds(n)
     \/ FailureOver
  /\ UNCHANGED platformVars

LoaderStep == DeployerStep \/ RunExperiment \/ ScheduleFailure

Finished == pc \in {"done", "exited"} /\ UNCHANGED vars

Next == LoaderStep \/ ControlPlaneStep \/ Finished

(* Go runs a goroutine that can run, and a command that was started ends.   *)
(* Nothing says that Dirigent ever has a function ready.                    *)
Spec == Init /\ [][Next]_vars /\ WF_vars(LoaderStep)

(***************************************************************************)
(* Properties                                                              *)
(***************************************************************************)
TypeOK ==
  /\ platform \in Platforms
  /\ AwsTypeOK
  /\ next \in 0 .. IF platform = "awslambda" THEN NumGroups ELSE NumFunctions
  /\ endpoint \subseteq Functions /\ cleanError \in BOOLEAN
  /\ resourceGroup \in {"none", "exists", "deleting"}
  /\ apps \cup services \cup registered \cup prepulled \subseteq Functions
  /\ folders \cup zips \cup actions \subseteq AnyFunction
  /\ cfgFunctions \in Seq(Functions)
  /\ failing \subseteq FailNode \cup {0}

Stage ==
  CASE pc \in {"load", "done", "exited"} -> pc
    [] pc \in {"clean", "cleanZips", "cleanWorkload", "deleteGroup", "cleanPods", "cleanServices"} ->
         "cleaning"
    [] OTHER -> "deploying"

(* When Deploy has returned and while the load runs, a function that has an *)
(* endpoint is up: on AWS every group's stack; on Azure its app, in a group *)
(* nobody deletes; on Knative its service; on Dirigent its registration,    *)
(* and in a prepull mode /check has answered 200.  (In Dirigent's workflow   *)
(* mode the endpoints are those of compositions, and nothing is said of      *)
(* them here.)  No failure is injected before.                              *)
ReadyWhenDeployed ==
  /\ pc \in {"deployed", "load"} =>
       CASE platform = "awslambda" -> AwsReady
         [] platform = "azurefunctions" -> endpoint \subseteq apps /\ resourceGroup = "exists"
         [] platform = "knative" -> endpoint \subseteq services
         [] platform = "dirigent" ->
              deployWorkflow \/ (endpoint \subseteq IF prepull THEN prepulled ELSE registered)
         [] platform = "openwhisk" -> endpoint \subseteq actions
  /\ failing # {} => Stage # "deploying"

(* On AWS, Azure, Knative and OpenWhisk, an experiment in whose clean-up no  *)
(* step has logged a failure ("Deleted all" on AWS) leaves nothing of this   *)
(* trace on the platform and no file, but for an AWS repository that         *)
(* `describe-repositories` has failed to report.  What only another, larger  *)
(* trace has left is not looked for, except by RemoveAll and `--all`.  On     *)
(* Azure, neither does a loader that InitAzureFunctions ends leave its        *)
(* resource group.                                                          *)
CleanLeavesNothing ==
  /\ pc = "done" /\ ~cleanError =>
       /\ platform = "awslambda" => AwsClean
       /\ resourceGroup # "exists" /\ folders = {} /\ zips \cap Functions = {} /\ ~execFunc
       /\ services = {} /\ predeployed.pods = {} /\ predeployed.services = {}
       /\ actions \cap Functions = {}
  /\ groupDeleted /\ ~cleanError => resourceGroup # "exists"

(* The loader gets through deployment, load and clean-up or ends with        *)
(* log.Fatal, unless Dirigent never has a function ready.                    *)
DeploymentEnds ==
  \/ <>(pc \in {"done", "exited"})
  \/ <>[](\E f \in Functions : registering[f] = "check" /\ f \notin prepulled)

(* Every deployer is a FunctionDeployer: endpoints are only set in Deploy,   *)
(* the load starts with all of them on AWS, Azure and OpenWhisk, and Clean   *)
(* follows the load.                                                         *)
Abstract == INSTANCE FunctionDeployer WITH
  stage <- Stage,
  bestEffort <- platform \in {"knative", "dirigent"}

RefinesDeployer == Abstract!Spec

(* dirigent.go:88 "create a function for each registered composition".       *)
EachCompositionIsAFunction ==
  platform = "dirigent" /\ deployWorkflow /\ pc = "load" =>
    \A i \in DOMAIN cfgFunctions : name[cfgFunctions[i]] = i
=============================================================================
