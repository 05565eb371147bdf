------------------------- MODULE DeploymentProofs ---------------------------
(* Proofs about Deployment, for any number of functions, groups, nodes and  *)
(* compositions: its type invariant, ReadyWhenDeployed, CleanLeavesNothing, *)
(* and the refinement of FunctionDeployer.                                  *)
EXTENDS Deployment, FiniteSetTheorems, TLAPS

-----------------------------------------------------------------------------
(* The inductive invariant, platform by platform.                           *)

(* The cleaners of AWS.  Those of an idle cleaner have returned; what c has *)
(* counted are goroutines that have returned; a group only runs             *)
(* CleanAWSLambda when its deployment has failed, and never deploys again.  *)
Returned(c) == {g \in Groups : g < cleanNext[c] /\ removing[c][g] = "idle"}

CleanersInv ==
  /\ \A c \in Cleaners :
       /\ cleaner[c] = "idle" => \A g \in Groups : removing[c][g] = "idle"
       /\ \A g \in Groups : removing[c][g] # "idle" => g < cleanNext[c]
       /\ counter[c] <= Cardinality(Returned(c))
  /\ \A g \in Groups : cleaner[g] # "idle" => group[g] = "cleaning"

Quiet == \A g \in Groups : group[g] # "cleaning"
AllUp == \A g \in Groups : group[g] = "done"

(* What Clean's call of CleanAWSLambda has counted is gone.                 *)
Gone == {g \in Groups : g < cleanNext[Main] /\ removing[Main][g] = "idle" /\ g \notin files \cup stacks}

AwsPhases ==
  /\ pc \in {"start", "leftovers", "cleanPrevious", "logGroups", "account", "ecr", "configs",
             "deploy", "deployed", "load", "clean", "done", "exited"}
  /\ next \in 0 .. NumGroups
  /\ \A g \in Groups : group[g] = "idle" <=> g >= next
  /\ pc \in {"start", "leftovers", "cleanPrevious", "logGroups", "account", "ecr", "configs"} =>
       next = 0
  /\ pc \in {"deployed", "load", "clean", "done"} => AllUp
  /\ cleaner[Main] # "idle" => pc \in {"cleanPrevious", "clean", "exited"}
  /\ pc = "configs" => repository
  /\ pc \in {"deploy", "deployed", "load"} /\ Quiet =>
       /\ repository /\ Groups \subseteq files
       /\ \A g \in Groups : group[g] \in {"created", "done"} => g \in stacks
  /\ \A g \in Groups : group[g] = "done" => Group(g) \subseteq endpoint
  /\ pc = "clean" =>
       /\ \A g \in Groups : g \notin files \/ removing[Main][g] = "rm" => g \notin stacks
       /\ counter[Main] <= Cardinality(Gone)
       /\ cleaner[Main] = "loop" /\ repository => overlooked \/ cleanError
  /\ pc = "done" /\ ~cleanError => AwsClean

AwsInv == AwsTypeOK /\ (platform = "awslambda" => CleanersInv /\ AwsPhases)

(* Azure: the group exists and nobody deletes it until the last step, each  *)
(* loop has done the functions below next.                                  *)
AzureTypes ==
  /\ resourceGroup \in {"none", "exists", "deleting"}
  /\ apps \subseteq Functions /\ folders \subseteq AnyFunction /\ zips \subseteq AnyFunction
  /\ execFunc \in BOOLEAN /\ groupDeleted \in BOOLEAN

AzurePhases ==
  /\ pc \in {"start", "copy", "group", "storage", "app", "scm", "oryx", "abort", "folders", "zip",
             "push", "deployed", "load", "clean", "cleanZips", "cleanWorkload", "deleteGroup",
             "done", "exited"}
  /\ next \in 0 .. NumFunctions
  /\ pc \in {"scm", "oryx"} => next < NumFunctions
  /\ pc \in {"start", "copy", "group", "storage", "deployed", "load", "clean"} => next = 0
  /\ pc \in {"start", "copy", "group"} => resourceGroup = "none"
  /\ pc \notin {"start", "copy", "group", "done", "exited"} => resourceGroup = "exists"
  /\ pc \notin {"done", "exited"} => endpoint \subseteq apps
  /\ pc = "push" => \A f \in Functions : f < next => f \in endpoint
  /\ pc = "deployed" => endpoint = Functions
  /\ pc = "cleanZips" => folders = {} /\ \A f \in zips : f >= next
  /\ pc = "cleanWorkload" => folders = {} /\ zips \cap Functions = {}
  /\ pc \in {"deleteGroup", "done"} /\ ~cleanError =>
       folders = {} /\ zips \cap Functions = {} /\ ~execFunc
  /\ pc = "done" /\ ~cleanError => resourceGroup # "exists"
  /\ groupDeleted => pc = "exited"
  /\ groupDeleted /\ ~cleanError => resourceGroup # "exists"

AzureInv ==
  /\ AzureTypes
  /\ platform = "azurefunctions" => AzurePhases
  /\ platform # "azurefunctions" =>
       resourceGroup = "none" /\ folders = {} /\ zips = {} /\ ~execFunc /\ ~groupDeleted

(* Knative: no goroutine is left when Deploy has returned.                  *)
KnativeTypes ==
  /\ deploying \in [Functions -> {"idle", "blocked", "predeployment", "script", "done"}]
  /\ services \subseteq Functions
  /\ predeployed \in [{"pods", "services"} -> SUBSET Functions]

KnativePhases ==
  /\ pc \in {"start", "deployed", "load", "clean", "cleanPods", "cleanServices", "done", "exited"}
  /\ next \in 0 .. NumFunctions
  /\ pc \notin {"start", "exited"} => AllKnativeDone
  /\ pc \in {"start", "deployed", "load"} => endpoint \subseteq services
  /\ pc \in {"cleanPods", "cleanServices", "done"} /\ ~cleanError => services = {}
  /\ pc \in {"cleanServices", "done"} /\ ~cleanError => predeployed.pods = {}
  /\ pc = "done" /\ ~cleanError => predeployed.services = {}

KnativeInv ==
  /\ KnativeTypes
  /\ platform = "knative" => KnativePhases
  /\ platform # "knative" => services = {} /\ predeployed.pods = {} /\ predeployed.services = {}

(* Dirigent: a function has its endpoint once it is registered, and its     *)
(* goroutine ends after /check has answered 200.                            *)
DirigentTypes ==
  /\ deployWorkflow \in BOOLEAN /\ prepull \in BOOLEAN /\ wfEndpoint \in BOOLEAN
  /\ registering \in [Functions -> {"idle", "register", "check", "done"}]
  /\ registered \subseteq Functions /\ prepulled \subseteq Functions
  /\ cfgFunctions \in Seq(Functions)

DirigentPhases ==
  /\ pc \in {"start", "workflow", "deployed", "load", "clean", "done", "exited"}
  /\ next \in 0 .. NumFunctions
  /\ ~deployWorkflow =>
       /\ pc # "workflow"
       /\ endpoint \subseteq registered
       /\ pc = "start" => \A f \in Functions : f >= next => registering[f] = "idle"
       /\ pc \notin {"start", "exited"} => \A f \in Functions : registering[f] = "done"
       /\ \A f \in endpoint :
            /\ registering[f] \in {"check", "done"}
            /\ prepull /\ registering[f] = "done" => f \in prepulled
  /\ deployWorkflow /\ pc \in {"start", "workflow"} =>
       /\ endpoint = {}
       /\ Len(cfgFunctions) = NumFunctions
  /\ pc = "workflow" => NumFunctions > 0

DirigentInv == DirigentTypes /\ (platform = "dirigent" => DirigentPhases)

(* OpenWhisk: each loop has done the functions below next.                  *)
OpenWhiskPhases ==
  /\ pc \in {"start", "create", "deployed", "load", "clean", "done", "exited"}
  /\ next \in 0 .. NumFunctions
  /\ pc \in {"start", "deployed", "load"} => next = 0
  /\ pc \in {"start", "create", "deployed", "load"} => endpoint \subseteq actions
  /\ pc = "create" => \A f \in Functions : f < next => f \in endpoint
  /\ pc = "deployed" => endpoint = Functions
  /\ pc = "clean" /\ ~cleanError => \A f \in actions : f >= next
  /\ pc = "done" /\ ~cleanError => actions \cap Functions = {}

OpenWhiskInv ==
  /\ actions \subseteq AnyFunction
  /\ platform = "openwhisk" => OpenWhiskPhases
  /\ platform # "openwhisk" => actions = {}

(* The failure is only scheduled when the load starts.                      *)
FailureInv ==
  /\ failing \subseteq FailNode \cup {0}
  /\ Stage = "deploying" => failure = "off" /\ failing = {}

CommonInv == platform \in Platforms /\ endpoint \subseteq Functions /\ cleanError \in BOOLEAN

DInv ==
  CommonInv /\ FailureInv /\ AwsInv /\ AzureInv /\ KnativeInv /\ DirigentInv /\ OpenWhiskInv

-----------------------------------------------------------------------------
(* Groups                                                                   *)

(* A quotient by groupSize is the number of a group that contains it.       *)
LEMMA Quotient ==
  ASSUME NEW n \in Nat
  PROVE  /\ n \div groupSize \in Nat
         /\ (n \div groupSize) * groupSize <= n
         /\ n < (n \div groupSize) * groupSize + groupSize
  <1>1. groupSize \in Nat /\ groupSize > 0  BY DeployAssumption
  <1>2. n \div groupSize \in Int /\ n % groupSize \in 0 .. groupSize - 1
    BY <1>1
  <1>3. n = groupSize * (n \div groupSize) + (n % groupSize)
    BY <1>1
  <1>4. n \div groupSize >= 0
    BY <1>1, <1>2, <1>3
  <1> QED BY <1>1, <1>2, <1>3, <1>4

LEMMA NumGroupsNat == NumGroups \in Nat /\ Main \in Cleaners /\ Groups \subseteq Cleaners
  <1>1. groupSize \in Nat /\ groupSize > 0  BY DeployAssumption
  <1>2. NumFunctions + groupSize - 1 \in Nat  BY <1>1, FunctionsAssumption
  <1>3. NumGroups \in Nat  BY <1>2, Quotient DEF NumGroups
  <1> QED BY <1>3 DEF Main, Cleaners

LEMMA GroupsFinite == IsFiniteSet(Groups) /\ Cardinality(Groups) = NumGroups
  <1>1. 0 \in Int /\ NumGroups - 1 \in Int /\ NumGroups - 1 - 0 + 1 = NumGroups  BY NumGroupsNat
  <1>2. IsFiniteSet(0 .. NumGroups - 1)
        /\ Cardinality(0 .. NumGroups - 1) = IF 0 > NumGroups - 1 THEN 0 ELSE NumGroups - 1 - 0 + 1
    BY <1>1, FS_Interval
  <1> QED BY <1>1, <1>2, NumGroupsNat DEF Groups

(* createSlsConfigFiles splits the functions into the groups: each function *)
(* is in one of them.                                                       *)
LEMMA GroupsCover == UNION {Group(g) : g \in Groups} = Functions
  <1>1. groupSize \in Nat /\ groupSize > 0 /\ NumFunctions \in Nat
    BY DeployAssumption, FunctionsAssumption
  <1>2. ASSUME NEW g \in Groups, NEW f \in Group(g)
        PROVE  f \in Functions
    <2>1. g \in Nat  BY NumGroupsNat DEF Groups
    <2>2. g * groupSize \in Nat  BY <1>1, <2>1
    <2>3. (g + 1) * groupSize \in Nat  BY <1>1, <2>1
    <2> QED BY <1>1, <1>2, <2>2, <2>3 DEF Group, Lesser, Functions
  <1>3. ASSUME NEW f \in Functions
        PROVE  f \div groupSize \in Groups /\ f \in Group(f \div groupSize)
    <2> DEFINE q == f \div groupSize
               m == NumFunctions + groupSize - 1
    <2>1. f \in Nat /\ f < NumFunctions  BY <1>1 DEF Functions
    <2>2. q \in Nat /\ q * groupSize <= f /\ f < q * groupSize + groupSize  BY <2>1, Quotient
    <2>3. m \in Nat  BY <1>1
    <2>4. NumGroups \in Nat /\ m < NumGroups * groupSize + groupSize
      BY <2>3, Quotient, NumGroupsNat DEF NumGroups
    <2>5. (q + 1) * groupSize = q * groupSize + groupSize  BY <1>1, <2>2
    <2> HIDE DEF q
    <2>6. q < NumGroups
      <3>1. SUFFICES ASSUME NumGroups <= q PROVE FALSE  BY <2>2, <2>4
      <3>2. NumGroups * groupSize <= q * groupSize  BY <3>1, <1>1, <2>2, <2>4
      <3> QED BY <3>2, <1>1, <2>1, <2>2, <2>4
    <2>7. q \in Groups  BY <2>2, <2>4, <2>6 DEF Groups
    <2>8. q * groupSize \in Nat /\ (q + 1) * groupSize \in Nat  BY <1>1, <2>2
    <2>9. f \in Group(q)  BY <1>1, <2>1, <2>2, <2>5, <2>8 DEF Group, Lesser
    <2> QED BY <2>7, <2>9 DEF q
  <1> QED BY <1>2, <1>3

-----------------------------------------------------------------------------
(* Stages                                                                   *)

CleaningAt ==
  {"clean", "cleanZips", "cleanWorkload", "deleteGroup", "cleanPods", "cleanServices"}

LEMMA StageOf ==
  /\ pc \in {"load", "done", "exited"} => Stage = pc
  /\ pc \in CleaningAt => Stage = "cleaning"
  /\ pc \notin {"load", "done", "exited"} \cup CleaningAt => Stage = "deploying"
  BY Zenon DEF Stage, CleaningAt

(* What a step of a deployer does to the state of FunctionDeployer.         *)
DeployerMove ==
  /\ \/ Stage' = Stage /\ endpoint' = endpoint
     \/ Stage = "deploying" /\ Stage' = "deploying" /\ endpoint \subseteq endpoint'
     \/ Stage = "load" /\ Stage' = "cleaning" /\ endpoint' = endpoint
     \/ Stage = "cleaning" /\ Stage' = "done" /\ endpoint' = endpoint
     \/ Stage \in {"deploying", "load", "cleaning"} /\ Stage' = "exited" /\ endpoint' = endpoint
  /\ endpoint' \subseteq Functions /\ cleanError' \in BOOLEAN

(* The ways in which the actions move pc and the endpoints.                 *)
Working(p) == p \notin {"load", "done", "exited"} \cup CleaningAt

LEMMA Moves ==
  ASSUME CommonInv,
         \/ pc' = pc /\ endpoint' = endpoint
         \/ /\ Working(pc) /\ Working(pc')
            /\ endpoint \subseteq endpoint' /\ endpoint' \subseteq Functions
         \/ pc = "load" /\ pc' \in CleaningAt /\ endpoint' = endpoint
         \/ pc \in CleaningAt /\ pc' \in CleaningAt \cup {"done"} /\ endpoint' = endpoint
         \/ pc # "done" /\ pc' = "exited" /\ endpoint' = endpoint,
         cleanError' \in BOOLEAN
  PROVE  DeployerMove
  <1>1. /\ pc' \in {"load", "done", "exited"} => Stage' = pc'
        /\ pc' \in CleaningAt => Stage' = "cleaning"
        /\ Working(pc') => Stage' = "deploying"
    BY Zenon DEF Stage, CleaningAt, Working
  <1>2. pc' = pc => Stage' = Stage  BY DEF Stage
  <1>3. Working(pc) => Stage = "deploying"  BY StageOf DEF Working
  <1>4. endpoint \subseteq Functions  BY DEF CommonInv
  <1>5. endpoint' \subseteq Functions  BY <1>4
  <1>6. CASE pc' = pc /\ endpoint' = endpoint  BY <1>2, <1>5, <1>6 DEF DeployerMove
  <1>7. CASE Working(pc) /\ Working(pc') /\ endpoint \subseteq endpoint'
    BY <1>1, <1>3, <1>5, <1>7 DEF DeployerMove
  <1>8. CASE pc = "load" /\ pc' \in CleaningAt /\ endpoint' = endpoint
    BY <1>1, StageOf, <1>5, <1>8 DEF DeployerMove
  <1>9. CASE pc \in CleaningAt /\ pc' \in CleaningAt \cup {"done"} /\ endpoint' = endpoint
    BY <1>1, StageOf, <1>5, <1>9 DEF DeployerMove
  <1>10. CASE pc # "done" /\ pc' = "exited" /\ endpoint' = endpoint
    <2>1. Stage' = "exited"  BY <1>1, <1>10
    <2>2. Stage \in {"deploying", "load", "cleaning", "exited"}
      BY <1>3, <1>10, StageOf DEF Working
    <2> QED BY <1>5, <1>10, <2>1, <2>2 DEF DeployerMove
  <1> QED BY <1>6, <1>7, <1>8, <1>9, <1>10

(* Whatever the platform, what the others' deployers hold does not change.  *)
LEMMA AwsFrame ==
  ASSUME AwsInv, UNCHANGED <<platform, awsVars>>, platform # "awslambda"
  PROVE  AwsInv'
  BY DEF AwsInv, AwsTypeOK, awsVars, world, Groups, Cleaners, NumGroups

LEMMA AzureFrame ==
  ASSUME AzureInv, UNCHANGED <<platform, azureVars>>, platform # "azurefunctions"
  PROVE  AzureInv'
  BY DEF AzureInv, AzureTypes, azureVars, disk, azure

LEMMA KnativeFrame ==
  ASSUME KnativeInv, UNCHANGED <<platform, knativeVars>>, platform # "knative"
  PROVE  KnativeInv'
  BY DEF KnativeInv, KnativeTypes, knativeVars

LEMMA DirigentFrame ==
  ASSUME DirigentInv, UNCHANGED <<platform, dirigentVars>>, platform # "dirigent"
  PROVE  DirigentInv'
  BY DEF DirigentInv, DirigentTypes, dirigentVars, dirigentConfig, workflowVars

LEMMA OpenWhiskFrame ==
  ASSUME OpenWhiskInv, UNCHANGED <<platform, actions>>, platform # "openwhisk"
  PROVE  OpenWhiskInv'
  BY DEF OpenWhiskInv

-----------------------------------------------------------------------------
(* The steps of each deployer keep its invariant.                           *)

LEMMA OpenWhiskKeeps ==
  ASSUME DInv, platform = "openwhisk", UNCHANGED platform, OpenWhiskStep
  PROVE  OpenWhiskInv' /\ DeployerMove
  <1> USE DEF DInv
  <1>1. /\ CommonInv /\ NumFunctions \in Nat /\ OpenWhiskPhases
        /\ endpoint \subseteq Functions /\ cleanError \in BOOLEAN
        /\ actions \subseteq AnyFunction
    BY FunctionsAssumption DEF OpenWhiskInv, CommonInv
  <1>2. SUFFICES /\ actions' \subseteq AnyFunction
                 /\ OpenWhiskPhases'
                 /\ DeployerMove
    BY DEF OpenWhiskInv
  <1>3. CASE GetApiHost
    <2>1. OpenWhiskPhases'
      BY <1>1, <1>3 DEF GetApiHost, FatalOr, OpenWhiskPhases, Functions
    <2>2. DeployerMove
      BY <1>1, <1>3, Moves DEF GetApiHost, FatalOr, Working, CleaningAt
    <2> QED BY <1>1, <1>3, <2>1, <2>2 DEF GetApiHost
  <1>4. CASE CreateAction
    <2>1. next \in Functions  BY <1>1, <1>4 DEF CreateAction, OpenWhiskPhases, Functions
    <2>2. actions' \subseteq AnyFunction  BY <1>1, <1>4, <2>1 DEF CreateAction, MaybeAdded, AnyFunction
    <2>3. OpenWhiskPhases'
      <3>1. CASE pc' = "exited" /\ UNCHANGED next
        BY <1>1, <3>1 DEF OpenWhiskPhases
      <3>2. CASE /\ pc' = "create" /\ next' = next + 1 /\ cleanError' = cleanError
                 /\ actions' = actions \cup {next} /\ endpoint' = endpoint \cup {next}
        <4>1. endpoint' \subseteq actions'  BY <1>1, <1>4, <3>2 DEF CreateAction, OpenWhiskPhases
        <4>2. \A f \in Functions : f < next' => f \in endpoint'
          BY <1>1, <1>4, <3>2 DEF CreateAction, OpenWhiskPhases, Functions
        <4>3. next' \in 0 .. NumFunctions  BY <1>1, <2>1, <3>2 DEF Functions
        <4> QED BY <3>2, <4>1, <4>2, <4>3 DEF OpenWhiskPhases
      <3> QED BY <1>4, <3>1, <3>2 DEF CreateAction, Exit
    <2>4. DeployerMove
      BY <1>1, <1>4, <2>1, Moves DEF CreateAction, Exit, Working, CleaningAt
    <2> QED BY <2>2, <2>3, <2>4
  <1>5. CASE ActionsCreated
    <2>0. endpoint = Functions
      <3>1. \A f \in Functions : f < next  BY <1>1, <1>5 DEF ActionsCreated, EndLoop, Functions
      <3> QED BY <1>1, <1>5, <3>1 DEF ActionsCreated, EndLoop, OpenWhiskPhases
    <2>1. OpenWhiskPhases'
      BY <1>1, <1>5, <2>0 DEF ActionsCreated, EndLoop, OpenWhiskPhases
    <2> QED BY <1>1, <1>5, <2>1, Moves DEF ActionsCreated, EndLoop, Working, CleaningAt
  <1>6. CASE OpenWhiskClean
    <2>1. OpenWhiskPhases'
      BY <1>1, <1>6 DEF OpenWhiskClean, EndLoad, OpenWhiskPhases, Functions, AnyFunction
    <2> QED BY <1>1, <1>6, <2>1, Moves DEF OpenWhiskClean, EndLoad, Working, CleaningAt
  <1>7. CASE DeleteAction
    <2>1. actions' \subseteq actions  BY <1>7 DEF DeleteAction, MaybeRemoved
    <2>2. cleanError' \in BOOLEAN  BY <1>1, <1>7 DEF DeleteAction
    <2>3. OpenWhiskPhases'
      BY <1>1, <1>7, <2>1 DEF DeleteAction, OpenWhiskPhases, Functions, AnyFunction
    <2>4. DeployerMove  BY <1>1, <1>7, <2>2, Moves DEF DeleteAction
    <2> QED BY <1>1, <2>1, <2>3, <2>4
  <1>8. CASE ActionsDeleted
    <2>1. OpenWhiskPhases'
      BY <1>1, <1>8 DEF ActionsDeleted, EndLoop, OpenWhiskPhases, Functions
    <2> QED BY <1>1, <1>8, <2>1, Moves DEF ActionsDeleted, EndLoop, Working, CleaningAt
  <1> QED BY <1>3, <1>4, <1>5, <1>6, <1>7, <1>8 DEF OpenWhiskStep

LEMMA KnativeKeeps ==
  ASSUME DInv, platform = "knative", UNCHANGED platform, KnativeStep
  PROVE  KnativeInv' /\ DeployerMove
  <1> USE DEF DInv
  <1>1. /\ CommonInv /\ NumFunctions \in Nat /\ KnativeTypes /\ KnativePhases
        /\ endpoint \subseteq Functions /\ cleanError \in BOOLEAN
    BY FunctionsAssumption DEF KnativeInv, CommonInv
  <1>2. SUFFICES KnativeTypes' /\ KnativePhases' /\ DeployerMove
    BY DEF KnativeInv
  <1>3. CASE StartGoroutine
    <2>1. KnativeTypes'  BY <1>1, <1>3 DEF StartGoroutine, KnativeTypes
    <2>2. KnativePhases'  BY <1>1, <1>3 DEF StartGoroutine, KnativePhases
    <2>3. DeployerMove  BY <1>1, <1>3, Moves DEF StartGoroutine
    <2> QED BY <2>1, <2>2, <2>3
  <1>4. CASE KnativeDeployed
    <2>1. KnativeTypes'  BY <1>1, <1>4 DEF KnativeDeployed, KnativeTypes, knativeVars
    <2>2. KnativePhases'
      BY <1>1, <1>4 DEF KnativeDeployed, EndLoop, KnativePhases, knativeVars, AllKnativeDone
    <2>3. DeployerMove
      BY <1>1, <1>4, Moves DEF KnativeDeployed, EndLoop, Working, CleaningAt
    <2> QED BY <2>1, <2>2, <2>3
  <1>5. CASE KnativeClean
    <2>1. KnativeTypes'  BY <1>1, <1>5 DEF KnativeClean, KnativeTypes, knativeVars
    <2>2. KnativePhases'
      BY <1>1, <1>5 DEF KnativeClean, EndLoad, KnativePhases, knativeVars, AllKnativeDone
    <2>3. DeployerMove  BY <1>1, <1>5, Moves DEF KnativeClean, EndLoad, CleaningAt
    <2> QED BY <2>1, <2>2, <2>3
  <1>6. CASE DeleteKnativeServices
    <2>1. KnativeTypes'  BY <1>1, <1>6 DEF DeleteKnativeServices, KnativeTypes
    <2>2. KnativePhases'
      BY <1>1, <1>6 DEF DeleteKnativeServices, KnativePhases, AllKnativeDone
    <2>3. cleanError' \in BOOLEAN  BY <1>1, <1>6 DEF DeleteKnativeServices
    <2>4. DeployerMove  BY <1>1, <1>6, <2>3, Moves DEF DeleteKnativeServices, CleaningAt
    <2> QED BY <2>1, <2>2, <2>4
  <1>7. CASE DeletePods
    <2>1. /\ predeployed' \in [{"pods", "services"} -> SUBSET Functions]
          /\ cleanError' \in BOOLEAN
      BY <1>1, <1>7 DEF DeletePods, DeletePredeployed, KnativeTypes
    <2>2. KnativeTypes'  BY <1>1, <1>7, <2>1 DEF DeletePods, KnativeTypes
    <2>3. ~cleanError' => ~cleanError /\ predeployed'.pods = {}
      BY <1>1, <1>7 DEF DeletePods, DeletePredeployed, KnativeTypes
    <2>4. KnativePhases'
      BY <1>1, <1>7, <2>3 DEF DeletePods, KnativePhases, AllKnativeDone
    <2>5. DeployerMove  BY <1>1, <1>7, <2>1, Moves DEF DeletePods, CleaningAt
    <2> QED BY <2>2, <2>4, <2>5
  <1>8. CASE DeleteServices
    <2>1. /\ predeployed' \in [{"pods", "services"} -> SUBSET Functions]
          /\ cleanError' \in BOOLEAN
      BY <1>1, <1>8 DEF DeleteServices, DeletePredeployed, KnativeTypes
    <2>2. KnativeTypes'  BY <1>1, <1>8, <2>1 DEF DeleteServices, KnativeTypes
    <2>3. ~cleanError' => /\ ~cleanError /\ predeployed'.services = {}
                          /\ predeployed'.pods = predeployed.pods
      BY <1>1, <1>8 DEF DeleteServices, DeletePredeployed, KnativeTypes
    <2>4. KnativePhases'
      BY <1>1, <1>8, <2>3 DEF DeleteServices, KnativePhases, AllKnativeDone
    <2>5. DeployerMove  BY <1>1, <1>8, <2>1, Moves DEF DeleteServices, CleaningAt
    <2> QED BY <2>2, <2>4, <2>5
  <1>9. ASSUME NEW f \in Functions, Enqueue(f) \/ Predeploy(f) \/ knativeDeploySingleFunction(f)
        PROVE  KnativeTypes' /\ KnativePhases' /\ DeployerMove
    <2>1. deploying[f] # "done"
      BY <1>9 DEF Enqueue, Predeploy, knativeDeploySingleFunction
    <2>2. pc = "start"
      BY <1>1, <1>9, <2>1
      DEF KnativePhases, AllKnativeDone, Enqueue, Predeploy, knativeDeploySingleFunction, Alive, Exited
    <2>3. CASE Enqueue(f)
      <3>1. KnativeTypes'  BY <1>1, <2>3 DEF Enqueue, KnativeTypes
      <3>2. KnativePhases'  BY <1>1, <2>2, <2>3 DEF Enqueue, KnativePhases, deployerVars
      <3>3. DeployerMove  BY <1>1, <2>3, Moves DEF Enqueue, deployerVars
      <3> QED BY <3>1, <3>2, <3>3
    <2>4. CASE Predeploy(f)
      <3>1. KnativeTypes'  BY <1>1, <2>4 DEF Predeploy, KnativeTypes
      <3>2. KnativePhases'  BY <1>1, <2>2, <2>4 DEF Predeploy, KnativePhases, deployerVars
      <3>3. DeployerMove  BY <1>1, <2>4, Moves DEF Predeploy, deployerVars
      <3> QED BY <3>1, <3>2, <3>3
    <2>5. CASE knativeDeploySingleFunction(f)
      <3>1. KnativeTypes'
        BY <1>1, <2>5 DEF knativeDeploySingleFunction, KnativeTypes, MaybeAdded
      <3>2. KnativePhases'
        BY <1>1, <2>2, <2>5 DEF knativeDeploySingleFunction, KnativePhases, MaybeAdded, Exit
      <3>3. DeployerMove
        BY <1>1, <2>2, <2>5, Moves DEF knativeDeploySingleFunction, Exit, Working, CleaningAt
      <3> QED BY <3>1, <3>2, <3>3
    <2> QED BY <1>9, <2>3, <2>4, <2>5
  <1> QED BY <1>3, <1>4, <1>5, <1>6, <1>7, <1>8, <1>9 DEF KnativeStep

LEMMA DirigentKeeps ==
  ASSUME DInv, platform = "dirigent", UNCHANGED platform,
         DirigentLoaderStep \/ (\E f \in Functions : Prepull(f))
  PROVE  DirigentInv' /\ DeployerMove
  <1> USE DEF DInv
  <1>1. /\ CommonInv /\ NumFunctions \in Nat /\ DirigentTypes /\ DirigentPhases
        /\ endpoint \subseteq Functions /\ cleanError \in BOOLEAN
    BY FunctionsAssumption DEF DirigentInv, CommonInv
  <1>2. SUFFICES DirigentTypes' /\ DirigentPhases' /\ DeployerMove
    BY DEF DirigentInv
  <1>3. CASE StartRegistration
    <2>1. DirigentTypes'
      BY <1>1, <1>3 DEF StartRegistration, DirigentTypes, dirigentConfig, workflowVars
    <2>2. next \in Functions  BY <1>1, <1>3 DEF StartRegistration, DirigentPhases, Functions
    <2>3. \A f \in Functions : f >= next' => registering'[f] = "idle"
      BY <1>1, <1>3, <2>2 DEF StartRegistration, DirigentTypes, DirigentPhases, Functions
    <2>4. \A f \in endpoint : f # next
      BY <1>1, <1>3, <2>2 DEF StartRegistration, DirigentPhases
    <2>5. \A f \in endpoint : registering'[f] = registering[f]
      BY <1>1, <1>3, <2>4 DEF StartRegistration, DirigentTypes
    <2>6. DirigentPhases'
      BY <1>1, <1>3, <2>3, <2>5 DEF StartRegistration, DirigentPhases, dirigentConfig, workflowVars
    <2>7. DeployerMove  BY <1>1, <1>3, Moves DEF StartRegistration
    <2> QED BY <2>1, <2>6, <2>7
  <1>4. CASE DirigentDeployed
    <2>1. DirigentTypes'
      BY <1>1, <1>4 DEF DirigentDeployed, DirigentTypes, dirigentVars, dirigentConfig, workflowVars
    <2>2. DirigentPhases'
      BY <1>1, <1>4
      DEF DirigentDeployed, EndLoop, DirigentPhases, dirigentVars, dirigentConfig, workflowVars
    <2>3. DeployerMove
      BY <1>1, <1>4, Moves DEF DirigentDeployed, EndLoop, Working, CleaningAt
    <2> QED BY <2>1, <2>2, <2>3
  <1>5. CASE ReadWorkflowConfig
    <2>1. DirigentTypes'
      BY <1>1, <1>5 DEF ReadWorkflowConfig, DirigentTypes, dirigentVars, dirigentConfig, workflowVars
    <2>2. pc' = "exited" \/ (pc' = "workflow" /\ NumFunctions > 0)
      BY <1>5 DEF ReadWorkflowConfig
    <2>3. DirigentPhases'
      BY <1>1, <1>5, <2>2
      DEF ReadWorkflowConfig, DirigentPhases, dirigentVars, dirigentConfig, workflowVars
    <2>4. DeployerMove
      BY <1>1, <1>5, <2>2, Moves DEF ReadWorkflowConfig, Working, CleaningAt
    <2> QED BY <2>1, <2>3, <2>4
  <1>6. CASE StartWorkflowFunction
    <2>1. DirigentTypes'
      BY <1>1, <1>6 DEF StartWorkflowFunction, DirigentTypes, dirigentConfig, workflowVars
    <2>2. DirigentPhases'
      BY <1>1, <1>6 DEF StartWorkflowFunction, DirigentPhases, dirigentConfig, workflowVars
    <2>3. DeployerMove  BY <1>1, <1>6, Moves DEF StartWorkflowFunction
    <2> QED BY <2>1, <2>2, <2>3
  <1>7. CASE deployDirigentWorkflow
    <2>1. CASE Exit /\ UNCHANGED <<next, endpoint, cfgFunctions, name>>
      <3>1. DirigentTypes'
        BY <1>1, <1>7, <2>1 DEF deployDirigentWorkflow, DirigentTypes, dirigentConfig
      <3>2. DirigentPhases'
        BY <1>1, <1>7, <2>1 DEF deployDirigentWorkflow, DirigentPhases, dirigentConfig, Exit
      <3>3. DeployerMove  BY <1>1, <1>7, <2>1, Moves DEF deployDirigentWorkflow, Exit
      <3> QED BY <3>1, <3>2, <3>3
    <2>2. ASSUME NEW n \in 1 .. NumCompositions,
                 cfgFunctions' = [i \in 1 .. n |-> cfgFunctions[1]],
                 endpoint' = IF wfEndpoint THEN {cfgFunctions[1]} ELSE {},
                 pc' = "deployed" /\ next' = 0
          PROVE  DirigentTypes' /\ DirigentPhases' /\ DeployerMove
      <3>1. /\ pc = "workflow" /\ deployWorkflow /\ endpoint = {}
            /\ Len(cfgFunctions) = NumFunctions /\ NumFunctions > 0
        BY <1>1, <1>7 DEF deployDirigentWorkflow, DirigentPhases, DirigentTypes
      <3>2. cfgFunctions[1] \in Functions  BY <1>1, <3>1 DEF DirigentTypes
      <3>3. n \in Nat  BY DirigentAssumption
      <3>4. cfgFunctions' \in Seq(Functions)  BY <2>2, <3>2, <3>3
      <3>5. endpoint' \subseteq Functions  BY <2>2, <3>2
      <3>6. DirigentTypes'
        BY <1>1, <1>7, <3>4 DEF deployDirigentWorkflow, DirigentTypes, dirigentConfig
      <3>7. DirigentPhases'
        BY <1>1, <1>7, <2>2, <3>1 DEF deployDirigentWorkflow, DirigentPhases, dirigentConfig
      <3>8. DeployerMove
        BY <1>1, <1>7, <2>2, <3>1, <3>5, Moves DEF deployDirigentWorkflow, Working, CleaningAt
      <3> QED BY <3>6, <3>7, <3>8
    <2> QED BY <1>7, <2>1, <2>2 DEF deployDirigentWorkflow
  <1>8. CASE DirigentClean
    <2>1. DirigentTypes'
      BY <1>1, <1>8 DEF DirigentClean, DirigentTypes, dirigentVars, dirigentConfig, workflowVars
    <2>2. DirigentPhases'
      BY <1>1, <1>8 DEF DirigentClean, DirigentPhases, dirigentVars, dirigentConfig, workflowVars
    <2>3. DeployerMove  BY <1>1, <1>8, Moves DEF DirigentClean, CleaningAt
    <2> QED BY <2>1, <2>2, <2>3
  <1>9. ASSUME NEW f \in Functions, RegisterFunction(f)
        PROVE  DirigentTypes' /\ DirigentPhases' /\ DeployerMove
    <2>1. registering[f] = "register" /\ Alive
      BY <1>9 DEF RegisterFunction, deployDirigentFunction
    <2>2. pc = "start" /\ ~deployWorkflow /\ f \notin endpoint
      BY <1>1, <1>9, <2>1 DEF RegisterFunction, DirigentPhases, Alive, Exited
    <2>3. CASE Exit /\ UNCHANGED <<endpoint, registering, registered>>
      <3>1. DirigentTypes'
        BY <1>1, <1>9, <2>3 DEF RegisterFunction, DirigentTypes, dirigentConfig, workflowVars
      <3>2. DirigentPhases'
        BY <1>1, <1>9, <2>2, <2>3 DEF RegisterFunction, DirigentPhases, dirigentConfig, Exit
      <3>3. DeployerMove  BY <1>1, <1>9, <2>2, <2>3, Moves DEF RegisterFunction, Exit
      <3> QED BY <3>1, <3>2, <3>3
    <2>4. ASSUME NEW gotEndpoint \in BOOLEAN, deployDirigentFunction(f, gotEndpoint), UNCHANGED pc,
                 endpoint' = IF gotEndpoint THEN endpoint \cup {f} ELSE endpoint
          PROVE  DirigentTypes' /\ DirigentPhases' /\ DeployerMove
      <3>1. /\ registered \subseteq registered' /\ registered' \subseteq Functions
            /\ gotEndpoint => f \in registered'
        BY <1>1, <2>4 DEF deployDirigentFunction, MaybeAdded, DirigentTypes
      <3>2. PICK s \in {"check", "done"} :
              registering' = [registering EXCEPT ![f] = s] /\ (gotEndpoint /\ prepull => s = "check")
        BY <2>4 DEF deployDirigentFunction, AfterRegistration
      <3>3. DirigentTypes'
        BY <1>1, <1>9, <3>1, <3>2 DEF RegisterFunction, DirigentTypes, dirigentConfig, workflowVars
      <3>4. f < next
        BY <1>1, <2>1, <2>2 DEF DirigentPhases, Functions
      <3>5. \A h \in Functions : h # f => registering'[h] = registering[h]
        BY <1>1, <3>2 DEF DirigentTypes
      <3>6. registering'[f] = s  BY <1>1, <3>2 DEF DirigentTypes
      <3>7. \A h \in Functions : h >= next => registering'[h] = "idle"
        BY <1>1, <2>2, <3>4, <3>5 DEF DirigentPhases, Functions
      <3>8. ASSUME NEW h \in endpoint'
            PROVE  /\ h \in registered' /\ registering'[h] \in {"check", "done"}
                   /\ prepull /\ registering'[h] = "done" => h \in prepulled
        <4>1. CASE h = f  BY <2>2, <2>4, <3>1, <3>2, <3>6, <3>8, <4>1
        <4>2. CASE h # f
          <5>1. h \in endpoint /\ h \in Functions  BY <1>1, <2>4, <3>8, <4>2
          <5> QED BY <1>1, <2>2, <3>1, <3>5, <4>2, <5>1 DEF DirigentPhases
        <4> QED BY <4>1, <4>2
      <3>9. DirigentPhases'
        BY <1>1, <1>9, <2>2, <2>4, <3>7, <3>8 DEF RegisterFunction, DirigentPhases, dirigentConfig
      <3>10. DeployerMove
        BY <1>1, <1>9, <2>2, <2>4, Moves DEF RegisterFunction, Working, CleaningAt
      <3> QED BY <3>3, <3>9, <3>10
    <2> QED BY <1>9, <2>3, <2>4 DEF RegisterFunction
  <1>10. ASSUME NEW f \in Functions, DeployWorkflowFunction(f)
         PROVE  DirigentTypes' /\ DirigentPhases' /\ DeployerMove
    <2>1. PICK gotEndpoint \in BOOLEAN :
            deployDirigentFunction(f, gotEndpoint) /\ wfEndpoint' = gotEndpoint
      BY <1>10 DEF DeployWorkflowFunction
    <2>2. registered' \subseteq Functions
      BY <1>1, <2>1 DEF deployDirigentFunction, MaybeAdded, DirigentTypes
    <2>3. registering' \in [Functions -> {"idle", "register", "check", "done"}]
      BY <1>1, <2>1 DEF deployDirigentFunction, AfterRegistration, DirigentTypes
    <2>4. DirigentTypes'
      BY <1>1, <1>10, <2>1, <2>2, <2>3 DEF DeployWorkflowFunction, DirigentTypes, dirigentConfig
    <2>5. pc = "workflow" /\ deployWorkflow
      BY <1>1, <1>10 DEF DeployWorkflowFunction, DirigentPhases, DirigentTypes
    <2>6. DirigentPhases'
      BY <1>1, <1>10, <2>5 DEF DeployWorkflowFunction, DirigentPhases, deployerVars, dirigentConfig
    <2>7. DeployerMove  BY <1>1, <1>10, Moves DEF DeployWorkflowFunction, deployerVars
    <2> QED BY <2>4, <2>6, <2>7
  <1>11. ASSUME NEW f \in Functions, checkForRegistration(f)
         PROVE  DirigentTypes' /\ DirigentPhases' /\ DeployerMove
    <2>1. DirigentTypes'
      BY <1>1, <1>11 DEF checkForRegistration, DirigentTypes, dirigentConfig, workflowVars
    <2>2. \A h \in Functions :
            /\ h # f => registering'[h] = registering[h]
            /\ registering[h] = "idle" => registering'[h] = "idle"
            /\ registering[h] = "done" => registering'[h] = "done"
      BY <1>1, <1>11 DEF checkForRegistration, DirigentTypes
    <2>3. registering'[f] = "done" /\ f \in prepulled
      BY <1>1, <1>11 DEF checkForRegistration, DirigentTypes
    <2>4. ~deployWorkflow => \A h \in endpoint :
            /\ registering'[h] \in {"check", "done"}
            /\ prepull /\ registering'[h] = "done" => h \in prepulled
      BY <1>1, <2>2, <2>3 DEF DirigentPhases
    <2>5. DirigentPhases'
      BY <1>1, <1>11, <2>2, <2>4
      DEF checkForRegistration, DirigentPhases, deployerVars, dirigentConfig, workflowVars
    <2>6. DeployerMove  BY <1>1, <1>11, Moves DEF checkForRegistration, deployerVars
    <2> QED BY <2>1, <2>5, <2>6
  <1>12. ASSUME NEW f \in Functions, Prepull(f)
         PROVE  DirigentTypes' /\ DirigentPhases' /\ DeployerMove
    <2>1. DirigentTypes'
      BY <1>1, <1>12 DEF Prepull, DirigentTypes, dirigentConfig, workflowVars
    <2>2. DirigentPhases'
      BY <1>1, <1>12 DEF Prepull, DirigentPhases, deployerVars, dirigentConfig, workflowVars
    <2>3. DeployerMove  BY <1>1, <1>12, Moves DEF Prepull, deployerVars
    <2> QED BY <2>1, <2>2, <2>3
  <1> QED
    BY <1>3, <1>4, <1>5, <1>6, <1>7, <1>8, <1>9, <1>10, <1>11, <1>12 DEF DirigentLoaderStep

LEMMA AzureKeeps ==
  ASSUME DInv, platform = "azurefunctions", UNCHANGED platform, AzureStep
  PROVE  AzureInv' /\ DeployerMove
  <1> USE DEF DInv
  <1>1. /\ CommonInv /\ NumFunctions \in Nat /\ AzureTypes /\ AzurePhases
        /\ endpoint \subseteq Functions /\ cleanError \in BOOLEAN
        /\ next < NumFunctions => next \in Functions
        /\ \A f \in Functions : f \in Nat /\ f < NumFunctions
    BY FunctionsAssumption DEF AzureInv, CommonInv, AzurePhases, Functions
  <1>2. SUFFICES AzureTypes' /\ AzurePhases' /\ DeployerMove
    BY DEF AzureInv
  <1> USE DEF azureVars, disk, azure
  <1>3. CASE LoadConfig
    <2>1. AzureTypes' /\ cleanError' \in BOOLEAN
      BY <1>1, <1>3 DEF LoadConfig, FatalOr, AzureTypes
    <2>2. AzurePhases'
      BY <1>1, <1>3 DEF LoadConfig, FatalOr, AzureTypes, AzurePhases
    <2>3. DeployerMove
      BY <1>1, <1>3, <2>1, Moves DEF LoadConfig, FatalOr, Working, CleaningAt
    <2> QED BY <2>1, <2>2, <2>3
  <1>4. CASE CopyPythonWorkload
    <2>1. AzureTypes' /\ cleanError' \in BOOLEAN
      BY <1>1, <1>4 DEF CopyPythonWorkload, Exit, AzureTypes
    <2>2. AzurePhases'
      BY <1>1, <1>4 DEF CopyPythonWorkload, Exit, AzureTypes, AzurePhases
    <2>3. DeployerMove
      BY <1>1, <1>4, <2>1, Moves DEF CopyPythonWorkload, Exit, Working, CleaningAt
    <2> QED BY <2>1, <2>2, <2>3
  <1>5. CASE CreateResourceGroup
    <2>1. AzureTypes' /\ cleanError' \in BOOLEAN
      BY <1>1, <1>5 DEF CreateResourceGroup, Exit, AzureTypes
    <2>2. AzurePhases'
      BY <1>1, <1>5 DEF CreateResourceGroup, Exit, AzureTypes, AzurePhases
    <2>3. DeployerMove
      BY <1>1, <1>5, <2>1, Moves DEF CreateResourceGroup, Exit, Working, CleaningAt
    <2> QED BY <2>1, <2>2, <2>3
  <1>6. CASE CreateStorageAccount
    <2>1. AzureTypes' /\ cleanError' \in BOOLEAN
      BY <1>1, <1>6 DEF CreateStorageAccount, AzureTypes
    <2>2. AzurePhases'
      BY <1>1, <1>6 DEF CreateStorageAccount, AzureTypes, AzurePhases
    <2>3. DeployerMove
      BY <1>1, <1>6, <2>1, Moves DEF CreateStorageAccount, Working, CleaningAt
    <2> QED BY <2>1, <2>2, <2>3
  <1>7. CASE CreateFunctionApp
    <2>1. AzureTypes' /\ cleanError' \in BOOLEAN
      BY <1>1, <1>7 DEF CreateFunctionApp, MaybeAdded, AzureTypes
    <2>2. AzurePhases'
      BY <1>1, <1>7 DEF CreateFunctionApp, MaybeAdded, AzureTypes, AzurePhases
    <2>3. DeployerMove
      BY <1>1, <1>7, <2>1, Moves DEF CreateFunctionApp, MaybeAdded, Working, CleaningAt
    <2> QED BY <2>1, <2>2, <2>3
  <1>8. CASE SetSCMSettings
    <2>1. AzureTypes' /\ cleanError' \in BOOLEAN
      BY <1>1, <1>8 DEF SetSCMSettings, AzureTypes
    <2>2. AzurePhases'
      BY <1>1, <1>8 DEF SetSCMSettings, AzureTypes, AzurePhases
    <2>3. DeployerMove
      BY <1>1, <1>8, <2>1, Moves DEF SetSCMSettings, Working, CleaningAt
    <2> QED BY <2>1, <2>2, <2>3
  <1>9. CASE SetORYXSettings
    <2>1. AzureTypes' /\ cleanError' \in BOOLEAN
      BY <1>1, <1>9 DEF SetORYXSettings, AzureTypes
    <2>2. AzurePhases'
      BY <1>1, <1>9 DEF SetORYXSettings, AzureTypes, AzurePhases
    <2>3. DeployerMove
      BY <1>1, <1>9, <2>1, Moves DEF SetORYXSettings, Working, CleaningAt
    <2> QED BY <2>1, <2>2, <2>3
  <1>10. CASE AppsCreated
    <2>1. AzureTypes' /\ cleanError' \in BOOLEAN
      BY <1>1, <1>10 DEF AppsCreated, EndLoop, AzureTypes
    <2>2. AzurePhases'
      BY <1>1, <1>10 DEF AppsCreated, EndLoop, AzureTypes, AzurePhases
    <2>3. DeployerMove
      BY <1>1, <1>10, <2>1, Moves DEF AppsCreated, EndLoop, Working, CleaningAt
    <2> QED BY <2>1, <2>2, <2>3
  <1>11. CASE AbortInit
    <2>1. AzureTypes' /\ cleanError' \in BOOLEAN
      BY <1>1, <1>11 DEF AbortInit, Exit, DeleteResourceGroup, AzureTypes
    <2>2. AzurePhases'
      BY <1>1, <1>11 DEF AbortInit, Exit, DeleteResourceGroup, AzureTypes, AzurePhases
    <2>3. DeployerMove
      BY <1>1, <1>11, <2>1, Moves DEF AbortInit, Exit, DeleteResourceGroup, Working, CleaningAt
    <2> QED BY <2>1, <2>2, <2>3
  <1>12. CASE CreateFunctionFolders
    <2>1. AzureTypes' /\ cleanError' \in BOOLEAN
      BY <1>1, <1>12 DEF CreateFunctionFolders, Exit, MaybeAdded, AzureTypes, AnyFunction
    <2>2. AzurePhases'
      BY <1>1, <1>12 DEF CreateFunctionFolders, Exit, MaybeAdded, AzureTypes, AzurePhases
    <2>3. DeployerMove
      BY <1>1, <1>12, <2>1, Moves DEF CreateFunctionFolders, Exit, MaybeAdded, Working, CleaningAt
    <2> QED BY <2>1, <2>2, <2>3
  <1>13. CASE FoldersCreated
    <2>1. AzureTypes' /\ cleanError' \in BOOLEAN
      BY <1>1, <1>13 DEF FoldersCreated, EndLoop, AzureTypes
    <2>2. AzurePhases'
      BY <1>1, <1>13 DEF FoldersCreated, EndLoop, AzureTypes, AzurePhases
    <2>3. DeployerMove
      BY <1>1, <1>13, <2>1, Moves DEF FoldersCreated, EndLoop, Working, CleaningAt
    <2> QED BY <2>1, <2>2, <2>3
  <1>14. CASE ZipFunctionAppFiles
    <2>1. AzureTypes' /\ cleanError' \in BOOLEAN
      BY <1>1, <1>14 DEF ZipFunctionAppFiles, Exit, MaybeAdded, AzureTypes, AnyFunction
    <2>2. AzurePhases'
      BY <1>1, <1>14 DEF ZipFunctionAppFiles, Exit, MaybeAdded, AzureTypes, AzurePhases
    <2>3. DeployerMove
      BY <1>1, <1>14, <2>1, Moves DEF ZipFunctionAppFiles, Exit, MaybeAdded, Working, CleaningAt
    <2> QED BY <2>1, <2>2, <2>3
  <1>15. CASE FilesZipped
    <2>1. AzureTypes' /\ cleanError' \in BOOLEAN
      BY <1>1, <1>15 DEF FilesZipped, EndLoop, AzureTypes
    <2>2. AzurePhases'
      BY <1>1, <1>15 DEF FilesZipped, EndLoop, AzureTypes, AzurePhases
    <2>3. DeployerMove
      BY <1>1, <1>15, <2>1, Moves DEF FilesZipped, EndLoop, Working, CleaningAt
    <2> QED BY <2>1, <2>2, <2>3
  <1>16. CASE DeployFunctions
    <2>1. AzureTypes' /\ cleanError' \in BOOLEAN
      BY <1>1, <1>16 DEF DeployFunctions, Exit, AzureTypes
    <2>2. AzurePhases'
      BY <1>1, <1>16 DEF DeployFunctions, Exit, AzureTypes, AzurePhases
    <2>3. DeployerMove
      BY <1>1, <1>16, <2>1, Moves DEF DeployFunctions, Exit, Working, CleaningAt
    <2> QED BY <2>1, <2>2, <2>3
  <1>17. CASE AllDeployed
    <2>0. endpoint = Functions  BY <1>1, <1>17 DEF AllDeployed, EndLoop, AzurePhases
    <2>1. AzureTypes' /\ cleanError' \in BOOLEAN
      BY <1>1, <1>17 DEF AllDeployed, EndLoop, AzureTypes
    <2>2. AzurePhases'
      BY <1>1, <1>17, <2>0 DEF AllDeployed, EndLoop, AzureTypes, AzurePhases
    <2>3. DeployerMove
      BY <1>1, <1>17, <2>1, Moves DEF AllDeployed, EndLoop, Working, CleaningAt
    <2> QED BY <2>1, <2>2, <2>3
  <1>18. CASE AzureClean
    <2>1. AzureTypes' /\ cleanError' \in BOOLEAN
      BY <1>1, <1>18 DEF AzureClean, EndLoad, AzureTypes
    <2>2. AzurePhases'
      BY <1>1, <1>18 DEF AzureClean, EndLoad, AzureTypes, AzurePhases
    <2>3. DeployerMove
      BY <1>1, <1>18, <2>1, Moves DEF AzureClean, EndLoad, Working, CleaningAt
    <2> QED BY <2>1, <2>2, <2>3
  <1>19. CASE RemoveBaseDir
    <2>1. AzureTypes' /\ cleanError' \in BOOLEAN
      BY <1>1, <1>19 DEF RemoveBaseDir, FilesNotCleaned, AzureTypes
    <2>2. AzurePhases'
      BY <1>1, <1>19 DEF RemoveBaseDir, FilesNotCleaned, AzureTypes, AzurePhases, Functions, AnyFunction
    <2>3. DeployerMove
      BY <1>1, <1>19, <2>1, Moves DEF RemoveBaseDir, FilesNotCleaned, Working, CleaningAt
    <2> QED BY <2>1, <2>2, <2>3
  <1>20. CASE RemoveZip
    <2>1. AzureTypes' /\ cleanError' \in BOOLEAN
      BY <1>1, <1>20 DEF RemoveZip, FilesNotCleaned, AzureTypes
    <2>2. AzurePhases'
      <3>1. CASE zips' = zips \ {next} /\ next' = next + 1 /\ UNCHANGED <<pc, cleanError>>
        <4>1. \A f \in zips' : f >= next'
          BY <1>1, <1>20, <3>1 DEF RemoveZip, AzureTypes, AzurePhases, Functions, AnyFunction
        <4> QED BY <1>1, <1>20, <3>1, <4>1 DEF RemoveZip, AzurePhases
      <3>2. CASE FilesNotCleaned /\ UNCHANGED <<next, zips>>
        BY <1>1, <1>20, <3>2 DEF RemoveZip, FilesNotCleaned, AzurePhases
      <3> QED BY <1>20, <3>1, <3>2 DEF RemoveZip
    <2>3. DeployerMove
      BY <1>1, <1>20, <2>1, Moves DEF RemoveZip, FilesNotCleaned, Working, CleaningAt
    <2> QED BY <2>1, <2>2, <2>3
  <1>21. CASE ZipsRemoved
    <2>0. zips \cap Functions = {}
      <3>1. \A f \in zips : f >= NumFunctions
        BY <1>1, <1>21 DEF ZipsRemoved, EndLoop, AzureTypes, AzurePhases
      <3>2. ASSUME NEW f \in zips \cap Functions PROVE FALSE
        <4>1. f \in Nat /\ f < NumFunctions /\ f >= NumFunctions  BY <1>1, <3>1
        <4> QED BY <1>1, <4>1
      <3> QED BY <3>2
    <2>1. AzureTypes' /\ cleanError' \in BOOLEAN
      BY <1>1, <1>21 DEF ZipsRemoved, EndLoop, AzureTypes
    <2>2. AzurePhases'
      BY <1>1, <1>21, <2>0 DEF ZipsRemoved, EndLoop, AzureTypes, AzurePhases
    <2>3. DeployerMove
      BY <1>1, <1>21, <2>1, Moves DEF ZipsRemoved, EndLoop, Working, CleaningAt
    <2> QED BY <2>1, <2>2, <2>3
  <1>22. CASE RemoveWorkload
    <2>1. AzureTypes' /\ cleanError' \in BOOLEAN
      BY <1>1, <1>22 DEF RemoveWorkload, FilesNotCleaned, AzureTypes
    <2>2. AzurePhases'
      BY <1>1, <1>22 DEF RemoveWorkload, FilesNotCleaned, AzureTypes, AzurePhases
    <2>3. DeployerMove
      BY <1>1, <1>22, <2>1, Moves DEF RemoveWorkload, FilesNotCleaned, Working, CleaningAt
    <2> QED BY <2>1, <2>2, <2>3
  <1>23. CASE CleanAzureFunctions
    <2>1. AzureTypes' /\ cleanError' \in BOOLEAN
      BY <1>1, <1>23 DEF CleanAzureFunctions, DeleteResourceGroup, AzureTypes
    <2>2. AzurePhases'
      BY <1>1, <1>23 DEF CleanAzureFunctions, DeleteResourceGroup, AzureTypes, AzurePhases
    <2>3. DeployerMove
      BY <1>1, <1>23, <2>1, Moves DEF CleanAzureFunctions, DeleteResourceGroup, Working, CleaningAt
    <2> QED BY <2>1, <2>2, <2>3
  <1>24. CASE GroupGone
    <2>1. AzureTypes' /\ cleanError' \in BOOLEAN
      BY <1>1, <1>24 DEF GroupGone, deployerVars, AzureTypes
    <2>2. AzurePhases'
      BY <1>1, <1>24 DEF GroupGone, deployerVars, AzureTypes, AzurePhases
    <2>3. DeployerMove
      BY <1>1, <1>24, <2>1, Moves DEF GroupGone, deployerVars, Working, CleaningAt
    <2> QED BY <2>1, <2>2, <2>3
  <1> QED
    BY <1>3, <1>4, <1>5, <1>6, <1>7, <1>8, <1>9, <1>10, <1>11, <1>12, <1>13, <1>14, <1>15, <1>16,
       <1>17, <1>18, <1>19, <1>20, <1>21, <1>22, <1>23, <1>24
    DEF AzureStep

-----------------------------------------------------------------------------
(* AWS: the sets that the counters are compared with.                       *)

LEMMA ReturnedFinite ==
  ASSUME NEW c
  PROVE  /\ IsFiniteSet(Returned(c)) /\ Cardinality(Returned(c)) \in Nat
         /\ Cardinality(Returned(c)) <= NumGroups
  <1>1. Returned(c) \subseteq Groups  BY DEF Returned
  <1>2. /\ IsFiniteSet(Returned(c))
        /\ Cardinality(Returned(c)) <= Cardinality(Groups)
    BY <1>1, GroupsFinite, FS_Subset
  <1> QED BY <1>2, GroupsFinite, FS_CardinalityType

LEMMA GoneFinite ==
  /\ IsFiniteSet(Gone) /\ Cardinality(Gone) \in Nat
  /\ Cardinality(Gone) = NumGroups => Gone = Groups
  <1>1. Gone \subseteq Groups  BY DEF Gone
  <1>2. IsFiniteSet(Gone) /\ (Cardinality(Gone) = Cardinality(Groups) => Gone = Groups)
    BY <1>1, GroupsFinite, FS_Subset
  <1> QED BY <1>2, GroupsFinite, FS_CardinalityType

(* The goroutine of c for g returns: it is one more that has returned.      *)
LEMMA OneMoreReturned ==
  ASSUME AwsTypeOK, CleanersInv, NEW c \in Cleaners, NEW g \in Groups,
         removing[c][g] # "idle", UNCHANGED cleanNext,
         removing' = [removing EXCEPT ![c][g] = "idle"]
  PROVE  /\ Cardinality(Returned(c)') = Cardinality(Returned(c)) + 1
         /\ \A d \in Cleaners : d # c => Returned(d)' = Returned(d)
  <1>1. g < cleanNext[c]  BY DEF CleanersInv
  <1>2. /\ removing'[c][g] = "idle"
        /\ \A h \in Groups : h # g => removing'[c][h] = removing[c][h]
        /\ \A d \in Cleaners : d # c => removing'[d] = removing[d]
    BY DEF AwsTypeOK
  <1>3. Returned(c)' = Returned(c) \cup {g} /\ g \notin Returned(c)
    BY <1>1, <1>2 DEF Returned
  <1>4. IsFiniteSet(Returned(c))  BY ReturnedFinite
  <1>5. Cardinality(Returned(c) \cup {g}) = Cardinality(Returned(c)) + 1
    BY <1>3, <1>4, FS_AddElement
  <1>6. \A d \in Cleaners : d # c => Returned(d)' = Returned(d)  BY <1>2 DEF Returned
  <1> QED BY <1>3, <1>5, <1>6

(* A goroutine goes on or returns; the one that returns may be counted.     *)
LEMMA RemovalKeeps ==
  ASSUME AwsTypeOK, CleanersInv, NEW c \in Cleaners, NEW g \in Groups,
         removing[c][g] # "idle", UNCHANGED <<group, cleaner, cleanNext>>,
         \/ /\ UNCHANGED counter
            /\ \E s \in {"remove", "rm"} : removing' = [removing EXCEPT ![c][g] = s]
         \/ Deleted(c, g)
         \/ NotDeleted(c, g)
  PROVE  /\ CleanersInv'
         /\ removing' \in [Cleaners -> [Groups -> {"idle", "stat", "remove", "rm"}]]
         /\ counter' \in [Cleaners -> 0 .. NumGroups]
         /\ \A d \in Cleaners : counter'[d] = counter[d] \/ (d = c /\ Deleted(c, g))
  <1>1. /\ removing \in [Cleaners -> [Groups -> {"idle", "stat", "remove", "rm"}]]
        /\ counter \in [Cleaners -> 0 .. NumGroups]
        /\ NumGroups \in Nat
    BY NumGroupsNat DEF AwsTypeOK
  <1>2. g < cleanNext[c] /\ cleaner[c] # "idle" /\ counter[c] <= Cardinality(Returned(c))
    BY DEF CleanersInv
  <1>3. PICK s \in {"idle", "remove", "rm"} :
          /\ removing' = [removing EXCEPT ![c][g] = s]
          /\ s # "idle" => UNCHANGED counter
    BY DEF Deleted, NotDeleted
  <1>4. removing' \in [Cleaners -> [Groups -> {"idle", "stat", "remove", "rm"}]]
    BY <1>1, <1>3
  <1>5. /\ removing'[c][g] = s
        /\ \A h \in Groups : h # g => removing'[c][h] = removing[c][h]
        /\ \A d \in Cleaners : d # c => removing'[d] = removing[d]
    BY <1>1, <1>3
  <1>6. \A d \in Cleaners :
          /\ cleaner'[d] = "idle" => \A h \in Groups : removing'[d][h] = "idle"
          /\ \A h \in Groups : removing'[d][h] # "idle" => h < cleanNext'[d]
    BY <1>2, <1>5 DEF CleanersInv
  <1>7. CASE s # "idle"
    <2>1. \A d \in Cleaners : Returned(d)' = Returned(d)  BY <1>5, <1>7 DEF Returned
    <2>2. UNCHANGED counter  BY <1>3, <1>7
    <2> QED BY <1>1, <1>4, <1>6, <2>1, <2>2 DEF CleanersInv
  <1>8. CASE s = "idle"
    <2>1. /\ Cardinality(Returned(c)') = Cardinality(Returned(c)) + 1
          /\ \A d \in Cleaners : d # c => Returned(d)' = Returned(d)
      BY <1>3, <1>8, OneMoreReturned
    <2>2. Cardinality(Returned(c)) \in Nat  BY ReturnedFinite
    <2>3. UNCHANGED counter \/ (Deleted(c, g) /\ counter' = [counter EXCEPT ![c] = @ + 1])
      BY DEF Deleted, NotDeleted
    <2>4. /\ counter'[c] \in Nat /\ counter'[c] <= counter[c] + 1
          /\ \A d \in Cleaners : d # c => counter'[d] = counter[d]
          /\ counter'[c] = counter[c] \/ Deleted(c, g)
      BY <1>1, <2>3
    <2>5. counter'[c] <= Cardinality(Returned(c)')  BY <1>1, <1>2, <2>1, <2>2, <2>4
    <2>6. Cardinality(Returned(c)') <= NumGroups
      <3>1. Returned(c)' \subseteq Groups  BY DEF Returned
      <3> QED BY <3>1, GroupsFinite, FS_Subset
    <2>7. counter'[c] \in 0 .. NumGroups  BY <1>1, <1>2, <2>1, <2>2, <2>4, <2>5, <2>6
    <2>8. counter' \in [Cleaners -> 0 .. NumGroups]  BY <1>1, <2>3, <2>7
    <2>9. \A d \in Cleaners : counter'[d] <= Cardinality(Returned(d)')
      BY <2>1, <2>4, <2>5 DEF CleanersInv
    <2>10. CleanersInv'  BY <1>6, <2>9 DEF CleanersInv
    <2> QED BY <1>4, <2>4, <2>8, <2>10
  <1> QED BY <1>7, <1>8

(* Steps that run no cleaner, and no group leaves CleanAWSLambda.           *)
LEMMA CleanersFrame ==
  ASSUME CleanersInv, UNCHANGED <<cleaner, cleanNext, counter, removing>>,
         \A g \in Groups : group[g] = "cleaning" => group'[g] = "cleaning"
  PROVE  CleanersInv'
  <1>1. \A c \in Cleaners : Returned(c)' = Returned(c)  BY DEF Returned
  <1> QED BY <1>1 DEF CleanersInv

(* A call of CleanAWSLambda begins with no goroutine and nothing counted.   *)
LEMMA StartCleanKeeps ==
  ASSUME AwsTypeOK, CleanersInv, NEW c \in Cleaners, StartClean(c), cleaner[c] = "idle",
         c \in Groups => group'[c] = "cleaning",
         \A g \in Groups : group[g] = "cleaning" => group'[g] = "cleaning"
  PROVE  /\ CleanersInv'
         /\ cleaner' \in [Cleaners -> {"idle", "registry", "loop"}]
         /\ cleanNext' \in [Cleaners -> 0 .. NumGroups]
         /\ counter' \in [Cleaners -> 0 .. NumGroups]
         /\ removing' = removing /\ UNCHANGED <<cleanError, overlooked>>
         /\ cleanNext'[c] = 0 /\ counter'[c] = 0
         /\ \A g \in Groups : removing[c][g] = "idle"
         /\ \A d \in Cleaners : d # c => cleaner'[d] = cleaner[d]
  <1>1. /\ cleaner \in [Cleaners -> {"idle", "registry", "loop"}]
        /\ cleanNext \in [Cleaners -> 0 .. NumGroups]
        /\ counter \in [Cleaners -> 0 .. NumGroups]
        /\ NumGroups \in Nat
    BY NumGroupsNat DEF AwsTypeOK
  <1>2. /\ cleaner' \in [Cleaners -> {"idle", "registry", "loop"}]
        /\ cleanNext' \in [Cleaners -> 0 .. NumGroups]
        /\ counter' \in [Cleaners -> 0 .. NumGroups]
        /\ removing' = removing /\ UNCHANGED <<cleanError, overlooked>>
        /\ cleanNext'[c] = 0 /\ counter'[c] = 0 /\ cleaner'[c] = "registry"
        /\ \A d \in Cleaners : d # c =>
             cleaner'[d] = cleaner[d] /\ cleanNext'[d] = cleanNext[d] /\ counter'[d] = counter[d]
    BY <1>1 DEF StartClean
  <1>3. \A g \in Groups : removing[c][g] = "idle"  BY DEF CleanersInv
  <1>4. \A d \in Cleaners : d # c => Returned(d)' = Returned(d)  BY <1>2 DEF Returned
  <1>5. 0 <= Cardinality(Returned(c)')
    <2>1. Returned(c)' \subseteq Groups  BY DEF Returned
    <2>2. IsFiniteSet(Returned(c)')  BY <2>1, GroupsFinite, FS_Subset
    <2>3. Cardinality(Returned(c)') \in Nat  BY <2>2, FS_CardinalityType
    <2> QED BY <2>3
  <1>6. \A d \in Cleaners : counter'[d] <= Cardinality(Returned(d)')
    BY <1>2, <1>4, <1>5 DEF CleanersInv
  <1>7. CleanersInv'  BY <1>2, <1>3, <1>6, NumGroupsNat DEF CleanersInv
  <1> QED BY <1>2, <1>3, <1>7

LEMMA AwsTypes ==
  ASSUME AwsTypeOK
  PROVE  /\ group \in [Groups -> {"idle", "begin", "running", "created", "failed", "cleaning", "done"}]
         /\ cleaner \in [Cleaners -> {"idle", "registry", "loop"}]
         /\ cleanNext \in [Cleaners -> 0 .. NumGroups]
         /\ counter \in [Cleaners -> 0 .. NumGroups]
         /\ removing \in [Cleaners -> [Groups -> {"idle", "stat", "remove", "rm"}]]
         /\ repository \in BOOLEAN /\ overlooked \in BOOLEAN
         /\ stacks \subseteq AnyGroup /\ files \subseteq AnyGroup
         /\ NumGroups \in Nat /\ Main \in Cleaners /\ Groups \subseteq Cleaners
         /\ \A g \in Groups : g \in Nat /\ g < NumGroups /\ g # Main
  BY NumGroupsNat DEF AwsTypeOK, Groups, Main

(* The loader's own steps: the preparation, the loop, the return, Clean.    *)
LEMMA AwsMainKeeps ==
  ASSUME DInv, platform = "awslambda", MainStep
  PROVE  AwsTypeOK' /\ CleanersInv' /\ AwsPhases' /\ DeployerMove
  <1> USE DEF DInv
  <1>1. /\ CommonInv /\ AwsTypeOK /\ CleanersInv /\ AwsPhases
        /\ cleanError \in BOOLEAN /\ endpoint \subseteq Functions
    BY DEF AwsInv, CommonInv
  <1>t. /\ group \in [Groups -> {"idle", "begin", "running", "created", "failed", "cleaning", "done"}]
        /\ NumGroups \in Nat /\ Main \in Cleaners /\ Groups \subseteq Cleaners
        /\ \A g \in Groups : g \in Nat /\ g < NumGroups /\ g # Main
    BY <1>1, AwsTypes
  <1>2. CASE \/ checkDependencies \/ cleanAWSCloudWatchLogGroups \/ obtainAWSAccountId
             \/ initECRRepository \/ createSlsConfigFiles
    <2> USE <1>2
        DEF checkDependencies, cleanAWSCloudWatchLogGroups, obtainAWSAccountId, initECRRepository,
            createSlsConfigFiles, FatalOr, Exit, cleanVars, world
    <2>1. AwsTypeOK'  BY <1>1 DEF AwsTypeOK, AnyGroup
    <2>2. CleanersInv'  BY <1>1, CleanersFrame
    <2>3. \A g \in Groups : group[g] = "idle"
      <3>1. next = 0  BY <1>1 DEF AwsPhases
      <3> QED BY <1>1, <1>t, <3>1 DEF AwsPhases
    <2>4. AwsPhases'  BY <1>1, <1>t, <2>3 DEF AwsPhases
    <2>5. DeployerMove  BY <1>1, Moves DEF Working, CleaningAt
    <2> QED BY <2>1, <2>2, <2>4, <2>5
  <1>3. CASE initAWSLambda
    <2>1. CASE Exit /\ (\E new \in SUBSET Groups : files' = files \cup new) /\ UNCHANGED cleanVars
      <3>1. AwsTypeOK'  BY <1>1, <1>3, <2>1 DEF AwsTypeOK, AnyGroup, initAWSLambda, cleanVars
      <3>2. CleanersInv'  BY <1>1, <1>3, <2>1, CleanersFrame DEF initAWSLambda, cleanVars
      <3>3. AwsPhases'  BY <1>1, <1>3, <2>1 DEF AwsPhases, initAWSLambda, Exit, cleanVars
      <3>4. DeployerMove  BY <1>1, <1>3, <2>1, Moves DEF initAWSLambda, Exit, cleanVars
      <3> QED BY <3>1, <3>2, <3>3, <3>4
    <2>2. CASE pc' = "cleanPrevious" /\ files' = files \cup Groups /\ StartClean(Main)
      <3>1. cleaner[Main] = "idle"  BY <1>1, <1>3 DEF AwsPhases, initAWSLambda
      <3>2. UNCHANGED <<next, group, endpoint, stacks, repository>> /\ pc = "leftovers"
        BY <1>3 DEF initAWSLambda
      <3>3. /\ CleanersInv'
            /\ cleaner' \in [Cleaners -> {"idle", "registry", "loop"}]
            /\ cleanNext' \in [Cleaners -> 0 .. NumGroups]
            /\ counter' \in [Cleaners -> 0 .. NumGroups]
            /\ removing' = removing /\ UNCHANGED <<cleanError, overlooked>>
        BY <1>1, <1>t, <2>2, <3>1, <3>2, StartCleanKeeps
      <3>4. AwsTypeOK'  BY <1>1, <2>2, <3>2, <3>3 DEF AwsTypeOK, AnyGroup
      <3>5. AwsPhases'  BY <1>1, <2>2, <3>2, <3>3 DEF AwsPhases
      <3>6. DeployerMove  BY <1>1, <2>2, <3>2, <3>3, Moves DEF Working, CleaningAt
      <3> QED BY <3>3, <3>4, <3>5, <3>6
    <2> QED BY <1>3, <2>1, <2>2 DEF initAWSLambda
  <1>4. CASE StartDeployment
    <2>1. next \in Groups /\ next' = next + 1 /\ group' = [group EXCEPT ![next] = "begin"]
      BY <1>1, <1>4, <1>t DEF StartDeployment, MayStart, AwsPhases, Groups
    <2>2. pc = "deploy" /\ UNCHANGED <<pc, endpoint, cleanVars, world>>
      BY <1>4 DEF StartDeployment
    <2>3. group[next] = "idle"  BY <1>1, <1>t, <2>1 DEF AwsPhases
    <2>4. /\ group' \in [Groups -> {"idle", "begin", "running", "created", "failed", "cleaning", "done"}]
          /\ \A g \in Groups : group'[g] = group[g] \/ (group'[g] = "begin" /\ g < next')
          /\ Quiet' => Quiet
      BY <1>t, <2>1, <2>3 DEF Quiet
    <2>5. AwsTypeOK'  BY <1>1, <2>2, <2>4 DEF AwsTypeOK, cleanVars, world
    <2>6. CleanersInv'
      <3>1. \A g \in Groups : group[g] = "cleaning" => group'[g] = "cleaning"
        BY <1>t, <2>1, <2>3
      <3> QED BY <1>1, <2>2, <3>1, CleanersFrame DEF cleanVars
    <2>7. next' \in 0 .. NumGroups  BY <1>t, <2>1
    <2>8. \A g \in Groups : group'[g] = "idle" <=> g >= next'
      BY <1>1, <1>t, <2>1, <2>3 DEF AwsPhases
    <2>9. AwsPhases'  BY <1>1, <2>2, <2>4, <2>7, <2>8 DEF AwsPhases, cleanVars, world
    <2>10. DeployerMove  BY <1>1, <2>2, Moves DEF cleanVars
    <2> QED BY <2>5, <2>6, <2>9, <2>10
  <1>5. CASE DeployReturns
    <2>1. /\ pc = "deploy" /\ pc' = "deployed" /\ next = NumGroups /\ Deploying = {}
          /\ UNCHANGED <<next, group, endpoint, cleaner, cleanNext, counter, removing, cleanError,
                         overlooked, stacks, repository, files>>
      BY <1>5 DEF DeployReturns, cleanVars, world
    <2>2. AwsTypeOK'  BY <1>1, <2>1 DEF AwsTypeOK
    <2>3. CleanersInv'  BY <1>1, <2>1, CleanersFrame
    <2>4. \A g \in Groups : group[g] \in {"idle", "done"}  BY <2>1 DEF Deploying
    <2>5. AllUp
      <3>1. \A g \in Groups : ~(g >= next)  BY <1>t, <2>1
      <3> QED BY <1>1, <2>4, <3>1 DEF AllUp, AwsPhases
    <2>6. AwsPhases'  BY <1>1, <2>1, <2>5 DEF AwsPhases, AllUp, Quiet
    <2>7. DeployerMove  BY <1>1, <2>1, Moves DEF Working, CleaningAt
    <2> QED BY <2>2, <2>3, <2>6, <2>7
  <1>6. CASE Clean
    <2>1. /\ pc = "load" /\ pc' = "clean" /\ StartClean(Main)
          /\ UNCHANGED <<next, group, endpoint, stacks, repository, files>>
      BY <1>6 DEF Clean, world
    <2>2. cleaner[Main] = "idle" /\ AllUp  BY <1>1, <2>1 DEF AwsPhases
    <2>3. Groups \subseteq files  BY <1>1, <2>1, <2>2 DEF AwsPhases, AllUp, Quiet
    <2>4. /\ CleanersInv'
          /\ cleaner' \in [Cleaners -> {"idle", "registry", "loop"}]
          /\ cleanNext' \in [Cleaners -> 0 .. NumGroups]
          /\ counter' \in [Cleaners -> 0 .. NumGroups]
          /\ removing' = removing /\ UNCHANGED <<cleanError, overlooked>>
          /\ counter'[Main] = 0
          /\ \A g \in Groups : removing[Main][g] = "idle"
      BY <1>1, <1>t, <2>1, <2>2, StartCleanKeeps
    <2>5. AwsTypeOK'  BY <1>1, <2>1, <2>4 DEF AwsTypeOK
    <2>6. counter'[Main] <= Cardinality(Gone')
      <3>1. Gone' \subseteq Groups  BY DEF Gone
      <3>2. IsFiniteSet(Gone')  BY <3>1, GroupsFinite, FS_Subset
      <3>3. Cardinality(Gone') \in Nat  BY <3>2, FS_CardinalityType
      <3> QED BY <2>4, <3>3
    <2>7. cleaner'[Main] = "registry"  BY <1>1, <2>1, AwsTypes DEF StartClean
    <2>8. AwsPhases'  BY <1>1, <2>1, <2>2, <2>3, <2>4, <2>6, <2>7 DEF AwsPhases, AllUp
    <2>9. DeployerMove  BY <1>1, <2>1, <2>4, Moves DEF CleaningAt
    <2> QED BY <2>4, <2>5, <2>8, <2>9
  <1> QED BY <1>2, <1>3, <1>4, <1>5, <1>6 DEF MainStep

(* A group's goroutine only has steps from the loop that starts it to the   *)
(* end of the loader.                                                       *)
LEMMA GroupActive ==
  ASSUME AwsTypeOK, AwsPhases, NEW g \in Groups, group[g] \notin {"idle", "done"}
  PROVE  pc \in {"deploy", "exited"}
  <1>1. pc \notin {"deployed", "load", "clean", "done"}  BY DEF AwsPhases, AllUp
  <1>2. next # 0
    <2>1. ~(g >= next)  BY DEF AwsPhases
    <2> QED BY <2>1, AwsTypes
  <1> QED BY <1>1, <1>2 DEF AwsPhases

LEMMA AwsGroupKeeps ==
  ASSUME DInv, platform = "awslambda", NEW g \in Groups, GroupStep(g)
  PROVE  AwsTypeOK' /\ CleanersInv' /\ AwsPhases' /\ DeployerMove
  <1> USE DEF DInv
  <1>1. /\ CommonInv /\ AwsTypeOK /\ CleanersInv /\ AwsPhases
        /\ cleanError \in BOOLEAN /\ endpoint \subseteq Functions
    BY DEF AwsInv, CommonInv
  <1>t. /\ group \in [Groups -> {"idle", "begin", "running", "created", "failed", "cleaning", "done"}]
        /\ cleaner \in [Cleaners -> {"idle", "registry", "loop"}]
        /\ NumGroups \in Nat /\ Main \in Cleaners /\ Groups \subseteq Cleaners
        /\ \A h \in Groups : h \in Nat /\ h < NumGroups /\ h # Main
    BY <1>1, AwsTypes
  <1>2. PICK s \in {"running", "created", "failed", "cleaning", "done"} :
          group' = [group EXCEPT ![g] = s] /\ (s = "cleaning" <=> CleanAfterFailure(g))
    <2>1. CleanAfterFailure(g) => group' = [group EXCEPT ![g] = "cleaning"]
      BY DEF CleanAfterFailure
    <2>2. ~CleanAfterFailure(g) =>
            \E r \in {"running", "created", "failed", "done"} : group' = [group EXCEPT ![g] = r]
      BY DEF GroupStep, SlsReadFile, SlsCreateStack, SlsFails, Deployed
    <2> QED BY <2>1, <2>2
  <1>3. group[g] \notin {"idle", "done", "cleaning"} /\ pc' = pc /\ next' = next
    BY DEF GroupStep, SlsReadFile, SlsCreateStack, SlsFails, Deployed, CleanAfterFailure
  <1>4. pc \in {"deploy", "exited"}  BY <1>1, <1>3, GroupActive
  <1>5. /\ group' \in [Groups -> {"idle", "begin", "running", "created", "failed", "cleaning", "done"}]
        /\ group'[g] = s
        /\ \A h \in Groups : h # g => group'[h] = group[h]
    BY <1>2, <1>t
  <1>6. /\ \A h \in Groups : group'[h] = "idle" <=> h >= next'
        /\ \A h \in Groups : group[h] = "cleaning" => group'[h] = "cleaning"
        /\ Quiet' => Quiet
    BY <1>1, <1>2, <1>3, <1>5 DEF AwsPhases, Quiet
  <1>7. cleaner[g] = "idle"  BY <1>1, <1>3 DEF CleanersInv
  <1>8. CASE SlsReadFile(g) \/ SlsFails(g)
    <2>1. UNCHANGED <<endpoint, cleaner, cleanNext, counter, removing, cleanError, overlooked,
                      stacks, repository, files>>
      BY <1>8 DEF SlsReadFile, SlsFails, cleanVars, world
    <2>2. group'[g] \in {"running", "failed"}  BY <1>8, <1>t DEF SlsReadFile, SlsFails
    <2>3. AwsTypeOK'  BY <1>1, <1>5, <2>1 DEF AwsTypeOK, AnyGroup
    <2>4. CleanersInv'  BY <1>1, <1>6, <2>1, CleanersFrame
    <2>5. AwsPhases'  BY <1>1, <1>3, <1>4, <1>5, <1>6, <2>1, <2>2 DEF AwsPhases
    <2>6. DeployerMove  BY <1>1, <1>3, <2>1, Moves
    <2> QED BY <2>3, <2>4, <2>5, <2>6
  <1>9. CASE SlsCreateStack(g)
    <2>1. /\ UNCHANGED <<endpoint, cleaner, cleanNext, counter, removing, cleanError,
                         overlooked, repository, files>>
          /\ stacks' = stacks \cup {g}
      BY <1>9 DEF SlsCreateStack, cleanVars
    <2>2. group'[g] = "created"  BY <1>9, <1>t DEF SlsCreateStack
    <2>3. AwsTypeOK'  BY <1>1, <1>5, <2>1 DEF AwsTypeOK, AnyGroup
    <2>4. CleanersInv'  BY <1>1, <1>6, <2>1, CleanersFrame
    <2>5. AwsPhases'  BY <1>1, <1>3, <1>4, <1>5, <1>6, <2>1, <2>2 DEF AwsPhases
    <2>6. DeployerMove  BY <1>1, <1>3, <2>1, Moves
    <2> QED BY <2>3, <2>4, <2>5, <2>6
  <1>10. CASE Deployed(g)
    <2>1. /\ UNCHANGED <<cleaner, cleanNext, counter, removing, cleanError, overlooked, stacks, repository,
                         files>>
          /\ endpoint' = endpoint \cup Group(g) /\ group[g] = "created" /\ pc = "deploy"
      BY <1>4, <1>10 DEF Deployed, cleanVars, world, Alive, Exited
    <2>2. group'[g] = "done"  BY <1>10, <1>t DEF Deployed
    <2>3. AwsTypeOK'  BY <1>1, <1>5, <2>1 DEF AwsTypeOK, AnyGroup
    <2>4. CleanersInv'  BY <1>1, <1>6, <2>1, CleanersFrame
    <2>5. \A h \in Groups : group'[h] = "done" => Group(h) \subseteq endpoint'
      BY <1>1, <1>5, <2>1 DEF AwsPhases
    <2>6. Quiet' => \A h \in Groups : group'[h] \in {"created", "done"} => h \in stacks
      BY <1>1, <1>5, <1>6, <2>1 DEF AwsPhases
    <2>7. AwsPhases'  BY <1>1, <1>3, <1>6, <2>1, <2>5, <2>6 DEF AwsPhases
    <2>8. Group(g) \subseteq Functions  BY GroupsCover
    <2>9. DeployerMove  BY <1>1, <1>3, <2>1, <2>8, Moves DEF Working, CleaningAt
    <2> QED BY <2>3, <2>4, <2>7, <2>9
  <1>11. CASE CleanAfterFailure(g)
    <2>1. StartClean(g) /\ UNCHANGED <<endpoint, stacks, repository, files>>
      BY <1>11 DEF CleanAfterFailure, world
    <2>2. group'[g] = "cleaning"  BY <1>2, <1>5, <1>11
    <2>3. /\ CleanersInv'
          /\ cleaner' \in [Cleaners -> {"idle", "registry", "loop"}]
          /\ cleanNext' \in [Cleaners -> 0 .. NumGroups]
          /\ counter' \in [Cleaners -> 0 .. NumGroups]
          /\ removing' = removing /\ UNCHANGED <<cleanError, overlooked>>
          /\ cleaner'[Main] = cleaner[Main]
      BY <1>1, <1>t, <1>6, <1>7, <2>1, <2>2, StartCleanKeeps
    <2>4. AwsTypeOK'  BY <1>1, <1>5, <2>1, <2>3 DEF AwsTypeOK
    <2>5. ~Quiet'  BY <2>2 DEF Quiet
    <2>6. AwsPhases'  BY <1>1, <1>3, <1>4, <1>5, <1>6, <2>1, <2>2, <2>3, <2>5 DEF AwsPhases
    <2>7. DeployerMove  BY <1>1, <1>3, <2>1, <2>3, Moves
    <2> QED BY <2>3, <2>4, <2>6, <2>7
  <1> QED BY <1>8, <1>9, <1>10, <1>11 DEF GroupStep

(* A call of CleanAWSLambda is active because a group has failed, so that   *)
(* Deploy cannot return, or it is the loader's own, before or after.        *)
LEMMA CleanerActive ==
  ASSUME AwsTypeOK, CleanersInv, AwsPhases, NEW c \in Cleaners,
         cleaner[c] # "idle" \/ \E g \in Groups : removing[c][g] # "idle"
  PROVE  /\ cleaner[c] # "idle"
         /\ \/ c \in Groups /\ pc \in {"deploy", "exited"} /\ ~Quiet
            \/ c = Main /\ pc \in {"cleanPrevious", "clean", "exited"}
  <1>1. cleaner[c] # "idle"  BY DEF CleanersInv
  <1>2. CASE c \in Groups
    <2>1. group[c] = "cleaning"  BY <1>1, <1>2 DEF CleanersInv
    <2> QED BY <1>1, <1>2, <2>1, GroupActive DEF Quiet
  <1>3. CASE c = Main  BY <1>1, <1>3 DEF AwsPhases
  <1> QED BY <1>2, <1>3 DEF Cleaners, Main

LEMMA AwsRemovalKeeps ==
  ASSUME DInv, platform = "awslambda", NEW c \in Cleaners, NEW g \in Groups,
         CheckFile(c, g) \/ SlsRemove(c, g) \/ RemoveFile(c, g)
  PROVE  AwsTypeOK' /\ CleanersInv' /\ AwsPhases' /\ DeployerMove
  <1> USE DEF DInv
  <1>1. /\ CommonInv /\ AwsTypeOK /\ CleanersInv /\ AwsPhases
        /\ cleanError \in BOOLEAN /\ endpoint \subseteq Functions
    BY DEF AwsInv, CommonInv
  <1>t. /\ removing \in [Cleaners -> [Groups -> {"idle", "stat", "remove", "rm"}]]
        /\ counter \in [Cleaners -> 0 .. NumGroups]
        /\ NumGroups \in Nat /\ Main \in Cleaners /\ stacks \subseteq AnyGroup /\ files \subseteq AnyGroup
    BY <1>1, AwsTypes
  <1>2. /\ removing[c][g] # "idle"
        /\ UNCHANGED <<pc, next, group, endpoint, cleaner, cleanNext, cleanError, overlooked,
                       repository>>
        /\ stacks' \subseteq stacks /\ files' \subseteq files
    BY DEF CheckFile, SlsRemove, RemoveFile, goVars, world
  <1>3. \/ /\ UNCHANGED counter
           /\ \E s \in {"remove", "rm"} : removing' = [removing EXCEPT ![c][g] = s]
        \/ Deleted(c, g)
        \/ NotDeleted(c, g)
    BY DEF CheckFile, SlsRemove, RemoveFile, RemoveFails
  <1>4. /\ CleanersInv'
        /\ removing' \in [Cleaners -> [Groups -> {"idle", "stat", "remove", "rm"}]]
        /\ counter' \in [Cleaners -> 0 .. NumGroups]
        /\ \A d \in Cleaners : counter'[d] = counter[d] \/ (d = c /\ Deleted(c, g))
    BY <1>1, <1>2, <1>3, RemovalKeeps
  <1>5. AwsTypeOK'  BY <1>1, <1>2, <1>4 DEF AwsTypeOK
  <1>6. DeployerMove  BY <1>1, <1>2, Moves
  <1>7. \/ c \in Groups /\ pc \in {"deploy", "exited"} /\ ~Quiet
        \/ c = Main /\ pc \in {"cleanPrevious", "clean", "exited"}
    BY <1>1, <1>2, CleanerActive
  <1>8. CASE pc # "clean"
    <2>1. ~(pc \in {"configs", "deployed", "load", "clean", "done"})  BY <1>7, <1>8
    <2>2. pc = "deploy" => ~Quiet'  BY <1>2, <1>7 DEF Quiet
    <2>3. AwsPhases'  BY <1>1, <1>2, <2>1, <2>2 DEF AwsPhases
    <2> QED BY <1>4, <1>5, <1>6, <2>3
  <1>9. CASE pc = "clean"
    <2>1. c = Main  BY <1>7, <1>9
    <2>2. /\ \A h \in Groups : h \notin files \/ removing[Main][h] = "rm" => h \notin stacks
          /\ counter[Main] <= Cardinality(Gone) /\ counter[Main] \in Nat
      BY <1>1, <1>9, <1>t DEF AwsPhases
    <2>3. \A h \in Groups : h # g => removing'[Main][h] = removing[Main][h]
      BY <1>3, <1>t, <2>1 DEF Deleted, NotDeleted
    <2>4. /\ \A h \in Groups : h # g => (h \in files' <=> h \in files)
          /\ removing'[Main][g] = "rm" => g \notin stacks'
          /\ g \notin files' => g \notin stacks'
      <3>1. CASE CheckFile(c, g)
        BY <1>t, <2>1, <2>2, <3>1 DEF CheckFile, Deleted, world
      <3>2. CASE SlsRemove(c, g)
        BY <1>t, <1>2, <2>1, <2>2, <3>2 DEF SlsRemove, RemoveFails, NotDeleted
      <3>3. CASE RemoveFile(c, g)
        BY <1>t, <1>2, <2>1, <2>2, <3>3 DEF RemoveFile, Deleted, NotDeleted
      <3> QED BY <3>1, <3>2, <3>3
    <2>5. \A h \in Groups : h \notin files' \/ removing'[Main][h] = "rm" => h \notin stacks'
      BY <1>2, <2>2, <2>3, <2>4
    <2>6. Gone \subseteq Gone' /\ g \notin Gone
      BY <1>2, <2>1, <2>3 DEF Gone
    <2>7. Deleted(c, g) => g \in Gone' /\ counter'[Main] = counter[Main] + 1
      <3>1. SUFFICES ASSUME Deleted(c, g) PROVE g \in Gone' /\ counter'[Main] = counter[Main] + 1
        OBVIOUS
      <3>2. removing'[Main][g] = "idle" /\ counter'[Main] = counter[Main] + 1
        BY <1>t, <2>1, <3>1 DEF Deleted
      <3>3. g < cleanNext'[Main]  BY <1>1, <1>2, <2>1 DEF CleanersInv
      <3>4. g \notin files'
        <4>1. CASE CheckFile(c, g)
          <5>1. g \in files => removing' = [removing EXCEPT ![c][g] = "remove"]
            BY <4>1 DEF CheckFile
          <5>2. g \in files => removing'[Main][g] = "remove"  BY <1>t, <2>1, <5>1
          <5> QED BY <1>2, <3>2, <5>2
        <4>2. CASE SlsRemove(c, g)
          <5>1. counter' = counter  BY <4>2 DEF SlsRemove, RemoveFails, NotDeleted
          <5> QED BY <2>2, <3>2, <5>1
        <4>3. CASE RemoveFile(c, g)
          <5>1. files' = files \ {g} \/ counter' = counter  BY <4>3 DEF RemoveFile, NotDeleted
          <5> QED BY <2>2, <3>2, <5>1
        <4> QED BY <4>1, <4>2, <4>3
      <3> QED BY <2>4, <3>2, <3>3, <3>4 DEF Gone
    <2>8. IsFiniteSet(Gone') /\ Cardinality(Gone') \in Nat
      <3>1. Gone' \subseteq Groups  BY DEF Gone
      <3>2. IsFiniteSet(Gone')  BY <3>1, GroupsFinite, FS_Subset
      <3> QED BY <3>2, FS_CardinalityType
    <2>9. counter'[Main] <= Cardinality(Gone')
      <3>1. CASE Deleted(c, g)
        <4>1. Cardinality(Gone \cup {g}) = Cardinality(Gone) + 1
          BY <2>6, GoneFinite, FS_AddElement
        <4>2. Gone \cup {g} \subseteq Gone'  BY <2>6, <2>7, <3>1
        <4>3. Cardinality(Gone \cup {g}) <= Cardinality(Gone')  BY <2>8, <4>2, FS_Subset
        <4> QED BY <2>2, <2>7, <2>8, <3>1, <4>1, <4>3, GoneFinite
      <3>2. CASE ~Deleted(c, g)
        <4>1. Cardinality(Gone) <= Cardinality(Gone')  BY <2>6, <2>8, FS_Subset
        <4>2. counter'[Main] = counter[Main]  BY <1>t, <1>4, <3>2
        <4> QED BY <2>2, <2>8, <4>1, <4>2, GoneFinite
      <3> QED BY <3>1, <3>2
    <2> QED BY <1>1, <1>2, <1>4, <1>5, <1>6, <1>9, <2>5, <2>9 DEF AwsPhases, AllUp
  <1> QED BY <1>4, <1>5, <1>6, <1>8, <1>9

LEMMA AwsCleanKeeps ==
  ASSUME DInv, platform = "awslambda", NEW c \in Cleaners, CleanStep(c)
  PROVE  AwsTypeOK' /\ CleanersInv' /\ AwsPhases' /\ DeployerMove
  <1> USE DEF DInv
  <1>1. /\ CommonInv /\ AwsTypeOK /\ CleanersInv /\ AwsPhases
        /\ cleanError \in BOOLEAN /\ endpoint \subseteq Functions
    BY DEF AwsInv, CommonInv
  <1>t. /\ cleaner \in [Cleaners -> {"idle", "registry", "loop"}]
        /\ cleanNext \in [Cleaners -> 0 .. NumGroups]
        /\ counter \in [Cleaners -> 0 .. NumGroups]
        /\ removing \in [Cleaners -> [Groups -> {"idle", "stat", "remove", "rm"}]]
        /\ repository \in BOOLEAN /\ overlooked \in BOOLEAN
         /\ stacks \subseteq AnyGroup /\ files \subseteq AnyGroup
        /\ NumGroups \in Nat /\ Main \in Cleaners /\ Groups \subseteq Cleaners
        /\ \A g \in Groups : g \in Nat /\ g < NumGroups /\ g # Main
    BY <1>1, AwsTypes
  <1>2. CASE \E g \in Groups : CheckFile(c, g) \/ SlsRemove(c, g) \/ RemoveFile(c, g)
    BY <1>2, AwsRemovalKeeps
  <1>3. ASSUME cleaner[c] # "idle"
        PROVE  \/ c \in Groups /\ pc \in {"deploy", "exited"} /\ ~Quiet
               \/ c = Main /\ pc \in {"cleanPrevious", "clean", "exited"}
    BY <1>1, <1>3, CleanerActive
  <1>4. CASE cleanAWSElasticContainerRegistry(c)
    <2>1. /\ cleaner[c] = "registry" /\ cleaner' = [cleaner EXCEPT ![c] = "loop"]
          /\ UNCHANGED <<pc, next, group, endpoint, cleanNext, counter, removing, stacks, files>>
          /\ repository' \in BOOLEAN /\ overlooked' \in BOOLEAN /\ cleanError' \in BOOLEAN
      BY <1>1, <1>4, <1>t DEF cleanAWSElasticContainerRegistry, goVars, AfterLoad
    <2>2. \/ c \in Groups /\ pc \in {"deploy", "exited"} /\ ~Quiet
          \/ c = Main /\ pc \in {"cleanPrevious", "clean", "exited"}
      BY <1>3, <2>1
    <2>3. /\ cleaner' \in [Cleaners -> {"idle", "registry", "loop"}]
          /\ \A d \in Cleaners : cleaner'[d] = "idle" <=> cleaner[d] = "idle"
      BY <1>t, <2>1
    <2>4. AwsTypeOK'  BY <1>1, <2>1, <2>3 DEF AwsTypeOK
    <2>5. \A d \in Cleaners : Returned(d)' = Returned(d)  BY <2>1 DEF Returned
    <2>6. CleanersInv'  BY <1>1, <1>t, <2>1, <2>3, <2>5 DEF CleanersInv
    <2>7. Gone' = Gone  BY <2>1 DEF Gone
    <2>8. pc = "deploy" => ~Quiet'  BY <2>1, <2>2 DEF Quiet
    <2>9. pc = "clean" /\ repository' => overlooked' \/ cleanError'
      BY <1>4, <2>2 DEF cleanAWSElasticContainerRegistry, AfterLoad
    <2>10. AwsPhases'  BY <1>1, <1>t, <2>1, <2>2, <2>3, <2>7, <2>8, <2>9 DEF AwsPhases, AllUp, AwsClean
    <2>11. DeployerMove  BY <1>1, <2>1, Moves
    <2> QED BY <2>4, <2>6, <2>10, <2>11
  <1>5. CASE StartRemoval(c)
    <2> DEFINE g == cleanNext[c]
    <2>1. /\ cleaner[c] = "loop" /\ g \in Groups
          /\ removing' = [removing EXCEPT ![c][g] = "stat"]
          /\ cleanNext' = [cleanNext EXCEPT ![c] = g + 1]
          /\ UNCHANGED <<pc, next, group, endpoint, cleaner, counter, cleanError, overlooked, stacks,
                         repository, files>>
      BY <1>5, <1>t DEF StartRemoval, goVars, world, Groups
    <2>2. \/ c \in Groups /\ pc \in {"deploy", "exited"} /\ ~Quiet
          \/ c = Main /\ pc \in {"cleanPrevious", "clean", "exited"}
      BY <1>3, <2>1
    <2>3. /\ removing' \in [Cleaners -> [Groups -> {"idle", "stat", "remove", "rm"}]]
          /\ cleanNext' \in [Cleaners -> 0 .. NumGroups]
      BY <1>t, <2>1
    <2>4. /\ removing'[c][g] = "stat" /\ cleanNext'[c] = g + 1
          /\ \A h \in Groups : h # g => removing'[c][h] = removing[c][h]
          /\ \A d \in Cleaners : d # c => removing'[d] = removing[d] /\ cleanNext'[d] = cleanNext[d]
      BY <1>t, <2>1
    <2>5. \A h \in Groups : h # g => (h < cleanNext'[c] <=> h < cleanNext[c])
      <3>1. g \in Nat /\ \A h \in Groups : h \in Nat  BY <1>t, <2>1
      <3>2. \A h \in Nat : h # g => (h < g + 1 <=> h < g)  BY <3>1
      <3> QED BY <2>4, <3>1, <3>2
    <2>6. g \in Nat /\ ~(g < g) /\ g < g + 1  BY <1>t, <2>1
    <2>7. AwsTypeOK'  BY <1>1, <2>1, <2>3 DEF AwsTypeOK
    <2> HIDE DEF g
    <2>8. \A d \in Cleaners : Returned(d)' = Returned(d)
      <3>1. Returned(c)' = Returned(c)
        <4>1. g \notin Returned(c)  BY <2>6 DEF Returned, g
        <4>2. g \notin Returned(c)'  BY <2>4 DEF Returned
        <4>3. ASSUME NEW h \in Groups, h # g PROVE h \in Returned(c)' <=> h \in Returned(c)
          BY <2>4, <2>5, <4>3 DEF Returned
        <4>4. Returned(c) \subseteq Groups /\ Returned(c)' \subseteq Groups  BY DEF Returned
        <4> QED BY <4>1, <4>2, <4>3, <4>4
      <3>2. ASSUME NEW d \in Cleaners, d # c PROVE Returned(d)' = Returned(d)
        BY <2>4, <3>2 DEF Returned
      <3> QED BY <3>1, <3>2
    <2>9. \A d \in Cleaners, h \in Groups : removing'[d][h] # "idle" => h < cleanNext'[d]
      <3>1. ASSUME NEW h \in Groups, removing'[c][h] # "idle" PROVE h < cleanNext'[c]
        <4>1. CASE h = g  BY <2>4, <2>6, <4>1
        <4>2. CASE h # g  BY <1>1, <2>4, <2>5, <3>1, <4>2 DEF CleanersInv
        <4> QED BY <4>1, <4>2
      <3>2. ASSUME NEW d \in Cleaners, d # c, NEW h \in Groups, removing'[d][h] # "idle"
            PROVE  h < cleanNext'[d]
        BY <1>1, <2>4, <3>2 DEF CleanersInv
      <3> QED BY <3>1, <3>2
    <2>10. CleanersInv'
      <3>1. \A d \in Cleaners : cleaner'[d] = "idle" => \A h \in Groups : removing'[d][h] = "idle"
        BY <1>1, <2>1, <2>4 DEF CleanersInv
      <3> QED BY <1>1, <2>1, <2>8, <2>9, <3>1 DEF CleanersInv
    <2>11. Gone' = Gone
      <3>1. CASE c = Main
        <4>1. Gone = {h \in Returned(Main) : h \notin files \cup stacks}  BY DEF Gone, Returned
        <4>2. Gone' = {h \in Returned(Main)' : h \notin files \cup stacks}
          BY <2>1 DEF Gone, Returned
        <4> QED BY <1>t, <2>8, <4>1, <4>2
      <3>2. CASE c # Main  BY <1>t, <2>1, <2>4, <3>2 DEF Gone
      <3> QED BY <3>1, <3>2
    <2>12. \A h \in Groups : removing'[Main][h] = "rm" => removing[Main][h] = "rm"
      BY <1>t, <2>1, <2>4
    <2>13. AwsPhases'  BY <1>1, <1>t, <2>1, <2>11, <2>12 DEF AwsPhases, AllUp, AwsClean, Quiet
    <2>14. DeployerMove  BY <1>1, <2>1, Moves
    <2> QED BY <2>7, <2>10, <2>13, <2>14
  <1>6. CASE EndClean(c)
    <2>1. /\ cleaner[c] = "loop" /\ cleanNext[c] = NumGroups /\ Removing(c) = {} /\ pc # "exited"
          /\ cleaner' = [cleaner EXCEPT ![c] = "idle"]
          /\ UNCHANGED <<next, group, endpoint, cleanNext, counter, removing, overlooked, stacks,
                         repository, files>>
      BY <1>6 DEF EndClean, CleanCompleted, Alive, Exited, world
    <2>2. \A g \in Groups : removing[c][g] = "idle"  BY <2>1 DEF Removing
    <2>3. /\ cleaner' \in [Cleaners -> {"idle", "registry", "loop"}]
          /\ cleaner'[c] = "idle"
          /\ \A d \in Cleaners : d # c => cleaner'[d] = cleaner[d]
      BY <1>t, <2>1
    <2>4. AwsTypeOK'  BY <1>1, <2>1, <2>3 DEF AwsTypeOK
    <2>5. \A d \in Cleaners : Returned(d)' = Returned(d)  BY <2>1 DEF Returned
    <2>6. CleanersInv'  BY <1>1, <1>t, <2>1, <2>2, <2>3, <2>5 DEF CleanersInv
    <2>7. CASE c = Main /\ pc = "cleanPrevious" /\ pc' = "logGroups" /\ UNCHANGED cleanError
      <3>1. AwsPhases'  BY <1>1, <1>t, <2>1, <2>3, <2>7 DEF AwsPhases
      <3>2. DeployerMove  BY <1>1, <2>1, <2>7, Moves DEF Working, CleaningAt
      <3> QED BY <2>4, <2>6, <3>1, <3>2
    <2>8. CASE /\ c = Main /\ pc = "clean" /\ pc' = "done"
               /\ cleanError' = (cleanError \/ counter[c] # NumGroups)
      <3>1. cleanError' \in BOOLEAN  BY <2>8
      <3>2. ~cleanError' => AwsClean'
        <4>1. SUFFICES ASSUME counter[Main] = NumGroups, ~cleanError
                       PROVE  /\ stacks \cap Groups = {} /\ files \cap Groups = {}
                              /\ repository => overlooked
          BY <2>1, <2>8 DEF AwsClean
        <4>2. NumGroups <= Cardinality(Gone)  BY <1>1, <2>8, <4>1 DEF AwsPhases
        <4>3. Gone \subseteq Groups  BY DEF Gone
        <4>4. Cardinality(Gone) <= NumGroups  BY <4>3, GroupsFinite, FS_Subset
        <4>5. Cardinality(Gone) \in Nat /\ NumGroups \in Nat  BY <1>t, GoneFinite
        <4>6. Cardinality(Gone) = NumGroups  BY <4>2, <4>4, <4>5
        <4>7. Gone = Groups  BY <4>6, GoneFinite
        <4>8. repository => overlooked  BY <1>1, <2>1, <2>8, <4>1 DEF AwsPhases
        <4> QED BY <1>t, <4>7, <4>8 DEF Gone
      <3>3. AwsPhases'  BY <1>1, <1>t, <2>1, <2>3, <2>8, <3>2 DEF AwsPhases, AllUp
      <3>4. DeployerMove  BY <1>1, <2>1, <2>8, <3>1, Moves DEF CleaningAt
      <3> QED BY <2>4, <2>6, <3>3, <3>4
    <2>9. CASE c \in Groups /\ Exit /\ UNCHANGED cleanError
      <3>1. pc = "deploy"  BY <1>3, <1>t, <2>1, <2>9
      <3>2. AwsPhases'  BY <1>1, <1>t, <2>1, <2>3, <2>9 DEF AwsPhases, Exit
      <3>3. DeployerMove  BY <1>1, <2>1, <2>9, <3>1, Moves DEF Exit
      <3> QED BY <2>4, <2>6, <3>2, <3>3
    <2> QED BY <1>6, <2>7, <2>8, <2>9 DEF EndClean
  <1> QED BY <1>2, <1>4, <1>5, <1>6 DEF CleanStep

LEMMA AwsKeeps ==
  ASSUME DInv, platform = "awslambda", UNCHANGED platform, AwsStep
  PROVE  AwsInv' /\ DeployerMove
  BY AwsMainKeeps, AwsGroupKeeps, AwsCleanKeeps DEF AwsStep, AwsInv

-----------------------------------------------------------------------------
(* The experiment around the deployers                                      *)

LEMMA DInitially == Init => DInv
  <1> SUFFICES ASSUME Init PROVE DInv  OBVIOUS
  <1>1. /\ pc = "start" /\ next = 0 /\ endpoint = {} /\ cleanError = FALSE
        /\ platform \in Platforms /\ NoLeftovers
        /\ NumFunctions \in Nat /\ NumGroups \in Nat
    BY FunctionsAssumption, NumGroupsNat DEF Init, DeployerInit
  <1>2. CommonInv  BY <1>1 DEF CommonInv
  <1>3. FailureInv  BY DEF Init, FailureInit, FailureInv
  <1>4. AwsTypeOK
    <2>1. 0 \in 0 .. NumGroups  BY <1>1
    <2> QED BY <2>1 DEF Init, AwsInit, AwsTypeOK
  <1>5. CleanersInv
    <2>1. \A c \in Cleaners : counter[c] = 0 /\ 0 <= Cardinality(Returned(c))
      BY ReturnedFinite DEF Init, AwsInit
    <2>2. \A c \in Cleaners : cleaner[c] = "idle" /\ \A g \in Groups : removing[c][g] = "idle"
      BY DEF Init, AwsInit
    <2> QED BY <2>1, <2>2, NumGroupsNat DEF CleanersInv
  <1>6. AwsPhases
    <2>1. \A g \in Groups : group[g] = "idle" /\ g >= 0  BY <1>1 DEF Init, AwsInit, Groups
    <2>2. cleaner[Main] = "idle"  BY NumGroupsNat DEF Init, AwsInit
    <2> QED BY <1>1, <2>1, <2>2 DEF AwsPhases
  <1>7. AzureInv
    <2>1. folders \subseteq AnyFunction /\ zips \subseteq AnyFunction
      BY <1>1 DEF Init, AzureInit, Functions, AnyFunction
    <2>2. AzureTypes /\ resourceGroup = "none" /\ ~groupDeleted
      BY <2>1 DEF Init, AzureInit, AzureTypes
    <2> QED BY <1>1, <2>2 DEF AzureInv, AzurePhases, NoLeftovers
  <1>8. KnativeInv
    <2>1. /\ deploying \in [Functions -> {"idle", "blocked", "predeployment", "script", "done"}]
          /\ services = {} /\ predeployed = [pods |-> {}, services |-> {}]
      BY DEF Init, KnativeInit
    <2>2. /\ predeployed.pods = {} /\ predeployed.services = {}
          /\ predeployed \in [{"pods", "services"} -> SUBSET Functions]
      BY <2>1
    <2> QED BY <1>1, <2>1, <2>2 DEF KnativeInv, KnativeTypes, KnativePhases
  <1>9. DirigentInv
    <2>1. cfgFunctions \in Seq(Functions) /\ Len(cfgFunctions) = NumFunctions
      BY <1>1 DEF Init, DirigentInit, Functions
    <2>2. DirigentTypes  BY <2>1 DEF Init, DirigentInit, DirigentTypes
    <2>3. \A f \in Functions : registering[f] = "idle"  BY DEF Init, DirigentInit
    <2>4. DirigentPhases  BY <1>1, <2>1, <2>3 DEF DirigentPhases
    <2> QED BY <2>2, <2>4 DEF DirigentInv
  <1>10. OpenWhiskInv
    <2>1. actions \subseteq AnyFunction  BY DEF Init, OpenWhiskInit
    <2> QED BY <1>1, <2>1 DEF OpenWhiskInv, OpenWhiskPhases, NoLeftovers
  <1> QED BY <1>2, <1>3, <1>4, <1>5, <1>6, <1>7, <1>8, <1>9, <1>10 DEF DInv, AwsInv

(* Steps of RunExperiment and of the failure: the loader starts the load,   *)
(* ends, or stays where it is, and no deployer is concerned.                *)
LoaderMoves ==
  /\ \/ pc' = pc
     \/ pc = "deployed" /\ pc' = "load"
     \/ pc \notin {"done", "exited"} /\ pc' = "exited"
  /\ UNCHANGED <<next, endpoint, cleanError>>

LEMMA OthersKept ==
  ASSUME DInv, UNCHANGED <<platform, awsVars, azureVars, knativeVars, actions>>, LoaderMoves
  PROVE  CommonInv' /\ AwsInv' /\ AzureInv' /\ KnativeInv' /\ OpenWhiskInv'
  <1> USE DEF DInv, LoaderMoves
  <1>1. UNCHANGED <<platform, awsVars, azureVars, knativeVars, actions>>
    OBVIOUS
  <1>2. CommonInv'  BY <1>1 DEF CommonInv
  <1>3. AwsInv'
    <2>1. CASE platform # "awslambda"  BY <1>1, <2>1, AwsFrame
    <2>2. CASE platform = "awslambda"
      <3>1. UNCHANGED <<group, cleaner, cleanNext, counter, removing, overlooked, stacks, repository, files>>
        BY <1>1 DEF awsVars, world
      <3>2. AwsTypeOK'  BY <3>1 DEF AwsInv, AwsTypeOK
      <3>3. CleanersInv'  BY <2>2, <3>1, CleanersFrame DEF AwsInv
      <3>4. Gone' = Gone  BY <3>1 DEF Gone
      <3>5. AwsPhases'
        BY <2>2, <3>1, <3>4 DEF AwsInv, AwsPhases, Quiet, AllUp, AwsClean
      <3> QED BY <3>2, <3>3, <3>5 DEF AwsInv
    <2> QED BY <2>1, <2>2
  <1>4. AzureInv'
    <2>1. CASE platform # "azurefunctions"  BY <1>1, <2>1, AzureFrame
    <2>2. CASE platform = "azurefunctions"
      BY <1>1, <2>2 DEF AzureInv, AzureTypes, AzurePhases, azureVars, azure, disk
    <2> QED BY <2>1, <2>2
  <1>5. KnativeInv'
    <2>1. CASE platform # "knative"  BY <1>1, <2>1, KnativeFrame
    <2>2. CASE platform = "knative"
      BY <1>1, <2>2 DEF KnativeInv, KnativeTypes, KnativePhases, knativeVars, AllKnativeDone
    <2> QED BY <2>1, <2>2
  <1>6. OpenWhiskInv'
    <2>1. CASE platform # "openwhisk"  BY <1>1, <2>1, OpenWhiskFrame
    <2>2. CASE platform = "openwhisk"  BY <1>1, <2>2 DEF OpenWhiskInv, OpenWhiskPhases
    <2> QED BY <2>1, <2>2
  <1> QED BY <1>2, <1>3, <1>4, <1>5, <1>6

LEMMA DirigentKept ==
  ASSUME DInv, UNCHANGED <<platform, dirigentVars>>, LoaderMoves
  PROVE  DirigentInv'
  <1> USE DEF DInv, LoaderMoves
  <1>1. CASE platform # "dirigent"  BY <1>1, DirigentFrame
  <1>2. CASE platform = "dirigent"
    <2> USE DEF dirigentVars, dirigentConfig, workflowVars
    <2>1. DirigentTypes'  BY DEF DirigentInv, DirigentTypes
    <2>2. DirigentPhases'  BY <1>2 DEF DirigentInv, DirigentPhases
    <2> QED BY <2>1, <2>2 DEF DirigentInv
  <1> QED BY <1>1, <1>2

(* A step of a deployer, or of Dirigent's control plane.                    *)
LEMMA DeployersKeep ==
  ASSUME DInv, DeployerStep \/ ControlPlaneStep
  PROVE  DInv' /\ DeployerMove /\ UNCHANGED <<platform, failureVars>>
  <1> USE DEF DInv
  <1>1. UNCHANGED <<platform, failureVars>>  BY DEF DeployerStep, ControlPlaneStep
  <1>2. SUFFICES /\ AwsInv' /\ AzureInv' /\ KnativeInv' /\ DirigentInv' /\ OpenWhiskInv'
                 /\ DeployerMove
    <2>1. CommonInv'  BY <1>1, <1>2 DEF CommonInv, DeployerMove
    <2>2. Stage' = "deploying" => Stage = "deploying"  BY <1>2 DEF DeployerMove
    <2>3. FailureInv'  BY <1>1, <2>2 DEF FailureInv, failureVars
    <2> QED BY <1>1, <1>2, <2>1, <2>3
  <1>3. CASE /\ platform = "awslambda" /\ AwsStep
             /\ UNCHANGED <<azureVars, knativeVars, dirigentVars, actions>>
    BY <1>1, <1>3, AwsKeeps, AzureFrame, KnativeFrame, DirigentFrame, OpenWhiskFrame
  <1>4. CASE /\ platform = "azurefunctions" /\ AzureStep
             /\ UNCHANGED <<awsVars, knativeVars, dirigentVars, actions>>
    BY <1>1, <1>4, AzureKeeps, AwsFrame, KnativeFrame, DirigentFrame, OpenWhiskFrame
  <1>5. CASE /\ platform = "knative" /\ KnativeStep
             /\ UNCHANGED <<awsVars, azureVars, dirigentVars, actions>>
    BY <1>1, <1>5, KnativeKeeps, AwsFrame, AzureFrame, DirigentFrame, OpenWhiskFrame
  <1>6. CASE /\ platform = "dirigent" /\ DirigentLoaderStep
             /\ UNCHANGED <<awsVars, azureVars, knativeVars, actions>>
    BY <1>1, <1>6, DirigentKeeps, AwsFrame, AzureFrame, KnativeFrame, OpenWhiskFrame
  <1>7. CASE /\ platform = "openwhisk" /\ OpenWhiskStep
             /\ UNCHANGED <<awsVars, azureVars, knativeVars, dirigentVars>>
    BY <1>1, <1>7, OpenWhiskKeeps, AwsFrame, AzureFrame, KnativeFrame, DirigentFrame
  <1>8. CASE ControlPlaneStep
    <2>1. PICK f \in Functions : Prepull(f)  BY <1>8 DEF ControlPlaneStep
    <2>2. UNCHANGED <<awsVars, azureVars, knativeVars, actions>>  BY <1>8 DEF ControlPlaneStep
    <2>3. CASE platform = "dirigent"
      BY <1>1, <2>1, <2>2, <2>3, DirigentKeeps, AwsFrame, AzureFrame, KnativeFrame, OpenWhiskFrame
    <2>4. CASE platform # "dirigent"
      <3>1. DirigentInv'
        BY <1>1, <2>1, <2>4
        DEF DirigentInv, DirigentTypes, Prepull, dirigentConfig, workflowVars
      <3>2. UNCHANGED deployerVars  BY <2>1 DEF Prepull
      <3>3. DeployerMove  BY <3>2, Moves DEF deployerVars, CommonInv
      <3>4. LoaderMoves  BY <3>2 DEF deployerVars, LoaderMoves
      <3>5. AwsInv' /\ AzureInv' /\ KnativeInv' /\ OpenWhiskInv'
        BY <1>1, <2>2, <3>4, OthersKept
      <3> QED BY <3>1, <3>3, <3>5
    <2> QED BY <2>3, <2>4
  <1> QED BY <1>3, <1>4, <1>5, <1>6, <1>7, <1>8 DEF DeployerStep

(* The load starts with every endpoint, unless the platform goes on without *)
(* the functions that it could not deploy.                                  *)
LEMMA EndpointsComplete ==
  ASSUME DInv, pc = "deployed", platform \notin {"knative", "dirigent"}
  PROVE  endpoint = Functions
  <1> USE DEF DInv
  <1>1. CASE platform = "awslambda"
    <2>1. \A g \in Groups : Group(g) \subseteq endpoint
      BY <1>1 DEF AwsInv, AwsPhases, AllUp
    <2>2. Functions \subseteq endpoint  BY <2>1, GroupsCover
    <2> QED BY <2>2 DEF CommonInv
  <1>2. CASE platform = "azurefunctions"  BY <1>2 DEF AzureInv, AzurePhases
  <1>3. CASE platform = "openwhisk"  BY <1>3 DEF OpenWhiskInv, OpenWhiskPhases
  <1> QED BY <1>1, <1>2, <1>3 DEF CommonInv, Platforms

LEMMA FailureSteps ==
  ASSUME DInv, ScheduleFailure
  PROVE  /\ LoaderMoves /\ UNCHANGED platformVars /\ failing' \subseteq FailNode \cup {0}
         /\ pc' = pc \/ (pc' = "exited" /\ pc \notin {"done", "exited"})
         /\ Stage = "deploying" => pc' = pc /\ failure' = "off" /\ failing' = {}
  <1>1. UNCHANGED platformVars  BY DEF ScheduleFailure
  <1>2. /\ failing \subseteq FailNode \cup {0}
        /\ Stage = "deploying" => failure = "off" /\ failing = {}
    BY DEF DInv, FailureInv
  <1>3. ASSUME NEW commands, commands \subseteq FailNode \cup {0}, TriggerFailure(commands)
        PROVE  /\ LoaderMoves /\ failing' \subseteq FailNode \cup {0}
               /\ pc' = pc \/ (pc' = "exited" /\ pc \notin {"done", "exited"})
               /\ Stage = "deploying" => FALSE
    BY <1>2, <1>3 DEF TriggerFailure, Running, Exit, LoaderMoves
  <1>4. /\ triggerKnativeFailure \subseteq FailNode \cup {0}
        /\ triggerDirigentFailure \subseteq FailNode \cup {0}
    BY DEF triggerKnativeFailure, triggerDirigentFailure, invokeRemotely, invokeLocally
  <1>5. CASE \E n \in failing : CommandEnds(n)
    <2>1. failing' \subseteq failing /\ UNCHANGED <<deployerVars, failure>> /\ failing # {}
      BY <1>5 DEF CommandEnds
    <2> QED BY <1>1, <1>2, <2>1 DEF deployerVars, LoaderMoves
  <1>6. CASE FailureOver
    BY <1>1, <1>2, <1>6 DEF FailureOver, deployerVars, LoaderMoves
  <1>7. CASE TriggerFailure(CASE platform = "knative" -> triggerKnativeFailure
                              [] platform = "dirigent" -> triggerDirigentFailure
                              [] OTHER -> {})
    <2>1. (CASE platform = "knative" -> triggerKnativeFailure
             [] platform = "dirigent" -> triggerDirigentFailure
             [] OTHER -> {}) \subseteq FailNode \cup {0}
      BY <1>4
    <2> QED BY <1>1, <1>3, <1>7, <2>1
  <1> QED BY <1>5, <1>6, <1>7 DEF ScheduleFailure

LEMMA DStep == DInv /\ [Next]_vars => DInv'
  <1> SUFFICES ASSUME DInv, [Next]_vars PROVE DInv'  OBVIOUS
  <1> USE DEF DInv
  <1>1. CASE DeployerStep \/ ControlPlaneStep  BY <1>1, DeployersKeep
  <1>2. CASE RunExperiment
    <2>1. LoaderMoves /\ UNCHANGED platformVars /\ pc' = "load" /\ pc = "deployed"
      BY <1>2 DEF RunExperiment, StartLoad, LoaderMoves
    <2>2. CommonInv' /\ AwsInv' /\ AzureInv' /\ KnativeInv' /\ OpenWhiskInv' /\ DirigentInv'
      BY <2>1, OthersKept, DirigentKept DEF platformVars
    <2>3. Stage' # "deploying"  BY <2>1 DEF Stage
    <2>4. FailureInv'  BY <1>2, <2>3 DEF RunExperiment, GoScheduleFailure, FailureInv
    <2> QED BY <2>2, <2>4
  <1>3. CASE ScheduleFailure
    <2>1. /\ LoaderMoves /\ UNCHANGED platformVars /\ failing' \subseteq FailNode \cup {0}
          /\ pc' = pc \/ (pc' = "exited" /\ pc \notin {"done", "exited"})
          /\ Stage = "deploying" => pc' = pc /\ failure' = "off" /\ failing' = {}
      BY <1>3, FailureSteps
    <2>2. CommonInv' /\ AwsInv' /\ AzureInv' /\ KnativeInv' /\ OpenWhiskInv' /\ DirigentInv'
      BY <2>1, OthersKept, DirigentKept DEF platformVars
    <2>3. Stage' = "deploying" => Stage = "deploying"
      <3>1. pc' = pc => Stage' = Stage  BY DEF Stage
      <3>2. pc' = "exited" => Stage' = "exited"  BY DEF Stage
      <3> QED BY <2>1, <3>1, <3>2
    <2>4. FailureInv'  BY <2>1, <2>3 DEF FailureInv
    <2> QED BY <2>2, <2>4
  <1>4. CASE UNCHANGED vars
    <2>1. /\ UNCHANGED <<platform, awsVars, azureVars, knativeVars, dirigentVars, actions>>
          /\ UNCHANGED <<failureVars, deployerVars>>
      BY <1>4 DEF vars
    <2>2. LoaderMoves  BY <2>1 DEF deployerVars, LoaderMoves
    <2>3. CommonInv' /\ AwsInv' /\ AzureInv' /\ KnativeInv' /\ OpenWhiskInv' /\ DirigentInv'
      BY <2>1, <2>2, OthersKept, DirigentKept
    <2>4. FailureInv'  BY <2>1 DEF FailureInv, failureVars, deployerVars, Stage
    <2> QED BY <2>3, <2>4
  <1> QED BY <1>1, <1>2, <1>3, <1>4 DEF Next, LoaderStep, Finished

-----------------------------------------------------------------------------
(* The theorems                                                             *)

(* Every reachable state of the experiment, on every platform, satisfies    *)
(* the inductive invariant.                                                 *)
THEOREM DeploymentInvariance == Spec => []DInv
  BY DInitially, DStep, PTL DEF Spec

(* The state of every deployer, of the injected failure and of the loader    *)
(* has its type; in particular CleanAWSLambda never counts more deletions    *)
(* than there are groups.                                                    *)
THEOREM DeploymentTypeCorrect == Spec => []TypeOK
  <1>1. DInv => TypeOK
    <2> SUFFICES ASSUME DInv PROVE TypeOK  OBVIOUS
    <2> USE DEF DInv
    <2>1. next \in 0 .. IF platform = "awslambda" THEN NumGroups ELSE NumFunctions
      <3>1. CASE platform = "awslambda"  BY <3>1 DEF AwsInv, AwsPhases
      <3>2. CASE platform = "azurefunctions"  BY <3>2 DEF AzureInv, AzurePhases
      <3>3. CASE platform = "knative"  BY <3>3 DEF KnativeInv, KnativePhases
      <3>4. CASE platform = "dirigent"  BY <3>4 DEF DirigentInv, DirigentPhases
      <3>5. CASE platform = "openwhisk"  BY <3>5 DEF OpenWhiskInv, OpenWhiskPhases
      <3> QED BY <3>1, <3>2, <3>3, <3>4, <3>5 DEF CommonInv, Platforms
    <2>2. /\ apps \cup services \cup registered \cup prepulled \subseteq Functions
          /\ folders \cup zips \cup actions \subseteq AnyFunction
      BY DEF AzureInv, AzureTypes, KnativeInv, KnativeTypes, DirigentInv, DirigentTypes, OpenWhiskInv
    <2>3. cfgFunctions \in Seq(Functions)  BY DEF DirigentInv, DirigentTypes
    <2>4. resourceGroup \in {"none", "exists", "deleting"}  BY DEF AzureInv, AzureTypes
    <2> QED BY <2>1, <2>2, <2>3, <2>4 DEF TypeOK, CommonInv, AwsInv, FailureInv
  <1> QED BY <1>1, DeploymentInvariance, PTL

(* When Deploy has returned and while the load runs, what has an endpoint is *)
(* up, on every platform: on AWS although a failed group removes everything  *)
(* in the background, on Dirigent only once /check has answered 200; and no  *)
(* failure is injected before.                                               *)
THEOREM DeployedIsReady == Spec => []ReadyWhenDeployed
  <1>1. DInv => ReadyWhenDeployed
    <2> SUFFICES ASSUME DInv PROVE ReadyWhenDeployed  OBVIOUS
    <2> USE DEF DInv
    <2>1. failing # {} => Stage # "deploying"  BY DEF FailureInv
    <2>2. CASE pc \notin {"deployed", "load"}  BY <2>1, <2>2 DEF ReadyWhenDeployed
    <2>3. CASE pc \in {"deployed", "load"}
      <3>1. platform = "awslambda" => AwsReady
        <4>1. SUFFICES ASSUME platform = "awslambda" PROVE AwsReady  OBVIOUS
        <4>2. AllUp /\ cleaner[Main] = "idle"  BY <2>3, <4>1 DEF AwsInv, AwsPhases
        <4>3. Quiet  BY <4>2 DEF AllUp, Quiet
        <4>4. repository /\ Groups \subseteq stacks
          BY <2>3, <4>1, <4>2, <4>3 DEF AwsInv, AwsPhases, AllUp
        <4>5. \A g \in Groups : cleaner[g] = "idle"  BY <4>1, <4>3 DEF AwsInv, CleanersInv, Quiet
        <4> QED BY <4>2, <4>4, <4>5 DEF AwsReady, Cleaners, Main
      <3>2. platform = "azurefunctions" => endpoint \subseteq apps /\ resourceGroup = "exists"
        BY <2>3 DEF AzureInv, AzurePhases
      <3>3. platform = "knative" => endpoint \subseteq services
        BY <2>3 DEF KnativeInv, KnativePhases
      <3>4. platform = "dirigent" =>
              deployWorkflow \/ (endpoint \subseteq IF prepull THEN prepulled ELSE registered)
        <4>1. SUFFICES ASSUME platform = "dirigent", ~deployWorkflow
                       PROVE  endpoint \subseteq registered /\ (prepull => endpoint \subseteq prepulled)
          OBVIOUS
        <4>2. \A f \in Functions : registering[f] = "done"
          BY <2>3, <4>1 DEF DirigentInv, DirigentPhases
        <4> QED BY <4>1, <4>2 DEF DirigentInv, DirigentPhases, CommonInv
      <3>5. platform = "openwhisk" => endpoint \subseteq actions
        BY <2>3 DEF OpenWhiskInv, OpenWhiskPhases
      <3>6. CASE platform = "awslambda"  BY <2>1, <3>1, <3>6 DEF ReadyWhenDeployed
      <3>7. CASE platform = "azurefunctions"  BY <2>1, <3>2, <3>7 DEF ReadyWhenDeployed
      <3>8. CASE platform = "knative"  BY <2>1, <3>3, <3>8 DEF ReadyWhenDeployed
      <3>9. CASE platform = "dirigent"  BY <2>1, <3>4, <3>9 DEF ReadyWhenDeployed
      <3>10. CASE platform = "openwhisk"  BY <2>1, <3>5, <3>10 DEF ReadyWhenDeployed
      <3> QED BY <3>6, <3>7, <3>8, <3>9, <3>10 DEF CommonInv, Platforms
    <2> QED BY <2>2, <2>3
  <1> QED BY <1>1, DeploymentInvariance, PTL

(* A clean-up that has logged no failure leaves nothing of the trace on the   *)
(* platform and no file of it: on AWS the "Deleted all" of CleanAWSLambda is *)
(* true, and the repository is gone too unless `describe-repositories` has    *)
(* failed.                                                                   *)
THEOREM CleanIsComplete == Spec => []CleanLeavesNothing
  <1>1. DInv => CleanLeavesNothing
    <2> SUFFICES ASSUME DInv PROVE CleanLeavesNothing  OBVIOUS
    <2> USE DEF DInv
    <2>1. groupDeleted /\ ~cleanError => resourceGroup # "exists"
      BY DEF AzureInv, AzurePhases
    <2>2. ASSUME pc = "done", ~cleanError
          PROVE  /\ platform = "awslambda" => AwsClean
                 /\ resourceGroup # "exists" /\ folders = {} /\ zips \cap Functions = {} /\ ~execFunc
                 /\ services = {} /\ predeployed.pods = {} /\ predeployed.services = {}
                 /\ actions \cap Functions = {}
      <3>1. platform = "awslambda" => AwsClean  BY <2>2 DEF AwsInv, AwsPhases
      <3>2. resourceGroup # "exists" /\ folders = {} /\ zips \cap Functions = {} /\ ~execFunc
        BY <2>2 DEF AzureInv, AzurePhases
      <3>3. services = {} /\ predeployed.pods = {} /\ predeployed.services = {}
        BY <2>2 DEF KnativeInv, KnativePhases
      <3>4. actions \cap Functions = {}  BY <2>2 DEF OpenWhiskInv, OpenWhiskPhases
      <3> QED BY <3>1, <3>2, <3>3, <3>4
    <2> QED BY <2>1, <2>2 DEF CleanLeavesNothing
  <1> QED BY <1>1, DeploymentInvariance, PTL

(* Every deployer is a FunctionDeployer: each step of the experiment on each *)
(* platform is a step of the abstract specification or leaves its state      *)
(* alone.                                                                    *)
THEOREM DeploymentImplements == Spec => RefinesDeployer
  <1>1. Init => Abstract!Init
    <2> SUFFICES ASSUME Init PROVE Abstract!Init  OBVIOUS
    <2>1. pc = "start" /\ endpoint = {}  BY DEF Init, DeployerInit
    <2>2. Stage = "deploying"  BY <2>1 DEF Stage
    <2> QED BY <2>1, <2>2 DEF Abstract!Init
  <1>2. DInv /\ [Next]_vars => [Abstract!Next]_(Abstract!vars)
    <2> SUFFICES ASSUME DInv, [Next]_vars PROVE [Abstract!Next]_(Abstract!vars)  OBVIOUS
    <2> USE DEF Abstract!Next, Abstract!Deploy, Abstract!StartLoad, Abstract!Clean, Abstract!Fatal,
                Abstract!vars
    <2>1. CASE DeployerStep \/ ControlPlaneStep
      <3>1. DeployerMove /\ UNCHANGED platform  BY <2>1, DeployersKeep
      <3> QED BY <3>1 DEF DeployerMove
    <2>2. CASE RunExperiment
      <3>1. /\ pc = "deployed" /\ pc' = "load" /\ UNCHANGED <<endpoint, platform>>
        BY <2>2 DEF RunExperiment, StartLoad, platformVars
      <3>2. Stage = "deploying" /\ Stage' = "load"  BY <3>1 DEF Stage
      <3>3. platform \in {"knative", "dirigent"} \/ endpoint = Functions
        BY <3>1, EndpointsComplete
      <3> QED BY <3>1, <3>2, <3>3
    <2>3. CASE ScheduleFailure
      <3>1. /\ LoaderMoves /\ UNCHANGED platformVars
            /\ pc' = pc \/ (pc' = "exited" /\ pc \notin {"done", "exited"})
        BY <2>3, FailureSteps
      <3>2. UNCHANGED <<endpoint, platform>>  BY <3>1 DEF LoaderMoves, platformVars
      <3>3. CASE pc' = pc
        <4>1. Stage' = Stage  BY <3>3 DEF Stage
        <4> QED BY <3>2, <4>1
      <3>4. CASE pc' = "exited" /\ pc \notin {"done", "exited"}
        <4>1. Stage' = "exited"  BY <3>4 DEF Stage
        <4>2. Stage \in {"deploying", "load", "cleaning"}  BY <3>4, StageOf
        <4> QED BY <3>2, <4>1, <4>2
      <3> QED BY <3>1, <3>3, <3>4
    <2>4. CASE UNCHANGED vars
      <3>1. UNCHANGED <<platform, endpoint, pc>>  BY <2>4 DEF vars, deployerVars
      <3>2. Stage' = Stage  BY <3>1 DEF Stage
      <3> QED BY <3>1, <3>2
    <2> QED BY <2>1, <2>2, <2>3, <2>4 DEF Next, LoaderStep, Finished
  <1> QED BY <1>1, <1>2, DeploymentInvariance, PTL DEF Spec, RefinesDeployer, Abstract!Spec
=============================================================================
