--------------------------- MODULE AwsDeployment ---------------------------
(* Deployment of a trace on AWS Lambda (pkg/driver/deployment): functions   *)
(* are split into groups, a serverless.yml file is written for each, and    *)
(* groups are deployed and removed by goroutines that run the `sls` command,*)
(* parallelDeployment at a time.  A goroutine whose deployment fails removes *)
(* everything and ends the loader, while the others are still at work.      *)
(* A command that was started goes on when the loader has ended.            *)
EXTENDS Deployer

CONSTANTS
  groupSize,           \* functions per serverless.yml, 60 in the code
  parallelDeployment,  \* 2 in the code
  RemoveMayFail        \* may a command that removes something fail?

ASSUME DeployAssumption ==
  /\ groupSize \in Nat \ {0}
  /\ parallelDeployment \in Nat \ {0}
  /\ RemoveMayFail \in BOOLEAN

Lesser(a, b) == IF a < b THEN a ELSE b

NumGroups == (NumFunctions + groupSize - 1) \div groupSize
Groups == 0 .. NumGroups - 1
AnyGroup == Groups \cup {NumGroups}  \* NumGroups: one that only a larger trace has
Group(g) == g * groupSize .. Lesser((g + 1) * groupSize, NumFunctions) - 1

\* Who may run CleanAWSLambda: the loader itself, and a group that failed.
Cleaners == Groups \cup {NumGroups}
Main == NumGroups

VARIABLES
  group,      \* where the goroutine that deploys a group is
  cleaner,    \* where a call of CleanAWSLambda is
  cleanNext,  \* its index i
  counter,    \* the groups it has counted as deleted
  removing,   \* where its goroutine for a group is
  stacks,     \* on AWS: the groups whose stack exists
  repository, \* on AWS: the image repository exists
  files,      \* on disk: the groups whose serverless.yml exists
  overlooked  \* Clean has not seen that the repository exists

goVars == <<pc, next, group, endpoint>>
cleanVars == <<cleaner, cleanNext, counter, removing, cleanError, overlooked>>
world == <<stacks, repository, files>>
awsVars == <<group, cleaner, cleanNext, counter, removing, overlooked, world>>
deploymentVars == <<deployerVars, awsVars>>

(* Leftovers of an earlier experiment, whose trace may have been larger, may *)
(* still be there: stacks with their files, and the repository.             *)
AwsInit ==
  /\ group = [g \in Groups |-> "idle"]
  /\ cleaner = [c \in Cleaners |-> "idle"]
  /\ cleanNext = [c \in Cleaners |-> 0]
  /\ counter = [c \in Cleaners |-> 0]
  /\ removing = [c \in Cleaners |-> [g \in Groups |-> "idle"]]
  /\ stacks \in SUBSET AnyGroup
  /\ repository \in BOOLEAN
  /\ files = stacks
  /\ overlooked = FALSE

(***************************************************************************)
(* CleanAWSLambda                                                          *)
(***************************************************************************)
StartClean(c) ==
  /\ cleaner' = [cleaner EXCEPT ![c] = "registry"]
  /\ cleanNext' = [cleanNext EXCEPT ![c] = 0]
  /\ counter' = [counter EXCEPT ![c] = 0]
  /\ UNCHANGED <<removing, cleanError, overlooked>>

\* Is it Clean, after the load, that c runs CleanAWSLambda for?
AfterLoad(c) == c = Main /\ pc = "clean"

(* That `describe-repositories` fails is taken to mean that there is none;   *)
(* that `delete-repository` fails is logged.                                *)
cleanAWSElasticContainerRegistry(c) ==
  /\ Alive /\ cleaner[c] = "registry"
  /\ cleaner' = [cleaner EXCEPT ![c] = "loop"]
  /\ \/ repository' = FALSE /\ UNCHANGED <<cleanError, overlooked>>
     \/ /\ RemoveMayFail /\ repository
        /\ overlooked' = (overlooked \/ AfterLoad(c))
        /\ UNCHANGED <<repository, cleanError>>
     \/ /\ RemoveMayFail /\ repository
        /\ repository' \in BOOLEAN
        /\ cleanError' = (cleanError \/ AfterLoad(c))
        /\ UNCHANGED overlooked
  /\ UNCHANGED <<goVars, cleanNext, counter, removing, stacks, files>>

\* The goroutines of c that have not called wg.Done.
Removing(c) == {g \in Groups : removing[c][g] # "idle"}

(* A batch of goroutines is only begun when the one before has finished.    *)
StartRemoval(c) ==
  LET g == cleanNext[c] IN
  /\ Alive /\ cleaner[c] = "loop" /\ g < NumGroups
  /\ g % parallelDeployment = 0 => Removing(c) = {}
  /\ removing' = [removing EXCEPT ![c][g] = "stat"]
  /\ cleanNext' = [cleanNext EXCEPT ![c] = g + 1]
  /\ UNCHANGED <<goVars, cleaner, counter, cleanError, overlooked, world>>

\* CleanServerless returns; it has deleted the group, or has given up.
Deleted(c, g) ==
  /\ counter' = [counter EXCEPT ![c] = @ + 1]
  /\ removing' = [removing EXCEPT ![c][g] = "idle"]
NotDeleted(c, g) ==
  /\ removing' = [removing EXCEPT ![c][g] = "idle"]
  /\ UNCHANGED counter

CheckFile(c, g) ==
  /\ Alive /\ removing[c][g] = "stat"
  /\ IF g \in files
     THEN removing' = [removing EXCEPT ![c][g] = "remove"] /\ UNCHANGED counter
     ELSE Deleted(c, g)
  /\ UNCHANGED <<goVars, cleaner, cleanNext, cleanError, overlooked, world>>

\* A failed removal counted as a deletion.
RemoveFails_Counted(c, g) == Deleted(c, g)

RemoveFails(c, g) == NotDeleted(c, g)

(* `sls remove` needs the file; that there is no stack is not an error; it   *)
(* may fail with the stack removed.                                         *)
SlsRemove(c, g) ==
  /\ removing[c][g] = "remove"
  /\ \/ /\ g \in files
        /\ stacks' = stacks \ {g}
        /\ removing' = [removing EXCEPT ![c][g] = "rm"]
        /\ UNCHANGED counter
     \/ /\ g \notin files \/ RemoveMayFail
        /\ RemoveFails(c, g)
        /\ stacks' \in {stacks} \cup {stacks \ {h} : h \in {g} \cap files}
  /\ UNCHANGED <<goVars, cleaner, cleanNext, cleanError, overlooked, repository, files>>

RemoveFile(c, g) ==
  /\ Alive /\ removing[c][g] = "rm"
  /\ \/ files' = files \ {g} /\ Deleted(c, g)
     \/ RemoveMayFail /\ NotDeleted(c, g) /\ UNCHANGED files
  /\ UNCHANGED <<goVars, cleaner, cleanNext, cleanError, overlooked, stacks, repository>>

CleanCompleted(c) ==
  Alive /\ cleaner[c] = "loop" /\ cleanNext[c] = NumGroups /\ Removing(c) = {}

(* What comes after: the rest of the preparation, the end of the            *)
(* experiment, or log.Fatalf in the goroutine of the group that failed.         *)
EndClean(c) ==
  /\ CleanCompleted(c)
  /\ cleaner' = [cleaner EXCEPT ![c] = "idle"]
  /\ \/ c = Main /\ pc = "cleanPrevious" /\ pc' = "logGroups" /\ UNCHANGED cleanError
     \/ c = Main /\ pc = "clean" /\ pc' = "done" /\ cleanError' = (cleanError \/ counter[c] # NumGroups)
     \/ c \in Groups /\ Exit /\ UNCHANGED cleanError
  /\ UNCHANGED <<next, group, endpoint, cleanNext, counter, removing, overlooked, world>>

(***************************************************************************)
(* internalAWSDeployment                                                   *)
(***************************************************************************)
(* In the preparation, a command that fails ends the loader.                *)
checkDependencies ==
  /\ pc = "start"
  /\ FatalOr("leftovers")
  /\ UNCHANGED <<next, group, endpoint, cleanVars, world>>

(* initAWSLambda: the files are written that are needed to remove what an    *)
(* earlier experiment has left.                                             *)
initAWSLambda ==
  /\ pc = "leftovers"
  /\ \/ Exit /\ (\E new \in SUBSET Groups : files' = files \cup new) /\ UNCHANGED cleanVars
     \/ pc' = "cleanPrevious" /\ files' = files \cup Groups /\ StartClean(Main)
  /\ UNCHANGED <<next, group, endpoint, stacks, repository>>

cleanAWSCloudWatchLogGroups ==
  /\ pc = "logGroups"
  /\ FatalOr("account")
  /\ UNCHANGED <<next, group, endpoint, cleanVars, world>>

obtainAWSAccountId ==
  /\ pc = "account"
  /\ FatalOr("ecr")
  /\ UNCHANGED <<next, group, endpoint, cleanVars, world>>

(* The repository is created and filled; `create-repository` fails if there  *)
(* is one.                                                                  *)
initECRRepository ==
  /\ pc = "ecr"
  /\ \/ Exit /\ repository' \in {repository, TRUE}
     \/ ~repository /\ repository' = TRUE /\ pc' = "configs"
  /\ UNCHANGED <<next, group, endpoint, cleanVars, stacks, files>>

(* The files, with the account.                                             *)
createSlsConfigFiles ==
  /\ pc = "configs"
  /\ \/ Exit /\ \E new \in SUBSET Groups : files' = files \cup new
     \/ pc' = "deploy" /\ files' = files \cup Groups
  /\ UNCHANGED <<next, group, endpoint, cleanVars, stacks, repository>>

\* wg.Done forgotten on the way of success.
Deploying_NoDone == {g \in Groups : group[g] # "idle"}

\* The goroutines that have not called wg.Done.
Deploying == {g \in Groups : group[g] \notin {"idle", "done"}}

\* The loop runs over the end of functionGroups.
MayStart_OffByOne(g) == g <= NumGroups /\ (g % parallelDeployment = 0 => Deploying = {})

MayStart(g) == g < NumGroups /\ (g % parallelDeployment = 0 => Deploying = {})

StartDeployment ==
  /\ pc = "deploy" /\ MayStart(next)
  /\ group' = [group EXCEPT ![next] = "begin"]
  /\ next' = next + 1
  /\ UNCHANGED <<pc, endpoint, cleanVars, world>>

(* DeployServerless: `sls deploy` reads the file, creates the stack some    *)
(* time later, and returns; it may fail before and after.                   *)
SlsReadFile(g) ==
  /\ Alive /\ group[g] = "begin"
  /\ group' = [group EXCEPT ![g] = IF g \in files THEN "running" ELSE "failed"]
  /\ UNCHANGED <<pc, next, endpoint, cleanVars, world>>

SlsCreateStack(g) ==
  /\ group[g] = "running"
  /\ group' = [group EXCEPT ![g] = "created"]
  /\ stacks' = stacks \cup {g}
  /\ UNCHANGED <<pc, next, endpoint, cleanVars, repository, files>>

SlsFails(g) ==
  /\ Alive /\ group[g] \in {"running", "created"}
  /\ group' = [group EXCEPT ![g] = "failed"]
  /\ UNCHANGED <<pc, next, endpoint, cleanVars, world>>

Deployed(g) ==
  /\ Alive /\ group[g] = "created"
  /\ group' = [group EXCEPT ![g] = "done"]
  /\ endpoint' = endpoint \cup Group(g)
  /\ UNCHANGED <<pc, next, cleanVars, world>>

CleanAfterFailure(g) ==
  /\ Alive /\ group[g] = "failed"
  /\ group' = [group EXCEPT ![g] = "cleaning"]
  /\ StartClean(g)
  /\ UNCHANGED <<pc, next, endpoint, world>>

DeployReturns ==
  /\ pc = "deploy" /\ next = NumGroups /\ Deploying = {}
  /\ pc' = "deployed"
  /\ UNCHANGED <<next, group, endpoint, cleanVars, world>>

(* RunExperiment: the load has ended.                                       *)
Clean ==
  /\ pc = "load"
  /\ pc' = "clean"
  /\ StartClean(Main)
  /\ UNCHANGED <<next, group, endpoint, world>>

CleanStep(c) ==
  \/ cleanAWSElasticContainerRegistry(c) \/ StartRemoval(c) \/ EndClean(c)
  \/ \E g \in Groups : CheckFile(c, g) \/ SlsRemove(c, g) \/ RemoveFile(c, g)

GroupStep(g) ==
  SlsReadFile(g) \/ SlsCreateStack(g) \/ SlsFails(g) \/ Deployed(g) \/ CleanAfterFailure(g)

MainStep ==
  \/ checkDependencies \/ initAWSLambda \/ cleanAWSCloudWatchLogGroups \/ obtainAWSAccountId
  \/ initECRRepository \/ createSlsConfigFiles \/ StartDeployment \/ DeployReturns \/ Clean

AwsStep == MainStep \/ (\E g \in Groups : GroupStep(g)) \/ (\E c \in Cleaners : CleanStep(c))

(* The loader on AWS alone.  Go runs a goroutine that can run, and a        *)
(* command that was started ends.                                           *)
AwsProgress == AwsStep \/ (StartLoad /\ UNCHANGED awsVars)

AwsSpec ==
  /\ DeployerInit /\ AwsInit
  /\ [][AwsProgress \/ (pc \in {"done", "exited"} /\ UNCHANGED deploymentVars)]_deploymentVars
  /\ WF_deploymentVars(AwsProgress)

(***************************************************************************)
(* Properties                                                              *)
(***************************************************************************)
AwsTypeOK ==
  /\ group \in [Groups -> {"idle", "begin", "running", "created", "failed", "cleaning", "done"}]
  /\ cleaner \in [Cleaners -> {"idle", "registry", "loop"}]
  /\ cleanNext \in [Cleaners -> 0 .. NumGroups]
  /\ counter \in [Cleaners -> 0 .. NumGroups]
  /\ removing \in [Cleaners -> [Groups -> {"idle", "stat", "remove", "rm"}]]
  /\ repository \in BOOLEAN /\ overlooked \in BOOLEAN
  /\ stacks \subseteq AnyGroup /\ files \subseteq AnyGroup

(* AWS: when internalAWSDeployment returns, every group is up, the          *)
(* repository is there and nobody is removing anything, although a failed   *)
(* group removes everything in the background.                              *)
AwsReady ==
  /\ Groups \subseteq stacks /\ repository
  /\ \A c \in Cleaners : cleaner[c] = "idle"

(* CleanAWSLambda at the end of an experiment logs "Deleted all" and no      *)
(* error only if no stack and no serverless.yml of this trace is left, and   *)
(* the repository only if `describe-repositories` has failed.               *)
AwsClean ==
  /\ stacks \cap Groups = {} /\ files \cap Groups = {}
  /\ repository => overlooked

(* aws_lambda.go:58 "Clean up all deployed functions before exiting":        *)
(* nothing of this trace is left on AWS when a failed group ends the loader. *)
CleanedBeforeExit ==
  Exited /\ (\E g \in Groups : group[g] = "cleaning") => stacks \cap Groups = {}
=============================================================================
