-------------------------- MODULE AzureDeployment ---------------------------
(* Deployment on Azure Functions (pkg/driver/deployment/azure_functions.go):*)
(* a resource group, a storage account in it, then one app, one folder, one *)
(* zip file and one upload per function.  What fails while the group is     *)
(* filled deletes it and ends the loader; what fails afterwards ends the    *)
(* loader and leaves it.                                                    *)
EXTENDS Deployer

VARIABLES
  resourceGroup,  \* on Azure: "none", "exists" or "deleting"
  apps,           \* on Azure: the functions whose app exists
  folders,        \* on disk: the functions with a folder in baseDir
  zips,           \* on disk: the functions with a zip file
  execFunc,       \* on disk: is exec_func.py in the shared workload?
  groupDeleted    \* InitAzureFunctions has asked for the group to be deleted

disk == <<folders, zips, execFunc>>
azure == <<resourceGroup, apps, groupDeleted>>
azureVars == <<disk, azure>>

(* The group has a new name in every experiment; files of an earlier one    *)
(* that ended early, and whose trace may have been larger, may still be     *)
(* there.                                                                   *)
AzureInit ==
  /\ resourceGroup = "none" /\ apps = {} /\ groupDeleted = FALSE
  /\ folders \in {0 .. n - 1 : n \in {0, NumFunctions, NumFunctions + 1}}
  /\ zips \in {0 .. n - 1 : n \in 0 .. NumFunctions + 1}
  /\ execFunc \in BOOLEAN

LoadConfig ==
  /\ pc = "start"
  /\ FatalOr("copy")
  /\ UNCHANGED <<next, endpoint, cleanError, azureVars>>

CopyPythonWorkload ==
  /\ pc = "copy"
  /\ \/ Exit /\ execFunc' \in {execFunc, TRUE}
     \/ pc' = "group" /\ execFunc' = TRUE
  /\ UNCHANGED <<next, endpoint, cleanError, folders, zips, azure>>

(***************************************************************************)
(* InitAzureFunctions                                                      *)
(***************************************************************************)
CreateResourceGroup ==
  /\ pc = "group"
  /\ \/ Exit /\ resourceGroup' \in {"none", "exists"}
     \/ pc' = "storage" /\ resourceGroup' = "exists"
  /\ UNCHANGED <<next, endpoint, cleanError, disk, apps, groupDeleted>>

CreateStorageAccount ==
  /\ pc = "storage"
  /\ pc' \in {"app", "abort"}
  /\ UNCHANGED <<next, endpoint, cleanError, azureVars>>

CreateFunctionApp ==
  /\ pc = "app" /\ next < NumFunctions
  /\ \/ pc' = "abort" /\ apps' \in MaybeAdded(next, apps)
     \/ pc' = "scm" /\ apps' = apps \cup {next}
  /\ UNCHANGED <<next, endpoint, cleanError, disk, resourceGroup, groupDeleted>>

SetSCMSettings ==
  /\ pc = "scm"
  /\ pc' \in {"oryx", "abort"}
  /\ UNCHANGED <<next, endpoint, cleanError, azureVars>>

SetORYXSettings ==
  /\ pc = "oryx"
  /\ \/ pc' = "abort" /\ UNCHANGED next
     \/ pc' = "app" /\ next' = next + 1
  /\ UNCHANGED <<endpoint, cleanError, azureVars>>

AppsCreated == EndLoop("app", "folders") /\ UNCHANGED azureVars

(* `az group delete --no-wait` is accepted, or fails.                       *)
DeleteResourceGroup ==
  \/ resourceGroup' = "deleting" /\ UNCHANGED cleanError
  \/ cleanError' = TRUE /\ resourceGroup' \in {resourceGroup, "deleting"}

AbortInit ==
  /\ pc = "abort" /\ Exit
  /\ DeleteResourceGroup
  /\ groupDeleted' = TRUE
  /\ UNCHANGED <<next, endpoint, disk, apps>>

(* Azure deletes the group and what is in it.                               *)
GroupGone ==
  /\ resourceGroup = "deleting"
  /\ resourceGroup' = "none" /\ apps' = {}
  /\ UNCHANGED <<deployerVars, disk, groupDeleted>>

(***************************************************************************)
(* The files, and DeployFunctions                                          *)
(***************************************************************************)
CreateFunctionFolders ==
  /\ pc = "folders" /\ next < NumFunctions
  /\ \/ Exit /\ folders' \in MaybeAdded(next, folders) /\ UNCHANGED next
     \/ folders' = folders \cup {next} /\ next' = next + 1 /\ UNCHANGED pc
  /\ UNCHANGED <<endpoint, cleanError, zips, execFunc, azure>>

FoldersCreated == EndLoop("folders", "zip") /\ UNCHANGED azureVars

ZipFunctionAppFiles ==
  /\ pc = "zip" /\ next < NumFunctions
  /\ \/ Exit /\ zips' \in MaybeAdded(next, zips) /\ UNCHANGED next
     \/ next \in folders /\ zips' = zips \cup {next} /\ next' = next + 1 /\ UNCHANGED pc
  /\ UNCHANGED <<endpoint, cleanError, folders, execFunc, azure>>

FilesZipped == EndLoop("zip", "push") /\ UNCHANGED azureVars

(* The upload needs the app and the zip file.                               *)
DeployFunctions ==
  /\ pc = "push" /\ next < NumFunctions
  /\ \/ Exit /\ UNCHANGED <<next, endpoint>>
     \/ /\ next \in apps \cap zips
        /\ endpoint' = endpoint \cup {next} /\ next' = next + 1 /\ UNCHANGED pc
  /\ UNCHANGED <<cleanError, azureVars>>

AllDeployed == EndLoop("push", "deployed") /\ UNCHANGED azureVars

(***************************************************************************)
(* CleanAzureFunctions: the first file that cannot be removed ends          *)
(* CleanUpDeploymentFiles; the group is deleted all the same.               *)
(***************************************************************************)
AzureClean == EndLoad /\ UNCHANGED azureVars

FilesNotCleaned == cleanError' = TRUE /\ pc' = "deleteGroup"

RemoveBaseDir ==
  /\ pc = "clean"
  /\ \/ folders' = {} /\ pc' = "cleanZips" /\ UNCHANGED cleanError
     \/ folders' \in SUBSET folders /\ FilesNotCleaned
  /\ UNCHANGED <<next, endpoint, zips, execFunc, azure>>

RemoveZip ==
  /\ pc = "cleanZips" /\ next < NumFunctions
  /\ \/ next \in zips /\ zips' = zips \ {next} /\ next' = next + 1 /\ UNCHANGED <<pc, cleanError>>
     \/ FilesNotCleaned /\ UNCHANGED <<next, zips>>
  /\ UNCHANGED <<endpoint, folders, execFunc, azure>>

ZipsRemoved == EndLoop("cleanZips", "cleanWorkload") /\ UNCHANGED azureVars

RemoveWorkload ==
  /\ pc = "cleanWorkload"
  /\ \/ execFunc' = FALSE /\ pc' = "deleteGroup" /\ UNCHANGED cleanError
     \/ FilesNotCleaned /\ UNCHANGED execFunc
  /\ UNCHANGED <<next, endpoint, folders, zips, azure>>

CleanAzureFunctions ==
  /\ pc = "deleteGroup"
  /\ DeleteResourceGroup
  /\ pc' = "done"
  /\ UNCHANGED <<next, endpoint, disk, apps, groupDeleted>>

AzureStep ==
  \/ LoadConfig \/ CopyPythonWorkload \/ CreateResourceGroup \/ CreateStorageAccount
  \/ CreateFunctionApp \/ SetSCMSettings \/ SetORYXSettings \/ AppsCreated \/ AbortInit
  \/ CreateFunctionFolders \/ FoldersCreated \/ ZipFunctionAppFiles \/ FilesZipped
  \/ DeployFunctions \/ AllDeployed
  \/ AzureClean \/ RemoveBaseDir \/ RemoveZip \/ ZipsRemoved \/ RemoveWorkload
  \/ CleanAzureFunctions \/ GroupGone
=============================================================================
