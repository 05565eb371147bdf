------------------------- MODULE OpenWhiskDeployment ------------------------
(* Deployment on OpenWhisk (pkg/driver/deployment/openwhisk.go): an action  *)
(* per function, created and deleted one after the other with `wsk`.  The   *)
(* first action that cannot be created ends the loader and leaves the ones  *)
(* before it; one that cannot be deleted is skipped.                        *)
EXTENDS Deployer

VARIABLE actions   \* on OpenWhisk: the functions whose action exists

(* An action of an earlier experiment, this trace's or not, may still be     *)
(* there.                                                                   *)
OpenWhiskInit == actions \in SUBSET AnyFunction

GetApiHost ==
  /\ pc = "start"
  /\ FatalOr("create")
  /\ UNCHANGED <<next, endpoint, cleanError, actions>>

(* `wsk action create` fails if there is one.                               *)
CreateAction ==
  /\ pc = "create" /\ next < NumFunctions
  /\ \/ /\ next \notin actions
        /\ actions' = actions \cup {next}
        /\ endpoint' = endpoint \cup {next}
        /\ next' = next + 1
        /\ UNCHANGED pc
     \/ /\ Exit
        /\ actions' \in MaybeAdded(next, actions)
        /\ UNCHANGED <<next, endpoint>>
  /\ UNCHANGED cleanError

ActionsCreated == EndLoop("create", "deployed") /\ UNCHANGED actions

OpenWhiskClean == EndLoad /\ UNCHANGED actions

DeleteAction ==
  /\ pc = "clean" /\ next < NumFunctions
  /\ next' = next + 1
  /\ \/ actions' = actions \ {next} /\ UNCHANGED cleanError
     \/ actions' \in MaybeRemoved(next, actions) /\ cleanError' = TRUE
  /\ UNCHANGED <<pc, endpoint>>

ActionsDeleted == EndLoop("clean", "done") /\ UNCHANGED actions

OpenWhiskStep ==
  GetApiHost \/ CreateAction \/ ActionsCreated \/ OpenWhiskClean \/ DeleteAction \/ ActionsDeleted
=============================================================================
