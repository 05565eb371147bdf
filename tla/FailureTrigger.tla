--------------------------- MODULE FailureTrigger ---------------------------
(* The failure that can be injected into an experiment                      *)
(* (pkg/driver/failure/triggers.go): a goroutine that sleeps and then       *)
(* restarts a component with a local command, or with one on every node of  *)
(* a list.  It runs beside the load and Clean, and nobody waits for it.     *)
EXTENDS Deployer

CONSTANT FailNode   \* the nodes of the list, numbered from 1; {} is ""

ASSUME FailureAssumption == FailNode \subseteq Nat \ {0}

Components == {"control_plane", "data_plane", "worker_node"}

VARIABLES
  failComponent,  \* "none" if FailureConfiguration asks for no failure
  failure,        \* "off", "sleep", "wait" or "done"
  failing         \* the commands that are running: 0 is the local one

failureVars == <<failComponent, failure, failing>>

FailureInit == failComponent = "none" /\ failure = "off" /\ failing = {}

(* Split never returns an empty list: without nodes, ssh gets an empty one, *)
(* here 0 as well.                                                          *)
invokeRemotely == IF FailNode = {} THEN {0} ELSE FailNode
invokeLocally == {0}

triggerKnativeFailure == IF failComponent = "worker_node" THEN invokeRemotely ELSE invokeLocally
triggerDirigentFailure == IF FailNode = {} THEN invokeLocally ELSE invokeRemotely

(* The goroutine ends with the loader.                                      *)
Running == pc \notin {"done", "exited"}

(* The configuration is read.                                               *)
GoScheduleFailure ==
  /\ failComponent' \in Components \cup {"none", "invalid"}
  /\ failure' = IF failComponent' = "none" THEN "done" ELSE "sleep"
  /\ UNCHANGED failing

(* The sleep is over.  commands is what the platform's handler runs, {} if  *)
(* it has none; a component it does not know ends the loader.               *)
TriggerFailure(commands) ==
  /\ Running /\ failure = "sleep"
  /\ \/ failComponent \in Components /\ failing' = commands /\ UNCHANGED pc
     \/ failComponent = "invalid" /\ commands = {} /\ failing' = {} /\ UNCHANGED pc
     \/ failComponent = "invalid" /\ commands # {} /\ failing' = {} /\ Exit
  /\ failure' = "wait"
  /\ UNCHANGED <<next, endpoint, cleanError, failComponent>>

CommandEnds(n) ==
  /\ Running /\ n \in failing
  /\ failing' = failing \ {n}
  /\ UNCHANGED <<deployerVars, failComponent, failure>>

FailureOver ==
  /\ Running /\ failure = "wait" /\ failing = {}
  /\ failure' = "done"
  /\ UNCHANGED <<deployerVars, failComponent, failing>>
=============================================================================
