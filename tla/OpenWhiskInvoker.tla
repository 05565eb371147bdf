-------------------------- MODULE OpenWhiskInvoker --------------------------
(***************************************************************************)
(* The OpenWhisk client (pkg/driver/clients/openwhisk_client.go) and the    *)
(* WaitGroup that is to keep it from querying OpenWhisk during the          *)
(* experiment.  functionsDriver adds its invocations to the WaitGroup it is *)
(* given, Invoke reports each HTTP request as done to the WaitGroup that    *)
(* NewDriver gave the client, waits for it, and then queries the activation *)
(* under a mutex.                                                           *)
(*                                                                          *)
(* The two are not the same: NewDriver passes &d.allFunctionsInvoked        *)
(* (trace_driver.go:69), internalRun declares a local allFunctionsInvoked   *)
(* (line 365) and hands that to the drivers (lines 382 and 398).            *)
(***************************************************************************)
EXTENDS Integers, FiniteSets, Clients

CONSTANTS Drivers,     \* the functions
          Invocations, \* the invocations
          DriverOf     \* the function each invocation is of

VARIABLES added,            \* drivers that have added their invocations
          localGroup,       \* internalRun's local allFunctionsInvoked
          announceDoneExe,  \* d.allFunctionsInvoked, the client's announceDoneExe
          ipc,              \* where each Invoke is
          mutex,            \* readOpenWhiskMetadata: its holders
          panicked          \* "sync: negative WaitGroup counter" ends the process

vars == <<added, localGroup, announceDoneExe, ipc, mutex, panicked>>

Init == /\ added = {}
        /\ localGroup = 0
        /\ announceDoneExe = 0
        /\ ipc = [i \in Invocations |-> "none"]
        /\ mutex = {}
        /\ panicked = FALSE

\* functionsDriver, line 171
AddInvocations(f) ==
  /\ f \notin added
  /\ added' = added \cup {f}
  /\ localGroup' = localGroup + Cardinality({i \in Invocations : DriverOf[i] = f})
  /\ UNCHANGED <<announceDoneExe, ipc, mutex, panicked>>

Fire(i) ==
  /\ DriverOf[i] \in added /\ ipc[i] = "none"
  /\ ipc' = [ipc EXCEPT ![i] = "http"]
  /\ UNCHANGED <<added, localGroup, announceDoneExe, mutex, panicked>>

\* httpInvocation: however the request ends, the deferred Done comes last.
HttpInvocation(i) ==
  /\ ipc[i] = "http"
  /\ announceDoneExe' = announceDoneExe - 1
  /\ panicked' = (announceDoneExe' < 0)
  /\ \E r \in Replies : ipc' = [ipc EXCEPT ![i] = IF httpInvocation(r) THEN "wait" ELSE "waitFailed"]
  /\ UNCHANGED <<added, localGroup, mutex>>

\* Line 51, and the early return for a failed request
WaitAll(i) ==
  /\ ipc[i] \in {"wait", "waitFailed"} /\ announceDoneExe = 0
  /\ ipc' = [ipc EXCEPT ![i] = IF @ = "wait" THEN "lock" ELSE "done"]
  /\ UNCHANGED <<added, localGroup, announceDoneExe, mutex, panicked>>

Lock(i) ==
  /\ ipc[i] = "lock" /\ mutex = {}
  /\ mutex' = {i}
  /\ ipc' = [ipc EXCEPT ![i] = "query"]
  /\ UNCHANGED <<added, localGroup, announceDoneExe, panicked>>

\* wsk activation get; both outcomes unlock
QueryActivation(i) ==
  /\ ipc[i] = "query"
  /\ mutex' = {}
  /\ ipc' = [ipc EXCEPT ![i] = "done"]
  /\ UNCHANGED <<added, localGroup, announceDoneExe, panicked>>

Next == /\ ~panicked
        /\ \/ \E f \in Drivers : AddInvocations(f)
           \/ \E i \in Invocations : \/ Fire(i) \/ HttpInvocation(i) \/ WaitAll(i)
                                     \/ Lock(i) \/ QueryActivation(i)

Spec == Init /\ [][Next]_vars

\* What the comment on line 51 says of the WaitGroup: it postpones querying OpenWhisk
\* during the experiment, so it is not zero while a request is still outstanding.
PostponesQueries == (\E i \in Invocations : ipc[i] = "http") => announceDoneExe > 0
=============================================================================
