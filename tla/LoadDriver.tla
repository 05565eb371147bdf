----------------------------- MODULE LoadDriver -----------------------------
(***************************************************************************)
(* One run of the load generator: Driver.internalRun and the goroutines it  *)
(* starts (pkg/driver/trace_driver.go, async_processing.go, metrics.go and  *)
(* pkg/metric/loader_metrics.go).                                           *)
(*                                                                          *)
(*   main       internalRun                                                 *)
(*   drivers    functionsDriver, one per function or per DAG                *)
(*   inv        invokeFunction, one per invocation and per branch of a DAG  *)
(*   collector  CreateGlobalMetricsCollector and its RunCSVWriter           *)
(*   scraper    CreateMetricsScrapper and its two RunCSVWriters             *)
(*   workers    the goroutines of writeAsyncRecordsToLog                    *)
(*                                                                          *)
(* A WaitGroup is its counter.  A send on an unbuffered channel is one step *)
(* of the sender and the receiver together.  A record is identified by the  *)
(* goroutine and the node of its list that produced it; of its contents only *)
(* "did it succeed" is kept.  Which minute, phase and invocation ID a record *)
(* carries, and when an invocation is fired, is the subject of module        *)
(* Schedule.                                                                *)
(*                                                                          *)
(* An operator X_Y that stands before X is a mistake in X that the project's *)
(* checks are known to catch; nothing else uses it.                          *)
(***************************************************************************)
EXTENDS Integers, Sequences, FiniteSets, Clients

CONSTANTS Drivers,         \* the functions (or the DAGs) of the trace
          Lists,           \* the linked lists of DAG nodes
          Configs,         \* the configurations the loader may be started with
          MaxInvocations,  \* bound: invocations per driver
          MaxScrapes,      \* bound: ticks of the scraper's timer
          MaxScaleRows,    \* bound: deployments ScrapeDeploymentScales reports
          RecordsCap,      \* capacity of the channels to the CSV writers (100)
          BatchSize        \* batchSize of writeAsyncRecordsToLog (50)

(***************************************************************************)
(* A configuration: the modes of the loader, the platform with its protocol  *)
(* and backend, which choose the client, the number of invocations of        *)
(* each driver (len(Specification.IAT)), the list each driver walks, and    *)
(* for every node of a list the set of lists that branch off it.  Lists     *)
(* branch as trees do, and have a node at least (createNewBranch).          *)
(***************************************************************************)
IsConfig(c) ==
  /\ {c.dag, c.async, c.test, c.scrape, c.dandelion} \subseteq BOOLEAN
  /\ c.platform \in {"knative", "dirigent", "azurefunctions"}
  /\ c.protocol \in {"grpc", "http1"}
  \* Only Dirigent has a DirigentConfiguration.  newHTTPInvoker reads it, so
  \* Knative over HTTP ends in NewDriver, before there is anything to run.
  /\ c.async \/ c.dandelion => c.platform = "dirigent"
  /\ c.platform = "knative" => c.protocol = "grpc"
  /\ c.count \in [Drivers -> 0 .. MaxInvocations]
  /\ c.root \in [Drivers -> Lists]
  /\ c.nodes \in [Lists -> Seq(SUBSET Lists)]
  /\ \A f \in Drivers : c.nodes[c.root[f]] # <<>>
  /\ \A f \in Drivers, l \in Lists : \A k \in DOMAIN c.nodes[l] : c.root[f] \notin c.nodes[l][k]
  /\ \A l, m \in Lists : \A k \in DOMAIN c.nodes[l] : \A j \in DOMAIN c.nodes[m] :
       <<l, k>> # <<m, j>> => c.nodes[l][k] \cap c.nodes[m][j] = {}
  /\ \A l \in Lists : \A k \in DOMAIN c.nodes[l] : \A b \in c.nodes[l][k] : c.nodes[b] # <<>>

ASSUME DriverAssumption == /\ IsFiniteSet(Drivers)
                           /\ IsFiniteSet(Lists)
                           /\ MaxInvocations \in Nat
                           /\ MaxScrapes \in Nat
                           /\ MaxScaleRows \in Nat
                           /\ RecordsCap \in Nat \ {0}
                           /\ BatchSize \in Nat \ {0}
ASSUME ConfigAssumption == \A c \in Configs : IsConfig(c)

\* An invocation goroutine: the driver, the index of the IAT and the list.
Goroutines == Drivers \X (0 .. MaxInvocations - 1) \X Lists
Workers    == 1 .. BatchSize
Channels   == {"kn_stats", "deployment_scale"}

\* totalNumberOfInvocations before it is known: math.MaxInt64, which no count reaches.
MaxInt64 == -1

VARIABLES
  conf,        \* the configuration
  mpc,         \* main: where internalRun is
  barrier,     \* backgroundProcessesInitializationBarrier
  timekeeper,  \* has globalTimekeeper signalled that it is ready?
  driversWG,   \* allIndividualDriversCompleted
  recordsWG,   \* allRecordsWritten
  totals,      \* successfulInvocations, failedInvocations, invocationsIssued
  dpc,         \* drivers: where functionsDriver is
  iat,         \* iatIndex
  waitWG,      \* waitForInvocations
  counts,      \* successfulInvocations, failedInvocations, functionsInvoked
  ipc,         \* invocations: where invokeFunction is
  node,        \* the node of the list it has come to
  retries,     \* invocationRetries
  outcome,     \* what the last Invoke returned: "fail", "direct", "async"
  queue,       \* AsyncRecords (module LockFreeQueue)
  apc,         \* workers of writeAsyncRecordsToLog: where each is
  arec,        \* the record each worker holds
  asyncWG,     \* its WaitGroup
  cpc,         \* collector
  crec,        \* the record it has received
  written,     \* currentlyWritten
  total,       \* totalNumberOfInvocations
  records,     \* the channel to the CSV writer
  file,        \* the records in the duration CSV
  spc,         \* scraper
  scrapes,     \* how many times it has scraped
  recScale,    \* rows of the deployment scales it has yet to send
  finishCh,    \* messages in finishCh
  sbuf, sfile, \* its two channels and the rows in their files
  sent         \* history: the rows it has sent to each

mainVars == <<mpc, barrier, timekeeper, driversWG, recordsWG, totals>>
driverVars == <<dpc, iat, waitWG, counts>>
invVars == <<ipc, node, retries, outcome>>
asyncVars == <<queue, apc, arec, asyncWG>>
collectorVars == <<cpc, crec, written, total, records, file>>
scraperVars == <<spc, scrapes, recScale, finishCh, sbuf, sfile, sent>>
vars == <<conf, mainVars, driverVars, invVars, asyncVars, collectorVars, scraperVars>>

NoRecord == <<>>
Zero == [ok |-> 0, failed |-> 0, issued |-> 0]
Record(g, k, ok) == [inv |-> g, node |-> k, ok |-> ok]

Init ==
  /\ conf \in Configs
  /\ mpc = "start" /\ barrier = 0 /\ timekeeper = FALSE
  /\ driversWG = 0 /\ recordsWG = 0 /\ totals = Zero
  /\ dpc = [f \in Drivers |-> "none"]
  /\ iat = [f \in Drivers |-> 0]
  /\ waitWG = [f \in Drivers |-> 0]
  /\ counts = [f \in Drivers |-> Zero]
  /\ ipc = [g \in Goroutines |-> "none"]
  /\ node = [g \in Goroutines |-> 1]
  /\ retries = [g \in Goroutines |-> 0]
  /\ outcome = [g \in Goroutines |-> "fail"]
  /\ queue = <<>> /\ asyncWG = 0
  /\ apc = [w \in Workers |-> "none"]
  /\ arec = [w \in Workers |-> NoRecord]
  /\ cpc = "none" /\ crec = NoRecord /\ written = 0 /\ total = MaxInt64
  /\ records = <<>> /\ file = {}
  /\ spc = "none" /\ scrapes = 0 /\ recScale = 0 /\ finishCh = 0
  /\ sbuf = [ch \in Channels |-> 0]
  /\ sfile = [ch \in Channels |-> 0]
  /\ sent = [ch \in Channels |-> 0]

-----------------------------------------------------------------------------
(***************************************************************************)
(* internalRun up to the start of the drivers.                              *)
(***************************************************************************)
StartBackgroundProcesses ==
  /\ mpc = "start"
  /\ mpc' = "barrier"
  /\ recordsWG' = IF conf.scrape THEN 2 ELSE 1
  /\ barrier' = IF conf.scrape THEN 3 ELSE 2
  /\ spc' = IF conf.scrape THEN "ready" ELSE "none"
  /\ cpc' = "ready"
  /\ UNCHANGED <<conf, timekeeper, driversWG, totals, driverVars, invVars, asyncVars,
                 crec, written, total, records, file, scrapes, recScale, finishCh, sbuf, sfile,
                 sent>>

\* The timekeeper only logs the minutes after this.
TimekeeperReady ==
  /\ mpc = "barrier" /\ ~timekeeper
  /\ timekeeper' = TRUE
  /\ barrier' = barrier - 1
  /\ UNCHANGED <<conf, mpc, driversWG, recordsWG, totals, driverVars, invVars, asyncVars,
                 collectorVars, scraperVars>>

CollectorReady ==
  /\ cpc = "ready"
  /\ cpc' = "select"
  /\ barrier' = barrier - 1
  /\ UNCHANGED <<conf, mpc, timekeeper, driversWG, recordsWG, totals, driverVars, invVars,
                 asyncVars, crec, written, total, records, file, scraperVars>>

ScraperReady ==
  /\ spc = "ready"
  /\ spc' = "select"
  /\ barrier' = barrier - 1
  /\ UNCHANGED <<conf, mpc, timekeeper, driversWG, recordsWG, totals, driverVars, invVars,
                 asyncVars, collectorVars, scrapes, recScale, finishCh, sbuf, sfile, sent>>

StartDrivers ==
  /\ mpc = "barrier" /\ barrier = 0
  /\ mpc' = "waitDrivers"
  /\ driversWG' = Cardinality(Drivers)
  /\ dpc' = [f \in Drivers |-> "begin"]
  /\ UNCHANGED <<conf, barrier, timekeeper, recordsWG, totals, iat, waitWG, counts, invVars,
                 asyncVars, collectorVars, scraperVars>>

-----------------------------------------------------------------------------
(***************************************************************************)
(* functionsDriver.                                                         *)
(***************************************************************************)
BeginDriver(f) ==
  /\ dpc[f] = "begin"
  /\ dpc' = [dpc EXCEPT ![f] = IF conf.count[f] = 0 THEN "exit" ELSE "loop"]
  /\ UNCHANGED <<conf, mainVars, iat, waitWG, counts, invVars, asyncVars, collectorVars,
                 scraperVars>>

\* Where invokeFunction is when it comes to node k of list l.
AtNode(l, k) == IF k \in DOMAIN conf.nodes[l] THEN "invoke" ELSE "exit"

\* One iteration: Add(1), then start the goroutine for the root list.
FireInvocation(f) ==
  /\ dpc[f] = "loop" /\ iat[f] < conf.count[f] /\ ~conf.test
  /\ waitWG' = [waitWG EXCEPT ![f] = @ + 1]
  /\ ipc' = [ipc EXCEPT ![<<f, iat[f], conf.root[f]>>] = AtNode(conf.root[f], 1)]
  /\ iat' = [iat EXCEPT ![f] = @ + 1]
  /\ UNCHANGED <<conf, mainVars, dpc, counts, node, retries, outcome, asyncVars,
                 collectorVars, scraperVars>>

\* TestMode: the driver sends a record itself, and counts it when it was taken.
FireTest(f) ==
  /\ dpc[f] = "loop" /\ iat[f] < conf.count[f] /\ conf.test
  /\ dpc' = [dpc EXCEPT ![f] = "send"]
  /\ UNCHANGED <<conf, mainVars, iat, waitWG, counts, invVars, asyncVars, collectorVars,
                 scraperVars>>

EndLoop(f) ==
  /\ dpc[f] = "loop" /\ iat[f] = conf.count[f]
  /\ dpc' = [dpc EXCEPT ![f] = "wait"]
  /\ UNCHANGED <<conf, mainVars, iat, waitWG, counts, invVars, asyncVars, collectorVars,
                 scraperVars>>

InvocationsReturned_NotAwaited(f) == TRUE
InvocationsReturned(f) == waitWG[f] = 0

WaitForInvocations(f) ==
  /\ dpc[f] = "wait" /\ InvocationsReturned(f)
  /\ dpc' = [dpc EXCEPT ![f] = "report"]
  /\ UNCHANGED <<conf, mainVars, iat, waitWG, counts, invVars, asyncVars, collectorVars,
                 scraperVars>>

\* Lines 260-262, three atomic adds that nobody reads before the deferred Done.
Report(f) ==
  /\ dpc[f] = "report"
  /\ totals' = [ok     |-> totals.ok + counts[f].ok,
                failed |-> totals.failed + counts[f].failed,
                issued |-> totals.issued + counts[f].issued]
  /\ dpc' = [dpc EXCEPT ![f] = "exit"]
  /\ UNCHANGED <<conf, mpc, barrier, timekeeper, driversWG, recordsWG, iat, waitWG, counts,
                 invVars, asyncVars, collectorVars, scraperVars>>

DriverDone(f) ==
  /\ dpc[f] = "exit"
  /\ driversWG' = driversWG - 1
  /\ dpc' = [dpc EXCEPT ![f] = "done"]
  /\ UNCHANGED <<conf, mpc, barrier, timekeeper, recordsWG, totals, iat, waitWG, counts,
                 invVars, asyncVars, collectorVars, scraperVars>>

-----------------------------------------------------------------------------
(***************************************************************************)
(* invokeFunction.  Invoke is the platform's client (module Clients), and     *)
(* the request may end in any way.                                           *)
(***************************************************************************)
Outcomes == {InvokeResult(conf.platform, conf.protocol, conf.dandelion, conf.async, r) : r \in Replies}

\* Line 130: a failed call of a DAG's function is tried once more.
MustRetry_Always(g, o) == o = "fail" /\ conf.dag
MustRetry(g, o) == o = "fail" /\ conf.dag /\ retries[g] = 0

Invoke(g) ==
  /\ ipc[g] = "invoke"
  /\ \E o \in Outcomes :
       /\ outcome' = [outcome EXCEPT ![g] = o]
       /\ \/ /\ MustRetry(g, o)
             /\ retries' = [retries EXCEPT ![g] = @ + 1]
             /\ UNCHANGED ipc
          \/ /\ ~MustRetry(g, o)
             /\ ipc' = [ipc EXCEPT ![g] = "send"]
             /\ UNCHANGED retries
  /\ UNCHANGED <<conf, mainVars, driverVars, node, asyncVars, collectorVars, scraperVars>>

RecordOf(g) == Record(g, node[g], outcome[g] # "fail")

\* Lines 139-142: the record waits in AsyncRecords for its response.
EnqueueAsync(g) ==
  /\ ipc[g] = "send" /\ outcome[g] = "async"
  /\ queue' = Append(queue, RecordOf(g))
  /\ ipc' = [ipc EXCEPT ![g] = "count"]
  /\ UNCHANGED <<conf, mainVars, driverVars, node, retries, outcome, apc, arec, asyncWG,
                 collectorVars, scraperVars>>

\* Lines 147-152: a failure ends the walk of the list.
AfterCount_NoBreak(g) == "branch"
AfterCount(g) == IF outcome[g] = "fail" THEN "exit" ELSE "branch"

\* Lines 146-152: FunctionsInvoked, then FailedCount or SuccessCount.
CountInvocation(g) ==
  LET ok == outcome[g] # "fail" IN
  /\ ipc[g] = "count"
  /\ counts' = [counts EXCEPT ![g[1]] =
                  [ok     |-> IF ok THEN @.ok + 1 ELSE @.ok,
                   failed |-> IF ok THEN @.failed ELSE @.failed + 1,
                   issued |-> @.issued + 1]]
  /\ ipc' = [ipc EXCEPT ![g] = AfterCount(g)]
  /\ UNCHANGED <<conf, mainVars, dpc, iat, waitWG, node, retries, outcome, asyncVars,
                 collectorVars, scraperVars>>

\* Line 158: Add(1) for every branch.
AddBranches_None(branches) == 0
AddBranches(branches) == Cardinality(branches)

\* Lines 153-162: a goroutine for every branch, then on to the next node.
StartBranches(g) ==
  LET branches == {<<g[1], g[2], b>> : b \in conf.nodes[g[3]][node[g]]} IN
  /\ ipc[g] = "branch"
  /\ waitWG' = [waitWG EXCEPT ![g[1]] = @ + AddBranches(branches)]
  /\ ipc' = [h \in Goroutines |->
               IF h = g THEN AtNode(g[3], node[g] + 1)
               ELSE IF h \in branches THEN AtNode(h[3], 1)
               ELSE ipc[h]]
  /\ node' = [node EXCEPT ![g] = @ + 1]
  /\ UNCHANGED <<conf, mainVars, dpc, iat, counts, retries, outcome, asyncVars,
                 collectorVars, scraperVars>>

\* Line 116: the deferred AnnounceDoneWG.Done().
InvocationDone(g) ==
  /\ ipc[g] = "exit"
  /\ waitWG' = [waitWG EXCEPT ![g[1]] = @ - 1]
  /\ ipc' = [ipc EXCEPT ![g] = "done"]
  /\ UNCHANGED <<conf, mainVars, dpc, iat, counts, node, retries, outcome, asyncVars,
                 collectorVars, scraperVars>>

-----------------------------------------------------------------------------
(***************************************************************************)
(* internalRun from the end of the drivers.                                 *)
(***************************************************************************)
AllDriversCompleted_NotAwaited == TRUE
AllDriversCompleted == driversWG = 0

DriversCompleted ==
  /\ mpc = "waitDrivers" /\ AllDriversCompleted
  /\ mpc' = IF totals.ok + totals.failed = 0 THEN "done"
            ELSE IF conf.async THEN "gather" ELSE "sendTotal"
  /\ UNCHANGED <<conf, barrier, timekeeper, driversWG, recordsWG, totals, driverVars, invVars,
                 asyncVars, collectorVars, scraperVars>>

\* writeAsyncRecordsToLog: as many workers as Length() says, at most batchSize.
ToProcess_FullBatch == BatchSize
ToProcess == IF Len(queue) < BatchSize THEN Len(queue) ELSE BatchSize

StartBatch ==
  /\ mpc = "gather" /\ Len(queue) > 0
  /\ mpc' = "waitBatch"
  /\ asyncWG' = ToProcess
  /\ apc' = [w \in Workers |-> IF w <= ToProcess THEN "dequeue" ELSE "none"]
  /\ UNCHANGED <<conf, barrier, timekeeper, driversWG, recordsWG, totals, driverVars, invVars,
                 queue, arec, collectorVars, scraperVars>>

\* An empty queue here would be logrus.Fatal("No element to dequeue."): DrainFits.
\* Whether the response is fetched in time only changes the record's contents.
DequeueAsync(w) ==
  /\ apc[w] = "dequeue" /\ queue # <<>>
  /\ arec' = [arec EXCEPT ![w] = Head(queue)]
  /\ queue' = Tail(queue)
  /\ apc' = [apc EXCEPT ![w] = "send"]
  /\ UNCHANGED <<conf, mainVars, driverVars, invVars, asyncWG, collectorVars, scraperVars>>

WorkerDone(w) ==
  /\ apc[w] = "exit"
  /\ asyncWG' = asyncWG - 1
  /\ apc' = [apc EXCEPT ![w] = "none"]
  /\ UNCHANGED <<conf, mainVars, driverVars, invVars, queue, arec, collectorVars, scraperVars>>

BatchCompleted ==
  /\ mpc = "waitBatch" /\ asyncWG = 0
  /\ mpc' = "gather"
  /\ UNCHANGED <<conf, barrier, timekeeper, driversWG, recordsWG, totals, driverVars, invVars,
                 asyncVars, collectorVars, scraperVars>>

GatherCompleted ==
  /\ mpc = "gather" /\ Len(queue) = 0
  /\ mpc' = "sendTotal"
  /\ UNCHANGED <<conf, barrier, timekeeper, driversWG, recordsWG, totals, driverVars, invVars,
                 asyncVars, collectorVars, scraperVars>>

\* finishCh has room for the one message, whether or not there is a scraper.
FinishScraper_NoMessage ==
  /\ mpc = "finish"
  /\ mpc' = "waitRecords"
  /\ UNCHANGED <<conf, barrier, timekeeper, driversWG, recordsWG, totals, driverVars, invVars,
                 asyncVars, collectorVars, scraperVars>>

FinishScraper ==
  /\ mpc = "finish" /\ finishCh < 1
  /\ finishCh' = finishCh + 1
  /\ mpc' = "waitRecords"
  /\ UNCHANGED <<conf, barrier, timekeeper, driversWG, recordsWG, totals, driverVars, invVars,
                 asyncVars, collectorVars, spc, scrapes, recScale, sbuf, sfile, sent>>

RecordsWritten ==
  /\ mpc = "waitRecords" /\ recordsWG = 0
  /\ mpc' = "done"
  /\ UNCHANGED <<conf, barrier, timekeeper, driversWG, recordsWG, totals, driverVars, invVars,
                 asyncVars, collectorVars, scraperVars>>

-----------------------------------------------------------------------------
(***************************************************************************)
(* The collector: what its select receives, from whom, and what follows.    *)
(***************************************************************************)
Take(r) == cpc = "select" /\ cpc' = "push" /\ crec' = r

TakeFromInvocation(g) ==
  /\ ipc[g] = "send" /\ outcome[g] # "async"
  /\ Take(RecordOf(g))
  /\ ipc' = [ipc EXCEPT ![g] = "count"]
  /\ UNCHANGED <<conf, mainVars, driverVars, node, retries, outcome, asyncVars,
                 written, total, records, file, scraperVars>>

\* TestMode, lines 233-244 of the driver.
TakeFromDriver(f) ==
  /\ dpc[f] = "send"
  /\ Take(Record(<<f, iat[f], conf.root[f]>>, 1, TRUE))
  /\ counts' = [counts EXCEPT ![f] =
                  [ok |-> @.ok + 1, failed |-> @.failed, issued |-> @.issued + 1]]
  /\ iat' = [iat EXCEPT ![f] = @ + 1]
  /\ dpc' = [dpc EXCEPT ![f] = "loop"]
  /\ UNCHANGED <<conf, mainVars, waitWG, invVars, asyncVars, written, total, records, file,
                 scraperVars>>

TakeFromWorker(w) ==
  /\ apc[w] = "send"
  /\ Take(arec[w])
  /\ apc' = [apc EXCEPT ![w] = "exit"]
  /\ UNCHANGED <<conf, mainVars, driverVars, invVars, queue, arec, asyncWG, written, total,
                 records, file, scraperVars>>

TakeTotal ==
  /\ mpc = "sendTotal" /\ cpc = "select"
  /\ total' = totals.issued
  /\ cpc' = "check"
  /\ mpc' = "finish"
  /\ UNCHANGED <<conf, barrier, timekeeper, driversWG, recordsWG, totals, driverVars, invVars,
                 asyncVars, crec, written, records, file, scraperVars>>

PushRecord ==
  /\ cpc = "push" /\ Len(records) < RecordsCap
  /\ records' = Append(records, crec)
  /\ crec' = NoRecord
  /\ written' = written + 1
  /\ cpc' = "check"
  /\ UNCHANGED <<conf, mainVars, driverVars, invVars, asyncVars, total, file, scraperVars>>

\* Line 59: close(records) when everything has been passed on.
CheckComplete ==
  /\ cpc = "check"
  /\ cpc' = IF written = total THEN "closed" ELSE "select"
  /\ UNCHANGED <<conf, mainVars, driverVars, invVars, asyncVars, crec, written, total, records,
                 file, scraperVars>>

\* RunCSVWriter; it returns when the channel is closed and empty.
WriteRecord ==
  /\ records # <<>>
  /\ file' = file \cup {Head(records)}
  /\ records' = Tail(records)
  /\ UNCHANGED <<conf, mainVars, driverVars, invVars, asyncVars, cpc, crec, written, total,
                 scraperVars>>

WriterDone_NotAwaited == TRUE
WriterDone == records = <<>>

CollectorDone ==
  /\ cpc = "closed" /\ WriterDone
  /\ cpc' = "done"
  /\ recordsWG' = recordsWG - 1
  /\ UNCHANGED <<conf, mpc, barrier, timekeeper, driversWG, totals, driverVars, invVars,
                 asyncVars, crec, written, total, records, file, scraperVars>>

-----------------------------------------------------------------------------
(***************************************************************************)
(* The scraper.  A scrape sends a row for every deployment to one writer    *)
(* and one row to the other.  A timer tick and finishCh may be ready         *)
(* together: the select takes either.                                       *)
(***************************************************************************)
Scrape ==
  /\ spc = "select" /\ scrapes < MaxScrapes
  /\ spc' = "scale"
  /\ scrapes' = scrapes + 1
  /\ recScale' \in 0 .. MaxScaleRows
  /\ UNCHANGED <<conf, mainVars, driverVars, invVars, asyncVars, collectorVars, finishCh, sbuf,
                 sfile, sent>>

SendRow(ch) ==
  /\ sbuf[ch] < RecordsCap
  /\ sbuf' = [sbuf EXCEPT ![ch] = @ + 1]
  /\ sent' = [sent EXCEPT ![ch] = @ + 1]

SendScaleRow ==
  /\ spc = "scale" /\ recScale > 0
  /\ SendRow("deployment_scale")
  /\ recScale' = recScale - 1
  /\ UNCHANGED <<conf, mainVars, driverVars, invVars, asyncVars, collectorVars, spc, scrapes,
                 finishCh, sfile>>

SendKnStats ==
  /\ spc = "scale" /\ recScale = 0
  /\ SendRow("kn_stats")
  /\ spc' = "select"
  /\ UNCHANGED <<conf, mainVars, driverVars, invVars, asyncVars, collectorVars, scrapes, recScale,
                 finishCh, sfile>>

WriteRow(ch) ==
  /\ sbuf[ch] > 0
  /\ sbuf' = [sbuf EXCEPT ![ch] = @ - 1]
  /\ sfile' = [sfile EXCEPT ![ch] = @ + 1]
  /\ UNCHANGED <<conf, mainVars, driverVars, invVars, asyncVars, collectorVars, spc, scrapes,
                 recScale, finishCh, sent>>

ScraperFinish ==
  /\ spc = "select" /\ finishCh > 0
  /\ finishCh' = finishCh - 1
  /\ spc' = "closed"
  /\ UNCHANGED <<conf, mainVars, driverVars, invVars, asyncVars, collectorVars, scrapes, recScale,
                 sbuf, sfile, sent>>

RowWritersDone_NotAwaited == TRUE
RowWritersDone == \A ch \in Channels : sbuf[ch] = 0

ScraperDone ==
  /\ spc = "closed" /\ RowWritersDone
  /\ spc' = "done"
  /\ recordsWG' = recordsWG - 1
  /\ UNCHANGED <<conf, mpc, barrier, timekeeper, driversWG, totals, driverVars, invVars,
                 asyncVars, collectorVars, scrapes, recScale, finishCh, sbuf, sfile, sent>>

-----------------------------------------------------------------------------
Main == \/ StartBackgroundProcesses \/ StartDrivers \/ DriversCompleted
        \/ StartBatch \/ BatchCompleted \/ GatherCompleted
        \/ TakeTotal \/ FinishScraper \/ RecordsWritten

DriverStep(f) == \/ BeginDriver(f) \/ FireInvocation(f) \/ FireTest(f) \/ TakeFromDriver(f)
                 \/ EndLoop(f) \/ WaitForInvocations(f) \/ Report(f) \/ DriverDone(f)

InvocationStep(g) == \/ Invoke(g) \/ EnqueueAsync(g) \/ TakeFromInvocation(g)
                     \/ CountInvocation(g) \/ StartBranches(g) \/ InvocationDone(g)

WorkerStep(w) == DequeueAsync(w) \/ TakeFromWorker(w) \/ WorkerDone(w)

Collector == CollectorReady \/ PushRecord \/ CheckComplete \/ CollectorDone

Scraper == ScraperReady \/ SendScaleRow \/ SendKnStats \/ ScraperFinish \/ ScraperDone

\* internalRun has returned.
Terminated == mpc = "done" /\ UNCHANGED vars

Next == \/ Main
        \/ \E f \in Drivers : DriverStep(f)
        \/ \E g \in Goroutines : InvocationStep(g)
        \/ \E w \in Workers : WorkerStep(w)
        \/ Collector \/ WriteRecord
        \/ TimekeeperReady
        \/ Scraper \/ Scrape \/ \E ch \in Channels : WriteRow(ch)
        \/ Terminated

Spec == Init /\ [][Next]_vars

(***************************************************************************)
(* Of the goroutines that can run, some always does: the Go scheduler is    *)
(* preemptive, a blocked channel operation is resumed when its partner      *)
(* arrives, and Invoke returns where the client has a timeout.  A request   *)
(* to Azure Functions may stay unanswered for ever.  The timer of the       *)
(* scraper need not tick.  This is weaker than fairness to every single     *)
(* goroutine, and enough because a run has finitely many steps.             *)
(***************************************************************************)
CertainStep(g) == InvocationStep(g) /\ (ipc[g] = "invoke" => HasTimeout(conf.platform))

Fairness ==
  /\ WF_vars(Main \/ TimekeeperReady \/ \E f \in Drivers : DriverStep(f))
  /\ WF_vars((\E g \in Goroutines : CertainStep(g)) \/ \E w \in Workers : WorkerStep(w))
  /\ WF_vars(Collector \/ WriteRecord)
  /\ WF_vars(Scraper \/ \E ch \in Channels : WriteRow(ch))

FairSpec == Spec /\ Fairness

-----------------------------------------------------------------------------
DriverPC     == {"none", "begin", "loop", "send", "wait", "report", "exit", "done"}
InvocationPC == {"none", "invoke", "send", "count", "branch", "exit", "done"}
RecordSet    == [inv : Goroutines, node : Nat \ {0}, ok : BOOLEAN]
CountSet     == [ok : Nat, failed : Nat, issued : Nat]

TypeOK ==
  /\ conf \in Configs
  /\ mpc \in {"start", "barrier", "waitDrivers", "gather", "waitBatch", "sendTotal", "finish",
              "waitRecords", "done"}
  /\ barrier \in Int /\ timekeeper \in BOOLEAN
  /\ driversWG \in Int /\ recordsWG \in Int /\ totals \in CountSet
  /\ dpc \in [Drivers -> DriverPC]
  /\ iat \in [Drivers -> 0 .. MaxInvocations]
  /\ waitWG \in [Drivers -> Int]
  /\ counts \in [Drivers -> CountSet]
  /\ ipc \in [Goroutines -> InvocationPC]
  /\ node \in [Goroutines -> Nat \ {0}]
  /\ retries \in [Goroutines -> 0 .. 1]
  /\ outcome \in [Goroutines -> {"fail", "direct", "async"}]
  /\ queue \in Seq(RecordSet)
  /\ apc \in [Workers -> {"none", "dequeue", "send", "exit"}]
  /\ arec \in [Workers -> RecordSet \cup {NoRecord}]
  /\ asyncWG \in Int
  /\ cpc \in {"none", "ready", "select", "push", "check", "closed", "done"}
  /\ crec \in RecordSet \cup {NoRecord}
  /\ written \in Nat /\ total \in Nat \cup {MaxInt64}
  /\ records \in Seq(RecordSet) /\ file \subseteq RecordSet
  /\ spc \in {"none", "ready", "select", "scale", "closed", "done"}
  /\ scrapes \in Nat /\ recScale \in Nat /\ finishCh \in 0 .. 1
  /\ sbuf \in [Channels -> Nat] /\ sfile \in [Channels -> Nat]
  /\ sent \in [Channels -> Nat]

-----------------------------------------------------------------------------
(***************************************************************************)
(* Properties.                                                              *)
(***************************************************************************)
\* The goroutines of driver f that have been announced and have not called Done.
Live(f) == {g \in Goroutines : g[1] = f /\ ipc[g] \notin {"none", "done"}}

(***************************************************************************)
(* Every WaitGroup counts exactly the goroutines it stands for: Add comes   *)
(* before the go statement and Done once per goroutine, also for the        *)
(* branches that invokeFunction starts while its driver is already waiting. *)
(***************************************************************************)
WaitGroupsExact ==
  /\ \A f \in Drivers : waitWG[f] = Cardinality(Live(f))
  /\ driversWG = Cardinality({f \in Drivers : dpc[f] \notin {"none", "done"}})
  /\ asyncWG = Cardinality({w \in Workers : apc[w] # "none"})

(***************************************************************************)
(* Once functionsDriver has passed waitForInvocations.Wait() its counters   *)
(* are final: no invocation or branch of it still runs and adds to them, so *)
(* what it adds to the totals is complete.                                  *)
(***************************************************************************)
CountersFinal ==
  [][\A f \in Drivers : dpc[f] \in {"report", "exit", "done"} => counts'[f] = counts[f]]_vars

(***************************************************************************)
(* The collector stops receiving only when nobody will send to it any more: *)
(* a record sent later would block its goroutine for ever.                  *)
(***************************************************************************)
CollectorStopsLast ==
  cpc \in {"closed", "done"} =>
    /\ \A f \in Drivers : dpc[f] = "done"
    /\ \A g \in Goroutines : ipc[g] \in {"none", "done"}
    /\ \A w \in Workers : apc[w] = "none"
    /\ queue = <<>> /\ crec = NoRecord

\* No worker of writeAsyncRecordsToLog finds the queue empty (which is fatal).
DrainFits == Cardinality({w \in Workers : apc[w] = "dequeue"}) <= Len(queue)

(***************************************************************************)
(* When internalRun returns, the CSV has exactly one row for every record   *)
(* that was counted, the failed and the successful rows are the totals that *)
(* are logged, and every invocation of the trace has its row.               *)
(***************************************************************************)
NothingLost ==
  mpc = "done" =>
    /\ Cardinality(file) = totals.issued
    /\ Cardinality({r \in file : r.ok}) = totals.ok
    /\ Cardinality({r \in file : ~r.ok}) = totals.failed
    /\ \A f \in Drivers : \A i \in 0 .. conf.count[f] - 1 :
         \E r \in file : r.inv = <<f, i, conf.root[f]>> /\ r.node = 1

(***************************************************************************)
(* The CSV of a DAG run shows whole executions: no two rows for one node of  *)
(* one invocation, and the next node and the branches of a node have rows if *)
(* and only if its own row is a success (a retried call leaves no row).      *)
(***************************************************************************)
HasRow(g, k) == \E r \in file : r.inv = g /\ r.node = k

DagRowsComplete ==
  mpc = "done" /\ ~conf.test =>
    \A r \in file :
      LET l == r.inv[3] IN
      /\ \A s \in file : s.inv = r.inv /\ s.node = r.node => s = r
      /\ r.node + 1 \in DOMAIN conf.nodes[l] => (HasRow(r.inv, r.node + 1) <=> r.ok)
      /\ \A b \in conf.nodes[l][r.node] : HasRow(<<r.inv[1], r.inv[2], b>>, 1) <=> r.ok

\* If anything was invoked, internalRun returns only when all rows the scraper
\* produced are in its files, though a tick may be taken after finishCh is ready.
ScraperFlushed ==
  mpc = "done" /\ conf.scrape /\ totals.issued # 0 => sfile = sent

\* The run ends, whatever the platform answers and although it need not answer:
\* nobody waits for ever, except for a request of the client without a timeout.
RunTerminates ==
  \/ <>(mpc = "done")
  \/ ~HasTimeout(conf.platform) /\ <>[](\E g \in Goroutines : ipc[g] = "invoke")
=============================================================================
