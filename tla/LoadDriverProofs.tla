-------------------------- MODULE LoadDriverProofs --------------------------
(***************************************************************************)
(* The safety of one run of the load generator, for any number of drivers,  *)
(* invocations and workers, any DAGs and any capacity of the channels.      *)
(***************************************************************************)
EXTENDS LoadDriver, FiniteSetTheorems, TLAPS

(***************************************************************************)
(* Goroutines and configurations.                                           *)
(***************************************************************************)
LEMMA GoroutineType ==
  ASSUME NEW g \in Goroutines
  PROVE  /\ g[1] \in Drivers /\ g[2] \in 0 .. MaxInvocations - 1 /\ g[3] \in Lists
         /\ g = <<g[1], g[2], g[3]>>
  BY DEF Goroutines

LEMMA GoroutineOf ==
  ASSUME NEW f \in Drivers, NEW i \in 0 .. MaxInvocations - 1, NEW l \in Lists
  PROVE  /\ <<f, i, l>> \in Goroutines
         /\ <<f, i, l>>[1] = f /\ <<f, i, l>>[2] = i /\ <<f, i, l>>[3] = l
  BY DEF Goroutines

LEMMA GoroutinesFinite == IsFiniteSet(Goroutines)
<1>1. IsFiniteSet(0 .. MaxInvocations - 1)
  BY DriverAssumption, FS_Interval
<1>2. IsFiniteSet((Drivers \X (0 .. MaxInvocations - 1)) \X Lists)
  BY <1>1, DriverAssumption, FS_Product
<1> DEFINE F == [t \in (Drivers \X (0 .. MaxInvocations - 1)) \X Lists |-> <<t[1][1], t[1][2], t[2]>>]
<1>3. F \in Surjection((Drivers \X (0 .. MaxInvocations - 1)) \X Lists, Goroutines)
  <2>1. ASSUME NEW t \in (Drivers \X (0 .. MaxInvocations - 1)) \X Lists
        PROVE  F[t] \in Goroutines
    BY GoroutineOf
  <2>2. ASSUME NEW g \in Goroutines
        PROVE  \E t \in (Drivers \X (0 .. MaxInvocations - 1)) \X Lists : F[t] = g
    <3>1. <<<<g[1], g[2]>>, g[3]>> \in (Drivers \X (0 .. MaxInvocations - 1)) \X Lists
      BY GoroutineType
    <3>2. F[<<<<g[1], g[2]>>, g[3]>>] = g
      BY <3>1, GoroutineType
    <3> QED
      BY <3>1, <3>2
  <2> QED
    BY <2>1, <2>2 DEF Surjection
<1> QED
  BY <1>2, <1>3, FS_Surjection

LEMMA ConfigType ==
  ASSUME TypeOK
  PROVE  /\ conf.async \in BOOLEAN /\ conf.test \in BOOLEAN /\ conf.scrape \in BOOLEAN
         /\ conf.count \in [Drivers -> 0 .. MaxInvocations]
         /\ conf.root \in [Drivers -> Lists]
         /\ conf.nodes \in [Lists -> Seq(SUBSET Lists)]
<1>1. IsConfig(conf)
  BY ConfigAssumption DEF TypeOK
<1> QED
  BY <1>1 DEF IsConfig

\* Invoke returns the ID of an asynchronous response in asynchronous mode only.
LEMMA OutcomeType ==
  ASSUME TypeOK, NEW o \in Outcomes
  PROVE  o \in {"fail", "direct", "async"} /\ (o = "async" => conf.async)
<1>1. PICK r \in Replies : o = InvokeResult(conf.platform, conf.protocol, conf.dandelion, conf.async, r)
  BY DEF Outcomes
<1>2. /\ conf.platform \in {"knative", "dirigent", "azurefunctions"}
      /\ conf.protocol \in {"grpc", "http1"}
      /\ {conf.async, conf.dandelion} \subseteq BOOLEAN
      /\ conf.platform = "knative" => conf.protocol = "grpc"
  BY ConfigAssumption DEF TypeOK, IsConfig
<1>3. CASE conf.platform = "azurefunctions"
  BY <1>1, <1>3 DEF InvokeResult, azureInvoke
<1>4. CASE conf.platform = "knative"
  BY <1>1, <1>2, <1>4 DEF InvokeResult, grpcInvoke
<1>5. CASE conf.platform = "dirigent" /\ (conf.dandelion \/ conf.protocol # "grpc")
  BY <1>1, <1>2, <1>5 DEF InvokeResult, httpInvoke
<1>6. CASE conf.platform = "dirigent" /\ ~conf.dandelion /\ conf.protocol = "grpc"
  BY <1>1, <1>2, <1>6 DEF InvokeResult, grpcInvoke
<1> QED
  BY <1>2, <1>3, <1>4, <1>5, <1>6

(***************************************************************************)
(* The inductive invariant.                                                 *)
(***************************************************************************)
\* How far main is tells how far the drivers and the drain are.
PhaseInv ==
  /\ mpc \in {"start", "barrier"} => \A f \in Drivers : dpc[f] = "none"
  /\ mpc \notin {"start", "barrier"} => \A f \in Drivers : dpc[f] # "none"
  /\ mpc \notin {"start", "barrier", "waitDrivers"} => \A f \in Drivers : dpc[f] = "done"
  /\ \A w \in Workers : apc[w] # "none" => mpc = "waitBatch"
  /\ ~conf.async => queue = <<>> /\ \A g \in Goroutines : outcome[g] # "async"
  /\ mpc \in {"sendTotal", "finish", "waitRecords"} => queue = <<>>
  /\ total # MaxInt64 => mpc \in {"finish", "waitRecords", "done"} /\ queue = <<>>

\* A driver starts the invocations of its trace one after the other, and has none
\* of them running when it reports.
DriverInv ==
  \A f \in Drivers :
    /\ iat[f] <= conf.count[f]
    /\ dpc[f] \in {"none", "begin"} => iat[f] = 0
    /\ dpc[f] \in {"wait", "report", "exit", "done"} => iat[f] = conf.count[f]
    /\ dpc[f] = "send" => iat[f] < conf.count[f] /\ conf.test
    /\ dpc[f] \in {"report", "exit", "done"} =>
         \A g \in Goroutines : g[1] = f => ipc[g] \in {"none", "done"}

\* Node k of goroutine p has started the goroutine g.
Starts(p, k, g) ==
  /\ p[1] = g[1] /\ p[2] = g[2] /\ k < node[p]
  /\ k \in DOMAIN conf.nodes[p[3]] /\ g[3] \in conf.nodes[p[3]][k]

\* It is a root list, or a branch that the goroutine before it has passed.
Began(g) ==
  \/ g[3] = conf.root[g[1]]
  \/ \E p \in Goroutines : \E k \in DOMAIN conf.nodes[p[3]] : Starts(p, k, g)

\* A goroutine runs for an invocation that was fired; while it works it is at a
\* node of its list.
TreeInv ==
  \A g \in Goroutines :
    /\ ipc[g] = "none" => node[g] = 1
    /\ ipc[g] # "none" => g[2] < iat[g[1]] /\ ~conf.test /\ Began(g)
    /\ ipc[g] \in {"invoke", "send", "count", "branch"} => node[g] \in DOMAIN conf.nodes[g[3]]

\* The collector and the workers hold a record exactly when they are to pass one on.
CollectorInv ==
  /\ cpc = "none" <=> mpc = "start"
  /\ crec # NoRecord => cpc = "push"
  /\ cpc = "push" => crec \in RecordSet
  /\ \A w \in Workers : apc[w] = "send" => arec[w] \in RecordSet
  /\ cpc \in {"closed", "done"} => total # MaxInt64
  /\ cpc = "done" => records = <<>>

ScraperInv ==
  /\ spc = "none" <=> mpc = "start" \/ ~conf.scrape
  /\ \A ch \in Channels : sent[ch] = sbuf[ch] + sfile[ch]
  /\ spc = "done" => \A ch \in Channels : sbuf[ch] = 0

\* allRecordsWritten is 1 for the collector and 1 for the scraper until they are done.
RecordsInv ==
  /\ recordsWG = IF mpc = "start" THEN 0
                 ELSE (IF cpc = "done" THEN 0 ELSE 1)
                      + (IF conf.scrape /\ spc # "done" THEN 1 ELSE 0)
  /\ mpc = "done" /\ totals.ok + totals.failed # 0 =>
       cpc = "done" /\ (conf.scrape => spc = "done")

TotalsInv ==
  /\ \A f \in Drivers : counts[f].issued = counts[f].ok + counts[f].failed
  /\ totals.issued = totals.ok + totals.failed

IInv ==
  /\ TypeOK /\ WaitGroupsExact /\ DrainFits
  /\ PhaseInv /\ DriverInv /\ TreeInv
  /\ CollectorInv /\ ScraperInv /\ RecordsInv /\ TotalsInv

\* The goroutines that g starts at the node it has come to.
Branches(g) == {<<g[1], g[2], b>> : b \in conf.nodes[g[3]][node[g]]}

\* They are new: lists branch as trees do, so only this node starts them.
LEMMA BranchesType ==
  ASSUME IInv, NEW g \in Goroutines, ipc[g] = "branch"
  PROVE  /\ Branches(g) \subseteq Goroutines /\ IsFiniteSet(Branches(g))
         /\ \A h \in Branches(g) :
              h[1] = g[1] /\ h[2] = g[2] /\ h[3] \in conf.nodes[g[3]][node[g]] /\ ipc[h] = "none"
<1>1. g[1] \in Drivers /\ g[2] \in 0 .. MaxInvocations - 1 /\ g[3] \in Lists
  BY GoroutineType
<1>2. IsConfig(conf) /\ conf.nodes[g[3]] \in Seq(SUBSET Lists)
  BY <1>1, ConfigAssumption DEF IInv, TypeOK, IsConfig
<1>3. node[g] \in DOMAIN conf.nodes[g[3]] /\ conf.nodes[g[3]][node[g]] \subseteq Lists
  BY <1>2 DEF IInv, TreeInv
<1>4. ASSUME NEW h \in Branches(g)
      PROVE  /\ h \in Goroutines /\ h[1] = g[1] /\ h[2] = g[2]
             /\ h[3] \in conf.nodes[g[3]][node[g]] /\ ipc[h] = "none"
  <2>1. PICK b \in conf.nodes[g[3]][node[g]] : h = <<g[1], g[2], b>>
    BY DEF Branches
  <2>2. h \in Goroutines /\ h[1] = g[1] /\ h[2] = g[2] /\ h[3] = b
    BY <1>1, <1>3, <2>1, GoroutineOf
  <2>3. ASSUME ipc[h] # "none" PROVE FALSE
    <3>1. h[3] # conf.root[h[1]]
      BY <1>1, <1>2, <1>3, <2>2 DEF IsConfig
    <3>a. PICK p \in Goroutines : \E k \in DOMAIN conf.nodes[p[3]] : Starts(p, k, h)
      BY <2>2, <2>3, <3>1 DEF IInv, TreeInv, Began
    <3>2. PICK k \in DOMAIN conf.nodes[p[3]] : Starts(p, k, h)
      BY <3>a
    <3>3. p[3] \in Lists /\ b \in conf.nodes[p[3]][k] /\ b \in conf.nodes[g[3]][node[g]]
      BY <2>2, <3>2, GoroutineType DEF Starts
    <3>4. p[3] = g[3] /\ k = node[g]
      BY <1>1, <1>2, <1>3, <3>2, <3>3 DEF IsConfig
    <3>5. p = g
      BY <2>2, <3>2, <3>4, GoroutineType DEF Starts
    <3> QED
      BY <3>2, <3>4, <3>5 DEF Starts, IInv, TypeOK
  <2> QED
    BY <2>1, <2>2, <2>3
<1> QED
  BY <1>4, GoroutinesFinite, FS_Subset

LEMMA CountType ==
  ASSUME NEW a \in Nat, NEW b \in Nat, NEW c \in Nat
  PROVE  [ok |-> a, failed |-> b, issued |-> c] \in CountSet
  BY DEF CountSet

LEMMA CountFields ==
  ASSUME NEW c \in CountSet
  PROVE  c.ok \in Nat /\ c.failed \in Nat /\ c.issued \in Nat
  BY DEF CountSet

LEMMA TypeInit == ASSUME Init PROVE TypeOK
<1> USE DEF Init
<1>1. totals \in CountSet /\ counts \in [Drivers -> CountSet]
  BY DEF CountSet, Zero
<1>2. queue \in Seq(RecordSet) /\ records \in Seq(RecordSet)
  OBVIOUS
<1>3. /\ dpc \in [Drivers -> DriverPC] /\ ipc \in [Goroutines -> InvocationPC]
      /\ iat \in [Drivers -> 0 .. MaxInvocations] /\ waitWG \in [Drivers -> Int]
      /\ node \in [Goroutines -> Nat \ {0}] /\ retries \in [Goroutines -> 0 .. 1]
  BY DriverAssumption DEF DriverPC, InvocationPC
<1>4. /\ outcome \in [Goroutines -> {"fail", "direct", "async"}]
      /\ apc \in [Workers -> {"none", "dequeue", "send", "exit"}]
      /\ arec \in [Workers -> RecordSet \cup {NoRecord}]
  OBVIOUS
<1>5. sbuf \in [Channels -> Nat] /\ sfile \in [Channels -> Nat] /\ sent \in [Channels -> Nat]
  OBVIOUS
<1>a. timekeeper \in BOOLEAN
  BY Zenon
<1>6. /\ conf \in Configs /\ mpc = "start" /\ barrier \in Int
      /\ driversWG \in Int /\ recordsWG \in Int /\ asyncWG \in Int
  OBVIOUS
<1>7. /\ cpc = "none" /\ crec \in RecordSet \cup {NoRecord} /\ written \in Nat
      /\ total \in Nat \cup {MaxInt64} /\ file \subseteq RecordSet
  OBVIOUS
<1>8. /\ spc = "none" /\ scrapes \in Nat /\ recScale \in Nat /\ finishCh \in 0 .. 1
  OBVIOUS
<1> HIDE DEF Init
<1> QED
  BY <1>1, <1>2, <1>3, <1>4, <1>5, <1>a, <1>6, <1>7, <1>8 DEF TypeOK

LEMMA TypeStep ==
  ASSUME IInv, [Next]_vars
  PROVE  TypeOK'
<1>a. /\ conf.count \in [Drivers -> 0 .. MaxInvocations] /\ conf.root \in [Drivers -> Lists]
  BY ConfigType DEF IInv
<1>b. counts \in [Drivers -> CountSet] /\ totals \in CountSet
  BY DEF IInv, TypeOK
<1>c. ASSUME NEW f \in Drivers, TakeFromDriver(f)
      PROVE  counts' \in [Drivers -> CountSet]
  <2> DEFINE c == [ok |-> counts[f].ok + 1, failed |-> counts[f].failed, issued |-> counts[f].issued + 1]
  <2>1. counts[f] \in CountSet
    BY <1>b
  <2>2. /\ counts[f].ok + 1 \in Nat /\ counts[f].failed \in Nat
        /\ counts[f].issued + 1 \in Nat
    BY <2>1, CountFields
  <2>3. c \in CountSet
    BY <2>2, CountType
  <2>4. counts' = [counts EXCEPT ![f] = c]
    BY <1>c DEF TakeFromDriver
  <2> HIDE DEF c
  <2> QED
    BY <1>b, <2>3, <2>4
<1>d. ASSUME NEW g \in Goroutines, CountInvocation(g)
      PROVE  counts' \in [Drivers -> CountSet]
  <2> DEFINE ok == outcome[g] # "fail"
             c == [ok     |-> IF ok THEN counts[g[1]].ok + 1 ELSE counts[g[1]].ok,
                   failed |-> IF ok THEN counts[g[1]].failed ELSE counts[g[1]].failed + 1,
                   issued |-> counts[g[1]].issued + 1]
  <2>1. g[1] \in Drivers /\ counts[g[1]] \in CountSet
    BY <1>b, GoroutineType
  <2>2. c \in CountSet
    <3>1. /\ (IF ok THEN counts[g[1]].ok + 1 ELSE counts[g[1]].ok) \in Nat
          /\ (IF ok THEN counts[g[1]].failed ELSE counts[g[1]].failed + 1) \in Nat
          /\ counts[g[1]].issued + 1 \in Nat
      BY <2>1, CountFields
    <3> QED
      BY <3>1, CountType
  <2>3. counts' = [counts EXCEPT ![g[1]] = c]
    BY <1>d DEF CountInvocation
  <2> HIDE DEF c
  <2> QED
    BY <1>b, <2>1, <2>2, <2>3
<1> USE DriverAssumption DEF TypeOK, IInv, mainVars, driverVars, invVars, asyncVars, collectorVars,
                             scraperVars, DriverPC, InvocationPC
<1>1. ASSUME StartBackgroundProcesses PROVE TypeOK'
  BY <1>1 DEF StartBackgroundProcesses
<1>2. ASSUME StartDrivers PROVE TypeOK'
  <2>1. driversWG' \in Int
    BY <1>2, FS_CardinalityType DEF StartDrivers
  <2> QED
    BY <1>2, <2>1 DEF StartDrivers
<1>3. ASSUME DriversCompleted PROVE TypeOK'
  BY <1>3 DEF DriversCompleted
<1>4. ASSUME StartBatch PROVE TypeOK'
  BY <1>4 DEF StartBatch, ToProcess, Workers
<1>5. ASSUME BatchCompleted PROVE TypeOK'
  BY <1>5 DEF BatchCompleted
<1>6. ASSUME GatherCompleted PROVE TypeOK'
  BY <1>6 DEF GatherCompleted
<1>7. ASSUME TakeTotal PROVE TypeOK'
  BY <1>7 DEF TakeTotal, CountSet
<1>8. ASSUME FinishScraper PROVE TypeOK'
  BY <1>8 DEF FinishScraper
<1>9. ASSUME RecordsWritten PROVE TypeOK'
  BY <1>9 DEF RecordsWritten
<1>10. ASSUME NEW f \in Drivers, BeginDriver(f) PROVE TypeOK'
  BY <1>10 DEF BeginDriver
<1>11. ASSUME NEW f \in Drivers, FireInvocation(f) PROVE TypeOK'
  <2>1. f \in Drivers /\ iat[f] \in 0 .. MaxInvocations /\ iat[f] < conf.count[f]
        /\ conf.count[f] \in 0 .. MaxInvocations
    BY <1>11, <1>a DEF FireInvocation
  <2>2. iat[f] + 1 \in 0 .. MaxInvocations
    BY <2>1
  <2>3. iat' \in [Drivers -> 0 .. MaxInvocations]
    BY <1>11, <2>2 DEF FireInvocation
  <2>4. waitWG' \in [Drivers -> Int]
    BY <1>11 DEF FireInvocation
  <2>5. ipc' \in [Goroutines -> InvocationPC]
    BY <1>11 DEF FireInvocation, AtNode
  <2>6. UNCHANGED <<conf, mainVars, dpc, counts, node, retries, outcome, asyncVars,
                    collectorVars, scraperVars>>
    BY <1>11 DEF FireInvocation
  <2> QED
    BY <2>3, <2>4, <2>5, <2>6
<1>12. ASSUME NEW f \in Drivers, FireTest(f) PROVE TypeOK'
  BY <1>12 DEF FireTest
<1>13. ASSUME NEW f \in Drivers, TakeFromDriver(f) PROVE TypeOK'
  <2>1. f \in Drivers /\ iat[f] \in 0 .. MaxInvocations /\ iat[f] < conf.count[f]
        /\ conf.count[f] \in 0 .. MaxInvocations /\ conf.root[f] \in Lists
    BY <1>13, <1>a DEF TakeFromDriver, DriverInv
  <2>2. iat[f] \in 0 .. MaxInvocations - 1 /\ iat[f] + 1 \in 0 .. MaxInvocations
    BY <2>1
  <2>3. iat' \in [Drivers -> 0 .. MaxInvocations]
    BY <1>13, <2>2 DEF TakeFromDriver
  <2>4. crec' \in RecordSet
    <3>1. <<f, iat[f], conf.root[f]>> \in Goroutines
      BY <2>1, <2>2, GoroutineOf
    <3>2. crec' = [inv |-> <<f, iat[f], conf.root[f]>>, node |-> 1, ok |-> TRUE]
      BY <1>13 DEF TakeFromDriver, Take, Record
    <3> QED
      BY <3>1, <3>2 DEF RecordSet
  <2>5. counts' \in [Drivers -> CountSet]
    BY <1>13, <1>c
  <2>6. UNCHANGED <<conf, mainVars, waitWG, invVars, asyncVars, written, total, records, file,
                    scraperVars>> /\ dpc' \in [Drivers -> DriverPC] /\ cpc' = "push"
    BY <1>13 DEF TakeFromDriver, Take
  <2> QED
    BY <2>3, <2>4, <2>5, <2>6
<1>14. ASSUME NEW f \in Drivers, EndLoop(f) PROVE TypeOK'
  BY <1>14 DEF EndLoop
<1>15. ASSUME NEW f \in Drivers, WaitForInvocations(f) PROVE TypeOK'
  BY <1>15 DEF WaitForInvocations
<1>16. ASSUME NEW f \in Drivers, Report(f) PROVE TypeOK'
  <2>1. totals' \in CountSet
    BY <1>16, SMTT(30) DEF Report, CountSet
  <2> QED
    BY <1>16, <2>1 DEF Report
<1>17. ASSUME NEW f \in Drivers, DriverDone(f) PROVE TypeOK'
  BY <1>17 DEF DriverDone
<1>18. ASSUME NEW g \in Goroutines, Invoke(g) PROVE TypeOK'
  <2>0. PICK o \in Outcomes :
          /\ outcome' = [outcome EXCEPT ![g] = o]
          /\ \/ MustRetry(g, o) /\ retries' = [retries EXCEPT ![g] = @ + 1] /\ UNCHANGED ipc
             \/ ipc' = [ipc EXCEPT ![g] = "send"] /\ UNCHANGED retries
    BY <1>18 DEF Invoke
  <2>1. outcome' \in [Goroutines -> {"fail", "direct", "async"}]
    BY <2>0, OutcomeType
  <2>2. retries' \in [Goroutines -> 0 .. 1]
    <3>1. CASE UNCHANGED retries
      BY <3>1
    <3>2. CASE MustRetry(g, o) /\ retries' = [retries EXCEPT ![g] = @ + 1]
      BY <3>2 DEF MustRetry
    <3> QED
      BY <2>0, <3>1, <3>2
  <2>3. ipc' \in [Goroutines -> InvocationPC]
    BY <2>0
  <2>4. UNCHANGED <<conf, mainVars, driverVars, node, asyncVars, collectorVars, scraperVars>>
    BY <1>18 DEF Invoke
  <2> QED
    BY <2>1, <2>2, <2>3, <2>4
<1>19. ASSUME NEW g \in Goroutines, EnqueueAsync(g) PROVE TypeOK'
  BY <1>19 DEF EnqueueAsync, RecordOf, Record, RecordSet
<1>20. ASSUME NEW g \in Goroutines, TakeFromInvocation(g) PROVE TypeOK'
  BY <1>20, SMTT(30) DEF TakeFromInvocation, Take, RecordOf, Record, RecordSet
<1>21. ASSUME NEW g \in Goroutines, CountInvocation(g) PROVE TypeOK'
  <2>2. counts' \in [Drivers -> CountSet]
    BY <1>21, <1>d
  <2>3. ipc' \in [Goroutines -> InvocationPC]
    BY <1>21 DEF CountInvocation, AfterCount
  <2>4. UNCHANGED <<conf, mainVars, dpc, iat, waitWG, node, retries, outcome, asyncVars,
                    collectorVars, scraperVars>>
    BY <1>21 DEF CountInvocation
  <2> QED
    BY <2>2, <2>3, <2>4
<1>22. ASSUME NEW g \in Goroutines, StartBranches(g) PROVE TypeOK'
  <2>0. g[1] \in Drivers
    BY GoroutineType
  <2>1. waitWG' \in [Drivers -> Int]
    <3>1. Cardinality(Branches(g)) \in Nat
      BY <1>22, BranchesType, FS_CardinalityType DEF StartBranches
    <3>2. waitWG' = [waitWG EXCEPT ![g[1]] = @ + Cardinality(Branches(g))]
      BY <1>22 DEF StartBranches, AddBranches, Branches
    <3> QED
      BY <2>0, <3>1, <3>2
  <2>2. ipc' \in [Goroutines -> InvocationPC]
    BY <1>22 DEF StartBranches, AtNode
  <2>3. node' \in [Goroutines -> Nat \ {0}]
    BY <1>22 DEF StartBranches
  <2>4. UNCHANGED <<conf, mainVars, dpc, iat, counts, retries, outcome, asyncVars,
                    collectorVars, scraperVars>>
    BY <1>22 DEF StartBranches
  <2> QED
    BY <2>1, <2>2, <2>3, <2>4
<1>23. ASSUME NEW g \in Goroutines, InvocationDone(g) PROVE TypeOK'
  <2>0. g[1] \in Drivers
    BY GoroutineType
  <2>1. waitWG' \in [Drivers -> Int]
    BY <1>23, <2>0 DEF InvocationDone
  <2> QED
    BY <1>23, <2>1, SMTT(30) DEF InvocationDone
<1>24. ASSUME NEW w \in Workers, DequeueAsync(w) PROVE TypeOK'
  BY <1>24 DEF DequeueAsync
<1>25. ASSUME NEW w \in Workers, TakeFromWorker(w) PROVE TypeOK'
  BY <1>25 DEF TakeFromWorker, Take
<1>26. ASSUME NEW w \in Workers, WorkerDone(w) PROVE TypeOK'
  BY <1>26 DEF WorkerDone
<1>27. ASSUME CollectorReady PROVE TypeOK'
  BY <1>27 DEF CollectorReady
<1>28. ASSUME PushRecord PROVE TypeOK'
  <2>1. crec \in RecordSet
    BY <1>28 DEF PushRecord, CollectorInv
  <2>2. records' \in Seq(RecordSet)
    BY <1>28, <2>1 DEF PushRecord
  <2> QED
    BY <1>28, <2>2 DEF PushRecord
<1>29. ASSUME CheckComplete PROVE TypeOK'
  BY <1>29 DEF CheckComplete
<1>30. ASSUME CollectorDone PROVE TypeOK'
  BY <1>30 DEF CollectorDone
<1>31. ASSUME WriteRecord PROVE TypeOK'
  BY <1>31 DEF WriteRecord
<1>32. ASSUME TimekeeperReady PROVE TypeOK'
  BY <1>32 DEF TimekeeperReady
<1>33. ASSUME ScraperReady PROVE TypeOK'
  BY <1>33 DEF ScraperReady
<1>34. ASSUME SendScaleRow PROVE TypeOK'
  <2>1. sbuf' \in [Channels -> Nat] /\ sent' \in [Channels -> Nat]
    BY <1>34 DEF SendScaleRow, SendRow, Channels
  <2>2. recScale' \in Nat
    BY <1>34 DEF SendScaleRow
  <2> QED
    BY <1>34, <2>1, <2>2 DEF SendScaleRow
<1>35. ASSUME SendKnStats PROVE TypeOK'
  <2>1. sbuf' \in [Channels -> Nat] /\ sent' \in [Channels -> Nat]
    BY <1>35 DEF SendKnStats, SendRow, Channels
  <2> QED
    BY <1>35, <2>1 DEF SendKnStats
<1>36. ASSUME ScraperFinish PROVE TypeOK'
  BY <1>36 DEF ScraperFinish
<1>37. ASSUME ScraperDone PROVE TypeOK'
  BY <1>37 DEF ScraperDone
<1>38. ASSUME Scrape PROVE TypeOK'
  BY <1>38 DEF Scrape
<1>39. ASSUME NEW ch \in Channels, WriteRow(ch) PROVE TypeOK'
  <2>1. sbuf' \in [Channels -> Nat] /\ sfile' \in [Channels -> Nat]
    BY <1>39 DEF WriteRow
  <2> QED
    BY <1>39, <2>1 DEF WriteRow
<1>40. CASE UNCHANGED vars
  BY <1>40 DEF vars
<1> QED
  BY <1>1, <1>2, <1>3, <1>4, <1>5, <1>6, <1>7, <1>8, <1>9, <1>10, <1>11, <1>12, <1>13, <1>14, <1>15, <1>16, <1>17, <1>18, <1>19, <1>20, <1>21, <1>22, <1>23, <1>24, <1>25, <1>26, <1>27, <1>28, <1>29, <1>30, <1>31, <1>32, <1>33, <1>34, <1>35, <1>36, <1>37, <1>38, <1>39,
     <1>40 DEF Next, Main, DriverStep, InvocationStep, WorkerStep, Collector, Scraper, Terminated

(***************************************************************************)
(* What the steps of each actor leave alone.                                *)
(***************************************************************************)
MainFrame == <<conf, timekeeper, totals, iat, waitWG, counts, invVars, queue, arec, crec, written,
               records, file, scrapes, recScale, sbuf, sfile, sent>>
DriverFrame == <<conf, mpc, barrier, timekeeper, recordsWG, node, retries, outcome, asyncVars,
                 written, total, records, file, scraperVars>>
InvocationFrame == <<conf, mainVars, dpc, iat, apc, arec, asyncWG, written, total, records, file,
                     scraperVars>>
WorkerFrame == <<conf, mainVars, driverVars, invVars, written, total, records, file, scraperVars>>
BackgroundFrame == <<conf, mpc, driversWG, totals, driverVars, invVars, asyncVars, total>>

\* The steps of the collector, the scraper, their writers and the timekeeper.
Background == \/ Collector \/ WriteRecord \/ TimekeeperReady
              \/ Scraper \/ Scrape \/ \E ch \in Channels : WriteRow(ch)

LEMMA Frames ==
  /\ Main => UNCHANGED MainFrame
  /\ \A f \in Drivers : DriverStep(f) => UNCHANGED DriverFrame
  /\ \A g \in Goroutines : InvocationStep(g) => UNCHANGED InvocationFrame
  /\ \A w \in Workers : WorkerStep(w) => UNCHANGED WorkerFrame
  /\ Background => UNCHANGED BackgroundFrame
<1> USE DEF mainVars, driverVars, invVars, asyncVars, collectorVars, scraperVars
<1>1. Main => UNCHANGED MainFrame
  BY DEF Main, MainFrame, StartBackgroundProcesses, StartDrivers, DriversCompleted, StartBatch,
         BatchCompleted, GatherCompleted, TakeTotal, FinishScraper, RecordsWritten
<1>2. ASSUME NEW f \in Drivers PROVE DriverStep(f) => UNCHANGED DriverFrame
  BY DEF DriverStep, DriverFrame, BeginDriver, FireInvocation, FireTest, TakeFromDriver, EndLoop,
         WaitForInvocations, Report, DriverDone
<1>3. ASSUME NEW g \in Goroutines PROVE InvocationStep(g) => UNCHANGED InvocationFrame
  BY DEF InvocationStep, InvocationFrame, Invoke, EnqueueAsync, TakeFromInvocation,
         CountInvocation, StartBranches, InvocationDone
<1>4. ASSUME NEW w \in Workers PROVE WorkerStep(w) => UNCHANGED WorkerFrame
  BY DEF WorkerStep, WorkerFrame, DequeueAsync, TakeFromWorker, WorkerDone
<1>5. Background => UNCHANGED BackgroundFrame
  BY DEF Background, BackgroundFrame, Collector, CollectorReady, PushRecord, CheckComplete,
         CollectorDone, WriteRecord, TimekeeperReady, Scraper, ScraperReady, SendScaleRow,
         SendKnStats, ScraperFinish, ScraperDone, Scrape, WriteRow
<1> QED
  BY <1>1, <1>2, <1>3, <1>4, <1>5

\* A step is a step of one of the actors, or changes nothing.
LEMMA StepCases ==
  ASSUME [Next]_vars
  PROVE  \/ Main \/ \E f \in Drivers : DriverStep(f)
         \/ \E g \in Goroutines : InvocationStep(g)
         \/ \E w \in Workers : WorkerStep(w)
         \/ Background \/ UNCHANGED vars
  BY DEF Next, Background, Terminated

(***************************************************************************)
(* The WaitGroups.                                                          *)
(***************************************************************************)
Running == {f \in Drivers : dpc[f] \notin {"none", "done"}}
Busy == {w \in Workers : apc[w] # "none"}

LEMMA WorkersFinite == IsFiniteSet(Workers)
  BY DriverAssumption, FS_Interval DEF Workers

LEMMA DriversWGStep ==
  ASSUME IInv, [Next]_vars
  PROVE  driversWG' = Cardinality(Running')
<1>1. driversWG = Cardinality(Running) /\ dpc \in [Drivers -> DriverPC]
  BY DEF IInv, WaitGroupsExact, Running, TypeOK
<1>2. IsFiniteSet(Running)
  BY DriverAssumption, FS_Subset DEF Running
<1>3. CASE UNCHANGED <<driversWG, dpc>>
  BY <1>1, <1>3 DEF Running
<1>4. CASE StartDrivers
  <2>1. Running' = Drivers
    BY <1>4 DEF StartDrivers, Running
  <2> QED
    BY <1>4, <2>1 DEF StartDrivers
<1>5. ASSUME NEW f \in Drivers, DriverStep(f), ~DriverDone(f)
      PROVE  driversWG' = Cardinality(Running')
  <2>1. driversWG' = driversWG
    BY <1>5 DEF DriverStep, mainVars, BeginDriver, FireInvocation, FireTest, TakeFromDriver,
                EndLoop, WaitForInvocations, Report
  <2>2. PICK p \in DriverPC \ {"none", "done"} :
          dpc[f] \notin {"none", "done"} /\ dpc' = [dpc EXCEPT ![f] = p]
    <3>1. CASE FireInvocation(f)
      BY <1>1, <3>1 DEF FireInvocation, DriverPC
    <3>2. CASE ~FireInvocation(f)
      BY <1>5, <3>2 DEF DriverStep, BeginDriver, FireTest, TakeFromDriver,
                  EndLoop, WaitForInvocations, Report, DriverPC
    <3> QED
      BY <3>1, <3>2
  <2>3. Running' = Running
    BY <1>1, <2>2 DEF Running
  <2> QED
    BY <1>1, <2>1, <2>3
<1>6. ASSUME NEW f \in Drivers, DriverDone(f)
      PROVE  driversWG' = Cardinality(Running')
  <2>1. Running' = Running \ {f} /\ f \in Running
    BY <1>1, <1>6 DEF DriverDone, Running
  <2> QED
    BY <1>1, <1>2, <1>6, <2>1, FS_RemoveElement DEF DriverDone
<1>7. Main /\ ~StartDrivers => UNCHANGED <<driversWG, dpc>>
  BY DEF Main, driverVars, StartBackgroundProcesses, DriversCompleted, StartBatch,
         BatchCompleted, GatherCompleted, TakeTotal, FinishScraper, RecordsWritten
<1>8. ASSUME \/ \E g \in Goroutines : InvocationStep(g)
             \/ \E w \in Workers : WorkerStep(w)
             \/ Background \/ UNCHANGED vars
      PROVE  UNCHANGED <<driversWG, dpc>>
  BY <1>8, Frames DEF InvocationFrame, WorkerFrame, BackgroundFrame, mainVars, driverVars, vars
<1> QED
  BY StepCases, <1>3, <1>4, <1>5, <1>6, <1>7, <1>8

LEMMA AsyncWGStep ==
  ASSUME IInv, [Next]_vars
  PROVE  asyncWG' = Cardinality(Busy')
<1>1. /\ asyncWG = Cardinality(Busy) /\ apc \in [Workers -> {"none", "dequeue", "send", "exit"}]
      /\ queue \in Seq(RecordSet)
  BY DEF IInv, WaitGroupsExact, Busy, TypeOK
<1>2. IsFiniteSet(Busy)
  BY WorkersFinite, FS_Subset DEF Busy
<1>3. CASE UNCHANGED <<asyncWG, apc>>
  BY <1>1, <1>3 DEF Busy
<1>4. CASE StartBatch
  <2>1. ToProcess \in Nat /\ ToProcess <= BatchSize
    BY <1>1, DriverAssumption DEF ToProcess
  <2>2. Busy' = 1 .. ToProcess
    BY <1>4, <2>1, DriverAssumption DEF StartBatch, Busy, Workers
  <2> QED
    BY <1>4, <2>1, <2>2, FS_Interval DEF StartBatch
<1>5. ASSUME NEW w \in Workers, DequeueAsync(w) \/ TakeFromWorker(w)
      PROVE  asyncWG' = Cardinality(Busy')
  <2>1. Busy' = Busy /\ asyncWG' = asyncWG
    BY <1>1, <1>5 DEF DequeueAsync, TakeFromWorker, Busy
  <2> QED
    BY <1>1, <2>1
<1>6. ASSUME NEW w \in Workers, WorkerDone(w)
      PROVE  asyncWG' = Cardinality(Busy')
  <2>1. Busy' = Busy \ {w} /\ w \in Busy
    BY <1>1, <1>6 DEF WorkerDone, Busy
  <2> QED
    BY <1>1, <1>2, <1>6, <2>1, FS_RemoveElement DEF WorkerDone
<1>7. Main /\ ~StartBatch => UNCHANGED <<asyncWG, apc>>
  BY DEF Main, asyncVars, StartBackgroundProcesses, StartDrivers, DriversCompleted,
         BatchCompleted, GatherCompleted, TakeTotal, FinishScraper, RecordsWritten
<1>8. ASSUME \/ \E f \in Drivers : DriverStep(f)
             \/ \E g \in Goroutines : InvocationStep(g)
             \/ Background \/ UNCHANGED vars
      PROVE  UNCHANGED <<asyncWG, apc>>
  BY <1>8, Frames DEF InvocationFrame, DriverFrame, BackgroundFrame, asyncVars, vars
<1> QED
  BY StepCases, <1>3, <1>4, <1>5, <1>6, <1>7, <1>8 DEF WorkerStep

LEMMA LiveFinite == ASSUME NEW f \in Drivers PROVE IsFiniteSet(Live(f))
  BY GoroutinesFinite, FS_Subset DEF Live

\* The goroutine that functionsDriver starts next is new.
LEMMA FiredIsNew ==
  ASSUME IInv, NEW f \in Drivers, dpc[f] = "loop", iat[f] < conf.count[f]
  PROVE  /\ <<f, iat[f], conf.root[f]>> \in Goroutines
         /\ ipc[<<f, iat[f], conf.root[f]>>] = "none"
<1>1. iat[f] \in Nat /\ conf.count[f] \in 0 .. MaxInvocations /\ conf.root[f] \in Lists
  BY ConfigType DEF IInv, TypeOK
<1>2. iat[f] \in 0 .. MaxInvocations - 1
  BY <1>1, DriverAssumption
<1>3. /\ <<f, iat[f], conf.root[f]>> \in Goroutines
      /\ <<f, iat[f], conf.root[f]>>[1] = f /\ <<f, iat[f], conf.root[f]>>[2] = iat[f]
  BY <1>1, <1>2, GoroutineOf
<1> QED
  BY <1>1, <1>3 DEF IInv, TreeInv

LEMMA WaitWGStep ==
  ASSUME IInv, [Next]_vars, NEW f \in Drivers
  PROVE  waitWG'[f] = Cardinality(Live(f)')
<1>1. /\ \A d \in Drivers : waitWG[d] = Cardinality(Live(d))
      /\ ipc \in [Goroutines -> InvocationPC] /\ waitWG \in [Drivers -> Int]
  BY DEF IInv, WaitGroupsExact, TypeOK
<1>2. IsFiniteSet(Live(f)) /\ Cardinality(Live(f)) \in Nat
  BY LiveFinite, FS_CardinalityType
<1>3. CASE UNCHANGED <<waitWG, ipc>>
  BY <1>1, <1>3 DEF Live
<1>4. ASSUME NEW d \in Drivers, FireInvocation(d)
      PROVE  waitWG'[f] = Cardinality(Live(f)')
  <2> DEFINE g == <<d, iat[d], conf.root[d]>>
  <2>1. g \in Goroutines /\ ipc[g] = "none" /\ g[1] = d
    BY <1>4, FiredIsNew DEF FireInvocation
  <2>2. AtNode(conf.root[d], 1) \notin {"none", "done"}
    BY DEF AtNode
  <2>3. ipc' = [ipc EXCEPT ![g] = AtNode(conf.root[d], 1)] /\ waitWG' = [waitWG EXCEPT ![d] = @ + 1]
    BY <1>4 DEF FireInvocation
  <2> HIDE DEF g
  <2>4. CASE d = f
    <3>1. Live(f)' = Live(f) \cup {g} /\ g \notin Live(f)
      BY <1>1, <2>1, <2>2, <2>3, <2>4 DEF Live
    <3>2. Cardinality(Live(f) \cup {g}) = Cardinality(Live(f)) + 1
      BY <1>2, <3>1, FS_AddElement
    <3>3. waitWG'[f] = waitWG[f] + 1
      BY <1>1, <2>3, <2>4
    <3> QED
      BY <1>1, <3>1, <3>2, <3>3
  <2>5. CASE d # f
    <3>1. Live(f)' = Live(f)
      BY <1>1, <2>1, <2>2, <2>3, <2>5 DEF Live
    <3> QED
      BY <1>1, <2>3, <2>5, <3>1
  <2> QED
    BY <2>4, <2>5
<1>5. ASSUME NEW g \in Goroutines,
             Invoke(g) \/ EnqueueAsync(g) \/ TakeFromInvocation(g) \/ CountInvocation(g)
      PROVE  waitWG'[f] = Cardinality(Live(f)')
  <2>1. /\ ipc[g] \notin {"none", "done"} /\ ipc'[g] \notin {"none", "done"}
        /\ waitWG' = waitWG /\ \A h \in Goroutines : h # g => ipc'[h] = ipc[h]
    BY <1>1, <1>5 DEF Invoke, EnqueueAsync, TakeFromInvocation, CountInvocation, AfterCount,
                      driverVars
  <2>2. Live(f)' = Live(f)
    BY <1>1, <2>1 DEF Live
  <2> QED
    BY <1>1, <2>1, <2>2
<1>6. ASSUME NEW g \in Goroutines, StartBranches(g)
      PROVE  waitWG'[f] = Cardinality(Live(f)')
  <2>1. /\ ipc[g] = "branch"
        /\ waitWG' = [waitWG EXCEPT ![g[1]] = @ + Cardinality(Branches(g))]
        /\ ipc' = [h \in Goroutines |-> IF h = g THEN AtNode(g[3], node[g] + 1)
                                        ELSE IF h \in Branches(g) THEN AtNode(h[3], 1)
                                        ELSE ipc[h]]
    BY <1>6 DEF StartBranches, AddBranches, Branches
  <2>2. \A l, k : AtNode(l, k) \notin {"none", "done"}
    BY DEF AtNode
  <2>3. /\ Branches(g) \subseteq Goroutines /\ IsFiniteSet(Branches(g))
        /\ \A h \in Branches(g) : h[1] = g[1] /\ ipc[h] = "none"
    BY <2>1, BranchesType
  <2>4. CASE f = g[1]
    <3>1. Live(f)' = Live(f) \cup Branches(g) /\ Live(f) \cap Branches(g) = {}
      BY <2>1, <2>2, <2>3, <2>4 DEF Live
    <3>2. Cardinality(Live(f) \cup Branches(g)) = Cardinality(Live(f)) + Cardinality(Branches(g)) - 0
      BY <1>2, <2>3, <3>1, FS_Union, FS_EmptySet
    <3>3. Cardinality(Branches(g)) \in Nat
      BY <2>3, FS_CardinalityType
    <3> QED
      BY <1>1, <1>2, <2>1, <2>4, <3>1, <3>2, <3>3
  <2>5. CASE f # g[1]
    <3>1. Live(f)' = Live(f)
      BY <2>1, <2>2, <2>3, <2>5 DEF Live
    <3> QED
      BY <1>1, <2>1, <2>5, <3>1
  <2> QED
    BY <2>4, <2>5
<1>7. ASSUME NEW g \in Goroutines, InvocationDone(g)
      PROVE  waitWG'[f] = Cardinality(Live(f)')
  <2>1. /\ ipc[g] = "exit" /\ ipc' = [ipc EXCEPT ![g] = "done"]
        /\ waitWG' = [waitWG EXCEPT ![g[1]] = @ - 1]
    BY <1>7 DEF InvocationDone
  <2>2. CASE f = g[1]
    <3>1. Live(f)' = Live(f) \ {g} /\ g \in Live(f)
      BY <1>1, <2>1, <2>2 DEF Live
    <3>2. Cardinality(Live(f) \ {g}) = Cardinality(Live(f)) - 1
      BY <1>2, <3>1, FS_RemoveElement
    <3>3. waitWG'[f] = waitWG[f] - 1
      BY <1>1, <2>1, <2>2
    <3> QED
      BY <1>1, <3>1, <3>2, <3>3
  <2>3. CASE f # g[1]
    <3>1. Live(f)' = Live(f)
      BY <1>1, <2>1, <2>3 DEF Live
    <3> QED
      BY <1>1, <2>1, <2>3, <3>1
  <2> QED
    BY <2>2, <2>3
<1>8. ASSUME NEW d \in Drivers, DriverStep(d), ~FireInvocation(d)
      PROVE  UNCHANGED <<waitWG, ipc>>
  BY <1>8 DEF DriverStep, BeginDriver, FireTest, TakeFromDriver, EndLoop, WaitForInvocations,
              Report, DriverDone, invVars
<1>9. ASSUME \/ Main \/ \E w \in Workers : WorkerStep(w)
             \/ Background \/ UNCHANGED vars
      PROVE  UNCHANGED <<waitWG, ipc>>
  BY <1>9, Frames DEF MainFrame, WorkerFrame, BackgroundFrame, driverVars, invVars, vars
<1> QED
  BY StepCases, <1>3, <1>4, <1>5, <1>6, <1>7, <1>8, <1>9 DEF InvocationStep

(***************************************************************************)
(* The drain: no worker finds the queue empty.                              *)
(***************************************************************************)
Dequeuing == {w \in Workers : apc[w] = "dequeue"}

LEMMA DrainStep ==
  ASSUME IInv, [Next]_vars
  PROVE  DrainFits'
<1>1. /\ Cardinality(Dequeuing) <= Len(queue) /\ queue \in Seq(RecordSet)
      /\ apc \in [Workers -> {"none", "dequeue", "send", "exit"}]
  BY DEF IInv, DrainFits, Dequeuing, TypeOK
<1>2. IsFiniteSet(Dequeuing) /\ Cardinality(Dequeuing) \in Nat
  BY WorkersFinite, FS_Subset, FS_CardinalityType DEF Dequeuing
<1>q. ASSUME Cardinality(Dequeuing') <= Len(queue') PROVE DrainFits'
  BY <1>q DEF DrainFits, Dequeuing
<1>3. CASE UNCHANGED <<queue, apc>>
  BY <1>1, <1>3 DEF Dequeuing, DrainFits
<1>4. CASE StartBatch
  <2>1. ToProcess \in Nat /\ ToProcess <= BatchSize /\ ToProcess <= Len(queue)
    BY <1>1, DriverAssumption DEF ToProcess
  <2>2. Dequeuing' = 1 .. ToProcess /\ queue' = queue
    BY <1>4, <2>1, DriverAssumption DEF StartBatch, Dequeuing, Workers
  <2>3. Cardinality(1 .. ToProcess) = ToProcess
    BY <2>1, FS_Interval
  <2> QED
    BY <1>q, <2>1, <2>2, <2>3
<1>5. ASSUME NEW g \in Goroutines, EnqueueAsync(g)
      PROVE  DrainFits'
  <2>1. Len(queue') = Len(queue) + 1 /\ Dequeuing' = Dequeuing
    BY <1>1, <1>5 DEF EnqueueAsync, Dequeuing
  <2> QED
    BY <1>q, <1>1, <1>2, <2>1
<1>6. ASSUME NEW w \in Workers, DequeueAsync(w)
      PROVE  DrainFits'
  <2>1. Dequeuing' = Dequeuing \ {w} /\ w \in Dequeuing
    BY <1>1, <1>6 DEF DequeueAsync, Dequeuing
  <2>2. Cardinality(Dequeuing \ {w}) = Cardinality(Dequeuing) - 1
    BY <1>2, <2>1, FS_RemoveElement
  <2>3. Len(queue') = Len(queue) - 1
    BY <1>1, <1>6 DEF DequeueAsync
  <2> QED
    BY <1>q, <1>1, <1>2, <2>1, <2>2, <2>3
<1>7. ASSUME NEW w \in Workers, TakeFromWorker(w) \/ WorkerDone(w)
      PROVE  DrainFits'
  <2>1. Dequeuing' = Dequeuing /\ queue' = queue
    BY <1>1, <1>7 DEF TakeFromWorker, WorkerDone, Dequeuing
  <2> QED
    BY <1>q, <1>1, <2>1
<1>8. Main /\ ~StartBatch => UNCHANGED <<queue, apc>>
  BY DEF Main, asyncVars, StartBackgroundProcesses, StartDrivers, DriversCompleted,
         BatchCompleted, GatherCompleted, TakeTotal, FinishScraper, RecordsWritten
<1>9. ASSUME NEW g \in Goroutines, InvocationStep(g), ~EnqueueAsync(g)
      PROVE  UNCHANGED <<queue, apc>>
  BY <1>9 DEF InvocationStep, Invoke, TakeFromInvocation, CountInvocation, StartBranches,
              InvocationDone, asyncVars
<1>10. ASSUME (\E f \in Drivers : DriverStep(f)) \/ Background \/ UNCHANGED vars
       PROVE  UNCHANGED <<queue, apc>>
  BY <1>10, Frames DEF DriverFrame, BackgroundFrame, asyncVars, vars
<1> QED
  BY StepCases, <1>3, <1>4, <1>5, <1>6, <1>7, <1>8, <1>9, <1>10 DEF WorkerStep

(***************************************************************************)
(* The phases of internalRun.                                               *)
(***************************************************************************)
\* A driver that runs is waited for, and so is a goroutine of an invocation.
LEMMA RunningPhase ==
  ASSUME IInv
  PROVE  /\ \A f \in Drivers : dpc[f] \notin {"none", "done"} => mpc = "waitDrivers"
         /\ \A g \in Goroutines : ipc[g] \notin {"none", "done"} =>
              mpc = "waitDrivers" /\ dpc[g[1]] \in {"loop", "send", "wait"}
<1>1. \A f \in Drivers : dpc[f] \notin {"none", "done"} => mpc = "waitDrivers"
  BY DEF IInv, PhaseInv
<1>2. ASSUME NEW g \in Goroutines, ipc[g] \notin {"none", "done"}
      PROVE  dpc[g[1]] \in {"loop", "send", "wait"}
  <2>1. g[1] \in Drivers /\ g[2] \in Nat
    BY GoroutineType
  <2>2. dpc[g[1]] \in DriverPC /\ dpc[g[1]] \notin {"report", "exit", "done"}
    BY <1>2, <2>1 DEF IInv, TypeOK, DriverInv
  <2>3. dpc[g[1]] \notin {"none", "begin"}
    BY <1>2, <2>1 DEF IInv, DriverInv, TreeInv
  <2> QED
    BY <2>2, <2>3 DEF DriverPC
<1> QED
  BY <1>1, <1>2, GoroutineType

\* Wait returns when every driver is done, or every worker of the batch.
LEMMA NoneRunning ==
  ASSUME IInv
  PROVE  /\ driversWG = 0 => \A f \in Drivers : dpc[f] \in {"none", "done"}
         /\ asyncWG = 0 => \A w \in Workers : apc[w] = "none"
         /\ \A f \in Drivers : waitWG[f] = 0 =>
              \A g \in Goroutines : g[1] = f => ipc[g] \in {"none", "done"}
<1>1. IsFiniteSet(Running) /\ IsFiniteSet(Busy)
  BY DriverAssumption, WorkersFinite, FS_Subset DEF Running, Busy
<1>2. driversWG = Cardinality(Running) /\ asyncWG = Cardinality(Busy)
  BY DEF IInv, WaitGroupsExact, Running, Busy
<1>3. driversWG = 0 => Running = {}
  BY <1>1, <1>2, FS_EmptySet
<1>4. asyncWG = 0 => Busy = {}
  BY <1>1, <1>2, FS_EmptySet
<1>5. ASSUME NEW f \in Drivers, waitWG[f] = 0
      PROVE  \A g \in Goroutines : g[1] = f => ipc[g] \in {"none", "done"}
  <2>1. Cardinality(Live(f)) = 0
    BY <1>5 DEF IInv, WaitGroupsExact
  <2>2. Live(f) = {}
    BY <2>1, LiveFinite, FS_EmptySet
  <2> QED
    BY <2>2 DEF Live
<1> QED
  BY <1>3, <1>4, <1>5 DEF Running, Busy

LEMMA PhaseStep ==
  ASSUME IInv, [Next]_vars
  PROVE  PhaseInv'
<1> USE DEF PhaseInv
<1>1. /\ PhaseInv /\ TypeOK
  BY DEF IInv
<1>2. CASE UNCHANGED <<conf, mpc, dpc, apc, queue, outcome, total>>
  BY <1>1, <1>2
<1>3. CASE Main
  <2>1. CASE StartBackgroundProcesses
    BY <1>1, <2>1 DEF StartBackgroundProcesses, driverVars, asyncVars, invVars
  <2>2. CASE StartDrivers
    BY <1>1, <2>2 DEF StartDrivers, asyncVars, invVars, collectorVars
  <2>3. CASE DriversCompleted
    <3>1. \A f \in Drivers : dpc[f] = "done"
      BY <1>1, <2>3, NoneRunning DEF DriversCompleted, AllDriversCompleted
    <3> QED
      BY <1>1, <2>3, <3>1 DEF DriversCompleted, driverVars, asyncVars, invVars, collectorVars
  <2>4. CASE StartBatch
    BY <1>1, <2>4 DEF StartBatch, driverVars, invVars, collectorVars
  <2>5. CASE BatchCompleted
    BY <1>1, <2>5, NoneRunning DEF BatchCompleted, driverVars, asyncVars, invVars, collectorVars
  <2>6. CASE GatherCompleted
    <3>1. queue = <<>>
      BY <2>6 DEF GatherCompleted, IInv, TypeOK
    <3> QED
      BY <1>1, <2>6, <3>1 DEF GatherCompleted, driverVars, asyncVars, invVars, collectorVars
  <2>7. CASE TakeTotal
    BY <1>1, <2>7 DEF TakeTotal, driverVars, asyncVars, invVars
  <2>8. CASE FinishScraper
    BY <1>1, <2>8 DEF FinishScraper, driverVars, asyncVars, invVars, collectorVars
  <2>9. CASE RecordsWritten
    BY <1>1, <2>9 DEF RecordsWritten, driverVars, asyncVars, invVars, collectorVars
  <2> QED
    BY <1>3, <2>1, <2>2, <2>3, <2>4, <2>5, <2>6, <2>7, <2>8, <2>9 DEF Main
<1>4. ASSUME NEW f \in Drivers, DriverStep(f) PROVE PhaseInv'
  <2>1. UNCHANGED <<conf, mpc, apc, queue, outcome, total>>
    BY <1>4, Frames DEF DriverFrame, asyncVars
  <2>2. /\ dpc[f] \notin {"none", "done"} /\ dpc'[f] # "none"
        /\ \A d \in Drivers : d # f => dpc'[d] = dpc[d]
    BY <1>1, <1>4 DEF DriverStep, BeginDriver, FireInvocation, FireTest, TakeFromDriver,
         EndLoop, WaitForInvocations, Report, DriverDone, TypeOK
  <2>3. mpc = "waitDrivers"
    BY <2>2, RunningPhase
  <2> QED
    BY <1>1, <2>1, <2>2, <2>3
<1>5. ASSUME NEW g \in Goroutines, InvocationStep(g) PROVE PhaseInv'
  <2>1. UNCHANGED <<conf, mpc, dpc, apc, total>>
    BY <1>5, Frames DEF InvocationFrame, mainVars
  <2>2. ipc[g] \notin {"none", "done"}
    BY <1>5 DEF InvocationStep, Invoke, EnqueueAsync, TakeFromInvocation, CountInvocation,
         StartBranches, InvocationDone
  <2>3. mpc = "waitDrivers" /\ total = MaxInt64
    BY <1>1, <2>2, RunningPhase
  <2>4. ~conf.async => queue' = queue
    BY <1>1, <1>5 DEF InvocationStep, Invoke, EnqueueAsync, TakeFromInvocation, CountInvocation,
         StartBranches, InvocationDone, asyncVars
  <2>5. ~conf.async => \A h \in Goroutines : outcome'[h] # "async"
    <3>1. CASE Invoke(g)
      BY <1>1, <3>1, OutcomeType DEF Invoke, TypeOK
    <3>2. CASE ~Invoke(g)
      <4>1. outcome' = outcome
        BY <1>5, <3>2 DEF InvocationStep, EnqueueAsync, TakeFromInvocation, CountInvocation,
             StartBranches, InvocationDone
      <4> QED
        BY <1>1, <4>1
    <3> QED
      BY <3>1, <3>2
  <2> QED
    BY <1>1, <2>1, <2>3, <2>4, <2>5
<1>6. ASSUME NEW w \in Workers, WorkerStep(w) PROVE PhaseInv'
  <2>1. UNCHANGED <<conf, mpc, dpc, outcome, total>>
    BY <1>6, Frames DEF WorkerFrame, mainVars, driverVars, invVars
  <2>2. mpc = "waitBatch" /\ \A v \in Workers : v # w => apc'[v] = apc[v]
    BY <1>1, <1>6 DEF WorkerStep, DequeueAsync, TakeFromWorker, WorkerDone, TypeOK
  <2>3. ~conf.async => queue' = queue
    BY <1>1, <1>6 DEF WorkerStep, DequeueAsync, TakeFromWorker, WorkerDone
  <2> QED
    BY <1>1, <2>1, <2>2, <2>3
<1>7. ASSUME Background \/ UNCHANGED vars
      PROVE  UNCHANGED <<conf, mpc, dpc, apc, queue, outcome, total>>
  BY <1>7, Frames DEF BackgroundFrame, driverVars, asyncVars, invVars, collectorVars, mainVars, vars
<1> QED
  BY StepCases, <1>2, <1>3, <1>4, <1>5, <1>6, <1>7

(***************************************************************************)
(* The drivers and the goroutines of their invocations.                     *)
(***************************************************************************)
LEMMA DriverInvStep ==
  ASSUME IInv, [Next]_vars
  PROVE  DriverInv'
<1> USE DEF DriverInv
<1>1. /\ DriverInv /\ TypeOK /\ conf.count \in [Drivers -> 0 .. MaxInvocations]
      /\ dpc \in [Drivers -> DriverPC] /\ iat \in [Drivers -> 0 .. MaxInvocations]
  BY ConfigType DEF IInv, TypeOK
<1>2. CASE UNCHANGED <<conf, dpc, iat, ipc>>
  BY <1>1, <1>2
<1>3. CASE StartDrivers
  <2>1. UNCHANGED <<conf, iat, ipc>> /\ dpc' = [f \in Drivers |-> "begin"]
    BY <1>3 DEF StartDrivers, invVars
  <2>2. \A f \in Drivers : iat[f] = 0
    BY <1>1, <1>3 DEF StartDrivers, IInv, PhaseInv
  <2> QED
    BY <1>1, <2>1, <2>2
<1>4. ASSUME NEW d \in Drivers, BeginDriver(d) PROVE DriverInv'
  <2>1. UNCHANGED <<conf, iat, ipc>> /\ dpc[d] = "begin" /\ iat[d] = 0
        /\ dpc' = [dpc EXCEPT ![d] = IF conf.count[d] = 0 THEN "exit" ELSE "loop"]
    BY <1>1, <1>4 DEF BeginDriver, invVars
  <2>2. \A g \in Goroutines : g[1] = d => ipc[g] = "none"
    BY <1>1, <2>1, GoroutineType DEF IInv, TreeInv
  <2> QED
    BY <1>1, <2>1, <2>2
<1>5. ASSUME NEW d \in Drivers, FireInvocation(d) PROVE DriverInv'
  <2> DEFINE g == <<d, iat[d], conf.root[d]>>
  <2>1. g \in Goroutines /\ g[1] = d
    BY <1>5, FiredIsNew DEF FireInvocation
  <2>2. ipc' = [ipc EXCEPT ![g] = AtNode(conf.root[d], 1)] /\ iat' = [iat EXCEPT ![d] = @ + 1]
        /\ UNCHANGED <<conf, dpc>> /\ dpc[d] = "loop" /\ iat[d] < conf.count[d]
    BY <1>5 DEF FireInvocation
  <2> HIDE DEF g
  <2>3. \A h \in Goroutines : h[1] # d => ipc'[h] = ipc[h]
    BY <1>1, <2>1, <2>2 DEF TypeOK
  <2> QED
    BY <1>1, <2>1, <2>2, <2>3
<1>6. ASSUME NEW d \in Drivers,
             FireTest(d) \/ TakeFromDriver(d) \/ EndLoop(d) \/ Report(d) \/ DriverDone(d)
      PROVE  DriverInv'
  <2>1. UNCHANGED <<conf, ipc>>
    BY <1>6 DEF FireTest, TakeFromDriver, EndLoop, Report, DriverDone, invVars
  <2>2. CASE FireTest(d)
    BY <1>1, <2>1, <2>2 DEF FireTest
  <2>3. CASE TakeFromDriver(d)
    <3>1. /\ dpc[d] = "send" /\ iat[d] < conf.count[d] /\ conf.test
          /\ dpc' = [dpc EXCEPT ![d] = "loop"] /\ iat' = [iat EXCEPT ![d] = @ + 1]
      BY <1>1, <2>3 DEF TakeFromDriver
    <3> QED
      BY <1>1, <2>1, <3>1
  <2>4. CASE EndLoop(d)
    BY <1>1, <2>1, <2>4 DEF EndLoop
  <2>5. CASE Report(d) \/ DriverDone(d)
    BY <1>1, <2>1, <2>5 DEF Report, DriverDone
  <2> QED
    BY <1>6, <2>2, <2>3, <2>4, <2>5
<1>7. ASSUME NEW d \in Drivers, WaitForInvocations(d) PROVE DriverInv'
  <2>1. \A g \in Goroutines : g[1] = d => ipc[g] \in {"none", "done"}
    BY <1>7, NoneRunning DEF WaitForInvocations, InvocationsReturned
  <2> QED
    BY <1>1, <1>7, <2>1 DEF WaitForInvocations, invVars
<1>8. ASSUME NEW g \in Goroutines, InvocationStep(g) PROVE DriverInv'
  <2>1. UNCHANGED <<conf, dpc, iat>>
    BY <1>8, Frames DEF InvocationFrame
  <2>2. ipc[g] \notin {"none", "done"} /\ \A h \in Goroutines : h[1] # g[1] => ipc'[h] = ipc[h]
    <3>1. CASE StartBranches(g)
      <4>1. ipc[g] = "branch"
        BY <3>1 DEF StartBranches
      <4>2. ASSUME NEW h \in Goroutines, h[1] # g[1] PROVE ipc'[h] = ipc[h]
        BY <3>1, <4>1, <4>2, BranchesType DEF StartBranches, Branches
      <4> QED
        BY <4>1, <4>2
    <3>2. CASE ~StartBranches(g)
      BY <1>1, <1>8, <3>2 DEF InvocationStep, Invoke, EnqueueAsync, TakeFromInvocation,
           CountInvocation, InvocationDone, TypeOK
    <3> QED
      BY <3>1, <3>2
  <2>3. g[1] \in Drivers /\ dpc[g[1]] \in {"loop", "send", "wait"}
    BY <2>2, RunningPhase, GoroutineType
  <2> QED
    BY <1>1, <2>1, <2>2, <2>3
<1>9. Main /\ ~StartDrivers => UNCHANGED <<conf, dpc, iat, ipc>>
  BY DEF Main, driverVars, invVars, StartBackgroundProcesses, DriversCompleted, StartBatch,
         BatchCompleted, GatherCompleted, TakeTotal, FinishScraper, RecordsWritten
<1>10. ASSUME (\E w \in Workers : WorkerStep(w)) \/ Background \/ UNCHANGED vars
       PROVE  UNCHANGED <<conf, dpc, iat, ipc>>
  BY <1>10, Frames DEF WorkerFrame, BackgroundFrame, driverVars, invVars, vars
<1> QED
  BY StepCases, <1>2, <1>3, <1>4, <1>5, <1>6, <1>7, <1>8, <1>9, <1>10 DEF DriverStep

LEMMA BeganKept ==
  ASSUME TypeOK, TypeOK', UNCHANGED conf, \A p \in Goroutines : node[p] <= node'[p],
         NEW g \in Goroutines, Began(g)
  PROVE  Began(g)'
<1>1. CASE g[3] = conf.root[g[1]]
  BY <1>1 DEF Began
<1>2. ASSUME NEW p \in Goroutines, NEW k \in DOMAIN conf.nodes[p[3]], Starts(p, k, g)
      PROVE  Began(g)'
  <2>1. p[3] \in Lists /\ conf.nodes[p[3]] \in Seq(SUBSET Lists)
    BY ConfigType, GoroutineType
  <2>2. k \in Nat
    BY <2>1
  <2>3. node[p] \in Nat /\ node'[p] \in Nat
    BY DEF TypeOK
  <2>4. Starts(p, k, g)'
    BY <1>2, <2>2, <2>3 DEF Starts
  <2> QED
    BY <2>4 DEF Began
<1> QED
  BY <1>1, <1>2 DEF Began

LEMMA TreeStep ==
  ASSUME IInv, [Next]_vars
  PROVE  TreeInv'
<1> USE DEF TreeInv
<1>1. /\ TreeInv /\ TypeOK /\ ipc \in [Goroutines -> InvocationPC]
      /\ node \in [Goroutines -> Nat \ {0}] /\ iat \in [Drivers -> 0 .. MaxInvocations]
  BY DEF IInv, TypeOK
<1>2. TypeOK'
  BY TypeStep
<1>3. \A g \in Goroutines : g[1] \in Drivers /\ g[2] \in Nat /\ g[3] \in Lists
  BY GoroutineType
<1>k. ASSUME UNCHANGED <<conf, node>>, NEW g \in Goroutines, Began(g) PROVE Began(g)'
  BY <1>k DEF Began, Starts
<1>4. CASE UNCHANGED <<conf, ipc, node>> /\ \A f \in Drivers : iat[f] <= iat'[f]
  <2>1. ASSUME NEW h \in Goroutines
        PROVE  h[2] < iat[h[1]] => h[2] < iat'[h[1]]
    <3>1. iat[h[1]] \in Nat /\ iat'[h[1]] \in Nat /\ h[2] \in Nat /\ iat[h[1]] <= iat'[h[1]]
      BY <1>1, <1>2, <1>3, <1>4, SMTT(30) DEF TypeOK
    <3> QED
      BY <3>1
  <2> QED
    BY <1>1, <1>4, <1>k, <2>1
<1>5. ASSUME NEW d \in Drivers, FireInvocation(d) PROVE TreeInv'
  <2>a. PICK g \in Goroutines : g = <<d, iat[d], conf.root[d]>> /\ ipc[g] = "none"
    BY <1>5, FiredIsNew DEF FireInvocation
  <2>1. g[1] = d /\ g[2] = iat[d] /\ g[3] = conf.root[d] /\ ipc[g] = "none"
    BY <2>a
  <2>2. /\ ipc' = [ipc EXCEPT ![g] = AtNode(conf.root[d], 1)] /\ iat' = [iat EXCEPT ![d] = @ + 1]
        /\ UNCHANGED <<conf, node>> /\ ~conf.test
    BY <1>5, <2>a DEF FireInvocation
  <2>3. Began(g)'
    BY <2>1, <2>2 DEF Began
  <2>4. node[g] = 1 /\ ipc'[g] = AtNode(g[3], 1) /\ iat'[g[1]] = iat[d] + 1
    BY <1>1, <2>1, <2>2
  <2>5. /\ ipc'[g] # "none" /\ g[2] < iat'[g[1]]
        /\ ipc'[g] \in {"invoke", "send", "count", "branch"} => node'[g] \in DOMAIN conf'.nodes[g[3]]
    BY <1>1, <2>1, <2>2, <2>4 DEF AtNode
  <2>6. ASSUME NEW h \in Goroutines, h # g
        PROVE  ipc'[h] = ipc[h] /\ (h[2] < iat[h[1]] => h[2] < iat'[h[1]])
    BY <1>1, <1>3, <2>2, <2>6
  <2>7. ASSUME NEW h \in Goroutines
        PROVE  /\ ipc'[h] = "none" => node'[h] = 1
               /\ ipc'[h] # "none" => h[2] < iat'[h[1]] /\ ~conf'.test /\ Began(h)'
               /\ ipc'[h] \in {"invoke", "send", "count", "branch"} => node'[h] \in DOMAIN conf'.nodes[h[3]]
    <3>1. CASE h = g
      BY <2>2, <2>3, <2>5, <3>1
    <3>2. CASE h # g
      BY <1>1, <1>k, <2>2, <2>6, <3>2
    <3> QED
      BY <3>1, <3>2
  <2> QED
    BY <2>7
<1>6. ASSUME NEW g \in Goroutines, InvocationStep(g), ~StartBranches(g) PROVE TreeInv'
  <2>1. UNCHANGED <<conf, iat, node>>
    BY <1>6, Frames DEF InvocationFrame, InvocationStep, Invoke, EnqueueAsync, TakeFromInvocation,
         CountInvocation, InvocationDone
  <2>2. /\ ipc[g] # "none" /\ ipc'[g] # "none" /\ (ipc[g] = "exit" => ipc'[g] = "done")
        /\ \A h \in Goroutines : h # g => ipc'[h] = ipc[h]
    BY <1>1, <1>6 DEF InvocationStep, Invoke, EnqueueAsync, TakeFromInvocation,
         CountInvocation, AfterCount, InvocationDone
  <2>3. ipc[g] \in InvocationPC /\ ipc[g] # "done"
    BY <1>1, <1>6 DEF InvocationStep, Invoke, EnqueueAsync, TakeFromInvocation,
         CountInvocation, InvocationDone
  <2> QED
    BY <1>1, <1>k, <2>1, <2>2, <2>3 DEF InvocationPC
<1>7. ASSUME NEW g \in Goroutines, StartBranches(g) PROVE TreeInv'
  <2>1. /\ ipc[g] = "branch" /\ UNCHANGED <<conf, iat>> /\ node' = [node EXCEPT ![g] = @ + 1]
        /\ ipc' = [h \in Goroutines |-> IF h = g THEN AtNode(g[3], node[g] + 1)
                                        ELSE IF h \in Branches(g) THEN AtNode(h[3], 1)
                                        ELSE ipc[h]]
    BY <1>7 DEF StartBranches, Branches
  <2>2. /\ Branches(g) \subseteq Goroutines
        /\ \A h \in Branches(g) : h[1] = g[1] /\ h[2] = g[2] /\ ipc[h] = "none"
                                  /\ h[3] \in conf.nodes[g[3]][node[g]]
    BY <2>1, BranchesType
  <2>3. ASSUME NEW h \in Goroutines, Began(h) PROVE Began(h)'
    BY <1>1, <1>2, <2>1, <2>3, BeganKept
  <2>4. /\ ipc'[g] # "none" /\ Began(g)' /\ g[2] < iat[g[1]] /\ ~conf.test
        /\ ipc'[g] = "invoke" => node'[g] \in DOMAIN conf.nodes[g[3]]
        /\ ipc'[g] \in {"invoke", "exit"}
    BY <1>1, <2>1, <2>3 DEF AtNode
  <2>5. ASSUME NEW h \in Branches(g)
        PROVE  /\ ipc'[h] # "none" /\ Began(h)' /\ h[2] < iat[h[1]]
               /\ ipc'[h] = "invoke" => node'[h] \in DOMAIN conf.nodes[h[3]]
               /\ ipc'[h] \in {"invoke", "exit"}
    <3>1. h # g /\ h \in Goroutines /\ node[h] = 1 /\ node'[h] = 1
      BY <1>1, <2>1, <2>2
    <3>2. ipc'[h] = AtNode(h[3], 1)
      BY <2>1, <3>1
    <3>3. node[g] \in DOMAIN conf.nodes[g[3]] /\ node[g] < node'[g] /\ g[2] < iat[g[1]]
      BY <1>1, <2>1
    <3>4. PICK k \in DOMAIN conf.nodes[g[3]] : k = node[g]
      BY <3>3
    <3>5. Starts(g, k, h)'
      BY <2>1, <2>2, <3>3, <3>4 DEF Starts
    <3>6. Began(h)'
      BY <2>1, <3>5 DEF Began
    <3>7. h[2] < iat[h[1]]
      BY <2>2, <3>3
    <3> QED
      BY <3>1, <3>2, <3>6, <3>7 DEF AtNode
  <2>6. ASSUME NEW h \in Goroutines, h # g, h \notin Branches(g)
        PROVE  ipc'[h] = ipc[h] /\ node'[h] = node[h]
    BY <1>1, <2>1, <2>6
  <2>7. ASSUME NEW h \in Goroutines
        PROVE  /\ ipc'[h] = "none" => node'[h] = 1
               /\ ipc'[h] # "none" => h[2] < iat'[h[1]] /\ ~conf'.test /\ Began(h)'
               /\ ipc'[h] \in {"invoke", "send", "count", "branch"} => node'[h] \in DOMAIN conf'.nodes[h[3]]
    <3>1. CASE h = g
      BY <2>1, <2>4, <3>1
    <3>2. CASE h \in Branches(g)
      BY <2>1, <2>4, <2>5, <3>2
    <3>3. CASE h # g /\ h \notin Branches(g)
      BY <1>1, <2>1, <2>3, <2>6, <3>3
    <3> QED
      BY <3>1, <3>2, <3>3
  <2> QED
    BY <2>7
<1>8. ASSUME NEW d \in Drivers, DriverStep(d), ~FireInvocation(d)
      PROVE  UNCHANGED <<conf, ipc, node>> /\ \A f \in Drivers : iat[f] <= iat'[f]
  <2>1. UNCHANGED <<conf, ipc, node>> /\ (TakeFromDriver(d) \/ UNCHANGED iat)
    BY <1>8 DEF DriverStep, BeginDriver, FireTest, TakeFromDriver, EndLoop, WaitForInvocations,
                Report, DriverDone, invVars
  <2>2. TakeFromDriver(d) => iat' = [iat EXCEPT ![d] = @ + 1]
    BY DEF TakeFromDriver
  <2> QED
    BY <1>1, <2>1, <2>2
<1>9. ASSUME Main \/ (\E w \in Workers : WorkerStep(w)) \/ Background \/ UNCHANGED vars
      PROVE  UNCHANGED <<conf, ipc, node>> /\ \A f \in Drivers : iat[f] <= iat'[f]
  <2>1. UNCHANGED <<conf, ipc, node, iat>>
    BY <1>9, Frames DEF MainFrame, WorkerFrame, BackgroundFrame, driverVars, invVars, vars
  <2> QED
    BY <1>1, <2>1
<1> QED
  BY StepCases, <1>4, <1>5, <1>6, <1>7, <1>8, <1>9

(***************************************************************************)
(* The collector.                                                           *)
(***************************************************************************)
LEMMA RecordOfType ==
  ASSUME TypeOK, NEW g \in Goroutines
  PROVE  RecordOf(g) \in RecordSet
  BY DEF TypeOK, RecordOf, Record, RecordSet

LEMMA TestRecordType ==
  ASSUME IInv, NEW f \in Drivers, dpc[f] = "send"
  PROVE  Record(<<f, iat[f], conf.root[f]>>, 1, TRUE) \in RecordSet
<1>1. iat[f] \in Nat /\ iat[f] < conf.count[f] /\ conf.count[f] \in 0 .. MaxInvocations
      /\ conf.root[f] \in Lists
  BY ConfigType DEF IInv, TypeOK, DriverInv
<1>2. iat[f] \in 0 .. MaxInvocations - 1
  BY <1>1, DriverAssumption
<1>3. <<f, iat[f], conf.root[f]>> \in Goroutines
  BY <1>1, <1>2, GoroutineOf
<1> QED
  BY <1>3 DEF Record, RecordSet

LEMMA CollectorStep ==
  ASSUME IInv, [Next]_vars
  PROVE  CollectorInv'
<1> USE DEF CollectorInv
<1>1. CollectorInv /\ TypeOK /\ TypeOK'
  BY TypeStep DEF IInv
<1>2. CASE UNCHANGED <<mpc, cpc, crec, apc, arec, total, records>>
  BY <1>1, <1>2
<1>3. CASE Main
  <2>1. UNCHANGED <<crec, arec, records>>
    BY <1>3, Frames DEF MainFrame
  <2>2. CASE StartBackgroundProcesses
    BY <1>1, <2>1, <2>2 DEF StartBackgroundProcesses, asyncVars
  <2>3. CASE StartBatch
    BY <1>1, <2>1, <2>3 DEF StartBatch, collectorVars
  <2>4. CASE TakeTotal
    <3>1. total' \in Nat
      BY <1>1, <2>4, CountFields DEF TakeTotal, TypeOK
    <3> QED
      BY <1>1, <2>1, <2>4, <3>1 DEF TakeTotal, asyncVars, MaxInt64
  <2>5. CASE \/ StartDrivers \/ DriversCompleted \/ BatchCompleted \/ GatherCompleted
             \/ FinishScraper \/ RecordsWritten
    <3>1. UNCHANGED <<cpc, apc, total>> /\ mpc # "start" /\ mpc' # "start"
      BY <2>5 DEF StartDrivers, DriversCompleted, BatchCompleted, GatherCompleted, FinishScraper,
                  RecordsWritten, asyncVars, collectorVars
    <3> QED
      BY <1>1, <2>1, <3>1
  <2> QED
    BY <1>3, <2>2, <2>3, <2>4, <2>5 DEF Main
<1>4. ASSUME NEW r \in RecordSet, Take(r), UNCHANGED <<mpc, arec, total, records>>,
             \A w \in Workers : apc'[w] = "send" => apc[w] = "send"
      PROVE  CollectorInv'
  BY <1>1, <1>4 DEF Take
<1>5. ASSUME NEW f \in Drivers, DriverStep(f) PROVE CollectorInv'
  <2>1. UNCHANGED <<mpc, apc, arec, total, records>>
    BY <1>5, Frames DEF DriverFrame, asyncVars
  <2>2. CASE TakeFromDriver(f)
    <3>1. PICK r \in RecordSet : Take(r)
      BY <2>2, TestRecordType DEF TakeFromDriver
    <3> QED
      BY <1>4, <2>1, <3>1
  <2>3. CASE ~TakeFromDriver(f)
    <3>1. UNCHANGED <<cpc, crec>>
      BY <1>5, <2>3 DEF DriverStep, BeginDriver, FireInvocation, FireTest, EndLoop,
           WaitForInvocations, Report, DriverDone, collectorVars
    <3> QED
      BY <1>2, <2>1, <3>1
  <2> QED
    BY <2>2, <2>3
<1>6. ASSUME NEW g \in Goroutines, InvocationStep(g) PROVE CollectorInv'
  <2>1. UNCHANGED <<mpc, apc, arec, total, records>>
    BY <1>6, Frames DEF InvocationFrame, mainVars
  <2>2. CASE TakeFromInvocation(g)
    <3>1. PICK r \in RecordSet : Take(r)
      BY <1>1, <2>2, RecordOfType DEF TakeFromInvocation
    <3> QED
      BY <1>4, <2>1, <3>1
  <2>3. CASE ~TakeFromInvocation(g)
    <3>1. UNCHANGED <<cpc, crec>>
      BY <1>6, <2>3 DEF InvocationStep, Invoke, EnqueueAsync, CountInvocation, StartBranches,
           InvocationDone, collectorVars
    <3> QED
      BY <1>2, <2>1, <3>1
  <2> QED
    BY <2>2, <2>3
<1>7. ASSUME NEW w \in Workers, WorkerStep(w) PROVE CollectorInv'
  <2>1. UNCHANGED <<mpc, total, records>>
    BY <1>7, Frames DEF WorkerFrame, mainVars
  <2>2. CASE TakeFromWorker(w)
    <3>1. PICK r \in RecordSet : Take(r)
      BY <1>1, <2>2 DEF TakeFromWorker
    <3>2. \A v \in Workers : apc'[v] = "send" => apc[v] = "send"
      BY <1>1, <2>2 DEF TakeFromWorker, TypeOK
    <3> QED
      BY <1>4, <2>1, <2>2, <3>1, <3>2 DEF TakeFromWorker
  <2>3. CASE DequeueAsync(w)
    <3>1. Head(queue) \in RecordSet
      BY <1>1, <2>3 DEF DequeueAsync, TypeOK
    <3>2. \A v \in Workers : apc'[v] = "send" => arec'[v] \in RecordSet
      BY <1>1, <2>3, <3>1 DEF DequeueAsync, TypeOK
    <3> QED
      BY <1>1, <2>1, <2>3, <3>2 DEF DequeueAsync, collectorVars
  <2>4. CASE WorkerDone(w)
    BY <1>1, <2>1, <2>4 DEF WorkerDone, collectorVars, TypeOK
  <2> QED
    BY <1>7, <2>2, <2>3, <2>4 DEF WorkerStep
<1>8. CASE Background
  <2>1. UNCHANGED <<mpc, apc, arec, total>>
    BY <1>8, Frames DEF BackgroundFrame, asyncVars
  <2>2. CASE CollectorReady
    BY <1>1, <2>1, <2>2 DEF CollectorReady
  <2>3. CASE PushRecord
    BY <1>1, <2>1, <2>3 DEF PushRecord
  <2>4. CASE CheckComplete
    <3>1. written = total => total # MaxInt64
      BY <1>1 DEF TypeOK, MaxInt64
    <3> QED
      BY <1>1, <2>1, <2>4, <3>1 DEF CheckComplete
  <2>5. CASE CollectorDone
    BY <1>1, <2>1, <2>5 DEF CollectorDone, WriterDone
  <2>6. CASE WriteRecord
    BY <1>1, <2>1, <2>6 DEF WriteRecord
  <2>7. CASE TimekeeperReady \/ Scraper \/ Scrape \/ \E ch \in Channels : WriteRow(ch)
    <3>1. UNCHANGED <<cpc, crec, records>>
      BY <2>7 DEF TimekeeperReady, Scraper, ScraperReady, SendScaleRow, SendKnStats, ScraperFinish,
           ScraperDone, Scrape, WriteRow, collectorVars
    <3> QED
      BY <1>2, <2>1, <3>1
  <2> QED
    BY <1>8, <2>2, <2>3, <2>4, <2>5, <2>6, <2>7 DEF Background, Collector
<1>9. CASE UNCHANGED vars
  BY <1>2, <1>9 DEF vars, mainVars, asyncVars, collectorVars
<1> QED
  BY StepCases, <1>3, <1>5, <1>6, <1>7, <1>8, <1>9

(***************************************************************************)
(* The scraper and allRecordsWritten.                                       *)
(***************************************************************************)
\* What the others leave alone of the scraper, the collector's end and the totals.
LEMMA OtherFrames ==
  /\ Main /\ ~StartBackgroundProcesses => UNCHANGED <<spc, recordsWG>>
  /\ Main => mpc' # "start" /\ (mpc = "start" => StartBackgroundProcesses)
  /\ \A f \in Drivers : DriverStep(f) => cpc' = cpc \/ (cpc = "select" /\ cpc' = "push")
  /\ \A g \in Goroutines : InvocationStep(g) => cpc' = cpc \/ (cpc = "select" /\ cpc' = "push")
  /\ \A w \in Workers : WorkerStep(w) => cpc' = cpc \/ (cpc = "select" /\ cpc' = "push")
<1> USE DEF mainVars, driverVars, invVars, asyncVars, collectorVars, scraperVars
<1>1. Main /\ ~StartBackgroundProcesses => UNCHANGED <<spc, recordsWG>>
  BY DEF Main, StartDrivers, DriversCompleted, StartBatch,
         BatchCompleted, GatherCompleted, TakeTotal, FinishScraper, RecordsWritten
<1>2. Main => mpc' # "start" /\ (mpc = "start" => StartBackgroundProcesses)
  BY DEF Main, StartBackgroundProcesses, StartDrivers, DriversCompleted, StartBatch,
         BatchCompleted, GatherCompleted, TakeTotal, FinishScraper, RecordsWritten
<1>3. ASSUME NEW f \in Drivers, DriverStep(f)
      PROVE  cpc' = cpc \/ (cpc = "select" /\ cpc' = "push")
  BY <1>3 DEF DriverStep, BeginDriver, FireInvocation, FireTest, TakeFromDriver, Take, EndLoop,
         WaitForInvocations, Report, DriverDone
<1>4. ASSUME NEW g \in Goroutines, InvocationStep(g)
      PROVE  cpc' = cpc \/ (cpc = "select" /\ cpc' = "push")
  BY <1>4 DEF InvocationStep, Invoke, EnqueueAsync, TakeFromInvocation, Take,
         CountInvocation, StartBranches, InvocationDone
<1>5. ASSUME NEW w \in Workers, WorkerStep(w)
      PROVE  cpc' = cpc \/ (cpc = "select" /\ cpc' = "push")
  BY <1>5 DEF WorkerStep, DequeueAsync, TakeFromWorker, Take, WorkerDone
<1> QED
  BY <1>1, <1>2, <1>3, <1>4, <1>5

LEMMA ScraperStep ==
  ASSUME IInv, [Next]_vars
  PROVE  ScraperInv'
<1> USE DEF ScraperInv
<1>1. ScraperInv /\ TypeOK
  BY DEF IInv
<1>2. CASE UNCHANGED <<conf, spc, sbuf, sfile, sent>> /\ (mpc' = mpc \/ (mpc # "start" /\ mpc' # "start"))
  BY <1>1, <1>2
<1>3. CASE StartBackgroundProcesses
  BY <1>1, <1>3, ConfigType DEF StartBackgroundProcesses
<1>4. CASE Main /\ ~StartBackgroundProcesses
  BY <1>2, <1>4, Frames, OtherFrames DEF MainFrame
<1>5. CASE \/ \E f \in Drivers : DriverStep(f)
           \/ \E g \in Goroutines : InvocationStep(g)
           \/ \E w \in Workers : WorkerStep(w)
           \/ UNCHANGED vars
  BY <1>2, <1>5, Frames DEF DriverFrame, InvocationFrame, WorkerFrame, vars, mainVars, scraperVars
<1>6. CASE Collector \/ WriteRecord \/ TimekeeperReady
  <2>1. UNCHANGED <<conf, mpc, spc, sbuf, sfile, sent>>
    BY <1>6 DEF Collector, CollectorReady, PushRecord, CheckComplete, CollectorDone, WriteRecord,
                TimekeeperReady, scraperVars, mainVars
  <2> QED
    BY <1>2, <2>1
<1>7. ASSUME NEW ch \in Channels, SendRow(ch), UNCHANGED <<conf, mpc, sfile>>,
             spc = "scale", spc' \in {"scale", "select"}
      PROVE  ScraperInv'
  BY <1>1, <1>7 DEF SendRow, TypeOK
<1>8. CASE Scraper
  <2>1. UNCHANGED <<conf, mpc>>
    BY <1>8, Frames DEF Background, BackgroundFrame
  <2>2. CASE ScraperReady \/ ScraperFinish
    BY <1>1, <2>1, <2>2 DEF ScraperReady, ScraperFinish
  <2>3. CASE SendScaleRow
    BY <1>7, <2>1, <2>3 DEF SendScaleRow, Channels
  <2>4. CASE SendKnStats
    BY <1>7, <2>1, <2>4 DEF SendKnStats, Channels
  <2>5. CASE ScraperDone
    BY <1>1, <2>1, <2>5 DEF ScraperDone, RowWritersDone
  <2> QED
    BY <1>8, <2>2, <2>3, <2>4, <2>5 DEF Scraper
<1>9. CASE Scrape
  BY <1>1, <1>9 DEF Scrape, mainVars
<1>10. ASSUME NEW ch \in Channels, WriteRow(ch) PROVE ScraperInv'
  <2>1. /\ sbuf[ch] > 0 /\ UNCHANGED <<conf, mpc, spc, sent>>
        /\ sbuf' = [sbuf EXCEPT ![ch] = @ - 1] /\ sfile' = [sfile EXCEPT ![ch] = @ + 1]
    BY <1>10 DEF WriteRow, mainVars
  <2>2. sbuf \in [Channels -> Nat] /\ sfile \in [Channels -> Nat] /\ sent \in [Channels -> Nat]
    BY <1>1 DEF TypeOK
  <2>3. spc # "done"
    BY <1>1, <2>1
  <2> QED
    BY <1>1, <2>1, <2>2, <2>3
<1> QED
  BY StepCases, <1>3, <1>4, <1>5, <1>6, <1>8, <1>9, <1>10 DEF Background

LEMMA RecordsStep ==
  ASSUME IInv, [Next]_vars
  PROVE  RecordsInv'
<1> USE DEF RecordsInv
<1>1. RecordsInv /\ TypeOK /\ CollectorInv /\ ScraperInv /\ conf.scrape \in BOOLEAN
  BY ConfigType DEF IInv
<1>2. CASE /\ UNCHANGED <<conf, mpc, totals, recordsWG>>
           /\ (cpc' = "done" <=> cpc = "done") /\ (spc' = "done" <=> spc = "done")
  BY <1>1, <1>2
<1>3. CASE Main
  <2>1. UNCHANGED <<conf, totals>> /\ (cpc' = "done" <=> cpc = "done")
    BY <1>1, <1>3, Frames DEF MainFrame, Main, StartBackgroundProcesses, StartDrivers,
         DriversCompleted, StartBatch, BatchCompleted, GatherCompleted, TakeTotal, FinishScraper,
         RecordsWritten, collectorVars, CollectorInv
  <2>2. CASE StartBackgroundProcesses
    <3>1. recordsWG' = IF conf.scrape THEN 2 ELSE 1
      BY <2>2 DEF StartBackgroundProcesses
    <3>2. cpc' # "done" /\ spc' # "done" /\ mpc' = "barrier"
      BY <2>2 DEF StartBackgroundProcesses
    <3> QED
      BY <1>1, <2>1, <3>1, <3>2
  <2>3. CASE ~StartBackgroundProcesses
    <3>1. UNCHANGED <<spc, recordsWG>> /\ mpc # "start" /\ mpc' # "start"
      BY <1>3, <2>3, OtherFrames
    <3>2. mpc' = "done" /\ totals.ok + totals.failed # 0 => mpc = "done" \/ recordsWG = 0
      BY <1>1, <1>3, <2>3 DEF Main, StartDrivers, DriversCompleted,
         StartBatch, BatchCompleted, GatherCompleted, TakeTotal, FinishScraper, RecordsWritten
    <3> QED
      BY <1>1, <2>1, <3>1, <3>2
  <2> QED
    BY <2>2, <2>3
<1>4. CASE \E f \in Drivers : DriverStep(f)
  <2>1. PICK f \in Drivers : DriverStep(f)
    BY <1>4
  <2>2. dpc[f] \notin {"none", "done"}
    BY <2>1 DEF DriverStep, BeginDriver, FireInvocation, FireTest, TakeFromDriver,
         EndLoop, WaitForInvocations, Report, DriverDone
  <2>3. mpc = "waitDrivers"
    BY <2>2, RunningPhase
  <2>4. UNCHANGED <<conf, mpc, recordsWG, spc>> /\ (cpc' = "done" <=> cpc = "done")
    BY <2>1, Frames, OtherFrames DEF DriverFrame, scraperVars
  <2> QED
    BY <1>1, <2>3, <2>4
<1>5. CASE \/ \E g \in Goroutines : InvocationStep(g)
           \/ \E w \in Workers : WorkerStep(w)
  <2>1. UNCHANGED <<conf, mpc, totals, recordsWG, spc>> /\ (cpc' = "done" <=> cpc = "done")
    BY <1>5, Frames, OtherFrames DEF InvocationFrame, WorkerFrame, mainVars, scraperVars
  <2> QED
    BY <1>2, <2>1
<1>6. CASE UNCHANGED vars
  BY <1>2, <1>6 DEF vars, mainVars, collectorVars, scraperVars
<1>7. CASE CollectorDone
  <2>1. /\ cpc = "closed" /\ cpc' = "done" /\ recordsWG' = recordsWG - 1
        /\ UNCHANGED <<conf, mpc, totals, spc>>
    BY <1>7 DEF CollectorDone, scraperVars
  <2>2. mpc # "start"
    BY <1>1, <2>1 DEF CollectorInv
  <2> QED
    BY <1>1, <2>1, <2>2
<1>8. CASE ScraperDone
  <2>1. /\ spc = "closed" /\ spc' = "done" /\ recordsWG' = recordsWG - 1
        /\ UNCHANGED <<conf, mpc, totals, cpc>>
    BY <1>8 DEF ScraperDone, collectorVars
  <2>2. conf.scrape /\ mpc # "start"
    BY <1>1, <2>1 DEF ScraperInv
  <2> QED
    BY <1>1, <2>1, <2>2
<1>9. CASE Background /\ ~CollectorDone /\ ~ScraperDone
  <2>1. UNCHANGED <<conf, mpc, totals>>
    BY <1>9, Frames DEF BackgroundFrame
  <2>2. UNCHANGED recordsWG /\ (cpc' = "done" <=> cpc = "done") /\ (spc' = "done" <=> spc = "done")
    BY <1>9 DEF Background, Collector, CollectorReady, PushRecord, CheckComplete, WriteRecord,
         TimekeeperReady, Scraper, ScraperReady, SendScaleRow, SendKnStats, ScraperFinish, Scrape,
         WriteRow, mainVars, collectorVars, scraperVars
  <2> QED
    BY <1>2, <2>1, <2>2
<1> QED
  BY StepCases, <1>3, <1>4, <1>5, <1>6, <1>7, <1>8, <1>9

(***************************************************************************)
(* The counters.                                                            *)
(***************************************************************************)
\* Only a record that the collector took from the driver itself, or that the
\* goroutine of an invocation has passed on, is counted; only Report adds to the totals.
LEMMA CountFrames ==
  ASSUME [Next]_vars
  PROVE  /\ \/ UNCHANGED counts
            \/ \E f \in Drivers : TakeFromDriver(f)
            \/ \E g \in Goroutines : CountInvocation(g)
         /\ UNCHANGED totals \/ \E f \in Drivers : Report(f)
<1>1. ASSUME NEW f \in Drivers, DriverStep(f)
      PROVE  (UNCHANGED counts \/ TakeFromDriver(f)) /\ (UNCHANGED totals \/ Report(f))
  BY <1>1 DEF DriverStep, BeginDriver, FireInvocation, FireTest, TakeFromDriver, EndLoop,
         WaitForInvocations, Report, DriverDone, mainVars
<1>2. ASSUME NEW g \in Goroutines, InvocationStep(g)
      PROVE  (UNCHANGED counts \/ CountInvocation(g)) /\ UNCHANGED totals
  BY <1>2 DEF InvocationStep, Invoke, EnqueueAsync, TakeFromInvocation, CountInvocation,
         StartBranches, InvocationDone, driverVars, mainVars
<1>3. ASSUME Main \/ (\E w \in Workers : WorkerStep(w)) \/ Background \/ UNCHANGED vars
      PROVE  UNCHANGED <<counts, totals>>
  BY <1>3, Frames DEF MainFrame, WorkerFrame, BackgroundFrame, driverVars, mainVars, vars
<1> QED
  BY StepCases, <1>1, <1>2, <1>3

LEMMA TotalsStep ==
  ASSUME IInv, [Next]_vars
  PROVE  TotalsInv'
<1> USE DEF TotalsInv
<1>1. /\ TotalsInv /\ counts \in [Drivers -> CountSet] /\ totals \in CountSet
      /\ counts' \in [Drivers -> CountSet] /\ totals' \in CountSet
  BY TypeStep DEF IInv, TypeOK
<1>2. ASSUME NEW f \in Drivers PROVE counts'[f].issued = counts'[f].ok + counts'[f].failed
  <2>1. counts[f] \in CountSet /\ counts[f].issued = counts[f].ok + counts[f].failed
    BY <1>1
  <2>2. CASE counts'[f] = counts[f]
    BY <2>1, <2>2
  <2>3. ASSUME NEW d \in Drivers, TakeFromDriver(d), counts'[f] # counts[f]
        PROVE  counts'[f].issued = counts'[f].ok + counts'[f].failed
    <3>1. counts'[f] = [ok |-> counts[f].ok + 1, failed |-> counts[f].failed,
                        issued |-> counts[f].issued + 1]
      BY <1>1, <2>3 DEF TakeFromDriver
    <3> QED
      BY <2>1, <3>1, CountFields
  <2>4. ASSUME NEW g \in Goroutines, CountInvocation(g), counts'[f] # counts[f]
        PROVE  counts'[f].issued = counts'[f].ok + counts'[f].failed
    <3>0. g[1] = f
      BY <1>1, <2>4, GoroutineType DEF CountInvocation
    <3> DEFINE ok == outcome[g] # "fail"
    <3>1. counts'[f] = [ok     |-> IF ok THEN counts[f].ok + 1 ELSE counts[f].ok,
                        failed |-> IF ok THEN counts[f].failed ELSE counts[f].failed + 1,
                        issued |-> counts[f].issued + 1]
      BY <1>1, <2>4, <3>0 DEF CountInvocation
    <3> QED
      BY <2>1, <3>1, CountFields
  <2> QED
    BY <2>2, <2>3, <2>4, CountFrames
<1>3. totals'.issued = totals'.ok + totals'.failed
  <2>1. ASSUME NEW f \in Drivers, Report(f) PROVE totals'.issued = totals'.ok + totals'.failed
    <3>1. counts[f] \in CountSet /\ counts[f].issued = counts[f].ok + counts[f].failed
      BY <1>1
    <3>2. totals' = [ok     |-> totals.ok + counts[f].ok,
                     failed |-> totals.failed + counts[f].failed,
                     issued |-> totals.issued + counts[f].issued]
      BY <2>1 DEF Report
    <3> QED
      BY <1>1, <3>1, <3>2, CountFields
  <2> QED
    BY <1>1, <2>1, CountFrames
<1> QED
  BY <1>2, <1>3

(***************************************************************************)
(* The theorems.                                                            *)
(***************************************************************************)
LEMMA InitInv == ASSUME Init PROVE IInv
<1>1. TypeOK
  BY TypeInit
<1>2. WaitGroupsExact
  <2>1. \A f \in Drivers : Live(f) = {}
    BY DEF Init, Live
  <2>2. {f \in Drivers : dpc[f] \notin {"none", "done"}} = {} /\ {w \in Workers : apc[w] # "none"} = {}
    BY DEF Init
  <2>3. driversWG = 0 /\ asyncWG = 0 /\ \A f \in Drivers : waitWG[f] = 0
    BY DEF Init
  <2> QED
    BY <2>1, <2>2, <2>3, FS_EmptySet DEF WaitGroupsExact
<1>3. DrainFits
  <2>1. {w \in Workers : apc[w] = "dequeue"} = {} /\ Len(queue) = 0
    BY DEF Init
  <2> QED
    BY <2>1, FS_EmptySet DEF DrainFits
<1>4. PhaseInv
  BY DEF Init, PhaseInv
<1>5. DriverInv
  BY <1>1, ConfigType DEF Init, DriverInv
<1>6. TreeInv
  BY DEF Init, TreeInv
<1>7. CollectorInv
  BY DEF Init, CollectorInv
<1>8. ScraperInv
  BY DEF Init, ScraperInv
<1>9. RecordsInv
  BY DEF Init, RecordsInv
<1>10. TotalsInv
  BY DEF Init, TotalsInv, Zero
<1> QED
  BY <1>1, <1>2, <1>3, <1>4, <1>5, <1>6, <1>7, <1>8, <1>9, <1>10 DEF IInv

LEMMA StepInv == ASSUME IInv, [Next]_vars PROVE IInv'
<1>1. WaitGroupsExact'
  BY WaitWGStep, DriversWGStep, AsyncWGStep DEF WaitGroupsExact, Running, Busy
<1> QED
  BY <1>1, TypeStep, DrainStep, PhaseStep, DriverInvStep, TreeStep, CollectorStep, ScraperStep,
     RecordsStep, TotalsStep DEF IInv

\* The inductive invariant holds in every state of a run.
THEOREM Invariance == Spec => []IInv
<1>1. Init => IInv
  BY InitInv
<1>2. IInv /\ [Next]_vars => IInv'
  BY StepInv
<1> QED
  BY <1>1, <1>2, PTL DEF Spec

\* The types: in particular a goroutine is retried at most once per node, and what is
\* queued, held by a worker and written are records of goroutines of this run.
THEOREM TypeCorrect == Spec => []TypeOK
<1>1. IInv => TypeOK
  BY DEF IInv
<1> QED
  BY <1>1, Invariance, PTL

\* Every WaitGroup of internalRun and functionsDriver counts exactly the goroutines it
\* stands for, for any number of drivers and any DAG: Add always comes before go, and
\* Done exactly once per goroutine.
THEOREM WaitGroupsCorrect == Spec => []WaitGroupsExact
<1>1. IInv => WaitGroupsExact
  BY DEF IInv
<1> QED
  BY <1>1, Invariance, PTL

\* No worker of writeAsyncRecordsToLog meets an empty queue, which would be fatal,
\* whatever the batch size.
THEOREM DrainNeverFatal == Spec => []DrainFits
<1>1. IInv => DrainFits
  BY DEF IInv
<1> QED
  BY <1>1, Invariance, PTL

\* The counters of functionsDriver do not change once it has passed
\* waitForInvocations.Wait(): what it adds to the totals is complete.
THEOREM CountersAreFinal == Spec => CountersFinal
<1> DEFINE Kept == \A f \in Drivers : dpc[f] \in {"report", "exit", "done"} => counts'[f] = counts[f]
<1>1. ASSUME IInv, [Next]_vars PROVE Kept
  <2>0. counts \in [Drivers -> CountSet]
    BY <1>1 DEF IInv, TypeOK
  <2>1. ASSUME NEW d \in Drivers, TakeFromDriver(d) PROVE Kept
    <3>1. dpc[d] = "send" /\ \A f \in Drivers : f # d => counts'[f] = counts[f]
      BY <2>0, <2>1 DEF TakeFromDriver
    <3> QED
      BY <3>1
  <2>2. ASSUME NEW g \in Goroutines, CountInvocation(g) PROVE Kept
    <3>1. ipc[g] = "count" /\ \A f \in Drivers : f # g[1] => counts'[f] = counts[f]
      BY <2>0, <2>2 DEF CountInvocation
    <3>2. dpc[g[1]] \in {"loop", "send", "wait"}
      BY <1>1, <3>1, RunningPhase
    <3> QED
      BY <3>1, <3>2
  <2> QED
    BY <1>1, <2>1, <2>2, CountFrames
<1>2. IInv /\ [Next]_vars => [Kept]_vars
  BY <1>1
<1> QED
  BY <1>2, Invariance, PTL DEF Spec, CountersFinal

\* CreateGlobalMetricsCollector stops receiving only when every driver, goroutine and
\* worker is done and no record is on its way: nobody blocks for ever on its channel.
THEOREM CollectorStopsAfterAll == Spec => []CollectorStopsLast
<1>1. ASSUME IInv PROVE CollectorStopsLast
  <2>1. SUFFICES ASSUME cpc \in {"closed", "done"}
                 PROVE  /\ \A f \in Drivers : dpc[f] = "done"
                        /\ \A g \in Goroutines : ipc[g] \in {"none", "done"}
                        /\ \A w \in Workers : apc[w] = "none"
                        /\ queue = <<>> /\ crec = NoRecord
    BY DEF CollectorStopsLast
  <2>2. mpc \in {"finish", "waitRecords", "done"} /\ queue = <<>> /\ crec = NoRecord
    BY <1>1, <2>1 DEF IInv, CollectorInv, PhaseInv
  <2>3. \A f \in Drivers : dpc[f] = "done"
    BY <1>1, <2>2 DEF IInv, PhaseInv
  <2>4. \A g \in Goroutines : ipc[g] \in {"none", "done"}
    BY <1>1, <2>2, RunningPhase
  <2>5. \A w \in Workers : apc[w] = "none"
    BY <1>1, <2>2 DEF IInv, PhaseInv
  <2> QED
    BY <2>2, <2>3, <2>4, <2>5
<1> QED
  BY <1>1, Invariance, PTL

\* If anything was invoked, internalRun returns only when every row the scraper sent
\* to its two writers is in their files.
THEOREM ScraperRowsWritten == Spec => []ScraperFlushed
<1>1. ASSUME IInv PROVE ScraperFlushed
  <2>1. SUFFICES ASSUME mpc = "done", conf.scrape, totals.issued # 0 PROVE sfile = sent
    BY DEF ScraperFlushed
  <2>2. totals.ok + totals.failed # 0
    BY <1>1, <2>1 DEF IInv, TotalsInv
  <2>3. spc = "done"
    BY <1>1, <2>1, <2>2 DEF IInv, RecordsInv
  <2>4. sfile \in [Channels -> Nat] /\ sent \in [Channels -> Nat] /\ sbuf \in [Channels -> Nat]
    BY <1>1 DEF IInv, TypeOK
  <2>5. \A ch \in Channels : sbuf[ch] = 0 /\ sent[ch] = sbuf[ch] + sfile[ch]
    BY <1>1, <2>3 DEF IInv, ScraperInv
  <2>6. \A ch \in Channels : sent[ch] = sfile[ch]
    BY <2>4, <2>5
  <2> QED
    BY <2>4, <2>6
<1> QED
  BY <1>1, Invariance, PTL


-----------------------------------------------------------------------------
(***************************************************************************)
(* No record is lost: what the goroutines pass on is, at every moment,      *)
(* exactly what is in AsyncRecords, with a worker, with the collector, in   *)
(* the channel to the CSV writer or in the CSV; and the counters count it.  *)
(***************************************************************************)

(***************************************************************************)
(* The records that have been counted: in test mode one for every IAT the   *)
(* driver has passed; else those of the nodes a goroutine has passed, of    *)
(* the node whose branches it is about to start, and of the node at which   *)
(* it gave up.                                                              *)
(***************************************************************************)
CountedAt(g, k, ok) ==
  IF conf.test
  THEN k = 1 /\ ok /\ g[3] = conf.root[g[1]] /\ g[2] < iat[g[1]]
  ELSE \/ ok /\ k < node[g]
       \/ ok /\ k = node[g] /\ ipc[g] = "branch"
       \/ ~ok /\ k = node[g] /\ ipc[g] \in {"exit", "done"} /\ k \in DOMAIN conf.nodes[g[3]]

Counted == {r \in RecordSet : CountedAt(r.inv, r.node, r.ok)}

\* Those that were passed on and not counted yet.
Uncounted == {r \in RecordSet : ipc[r.inv] = "count" /\ r = RecordOf(r.inv)}

\* Where a record is that was passed on.
Elements(s) == {s[i] : i \in DOMAIN s}
Held == {arec[w] : w \in {v \in Workers : apc[v] = "send"}}
Pushed == IF cpc = "push" THEN {crec} ELSE {}
OnTheWay == Elements(queue) \cup Held \cup Pushed \cup Elements(records)

OkRows(f) == {r \in Counted : r.inv[1] = f /\ r.ok}
FailedRows(f) == {r \in Counted : r.inv[1] = f /\ ~r.ok}
OkReported == {r \in Counted : dpc[r.inv[1]] \in {"exit", "done"} /\ r.ok}
FailedReported == {r \in Counted : dpc[r.inv[1]] \in {"exit", "done"} /\ ~r.ok}

\* A record that was passed on is on its way or in the CSV, and nothing else is.
WhereInv == Counted \cup Uncounted = OnTheWay \cup file

CountsInv ==
  \A f \in Drivers :
    /\ IsFiniteSet(OkRows(f)) /\ counts[f].ok = Cardinality(OkRows(f))
    /\ IsFiniteSet(FailedRows(f)) /\ counts[f].failed = Cardinality(FailedRows(f))

ReportedInv ==
  /\ IsFiniteSet(OkReported) /\ totals.ok = Cardinality(OkReported)
  /\ IsFiniteSet(FailedReported) /\ totals.failed = Cardinality(FailedReported)

\* What was fired and what was branched to has started.
StartedInv ==
  /\ ~conf.test => \A f \in Drivers : \A i \in 0 .. iat[f] - 1 : ipc[<<f, i, conf.root[f]>>] # "none"
  /\ \A g \in Goroutines :
       /\ node[g] <= Len(conf.nodes[g[3]]) + 1
       /\ \A k \in DOMAIN conf.nodes[g[3]] : k < node[g] =>
            \A b \in conf.nodes[g[3]][k] : ipc[<<g[1], g[2], b>>] # "none"

RInv == IInv /\ StartedInv /\ WhereInv /\ CountsInv /\ ReportedInv

LEMMA ElementsAppend ==
  ASSUME NEW S, NEW s \in Seq(S), NEW x \in S
  PROVE  Elements(Append(s, x)) = Elements(s) \cup {x}
<1>1. ASSUME NEW y \in Elements(Append(s, x)) PROVE y \in Elements(s) \cup {x}
  <2>1. PICK i \in DOMAIN Append(s, x) : y = Append(s, x)[i]
    BY <1>1 DEF Elements
  <2>2. CASE i = Len(s) + 1
    BY <2>1, <2>2
  <2>3. CASE i # Len(s) + 1
    BY <2>1, <2>3 DEF Elements
  <2> QED
    BY <2>2, <2>3
<1>2. x \in Elements(Append(s, x))
  <2>1. Len(s) + 1 \in DOMAIN Append(s, x) /\ Append(s, x)[Len(s) + 1] = x
    OBVIOUS
  <2> QED
    BY <2>1 DEF Elements
<1>3. ASSUME NEW y \in Elements(s) PROVE y \in Elements(Append(s, x))
  <2>1. PICK i \in DOMAIN s : y = s[i]
    BY <1>3 DEF Elements
  <2>2. i \in DOMAIN Append(s, x) /\ Append(s, x)[i] = y
    BY <2>1
  <2> QED
    BY <2>2 DEF Elements
<1> QED
  BY <1>1, <1>2, <1>3

LEMMA ElementsTail ==
  ASSUME NEW S, NEW s \in Seq(S), s # <<>>
  PROVE  Elements(s) = {Head(s)} \cup Elements(Tail(s))
<1>1. ASSUME NEW y \in Elements(s) PROVE y \in {Head(s)} \cup Elements(Tail(s))
  <2>1. PICK i \in DOMAIN s : y = s[i]
    BY <1>1 DEF Elements
  <2>2. CASE i = 1
    BY <2>1, <2>2
  <2>3. CASE i # 1
    <3>1. i - 1 \in DOMAIN Tail(s) /\ Tail(s)[i - 1] = y
      BY <2>1, <2>3
    <3> QED
      BY <3>1 DEF Elements
  <2> QED
    BY <2>2, <2>3
<1>2. Head(s) \in Elements(s)
  <2>1. 1 \in DOMAIN s /\ Head(s) = s[1]
    OBVIOUS
  <2> QED
    BY <2>1 DEF Elements
<1>3. ASSUME NEW y \in Elements(Tail(s)) PROVE y \in Elements(s)
  <2>1. PICK i \in DOMAIN Tail(s) : y = Tail(s)[i]
    BY <1>3 DEF Elements
  <2>2. i + 1 \in DOMAIN s /\ s[i + 1] = y
    BY <2>1
  <2> QED
    BY <2>2 DEF Elements
<1> QED
  BY <1>1, <1>2, <1>3

LEMMA ElementsEmpty == Elements(<<>>) = {}
  BY DEF Elements

(***************************************************************************)
(* Goroutines that were to start have started, and stay so.                 *)
(***************************************************************************)
LEMMA AtNodeType ==
  ASSUME NEW l, NEW k
  PROVE  /\ AtNode(l, k) \in {"invoke", "exit"}
         /\ AtNode(l, k) = "exit" => k \notin DOMAIN conf.nodes[l]
  BY DEF AtNode

\* What StartBranches does to every goroutine.
LEMMA BranchEffect ==
  ASSUME IInv, NEW g \in Goroutines, StartBranches(g)
  PROVE  /\ ipc[g] = "branch" /\ node[g] \in DOMAIN conf.nodes[g[3]]
         /\ node' = [node EXCEPT ![g] = @ + 1]
         /\ ipc'[g] = AtNode(g[3], node[g] + 1)
         /\ \A h \in Branches(g) : /\ h \in Goroutines /\ h # g /\ ipc[h] = "none" /\ node[h] = 1
                                   /\ ipc'[h] = AtNode(h[3], 1)
         /\ \A h \in Goroutines : h # g /\ h \notin Branches(g) => ipc'[h] = ipc[h]
<1>1. /\ ipc[g] = "branch" /\ node' = [node EXCEPT ![g] = @ + 1]
      /\ ipc' = [h \in Goroutines |-> IF h = g THEN AtNode(g[3], node[g] + 1)
                                      ELSE IF h \in Branches(g) THEN AtNode(h[3], 1)
                                      ELSE ipc[h]]
  BY DEF StartBranches, Branches
<1>2. node[g] \in DOMAIN conf.nodes[g[3]]
  BY <1>1 DEF IInv, TreeInv
<1>3. ASSUME NEW h \in Branches(g)
      PROVE  /\ h \in Goroutines /\ h # g /\ ipc[h] = "none" /\ node[h] = 1
             /\ ipc'[h] = AtNode(h[3], 1)
  <2>1. h \in Goroutines /\ ipc[h] = "none"
    BY <1>1, BranchesType
  <2>2. h # g /\ node[h] = 1
    BY <1>1, <2>1 DEF IInv, TreeInv
  <2> QED
    BY <1>1, <2>1, <2>2
<1>4. ASSUME NEW h \in Goroutines, h # g, h \notin Branches(g) PROVE ipc'[h] = ipc[h]
  BY <1>1, <1>4
<1>5. ipc'[g] = AtNode(g[3], node[g] + 1)
  BY <1>1
<1> QED
  BY <1>1, <1>2, <1>3, <1>4, <1>5

\* What FireInvocation does to every goroutine.
LEMMA FireEffect ==
  ASSUME IInv, NEW d \in Drivers, FireInvocation(d)
  PROVE  \E g \in Goroutines :
           /\ g = <<d, iat[d], conf.root[d]>> /\ ipc[g] = "none" /\ node[g] = 1
           /\ ipc'[g] = AtNode(g[3], 1)
           /\ \A h \in Goroutines : h # g => ipc'[h] = ipc[h]
<1>1. PICK g \in Goroutines : g = <<d, iat[d], conf.root[d]>> /\ ipc[g] = "none"
  BY FiredIsNew DEF FireInvocation
<1>2. node[g] = 1
  BY <1>1 DEF IInv, TreeInv
<1>3. g[3] = conf.root[d] /\ ipc' = [ipc EXCEPT ![g] = AtNode(conf.root[d], 1)]
  BY <1>1 DEF FireInvocation
<1>4. ipc'[g] = AtNode(g[3], 1) /\ \A h \in Goroutines : h # g => ipc'[h] = ipc[h]
  BY <1>3 DEF IInv, TypeOK
<1> QED
  BY <1>1, <1>2, <1>4

\* The other steps of the goroutine of an invocation, on the goroutine itself.
LEMMA WalkEffect ==
  ASSUME IInv, NEW g \in Goroutines, InvocationStep(g), ~StartBranches(g)
  PROVE  /\ node' = node
         /\ \A h \in Goroutines : h # g => ipc'[h] = ipc[h] /\ outcome'[h] = outcome[h]
         /\ ipc[g] \notin {"none", "done"} /\ ipc'[g] # "none"
<1>1. ipc \in [Goroutines -> InvocationPC] /\ outcome \in [Goroutines -> {"fail", "direct", "async"}]
  BY DEF IInv, TypeOK
<1> QED
  BY <1>1 DEF InvocationStep, Invoke, EnqueueAsync, TakeFromInvocation, CountInvocation, AfterCount,
              InvocationDone

\* The steps that change what a goroutine has done so far.
LEMMA ProgressFrames ==
  ASSUME [Next]_vars
  PROVE  \/ UNCHANGED <<conf, ipc, node, outcome, iat>>
         \/ \E d \in Drivers : FireInvocation(d) \/ TakeFromDriver(d)
         \/ \E g \in Goroutines : InvocationStep(g)
<1>1. ASSUME NEW d \in Drivers, DriverStep(d), ~FireInvocation(d), ~TakeFromDriver(d)
      PROVE  UNCHANGED <<conf, ipc, node, outcome, iat>>
  BY <1>1 DEF DriverStep, BeginDriver, FireTest, EndLoop, WaitForInvocations, Report, DriverDone,
              invVars
<1>2. ASSUME Main \/ (\E w \in Workers : WorkerStep(w)) \/ Background \/ UNCHANGED vars
      PROVE  UNCHANGED <<conf, ipc, node, outcome, iat>>
  BY <1>2, Frames DEF MainFrame, WorkerFrame, BackgroundFrame, driverVars, invVars, vars
<1> QED
  BY StepCases, <1>1, <1>2

LEMMA StaysStarted ==
  ASSUME IInv, [Next]_vars, NEW h \in Goroutines, ipc[h] # "none"
  PROVE  ipc'[h] # "none"
<1>1. CASE UNCHANGED ipc
  BY <1>1
<1>2. ASSUME NEW d \in Drivers, FireInvocation(d) PROVE ipc'[h] # "none"
  <2>1. PICK g \in Goroutines : ipc[g] = "none" /\ \A p \in Goroutines : p # g => ipc'[p] = ipc[p]
    BY <1>2, FireEffect
  <2> QED
    BY <2>1
<1>3. ASSUME NEW d \in Drivers, TakeFromDriver(d) PROVE UNCHANGED ipc
  BY <1>3 DEF TakeFromDriver, invVars
<1>4. ASSUME NEW g \in Goroutines, InvocationStep(g), ~StartBranches(g) PROVE ipc'[h] # "none"
  BY <1>4, WalkEffect
<1>5. ASSUME NEW g \in Goroutines, StartBranches(g) PROVE ipc'[h] # "none"
  BY <1>5, BranchEffect, AtNodeType
<1> QED
  BY ProgressFrames, <1>1, <1>2, <1>3, <1>4, <1>5

LEMMA StartedStep ==
  ASSUME IInv, StartedInv, [Next]_vars
  PROVE  StartedInv'
<1> USE DEF StartedInv
<1>1. /\ conf.nodes \in [Lists -> Seq(SUBSET Lists)] /\ conf.root \in [Drivers -> Lists]
      /\ conf' = conf
  BY ConfigType, StepCases, Frames DEF IInv, MainFrame, DriverFrame, InvocationFrame, WorkerFrame,
     BackgroundFrame, vars
<1>2. /\ node \in [Goroutines -> Nat \ {0}] /\ iat \in [Drivers -> 0 .. MaxInvocations]
      /\ ipc \in [Goroutines -> InvocationPC]
  BY DEF IInv, TypeOK
<1>3. \A h \in Goroutines : ipc[h] # "none" => ipc'[h] # "none"
  BY StaysStarted
<1>4. ASSUME NEW f \in Drivers, NEW i \in 0 .. iat[f] - 1 PROVE <<f, i, conf.root[f]>> \in Goroutines
  <2>1. i \in 0 .. MaxInvocations - 1 /\ conf.root[f] \in Lists
    BY <1>1, <1>2, DriverAssumption
  <2> QED
    BY <2>1, GoroutineOf
<1>5. ASSUME NEW g \in Goroutines, NEW k \in DOMAIN conf.nodes[g[3]], NEW b \in conf.nodes[g[3]][k]
      PROVE  <<g[1], g[2], b>> \in Goroutines
  <2>1. g[1] \in Drivers /\ g[2] \in 0 .. MaxInvocations - 1 /\ g[3] \in Lists
    BY GoroutineType
  <2>2. b \in Lists
    BY <1>1, <1>5, <2>1
  <2> QED
    BY <2>1, <2>2, GoroutineOf
\* The two halves, where iat or node is what it was.
<1>6. ASSUME UNCHANGED iat
      PROVE  ~conf'.test => \A f \in Drivers : \A i \in 0 .. iat'[f] - 1 : ipc'[<<f, i, conf'.root[f]>>] # "none"
  BY <1>1, <1>3, <1>4, <1>6
<1>7. ASSUME NEW g \in Goroutines, node'[g] = node[g]
      PROVE  /\ node'[g] <= Len(conf'.nodes[g[3]]) + 1
             /\ \A k \in DOMAIN conf'.nodes[g[3]] : k < node'[g] =>
                  \A b \in conf'.nodes[g[3]][k] : ipc'[<<g[1], g[2], b>>] # "none"
  BY <1>1, <1>3, <1>5, <1>7
<1>8. CASE UNCHANGED <<iat, node>>
  BY <1>6, <1>7, <1>8
<1>9. ASSUME NEW d \in Drivers, FireInvocation(d) PROVE StartedInv'
  <2>1. UNCHANGED node /\ iat' = [iat EXCEPT ![d] = @ + 1]
    BY <1>9 DEF FireInvocation
  <2>2. PICK g \in Goroutines : g = <<d, iat[d], conf.root[d]>> /\ ipc'[g] = AtNode(g[3], 1)
    BY <1>9, FireEffect
  <2>3. ASSUME ~conf.test, NEW f \in Drivers, NEW i \in 0 .. iat'[f] - 1
        PROVE  ipc'[<<f, i, conf.root[f]>>] # "none"
    <3>1. CASE i \in 0 .. iat[f] - 1
      BY <1>3, <1>4, <2>3, <3>1
    <3>2. CASE i \notin 0 .. iat[f] - 1
      <4>1. f = d /\ i = iat[d]
        BY <1>2, <2>1, <2>3, <3>2
      <4> QED
        BY <2>2, <4>1, AtNodeType
    <3> QED
      BY <3>1, <3>2
  <2> QED
    BY <1>1, <1>7, <2>1, <2>3
<1>10. ASSUME NEW d \in Drivers, TakeFromDriver(d) PROVE StartedInv'
  <2>1. UNCHANGED node /\ conf.test
    BY <1>10 DEF TakeFromDriver, invVars, IInv, DriverInv
  <2> QED
    BY <1>1, <1>7, <2>1
<1>11. ASSUME NEW g \in Goroutines, StartBranches(g) PROVE StartedInv'
  <2>1. UNCHANGED iat
    BY <1>11 DEF StartBranches
  <2>2. /\ node[g] \in DOMAIN conf.nodes[g[3]] /\ node' = [node EXCEPT ![g] = @ + 1]
        /\ \A h \in Branches(g) : ipc'[h] = AtNode(h[3], 1)
    BY <1>11, BranchEffect
  <2>3. g[3] \in Lists /\ conf.nodes[g[3]] \in Seq(SUBSET Lists)
    BY <1>1, GoroutineType
  <2>4. node'[g] = node[g] + 1 /\ node[g] <= Len(conf.nodes[g[3]])
    BY <1>2, <2>2, <2>3
  <2>5. ASSUME NEW k \in DOMAIN conf.nodes[g[3]], k < node'[g], NEW b \in conf.nodes[g[3]][k]
        PROVE  ipc'[<<g[1], g[2], b>>] # "none"
    <3>1. CASE k = node[g]
      <4>1. <<g[1], g[2], b>> \in Branches(g)
        BY <2>5, <3>1 DEF Branches
      <4> QED
        BY <2>2, <4>1, AtNodeType
    <3>2. CASE k # node[g]
      <4>1. k < node[g]
        BY <1>2, <2>3, <2>4, <2>5, <3>2, SMTT(30)
      <4> QED
        BY <1>3, <1>5, <2>5, <4>1
    <3> QED
      BY <3>1, <3>2
  <2>6. \A h \in Goroutines : h # g => node'[h] = node[h]
    BY <1>2, <2>2
  <2>7. node'[g] <= Len(conf.nodes[g[3]]) + 1
    BY <1>2, <2>3, <2>4
  <2> QED
    BY <1>1, <1>6, <1>7, <2>1, <2>5, <2>6, <2>7
<1>12. ASSUME NEW g \in Goroutines, InvocationStep(g), ~StartBranches(g) PROVE UNCHANGED <<iat, node>>
  BY <1>12, WalkEffect, Frames DEF InvocationFrame
<1> QED
  BY ProgressFrames, <1>8, <1>9, <1>10, <1>11, <1>12

(***************************************************************************)
(* Which steps count a record.                                              *)
(***************************************************************************)
LEMMA RecordFields ==
  ASSUME NEW r \in RecordSet
  PROVE  /\ r.inv \in Goroutines /\ r.node \in Nat \ {0} /\ r.ok \in BOOLEAN
         /\ r.inv[1] \in Drivers /\ r.inv[2] \in Nat /\ r.inv[3] \in Lists
<1>1. r.inv \in Goroutines /\ r.node \in Nat \ {0} /\ r.ok \in BOOLEAN
  BY DEF RecordSet
<1> QED
  BY <1>1, GoroutineType

LEMMA RecordEqual ==
  ASSUME NEW r \in RecordSet, NEW s \in RecordSet,
         r.inv = s.inv, r.node = s.node, r.ok <=> s.ok
  PROVE  r = s
<1>1. r.ok = s.ok
  BY RecordFields, Zenon
<1> QED
  BY <1>1 DEF RecordSet

\* In test mode a driver counts the record that it has just passed on.
LEMMA CountedTest ==
  ASSUME IInv, NEW f \in Drivers, TakeFromDriver(f)
  PROVE  LET t == Record(<<f, iat[f], conf.root[f]>>, 1, TRUE)
         IN  t \in RecordSet /\ t \notin Counted /\ Counted' = Counted \cup {t}
<1> DEFINE t == Record(<<f, iat[f], conf.root[f]>>, 1, TRUE)
<1>1. /\ dpc[f] = "send" /\ conf.test /\ UNCHANGED conf /\ iat' = [iat EXCEPT ![f] = @ + 1]
      /\ iat \in [Drivers -> 0 .. MaxInvocations] /\ conf.root \in [Drivers -> Lists]
  BY ConfigType DEF TakeFromDriver, IInv, DriverInv, TypeOK
<1>2. t \in RecordSet
  BY <1>1, TestRecordType
<1>3. t.inv = <<f, iat[f], conf.root[f]>> /\ t.node = 1 /\ t.ok
  BY DEF Record
<1> HIDE DEF t
<1>4. t.inv[1] = f /\ t.inv[2] = iat[f] /\ t.inv[3] = conf.root[f]
  BY <1>3
<1>5. t \notin Counted
  BY <1>1, <1>2, <1>3, <1>4, RecordFields DEF Counted, CountedAt
<1>6. ASSUME NEW r \in RecordSet
      PROVE  CountedAt(r.inv, r.node, r.ok)' <=> CountedAt(r.inv, r.node, r.ok) \/ r = t
  <2>1. /\ CountedAt(r.inv, r.node, r.ok)' <=>
             r.node = 1 /\ r.ok /\ r.inv[3] = conf.root[r.inv[1]] /\ r.inv[2] < iat'[r.inv[1]]
        /\ CountedAt(r.inv, r.node, r.ok) <=>
             r.node = 1 /\ r.ok /\ r.inv[3] = conf.root[r.inv[1]] /\ r.inv[2] < iat[r.inv[1]]
    BY <1>1 DEF CountedAt
  <2>2. /\ r.inv \in Goroutines /\ r.inv[1] \in Drivers /\ r.inv[2] \in Nat
        /\ r.inv = <<r.inv[1], r.inv[2], r.inv[3]>>
    BY RecordFields, GoroutineType
  <2>3. r.inv[2] < iat'[r.inv[1]] <=> r.inv[2] < iat[r.inv[1]] \/ (r.inv[1] = f /\ r.inv[2] = iat[f])
    BY <1>1, <2>2
  <2>4. r = t => r.node = 1 /\ r.ok /\ r.inv[3] = conf.root[r.inv[1]] /\ r.inv[1] = f /\ r.inv[2] = iat[f]
    BY <1>3, <1>4
  <2>5. ASSUME r.node = 1, r.ok, r.inv[3] = conf.root[r.inv[1]], r.inv[1] = f, r.inv[2] = iat[f]
        PROVE  r = t
    <3>1. r.inv = t.inv
      BY <1>3, <2>2, <2>5
    <3> QED
      BY <1>2, <1>3, <2>5, <3>1, RecordEqual
  <2> QED
    BY <2>1, <2>3, <2>4, <2>5
<1>7. Counted' = Counted \cup {t}
  BY <1>2, <1>6 DEF Counted
<1> QED
  BY <1>2, <1>5, <1>7 DEF t

LEMMA RecordOfFields ==
  ASSUME NEW g
  PROVE  RecordOf(g).inv = g /\ RecordOf(g).node = node[g] /\ (RecordOf(g).ok <=> outcome[g] # "fail")
  BY DEF RecordOf, Record

\* invokeFunction counts the record of the node it is at.
LEMMA CountedInvocation ==
  ASSUME IInv, NEW g \in Goroutines, CountInvocation(g)
  PROVE  /\ RecordOf(g) \in RecordSet /\ RecordOf(g) \notin Counted
         /\ Counted' = Counted \cup {RecordOf(g)}
<1>1. /\ ipc[g] = "count" /\ ipc' = [ipc EXCEPT ![g] = AfterCount(g)]
      /\ UNCHANGED <<conf, iat, node, outcome>>
      /\ ipc \in [Goroutines -> InvocationPC] /\ node \in [Goroutines -> Nat \ {0}]
  BY DEF CountInvocation, IInv, TypeOK
<1>2. ~conf.test /\ node[g] \in DOMAIN conf.nodes[g[3]]
  BY <1>1 DEF IInv, TreeInv
<1>3. RecordOf(g) \in RecordSet
  BY RecordOfType DEF IInv
<1>4. RecordOf(g) \notin Counted
  BY <1>1, <1>2, <1>3, RecordOfFields DEF Counted, CountedAt
<1>5. ASSUME NEW r \in RecordSet
      PROVE  CountedAt(r.inv, r.node, r.ok)' <=> CountedAt(r.inv, r.node, r.ok) \/ r = RecordOf(g)
  <2>0. r.inv \in Goroutines /\ r.node \in Nat /\ node[g] \in Nat
    BY <1>1, RecordFields
  <2>1. CASE r.inv # g
    <3>1. r # RecordOf(g) /\ ipc'[r.inv] = ipc[r.inv]
      BY <1>1, <2>0, <2>1, RecordOfFields
    <3> QED
      BY <1>1, <3>1 DEF CountedAt
  <2>2. CASE r.inv = g
    <3>1. CountedAt(r.inv, r.node, r.ok) <=> r.ok /\ r.node < node[g]
      BY <1>1, <1>2, <2>2 DEF CountedAt
    <3>2. ipc'[g] = IF outcome[g] = "fail" THEN "exit" ELSE "branch"
      BY <1>1 DEF AfterCount
    <3>3. CountedAt(r.inv, r.node, r.ok)' <=>
            (r.ok /\ r.node < node[g]) \/ (r.node = node[g] /\ (r.ok <=> outcome[g] # "fail"))
      BY <1>1, <1>2, <2>2, <3>2 DEF CountedAt
    <3>4. r = RecordOf(g) <=> r.node = node[g] /\ (r.ok <=> outcome[g] # "fail")
      BY <1>3, <2>2, RecordOfFields, RecordEqual
    <3> QED
      BY <3>1, <3>3, <3>4
  <2> QED
    BY <2>1, <2>2
<1>6. Counted' = Counted \cup {RecordOf(g)}
  BY <1>3, <1>5 DEF Counted
<1> QED
  BY <1>3, <1>4, <1>6

\* No other step counts a record.
LEMMA CountedKept ==
  ASSUME IInv, [Next]_vars,
         \A f \in Drivers : ~TakeFromDriver(f), \A g \in Goroutines : ~CountInvocation(g)
  PROVE  Counted' = Counted
<1>1. ipc \in [Goroutines -> InvocationPC] /\ node \in [Goroutines -> Nat \ {0}]
  BY DEF IInv, TypeOK
<1>2. SUFFICES ASSUME NEW r \in RecordSet
               PROVE  CountedAt(r.inv, r.node, r.ok)' <=> CountedAt(r.inv, r.node, r.ok)
  BY DEF Counted
<1>3. r.inv \in Goroutines /\ r.node \in Nat \ {0}
  BY RecordFields
<1>4. CASE UNCHANGED <<conf, ipc, node, iat>>
  BY <1>4 DEF CountedAt
<1>5. ASSUME NEW d \in Drivers, FireInvocation(d)
      PROVE  CountedAt(r.inv, r.node, r.ok)' <=> CountedAt(r.inv, r.node, r.ok)
  <2>1. UNCHANGED <<conf, node>> /\ ~conf.test
    BY <1>5 DEF FireInvocation
  <2>2. PICK g \in Goroutines :
           /\ ipc[g] = "none" /\ node[g] = 1
           /\ ipc'[g] = AtNode(g[3], 1) /\ \A h \in Goroutines : h # g => ipc'[h] = ipc[h]
    BY <1>5, FireEffect
  <2>3. ipc'[g] \in {"invoke", "exit"} /\ (ipc'[g] = "exit" => 1 \notin DOMAIN conf.nodes[g[3]])
    BY <2>2, AtNodeType
  <2> QED
    BY <1>3, <2>1, <2>2, <2>3 DEF CountedAt
<1>6. ASSUME NEW g \in Goroutines, InvocationStep(g), ~StartBranches(g)
      PROVE  CountedAt(r.inv, r.node, r.ok)' <=> CountedAt(r.inv, r.node, r.ok)
  <2>1. UNCHANGED <<conf, iat, node>> /\ \A h \in Goroutines : h # g => ipc'[h] = ipc[h]
    BY <1>6, WalkEffect, Frames DEF InvocationFrame
  <2>2. \/ ipc[g] \in {"invoke", "send"} /\ ipc'[g] \in {"invoke", "send", "count"}
        \/ ipc[g] = "exit" /\ ipc'[g] = "done"
    BY <1>1, <1>6 DEF InvocationStep, Invoke, EnqueueAsync, TakeFromInvocation, InvocationDone
  <2> QED
    BY <1>3, <2>1, <2>2 DEF CountedAt
<1>7. ASSUME NEW g \in Goroutines, StartBranches(g)
      PROVE  CountedAt(r.inv, r.node, r.ok)' <=> CountedAt(r.inv, r.node, r.ok)
  <2>1. UNCHANGED <<conf, iat>>
    BY <1>7 DEF StartBranches
  <2>2. /\ ipc[g] = "branch" /\ node' = [node EXCEPT ![g] = @ + 1]
        /\ ipc'[g] = AtNode(g[3], node[g] + 1)
        /\ \A h \in Branches(g) : /\ h # g /\ ipc[h] = "none" /\ node[h] = 1
                                  /\ ipc'[h] = AtNode(h[3], 1)
        /\ \A h \in Goroutines : h # g /\ h \notin Branches(g) => ipc'[h] = ipc[h]
    BY <1>7, BranchEffect
  <2>3. ~conf.test
    BY <2>2 DEF IInv, TreeInv
  <2>4. CASE r.inv = g
    <3>1. node'[g] = node[g] + 1 /\ node[g] \in Nat
      BY <1>1, <2>2
    <3>2. ipc'[g] \in {"invoke", "exit"} /\ (ipc'[g] = "exit" => node'[g] \notin DOMAIN conf.nodes[g[3]])
      BY <2>2, <3>1, AtNodeType
    <3>3. CountedAt(r.inv, r.node, r.ok)' <=> r.ok /\ r.node < node[g] + 1
      BY <2>1, <2>3, <2>4, <3>1, <3>2 DEF CountedAt
    <3>4. CountedAt(r.inv, r.node, r.ok) <=> r.ok /\ (r.node < node[g] \/ r.node = node[g])
      BY <2>2, <2>3, <2>4 DEF CountedAt
    <3> QED
      BY <1>3, <3>1, <3>3, <3>4
  <2>5. CASE r.inv \in Branches(g)
    <3>1. /\ ipc[r.inv] = "none" /\ node[r.inv] = 1 /\ node'[r.inv] = 1
          /\ ipc'[r.inv] = AtNode(r.inv[3], 1)
      BY <1>1, <1>3, <2>2, <2>5
    <3>2. /\ ipc'[r.inv] \in {"invoke", "exit"}
          /\ ipc'[r.inv] = "exit" => 1 \notin DOMAIN conf.nodes[r.inv[3]]
      BY <3>1, AtNodeType
    <3> QED
      BY <1>3, <2>1, <2>3, <3>1, <3>2 DEF CountedAt
  <2>6. CASE r.inv # g /\ r.inv \notin Branches(g)
    <3>1. ipc'[r.inv] = ipc[r.inv] /\ node'[r.inv] = node[r.inv]
      BY <1>1, <1>3, <2>2, <2>6
    <3> QED
      BY <2>1, <3>1 DEF CountedAt
  <2> QED
    BY <2>4, <2>5, <2>6
<1> QED
  BY ProgressFrames, <1>4, <1>5, <1>6, <1>7

(***************************************************************************)
(* Where the records are.                                                   *)
(***************************************************************************)
LEMMA UncountedSteps ==
  ASSUME IInv, [Next]_vars
  PROVE  /\ \A g \in Goroutines : EnqueueAsync(g) \/ TakeFromInvocation(g) =>
              Uncounted' = Uncounted \cup {RecordOf(g)}
         /\ \A g \in Goroutines : CountInvocation(g) =>
              Uncounted = Uncounted' \cup {RecordOf(g)}
         /\ (\A g \in Goroutines : ~EnqueueAsync(g) /\ ~TakeFromInvocation(g) /\ ~CountInvocation(g)) =>
              Uncounted' = Uncounted
<1>1. /\ ipc \in [Goroutines -> InvocationPC] /\ node \in [Goroutines -> Nat \ {0}]
      /\ outcome \in [Goroutines -> {"fail", "direct", "async"}]
  BY DEF IInv, TypeOK
<1>2. \A g \in Goroutines : RecordOf(g) \in RecordSet /\ RecordOf(g).inv = g
  BY RecordOfType, RecordOfFields DEF IInv
<1>3. \A r \in RecordSet : r.inv \in Goroutines
  BY RecordFields
<1>4. ASSUME NEW g \in Goroutines, EnqueueAsync(g) \/ TakeFromInvocation(g)
      PROVE  Uncounted' = Uncounted \cup {RecordOf(g)}
  <2>1. ipc[g] = "send" /\ ipc' = [ipc EXCEPT ![g] = "count"] /\ UNCHANGED <<node, outcome>>
    BY <1>4 DEF EnqueueAsync, TakeFromInvocation
  <2>2. \A h : RecordOf(h)' = RecordOf(h)
    BY <2>1 DEF RecordOf, Record
  <2>3. ASSUME NEW r \in RecordSet
        PROVE  (ipc'[r.inv] = "count" /\ r = RecordOf(r.inv)') <=>
                 (ipc[r.inv] = "count" /\ r = RecordOf(r.inv)) \/ r = RecordOf(g)
    BY <1>1, <1>2, <1>3, <2>1, <2>2
  <2> QED
    BY <1>2, <2>3 DEF Uncounted
<1>5. ASSUME NEW g \in Goroutines, CountInvocation(g)
      PROVE  Uncounted = Uncounted' \cup {RecordOf(g)}
  <2>1. ipc[g] = "count" /\ ipc' = [ipc EXCEPT ![g] = AfterCount(g)] /\ UNCHANGED <<node, outcome>>
    BY <1>5 DEF CountInvocation
  <2>2. \A h : RecordOf(h)' = RecordOf(h)
    BY <2>1 DEF RecordOf, Record
  <2>3. AfterCount(g) # "count"
    BY DEF AfterCount
  <2>4. ASSUME NEW r \in RecordSet
        PROVE  (ipc[r.inv] = "count" /\ r = RecordOf(r.inv)) <=>
                 (ipc'[r.inv] = "count" /\ r = RecordOf(r.inv)') \/ r = RecordOf(g)
    BY <1>1, <1>2, <1>3, <2>1, <2>2, <2>3
  <2> QED
    BY <1>2, <2>4 DEF Uncounted
<1>6. ASSUME \A g \in Goroutines : ~EnqueueAsync(g) /\ ~TakeFromInvocation(g) /\ ~CountInvocation(g)
      PROVE  Uncounted' = Uncounted
  <2>1. SUFFICES ASSUME NEW h \in Goroutines
                 PROVE  /\ ipc'[h] = "count" <=> ipc[h] = "count"
                        /\ ipc[h] = "count" => node'[h] = node[h] /\ outcome'[h] = outcome[h]
    BY <1>3 DEF Uncounted, RecordOf, Record
  <2>2. CASE UNCHANGED <<ipc, node, outcome>>
    BY <2>2
  <2>3. ASSUME NEW d \in Drivers, FireInvocation(d)
        PROVE  (ipc'[h] = "count" <=> ipc[h] = "count") /\ UNCHANGED <<node, outcome>>
    <3>1. PICK g \in Goroutines : /\ ipc[g] = "none" /\ ipc'[g] = AtNode(g[3], 1)
                                  /\ \A p \in Goroutines : p # g => ipc'[p] = ipc[p]
      BY <2>3, FireEffect
    <3>2. UNCHANGED <<node, outcome>>
      BY <2>3 DEF FireInvocation
    <3> QED
      BY <3>1, <3>2, AtNodeType
  <2>4. ASSUME NEW d \in Drivers, TakeFromDriver(d) PROVE UNCHANGED <<ipc, node, outcome>>
    BY <2>4 DEF TakeFromDriver, invVars
  <2>5. ASSUME NEW g \in Goroutines, Invoke(g) \/ InvocationDone(g)
        PROVE  /\ ipc'[h] = "count" <=> ipc[h] = "count"
               /\ ipc[h] = "count" => node'[h] = node[h] /\ outcome'[h] = outcome[h]
    BY <1>1, <2>5 DEF Invoke, InvocationDone
  <2>6. ASSUME NEW g \in Goroutines, StartBranches(g)
        PROVE  /\ ipc'[h] = "count" <=> ipc[h] = "count"
               /\ ipc[h] = "count" => node'[h] = node[h] /\ outcome'[h] = outcome[h]
    <3>1. UNCHANGED outcome
      BY <2>6 DEF StartBranches
    <3> QED
      BY <1>1, <2>6, <3>1, BranchEffect, AtNodeType
  <2> QED
    BY ProgressFrames, <1>6, <2>2, <2>3, <2>4, <2>5, <2>6 DEF InvocationStep
<1> QED
  BY <1>4, <1>5, <1>6

\* What is on its way and what is written.
Passed == OnTheWay \cup file

LEMMA PassedSteps ==
  ASSUME IInv, [Next]_vars
  PROVE  /\ \A g \in Goroutines : EnqueueAsync(g) \/ TakeFromInvocation(g) =>
              Passed' = Passed \cup {RecordOf(g)}
         /\ \A f \in Drivers : TakeFromDriver(f) =>
              Passed' = Passed \cup {Record(<<f, iat[f], conf.root[f]>>, 1, TRUE)}
         /\ (/\ \A g \in Goroutines : ~EnqueueAsync(g) /\ ~TakeFromInvocation(g)
             /\ \A f \in Drivers : ~TakeFromDriver(f)) =>
              Passed' = Passed
<1>1. /\ queue \in Seq(RecordSet) /\ records \in Seq(RecordSet)
      /\ apc \in [Workers -> {"none", "dequeue", "send", "exit"}]
      /\ arec \in [Workers -> RecordSet \cup {NoRecord}]
  BY DEF IInv, TypeOK
<1>2. ASSUME UNCHANGED <<queue, apc, arec, cpc, crec, records, file>> PROVE Passed' = Passed
  BY <1>2 DEF Passed, OnTheWay, Held, Pushed
<1>3. ASSUME NEW g \in Goroutines, EnqueueAsync(g) PROVE Passed' = Passed \cup {RecordOf(g)}
  <2>1. UNCHANGED <<apc, arec, cpc, crec, records, file>> /\ queue' = Append(queue, RecordOf(g))
    BY <1>3 DEF EnqueueAsync, collectorVars
  <2>2. Elements(queue') = Elements(queue) \cup {RecordOf(g)}
    BY <1>1, <2>1, RecordOfType, ElementsAppend DEF IInv
  <2>3. UNCHANGED <<Held, Pushed, Elements(records)>>
    BY <2>1 DEF Held, Pushed
  <2> QED
    BY <2>1, <2>2, <2>3 DEF Passed, OnTheWay
<1>4. ASSUME NEW r, Take(r), UNCHANGED <<queue, apc, arec, records, file>>
      PROVE  Passed' = Passed \cup {r}
  <2>1. Pushed = {} /\ Pushed' = {r} /\ UNCHANGED <<Held, Elements(records), Elements(queue)>>
    BY <1>4 DEF Take, Pushed, Held
  <2> QED
    BY <1>4, <2>1 DEF Passed, OnTheWay
<1>5. ASSUME NEW g \in Goroutines, TakeFromInvocation(g) PROVE Passed' = Passed \cup {RecordOf(g)}
  <2>1. Take(RecordOf(g)) /\ UNCHANGED <<queue, apc, arec, records, file>>
    BY <1>5 DEF TakeFromInvocation, asyncVars
  <2>2. PICK r : r = RecordOf(g)
    OBVIOUS
  <2> QED
    BY <1>4, <2>1, <2>2
<1>6. ASSUME NEW f \in Drivers, TakeFromDriver(f)
      PROVE  Passed' = Passed \cup {Record(<<f, iat[f], conf.root[f]>>, 1, TRUE)}
  <2>1. Take(Record(<<f, iat[f], conf.root[f]>>, 1, TRUE)) /\ UNCHANGED <<queue, apc, arec, records, file>>
    BY <1>6 DEF TakeFromDriver, asyncVars
  <2>2. PICK r : r = Record(<<f, iat[f], conf.root[f]>>, 1, TRUE)
    OBVIOUS
  <2> QED
    BY <1>4, <2>1, <2>2
<1>7. ASSUME NEW w \in Workers, DequeueAsync(w) PROVE Passed' = Passed
  <2>1. /\ apc[w] = "dequeue" /\ queue # <<>> /\ queue' = Tail(queue)
        /\ arec' = [arec EXCEPT ![w] = Head(queue)] /\ apc' = [apc EXCEPT ![w] = "send"]
        /\ UNCHANGED <<cpc, crec, records, file>>
    BY <1>7 DEF DequeueAsync, collectorVars
  <2>2. Elements(queue) = {Head(queue)} \cup Elements(queue')
    BY <1>1, <2>1, ElementsTail
  <2>3. Held' = Held \cup {Head(queue)}
    BY <1>1, <2>1 DEF Held
  <2>4. UNCHANGED <<Pushed, Elements(records)>>
    BY <2>1 DEF Pushed
  <2> QED
    BY <2>1, <2>2, <2>3, <2>4 DEF Passed, OnTheWay
<1>8. ASSUME NEW w \in Workers, TakeFromWorker(w) PROVE Passed' = Passed
  <2>1. /\ apc[w] = "send" /\ Take(arec[w]) /\ apc' = [apc EXCEPT ![w] = "exit"]
        /\ UNCHANGED <<queue, arec, records, file>>
    BY <1>8 DEF TakeFromWorker
  <2>2. Held = Held' \cup {arec[w]}
    BY <1>1, <2>1 DEF Held
  <2>3. Pushed = {} /\ Pushed' = {arec[w]}
    BY <2>1 DEF Take, Pushed
  <2>4. UNCHANGED <<Elements(queue), Elements(records)>>
    BY <2>1
  <2> QED
    BY <2>1, <2>2, <2>3, <2>4 DEF Passed, OnTheWay
<1>9. ASSUME UNCHANGED <<queue, arec, crec, records, file>>, Held' = Held,
             cpc' = "push" <=> cpc = "push"
      PROVE  Passed' = Passed
  BY <1>9 DEF Passed, OnTheWay, Pushed
<1>10. ASSUME NEW w \in Workers, WorkerDone(w) PROVE Passed' = Passed
  <2>1. Held' = Held
    BY <1>1, <1>10 DEF WorkerDone, Held
  <2> QED
    BY <1>9, <1>10, <2>1 DEF WorkerDone, collectorVars
<1>11. ASSUME Main PROVE Passed' = Passed
  <2>1. UNCHANGED <<queue, arec, crec, records, file>>
    BY <1>11, Frames DEF MainFrame
  <2>2. Held' = Held
    <3>1. CASE StartBatch
      <4>1. \A w \in Workers : apc[w] # "send" /\ apc'[w] # "send"
        BY <3>1 DEF StartBatch, IInv, PhaseInv
      <4> QED
        BY <4>1 DEF Held
    <3>2. CASE ~StartBatch
      <4>1. UNCHANGED apc
        BY <1>11, <3>2 DEF Main, asyncVars, StartBackgroundProcesses, StartDrivers, DriversCompleted,
             BatchCompleted, GatherCompleted, TakeTotal, FinishScraper, RecordsWritten
      <4> QED
        BY <2>1, <4>1 DEF Held
    <3> QED
      BY <3>1, <3>2
  <2>3. cpc' = "push" <=> cpc = "push"
    BY <1>11 DEF Main, collectorVars, StartBackgroundProcesses, StartDrivers, DriversCompleted,
       StartBatch, BatchCompleted, GatherCompleted, TakeTotal, FinishScraper, RecordsWritten,
       IInv, CollectorInv
  <2> QED
    BY <1>9, <2>1, <2>2, <2>3
<1>12. ASSUME PushRecord PROVE Passed' = Passed
  <2>1. /\ cpc = "push" /\ cpc' = "check" /\ records' = Append(records, crec)
        /\ UNCHANGED <<queue, apc, arec, file>>
    BY <1>12 DEF PushRecord, asyncVars
  <2>2. crec \in RecordSet
    BY <2>1 DEF IInv, CollectorInv
  <2>3. Elements(records') = Elements(records) \cup {crec} /\ Pushed = {crec} /\ Pushed' = {}
    BY <1>1, <2>1, <2>2, ElementsAppend DEF Pushed
  <2>4. UNCHANGED <<Held, Elements(queue)>>
    BY <2>1 DEF Held
  <2> QED
    BY <2>1, <2>3, <2>4 DEF Passed, OnTheWay
<1>13. ASSUME WriteRecord PROVE Passed' = Passed
  <2>1. /\ records # <<>> /\ file' = file \cup {Head(records)} /\ records' = Tail(records)
        /\ UNCHANGED <<queue, apc, arec, cpc, crec>>
    BY <1>13 DEF WriteRecord, asyncVars
  <2>2. Elements(records) = {Head(records)} \cup Elements(records')
    BY <1>1, <2>1, ElementsTail
  <2>3. UNCHANGED <<Held, Pushed, Elements(queue)>>
    BY <2>1 DEF Held, Pushed
  <2> QED
    BY <2>1, <2>2, <2>3 DEF Passed, OnTheWay
<1>14. ASSUME Background /\ ~PushRecord /\ ~WriteRecord PROVE Passed' = Passed
  <2>1. UNCHANGED <<queue, apc, arec>>
    BY <1>14, Frames DEF BackgroundFrame, asyncVars
  <2>2. UNCHANGED <<crec, records, file>> /\ (cpc' = "push" <=> cpc = "push")
    BY <1>14 DEF Background, Collector, CollectorReady, CheckComplete, CollectorDone,
         TimekeeperReady, Scraper, ScraperReady, SendScaleRow, SendKnStats, ScraperFinish,
         ScraperDone, Scrape, WriteRow, collectorVars
  <2>3. Held' = Held
    BY <2>1 DEF Held
  <2> QED
    BY <1>9, <2>1, <2>2, <2>3
<1>15. ASSUME NEW f \in Drivers, DriverStep(f), ~TakeFromDriver(f) PROVE Passed' = Passed
  <2>1. UNCHANGED <<queue, apc, arec, records, file, cpc, crec>>
    BY <1>15, Frames DEF DriverFrame, asyncVars, DriverStep, BeginDriver, FireInvocation, FireTest,
         EndLoop, WaitForInvocations, Report, DriverDone, collectorVars
  <2> QED
    BY <1>2, <2>1
<1>16. ASSUME NEW g \in Goroutines, InvocationStep(g), ~EnqueueAsync(g), ~TakeFromInvocation(g)
       PROVE  Passed' = Passed
  <2>1. UNCHANGED <<queue, apc, arec, records, file, cpc, crec>>
    BY <1>16 DEF InvocationStep, Invoke, CountInvocation, StartBranches, InvocationDone,
         asyncVars, collectorVars
  <2> QED
    BY <1>2, <2>1
<1>17. ASSUME UNCHANGED vars PROVE Passed' = Passed
  BY <1>2, <1>17 DEF vars, asyncVars, collectorVars
<1>18. ASSUME \A g \in Goroutines : ~EnqueueAsync(g) /\ ~TakeFromInvocation(g),
              \A f \in Drivers : ~TakeFromDriver(f)
       PROVE  Passed' = Passed
  BY StepCases, <1>7, <1>8, <1>10, <1>11, <1>12, <1>13, <1>14, <1>15, <1>16, <1>17, <1>18
     DEF WorkerStep
<1> QED
  BY <1>3, <1>5, <1>6, <1>18

\* A step is not of two goroutines or drivers at once.
LEMMA OneCounts ==
  ASSUME IInv
  PROVE  /\ \A f \in Drivers, g \in Goroutines :
              TakeFromDriver(f) => ~EnqueueAsync(g) /\ ~TakeFromInvocation(g) /\ ~CountInvocation(g)
         /\ \A g, h \in Goroutines :
              CountInvocation(g) => ~EnqueueAsync(h) /\ ~TakeFromInvocation(h)
<1>1. ipc \in [Goroutines -> InvocationPC]
  BY DEF IInv, TypeOK
<1>2. ASSUME NEW g \in Goroutines, EnqueueAsync(g) \/ TakeFromInvocation(g) \/ CountInvocation(g)
      PROVE  ipc' # ipc
  BY <1>1, <1>2 DEF EnqueueAsync, TakeFromInvocation, CountInvocation, AfterCount
<1>3. ASSUME NEW f \in Drivers, TakeFromDriver(f) PROVE ipc' = ipc
  BY <1>3 DEF TakeFromDriver, invVars
<1>4. ASSUME NEW g \in Goroutines, NEW h \in Goroutines, CountInvocation(g),
             EnqueueAsync(h) \/ TakeFromInvocation(h)
      PROVE  FALSE
  <2>1. ipc'[h] = "count" /\ ipc[h] = "send"
    BY <1>1, <1>4 DEF EnqueueAsync, TakeFromInvocation
  <2>2. \A p \in Goroutines : ipc'[p] = "count" => ipc[p] = "count"
    BY <1>1, <1>4 DEF CountInvocation, AfterCount
  <2> QED
    BY <2>1, <2>2
<1> QED
  BY <1>2, <1>3, <1>4

LEMMA WhereStep ==
  ASSUME IInv, WhereInv, [Next]_vars
  PROVE  WhereInv'
<1>1. Counted \cup Uncounted = Passed
  BY DEF WhereInv, Passed
<1>2. SUFFICES Counted' \cup Uncounted' = Passed'
  BY DEF WhereInv, Passed
<1>3. ASSUME NEW g \in Goroutines, EnqueueAsync(g) \/ TakeFromInvocation(g)
      PROVE  Counted' \cup Uncounted' = Passed'
  <2>1. \A h \in Goroutines : ~CountInvocation(h)
    BY <1>3, OneCounts
  <2>2. \A f \in Drivers : ~TakeFromDriver(f)
    BY <1>3, OneCounts
  <2>3. Counted' = Counted
    BY <2>1, <2>2, CountedKept
  <2> QED
    BY <1>1, <1>3, <2>3, UncountedSteps, PassedSteps
<1>4. ASSUME NEW g \in Goroutines, CountInvocation(g)
      PROVE  Counted' \cup Uncounted' = Passed'
  <2>1. Passed' = Passed
    BY <1>4, OneCounts, PassedSteps
  <2> QED
    BY <1>1, <1>4, <2>1, UncountedSteps, CountedInvocation
<1>5. ASSUME NEW f \in Drivers, TakeFromDriver(f)
      PROVE  Counted' \cup Uncounted' = Passed'
  <2>1. Uncounted' = Uncounted
    BY <1>5, OneCounts, UncountedSteps
  <2> QED
    BY <1>1, <1>5, <2>1, CountedTest, PassedSteps
<1>6. ASSUME \A g \in Goroutines : ~EnqueueAsync(g) /\ ~TakeFromInvocation(g) /\ ~CountInvocation(g),
             \A f \in Drivers : ~TakeFromDriver(f)
      PROVE  Counted' \cup Uncounted' = Passed'
  BY <1>1, <1>6, CountedKept, UncountedSteps, PassedSteps
<1> QED
  BY <1>3, <1>4, <1>5, <1>6

(***************************************************************************)
(* The counters of the drivers, and the totals.                             *)
(***************************************************************************)
\* The drivers that have added their counters to the totals.
HasReported(f) == dpc[f] \in {"exit", "done"}

LEMMA CountsStep ==
  ASSUME IInv, CountsInv, [Next]_vars
  PROVE  CountsInv'
<1>1. counts \in [Drivers -> CountSet]
  BY DEF IInv, TypeOK
<1>2. SUFFICES ASSUME NEW f \in Drivers
               PROVE  /\ IsFiniteSet(OkRows(f)') /\ counts'[f].ok = Cardinality(OkRows(f)')
                      /\ IsFiniteSet(FailedRows(f)') /\ counts'[f].failed = Cardinality(FailedRows(f)')
  BY DEF CountsInv
<1>3. /\ IsFiniteSet(OkRows(f)) /\ counts[f].ok = Cardinality(OkRows(f))
      /\ IsFiniteSet(FailedRows(f)) /\ counts[f].failed = Cardinality(FailedRows(f))
  BY DEF CountsInv
<1>4. CASE counts'[f] = counts[f] /\ OkRows(f)' = OkRows(f) /\ FailedRows(f)' = FailedRows(f)
  BY <1>3, <1>4
<1>5. ASSUME NEW r \in RecordSet, r \notin Counted, Counted' = Counted \cup {r}
      PROVE  /\ r.inv[1] # f => OkRows(f)' = OkRows(f) /\ FailedRows(f)' = FailedRows(f)
             /\ r.inv[1] = f /\ r.ok =>
                  /\ OkRows(f)' = OkRows(f) \cup {r} /\ r \notin OkRows(f)
                  /\ FailedRows(f)' = FailedRows(f)
             /\ r.inv[1] = f /\ ~r.ok =>
                  /\ FailedRows(f)' = FailedRows(f) \cup {r} /\ r \notin FailedRows(f)
                  /\ OkRows(f)' = OkRows(f)
  BY <1>5 DEF OkRows, FailedRows
<1>6. ASSUME NEW r \in RecordSet, r \notin Counted, Counted' = Counted \cup {r},
             r.inv[1] # f => counts'[f] = counts[f],
             r.inv[1] = f /\ r.ok => counts'[f].ok = counts[f].ok + 1 /\ counts'[f].failed = counts[f].failed,
             r.inv[1] = f /\ ~r.ok => counts'[f].ok = counts[f].ok /\ counts'[f].failed = counts[f].failed + 1
      PROVE  /\ IsFiniteSet(OkRows(f)') /\ counts'[f].ok = Cardinality(OkRows(f)')
             /\ IsFiniteSet(FailedRows(f)') /\ counts'[f].failed = Cardinality(FailedRows(f)')
  <2>1. CASE r.inv[1] # f
    BY <1>3, <1>5, <1>6, <2>1
  <2>2. CASE r.inv[1] = f /\ r.ok
    <3>1. OkRows(f)' = OkRows(f) \cup {r} /\ r \notin OkRows(f) /\ FailedRows(f)' = FailedRows(f)
      BY <1>5, <1>6, <2>2
    <3>2. IsFiniteSet(OkRows(f) \cup {r}) /\ Cardinality(OkRows(f) \cup {r}) = Cardinality(OkRows(f)) + 1
      BY <1>3, <3>1, FS_AddElement
    <3> QED
      BY <1>3, <1>6, <2>2, <3>1, <3>2
  <2>3. CASE r.inv[1] = f /\ ~r.ok
    <3>1. FailedRows(f)' = FailedRows(f) \cup {r} /\ r \notin FailedRows(f) /\ OkRows(f)' = OkRows(f)
      BY <1>5, <1>6, <2>3
    <3>2. IsFiniteSet(FailedRows(f) \cup {r})
          /\ Cardinality(FailedRows(f) \cup {r}) = Cardinality(FailedRows(f)) + 1
      BY <1>3, <3>1, FS_AddElement
    <3> QED
      BY <1>3, <1>6, <2>3, <3>1, <3>2
  <2> QED
    BY <2>1, <2>2, <2>3
<1>7. ASSUME NEW d \in Drivers, TakeFromDriver(d)
      PROVE  /\ IsFiniteSet(OkRows(f)') /\ counts'[f].ok = Cardinality(OkRows(f)')
             /\ IsFiniteSet(FailedRows(f)') /\ counts'[f].failed = Cardinality(FailedRows(f)')
  <2>1. PICK r \in RecordSet : /\ r = Record(<<d, iat[d], conf.root[d]>>, 1, TRUE)
                               /\ r \notin Counted /\ Counted' = Counted \cup {r}
    BY <1>7, CountedTest
  <2>2. r.inv[1] = d /\ r.ok
    BY <2>1 DEF Record
  <2>3. counts' = [counts EXCEPT ![d] = [ok |-> counts[d].ok + 1, failed |-> counts[d].failed,
                                         issued |-> counts[d].issued + 1]]
    BY <1>7 DEF TakeFromDriver
  <2>4. /\ d # f => counts'[f] = counts[f]
        /\ d = f => counts'[f].ok = counts[f].ok + 1 /\ counts'[f].failed = counts[f].failed
    BY <1>1, <2>3
  <2> QED
    BY <1>6, <2>1, <2>2, <2>4
<1>8. ASSUME NEW g \in Goroutines, CountInvocation(g)
      PROVE  /\ IsFiniteSet(OkRows(f)') /\ counts'[f].ok = Cardinality(OkRows(f)')
             /\ IsFiniteSet(FailedRows(f)') /\ counts'[f].failed = Cardinality(FailedRows(f)')
  <2>1. PICK r \in RecordSet : r = RecordOf(g) /\ r \notin Counted /\ Counted' = Counted \cup {r}
    BY <1>8, CountedInvocation
  <2>2. r.inv[1] = g[1] /\ (r.ok <=> outcome[g] # "fail") /\ g[1] \in Drivers
    BY <2>1, RecordOfFields, GoroutineType
  <2> DEFINE ok == outcome[g] # "fail"
  <2>3. counts' = [counts EXCEPT ![g[1]] =
                     [ok     |-> IF ok THEN counts[g[1]].ok + 1 ELSE counts[g[1]].ok,
                      failed |-> IF ok THEN counts[g[1]].failed ELSE counts[g[1]].failed + 1,
                      issued |-> counts[g[1]].issued + 1]]
    BY <1>8 DEF CountInvocation
  <2>4. /\ g[1] # f => counts'[f] = counts[f]
        /\ g[1] = f /\ ok => counts'[f].ok = counts[f].ok + 1 /\ counts'[f].failed = counts[f].failed
        /\ g[1] = f /\ ~ok => counts'[f].ok = counts[f].ok /\ counts'[f].failed = counts[f].failed + 1
    BY <1>1, <2>2, <2>3
  <2> QED
    BY <1>6, <2>1, <2>2, <2>4
<1>9. ASSUME \A d \in Drivers : ~TakeFromDriver(d), \A g \in Goroutines : ~CountInvocation(g)
      PROVE  counts'[f] = counts[f] /\ OkRows(f)' = OkRows(f) /\ FailedRows(f)' = FailedRows(f)
  <2>1. Counted' = Counted /\ UNCHANGED counts
    BY <1>9, CountedKept, CountFrames
  <2> QED
    BY <2>1 DEF OkRows, FailedRows
<1> QED
  BY <1>4, <1>7, <1>8, <1>9

\* A driver without invocations has counted nothing.
LEMMA NothingFired ==
  ASSUME IInv, NEW f \in Drivers, iat[f] = 0
  PROVE  OkRows(f) = {} /\ FailedRows(f) = {}
<1>1. SUFFICES ASSUME NEW r \in RecordSet, r.inv[1] = f, CountedAt(r.inv, r.node, r.ok) PROVE FALSE
  BY DEF OkRows, FailedRows, Counted
<1>2. r.inv \in Goroutines /\ r.inv[2] \in Nat /\ r.node \in Nat \ {0}
  BY RecordFields
<1>3. ipc[r.inv] = "none" /\ node[r.inv] = 1
  BY <1>1, <1>2 DEF IInv, TreeInv
<1> QED
  BY <1>1, <1>2, <1>3 DEF CountedAt

LEMMA ReportedStep ==
  ASSUME IInv, CountsInv, ReportedInv, [Next]_vars
  PROVE  ReportedInv'
<1>1. /\ IsFiniteSet(OkReported) /\ totals.ok = Cardinality(OkReported)
      /\ IsFiniteSet(FailedReported) /\ totals.failed = Cardinality(FailedReported)
  BY DEF ReportedInv
<1>2. dpc \in [Drivers -> DriverPC] /\ totals \in CountSet /\ counts \in [Drivers -> CountSet]
  BY DEF IInv, TypeOK
<1>3. \A r \in Counted : r \in RecordSet /\ r.inv[1] \in Drivers
  BY RecordFields DEF Counted
<1>4. CASE UNCHANGED totals /\ OkReported' = OkReported /\ FailedReported' = FailedReported
  BY <1>1, <1>4 DEF ReportedInv
<1>5. ASSUME Counted' = Counted, \A f \in Drivers : HasReported(f)' <=> HasReported(f)
      PROVE  OkReported' = OkReported /\ FailedReported' = FailedReported
  BY <1>3, <1>5 DEF OkReported, FailedReported, HasReported
<1>6. ASSUME NEW r \in RecordSet, Counted' = Counted \cup {r}, ~HasReported(r.inv[1]),
             \A f \in Drivers : HasReported(f)' <=> HasReported(f)
      PROVE  OkReported' = OkReported /\ FailedReported' = FailedReported
  <2>1. r.inv[1] \in Drivers
    BY RecordFields
  <2> QED
    BY <1>3, <1>6, <2>1 DEF OkReported, FailedReported, HasReported
<1>7. ASSUME NEW f \in Drivers, Report(f) PROVE ReportedInv'
  <2>1. /\ dpc[f] = "report" /\ dpc' = [dpc EXCEPT ![f] = "exit"]
        /\ totals' = [ok     |-> totals.ok + counts[f].ok,
                      failed |-> totals.failed + counts[f].failed,
                      issued |-> totals.issued + counts[f].issued]
    BY <1>7 DEF Report
  <2>2. Counted' = Counted
    <3>1. UNCHANGED <<conf, ipc, node, iat>>
      BY <1>7 DEF Report, invVars
    <3> QED
      BY <3>1 DEF Counted, CountedAt
  <2>3. /\ OkReported' = OkReported \cup OkRows(f) /\ OkReported \cap OkRows(f) = {}
        /\ FailedReported' = FailedReported \cup FailedRows(f)
        /\ FailedReported \cap FailedRows(f) = {}
    BY <1>2, <1>3, <2>1, <2>2 DEF OkReported, OkRows, FailedReported, FailedRows
  <2>4. /\ IsFiniteSet(OkRows(f)) /\ counts[f].ok = Cardinality(OkRows(f))
        /\ IsFiniteSet(FailedRows(f)) /\ counts[f].failed = Cardinality(FailedRows(f))
    BY DEF CountsInv
  <2>5. /\ IsFiniteSet(OkReported \cup OkRows(f))
        /\ Cardinality(OkReported \cup OkRows(f)) = Cardinality(OkReported) + Cardinality(OkRows(f)) - 0
    BY <1>1, <2>3, <2>4, FS_Union, FS_EmptySet
  <2>6. /\ IsFiniteSet(FailedReported \cup FailedRows(f))
        /\ Cardinality(FailedReported \cup FailedRows(f))
             = Cardinality(FailedReported) + Cardinality(FailedRows(f)) - 0
    BY <1>1, <2>3, <2>4, FS_Union, FS_EmptySet
  <2>7. totals'.ok = totals.ok + counts[f].ok /\ totals'.failed = totals.failed + counts[f].failed
    BY <2>1
  <2>8. /\ totals.ok \in Nat /\ totals.failed \in Nat /\ counts[f].ok \in Nat
        /\ counts[f].failed \in Nat
    BY <1>2, CountFields
  <2>9. totals'.ok = Cardinality(OkReported \cup OkRows(f))
    BY <1>1, <2>4, <2>5, <2>7, <2>8
  <2>10. totals'.failed = Cardinality(FailedReported \cup FailedRows(f))
    BY <1>1, <2>4, <2>6, <2>7, <2>8
  <2> QED
    BY <2>3, <2>5, <2>6, <2>9, <2>10 DEF ReportedInv
<1>8. ASSUME NEW f \in Drivers, BeginDriver(f) PROVE ReportedInv'
  <2>1. UNCHANGED <<conf, ipc, node, iat, totals>> /\ iat[f] = 0
    BY <1>8 DEF BeginDriver, invVars, mainVars, IInv, DriverInv
  <2>2. Counted' = Counted
    BY <2>1 DEF Counted, CountedAt
  <2>3. \A r \in Counted : r.inv[1] # f
    BY <2>1, NothingFired DEF OkRows, FailedRows
  <2>4. \A d \in Drivers : d # f => dpc'[d] = dpc[d]
    BY <1>2, <1>8 DEF BeginDriver
  <2>5. OkReported' = OkReported /\ FailedReported' = FailedReported
    BY <1>3, <2>2, <2>3, <2>4 DEF OkReported, FailedReported
  <2> QED
    BY <1>4, <2>1, <2>5
<1>9. ASSUME \A f \in Drivers : ~Report(f) /\ ~BeginDriver(f)
      PROVE  UNCHANGED totals /\ \A f \in Drivers : HasReported(f)' <=> HasReported(f)
  <2>1. UNCHANGED totals
    BY <1>9, CountFrames
  <2>2. CASE UNCHANGED dpc
    BY <2>1, <2>2 DEF HasReported
  <2>3. ASSUME NEW d \in Drivers, DriverStep(d), NEW f \in Drivers
        PROVE  HasReported(f)' <=> HasReported(f)
    <3>1. CASE FireInvocation(d)
      BY <3>1 DEF FireInvocation, HasReported
    <3>2. CASE DriverDone(d)
      BY <1>2, <3>2 DEF DriverDone, HasReported
    <3>3. CASE FireTest(d) \/ TakeFromDriver(d) \/ EndLoop(d) \/ WaitForInvocations(d)
      BY <1>2, <3>3 DEF FireTest, TakeFromDriver, EndLoop, WaitForInvocations, HasReported
    <3> QED
      BY <1>9, <2>3, <3>1, <3>2, <3>3 DEF DriverStep
  <2>4. ASSUME StartDrivers, NEW f \in Drivers
        PROVE  HasReported(f)' <=> HasReported(f)
    BY <2>4 DEF StartDrivers, HasReported, IInv, PhaseInv
  <2>5. Main /\ ~StartDrivers => UNCHANGED dpc
    BY DEF Main, driverVars, StartBackgroundProcesses, DriversCompleted, StartBatch,
           BatchCompleted, GatherCompleted, TakeTotal, FinishScraper, RecordsWritten
  <2>6. ASSUME \/ \E g \in Goroutines : InvocationStep(g)
               \/ \E w \in Workers : WorkerStep(w)
               \/ Background \/ UNCHANGED vars
        PROVE  UNCHANGED dpc
    BY <2>6, Frames DEF InvocationFrame, WorkerFrame, BackgroundFrame, driverVars, vars
  <2>7. \A f \in Drivers : HasReported(f)' <=> HasReported(f)
    BY StepCases, <2>2, <2>3, <2>4, <2>5, <2>6
  <2> QED
    BY <2>1, <2>7
<1>10. ASSUME NEW d \in Drivers, TakeFromDriver(d), \A f \in Drivers : ~Report(f) /\ ~BeginDriver(f)
       PROVE  ReportedInv'
  <2>1. PICK r \in RecordSet : /\ r = Record(<<d, iat[d], conf.root[d]>>, 1, TRUE)
                               /\ Counted' = Counted \cup {r}
    BY <1>10, CountedTest
  <2>2. ~HasReported(r.inv[1])
    BY <1>10, <2>1 DEF Record, TakeFromDriver, HasReported
  <2> QED
    BY <1>4, <1>6, <1>9, <1>10, <2>1, <2>2
<1>11. ASSUME NEW g \in Goroutines, CountInvocation(g), \A f \in Drivers : ~Report(f) /\ ~BeginDriver(f)
       PROVE  ReportedInv'
  <2>1. PICK r \in RecordSet : r = RecordOf(g) /\ Counted' = Counted \cup {r}
    BY <1>11, CountedInvocation
  <2>2. ~HasReported(r.inv[1])
    BY <1>11, <2>1, RecordOfFields, RunningPhase DEF CountInvocation, HasReported
  <2> QED
    BY <1>4, <1>6, <1>9, <1>11, <2>1, <2>2
<1>12. ASSUME \A d \in Drivers : ~TakeFromDriver(d), \A g \in Goroutines : ~CountInvocation(g),
              \A f \in Drivers : ~Report(f) /\ ~BeginDriver(f)
       PROVE  ReportedInv'
  BY <1>4, <1>5, <1>9, <1>12, CountedKept
<1> QED
  BY <1>7, <1>8, <1>10, <1>11, <1>12

(***************************************************************************)
(* The theorems.                                                            *)
(***************************************************************************)
LEMMA RInit == ASSUME Init PROVE RInv
<1>1. IInv
  BY InitInv
<1>2. /\ \A g \in Goroutines : ipc[g] = "none" /\ node[g] = 1
      /\ \A f \in Drivers : iat[f] = 0 /\ counts[f] = Zero
      /\ totals = Zero /\ queue = <<>> /\ records = <<>> /\ file = {} /\ cpc = "none"
      /\ \A w \in Workers : apc[w] = "none"
  BY DEF Init
<1>3. ASSUME NEW r \in Counted PROVE FALSE
  <2>1. r \in RecordSet /\ CountedAt(r.inv, r.node, r.ok)
    BY <1>3 DEF Counted
  <2>2. r.inv \in Goroutines /\ r.node \in Nat \ {0} /\ r.inv[1] \in Drivers /\ r.inv[2] \in Nat
    BY <2>1, RecordFields
  <2> QED
    BY <1>2, <2>1, <2>2 DEF CountedAt
<1>4. Counted = {} /\ Uncounted = {}
  BY <1>2, <1>3, RecordFields DEF Uncounted
<1>5. StartedInv
  <2>1. \A f \in Drivers : 0 .. iat[f] - 1 = {}
    BY <1>2
  <2>2. ASSUME NEW g \in Goroutines
        PROVE  /\ node[g] <= Len(conf.nodes[g[3]]) + 1
               /\ \A k \in DOMAIN conf.nodes[g[3]] : ~(k < node[g])
    <3>1. conf.nodes[g[3]] \in Seq(SUBSET Lists)
      BY <1>1, GoroutineType, ConfigType DEF IInv
    <3> QED
      BY <1>2, <3>1
  <2> QED
    BY <2>1, <2>2 DEF StartedInv
<1>6. WhereInv
  BY <1>2, <1>4, ElementsEmpty DEF WhereInv, OnTheWay, Held, Pushed
<1>7. CountsInv
  <2>1. \A f \in Drivers : OkRows(f) = {} /\ FailedRows(f) = {} /\ counts[f].ok = 0 /\ counts[f].failed = 0
    BY <1>2, <1>4 DEF OkRows, FailedRows, Zero
  <2> QED
    BY <2>1, FS_EmptySet DEF CountsInv
<1>8. ReportedInv
  <2>1. OkReported = {} /\ FailedReported = {} /\ totals.ok = 0 /\ totals.failed = 0
    BY <1>2, <1>4 DEF OkReported, FailedReported, Zero
  <2> QED
    BY <2>1, FS_EmptySet DEF ReportedInv
<1> QED
  BY <1>1, <1>5, <1>6, <1>7, <1>8 DEF RInv

\* Every record that was passed on is in one of the places it can be, and the counters
\* and the totals count the records.
THEOREM RecordsInvariance == Spec => []RInv
<1>1. Init => RInv
  BY RInit
<1>2. RInv /\ [Next]_vars => RInv'
  BY StepInv, StartedStep, WhereStep, CountsStep, ReportedStep DEF RInv
<1> QED
  BY <1>1, <1>2, PTL DEF Spec

\* When internalRun returns, the CSV holds the counted records and nothing else.
LEMMA AllWritten ==
  ASSUME RInv, mpc = "done"
  PROVE  /\ file = Counted /\ OkReported = {r \in file : r.ok} /\ FailedReported = {r \in file : ~r.ok}
         /\ \A g \in Goroutines : ipc[g] \in {"none", "done"}
         /\ \A f \in Drivers : iat[f] = conf.count[f]
<1>1. IInv
  BY DEF RInv
<1>2. \A f \in Drivers : dpc[f] = "done"
  BY <1>1 DEF IInv, PhaseInv
<1>3. \A g \in Goroutines : ipc[g] \in {"none", "done"}
  BY <1>1, RunningPhase
<1>4. Uncounted = {}
  BY <1>3, RecordFields DEF Uncounted
<1>5. Counted = OnTheWay \cup file
  BY <1>4 DEF RInv, WhereInv
<1>6. \A r \in Counted : r \in RecordSet /\ r.inv[1] \in Drivers /\ r.ok \in BOOLEAN
  BY RecordFields DEF Counted
<1>7. OkReported = {r \in Counted : r.ok} /\ FailedReported = {r \in Counted : ~r.ok}
  BY <1>2, <1>6 DEF OkReported, FailedReported
<1>8. file = Counted
  <2>1. CASE totals.ok + totals.failed = 0
    <3>1. totals.ok \in Nat /\ totals.failed \in Nat
      BY <1>1, CountFields DEF IInv, TypeOK
    <3>2. totals.ok = 0 /\ totals.failed = 0
      BY <2>1, <3>1
    <3>3. OkReported = {} /\ FailedReported = {}
      BY <3>2, FS_EmptySet DEF RInv, ReportedInv
    <3>4. Counted = {}
      BY <1>7, <3>3
    <3> QED
      BY <1>5, <3>4
  <2>2. CASE totals.ok + totals.failed # 0
    <3>1. cpc = "done" /\ records = <<>>
      BY <1>1, <2>2 DEF IInv, RecordsInv, CollectorInv
    <3>2. queue = <<>> /\ \A w \in Workers : apc[w] = "none"
      BY <1>1, <3>1 DEF IInv, CollectorInv, PhaseInv
    <3>3. OnTheWay = {}
      BY <3>1, <3>2, ElementsEmpty DEF OnTheWay, Held, Pushed
    <3> QED
      BY <1>5, <3>3
  <2> QED
    BY <2>1, <2>2
<1>9. \A f \in Drivers : iat[f] = conf.count[f]
  BY <1>1, <1>2 DEF IInv, DriverInv
<1> QED
  BY <1>3, <1>7, <1>8, <1>9

\* A goroutine that has started and ended has a row for every node it came to.
LEMMA RowOfNode ==
  ASSUME RInv, ~conf.test, NEW g \in Goroutines, ipc[g] = "done",
         NEW k \in DOMAIN conf.nodes[g[3]], k <= node[g]
  PROVE  \E r \in Counted : r.inv = g /\ r.node = k
<1>1. conf.nodes[g[3]] \in Seq(SUBSET Lists)
  BY GoroutineType, ConfigType DEF RInv, IInv
<1>2. k \in Nat \ {0} /\ node[g] \in Nat
  BY <1>1 DEF RInv, IInv, TypeOK
<1>3. CASE k < node[g]
  <2> DEFINE r == [inv |-> g, node |-> k, ok |-> TRUE]
  <2>1. r \in RecordSet
    BY <1>2 DEF RecordSet
  <2>2. CountedAt(r.inv, r.node, r.ok)
    BY <1>3 DEF CountedAt
  <2>3. r.inv = g /\ r.node = k
    OBVIOUS
  <2> HIDE DEF r
  <2> QED
    BY <2>1, <2>2, <2>3 DEF Counted
<1>4. CASE k = node[g]
  <2> DEFINE r == [inv |-> g, node |-> k, ok |-> FALSE]
  <2>1. r \in RecordSet
    BY <1>2 DEF RecordSet
  <2>2. CountedAt(r.inv, r.node, r.ok)
    BY <1>4 DEF CountedAt
  <2>3. r.inv = g /\ r.node = k
    OBVIOUS
  <2> HIDE DEF r
  <2> QED
    BY <2>1, <2>2, <2>3 DEF Counted
<1> QED
  BY <1>2, <1>3, <1>4

\* When internalRun returns, the CSV has exactly one row for every record that was
\* counted, its failed and successful rows are the totals that are logged, and every
\* invocation of the trace has its row: for any trace, DAG, mode and interleaving.
THEOREM NoRecordLost == Spec => []NothingLost
<1>1. ASSUME RInv PROVE NothingLost
  <2>1. SUFFICES ASSUME mpc = "done"
                 PROVE  /\ Cardinality(file) = totals.issued
                        /\ Cardinality({r \in file : r.ok}) = totals.ok
                        /\ Cardinality({r \in file : ~r.ok}) = totals.failed
                        /\ \A f \in Drivers : \A i \in 0 .. conf.count[f] - 1 :
                             \E r \in file : r.inv = <<f, i, conf.root[f]>> /\ r.node = 1
    BY DEF NothingLost
  <2> DEFINE Ok == {r \in file : r.ok}
             Failed == {r \in file : ~r.ok}
  <2>2. /\ file = Counted /\ OkReported = Ok /\ FailedReported = Failed
        /\ \A g \in Goroutines : ipc[g] \in {"none", "done"}
        /\ \A f \in Drivers : iat[f] = conf.count[f]
    BY <1>1, <2>1, AllWritten
  <2>3. /\ IsFiniteSet(Ok) /\ Cardinality(Ok) = totals.ok
        /\ IsFiniteSet(Failed) /\ Cardinality(Failed) = totals.failed
    BY <1>1, <2>2 DEF RInv, ReportedInv
  <2>4. Cardinality(file) = totals.issued
    <3>1. Ok \cup Failed = file /\ Ok \cap Failed = {}
      OBVIOUS
    <3>2. Cardinality(Ok \cup Failed) = Cardinality(Ok) + Cardinality(Failed) - Cardinality(Ok \cap Failed)
      BY <2>3, FS_Union
    <3>3. Cardinality(Ok \cap Failed) = 0
      BY <3>1, FS_EmptySet
    <3>4. totals.issued = totals.ok + totals.failed /\ totals.ok \in Nat /\ totals.failed \in Nat
      BY <1>1, CountFields DEF RInv, IInv, TypeOK, TotalsInv
    <3>5. Cardinality(file) = Cardinality(Ok \cup Failed)
      BY <3>1
    <3> HIDE DEF Ok, Failed
    <3>6. Cardinality(file) = totals.ok + totals.failed - 0
      BY <2>3, <3>2, <3>3, <3>5
    <3> QED
      BY <3>4, <3>6
  <2>5. ASSUME NEW f \in Drivers, NEW i \in 0 .. conf.count[f] - 1
        PROVE  \E r \in Counted : r.inv = <<f, i, conf.root[f]>> /\ r.node = 1
    <3>1. conf.count[f] \in 0 .. MaxInvocations /\ conf.root[f] \in Lists
      BY <1>1, ConfigType DEF RInv, IInv
    <3>2. i \in 0 .. MaxInvocations - 1
      BY <2>5, <3>1, DriverAssumption
    <3>a. <<f, i, conf.root[f]>> \in Goroutines
      BY <3>1, <3>2, GoroutineOf
    <3>3. PICK g \in Goroutines : g = <<f, i, conf.root[f]>> /\ g[1] = f /\ g[2] = i /\ g[3] = conf.root[f]
      BY <3>a
    <3>4. i < iat[f] /\ i \in 0 .. iat[f] - 1
      BY <2>2, <2>5, <3>1
    <3>5. CASE conf.test
      <4> DEFINE r == [inv |-> g, node |-> 1, ok |-> TRUE]
      <4>1. r \in RecordSet
        BY DEF RecordSet
      <4>2. CountedAt(r.inv, r.node, r.ok)
        BY <3>3, <3>4, <3>5 DEF CountedAt
      <4> QED
        <5>1. r.inv = g /\ r.node = 1
          OBVIOUS
        <5> HIDE DEF r
        <5> QED
          BY <3>3, <4>1, <4>2, <5>1 DEF Counted
    <3>6. CASE ~conf.test
      <4>1. ipc[g] # "none"
        BY <1>1, <3>3, <3>4, <3>6 DEF RInv, StartedInv
      <4>2. ipc[g] = "done"
        BY <2>2, <4>1
      <4>3. 1 \in DOMAIN conf.nodes[g[3]]
        <5>1. IsConfig(conf)
          BY <1>1, ConfigAssumption DEF RInv, IInv, TypeOK
        <5>2. conf.nodes[g[3]] # <<>> /\ conf.nodes[g[3]] \in Seq(SUBSET Lists)
          BY <3>1, <3>3, <5>1 DEF IsConfig
        <5> QED
          BY <5>2
      <4>4. 1 <= node[g]
        BY <1>1 DEF RInv, IInv, TypeOK
      <4> QED
        BY <1>1, <3>3, <3>6, <4>2, <4>3, <4>4, RowOfNode
    <3> QED
      BY <3>5, <3>6
  <2> QED
    BY <2>2, <2>3, <2>4, <2>5
<1> QED
  BY <1>1, RecordsInvariance, PTL

\* The CSV of a DAG run shows whole executions: a node has one row, and the next node
\* and the branches of a node have rows if and only if its own row is a success.
THEOREM DagRunsComplete == Spec => []DagRowsComplete
<1>1. ASSUME RInv PROVE DagRowsComplete
  <2>1. SUFFICES ASSUME mpc = "done", ~conf.test, NEW r \in file
                 PROVE  /\ \A s \in file : s.inv = r.inv /\ s.node = r.node => s = r
                        /\ r.node + 1 \in DOMAIN conf.nodes[r.inv[3]] => (HasRow(r.inv, r.node + 1) <=> r.ok)
                        /\ \A b \in conf.nodes[r.inv[3]][r.node] :
                             HasRow(<<r.inv[1], r.inv[2], b>>, 1) <=> r.ok
    BY DEF DagRowsComplete
  <2>2. /\ file = Counted /\ \A g \in Goroutines : ipc[g] \in {"none", "done"}
    BY <1>1, <2>1, AllWritten
  <2>3. IInv /\ StartedInv /\ IsConfig(conf)
    BY <1>1, ConfigAssumption DEF RInv, IInv, TypeOK
  \* At the end a row is a success if the goroutine went on, a failure if it gave up there.
  <2>4. ASSUME NEW s \in file
        PROVE  /\ s \in RecordSet /\ s.inv \in Goroutines /\ s.node \in Nat \ {0}
               /\ s.inv[1] \in Drivers /\ s.inv[3] \in Lists /\ node[s.inv] \in Nat
               /\ conf.nodes[s.inv[3]] \in Seq(SUBSET Lists)
               /\ s.ok => s.node < node[s.inv]
               /\ ~s.ok => s.node = node[s.inv] /\ s.node \in DOMAIN conf.nodes[s.inv[3]]
               /\ ipc[s.inv] = "done" /\ s.node \in DOMAIN conf.nodes[s.inv[3]]
    <3>1. s \in RecordSet /\ CountedAt(s.inv, s.node, s.ok)
      BY <2>2 DEF Counted
    <3>2. /\ s.inv \in Goroutines /\ s.node \in Nat \ {0} /\ s.inv[1] \in Drivers
          /\ s.inv[3] \in Lists
      BY <3>1, RecordFields
    <3>3. /\ node[s.inv] \in Nat \ {0} /\ conf.nodes[s.inv[3]] \in Seq(SUBSET Lists)
          /\ ipc[s.inv] = "none" => node[s.inv] = 1
          /\ ipc[s.inv] \in {"none", "done"} /\ node[s.inv] <= Len(conf.nodes[s.inv[3]]) + 1
      BY <2>2, <2>3, <3>2 DEF IInv, TypeOK, TreeInv, IsConfig, StartedInv
    <3>4. \/ s.ok /\ s.node < node[s.inv]
          \/ ~s.ok /\ s.node = node[s.inv] /\ ipc[s.inv] = "done" /\ s.node \in DOMAIN conf.nodes[s.inv[3]]
      BY <2>1, <3>1, <3>3 DEF CountedAt
    <3>5. ipc[s.inv] = "done"
      BY <3>2, <3>3, <3>4
    <3>6. s.node \in DOMAIN conf.nodes[s.inv[3]]
      BY <3>2, <3>3, <3>4
    <3> QED
      BY <3>1, <3>2, <3>3, <3>4, <3>5, <3>6
  <2>5. ASSUME NEW s \in file, s.inv = r.inv, s.node = r.node PROVE s = r
    <3>1. s.ok <=> r.ok
      BY <2>4, <2>5
    <3> QED
      BY <2>4, <2>5, <3>1, RecordEqual
  <2>6. ASSUME r.node + 1 \in DOMAIN conf.nodes[r.inv[3]]
        PROVE  HasRow(r.inv, r.node + 1) <=> r.ok
    <3>1. ASSUME r.ok PROVE HasRow(r.inv, r.node + 1)
      <4>1. r.node + 1 <= node[r.inv]
        BY <2>4, <3>1
      <4>2. \E s \in Counted : s.inv = r.inv /\ s.node = r.node + 1
        BY <1>1, <2>1, <2>4, <2>6, <4>1, RowOfNode
      <4> QED
        BY <2>2, <4>2 DEF HasRow
    <3>2. ASSUME ~r.ok, HasRow(r.inv, r.node + 1) PROVE FALSE
      <4>1. PICK s \in file : s.inv = r.inv /\ s.node = r.node + 1
        BY <3>2 DEF HasRow
      <4>2. s.node <= node[r.inv] /\ r.node = node[r.inv]
        BY <2>4, <3>2, <4>1
      <4> QED
        BY <2>4, <4>1, <4>2
    <3> QED
      BY <3>1, <3>2
  <2>7. ASSUME NEW b \in conf.nodes[r.inv[3]][r.node]
        PROVE  HasRow(<<r.inv[1], r.inv[2], b>>, 1) <=> r.ok
    <3>1. r.inv[2] \in 0 .. MaxInvocations - 1 /\ b \in Lists
      BY <2>4, <2>7, GoroutineType
    <3>a. <<r.inv[1], r.inv[2], b>> \in Goroutines
      BY <2>4, <3>1, GoroutineOf
    <3>2. PICK h \in Goroutines : /\ h = <<r.inv[1], r.inv[2], b>> /\ h[1] = r.inv[1]
                                  /\ h[2] = r.inv[2] /\ h[3] = b
      BY <3>a
    <3>3. ASSUME r.ok PROVE HasRow(h, 1)
      <4>1. ipc[h] # "none"
        BY <2>3, <2>4, <2>7, <3>2, <3>3 DEF StartedInv
      <4>2. ipc[h] = "done" /\ 1 <= node[h]
        BY <2>2, <2>3, <4>1 DEF IInv, TypeOK
      <4>3. conf.nodes[b] # <<>> /\ conf.nodes[b] \in Seq(SUBSET Lists)
        BY <2>3, <2>4, <2>7, <3>1 DEF IsConfig
      <4>4. 1 \in DOMAIN conf.nodes[h[3]]
        BY <3>2, <4>3
      <4>5. \E s \in Counted : s.inv = h /\ s.node = 1
        BY <1>1, <2>1, <4>2, <4>4, RowOfNode
      <4> QED
        BY <2>2, <4>5 DEF HasRow
    <3>4. ASSUME ~r.ok, HasRow(h, 1) PROVE FALSE
      <4>1. ipc[h] # "none"
        BY <2>4, <3>4 DEF HasRow
      <4>2. b # conf.root[h[1]]
        BY <2>3, <2>4, <2>7, <3>2 DEF IsConfig
      <4>3. PICK p \in Goroutines : \E k \in DOMAIN conf.nodes[p[3]] : Starts(p, k, h)
        BY <2>3, <3>2, <4>1, <4>2 DEF IInv, TreeInv, Began
      <4>4. PICK k \in DOMAIN conf.nodes[p[3]] : Starts(p, k, h)
        BY <4>3
      <4>5. p[3] \in Lists /\ b \in conf.nodes[p[3]][k] /\ k < node[p] /\ p[1] = h[1] /\ p[2] = h[2]
        BY <3>2, <4>4, GoroutineType DEF Starts
      <4>6. p[3] = r.inv[3] /\ k = r.node
        BY <2>3, <2>4, <2>7, <4>4, <4>5 DEF IsConfig
      <4>7. p = r.inv
        BY <2>4, <3>2, <4>5, <4>6, GoroutineType
      <4> QED
        BY <2>4, <3>4, <4>5, <4>6, <4>7
    <3> QED
      BY <3>2, <3>3, <3>4
  <2> QED
    BY <2>5, <2>6, <2>7
<1> QED
  BY <1>1, RecordsInvariance, PTL

=============================================================================
