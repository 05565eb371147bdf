----------------------- MODULE ExperimentDriverProofs -----------------------
(* Proofs about ExperimentDriver, for any sweep and any number of loaders:   *)
(* its type invariant, EachFunctionOnce and SupportedNamesRight.             *)
EXTENDS ExperimentDriver, FiniteSetTheorems, TLAPS

-----------------------------------------------------------------------------
(* The inductive invariant                                                   *)

TraceSet == Nat \X SUBSET Nat

ConfigInv ==
  /\ loaders \in 1 .. MaxLoaders /\ warmup \in 0 .. MaxWarmup /\ separate \in BOOLEAN
  /\ pc # "finished" => exp \in Experiments
  /\ pc # "fatal" => cause = "none"

StateTypes ==
  /\ parts \in [AllLoaders -> SUBSET Nat]
  /\ trace \in [AllLoaders -> TraceSet]
  /\ register \in [AllLoaders -> Int]

(* Each phase rests on what all goroutines of the one before have done.      *)
PartsInv ==
  /\ \A l \in AllLoaders : step[l] = "running" => pc = "load"
  /\ pc \in {"transfer", "prepare", "load"} => \A l \in Loaders : parts[l] = writePartialTraceFile(l)
  /\ \A l \in Loaders :
       pc \in {"prepare", "load"} \/ (pc = "transfer" /\ step[l] = "done") => trace[l] = <<exp, parts[l]>>

(* durationInt has grown by the warm-up at most once for each goroutine that *)
(* has stored it, although stores can be lost.                               *)
Stored == {l \in Loaders : step[l] \in {"name", "done"}}
Bounded(d) == d \in Int /\ ExperimentDuration <= d /\ d <= ExperimentDuration + Cardinality(Stored) * warmup

DurationInv ==
  pc = "collect" =>
    /\ Bounded(durationInt)
    /\ \A l \in Loaders : step[l] \in {"add", "name"} => Bounded(register[l])

(* With one loader, or without warm-up, no store is lost or repeated.        *)
Supported == loaders = 1 \/ warmup = 0

ResultsInv ==
  /\ pc = "collect" /\ Supported => \A l \in Loaders :
       /\ step[l] = "go" => durationInt = ExperimentDuration
       /\ step[l] = "add" => register[l] = ExperimentDuration
       /\ step[l] = "name" => register[l] = TraceDuration /\ durationInt = TraceDuration
  /\ SupportedNamesRight

EInv == TypeOK /\ ConfigInv /\ StateTypes /\ PartsInv /\ DurationInv /\ ResultsInv

-----------------------------------------------------------------------------
(* Numbers                                                                   *)

LEMMA Quotient ==
  ASSUME NEW n \in Nat, NEW d \in Nat, d > 0
  PROVE  /\ n \div d \in Nat
         /\ (n \div d) * d <= n
         /\ n < (n \div d) * d + d
  <1>1. n \div d \in Int /\ n % d \in 0 .. d - 1  OBVIOUS
  <1>2. n = d * (n \div d) + (n % d)  OBVIOUS
  <1>3. n \div d >= 0  BY <1>1, <1>2
  <1> QED BY <1>1, <1>2, <1>3

LEMMA SweepTypes ==
  /\ Step \in Nat /\ Step > 0 /\ NumExperiments \in Nat
  /\ \A x \in Nat \ {0} :
       functions(x) \in Nat /\ functions(x + 1) \in Nat /\ functions(x) <= functions(x + 1)
  <1>1. Step \in Nat /\ Step > 0  BY DriverAssumption DEF Step, Greater
  <1>2. NumExperiments \in Nat
    <2>1. CASE MaxFuncNum < BeginningFuncNum  BY <2>1 DEF NumExperiments
    <2>2. CASE ~(MaxFuncNum < BeginningFuncNum)
      <3>1. MaxFuncNum - BeginningFuncNum \in Nat  BY <2>2, DriverAssumption
      <3>2. (MaxFuncNum - BeginningFuncNum) \div Step \in Nat  BY <1>1, <3>1, Quotient
      <3> QED BY <2>2, <3>2 DEF NumExperiments
    <2> QED BY <2>1, <2>2
  <1>3. ASSUME NEW x \in Nat \ {0}
        PROVE  functions(x) \in Nat /\ functions(x + 1) \in Nat /\ functions(x) <= functions(x + 1)
    <2>1. x - 1 \in Nat /\ (x + 1) - 1 = x  OBVIOUS
    <2>2. (x - 1) * Step \in Nat /\ x * Step \in Nat  BY <1>1, <2>1
    <2>3. x * Step = (x - 1) * Step + Step  BY <1>1, <2>1
    <2> QED BY <1>1, <2>1, <2>2, <2>3, DriverAssumption DEF functions
  <1> QED BY <1>1, <1>2, <1>3

(* partitionTraceFiles gives every function of the trace to exactly one      *)
(* loader, whatever the number of loaders and of functions.                  *)
LEMMA PartitionIsExact ==
  ASSUME loaders \in Nat, loaders > 0, exp \in Nat \ {0}
  PROVE  /\ \A l \in Loaders : writePartialTraceFile(l) \subseteq 1 .. functions(exp)
         /\ \A f \in 1 .. functions(exp) : \E l \in Loaders :
              /\ f \in writePartialTraceFile(l)
              /\ \A m \in Loaders \ {l} : f \notin writePartialTraceFile(m)
  <1> DEFINE n == functions(exp)
             F == functionsPerLoader
  <1>1. n \in Nat  BY SweepTypes
  <1>2. F \in Nat /\ n + loaders - 1 < F * loaders + loaders
    <2>1. n + loaders - 1 \in Nat  BY <1>1
    <2> QED BY <1>1, <2>1, Quotient DEF functionsPerLoader
  <1>3. n <= F * loaders
    <2>1. F * loaders \in Nat  BY <1>2
    <2> QED BY <1>1, <1>2, <2>1
  <1> HIDE DEF n, F
  <1>4. \A l \in Loaders : l \in Nat /\ l < loaders  BY DEF Loaders
  <1>5. ASSUME NEW l \in Loaders
        PROVE  /\ l * F \in Nat
               /\ writePartialTraceFile(l) =
                    1 + l * F .. (IF 1 + l * F + F < n + 1 THEN 1 + l * F + F ELSE n + 1) - 1
    BY <1>2, <1>4 DEF writePartialTraceFile, startIdx, endIdx, n, F
  <1>6. ASSUME NEW l \in Loaders
        PROVE  /\ writePartialTraceFile(l) \subseteq 1 .. n
               /\ \A f \in 1 .. n :
                    f \in writePartialTraceFile(l) <=> (l * F <= f - 1 /\ f - 1 < l * F + F)
    BY <1>1, <1>2, <1>5
  <1>7. ASSUME NEW f \in 1 .. n
        PROVE  \E l \in Loaders :
                 /\ f \in writePartialTraceFile(l)
                 /\ \A m \in Loaders \ {l} : f \notin writePartialTraceFile(m)
    <2>1. f - 1 \in Nat /\ n > 0  BY <1>1
    <2>2. F > 0
      <3>1. SUFFICES ASSUME F = 0 PROVE FALSE  BY <1>2
      <3>2. F * loaders = 0  BY <3>1
      <3> QED BY <1>1, <1>3, <2>1, <3>2
    <2> DEFINE q == (f - 1) \div F
    <2>3. q \in Nat /\ q * F <= f - 1 /\ f - 1 < q * F + F  BY <1>2, <2>1, <2>2, Quotient
    <2> HIDE DEF q
    <2>4. q < loaders
      <3>1. SUFFICES ASSUME loaders <= q PROVE FALSE  BY <2>3
      <3>2. F * loaders <= q * F  BY <1>2, <2>3, <3>1
      <3>3. F * loaders \in Nat /\ q * F \in Nat  BY <1>2, <2>3
      <3> QED BY <1>1, <1>3, <2>1, <2>3, <3>2, <3>3
    <2>5. q \in Loaders  BY <2>3, <2>4 DEF Loaders
    <2>6. f \in writePartialTraceFile(q)  BY <1>6, <2>3, <2>5
    <2>7. ASSUME NEW m \in Loaders, m # q, f \in writePartialTraceFile(m) PROVE FALSE
      <3>1. m \in Nat /\ m * F <= f - 1 /\ f - 1 < m * F + F  BY <1>4, <1>6, <2>7
      <3>2. m * F \in Nat /\ q * F \in Nat  BY <1>2, <2>3, <3>1
      <3>3. CASE m < q
        <4>1. m + 1 <= q  BY <2>3, <3>1, <3>3
        <4>2. (m + 1) * F <= q * F  BY <1>2, <2>3, <3>1, <4>1
        <4>3. (m + 1) * F = m * F + F  BY <1>2, <3>1
        <4> QED BY <1>2, <2>1, <2>3, <3>1, <3>2, <4>2, <4>3
      <3>4. CASE q < m
        <4>1. q + 1 <= m  BY <2>3, <3>1, <3>4
        <4>2. (q + 1) * F <= m * F  BY <1>2, <2>3, <3>1, <4>1
        <4>3. (q + 1) * F = q * F + F  BY <1>2, <2>3
        <4> QED BY <1>2, <2>1, <2>3, <3>1, <3>2, <4>2, <4>3
      <3> QED BY <2>3, <2>7, <3>1, <3>3, <3>4
    <2> QED BY <2>5, <2>6, <2>7
  <1> QED BY <1>6, <1>7 DEF n

(* No warm-up added at most once per loader leaves Durations.                *)
LEMMA AddedOncePerLoader ==
  ASSUME NEW n \in 1 .. MaxLoaders, NEW w \in 0 .. MaxWarmup, NEW S, S \subseteq 0 .. n - 1,
         NEW d \in Int, ExperimentDuration <= d, d <= ExperimentDuration + Cardinality(S) * w
  PROVE  d \in Durations
  <1>1. /\ n \in Nat /\ n <= MaxLoaders /\ w \in Nat /\ w <= MaxWarmup
        /\ MaxLoaders \in Nat /\ MaxWarmup \in Nat /\ ExperimentDuration \in Nat
    BY DriverAssumption
  <1>2. IsFiniteSet(0 .. n - 1) /\ Cardinality(0 .. n - 1) <= n
    <2>1. 0 \in Int /\ n - 1 \in Int  BY <1>1
    <2>2. /\ IsFiniteSet(0 .. n - 1)
          /\ Cardinality(0 .. n - 1) = IF 0 > n - 1 THEN 0 ELSE n - 1 - 0 + 1
      BY <2>1, FS_Interval
    <2> QED BY <1>1, <2>2
  <1>3. /\ IsFiniteSet(S) /\ Cardinality(S) \in Nat
        /\ Cardinality(S) <= Cardinality(0 .. n - 1)
    <2>1. IsFiniteSet(S) /\ Cardinality(S) <= Cardinality(0 .. n - 1)  BY <1>2, FS_Subset
    <2> QED BY <2>1, FS_CardinalityType
  <1>4. Cardinality(0 .. n - 1) \in Nat  BY <1>2, FS_CardinalityType
  <1> DEFINE s == Cardinality(S)
  <1>5. s \in Nat /\ s <= MaxLoaders + 1  BY <1>1, <1>2, <1>3, <1>4
  <1> HIDE DEF s
  <1>6. s * w <= (MaxLoaders + 1) * w  BY <1>1, <1>5
  <1>7. (MaxLoaders + 1) * w <= (MaxLoaders + 1) * (MaxWarmup + 1)  BY <1>1
  <1>8. /\ s * w \in Nat /\ (MaxLoaders + 1) * w \in Nat
        /\ (MaxLoaders + 1) * (MaxWarmup + 1) \in Nat
    BY <1>1, <1>5
  <1>9. ExperimentDuration <= d /\ d <= ExperimentDuration + s * w  BY DEF s
  <1> QED BY <1>1, <1>6, <1>7, <1>8, <1>9 DEF Durations

LEMMA BoundedIsDuration ==
  ASSUME NEW d, Bounded(d), ConfigInv
  PROVE  d \in Durations
  <1>1. Stored \subseteq 0 .. loaders - 1  BY DEF Stored, Loaders
  <1> QED BY <1>1, AddedOncePerLoader DEF Bounded, ConfigInv

LEMMA TraceDurationType ==
  ASSUME ConfigInv
  PROVE  TraceDuration \in Durations /\ ExperimentDuration \in Durations
  <1>1. /\ warmup \in Nat /\ warmup <= MaxWarmup
        /\ MaxLoaders \in Nat /\ MaxWarmup \in Nat /\ ExperimentDuration \in Nat
    BY DriverAssumption DEF ConfigInv
  <1>2. MaxWarmup + 1 <= (MaxLoaders + 1) * (MaxWarmup + 1)
        /\ (MaxLoaders + 1) * (MaxWarmup + 1) \in Nat
    BY <1>1
  <1> QED BY <1>1, <1>2 DEF TraceDuration, Durations

LEMMA DurationsAreNumbers == Durations \subseteq Nat
  <1>1. /\ ExperimentDuration \in Nat
        /\ ExperimentDuration + (MaxLoaders + 1) * (MaxWarmup + 1) \in Nat
    BY DriverAssumption
  <1> QED BY <1>1 DEF Durations

LEMMA LoadersType ==
  ASSUME ConfigInv
  PROVE  loaders \in Nat /\ loaders > 0 /\ Loaders \subseteq AllLoaders
  BY DriverAssumption DEF ConfigInv, Loaders, AllLoaders

(* What a step leaves alone; WaitGroup phases change few variables each.     *)
LEMMA TypesKept ==
  ASSUME EInv, [Next]_vars
  PROVE  ConfigInv' /\ StateTypes'
  <1> USE DEF EInv
  <1>1. /\ Loaders \subseteq AllLoaders /\ TraceDuration \in Durations /\ ConfigInv /\ StateTypes
        /\ NumExperiments \in Nat /\ exp \in 1 .. Greater(1, NumExperiments)
    BY LoadersType, TraceDurationType, SweepTypes DEF TypeOK
  <1>2. UNCHANGED config
    BY DEF Next, DriverStep, LoaderStep, Ended, CommandFails, connectToLoader, partitionTraceFiles,
           TransfersDone, LoadersPrepared, LoadsDone, CollectDone, aggregateStats, CleanDone,
           transferFilesToLoader, prepareLoader, RunLoader, LoaderEnds, LoadDuration, StoreDuration,
           Download, clean, vars
  <1>3. UNCHANGED <<loaders, warmup, separate>> /\ Loaders' = Loaders
    BY <1>2 DEF config, Loaders
  <1> USE DEF remote, collect
  <1>4. CASE \/ CommandFails \/ connectToLoader \/ TransfersDone \/ CollectDone \/ aggregateStats
             \/ Ended \/ LoadsDone \/ LoadersPrepared \/ UNCHANGED vars
    <2> USE <1>4 DEF CommandFails, connectToLoader, TransfersDone, CollectDone, aggregateStats, Ended,
                     LoadsDone, LoadersPrepared, Begin, Fatal, AllDone, vars
    <2>1. ConfigInv'  BY <1>1, <1>3 DEF ConfigInv
    <2>2. StateTypes'  BY <1>1, <1>3 DEF StateTypes
    <2> QED BY <2>1, <2>2
  <1>5. CASE partitionTraceFiles
    <2>1. ConfigInv'  BY <1>1, <1>3, <1>5 DEF ConfigInv, partitionTraceFiles, Begin
    <2>2. pc # "finished" /\ exp \in Nat \ {0}
      BY <1>1, <1>5 DEF partitionTraceFiles, ConfigInv, Experiments
    <2>3. \A l \in Loaders : writePartialTraceFile(l) \subseteq 1 .. functions(exp)
      BY <1>1, <2>2, LoadersType, PartitionIsExact
    <2>4. 1 .. functions(exp) \subseteq Nat  BY <2>2, SweepTypes
    <2>5. parts' \in [AllLoaders -> SUBSET Nat]
      BY <1>5, <2>3, <2>4 DEF partitionTraceFiles
    <2>6. StateTypes'  BY <1>1, <1>3, <1>5, <2>5 DEF StateTypes, partitionTraceFiles
    <2> QED BY <2>1, <2>6
  <1>6. CASE CleanDone
    <2>1. pc = "clean" /\ exp \in Experiments
      BY <1>1, <1>6 DEF CleanDone, AllDone, ConfigInv
    <2>2. ConfigInv'  BY <1>1, <1>3, <1>6, <2>1 DEF ConfigInv, CleanDone, Experiments
    <2>3. StateTypes'  BY <1>1, <1>3, <1>6 DEF StateTypes, CleanDone
    <2> QED BY <2>2, <2>3
  <1>7. ASSUME NEW l \in Loaders, LoaderStep(l) PROVE ConfigInv' /\ StateTypes'
    <2>1. ConfigInv'
      BY <1>1, <1>3, <1>7
      DEF LoaderStep, ConfigInv, transferFilesToLoader, prepareLoader, RunLoader, LoaderEnds,
          LoadDuration, StoreDuration, Download, clean, Fatal
    <2>2. CASE transferFilesToLoader(l)
      <3>1. exp \in Nat /\ parts[l] \in SUBSET Nat
        BY <1>1, SweepTypes DEF StateTypes, Greater
      <3>2. <<exp, parts[l]>> \in TraceSet  BY <3>1 DEF TraceSet
      <3> QED BY <1>1, <1>3, <2>1, <2>2, <3>2 DEF StateTypes, transferFilesToLoader
    <2>3. CASE prepareLoader(l)
      BY <1>1, <1>3, <2>1, <2>3 DEF StateTypes, prepareLoader
    <2>4. CASE LoaderEnds(l)
      BY <1>1, <1>3, <2>1, <2>4 DEF StateTypes, LoaderEnds
    <2>5. CASE LoadDuration(l)
      <3>1. durationInt \in {0} \cup Durations  BY DEF TypeOK
      <3>2. durationInt \in Int  BY <3>1, DurationsAreNumbers
      <3> QED BY <1>1, <1>3, <2>1, <2>5, <3>2 DEF StateTypes, LoadDuration
    <2>6. CASE StoreDuration(l)
      <3>1. AddWarmup(l) \in Int  BY <1>1 DEF AddWarmup, StateTypes, ConfigInv
      <3> QED BY <1>1, <1>3, <2>1, <2>6, <3>1 DEF StateTypes, StoreDuration
    <2>7. CASE RunLoader(l) \/ Download(l) \/ clean(l)
      BY <1>1, <1>3, <2>1, <2>7 DEF StateTypes, RunLoader, Download, clean
    <2> QED BY <1>7, <2>2, <2>3, <2>4, <2>5, <2>6, <2>7 DEF LoaderStep
  <1> QED BY <1>4, <1>5, <1>6, <1>7 DEF Next, DriverStep

LEMMA PartsKept ==
  ASSUME EInv, [Next]_vars
  PROVE  PartsInv'
  <1> USE DEF EInv
  <1>1. /\ Loaders \subseteq AllLoaders /\ PartsInv
        /\ step \in [AllLoaders -> {"idle", "go", "running", "add", "name", "done"}]
        /\ parts \in [AllLoaders -> SUBSET Nat]
        /\ trace \in [AllLoaders -> TraceSet]
    BY LoadersType DEF TypeOK, StateTypes
  <1> USE DEF remote, config
  <1>2. ASSUME UNCHANGED <<loaders, exp>>
        PROVE  Loaders' = Loaders /\ \A l \in Loaders : writePartialTraceFile(l)' = writePartialTraceFile(l)
    BY <1>2 DEF Loaders, writePartialTraceFile, startIdx, endIdx, functionsPerLoader
  <1>3. CASE UNCHANGED vars
    BY <1>1, <1>2, <1>3 DEF vars, PartsInv
  <1>4. CASE CommandFails \/ connectToLoader \/ CollectDone \/ aggregateStats \/ Ended
    <2>1. CASE Ended  BY <1>1, <1>2, <2>1 DEF Ended, vars, PartsInv
    <2>2. CASE CommandFails \/ connectToLoader \/ CollectDone \/ aggregateStats
      <3>1. \A l \in AllLoaders : step[l] # "running"
        BY <1>1, <2>2
        DEF PartsInv, CommandFails, connectToLoader, CollectDone, aggregateStats, AllDone
      <3>2. \A l \in AllLoaders : step'[l] # "running"
        BY <2>2, <3>1 DEF CommandFails, connectToLoader, CollectDone, aggregateStats, Begin
      <3>3. pc' \notin {"transfer", "prepare", "load"}
        BY <2>2 DEF CommandFails, connectToLoader, CollectDone, aggregateStats, Begin, Fatal
      <3> QED BY <3>2, <3>3 DEF PartsInv
    <2> QED BY <1>4, <2>1, <2>2
  <1>5. CASE partitionTraceFiles
    <2>1. /\ pc' = "transfer" /\ step' = [l \in AllLoaders |-> "go"] /\ UNCHANGED <<loaders, exp>>
          /\ parts' = [l \in AllLoaders |-> IF l \in Loaders THEN writePartialTraceFile(l) ELSE {}]
      BY <1>5 DEF partitionTraceFiles, Begin
    <2>2. Loaders' = Loaders /\ \A l \in Loaders : writePartialTraceFile(l)' = writePartialTraceFile(l)
      BY <1>2, <2>1
    <2> QED BY <1>1, <2>1, <2>2 DEF PartsInv
  <1>6. CASE TransfersDone
    <2>1. /\ pc' = "prepare" /\ step' = [l \in AllLoaders |-> "go"]
          /\ UNCHANGED <<loaders, exp, parts, trace>>
          /\ pc = "transfer" /\ \A l \in Loaders : step[l] = "done"
      BY <1>6 DEF TransfersDone, Begin, AllDone
    <2>2. Loaders' = Loaders /\ \A l \in Loaders : writePartialTraceFile(l)' = writePartialTraceFile(l)
      BY <1>2, <2>1
    <2> QED BY <1>1, <2>1, <2>2 DEF PartsInv
  <1>7. CASE LoadersPrepared
    <2>1. /\ pc' = "load" /\ step' = [l \in AllLoaders |-> "go"]
          /\ UNCHANGED <<loaders, exp, parts, trace>>
          /\ pc = "prepare" /\ \A l \in Loaders : step[l] = "done"
      BY <1>7 DEF LoadersPrepared, Begin, AllDone
    <2>2. Loaders' = Loaders /\ \A l \in Loaders : writePartialTraceFile(l)' = writePartialTraceFile(l)
      BY <1>2, <2>1
    <2> QED BY <1>1, <2>1, <2>2 DEF PartsInv
  <1>8. CASE LoadsDone
    BY <1>8 DEF LoadsDone, Begin, PartsInv
  <1>9. CASE CleanDone
    BY <1>1, <1>9 DEF CleanDone, AllDone, PartsInv
  <1>10. ASSUME NEW l \in Loaders, transferFilesToLoader(l) PROVE PartsInv'
    <2>1. /\ UNCHANGED <<loaders, exp, pc, parts>> /\ pc = "transfer"
          /\ trace' = [trace EXCEPT ![l] = <<exp, parts[l]>>] /\ step' = [step EXCEPT ![l] = "done"]
      BY <1>10 DEF transferFilesToLoader, Done
    <2>2. Loaders' = Loaders /\ \A m \in Loaders : writePartialTraceFile(m)' = writePartialTraceFile(m)
      BY <1>2, <2>1
    <2>3. \A m \in AllLoaders : step'[m] = "running" => step[m] = "running"  BY <1>1, <2>1
    <2>4. \A m \in Loaders : step'[m] = "done" => trace'[m] = <<exp, parts[m]>>
      BY <1>1, <2>1 DEF PartsInv
    <2> QED BY <1>1, <2>1, <2>2, <2>3, <2>4 DEF PartsInv
  <1>11. ASSUME NEW l \in Loaders, prepareLoader(l) PROVE PartsInv'
    <2>1. /\ UNCHANGED <<loaders, exp, parts, trace>> /\ pc = "prepare" /\ pc' \in {"prepare", "fatal"}
          /\ step' = step \/ step' = [step EXCEPT ![l] = "done"]
      BY <1>11 DEF prepareLoader, Done, Fatal
    <2>2. Loaders' = Loaders /\ \A m \in Loaders : writePartialTraceFile(m)' = writePartialTraceFile(m)
      BY <1>2, <2>1
    <2>3. \A m \in AllLoaders : step'[m] # "running"  BY <1>1, <2>1 DEF PartsInv
    <2> QED BY <1>1, <2>1, <2>2, <2>3 DEF PartsInv
  <1>12. ASSUME NEW l \in Loaders, RunLoader(l) \/ LoaderEnds(l) PROVE PartsInv'
    <2>1. UNCHANGED <<loaders, exp, pc, parts, trace>> /\ pc = "load"
      BY <1>12 DEF RunLoader, LoaderEnds
    <2>2. Loaders' = Loaders /\ \A m \in Loaders : writePartialTraceFile(m)' = writePartialTraceFile(m)
      BY <1>2, <2>1
    <2> QED BY <1>1, <2>1, <2>2 DEF PartsInv
  <1>13. ASSUME NEW l \in Loaders, LoadDuration(l) \/ StoreDuration(l) \/ Download(l) \/ clean(l)
         PROVE  PartsInv'
    <2>1. pc \in {"collect", "clean"} /\ pc' \notin {"transfer", "prepare", "load"}
      BY <1>13 DEF LoadDuration, StoreDuration, Download, clean, Fatal
    <2>2. \A m \in AllLoaders : step[m] # "running"  BY <1>1, <2>1 DEF PartsInv
    <2>3. \A m \in AllLoaders : step'[m] # "running"
      BY <1>1, <1>13, <2>2 DEF LoadDuration, StoreDuration, Download, clean, Done
    <2> QED BY <2>1, <2>3 DEF PartsInv
  <1> QED
    BY <1>3, <1>4, <1>5, <1>6, <1>7, <1>8, <1>9, <1>10, <1>11, <1>12, <1>13
    DEF Next, DriverStep, LoaderStep

(* A goroutine of collectStats that stores durationInt is one more that has. *)
LEMMA DurationKept ==
  ASSUME EInv, [Next]_vars
  PROVE  DurationInv'
  <1> USE DEF EInv
  <1>1. SUFFICES ASSUME pc' = "collect"
                 PROVE  /\ Bounded(durationInt)'
                        /\ \A l \in Loaders' : step'[l] \in {"add", "name"} => Bounded(register[l])'
    BY DEF DurationInv
  <1>2. /\ Loaders \subseteq AllLoaders /\ warmup \in Nat /\ ExperimentDuration \in Nat
        /\ step \in [AllLoaders -> {"idle", "go", "running", "add", "name", "done"}]
        /\ register \in [AllLoaders -> Int]
        /\ loaders \in Nat
    <2>1. Loaders \subseteq AllLoaders /\ loaders \in Nat  BY LoadersType
    <2>2. warmup \in Nat /\ ExperimentDuration \in Nat  BY DriverAssumption DEF ConfigInv
    <2>3. step \in [AllLoaders -> {"idle", "go", "running", "add", "name", "done"}]  BY DEF TypeOK
    <2>4. register \in [AllLoaders -> Int]  BY DEF StateTypes
    <2> QED BY <2>1, <2>2, <2>3, <2>4
  <1>3. IsFiniteSet(Stored) /\ Cardinality(Stored) \in Nat
    <2>1. 0 \in Int /\ loaders - 1 \in Int  BY <1>2
    <2>2. IsFiniteSet(Loaders)  BY <2>1, FS_Interval DEF Loaders
    <2>3. Stored \subseteq Loaders  BY DEF Stored
    <2>4. IsFiniteSet(Stored)  BY <2>2, <2>3, FS_Subset
    <2> QED BY <2>4, FS_CardinalityType
  <1> USE DEF config, remote, collect
  <1>4. ASSUME UNCHANGED <<loaders, warmup>>, Stored' = Stored, NEW d, d' = d, Bounded(d)
        PROVE  Bounded(d)'
    BY <1>4 DEF Bounded
  <1>5. CASE UNCHANGED vars
    <2>1. UNCHANGED <<pc, loaders, warmup, step, register, durationInt>>  BY <1>5 DEF vars
    <2>2. Loaders' = Loaders /\ Stored' = Stored  BY <2>1 DEF Loaders, Stored
    <2> QED BY <1>1, <2>1, <2>2 DEF DurationInv, Bounded
  <1>6. CASE LoadsDone
    <2>1. /\ step' = [l \in AllLoaders |-> "go"] /\ durationInt' = ExperimentDuration
          /\ UNCHANGED <<loaders, warmup>>
      BY <1>6 DEF LoadsDone, Begin
    <2>2. Loaders' = Loaders  BY <2>1 DEF Loaders
    <2>3. Stored' = {}  BY <1>2, <2>1, <2>2 DEF Stored
    <2>4. Cardinality(Stored') = 0  BY <2>3, FS_EmptySet
    <2>5. Cardinality(Stored') * warmup = 0  BY <1>2, <2>4
    <2>6. Bounded(durationInt)'  BY <1>2, <2>1, <2>5 DEF Bounded
    <2> QED BY <1>2, <2>1, <2>2, <2>6
  <1>7. ASSUME NEW l \in Loaders, LoadDuration(l)
        PROVE  /\ Bounded(durationInt)'
               /\ \A m \in Loaders' : step'[m] \in {"add", "name"} => Bounded(register[m])'
    <2>1. /\ pc = "collect" /\ step[l] = "go" /\ UNCHANGED <<loaders, warmup, durationInt>>
          /\ register' = [register EXCEPT ![l] = durationInt] /\ step' = [step EXCEPT ![l] = "add"]
      BY <1>7 DEF LoadDuration
    <2>2. Loaders' = Loaders  BY <2>1 DEF Loaders
    <2>3. /\ step'[l] = "add" /\ register'[l] = durationInt
          /\ \A m \in Loaders : m # l => step'[m] = step[m] /\ register'[m] = register[m]
      BY <1>2, <2>1
    <2>4. Stored' = Stored  BY <2>1, <2>2, <2>3 DEF Stored
    <2>5. Bounded(durationInt)  BY <2>1 DEF DurationInv
    <2>6. Bounded(durationInt)'  BY <2>1, <2>4, <2>5 DEF Bounded
    <2>7. ASSUME NEW m \in Loaders, step'[m] \in {"add", "name"} PROVE Bounded(register[m])'
      <3>1. CASE m = l  BY <2>1, <2>3, <2>4, <2>5, <3>1 DEF Bounded
      <3>2. CASE m # l
        <4>1. Bounded(register[m])  BY <2>1, <2>3, <2>7, <3>2 DEF DurationInv
        <4> QED BY <2>1, <2>3, <2>4, <3>2, <4>1 DEF Bounded
      <3> QED BY <3>1, <3>2
    <2> QED BY <2>2, <2>6, <2>7
  <1>8. ASSUME NEW l \in Loaders, StoreDuration(l)
        PROVE  /\ Bounded(durationInt)'
               /\ \A m \in Loaders' : step'[m] \in {"add", "name"} => Bounded(register[m])'
    <2>1. /\ pc = "collect" /\ step[l] = "add" /\ UNCHANGED <<loaders, warmup>>
          /\ durationInt' = register[l] + warmup
          /\ register' = [register EXCEPT ![l] = register[l] + warmup]
          /\ step' = [step EXCEPT ![l] = "name"]
      BY <1>8 DEF StoreDuration, AddWarmup
    <2>2. Loaders' = Loaders  BY <2>1 DEF Loaders
    <2>3. /\ step'[l] = "name" /\ register'[l] = register[l] + warmup
          /\ \A m \in Loaders : m # l => step'[m] = step[m] /\ register'[m] = register[m]
      BY <1>2, <2>1
    <2>4. Stored' = Stored \cup {l} /\ l \notin Stored  BY <2>1, <2>2, <2>3 DEF Stored
    <2>5. Cardinality(Stored \cup {l}) = Cardinality(Stored) + 1  BY <1>3, <2>4, FS_AddElement
    <2> DEFINE s == Cardinality(Stored)
               t == Cardinality(Stored')
    <2>6. s \in Nat /\ t = s + 1  BY <1>3, <2>4, <2>5
    <2>7. Bounded(register[l])  BY <2>1 DEF DurationInv
    <2>8. /\ register[l] \in Int /\ ExperimentDuration <= register[l]
          /\ register[l] <= ExperimentDuration + s * warmup
      BY <2>7 DEF Bounded
    <2>9. ASSUME NEW r \in Int, ExperimentDuration <= r, r <= ExperimentDuration + s * warmup + warmup
          PROVE  r <= ExperimentDuration + t * warmup
      <3> HIDE DEF s, t
      <3>1. t * warmup = s * warmup + warmup  BY <1>2, <2>6
      <3>2. s * warmup \in Nat  BY <1>2, <2>6
      <3> QED BY <1>2, <2>9, <3>1, <3>2
    <2>10. s * warmup \in Nat
      <3> HIDE DEF s
      <3> QED BY <1>2, <2>6
    <2>11. /\ durationInt' \in Int /\ ExperimentDuration <= durationInt'
           /\ durationInt' <= ExperimentDuration + t * warmup
      <3> HIDE DEF s, t
      <3>1. /\ durationInt' \in Int /\ ExperimentDuration <= durationInt'
            /\ durationInt' <= ExperimentDuration + s * warmup + warmup
        BY <1>2, <2>1, <2>8, <2>10
      <3> QED BY <2>9, <3>1
    <2>12. Bounded(durationInt)'  BY <2>1, <2>11 DEF Bounded
    <2>13. ASSUME NEW m \in Loaders, step'[m] \in {"add", "name"} PROVE Bounded(register[m])'
      <3>1. CASE m = l  BY <2>1, <2>3, <2>11, <3>1 DEF Bounded
      <3>2. CASE m # l
        <4>1. Bounded(register[m])  BY <2>1, <2>3, <2>13, <3>2 DEF DurationInv
        <4>2. /\ register[m] \in Int /\ ExperimentDuration <= register[m]
              /\ register[m] <= ExperimentDuration + s * warmup
          BY <4>1 DEF Bounded
        <4>3. register[m] <= ExperimentDuration + s * warmup + warmup
          <5> HIDE DEF s
          <5> QED BY <1>2, <2>10, <4>2
        <4>4. register[m] <= ExperimentDuration + t * warmup  BY <2>9, <4>2, <4>3
        <4> QED BY <2>1, <2>3, <3>2, <4>2, <4>4 DEF Bounded
      <3> QED BY <3>1, <3>2
    <2> QED BY <2>2, <2>12, <2>13
  <1>9. ASSUME NEW l \in Loaders, Download(l)
        PROVE  /\ Bounded(durationInt)'
               /\ \A m \in Loaders' : step'[m] \in {"add", "name"} => Bounded(register[m])'
    <2>1. /\ pc = "collect" /\ step[l] = "name" /\ UNCHANGED <<loaders, warmup, durationInt, register>>
          /\ step' = [step EXCEPT ![l] = "done"]
      BY <1>1, <1>9 DEF Download, Done, Fatal
    <2>2. Loaders' = Loaders  BY <2>1 DEF Loaders
    <2>3. /\ step'[l] = "done"
          /\ \A m \in Loaders : m # l => step'[m] = step[m]
      BY <1>2, <2>1
    <2>4. Stored' = Stored  BY <2>1, <2>2, <2>3 DEF Stored
    <2>5. Bounded(durationInt)'  BY <2>1, <2>4 DEF DurationInv, Bounded
    <2>6. ASSUME NEW m \in Loaders, step'[m] \in {"add", "name"} PROVE Bounded(register[m])'
      <3>1. m # l  BY <2>3, <2>6
      <3>2. Bounded(register[m])  BY <2>1, <2>3, <2>6, <3>1 DEF DurationInv
      <3> QED BY <2>1, <2>4, <3>2 DEF Bounded
    <2> QED BY <2>2, <2>5, <2>6
  <1>10. CASE \/ connectToLoader \/ partitionTraceFiles \/ TransfersDone \/ LoadersPrepared
              \/ CollectDone \/ aggregateStats \/ CleanDone \/ CommandFails
    <2>1. pc' # "collect"
      BY <1>10
      DEF connectToLoader, partitionTraceFiles, TransfersDone, LoadersPrepared, CollectDone,
          aggregateStats, CleanDone, CommandFails, Begin, Fatal
    <2> QED BY <1>1, <2>1
  <1>11. ASSUME NEW l \in Loaders,
                \/ transferFilesToLoader(l) \/ prepareLoader(l) \/ RunLoader(l) \/ LoaderEnds(l)
                \/ clean(l)
         PROVE  FALSE
    BY <1>1, <1>11 DEF transferFilesToLoader, prepareLoader, RunLoader, LoaderEnds, clean, Fatal
  <1> QED
    BY <1>5, <1>6, <1>7, <1>8, <1>9, <1>10, <1>11 DEF Next, DriverStep, LoaderStep, Ended

LEMMA DownloadedFrom ==
  ASSUME EInv, NEW l \in Loaders, Download(l)
  PROVE  /\ pc = "collect" /\ step[l] = "name" /\ exp \in Experiments
         /\ UNCHANGED <<loaders, warmup, exp, durationInt, register, results>>
         /\ \E duration \in {register[l], durationInt} :
              /\ duration \in Durations
              /\ \/ /\ results[l][duration] = NoFile
                    /\ pc' = "fatal" /\ cause' = "no result" /\ UNCHANGED <<step, downloaded>>
                 \/ /\ downloaded' = downloaded \cup {<<exp, duration, l, results[l][duration]>>}
                    /\ step' = [step EXCEPT ![l] = "done"] /\ UNCHANGED <<pc, cause>>
  <1> USE DEF EInv
  <1>1. /\ pc = "collect" /\ step[l] = "name"
        /\ UNCHANGED <<loaders, warmup, exp, durationInt, register, results>>
    BY DEF Download, config, remote
  <1>2. exp \in Experiments  BY <1>1 DEF ConfigInv
  <1>3. Bounded(register[l]) /\ Bounded(durationInt)  BY <1>1 DEF DurationInv
  <1>4. register[l] \in Durations /\ durationInt \in Durations  BY <1>3, BoundedIsDuration
  <1> QED BY <1>1, <1>2, <1>4 DEF Download, Fatal, Done

(* Under Supported every goroutine names the file TraceDuration.             *)
LEMMA CollectValuesKept ==
  ASSUME EInv, [Next]_vars, pc' = "collect", Supported'
  PROVE  \A l \in Loaders' :
           /\ step'[l] = "go" => durationInt' = ExperimentDuration
           /\ step'[l] = "add" => register'[l] = ExperimentDuration
           /\ step'[l] = "name" => register'[l] = TraceDuration' /\ durationInt' = TraceDuration'
  <1> USE DEF EInv, config, remote, collect
  <1>1. Loaders \subseteq AllLoaders /\ loaders \in Nat  BY LoadersType
  <1>2. step \in [AllLoaders -> {"idle", "go", "running", "add", "name", "done"}]  BY DEF TypeOK
  <1>3. register \in [AllLoaders -> Int]  BY DEF StateTypes
  <1>4. warmup \in Nat /\ ExperimentDuration \in Nat  BY DriverAssumption DEF ConfigInv
  <1>5. ASSUME UNCHANGED <<loaders, warmup>>
        PROVE  Loaders' = Loaders /\ TraceDuration' = TraceDuration /\ Supported
    BY <1>5 DEF Loaders, TraceDuration, Supported
  <1>6. ASSUME pc = "collect", Supported, NEW l \in Loaders
        PROVE  /\ step[l] = "go" => durationInt = ExperimentDuration
               /\ step[l] = "add" => register[l] = ExperimentDuration
               /\ step[l] = "name" => register[l] = TraceDuration /\ durationInt = TraceDuration
    BY <1>6 DEF ResultsInv
  <1>7. CASE UNCHANGED vars
    <2>1. UNCHANGED <<pc, loaders, warmup, step, register, durationInt>>  BY <1>7 DEF vars
    <2> QED BY <1>5, <1>6, <2>1
  <1>8. CASE LoadsDone
    <2>1. /\ step' = [l \in AllLoaders |-> "go"] /\ durationInt' = ExperimentDuration
          /\ UNCHANGED <<loaders, warmup>>
      BY <1>8 DEF LoadsDone, Begin
    <2> QED BY <1>1, <1>5, <2>1
  <1>9. ASSUME NEW l \in Loaders, LoadDuration(l)
        PROVE  \A m \in Loaders' :
                 /\ step'[m] = "go" => durationInt' = ExperimentDuration
                 /\ step'[m] = "add" => register'[m] = ExperimentDuration
                 /\ step'[m] = "name" => register'[m] = TraceDuration' /\ durationInt' = TraceDuration'
    <2>1. /\ pc = "collect" /\ step[l] = "go" /\ UNCHANGED <<loaders, warmup, durationInt>>
          /\ register' = [register EXCEPT ![l] = durationInt] /\ step' = [step EXCEPT ![l] = "add"]
      BY <1>9 DEF LoadDuration
    <2>2. /\ step'[l] = "add" /\ register'[l] = durationInt
          /\ \A m \in Loaders : m # l => step'[m] = step[m] /\ register'[m] = register[m]
      BY <1>1, <1>2, <1>3, <2>1
    <2>3. Loaders' = Loaders /\ TraceDuration' = TraceDuration /\ Supported  BY <1>5, <2>1
    <2>4. durationInt = ExperimentDuration  BY <1>6, <2>1, <2>3
    <2> QED BY <1>6, <2>1, <2>2, <2>3, <2>4
  <1>10. ASSUME NEW l \in Loaders, StoreDuration(l)
         PROVE  \A m \in Loaders' :
                  /\ step'[m] = "go" => durationInt' = ExperimentDuration
                  /\ step'[m] = "add" => register'[m] = ExperimentDuration
                  /\ step'[m] = "name" => register'[m] = TraceDuration' /\ durationInt' = TraceDuration'
    <2>1. /\ pc = "collect" /\ step[l] = "add" /\ UNCHANGED <<loaders, warmup>>
          /\ durationInt' = register[l] + warmup
          /\ register' = [register EXCEPT ![l] = register[l] + warmup]
          /\ step' = [step EXCEPT ![l] = "name"]
      BY <1>10 DEF StoreDuration, AddWarmup
    <2>2. /\ step'[l] = "name" /\ register'[l] = register[l] + warmup
          /\ \A m \in Loaders : m # l => step'[m] = step[m] /\ register'[m] = register[m]
      BY <1>1, <1>2, <1>3, <2>1
    <2>3. Loaders' = Loaders /\ TraceDuration' = TraceDuration /\ Supported  BY <1>5, <2>1
    <2>4. register[l] = ExperimentDuration  BY <1>6, <2>1, <2>3
    <2>5. durationInt' = TraceDuration /\ register'[l] = TraceDuration
      BY <2>1, <2>2, <2>4 DEF TraceDuration
    <2>6. CASE loaders = 1
      <3>1. \A m \in Loaders : m = l  BY <2>6 DEF Loaders
      <3> QED BY <2>2, <2>3, <2>5, <3>1
    <2>7. CASE warmup = 0
      <3>1. TraceDuration = ExperimentDuration  BY <1>4, <2>7 DEF TraceDuration
      <3> QED BY <1>6, <2>1, <2>2, <2>3, <2>5, <3>1
    <2> QED BY <2>3, <2>6, <2>7 DEF Supported
  <1>11. ASSUME NEW l \in Loaders, Download(l)
         PROVE  \A m \in Loaders' :
                  /\ step'[m] = "go" => durationInt' = ExperimentDuration
                  /\ step'[m] = "add" => register'[m] = ExperimentDuration
                  /\ step'[m] = "name" => register'[m] = TraceDuration' /\ durationInt' = TraceDuration'
    <2>1. /\ pc = "collect" /\ step[l] = "name" /\ UNCHANGED <<loaders, warmup, durationInt, register>>
          /\ step' = step \/ step' = [step EXCEPT ![l] = "done"]
      BY <1>11, DownloadedFrom
    <2>2. \A m \in Loaders : step'[m] = step[m] \/ step'[m] = "done"  BY <1>1, <1>2, <2>1
    <2>3. Loaders' = Loaders /\ TraceDuration' = TraceDuration /\ Supported  BY <1>5, <2>1
    <2> QED BY <1>6, <2>1, <2>2, <2>3
  <1>12. ASSUME \/ connectToLoader \/ partitionTraceFiles \/ TransfersDone \/ LoadersPrepared
                \/ CollectDone \/ aggregateStats \/ CleanDone \/ CommandFails
         PROVE  FALSE
    BY <1>12
    DEF connectToLoader, partitionTraceFiles, TransfersDone, LoadersPrepared, CollectDone,
        aggregateStats, CleanDone, CommandFails, Begin, Fatal
  <1>13. ASSUME NEW l \in Loaders,
                \/ transferFilesToLoader(l) \/ prepareLoader(l) \/ RunLoader(l) \/ LoaderEnds(l)
                \/ clean(l)
         PROVE  FALSE
    BY <1>13 DEF transferFilesToLoader, prepareLoader, RunLoader, LoaderEnds, clean, Fatal
  <1> QED
    BY <1>7, <1>8, <1>9, <1>10, <1>11, <1>12, <1>13 DEF Next, DriverStep, LoaderStep, Ended

LEMMA ResultsKept ==
  ASSUME EInv, [Next]_vars
  PROVE  ResultsInv'
  <1> USE DEF EInv, config, remote, collect
  <1>1. SupportedNamesRight  BY DEF ResultsInv
  <1>2. SUFFICES SupportedNamesRight'  BY CollectValuesKept DEF ResultsInv
  <1>3. ASSUME UNCHANGED <<loaders, warmup>>
        PROVE  Loaders' = Loaders /\ TraceDuration' = TraceDuration
    BY <1>3 DEF Loaders, TraceDuration
  <1>4. CASE /\ UNCHANGED <<loaders, warmup, results, downloaded>>
             /\ cause' = cause \/ cause' # "no result"
    BY <1>1, <1>3, <1>4 DEF SupportedNamesRight
  <1>5. CASE DriverStep
    <2>1. /\ UNCHANGED <<loaders, warmup, results, downloaded>>
          /\ cause' = cause \/ cause' # "no result"
      BY <1>5
      DEF DriverStep, connectToLoader, partitionTraceFiles, TransfersDone, LoadersPrepared, LoadsDone,
          CollectDone, aggregateStats, CleanDone, CommandFails, Begin, Fatal
    <2> QED BY <1>4, <2>1
  <1>6. ASSUME NEW l \in Loaders,
               \/ transferFilesToLoader(l) \/ prepareLoader(l) \/ RunLoader(l) \/ LoaderEnds(l)
               \/ LoadDuration(l) \/ StoreDuration(l) \/ clean(l)
        PROVE  SupportedNamesRight'
    <2>1. /\ UNCHANGED <<loaders, warmup, results, downloaded>>
          /\ cause' = cause \/ cause' # "no result"
      BY <1>6
      DEF transferFilesToLoader, prepareLoader, RunLoader, LoaderEnds, LoadDuration, StoreDuration,
          clean, Fatal
    <2> QED BY <1>4, <2>1
  <1>7. CASE UNCHANGED vars
    <2>1. UNCHANGED <<loaders, warmup, results, downloaded, cause>>  BY <1>7 DEF vars
    <2> QED BY <1>4, <2>1
  <1>8. ASSUME NEW l \in Loaders, Download(l) PROVE SupportedNamesRight'
    <2>1. /\ pc = "collect" /\ step[l] = "name" /\ UNCHANGED <<loaders, warmup, results>>
      BY <1>8, DownloadedFrom
    <2>2. PICK duration \in {register[l], durationInt} :
               \/ results[l][duration] = NoFile /\ UNCHANGED downloaded
               \/ /\ downloaded' = downloaded \cup {<<exp, duration, l, results[l][duration]>>}
                  /\ UNCHANGED cause
      BY <1>8, DownloadedFrom
    <2>3. SUFFICES ASSUME Supported
                   PROVE  /\ \A f \in downloaded' : f[2] = TraceDuration
                          /\ cause' = "no result" => \E k \in Loaders : results[k][TraceDuration] = NoFile
      BY <1>3, <2>1 DEF SupportedNamesRight, Supported
    <2>4. duration = TraceDuration  BY <2>1, <2>2, <2>3 DEF ResultsInv
    <2>5. /\ \A f \in downloaded : f[2] = TraceDuration
          /\ cause = "no result" => \E k \in Loaders : results[k][TraceDuration] = NoFile
      BY <1>1, <2>3 DEF SupportedNamesRight, Supported
    <2>6. <<exp, duration, l, results[l][duration]>>[2] = TraceDuration  BY <2>4
    <2> QED BY <2>2, <2>4, <2>5, <2>6
  <1> QED BY <1>5, <1>6, <1>7, <1>8 DEF Next, LoaderStep, Ended

LEMMA TypeKept ==
  ASSUME EInv, [Next]_vars
  PROVE  TypeOK'
  <1> USE DEF EInv, config, remote, collect
  <1>1. Loaders \subseteq AllLoaders  BY LoadersType
  <1>2. /\ exp \in 1 .. Greater(1, NumExperiments) /\ exp \in Nat \ {0} /\ NumExperiments \in Nat
    <2>1. exp \in 1 .. Greater(1, NumExperiments)  BY DEF TypeOK
    <2>2. NumExperiments \in Nat  BY SweepTypes
    <2> QED BY <2>1, <2>2 DEF Greater
  <1>3. ConfigInv' /\ DurationInv'  BY TypesKept, DurationKept
  <1>4. UNCHANGED <<loaders, warmup, separate>> /\ Loaders' = Loaders
    <2>1. UNCHANGED config
      BY DEF Next, DriverStep, LoaderStep, Ended, CommandFails, connectToLoader, partitionTraceFiles,
             TransfersDone, LoadersPrepared, LoadsDone, CollectDone, aggregateStats, CleanDone,
             transferFilesToLoader, prepareLoader, RunLoader, LoaderEnds, LoadDuration, StoreDuration,
             Download, clean, vars
    <2> QED BY <2>1 DEF Loaders
  <1>5. durationInt' \in {0} \cup Durations
    <2>1. CASE pc' = "collect"
      <3>1. Bounded(durationInt)'  BY <1>3, <2>1 DEF DurationInv
      <3>2. Stored' \subseteq 0 .. loaders' - 1  BY DEF Stored, Loaders
      <3>3. loaders' \in 1 .. MaxLoaders /\ warmup' \in 0 .. MaxWarmup  BY <1>3 DEF ConfigInv
      <3>4. /\ durationInt' \in Int /\ ExperimentDuration <= durationInt'
            /\ durationInt' <= ExperimentDuration + Cardinality(Stored') * warmup'
        BY <3>1 DEF Bounded
      <3> QED BY <3>2, <3>3, <3>4, AddedOncePerLoader
    <2>2. CASE pc' # "collect"
      <3>1. durationInt' = durationInt
        BY <2>2
        DEF Next, DriverStep, LoaderStep, Ended, CommandFails, connectToLoader, partitionTraceFiles,
            TransfersDone, LoadersPrepared, LoadsDone, CollectDone, aggregateStats, CleanDone,
            transferFilesToLoader, prepareLoader, RunLoader, LoaderEnds, LoadDuration, StoreDuration,
            Download, clean, vars, Begin
      <3> QED BY <3>1 DEF TypeOK
    <2> QED BY <2>1, <2>2
  <1>6. exp' \in 1 .. Greater(1, NumExperiments) /\ exp' \in {exp, exp + 1}
    <2>1. CASE CleanDone
      BY <1>2, <2>1 DEF CleanDone, Greater
    <2>2. CASE ~CleanDone
      <3>1. exp' = exp
        BY <2>2
        DEF Next, DriverStep, LoaderStep, Ended, CommandFails, connectToLoader, partitionTraceFiles,
            TransfersDone, LoadersPrepared, LoadsDone, CollectDone, aggregateStats,
            transferFilesToLoader, prepareLoader, RunLoader, LoaderEnds, LoadDuration, StoreDuration,
            Download, clean, vars
      <3> QED BY <1>2, <3>1
    <2> QED BY <2>1, <2>2
  <1>7. \A l \in AllLoaders : parts'[l] \subseteq 1 .. functions(exp')
    <2>1. CASE partitionTraceFiles
      <3>1. loaders \in Nat /\ loaders > 0  BY LoadersType
      <3>2. \A l \in Loaders : writePartialTraceFile(l) \subseteq 1 .. functions(exp)
        BY <1>2, <3>1, PartitionIsExact
      <3> QED BY <1>1, <2>1, <3>2 DEF partitionTraceFiles
    <2>2. CASE ~partitionTraceFiles
      <3>1. parts' = parts
        BY <2>2
        DEF Next, DriverStep, LoaderStep, Ended, CommandFails, connectToLoader,
            TransfersDone, LoadersPrepared, LoadsDone, CollectDone, aggregateStats, CleanDone,
            transferFilesToLoader, prepareLoader, RunLoader, LoaderEnds, LoadDuration, StoreDuration,
            Download, clean, vars
      <3>2. \A l \in AllLoaders : parts[l] \subseteq 1 .. functions(exp)  BY DEF TypeOK
      <3>3. /\ functions(exp) \in Nat /\ functions(exp + 1) \in Nat
            /\ functions(exp) <= functions(exp + 1)
        BY <1>2, SweepTypes
      <3>4. 1 .. functions(exp) \subseteq 1 .. functions(exp + 1)  BY <3>3
      <3> QED BY <1>6, <3>1, <3>2, <3>4
    <2> QED BY <2>1, <2>2
  <1>8. /\ pc' \in {"connect", "partition", "transfer", "prepare", "load", "collect", "aggregate",
                    "clean", "finished", "fatal"}
        /\ cause' \in {"none", "command", "no IATs", "no result", "no file to aggregate"}
    <2>1. /\ pc \in {"connect", "partition", "transfer", "prepare", "load", "collect", "aggregate",
                     "clean", "finished", "fatal"}
          /\ cause \in {"none", "command", "no IATs", "no result", "no file to aggregate"}
      BY DEF TypeOK
    <2>2. CASE DriverStep
      BY <2>1, <2>2
      DEF DriverStep, CommandFails, connectToLoader, partitionTraceFiles, TransfersDone,
          LoadersPrepared, LoadsDone, CollectDone, aggregateStats, CleanDone, Begin, Fatal
    <2>3. ASSUME NEW l \in Loaders, LoaderStep(l)
          PROVE  /\ pc' = pc \/ pc' = "fatal"
                 /\ cause' \in {cause, "no IATs", "no result"}
      BY <2>3
      DEF LoaderStep, transferFilesToLoader, prepareLoader, RunLoader, LoaderEnds, LoadDuration,
          StoreDuration, Download, clean, Fatal
    <2>4. CASE Ended \/ UNCHANGED vars  BY <2>1, <2>4 DEF Ended, vars
    <2> QED BY <2>1, <2>2, <2>3, <2>4 DEF Next
  <1>9. step' \in [AllLoaders -> {"idle", "go", "running", "add", "name", "done"}]
    <2>1. step \in [AllLoaders -> {"idle", "go", "running", "add", "name", "done"}]  BY DEF TypeOK
    <2>2. CASE DriverStep
      BY <2>1, <2>2
      DEF DriverStep, CommandFails, connectToLoader, partitionTraceFiles, TransfersDone,
          LoadersPrepared, LoadsDone, CollectDone, aggregateStats, CleanDone, Begin
    <2>3. ASSUME NEW l \in Loaders, LoaderStep(l)
          PROVE  step' \in [AllLoaders -> {"idle", "go", "running", "add", "name", "done"}]
      BY <1>1, <2>1, <2>3
      DEF LoaderStep, transferFilesToLoader, prepareLoader, RunLoader, LoaderEnds, LoadDuration,
          StoreDuration, Download, clean, Done
    <2>4. CASE Ended \/ UNCHANGED vars  BY <2>1, <2>4 DEF Ended, vars
    <2> QED BY <2>2, <2>3, <2>4 DEF Next
  <1>10. \A f \in downloaded' : f[1] \in Experiments /\ f[2] \in Durations /\ f[3] \in Loaders
    <2>1. \A f \in downloaded : f[1] \in Experiments /\ f[2] \in Durations /\ f[3] \in Loaders
      BY DEF TypeOK
    <2>2. ASSUME NEW l \in Loaders, Download(l)
          PROVE  \A f \in downloaded' : f[1] \in Experiments /\ f[2] \in Durations /\ f[3] \in Loaders
      <3>1. exp \in Experiments  BY <2>2, DownloadedFrom
      <3>2. \E duration \in Durations :
              \/ downloaded' = downloaded
              \/ downloaded' = downloaded \cup {<<exp, duration, l, results[l][duration]>>}
        BY <2>2, DownloadedFrom
      <3> QED BY <2>1, <3>1, <3>2
    <2>3. CASE ~\E l \in Loaders : Download(l)
      <3>1. downloaded' = downloaded
        BY <2>3
        DEF Next, DriverStep, LoaderStep, Ended, CommandFails, connectToLoader, partitionTraceFiles,
            TransfersDone, LoadersPrepared, LoadsDone, CollectDone, aggregateStats, CleanDone,
            transferFilesToLoader, prepareLoader, RunLoader, LoaderEnds, LoadDuration, StoreDuration,
            clean, vars
      <3> QED BY <2>1, <3>1
    <2> QED BY <2>2, <2>3
  <1> QED BY <1>4, <1>5, <1>6, <1>7, <1>8, <1>9, <1>10 DEF TypeOK, Experiments, Durations

LEMMA InitKeeps == Init => EInv
  <1> SUFFICES ASSUME Init PROVE EInv  OBVIOUS
  <1> USE DEF Init
  <1>1. NumExperiments \in Nat /\ Step \in Nat  BY SweepTypes
  <1>2. TypeOK
    <2>1. exp \in 1 .. Greater(1, NumExperiments)  BY <1>1 DEF Greater
    <2> QED BY <2>1 DEF TypeOK
  <1>3. ConfigInv  BY <1>1 DEF ConfigInv, Experiments
  <1>4. StateTypes
    <2>1. NoTrace \in TraceSet  BY DEF NoTrace, TraceSet
    <2> QED BY <2>1 DEF StateTypes
  <1>5. PartsInv  BY DEF PartsInv
  <1>6. DurationInv  BY DEF DurationInv
  <1>7. ResultsInv
    <2>1. SupportedNamesRight  BY DEF SupportedNamesRight
    <2> QED BY <2>1 DEF ResultsInv
  <1> QED BY <1>2, <1>3, <1>4, <1>5, <1>6, <1>7 DEF EInv

-----------------------------------------------------------------------------
(* Theorems                                                                  *)

(* EInv holds in every reachable state, for every sweep of numbers of         *)
(* functions, every number of loaders and every warm-up.                      *)
THEOREM ExperimentInvariance == Spec => []EInv
  <1>1. Init => EInv  BY InitKeeps
  <1>2. EInv /\ [Next]_vars => EInv'
    BY TypeKept, TypesKept, PartsKept, DurationKept, ResultsKept DEF EInv
  <1> QED BY <1>1, <1>2, PTL DEF Spec

(* The phases, the counters and the files that the experiment driver keeps    *)
(* stay within their types; in particular the durationInt that the goroutines *)
(* of collectStats share grows by the warm-up at most once per loader.        *)
THEOREM ExperimentTypeCorrect == Spec => []TypeOK
  <1>1. EInv => TypeOK  BY DEF EInv
  <1> QED BY <1>1, ExperimentInvariance, PTL

(* When startLoad starts any loader, the parts that transferFilesToLoader has *)
(* left on the loaders are of this experiment, and partitionTraceFiles has    *)
(* put each function in exactly one of them: wg.Wait of each phase orders it  *)
(* after all of the one before.                                              *)
THEOREM FunctionsOnce == Spec => []EachFunctionOnce
  <1>1. EInv => EachFunctionOnce
    <2>1. SUFFICES ASSUME EInv, NEW k \in Loaders, step[k] = "running"
                   PROVE  /\ \A l \in Loaders : trace[l][1] = exp
                          /\ \A f \in 1 .. functions(exp) : \E l \in Loaders :
                               /\ f \in trace[l][2]
                               /\ \A m \in Loaders \ {l} : f \notin trace[m][2]
      BY DEF EachFunctionOnce
    <2>2. pc = "load"  BY <2>1, LoadersType DEF EInv, PartsInv
    <2>3. \A l \in Loaders :
            trace[l] = <<exp, parts[l]>> /\ parts[l] = writePartialTraceFile(l)
      BY <2>1, <2>2 DEF EInv, PartsInv
    <2>4. \A l \in Loaders : trace[l][1] = exp /\ trace[l][2] = writePartialTraceFile(l)  BY <2>3
    <2>5. loaders \in Nat /\ loaders > 0  BY <2>1, LoadersType DEF EInv
    <2>6. exp \in Nat \ {0}
      <3>1. exp \in Experiments /\ NumExperiments \in Nat
        BY <2>1, <2>2, SweepTypes DEF EInv, ConfigInv
      <3> QED BY <3>1 DEF Experiments
    <2>7. \A f \in 1 .. functions(exp) : \E l \in Loaders :
            /\ f \in writePartialTraceFile(l)
            /\ \A m \in Loaders \ {l} : f \notin writePartialTraceFile(m)
      BY <2>5, <2>6, PartitionIsExact
    <2> QED BY <2>3, <2>4, <2>7
  <1> QED BY <1>1, ExperimentInvariance, PTL

(* With one loader, or without warm-up, every goroutine of collectStats asks  *)
(* for the file named after the minutes of trace of a run, although they all  *)
(* add the warm-up to one durationInt without a lock.                        *)
THEOREM NamesAreRight == Spec => []SupportedNamesRight
  <1>1. EInv => SupportedNamesRight  BY DEF EInv, ResultsInv
  <1> QED BY <1>1, ExperimentInvariance, PTL
=============================================================================
