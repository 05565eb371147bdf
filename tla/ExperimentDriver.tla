-------------------------- MODULE ExperimentDriver --------------------------
(* The experiment driver (tools/driver): for each number of functions it     *)
(* splits a trace over the loaders, prepares them, runs them, downloads      *)
(* their results, aggregates them and cleans the loaders.  Each phase is one *)
(* goroutine per loader and a WaitGroup.  log.Fatal in any goroutine ends    *)
(* the driver.  The loader configuration that the driver writes names no     *)
(* Platform, so that every loader it starts ends with "Unsupported           *)
(* platform!" (cmd/loader.go:101) before it replays or writes anything.      *)
EXTENDS Integers, Sequences

CONSTANTS
  BeginningFuncNum, StepSizeFunc, MaxFuncNum,
  ExperimentDuration,  \* minutes
  MaxLoaders,          \* bound on the number of loader nodes
  MaxWarmup,           \* bound on the warm-up, in minutes
  CommandsMayFail      \* may an ssh, scp or file operation fail?

ASSUME DriverAssumption ==
  /\ BeginningFuncNum \in Nat /\ MaxFuncNum \in Nat /\ StepSizeFunc \in Nat
  /\ ExperimentDuration \in Nat \ {0}
  /\ MaxLoaders \in Nat \ {0} /\ MaxWarmup \in Nat
  /\ CommandsMayFail \in BOOLEAN

Greater(a, b) == IF a > b THEN a ELSE b
Step == Greater(1, StepSizeFunc)

(* NewDriver: the numbers of functions that are swept.  Of the loader         *)
(* configuration that is made for each, only that number differs.           *)
NumExperiments ==
  IF MaxFuncNum < BeginningFuncNum THEN 0 ELSE (MaxFuncNum - BeginningFuncNum) \div Step + 1
functions(x) == BeginningFuncNum + (x - 1) * Step

Experiments == 1 .. NumExperiments
Durations == ExperimentDuration .. ExperimentDuration + (MaxLoaders + 1) * (MaxWarmup + 1)
NoFile == -1
Leftover == 0  \* a result file of a run before this sweep

VARIABLES
  loaders,     \* number of LoaderAddresses
  warmup,      \* WarmupDuration
  separate,    \* SeparateIATGeneration
  exp,         \* the experiment being run
  pc,          \* its phase
  step,        \* where the goroutine of a loader is in the phase
  parts,       \* on the driver's disk: the functions in the part of a loader
  trace,       \* on a loader: the experiment and the functions of its trace
  results,     \* on a loader: the experiment that a result file, by its duration, is of
  durationInt, \* the variable that the goroutines of collectStats share
  register,    \* the value that a goroutine has loaded from it
  downloaded,  \* on the driver's disk: results, by experiment, duration and loader
  aggregated,  \* the aggregated rows of an experiment, by loader
  cause        \* why the driver has ended early

config == <<loaders, warmup, separate>>
remote == <<trace, results>>
collect == <<durationInt, register, downloaded>>
vars == <<config, exp, pc, step, parts, remote, collect, aggregated, cause>>

Loaders == 0 .. loaders - 1
AllLoaders == 0 .. MaxLoaders - 1
NoTrace == <<0, {}>>

(* Runs of one duration, before this sweep, may have left a result file on   *)
(* some of the loaders.                                                     *)
Init ==
  /\ loaders \in 1 .. MaxLoaders /\ warmup \in 0 .. MaxWarmup /\ separate \in BOOLEAN
  /\ exp = 1
  /\ pc = IF NumExperiments = 0 THEN "finished" ELSE "connect"
  /\ step = [l \in AllLoaders |-> "idle"]
  /\ parts = [l \in AllLoaders |-> {}]
  /\ trace = [l \in AllLoaders |-> NoTrace]
  /\ \E d \in Durations, S \in SUBSET AllLoaders :
       results = [l \in AllLoaders |->
                    [t \in Durations |-> IF t = d /\ l \in S THEN Leftover ELSE NoFile]]
  /\ durationInt = 0 /\ register = [l \in AllLoaders |-> 0]
  /\ downloaded = {} /\ aggregated = {} /\ cause = "none"

Fatal(c) == pc' = "fatal" /\ cause' = c

\* wg.Wait dropped.
AllDone_NotAwaited(phase) == pc = phase

\* wg.Wait at the end of a phase.
AllDone(phase) == pc = phase /\ \A l \in Loaders : step[l] = "done"

\* wg.Add and the go statements that begin a phase.
Begin(phase) == pc' = phase /\ step' = [l \in AllLoaders |-> "go"] /\ UNCHANGED cause

Done(l) == step' = [step EXCEPT ![l] = "done"]

(* A file operation or remote command that fails ends the driver, whichever  *)
(* goroutine it is in.                                                      *)
CommandFails ==
  /\ CommandsMayFail
  /\ \/ pc \in {"connect", "partition"}
     \/ pc \in {"transfer", "prepare", "clean"} /\ \E l \in Loaders : step[l] = "go"
     \/ pc = "collect" /\ \E l \in Loaders : step[l] = "name"
     \/ pc = "aggregate"
  /\ Fatal("command")
  /\ UNCHANGED <<config, exp, step, parts, remote, collect, aggregated>>

connectToLoader ==
  /\ pc = "connect"
  /\ pc' = "partition"
  /\ UNCHANGED <<config, exp, step, parts, remote, collect, aggregated, cause>>

(***************************************************************************)
(* prepareAllLoaders                                                       *)
(***************************************************************************)
functionsPerLoader == (functions(exp) + loaders - 1) \div loaders
startIdx(idx) == 1 + idx * functionsPerLoader

\* Without the min with len(records).
endIdx_Unbounded(idx) == startIdx(idx) + functionsPerLoader

endIdx(idx) ==
  IF startIdx(idx) + functionsPerLoader < functions(exp) + 1
  THEN startIdx(idx) + functionsPerLoader ELSE functions(exp) + 1

(* Row 0 of the trace is its header, the functions are rows 1, 2, ...       *)
writePartialTraceFile(idx) == startIdx(idx) .. endIdx(idx) - 1

partitionTraceFiles ==
  /\ pc = "partition"
  /\ parts' = [l \in AllLoaders |-> IF l \in Loaders THEN writePartialTraceFile(l) ELSE {}]
  /\ Begin("transfer")
  /\ UNCHANGED <<config, exp, remote, collect, aggregated>>

transferFilesToLoader(l) ==
  /\ pc = "transfer" /\ step[l] = "go"
  /\ trace' = [trace EXCEPT ![l] = <<exp, parts[l]>>]
  /\ Done(l)
  /\ UNCHANGED <<config, exp, pc, parts, results, collect, aggregated, cause>>

TransfersDone ==
  /\ AllDone("transfer")
  /\ Begin("prepare")
  /\ UNCHANGED <<config, exp, parts, remote, collect, aggregated>>

(* The loader is built.  If it is to generate the IATs first, it is run for   *)
(* that, ends as every loader does, and here that is fatal.                  *)
prepareLoader(l) ==
  /\ pc = "prepare" /\ step[l] = "go"
  /\ IF separate THEN Fatal("no IATs") /\ UNCHANGED step
                 ELSE Done(l) /\ UNCHANGED <<pc, cause>>
  /\ UNCHANGED <<config, exp, parts, remote, collect, aggregated>>

LoadersPrepared ==
  /\ AllDone("prepare")
  /\ Begin("load")
  /\ UNCHANGED <<config, exp, parts, remote, collect, aggregated>>

(***************************************************************************)
(* startLoad.  That a loader fails is only a warning.  One that did run      *)
(* would name its result file after the minutes of trace it parses.         *)
(***************************************************************************)
TraceDuration == ExperimentDuration + warmup

RunLoader(l) ==
  /\ pc = "load" /\ step[l] = "go"
  /\ step' = [step EXCEPT ![l] = "running"]
  /\ UNCHANGED <<config, exp, pc, parts, remote, collect, aggregated, cause>>

(* createLoaderConfig writes no Platform: the loader ends with "Unsupported   *)
(* platform!" (cmd/loader.go:101), before it has written anything.           *)
LoaderEnds(l) ==
  /\ pc = "load" /\ step[l] = "running"
  /\ Done(l)
  /\ UNCHANGED <<config, exp, pc, parts, remote, collect, aggregated, cause>>

LoadsDone ==
  /\ AllDone("load")
  /\ Begin("collect")
  /\ durationInt' = ExperimentDuration
  /\ UNCHANGED <<config, exp, parts, remote, register, downloaded, aggregated>>

(***************************************************************************)
(* collectStats: durationInt = durationInt + WarmupDuration in every        *)
(* goroutine, without a lock; then it is read again for the file name, or   *)
(* the value just computed is used.  The files of all metrics have the same  *)
(* duration in their name and stand or fall together.                       *)
(***************************************************************************)
LoadDuration(l) ==
  /\ pc = "collect" /\ step[l] = "go"
  /\ register' = [register EXCEPT ![l] = durationInt]
  /\ step' = [step EXCEPT ![l] = "add"]
  /\ UNCHANGED <<config, exp, pc, parts, remote, durationInt, downloaded, aggregated, cause>>

\* The warm-up is added although the duration has it.
AddWarmup_Twice(l) == register[l] + warmup + warmup

AddWarmup(l) == register[l] + warmup

StoreDuration(l) ==
  /\ pc = "collect" /\ step[l] = "add"
  /\ durationInt' = AddWarmup(l)
  /\ register' = [register EXCEPT ![l] = AddWarmup(l)]
  /\ step' = [step EXCEPT ![l] = "name"]
  /\ UNCHANGED <<config, exp, pc, parts, remote, downloaded, aggregated, cause>>

Download(l) ==
  /\ pc = "collect" /\ step[l] = "name"
  /\ \E duration \in {register[l], durationInt} :
       IF results[l][duration] = NoFile
       THEN Fatal("no result") /\ UNCHANGED <<step, downloaded>>
       ELSE /\ downloaded' = downloaded \cup {<<exp, duration, l, results[l][duration]>>}
            /\ Done(l)
            /\ UNCHANGED <<pc, cause>>
  /\ UNCHANGED <<config, exp, parts, remote, durationInt, register, aggregated>>

CollectDone ==
  /\ AllDone("collect")
  /\ pc' = "aggregate"
  /\ UNCHANGED <<config, exp, step, parts, remote, collect, aggregated, cause>>

(***************************************************************************)
(* aggregateStats: the rows of all parts, if there is a file for each.      *)
(***************************************************************************)
ResultFiles(l) == {f \in downloaded : f[1] = exp /\ f[2] = TraceDuration + 1 /\ f[3] = l}

aggregateStats ==
  /\ pc = "aggregate"
  /\ IF \E l \in Loaders : ResultFiles(l) = {}
     THEN Fatal("no file to aggregate") /\ UNCHANGED <<step, aggregated>>
     ELSE /\ aggregated' = aggregated \cup UNION {ResultFiles(l) : l \in Loaders}
          /\ Begin("clean")
  /\ UNCHANGED <<config, exp, parts, remote, collect>>

(* The deferred clean; `make clean` leaves result files alone.              *)
clean(l) ==
  /\ pc = "clean" /\ step[l] = "go"
  /\ Done(l)
  /\ UNCHANGED <<config, exp, pc, parts, remote, collect, aggregated, cause>>

(* startExperimentDrivers: the next experiment, if there is one.            *)
CleanDone ==
  /\ AllDone("clean")
  /\ pc' = IF exp < NumExperiments THEN "connect" ELSE "finished"
  /\ exp' = IF exp < NumExperiments THEN exp + 1 ELSE exp
  /\ UNCHANGED <<config, step, parts, remote, collect, aggregated, cause>>

LoaderStep(l) ==
  \/ transferFilesToLoader(l) \/ prepareLoader(l) \/ RunLoader(l) \/ LoaderEnds(l)
  \/ LoadDuration(l) \/ StoreDuration(l) \/ Download(l) \/ clean(l)

DriverStep ==
  \/ connectToLoader \/ partitionTraceFiles \/ TransfersDone \/ LoadersPrepared
  \/ LoadsDone \/ CollectDone \/ aggregateStats \/ CleanDone \/ CommandFails

Ended == pc \in {"finished", "fatal"} /\ UNCHANGED vars

Next == DriverStep \/ (\E l \in Loaders : LoaderStep(l)) \/ Ended

Spec == Init /\ [][Next]_vars

(***************************************************************************)
(* Properties                                                              *)
(***************************************************************************)
TypeOK ==
  /\ exp \in 1 .. Greater(1, NumExperiments)
  /\ pc \in {"connect", "partition", "transfer", "prepare", "load", "collect", "aggregate",
             "clean", "finished", "fatal"}
  /\ step \in [AllLoaders -> {"idle", "go", "running", "add", "name", "done"}]
  /\ \A l \in AllLoaders : parts[l] \subseteq 1 .. functions(exp)
  /\ durationInt \in {0} \cup Durations
  /\ \A f \in downloaded : f[1] \in Experiments /\ f[2] \in Durations /\ f[3] \in Loaders
  /\ cause \in {"none", "command", "no IATs", "no result", "no file to aggregate"}

(* When a loader is started, the parts that all loaders hold are of the same  *)
(* experiment, and each function of the trace is in exactly one of them.      *)
EachFunctionOnce ==
  (\E l \in Loaders : step[l] = "running") =>
    /\ \A l \in Loaders : trace[l][1] = exp
    /\ \A f \in 1 .. functions(exp) : \E l \in Loaders :
         f \in trace[l][2] /\ \A m \in Loaders \ {l} : f \notin trace[m][2]

(* With one loader, which is what the driver's README supports, or without   *)
(* warm-up, the durationInt that the goroutines of collectStats share does no *)
(* harm: a file that is downloaded is one named after the minutes of trace of *)
(* a run, and if none is found then some loader has no file of that name.     *)
SupportedNamesRight ==
  (loaders = 1 \/ warmup = 0) =>
    /\ \A f \in downloaded : f[2] = TraceDuration
    /\ cause = "no result" => \E l \in Loaders : results[l][TraceDuration] = NoFile

(* tools/driver/README.md:10 "The driver will then transfer those result      *)
(* files to its own node": the ones that the loaders have just collected in    *)
(* this experiment.                                                          *)
TransfersThoseResults == \A f \in downloaded : f[4] = f[1]
=============================================================================
