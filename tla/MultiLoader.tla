---------------------------- MODULE MultiLoader -----------------------------
(***************************************************************************)
(* The multi-loader (tools/multi_loader): it unpacks every study into       *)
(* experiments, and runs each through the loader, first all of them as dry  *)
(* runs, then, if those succeeded, for real, with retries and collection of *)
(* metrics.                                                                 *)
(*                                                                          *)
(* The loader is a process of its own that ends with or without an error.   *)
(* It reads its configuration from one temporary file.  An experiment is    *)
(* its study, its trace and the values chosen from the sweep options, which *)
(* is what its output directory is named after.                             *)
(*                                                                          *)
(* An operator X_Y that stands before X is a mistake in X that the project's *)
(* checks are known to catch; nothing else uses it.                          *)
(***************************************************************************)
EXTENDS MetricManager, Sequences

CONSTANTS StudyLists  \* the configurations, each a sequence of studies

(* A study has the number of files in TracesDir or NoDir, the number of       *)
(* TraceValues, whether its Config has a TracePath, the number of values of   *)
(* each sweep option, and a sweep type.                                      *)
NoDir == -1
Study(dir, values, tracePath, sweep, type) ==
  [dir |-> dir, values |-> values, tracePath |-> tracePath, sweep |-> sweep, type |-> type]

Studies ==
  [dir : Nat \cup {NoDir}, values : Nat, tracePath : BOOLEAN, sweep : Seq(Nat),
   type : {"", "grid", "linear"}]

ASSUME StudiesAssumption == StudyLists \subseteq Seq(Studies)

NUM_OF_RETRIES == 1
NoExperiment == <<>>

VARIABLES
  studies,        \* MultiLoaderConfig.Studies
  failFast,       \* the flag --failFast
  DryRun,         \* d.DryRun
  DryRunSuccess,  \* d.DryRunSuccess
  pc,             \* where main or run is
  study,          \* si, from 1
  trace, indices, \* unpackStudy: the trace and the sweep values that come next
  experiments,    \* experimentsPartialConfig
  experiment,     \* ei, from 1
  tries,          \* attempts made in runExperiment
  verbosity,      \* experiment.Verbosity
  tempConfig,     \* whose configuration is in the temporary file
  started         \* history: how the loader was started and how it ended

unpackVars == <<trace, indices, experiments>>
runVars == <<tries, verbosity, tempConfig, started>>
vars == <<studies, failFast, DryRun, DryRunSuccess, pc, study, unpackVars, experiment, runVars,
          metricVars>>

S == studies[study]
Current == experiments[experiment]
dirOf(x) == <<DryRun, x>>

Init ==
  /\ studies \in StudyLists /\ failFast \in BOOLEAN
  /\ DryRun = FALSE /\ DryRunSuccess = TRUE
  /\ pc = "new" /\ study = 1
  /\ trace = 1 /\ indices = <<>> /\ experiments = <<>> /\ experiment = 1
  /\ tries = 0 /\ verbosity = "" /\ tempConfig = NoExperiment /\ started = <<>>
  /\ MetricInit

(***************************************************************************)
(* NewMultiLoaderRunner: files that cannot be read and nodes that cannot be *)
(* reached end it, as does a study without a trace or with a sweep option   *)
(* that has no values.                                                      *)
(***************************************************************************)
CheckMultiLoaderConfig ==
  /\ studies # <<>>
  /\ \A i \in DOMAIN studies :
       /\ studies[i].dir # NoDir \/ studies[i].values > 0 \/ studies[i].tracePath
       /\ \A j \in DOMAIN studies[i].sweep : studies[i].sweep[j] > 0

NewMultiLoaderRunner ==
  /\ pc = "new"
  /\ \/ pc' = "fatal"
     \/ CheckMultiLoaderConfig /\ pc' = "dry"
  /\ UNCHANGED <<studies, failFast, DryRun, DryRunSuccess, study, unpackVars, experiment, runVars,
                 metricVars>>

SweepStart(s) == [i \in DOMAIN s.sweep |-> 0]

(* A study is reached; unpackStudy begins.                                  *)
BeginStudy(i) ==
  /\ study' = i
  /\ trace' = 1 /\ indices' = SweepStart(studies[i]) /\ experiments' = <<>> /\ experiment' = 1
  /\ pc' = "unpack"

(* RunDryRun and RunActual, with the global PreScript.                      *)
StartRun(dry) ==
  /\ pc = IF dry THEN "dry" ELSE "actual"
  /\ DryRun' = dry
  /\ BeginStudy(1)
  /\ UNCHANGED <<studies, failFast, DryRunSuccess, runVars, metricVars>>

(***************************************************************************)
(* unpackStudy                                                             *)
(***************************************************************************)
NumTraces(s) == IF s.dir # NoDir THEN s.dir ELSE IF s.values > 0 THEN s.values ELSE 1
limits(s) == [i \in DOMAIN s.sweep |-> s.sweep[i] - 1]

BelowLimit(s, ix) == {i \in DOMAIN ix : ix[i] < limits(s)[i]}
Last(I) == CHOOSE i \in I : \A j \in I : j <= i

\* The options to the right are not set back to zero.
NextCProduct_NoReset(s, ix) == [ix EXCEPT ![Last(BelowLimit(s, ix))] = @ + 1]

(* NextCProduct: the last option that has another value gets it, those to    *)
(* its right start again.                                                   *)
NextCProduct(s, ix) ==
  LET k == Last(BelowLimit(s, ix)) IN
  [i \in DOMAIN ix |-> IF i < k THEN ix[i] ELSE IF i = k THEN ix[i] + 1 ELSE 0]

(* unpackLinearSweep: the same index for all options.                        *)
Linear(s) == s.type = "linear" /\ s.sweep # <<>>
SameLengths(s) == \A i \in DOMAIN s.sweep : s.sweep[i] = s.sweep[1]

UnpackExperiment ==
  /\ pc = "unpack" /\ trace <= NumTraces(S)
  /\ Linear(S) => SameLengths(S)
  /\ experiments' = Append(experiments, [study |-> study, trace |-> trace, values |-> indices])
  /\ IF BelowLimit(S, indices) = {}
     THEN trace' = trace + 1 /\ indices' = SweepStart(S)
     ELSE /\ indices' = IF Linear(S) THEN [i \in DOMAIN indices |-> indices[i] + 1]
                        ELSE NextCProduct(S, indices)
          /\ UNCHANGED trace
  /\ UNCHANGED <<studies, failFast, DryRun, DryRunSuccess, pc, study, experiment, runVars, metricVars>>

UnpackFails ==
  /\ pc = "unpack" /\ trace <= NumTraces(S)
  /\ Linear(S) /\ ~SameLengths(S)
  /\ pc' = "fatal"
  /\ UNCHANGED <<studies, failFast, DryRun, DryRunSuccess, study, unpackVars, experiment, runVars,
                 metricVars>>

Unpacked ==
  /\ pc = "unpack" /\ trace > NumTraces(S)
  /\ pc' = IF experiments = <<>> THEN "studyDone" ELSE "prepare"
  /\ UNCHANGED <<studies, failFast, DryRun, DryRunSuccess, study, unpackVars, experiment, runVars,
                 metricVars>>

(***************************************************************************)
(* The experiments of a study                                              *)
(***************************************************************************)
(* PreScript, output directory, merged configuration.  The verbosity that    *)
(* addCommandFlagsToExperiment sets is that of a copy, and is lost.          *)
PrepareExperiment ==
  /\ pc = "prepare"
  /\ outputDir' = dirOf(Current)
  /\ tempConfig' = Current
  /\ tries' = 0
  /\ verbosity' = ""
  /\ pc' = IF DryRun THEN "execute" ELSE "reset"
  /\ UNCHANGED <<studies, failFast, DryRun, DryRunSuccess, study, unpackVars, experiment, started,
                 config, startTime, mmPC, nodeStep, attempts, runs, top, collected>>

Reset ==
  /\ pc = "reset" /\ mmPC = "idle"
  /\ StartReset
  /\ pc' = "resetting"
  /\ UNCHANGED <<studies, failFast, DryRun, DryRunSuccess, study, unpackVars, experiment, runVars>>

ResetReturns ==
  /\ pc = "resetting" /\ mmPC = "idle"
  /\ pc' = "execute"
  /\ UNCHANGED <<studies, failFast, DryRun, DryRunSuccess, study, unpackVars, experiment, runVars,
                 metricVars>>

\* failFast is not looked at.
numTries_IgnoresFailFast == IF ~DryRun THEN 1 + NUM_OF_RETRIES ELSE 1

\* A dry run is never retried, nor is anything with failFast.
numTries == IF ~DryRun /\ ~failFast THEN 1 + NUM_OF_RETRIES ELSE 1

\* One iteration of the loop of runExperiment.  When the last attempt has failed,
\* "return err" returns the err of OpenFile (line 435), which is nil: the err of
\* executeLoaderCommand is a variable of the if statement of line 455.
ExecuteLoader ==
  /\ pc = "execute"
  /\ tries' = tries + 1
  /\ runs' = IF DryRun THEN runs ELSE runs + 1
  /\ \E ok \in BOOLEAN :
       /\ started' = Append(started, [dry |-> DryRun, exp |-> tempConfig, verbosity |-> verbosity,
                                      ok |-> ok])
       /\ verbosity' = IF ok THEN verbosity ELSE "debug"
       /\ pc' = IF ~ok /\ tries' < numTries THEN "execute" ELSE IF DryRun THEN "cleanup" ELSE "collect"
       /\ DryRunSuccess' = IF ~ok /\ tries' = numTries THEN FALSE ELSE DryRunSuccess
  /\ UNCHANGED <<studies, failFast, DryRun, study, unpackVars, experiment, tempConfig,
                 config, outputDir, startTime, mmPC, nodeStep, attempts, top, collected>>

CollectMetrics ==
  /\ pc = "collect" /\ mmPC = "idle"
  /\ StartCollect
  /\ pc' = "collecting"
  /\ UNCHANGED <<studies, failFast, DryRun, DryRunSuccess, study, unpackVars, experiment, runVars>>

CollectReturns ==
  /\ pc = "collecting" /\ mmPC = "idle"
  /\ pc' = "cleanup"
  /\ UNCHANGED <<studies, failFast, DryRun, DryRunSuccess, study, unpackVars, experiment, runVars,
                 metricVars>>

performCleanup ==
  /\ pc = "cleanup"
  /\ tempConfig' = NoExperiment
  /\ collected' = IF DryRun THEN ClearCollectedMetrics ELSE collected
  /\ pc' = "next"
  /\ UNCHANGED <<studies, failFast, DryRun, DryRunSuccess, study, unpackVars, experiment, tries,
                 verbosity, started, config, outputDir, startTime, mmPC, nodeStep, attempts, runs, top>>

\* PostScript; err is always nil, so the loop goes on to the next experiment.
NextExperiment ==
  /\ pc = "next"
  /\ IF experiment < Len(experiments)
     THEN experiment' = experiment + 1 /\ pc' = "prepare"
     ELSE pc' = "studyDone" /\ UNCHANGED experiment
  /\ UNCHANGED <<studies, failFast, DryRun, DryRunSuccess, study, unpackVars, runVars, metricVars>>

NextStudy ==
  /\ pc = "studyDone"
  /\ IF study < Len(studies)
     THEN BeginStudy(study + 1)
     ELSE pc' = "ran" /\ UNCHANGED <<study, unpackVars, experiment>>
  /\ UNCHANGED <<studies, failFast, DryRun, DryRunSuccess, runVars, metricVars>>

\* The result of the dry runs is not looked at.
DryRunsPassed_Unchecked == TRUE

\* main, lines 50-53
DryRunsPassed == DryRunSuccess

\* main: the actual runs follow the dry runs if none of those failed.
EndRun ==
  /\ pc = "ran"
  /\ pc' = IF ~DryRun THEN "exit" ELSE IF DryRunsPassed THEN "actual" ELSE "fatal"
  /\ UNCHANGED <<studies, failFast, DryRun, DryRunSuccess, study, unpackVars, experiment, runVars,
                 metricVars>>

(* A script or a file operation of the multi-loader fails.                   *)
ScriptFails ==
  /\ pc \in {"dry", "actual", "unpack", "prepare", "execute", "next", "ran"}
  /\ pc' = "fatal"
  /\ UNCHANGED <<studies, failFast, DryRun, DryRunSuccess, study, unpackVars, experiment, runVars,
                 metricVars>>

MetricManagerStep ==
  /\ MetricStep
  /\ UNCHANGED <<studies, failFast, DryRun, DryRunSuccess, pc, study, unpackVars, experiment, runVars>>

Terminated == (pc \in {"exit", "fatal"} \/ mmPC = "fatal") /\ UNCHANGED vars

Next ==
  \/ NewMultiLoaderRunner \/ (\E dry \in BOOLEAN : StartRun(dry))
  \/ UnpackExperiment \/ UnpackFails \/ Unpacked
  \/ PrepareExperiment \/ Reset \/ ResetReturns \/ ExecuteLoader \/ CollectMetrics \/ CollectReturns
  \/ performCleanup \/ NextExperiment \/ NextStudy \/ EndRun \/ ScriptFails
  \/ MetricManagerStep \/ Terminated

Spec == Init /\ [][Next]_vars

-----------------------------------------------------------------------------
\* What a study means (docs/multi_loader.md): every trace with every combination of the
\* sweep values, or with the values at the same place if the sweep is linear.
Combinations(s) ==
  {v \in [DOMAIN s.sweep -> UNION {0 .. s.sweep[i] - 1 : i \in DOMAIN s.sweep}] :
     /\ \A i \in DOMAIN s.sweep : v[i] < s.sweep[i]
     /\ s.type = "linear" => \A i, j \in DOMAIN s.sweep : v[i] = v[j]}
ExperimentsOf(i) ==
  [study : {i}, trace : 1 .. NumTraces(studies[i]), values : Combinations(studies[i])]
AllExperiments == UNION {ExperimentsOf(i) : i \in DOMAIN studies}

\* The positions in the history at which experiment x was started for real.
RealStarts(x) == {i \in DOMAIN started : ~started[i].dry /\ started[i].exp = x}

\* The experiments that a study is unpacked into are those that the study means, each
\* of them once: no two write to the same output directory.
EachCombinationOnce ==
  pc \in {"prepare", "studyDone"} =>
    /\ {experiments[i] : i \in DOMAIN experiments} = ExperimentsOf(study)
    /\ \A i, j \in DOMAIN experiments : i # j => experiments[i] # experiments[j]

\* The actual runs begin only after one dry run of each experiment, all of them
\* successful.
DryRunsFirst ==
  \A i \in DOMAIN started : ~started[i].dry =>
    /\ \A j \in DOMAIN started : started[j].dry => started[j].ok
    /\ {started[j].exp : j \in {k \in 1 .. i : started[k].dry}} = AllExperiments

\* An attempt at an experiment that already succeeded, or a third one, is never made,
\* and only a second attempt is made with debug verbosity.
RetryOnce ==
  \A x \in AllExperiments : \A i \in RealStarts(x) :
    /\ \A j \in RealStarts(x) : j < i => ~started[j].ok /\ ~failFast /\ j = i - 1
    /\ (started[i].verbosity = "debug") <=> \E j \in RealStarts(x) : j < i

\* The runs of the loader, counted as the cluster sees them, that were of experiment x.
RunsOf(x) ==
  LET dry == Cardinality({i \in DOMAIN started : started[i].dry})
  IN {i - dry : i \in RealStarts(x)}

\* The metrics in the output directory of an experiment are those of all attempts at it
\* and of nothing else, and when the next one begins none that was asked for is missing.
MetricsOfExperiment ==
  /\ \A f \in collected :
       /\ f.dir[1] = FALSE
       /\ f.metric # "prometheus" => f.runs = RunsOf(f.dir[2])
  /\ pc = "next" /\ ~DryRun =>
       LET here == {f \in collected : f.dir = outputDir} IN
       /\ {f.metric : f \in here} = metricsToCollect
       /\ "top" \in metricsToCollect => {f.from : f \in {g \in here : g.metric = "top"}} = Nodes

\* What docs/multi_loader.md says of failFast: when the attempts at an experiment have
\* failed, the rest of its study is skipped.
SkipsStudyAfterFailure ==
  \A i, j \in DOMAIN started :
    /\ i < j /\ ~started[i].dry /\ ~started[j].dry
    /\ started[i].exp.study = started[j].exp.study /\ started[i].exp # started[j].exp
    => \E k \in RealStarts(started[i].exp) : started[k].ok
=============================================================================
