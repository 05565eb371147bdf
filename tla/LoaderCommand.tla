--------------------------- MODULE LoaderCommand ---------------------------
(* The loader command (cmd/loader.go): from the configuration to functions    *)
(* with IATs, from requests per second or from a trace in one of three        *)
(* formats, to files of IATs, and to the drivers of the functions or the DAGs *)
(* of the run.  The timeline tool (tools/generateTimeline) uses the same      *)
(* parser and generator and is a command of this module, too.                *)
EXTENDS RpsGenerator, DagGeneration, TraceParser, Timeline

CONSTANTS
  WarmRates, ColdRates,      \* parts of RpsTarget, as fractions
  MaxCooldown, MaxMinutes,   \* bounds on RpsCooldownSeconds and on the duration
  MaxTraceFunctions,         \* bound on the functions of a trace
  MaxPerMinute,              \* bound on the invocations in a minute
  Max2021                    \* bound on the invocations of an Azure 2021 trace

ASSUME CommandAssumption ==
  /\ WarmRates \cup ColdRates \subseteq [num : Nat, den : Nat \ {0}]
  /\ \A r \in WarmRates \cup ColdRates : r.num > 0 => (second * r.den) % r.num = 0
  /\ {MaxCooldown, MaxMinutes, MaxTraceFunctions, MaxPerMinute, Max2021} \subseteq Nat \ {0}
  /\ Unit >= MaxPerMinute /\ MaxTraceMinutes >= 2

VARIABLES
  phase,      \* how far the command has got
  cfg,        \* the configuration, the flags and the input of the command
  functions,  \* the generated functions
  iatFiles,   \* on disk: the specifications in iat0.json, iat1.json, ...
  driven      \* the function whose driver is looked at; 0 is none

commandVars == <<phase, cfg, functions, iatFiles, driven>>
vars == <<commandVars, dagVars, scheduleVars, timelineVars>>

(***************************************************************************)
(* The inputs                                                              *)
(***************************************************************************)
Rows(minutes, max) == [1 .. minutes -> 0 .. max]
Directory(rows, runtimeStats, memoryStats, mapped) ==
  [rows |-> rows, runtimeStats |-> runtimeStats, memoryStats |-> memoryStats, mapped |-> mapped]
Found(rows) == Directory(rows, "ok", "ok", TRUE)

(* Requests per second.                                                     *)
RpsInputs ==
  [command : {"loader"}, input : {"RPS"}, warm : WarmRates, cold : ColdRates,
   cooldown : 1 .. MaxCooldown, minutes : 1 .. MaxMinutes, warmup : {0, 1},
   files : {"no"}, DAGMode : {FALSE}, dryRun : {FALSE}]

(* One function, all rows of a trace; the experiment may be longer than a     *)
(* trace can be.                                                            *)
TraceInputs ==
  {c \in [command : {"loader"}, input : {"Azure2019"},
          dirs : {<<Found(<<row>>)>> : row \in Rows(MaxTraceMinutes, MaxPerMinute)},
          shift : BOOLEAN, minutes : 1 .. MaxTraceMinutes + 1, warmup : 0 .. MaxTraceMinutes,
          files : {"no"}, DAGMode : {FALSE}, dryRun : {FALSE}] :
     c.minutes + c.warmup \in {MaxTraceMinutes, MaxTraceMinutes + 1}}

(* Several functions with an invocation each, one perhaps without; rows may   *)
(* be too short and statistics missing; vSwarm may have a second directory.   *)
FunctionRows(n, without) == [i \in 1 .. n |-> IF i = without THEN <<0>> ELSE <<1>>]
Single(row, runtimeStats, memoryStats) == <<Directory(<<row>>, runtimeStats, memoryStats, TRUE)>>
Stats == {"ok", "invalid", "nil"}
SeveralFunctions ==
  {<<Found(FunctionRows(n, k))>> : n \in 1 .. MaxTraceFunctions, k \in 0 .. 2}
TwoDirectories ==
  {<<Found(FunctionRows(n, 0)), Directory(<<<<1>>>>, "ok", "ok", mapped)>> :
     n \in 1 .. 2, mapped \in BOOLEAN}
OneFunction == {Single(row, r, m) : row \in {<<>>, <<0>>, <<1>>}, r \in Stats, m \in Stats}
FunctionDirs == SeveralFunctions \cup TwoDirectories \cup OneFunction
FunctionInputs ==
  {c \in [command : {"loader"}, input : {"Azure2019", "vSwarm"}, dirs : FunctionDirs, shift : {FALSE},
          minutes : {1}, warmup : {0}, files : {"no", "write", "read", "both"},
          DAGMode : BOOLEAN, dryRun : BOOLEAN] :
     c.DAGMode => c.input = "Azure2019" /\ c.files = "no" /\ ~c.dryRun}

(* An Azure 2021 trace of one function.                                      *)
Starts == -1 .. 2 * Unit + 1
Azure2021Inputs ==
  [command : {"loader"}, input : {"Azure2021"},
   invocations : UNION {[1 .. n -> [start : Starts, duration : {0, 1}]] : n \in 1 .. Max2021},
   minutes : {1, 2}, warmup : {0, 1}, files : {"no"}, DAGMode : {FALSE}, dryRun : {FALSE}]

(* Two functions for the timeline tool, whose run times are in milliseconds.  *)
BothFunctions(row1, row2) == <<Found(<<row1, row2>>)>>
TimelineDirs == {BothFunctions(r1, r2) : r1 \in Rows(2, MaxPerMinute), r2 \in Rows(2, MaxPerMinute)}
TimelineInputs ==
  [command : {"timeline"}, input : {"Azure2019"}, shift : {FALSE}, DAGMode : {FALSE},
   dirs : TimelineDirs, minutes : {2}, warmup : {0}, scale : {"minute", "millisecond"}]

Init ==
  /\ phase = "start" /\ functions = <<>> /\ iatFiles = <<>> /\ driven = 0 /\ numFunctions = 0
  /\ cfg \in RpsInputs \cup TraceInputs \cup FunctionInputs \cup Azure2021Inputs \cup TimelineInputs
  /\ DagInit /\ ScheduleInit /\ TimelineInit
  /\ ~cfg.DAGMode \/ dataset => width = 1 /\ depth = 1
  /\ ~cfg.DAGMode => ~dataset

(***************************************************************************)
(* run                                                                     *)
(***************************************************************************)
otherVars == <<dagVars, scheduleVars, timelineVars>>

\* determineDurationToParse
Duration == cfg.warmup + cfg.minutes

End(how) == phase' = how

(* main and what it calls: an option that is not supported, or a file that    *)
(* cannot be read, ends the command.                                        *)
InvalidInput ==
  /\ phase \in {"start", "parse", "warm", "driver"}
  /\ End("fatal")
  /\ UNCHANGED <<cfg, functions, iatFiles, driven, otherVars>>

(* The type of input.                                                        *)
DetermineInput ==
  /\ phase = "start"
  /\ phase' = IF cfg.input = "RPS" THEN "warm" ELSE "parse"
  /\ UNCHANGED <<cfg, functions, iatFiles, driven, otherVars>>

(* The parsers for Azure 2019, which reads the memory statistics at once, and *)
(* for vSwarm.                                                              *)
ParseTrace ==
  /\ phase = "parse" /\ cfg.input \in {"Azure2019", "vSwarm"}
  /\ IF \E i \in 1 .. Len(cfg.dirs) :
          \/ \E r \in 1 .. Len(cfg.dirs[i].rows) : TooShort(cfg.dirs[i].rows[r], Duration)
          \/ cfg.input = "Azure2019" /\ cfg.dirs[i].memoryStats = "nil"
     THEN End("panic") /\ UNCHANGED functions
     ELSE /\ functions' = IF cfg.input = "vSwarm" THEN ParseDirectories(cfg.dirs, Duration)
                          ELSE extractFunctions(cfg.dirs[1], Duration)
          /\ phase' = "generate"
  /\ UNCHANGED <<cfg, iatFiles, driven, otherVars>>

(* A function all of whose invocations end too late is left out.             *)
Parse2021 ==
  /\ phase = "parse" /\ cfg.input = "Azure2021"
  /\ \E invocationSlice \in Sorted(cfg.invocations) :
     LET spec == GenerateFunctionSpecification(invocationSlice, Duration) IN
     \/ spec.fatal /\ End("fatal") /\ UNCHANGED functions
     \/ /\ ~spec.fatal
        /\ functions' = IF spec.IAT = <<>> THEN <<>>
                        ELSE <<[Function("trace", <<>>, "nil", "ok") EXCEPT
                                 !.IAT = spec.IAT, !.PerMinuteCount = spec.count,
                                 !.specs = Len(spec.IAT)]>>
        /\ phase' = "files"
  /\ UNCHANGED <<cfg, iatFiles, driven, otherVars>>

(***************************************************************************)
(* GenerateAzure2019Specification, one function after the other             *)
(***************************************************************************)
Missing == {i \in 1 .. Len(functions) : functions[i].specs = -1}
Current == CHOOSE i \in Missing : \A j \in Missing : i <= j

\* Every function keeps its own invocations.
InvocationsOf_Own(i) == functions[i].Invocations

\* In DAG mode all functions have the invocations of the first one.
InvocationsOf(i) == IF cfg.DAGMode THEN functions[1].Invocations ELSE functions[i].Invocations

GenerateFunctionMinute ==
  /\ phase = "generate" /\ Missing # {}
  /\ Len(pmc) < Len(InvocationsOf(Current))
  /\ GenerateMinute(InvocationsOf(Current)[Len(pmc) + 1], cfg.shift)
  /\ UNCHANGED <<commandVars, dagVars, timelineVars>>

(* GenerateInvocationData: run time and memory are drawn for each invocation  *)
(* from the statistics; those of the memory are looked at if those of the    *)
(* run time are right.                                                      *)
GenerateInvocationData ==
  /\ phase = "generate" /\ Missing # {}
  /\ Len(pmc) = Len(InvocationsOf(Current))
  /\ LET i == Current
         stats == IF functions[i].runtimeStats = "ok" THEN functions[i].memoryStats
                                                      ELSE functions[i].runtimeStats
     IN
     IF Sum(pmc) > 0 /\ stats # "ok"
     THEN /\ End(IF stats = "nil" THEN "panic" ELSE "fatal")
          /\ UNCHANGED functions
     ELSE /\ functions' = [functions EXCEPT ![i].Invocations = InvocationsOf(i),
                                            ![i].IAT = DropLast(IAT),
                                            ![i].PerMinuteCount = pmc,
                                            ![i].specs = Sum(pmc)]
          /\ UNCHANGED phase
  /\ EndGenerate
  /\ UNCHANGED <<cfg, iatFiles, driven, dagVars, timelineVars>>

AllGenerated ==
  /\ phase = "generate" /\ Missing = {}
  /\ phase' = IF cfg.command = "timeline" THEN "timeline" ELSE "files"
  /\ UNCHANGED <<cfg, functions, iatFiles, driven, otherVars>>

(***************************************************************************)
(* RPSGenerateFunctions                                                    *)
(***************************************************************************)
(* CreateRPSFunctions; cold functions have no run time statistics.           *)
RpsFunction(kind, iats) ==
  LET count == countNumberOfInvocationsPerMinute(Duration, iats) IN
  [Function(kind, count, IF kind = "warm" THEN "ok" ELSE "nil", "ok") EXCEPT
     !.IAT = iats, !.PerMinuteCount = count, !.specs = Len(iats)]

(* There is a warm function even if its rate is zero.                        *)
GenerateWarm ==
  /\ phase = "warm"
  /\ functions' = <<RpsFunction("warm", GenerateWarmStartFunction(Duration, cfg.warm))>>
  /\ phase' = "cold"
  /\ UNCHANGED <<cfg, iatFiles, driven, otherVars>>

GenerateCold ==
  /\ phase = "cold" /\ cfg.cold.num > 0
  /\ Len(functions) - 1 < totalFunctions(cfg.cold, cfg.cooldown)
  /\ LET iats == coldStartFunction(Duration, cfg.cold, cfg.cooldown, Len(functions) - 1) IN
     IF InRange(Duration, iats)
     THEN functions' = Append(functions, RpsFunction("cold", iats)) /\ UNCHANGED phase
     ELSE End("panic") /\ UNCHANGED functions
  /\ UNCHANGED <<cfg, iatFiles, driven, otherVars>>

RpsGenerated ==
  /\ phase = "cold"
  /\ cfg.cold.num = 0 \/ Len(functions) - 1 = totalFunctions(cfg.cold, cfg.cooldown)
  /\ phase' = "files"
  /\ UNCHANGED <<cfg, functions, iatFiles, driven, otherVars>>

(***************************************************************************)
(* Files, and the experiment                                               *)
(***************************************************************************)
(* The files may be there, from a run with the same configuration, or not.    *)
ReadOrWriteSpecificationToFile ==
  /\ phase = "files"
  /\ \/ cfg.files = "both" /\ End("fatal") /\ UNCHANGED iatFiles
     \/ cfg.files = "write" /\ iatFiles' = functions /\ End("exited")
     \/ cfg.files = "read" /\ (End("fatal") \/ phase' = "driver") /\ UNCHANGED iatFiles
     \/ cfg.files = "no" /\ phase' = "driver" /\ UNCHANGED iatFiles
  /\ UNCHANGED <<cfg, functions, driven, otherVars>>

(* DoStaticTraceProfiling, with a warm-up only, reads the invocations and the  *)
(* run time statistics, ApplyResourceLimits the memory statistics.           *)
Profiled(f) == cfg.warmup > 0 => f.Invocations # <<>> /\ f.runtimeStats # "nil"
Limited(f) == f.memoryStats # "nil"

(* NewDriver, and RunExperiment unless this is a dry run.                     *)
RunExperiment ==
  /\ phase = "driver"
  /\ phase' = IF cfg.dryRun THEN "exited"
              ELSE IF \A i \in 1 .. Len(functions) : Profiled(functions[i]) /\ Limited(functions[i])
              THEN "run" ELSE "panic"
  /\ numFunctions' = Len(functions)
  /\ dagPC' = IF cfg.DAGMode /\ phase' = "run" THEN "shape" ELSE "off"
  /\ UNCHANGED <<cfg, functions, iatFiles, driven, dataset, width, depth, stages, widthList,
                 functionIndex, dag, nodeQueue, totalDAGList, scheduleVars, timelineVars>>

internalRunDAGs ==
  phase = "run" /\ GenerateDAGs /\ UNCHANGED <<commandVars, scheduleVars, timelineVars>>

(* internalRun starts a driver for each function; any one of them.           *)
RunDriver(i) ==
  /\ phase = "run" /\ ~cfg.DAGMode
  /\ driven' = i
  /\ IF functions[i].IAT = <<>>
     THEN phase' = "done" /\ UNCHANGED scheduleVars
     ELSE /\ phase' = "loop"
          /\ StartDriver(functions[i].IAT, functions[i].PerMinuteCount, cfg.warmup)
  /\ UNCHANGED <<cfg, functions, iatFiles, dagVars, timelineVars>>

Fire ==
  /\ phase = "loop"
  /\ FireInvocation(cfg.warmup)
  /\ UNCHANGED <<commandVars, dagVars, timelineVars>>

EndLoop ==
  /\ phase = "loop" /\ iatIndex = Len(IAT)
  /\ phase' = "done"
  /\ UNCHANGED <<cfg, functions, iatFiles, driven, otherVars>>

(***************************************************************************)
(* The timeline tool                                                       *)
(***************************************************************************)
millisecondScale == cfg.scale = "millisecond"
runtimeOf(i) == i - 1

GenerateLoad ==
  /\ phase = "timeline"
  /\ IF \E i \in 1 .. Len(functions) : Mismatched(functions[i])
     THEN End("fatal") /\ UNCHANGED timelineVars
     ELSE phase' = "walk" /\ StartTimeline(functions)
  /\ UNCHANGED <<cfg, functions, iatFiles, driven, dagVars, scheduleVars>>

TimelineStep ==
  /\ phase = "walk"
  /\ \/ \E i \in DOMAIN walker : Walk(functions, i, millisecondScale, runtimeOf(i))
     \/ WriteTimelineRow
     \/ CloseWriter
  /\ UNCHANGED <<commandVars, dagVars, scheduleVars>>

TimelineEnds ==
  /\ phase = "walk" /\ FileWritten
  /\ phase' = "done"
  /\ IF millisecondScale THEN buildTimeline ELSE UNCHANGED timelineVars
  /\ UNCHANGED <<cfg, functions, iatFiles, driven, dagVars, scheduleVars>>

Stop ==
  /\ \/ phase \in {"exited", "fatal", "panic", "done"}
     \/ phase = "run" /\ (functions = <<>> \/ dagPC = "done")
  /\ UNCHANGED vars

Next ==
  \/ InvalidInput \/ DetermineInput \/ ParseTrace \/ Parse2021
  \/ GenerateFunctionMinute \/ GenerateInvocationData \/ AllGenerated
  \/ GenerateWarm \/ GenerateCold \/ RpsGenerated
  \/ ReadOrWriteSpecificationToFile \/ RunExperiment \/ internalRunDAGs
  \/ (\E i \in 1 .. Len(functions) : RunDriver(i)) \/ Fire \/ EndLoop
  \/ GenerateLoad \/ TimelineStep \/ TimelineEnds \/ Stop

Spec == Init /\ [][Next]_vars

(***************************************************************************)
(* Properties                                                              *)
(***************************************************************************)
TypeOK ==
  /\ phase \in {"start", "parse", "generate", "warm", "cold", "files", "driver", "run", "loop",
                "timeline", "walk", "done", "exited", "fatal", "panic"}
  /\ driven \in 0 .. Len(functions)
  /\ ScheduleTypeOK
  /\ dagPC \in {"off", "shape", "build", "done"}
  /\ functionIndex \in 0 .. numFunctions
  /\ \A i \in DOMAIN widthList : widthList[i] \in 0 .. MaxWidth
  /\ Len(writer) <= WriterSize

Cold == {i \in 1 .. Len(functions) : functions[i].kind = "cold"}

\* The cold invocations due in a second of the experiment.
ColdInSecond(s) ==
  {p \in UNION {{<<j, n>> : n \in 1 .. Len(functions[j].IAT)} : j \in Cold} :
     timestamp(functions[p[1]].IAT)[p[2]] \div second = s}

(* When a cold function is invoked again, at least RpsCooldownSeconds have    *)
(* passed, for rates above and below one and however they are rounded.        *)
ColdStartsCold ==
  \A i \in Cold : \A k \in 2 .. Len(functions[i].IAT) :
    functions[i].IAT[k] >= cfg.cooldown * second

(* If the time between invocations of a cold function divides the duration,   *)
(* generation succeeds, and with a whole number of cold starts per second     *)
(* exactly so many are due in every second of the experiment.                *)
RpsTargetMet ==
  cfg.input = "RPS" /\ phase \in {"cold", "files", "panic"} /\ cfg.cold.num > 0
    /\ (Duration * minute) % coldIAT(cfg.cold, cfg.cooldown) = 0 =>
  /\ phase # "panic" \/ Len(functions) - 1 = totalFunctions(cfg.cold, cfg.cooldown)
  /\ phase = "files" /\ cfg.cold.den = 1 =>
       \A s \in 0 .. Duration * SecondsPerMinute - 1 :
         Cardinality(ColdInSecond(s)) = cfg.cold.num

(* The minutes of the invocations of function i, in the order in which they    *)
(* are due, as the input has them.                                           *)
RowMinutes(row) == Seqs!FlattenSeq([m \in 1 .. Len(row) |-> [k \in 1 .. row[m] |-> m - 1]])
InTime == {inv \in Seqs!Range(cfg.invocations) : inv.start + inv.duration <= Duration * Unit}
TrueMinutes(i) ==
  CASE cfg.input = "RPS" ->
         [k \in 1 .. Len(functions[i].IAT) |-> timestamp(functions[i].IAT)[k] \div minute]
    [] cfg.input = "Azure2021" ->
         LET starts == {inv.start : inv \in InTime}
         IN  [k \in 1 .. Cardinality(starts) |->
                (CHOOSE t \in starts : Cardinality({u \in starts : u < t}) = k - 1) \div Unit]
    [] OTHER -> RowMinutes(Seqs!FlattenSeq([d \in 1 .. Len(cfg.dirs) |-> cfg.dirs[d].rows])[i])

(* Invocation IDs name the place in the input: the record of an invocation     *)
(* carries its minute and its index there, so no two records of a function     *)
(* have the same ID, whatever the input.                                      *)
LabelsRight ==
  fired # NothingFired =>
    LET minutes == TrueMinutes(driven)
        k == fired.index + 1
    IN
    /\ k \in DOMAIN minutes /\ fired.minute = minutes[k]
    /\ fired.inv = Cardinality({j \in 1 .. k - 1 : minutes[j] = minutes[k]})

(* A record is of the warm-up phase exactly if its minute is before the end    *)
(* of the warm-up (and there is one).                                        *)
PhaseRight ==
  fired # NothingFired => (fired.phase = "warmup" <=> fired.minute < cfg.warmup)

(* Every invocation of the input is fired: of an Azure 2021 trace, those that  *)
(* end within the duration.                                                  *)
AllFired == driven # 0 /\ phase = "done" => iatIndex = Len(TrueMinutes(driven))

(* The generator puts each invocation into its minute: the sum of the IATs up  *)
(* to it lies between the minute's start and its end, empty minutes before     *)
(* it, dropped pauses and shifts included.                                    *)
GeneratedInItsMinute ==
  phase = "loop" /\ fired # NothingFired =>
    LET t == Sum(SubSeq(IAT, 1, fired.index + 1))
        length == IF cfg.input = "RPS" THEN minute ELSE Unit
    IN  fired.minute * length <= t /\ t <= (fired.minute + 1) * length

(* invokeFunction looks up the run time specification of every node with the   *)
(* index of the entry function's invocation: there is one, for each function   *)
(* alone, and in the DAGs of an Azure 2019 or vSwarm trace for each node.  The   *)
(* timeline tool, which compares the lengths, never finds them different.      *)
SpecificationsFit ==
  /\ phase \in {"run", "loop", "timeline"} =>
       \A i \in 1 .. Len(functions) : functions[i].specs = Len(functions[i].IAT)
  /\ \A d \in 1 .. Len(totalDAGList) :
       LET lists == totalDAGList[d].lists
           entry == lists[1][1].function
       IN  \A p \in Places(lists) :
             functions[lists[p[1]][p[2]].function + 1].specs >= Len(functions[entry + 1].IAT)

(* The timeline tool: in the file with minutes there is one row for each       *)
(* function and minute with invocations, over exactly these invocations; in    *)
(* the one with milliseconds an invocation counts from its start to its end.   *)
MinuteRows ==
  UNION {{[function |-> i, minute |-> m,
           invocations |-> {k - 1 : k \in {j \in DOMAIN TrueMinutes(i) : TrueMinutes(i)[j] = m}}] :
            m \in Seqs!Range(TrueMinutes(i))} : i \in 1 .. Len(functions)}

\* The millisecond at which invocation k of function i is due.
Millisecond(i, k) ==
  Sum([j \in 1 .. k |-> functions[i].IAT[j] \div Fraction]) \div MicrosPerMilli

RunningAt(t) ==
  {p \in UNION {{<<j, n>> : n \in DOMAIN TrueMinutes(j)} : j \in 1 .. Len(functions)} :
     Millisecond(p[1], p[2]) <= t /\ t <= Millisecond(p[1], p[2]) + runtimeOf(p[1])}

TimelineRight ==
  cfg.command = "timeline" /\ phase = "done" =>
    IF millisecondScale
    THEN \A t \in 0 .. Cardinality(DOMAIN funcCnt) :
           Cardinality(RunningAt(t)) = IF t \in DOMAIN funcCnt THEN funcCnt[t] ELSE 0
    ELSE Seqs!Range(outputFile) = MinuteRows /\ Len(outputFile) = Cardinality(MinuteRows)
=============================================================================
