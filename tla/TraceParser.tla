---------------------------- MODULE TraceParser -----------------------------
(* The parsers of pkg/trace.  A trace in the format of Azure 2019 is a       *)
(* directory: per function a row of invocations per minute, and statistics   *)
(* that are found by the function's hash.  The one of vSwarm may have        *)
(* several such directories, of which those with a mapper output count.  A   *)
(* trace in the format of Azure 2021 is a file with a start and a duration   *)
(* per invocation.                                                          *)
EXTENDS TimeUnits, Sequences, FiniteSets
Seqs == INSTANCE SequencesExt

CONSTANT MaxTraceMinutes   \* 1440 in the code

ASSUME ParserAssumption == MaxTraceMinutes \in Nat \ {0}

(***************************************************************************)
(* Azure 2019 and vSwarm                                                   *)
(***************************************************************************)
FitDuration(d) == IF d > MaxTraceMinutes THEN MaxTraceMinutes ELSE IF d < 1 THEN 1 ELSE d

(* The first minutes of a row; one that is too short is an index out of      *)
(* range.                                                                   *)
TooShort(row, duration) == Len(row) < FitDuration(duration)
parseInvocationTrace(row, duration) == SubSeq(row, 1, FitDuration(duration))

(* A function before its specification has been generated.  Statistics are   *)
(* "ok", "invalid" (a Count of zero) or "nil", if no row has its hash.       *)
Function(kind, invocations, runtimeStats, memoryStats) ==
  [kind |-> kind, Invocations |-> invocations, runtimeStats |-> runtimeStats,
   memoryStats |-> memoryStats, IAT |-> <<>>, PerMinuteCount |-> <<>>, specs |-> -1]

extractFunctions(dir, duration) ==
  [i \in 1 .. Len(dir.rows) |->
     Function("trace", parseInvocationTrace(dir.rows[i], duration), dir.runtimeStats, dir.memoryStats)]

\* Directories without a mapper output are skipped.
ParseDirectories(dirs, duration) ==
  Seqs!FlattenSeq([i \in 1 .. Len(dirs) |->
                IF dirs[i].mapped THEN extractFunctions(dirs[i], duration) ELSE <<>>])

(***************************************************************************)
(* Azure 2021                                                              *)
(***************************************************************************)
\* Compared with the start only.
EndsInTime_StartOnly(inv, durationMinutes) == inv.start <= durationMinutes * Unit

EndsInTime(inv, durationMinutes) == inv.start + inv.duration <= durationMinutes * Unit

MinuteOf(t) == IF t < 0 THEN 0 ELSE t \div Unit

(* sort.Slice, which may put invocations with the same start in any order.   *)
Sorted(invocations) ==
  {s \in {[i \in 1 .. Len(invocations) |-> invocations[p[i]]] : p \in
           {q \in [1 .. Len(invocations) -> 1 .. Len(invocations)] : \A i, j \in DOMAIN q : q[i] = q[j] => i = j}} :
     \A i \in 2 .. Len(s) : s[i - 1].start <= s[i].start}

(* GenerateFunctionSpecification: the invocations that end in time, in order. *)
(* One at the time of the one before, or at zero if it is the first, and one   *)
(* before zero, end the loader.                                              *)
GenerateFunctionSpecification(invocationSlice, durationMinutes) ==
  LET Take(acc, inv) ==
        IF ~EndsInTime(inv, durationMinutes) THEN acc
        ELSE [previous |-> inv.start,
              IAT      |-> Append(acc.IAT, inv.start - acc.previous),
              count    |-> IF inv.start <= acc.previous THEN acc.count
                           ELSE [acc.count EXCEPT ![MinuteOf(inv.start) + 1] = @ + 1],
              fatal    |-> acc.fatal \/ inv.start <= acc.previous]
      taken[k \in 0 .. Len(invocationSlice)] ==
        IF k = 0
        THEN [previous |-> 0, IAT |-> <<>>, fatal |-> FALSE,
              count |-> [m \in 1 .. MinuteOf(Seqs!Last(invocationSlice).start) + 1 |-> 0]]
        ELSE Take(taken[k - 1], invocationSlice[k])
  IN  taken[Len(invocationSlice)]
=============================================================================
