---------------------------- MODULE RpsGenerator ----------------------------
(* Functions for a target of requests per second (pkg/generator/rps.go): one *)
(* warm function, and as many cold ones as are needed so that each has cooled *)
(* down when it is invoked again.  A rate is a fraction.  Times are integers,  *)
(* Fraction of them to a microsecond, and the rates of a configuration divide *)
(* a second into whole units: float64 is as good as exact.                   *)
EXTENDS TimeUnits, Sequences, FiniteSets

CeilDiv(a, b) == (a + b - 1) \div b
Rate(n, d) == [num |-> n, den |-> d]
AtLeastOne(rps) == rps.num >= rps.den
iatOf(rps) == (second * rps.den) \div rps.num
WholeMicros(t) == (t \div Fraction) * Fraction

(* Equidistant, from the first moment of the experiment to before its end.   *)
generateFunctionByRPS(experimentDuration, iat) ==
  [k \in 1 .. CeilDiv(experimentDuration * minute, iat) |-> IF k = 1 THEN 0 ELSE iat]

\* When the k-th invocation of a function is due.
timestamp(iats) ==
  LET t[k \in 0 .. Len(iats)] == IF k = 0 THEN 0 ELSE t[k - 1] + iats[k] IN t

(* An invocation after the last minute is an index out of range.             *)
InRange(experimentDuration, iats) ==
  \A k \in 1 .. Len(iats) : timestamp(iats)[k] < experimentDuration * minute

countNumberOfInvocationsPerMinute(experimentDuration, iats) ==
  LET t == timestamp(iats) IN
  [m \in 1 .. experimentDuration |->
     Cardinality({k \in 1 .. Len(iats) : t[k] \div minute = m - 1})]

GenerateWarmStartFunction(experimentDuration, rps) ==
  IF rps.num = 0 THEN <<>> ELSE generateFunctionByRPS(experimentDuration, iatOf(rps))

\* Rounded down.
totalFunctions_Floor(rps, cooldownSeconds) == (rps.num * cooldownSeconds) \div rps.den

totalFunctions(rps, cooldownSeconds) == CeilDiv(rps.num * cooldownSeconds, rps.den)

offsetWithinBatch(rps, i) ==
  IF AtLeastOne(rps) THEN WholeMicros((i % (rps.num \div rps.den)) * iatOf(rps)) ELSE 0

\* A second per function and not per batch.
offsetBetweenFunctions_PerFunction(rps, i) == i * second

offsetBetweenFunctions(rps, i) == ((i * rps.den) \div rps.num) * second

(* The time between two invocations of the same cold function.               *)
coldIAT(rps, cooldownSeconds) ==
  IF AtLeastOne(rps)
  THEN cooldownSeconds * second
  ELSE (totalFunctions(rps, cooldownSeconds) * rps.den * second) \div rps.num

(* GenerateColdStartFunctions, the function with index i.                    *)
coldStartFunction(experimentDuration, rps, cooldownSeconds, i) ==
  LET iats == generateFunctionByRPS(experimentDuration, coldIAT(rps, cooldownSeconds))
      offset == offsetWithinBatch(rps, i) + offsetBetweenFunctions(rps, i)
  IN [iats EXCEPT ![1] = @ + offset]
=============================================================================
