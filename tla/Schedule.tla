------------------------------ MODULE Schedule ------------------------------
(***************************************************************************)
(* When the invocations of one function are fired and how their records are *)
(* labelled: SpecificationGenerator.generateIAT                             *)
(* (pkg/generator/specification.go) turns the invocations per minute of a   *)
(* trace into inter-arrival times, and the loop of functionsDriver          *)
(* (pkg/driver/trace_driver.go) sleeps for them and labels every invocation *)
(* with its minute, its index in the minute and the phase.                  *)
(*                                                                          *)
(* A unit of the trace ("minute"; second granularity only changes its       *)
(* length) lasts Unit.  A random distribution is any division of the minute  *)
(* into positive parts.                                                     *)
(*                                                                          *)
(* An operator X_Y that stands before X is a mistake in X that the project's *)
(* checks are known to catch; nothing else uses it.                          *)
(***************************************************************************)
EXTENDS IntervalSearch, TimeUnits, FiniteSets

CONSTANT Jitter   \* bound: what waking up and looping costs, in microseconds

ASSUME ScheduleAssumption == Jitter \in Nat

VARIABLES IAT,          \* IATs: being generated, or of the function that is driven
          pmc,          \* perMinuteCount, likewise
          iatIndex, minuteIndex, minuteIndexEnd, sinceMinute, currentPhase,
          previousIATSum,  \* microseconds
          now,          \* time.Since(startOfExperiment)
          fired         \* the invocation fired last

specificationVars == <<IAT, pmc>>
loopVars == <<iatIndex, minuteIndex, minuteIndexEnd, sinceMinute, currentPhase,
              previousIATSum, now, fired>>
scheduleVars == <<specificationVars, loopVars>>

Sum(s) ==
  LET sum[k \in 0 .. Len(s)] == IF k = 0 THEN 0 ELSE sum[k - 1] + s[k] IN sum[Len(s)]
NothingFired == [index |-> -1, minute |-> -1, inv |-> -1, phase |-> "none"]

ScheduleInit ==
  /\ IAT = <<0>> /\ pmc = <<>>
  /\ iatIndex = 0 /\ minuteIndex = 0 /\ minuteIndexEnd = 0 /\ sinceMinute = 0
  /\ currentPhase = "execution" /\ previousIATSum = 0 /\ now = 0 /\ fired = NothingFired

-----------------------------------------------------------------------------
(***************************************************************************)
(* generateIATPerGranularity.                                               *)
(***************************************************************************)
\* The ways to divide a minute among n invocations.
Parts(n) == {p \in [1 .. n -> 1 .. Unit] : Sum(p) = Unit}

\* The whole cut part ends the minute.
Shifted_WholeEnd(p, split) ==
  LET i == CHOOSE j \in 1 .. Len(p) : Sum(SubSeq(p, 1, j)) > split /\ Sum(SubSeq(p, 1, j - 1)) <= split
      beginning == Sum(SubSeq(p, 1, i)) - split
  IN  <<beginning>> \o SubSeq(p, i + 1, Len(p)) \o SubSeq(p, 1, i - 1) \o <<p[i]>>

\* Cut the minute at split; the part that is cut both starts the minute (what is
\* left of it) and ends it.
Shifted(p, split) ==
  LET i == CHOOSE j \in 1 .. Len(p) : Sum(SubSeq(p, 1, j)) > split /\ Sum(SubSeq(p, 1, j - 1)) <= split
      beginning == Sum(SubSeq(p, 1, i)) - split
  IN  <<beginning>> \o SubSeq(p, i + 1, Len(p)) \o SubSeq(p, 1, i - 1) \o <<p[i] - beginning>>

minuteIATs(n, shiftIAT) ==
  IF n = 0 THEN {<<Unit>>}
  ELSE IF shiftIAT THEN {Shifted(p, split) : p \in Parts(n), split \in 0 .. Unit - 1}
  ELSE {<<0>> \o p : p \in Parts(n)}

\* One iteration of generateIAT: the last IAT so far and the first of the minute
\* are one and the same pause.
GenerateMinute(n, shiftIAT) ==
  /\ \E m \in minuteIATs(n, shiftIAT) :
       /\ IAT' = [IAT EXCEPT ![Len(IAT)] = @ + m[1]] \o Tail(m)
       /\ pmc' = Append(pmc, Len(m) - 1)
  /\ UNCHANGED loopVars

\* The pause after the last invocation is dropped.
DropLast(s) == SubSeq(s, 1, Len(s) - 1)

\* generateIAT has returned; the next function starts from nothing.
EndGenerate == IAT' = <<0>> /\ pmc' = <<>> /\ UNCHANGED loopVars

-----------------------------------------------------------------------------
(***************************************************************************)
(* functionsDriver.                                                         *)
(***************************************************************************)
Interval(i) == SearchInterval(constructIntervals(pmc), i)

\* The driver of a function with this specification, which has an invocation.
StartDriver(iats, perMinuteCount, warmup) ==
  LET first == SearchInterval(constructIntervals(perMinuteCount), 0) IN
  /\ IAT' = iats /\ pmc' = perMinuteCount
  /\ minuteIndexEnd' = first.End
  /\ minuteIndex' = first.Value
  /\ currentPhase' = IF warmup > 0 THEN "warmup" ELSE "execution"
  /\ UNCHANGED <<iatIndex, sinceMinute, previousIATSum, now, fired>>

\* The warm-up is taken to include the minute after it.
PhaseAt_MinuteLate(m, warmup) ==
  IF currentPhase = "warmup" /\ m > warmup THEN "execution" ELSE currentPhase

\* announceWarmupEnd
PhaseAt(m, warmup) ==
  IF currentPhase = "warmup" /\ m >= warmup THEN "execution" ELSE currentPhase

\* Rounded up.
Micros_RoundUp(t) == (t + Fraction - 1) \div Fraction

\* An IAT in whole microseconds.
Micros(t) == t \div Fraction

\* The delay is not subtracted.
SleepFor_Uncompensated(iat) == iat

\* How long the driver sleeps; a negative sleep returns at once.
SleepFor(iat) ==
  LET schedulingDelay == now - previousIATSum
      sleepFor == iat - schedulingDelay
  IN  IF sleepFor > 0 THEN sleepFor ELSE 0

\* Is i the first invocation of another minute, and is there one?
MinuteOver(i, interval) == i > minuteIndexEnd /\ interval # NoInterval

FireInvocation(warmup) ==
  LET iat == Micros(IAT[iatIndex + 1])
      next == Interval(iatIndex + 1)
      minuteOver == MinuteOver(iatIndex + 1, next)
  IN
  /\ iatIndex < Len(IAT)
  /\ currentPhase' = PhaseAt(minuteIndex, warmup)
  /\ \E late \in 0 .. Jitter : now' = now + SleepFor(iat) + late
  /\ previousIATSum' = previousIATSum + iat
  /\ fired' = [index |-> iatIndex, minute |-> minuteIndex, inv |-> sinceMinute,
               phase |-> currentPhase']
  /\ iatIndex' = iatIndex + 1
  /\ minuteIndexEnd' = IF minuteOver THEN next.End ELSE minuteIndexEnd
  /\ minuteIndex' = IF minuteOver THEN next.Value ELSE minuteIndex
  /\ sinceMinute' = IF minuteOver THEN 0 ELSE sinceMinute + 1
  /\ UNCHANGED specificationVars

-----------------------------------------------------------------------------
(***************************************************************************)
(* Properties.                                                              *)
(***************************************************************************)
ScheduleTypeOK ==
  /\ IAT \in Seq(Nat) /\ pmc \in Seq(Nat)
  /\ iatIndex \in 0 .. Len(IAT)
  /\ minuteIndex \in Nat /\ minuteIndexEnd \in Nat
  /\ sinceMinute \in Nat /\ currentPhase \in {"warmup", "execution"}
  /\ previousIATSum \in Nat /\ now \in Nat

\* The driver never fires early by its own clock, and cutting IATs to whole
\* microseconds makes it early in generated time by less than one microsecond per
\* invocation.
NeverEarly ==
  fired # NothingFired =>
    /\ now >= previousIATSum
    /\ Fraction * previousIATSum <= Sum(SubSeq(IAT, 1, iatIndex))
    /\ Fraction * (previousIATSum + iatIndex) > Sum(SubSeq(IAT, 1, iatIndex))

\* A driver that is late catches up at the first IAT that is at least as long as
\* its lateness: lateness does not add up over the invocations.
Lateness == now - previousIATSum
CatchesUp ==
  [][iatIndex' = iatIndex + 1 /\ Micros(IAT[iatIndex + 1]) >= Lateness
       => Lateness' <= Jitter]_scheduleVars
=============================================================================
