------------------------------ MODULE Timeline ------------------------------
(* The timeline tool (tools/generateTimeline): a goroutine per function      *)
(* walks through its IATs and sends a row per minute, or a record per        *)
(* invocation, over a channel to the goroutine that writes the file; from    *)
(* the records a row per millisecond is computed.  A sum over the            *)
(* invocations of a minute is represented by the set of their indices.       *)
EXTENDS Schedule

CONSTANTS
  WriterSize,        \* capacity of the channel, 1000 in the code
  MicrosPerMilli     \* 1000 in the code

ASSUME TimelineAssumption == WriterSize \in Nat \ {0} /\ MicrosPerMilli \in Nat \ {0}

VARIABLES
  walker,      \* the goroutines' variables, by function
  writer,      \* the channel
  writerOpen,  \* close(writer) has not been called
  outputFile,  \* the rows in the file
  funcCnt      \* buildTimeline: invocations by millisecond

timelineVars == <<walker, writer, writerOpen, outputFile, funcCnt>>

TimelineInit ==
  /\ walker = <<>> /\ writer = <<>> /\ writerOpen = FALSE
  /\ outputFile = <<>> /\ funcCnt = <<>>

(* generateLoad: the goroutines are started.  A function without invocations *)
(* is done at once.                                                         *)
StartWalker(f) ==
  LET first == SearchInterval(constructIntervals(f.PerMinuteCount), 0) IN
  [iatIndex |-> 0, minuteIndex |-> first.Value, minuteIndexEnd |-> first.End,
   previousIATSum |-> 0, sums |-> {}, done |-> f.IAT = <<>>]

StartTimeline(functions) ==
  /\ walker' = [i \in 1 .. Len(functions) |-> StartWalker(functions[i])]
  /\ writerOpen' = TRUE
  /\ UNCHANGED <<writer, outputFile, funcCnt>>

Mismatched(f) == f.IAT # <<>> /\ Len(f.IAT) # f.specs

Send(rows) ==
  /\ Len(writer) + Len(rows) <= WriterSize
  /\ writer' = writer \o rows

\* The sums go on.
SumsAfter_Kept(sums, minuteOver) == sums

SumsAfter(sums, minuteOver) == IF minuteOver THEN {} ELSE sums

(* generateFunctionTimeline, one iteration of the loop for function i.  The   *)
(* break on minuteIndex >= duration is not reached: the duration is the       *)
(* trace's, and no interval has a later minute.                               *)
Walk(functions, i, millisecondScale, runtime) ==
  LET w == walker[i]
      f == functions[i]
      previous == w.previousIATSum + Micros(f.IAT[w.iatIndex + 1])
      sums == IF millisecondScale THEN {} ELSE w.sums \cup {w.iatIndex}
      minuteOver == w.iatIndex + 1 > w.minuteIndexEnd
      next == SearchInterval(constructIntervals(f.PerMinuteCount), w.iatIndex + 1)
      record == [function |-> i, start |-> previous \div MicrosPerMilli, runtime |-> runtime]
      row == [function |-> i, minute |-> w.minuteIndex, invocations |-> sums]
  IN
  /\ ~w.done
  /\ Send(IF millisecondScale THEN <<record>> ELSE IF minuteOver THEN <<row>> ELSE <<>>)
  /\ walker' = [walker EXCEPT ![i] =
       [iatIndex       |-> w.iatIndex + 1,
        minuteIndex    |-> IF minuteOver /\ next # NoInterval THEN next.Value ELSE w.minuteIndex,
        minuteIndexEnd |-> IF minuteOver /\ next # NoInterval THEN next.End ELSE w.minuteIndexEnd,
        previousIATSum |-> previous,
        sums           |-> SumsAfter(sums, minuteOver),
        done           |-> w.iatIndex + 1 = Len(f.IAT) \/ (minuteOver /\ next = NoInterval)]]
  /\ UNCHANGED <<writerOpen, outputFile, funcCnt>>

WriteTimelineRow ==
  /\ writer # <<>>
  /\ writer' = Tail(writer)
  /\ outputFile' = Append(outputFile, Head(writer))
  /\ UNCHANGED <<walker, writerOpen, funcCnt>>

\* wg.Wait()
WalkersDone == \A i \in DOMAIN walker : walker[i].done

CloseWriter ==
  /\ writerOpen /\ WalkersDone
  /\ writerOpen' = FALSE
  /\ UNCHANGED <<walker, writer, outputFile, funcCnt>>

\* wg2.Wait()
FileWritten == walker # <<>> /\ ~writerOpen /\ writer = <<>>

(* buildTimeline: each record adds one to every millisecond from its start    *)
(* to its end.                                                              *)
EndOf(record) == record.start + record.runtime

maxTime(records) ==
  LET max[n \in 0 .. Len(records)] ==
        IF n = 0 THEN 0
        ELSE IF EndOf(records[n]) > max[n - 1] THEN EndOf(records[n]) ELSE max[n - 1]
  IN  max[Len(records)]

Running(record, t) == record.start <= t /\ t <= EndOf(record)

countRunning(records, last) ==
  LET cnt[n \in 0 .. Len(records)] ==
        IF n = 0 THEN [t \in 0 .. last |-> 0]
        ELSE [t \in 0 .. last |-> IF Running(records[n], t) THEN cnt[n - 1][t] + 1 ELSE cnt[n - 1][t]]
  IN  cnt[Len(records)]

buildTimeline ==
  /\ funcCnt' = countRunning(outputFile, maxTime(outputFile))
  /\ UNCHANGED <<walker, writer, writerOpen, outputFile>>
=============================================================================
