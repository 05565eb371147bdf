-------------------------- MODULE IntervalSearch ---------------------------
(***************************************************************************)
(* common.IntervalSearch (pkg/common/interval_search.go): which minute of   *)
(* the trace the invocation with a given index belongs to.  Minutes and     *)
(* indices count from 0, as in the code.                                    *)
(***************************************************************************)
EXTENDS Integers, Sequences

\* "no interval", the nil result of SearchInterval
NoInterval == [Start |-> -1, End |-> -1, Value |-> -1]

\* The intervals of the minutes with at least one invocation, in order.
constructIntervals(pmc) ==
  LET Extend(acc, i) ==
        IF pmc[i] = 0 THEN acc
        ELSE [sum    |-> acc.sum + pmc[i],
              result |-> Append(acc.result, [Start |-> acc.sum,
                                             End   |-> acc.sum + pmc[i] - 1,
                                             Value |-> i - 1])]
      after[i \in 0 .. Len(pmc)] ==
        IF i = 0 THEN [sum |-> 0, result |-> <<>>] ELSE Extend(after[i - 1], i)
  IN  after[Len(pmc)].result

\* The binary search; low and high are positions in the slice, from 0.
SearchInterval_OffByOne(intervals, val) ==
  LET search[range \in (0 .. Len(intervals)) \X (-1 .. Len(intervals) - 1)] ==
        LET low  == range[1]
            high == range[2]
            mid  == (low + high) \div 2
            it   == intervals[mid + 1]
        IN  IF low >= high THEN NoInterval
            ELSE IF val >= it.Start /\ val <= it.End THEN it
            ELSE IF val < it.Start THEN search[<<low, mid - 1>>]
            ELSE search[<<mid + 1, high>>]
  IN  search[<<0, Len(intervals) - 1>>]

SearchInterval(intervals, val) ==
  LET search[range \in (0 .. Len(intervals)) \X (-1 .. Len(intervals) - 1)] ==
        LET low  == range[1]
            high == range[2]
            mid  == (low + high) \div 2
            it   == intervals[mid + 1]
        IN  IF low > high THEN NoInterval
            ELSE IF val >= it.Start /\ val <= it.End THEN it
            ELSE IF val < it.Start THEN search[<<low, mid - 1>>]
            ELSE search[<<mid + 1, high>>]
  IN  search[<<0, Len(intervals) - 1>>]
=============================================================================
