CONSTANTS
  f1 = f1
  f2 = f2
  l1 = l1
  l2 = l2
  b1 = b1
  Drivers = {f1, f2}
  Lists = {l1, l2, b1}
  Configs <- MCConfigs
  MaxInvocations = 2
  MaxScrapes = 2
  MaxScaleRows = 2
  RecordsCap = 1
  BatchSize = 2
SPECIFICATION FairSpec
INVARIANT TypeOK
INVARIANT WaitGroupsExact
INVARIANT CollectorStopsLast
INVARIANT DrainFits
INVARIANT NothingLost
INVARIANT DagRowsComplete
INVARIANT ScraperFlushed
PROPERTY CountersFinal
 
