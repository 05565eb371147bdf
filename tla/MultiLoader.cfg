SPECIFICATION Spec
CONSTANTS
  Nodes = {n1, n2}
  MaxAttempts = 2
  MetricChoices <- MCMetricChoices
  StudyLists <- MCStudyLists
INVARIANT DryRunsFirst
INVARIANT RetryOnce
INVARIANT EachCombinationOnce
INVARIANT MetricsOfExperiment
