SPECIFICATION Spec
CONSTANTS
  Fraction = 2
  MicrosPerSecond = 3
  SecondsPerMinute = 6
  Unit = 3
  Jitter = 1
  MaxTraceMinutes = 4
  MaxPerMinute = 2
  Max2021 = 3
  WriterSize = 1
  MicrosPerMilli = 2
  MaxWidth = 3
  MaxDepth = 4
  MaxTraceFunctions = 7
  MaxCooldown = 4
  MaxMinutes = 2
  WarmRates <- MCWarmRates
  ColdRates <- MCColdRates
INVARIANT TypeOK
INVARIANT ColdStartsCold
INVARIANT RpsTargetMet
INVARIANT DagShapeRight
INVARIANT FunctionsUnique
INVARIANT LabelsRight
INVARIANT PhaseRight
INVARIANT AllFired
INVARIANT GeneratedInItsMinute
INVARIANT NeverEarly
PROPERTY CatchesUp
INVARIANT SpecificationsFit
INVARIANT TimelineRight
