SPECIFICATION Spec
CONSTANTS
  BeginningFuncNum = 2
  StepSizeFunc = 2
  MaxFuncNum = 4
  ExperimentDuration = 1
  MaxLoaders = 3
  MaxWarmup = 1
  CommandsMayFail = FALSE
INVARIANT TransfersThoseResults
