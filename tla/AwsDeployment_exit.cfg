SPECIFICATION AwsSpec
CONSTANTS
  NumFunctions = 5
  groupSize = 2
  parallelDeployment = 2
  RemoveMayFail = FALSE
INVARIANT CleanedBeforeExit
