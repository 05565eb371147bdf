SPECIFICATION Spec
CONSTANTS
  NumFunctions = 2
  groupSize = 2
  parallelDeployment = 2
  RemoveMayFail = TRUE
  NumCPU = 2
  WithPredeployment = {0}
  NumCompositions = 2
  FailNode = {1, 2}
INVARIANT EachCompositionIsAFunction
