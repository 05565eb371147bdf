SPECIFICATION Spec
CONSTANTS
  NumFunctions = 5
  groupSize = 2
  parallelDeployment = 2
  RemoveMayFail = TRUE
  NumCPU = 2
  WithPredeployment = {0}
  NumCompositions = 2
  FailNode = {1, 2}
INVARIANT TypeOK
INVARIANT ReadyWhenDeployed
INVARIANT CleanLeavesNothing
PROPERTY DeploymentEnds
PROPERTY RefinesDeployer
