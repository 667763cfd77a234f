SPECIFICATION LiveSpec
CONSTANTS
  Nodes <- MCNodes2
  None = None
  Unrouted = Unrouted
  Foreign = Foreign
  Tokens = {}
  FailureThreshold = 1
  RecoveryThreshold = 1
  CleanupMaxAttempts = 2
  NodeStates <- HealthyOrNot
  InitialNodes <- AllHealthy
  UnstableNodes = {1}
  SpecMayChange = TRUE
  InitialOwners <- RoutedAnywhere
  OutOfBandMoves = FALSE
  SlowTasks = TRUE
  PoliciesInUse = {"HoldDualOwnership"}
  ProbesMayFail = FALSE
  AgentsMayFail = TRUE
PROPERTIES
  HandoffEnds
  SingleHolder
