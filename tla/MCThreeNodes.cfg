SPECIFICATION Spec
CONSTANTS
  Nodes <- MCNodes3
  None = None
  Unrouted = Unrouted
  Foreign = Foreign
  Tokens = {}
  FailureThreshold = 1
  RecoveryThreshold = 1
  CleanupMaxAttempts = 2
  NodeStates <- HealthyOrNot
  InitialNodes <- OwnerNotReady
  UnstableNodes = {2}
  SpecMayChange = FALSE
  InitialOwners <- RoutedToFirst
  OutOfBandMoves = FALSE
  SlowTasks = FALSE
  PoliciesInUse = {"HoldDualOwnership"}
  ProbesMayFail = FALSE
  AgentsMayFail = FALSE
PROPERTIES
  PathKept
