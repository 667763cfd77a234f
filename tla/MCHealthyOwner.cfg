SPECIFICATION Spec
CONSTANTS
  Nodes <- MCNodes2
  None = None
  Unrouted = Unrouted
  Foreign = Foreign
  Tokens = {}
  FailureThreshold = 1
  RecoveryThreshold = 1
  CleanupMaxAttempts = 2
  NodeStates <- HealthyOrNot
  InitialNodes <- AllHealthy
  UnstableNodes = {}
  SpecMayChange = FALSE
  InitialOwners <- RoutedToFirst
  OutOfBandMoves = FALSE
  SlowTasks = FALSE
  PoliciesInUse = {"HoldDualOwnership"}
  ProbesMayFail = FALSE
  AgentsMayFail = FALSE
INVARIANTS
  NoUnexpectedPhase
