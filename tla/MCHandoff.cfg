SPECIFICATION Spec
CONSTANTS
  Nodes <- MCNodes2
  None = None
  Unrouted = Unrouted
  Foreign = Foreign
  Tokens = {}
  FailureThreshold = 2
  RecoveryThreshold = 2
  CleanupMaxAttempts = 1
  NodeStates <- HealthyOrNot
  InitialNodes <- AllHealthy
  UnstableNodes = {1, 2}
  SpecMayChange = FALSE
  InitialOwners <- RoutedToFirst
  OutOfBandMoves = FALSE
  SlowTasks = FALSE
  PoliciesInUse = {"HoldDualOwnership"}
  ProbesMayFail = TRUE
  AgentsMayFail = TRUE
INVARIANTS
  TypeOK
  TwoNodesInv
  PreparedBeforeRouted
  CommitFollowsRoute
  FenceBlocksOnlyForeignMoves
PROPERTIES
  ImplementsHandoff
  AddressStaysReachable
  TargetChangesAreSpaced
  GatesNotSkipped
