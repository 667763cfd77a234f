SPECIFICATION Spec
CONSTANTS
  Nodes <- MCNodes2
  None = None
  Unrouted = Unrouted
  Foreign = Foreign
  Tokens = {t1}
  FailureThreshold = 1
  RecoveryThreshold = 1
  CleanupMaxAttempts = 2
  NodeStates <- HealthyOrNot
  InitialNodes <- OwnerNotReady
  UnstableNodes = {1}
  SpecMayChange = FALSE
  InitialOwners <- RoutedAnywhere
  OutOfBandMoves = TRUE
  SlowTasks = TRUE
  PoliciesInUse = {"RollbackProvider", "ManualIntervention"}
  ProbesMayFail = TRUE
  AgentsMayFail = TRUE
INVARIANTS
  CooldownRespected
  RequestIsPersisted
PROPERTIES
  HaltIsSticky
  OverForGood
