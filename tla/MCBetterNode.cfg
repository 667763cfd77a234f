SPECIFICATION Spec
CONSTANTS
  Nodes <- MCNodes
  None = None
  NodeStates <- MCNodeStates
INVARIANTS
  PassComputesBetterNode
  RestIsJustified
PROPERTY
  AnswerIsStable
