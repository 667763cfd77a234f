SPECIFICATION LiveSpec
CONSTANTS
  Probes <- MCProbes
  ProbePhase <- MCProbePhase
  SuccessThreshold <- MCSuccessThreshold
  FailureThreshold <- MCFailureThreshold
  Suggests <- MCSuggests
  Written <- MCWritten
INVARIANTS
  GateTypeOK
  PassIsEarned
PROPERTIES
  OpenIsDeserved
  GateOpens
