SPECIFICATION LiveSpec
CONSTANTS
  Lifetimes <- MCLifetimes
  Margin = 3
  Latency = 1
  PollInterval = 1
  TaskOutcomes <- MCTaskOutcomes
  Interval = 1
  ExpiresIn = 5
  Delay = 1
  Foips = {f1, f2}
  None = None
  VerifyAttempts = 2
INVARIANTS
  AccessTypeOK
  TokensArriveFresh
  TokensAreReused
  OnlyFinishedIsVerified
  GrantIsNotLost
PROPERTIES
  EveryoneIsServed
