SPECIFICATION FairSpec
CONSTANTS
  MaxRequests = 3
  MaxRetries = 2
  StatusOnStall = FALSE
  Env <- Events
INVARIANT DisableIsFinal
PROPERTY RequestEnds
