SPECIFICATION Spec
CONSTANTS
  MaxRequests = 4
  MaxRetries = 2
  StatusOnStall = FALSE
  Env <- OnlyReset
INVARIANT StatusIsOwn
