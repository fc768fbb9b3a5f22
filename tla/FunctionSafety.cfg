SPECIFICATION CalmSpec
CONSTANTS
  MaxRequests = 4
  MaxRetries = 1
  StatusOnStall = FALSE
  Env <- Events
INVARIANT TypeOK
INVARIANT StatusIsOwn
INVARIANT BufferIsStable
INVARIANT BulkIsExpected
INVARIANT PayloadFitsRect
INVARIANT RequeueNeedsTimeout
PROPERTY RequestSpec
