SPECIFICATION Spec
CONSTANTS
  GroupRows = {}
  DmRows = {d1, d2}
  Workers = {w1}
  Configured = {}
  MaxAttempts = 2
  RetryBase = 1
  RetryCap = 1
  Lease = 1
  Window = 1
  BatchSize = 2
  SendTries = 1
  DmLimit = 1
  MaxFaults = 0
  MaxReplays = 0
  u1 = u1
  NoRecord = NoRecord
  Recipient <- OneUser
INVARIANT DeferredToNextCycle
