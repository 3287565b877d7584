SPECIFICATION Spec
CONSTANTS
  GroupRows = {g1}
  DmRows = {}
  Workers = {w1}
  Configured = {g1}
  MaxAttempts = 2
  RetryBase = 1
  RetryCap = 1
  Lease = 1
  Window = 1
  BatchSize = 2
  SendTries = 2
  DmLimit = 1
  MaxFaults = 1
  MaxReplays = 0
  u1 = u1
  NoRecord = NoRecord
  Recipient <- OneUser
PROPERTY SuccessfulNotRetried
