SPECIFICATION Spec
CONSTANTS
  GroupRows = {g1}
  DmRows = {}
  Workers = {w1, w2}
  Configured = {g1}
  MaxAttempts = 3
  RetryBase = 1
  RetryCap = 2
  Lease = 1
  Window = 1
  BatchSize = 2
  SendTries = 2
  DmLimit = 1
  MaxFaults = 1
  MaxReplays = 1
  u1 = u1
  NoRecord = NoRecord
  Recipient <- OneUser
INVARIANTS
  TypeOK
  OneWorkerPerClaim
  CopiesPerClaim
  NoEarlyGiveUp
  AckedWasShown
