SPECIFICATION FairSpec
CONSTANTS
  GroupRows = {g2}
  DmRows = {d1, d2}
  Workers = {w1}
  Configured = {}
  MaxAttempts = 2
  RetryBase = 1
  RetryCap = 1
  Lease = 1
  Window = 2
  BatchSize = 2
  SendTries = 1
  DmLimit = 1
  MaxFaults = 1
  MaxReplays = 0
  u1 = u1
  NoRecord = NoRecord
  Recipient <- OneUser
INVARIANTS
  WindowRespected
  OneDmPerClaim
PROPERTY EveryRowSettles
