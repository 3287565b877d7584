SPECIFICATION FairSpec
CONSTANTS
  j1 = j1
  j2 = j2
  g1 = g1
  g2 = g2
  d1 = d1
  u1 = u1
  Jobs = {j1, j2}
  GroupRows = {g1, g2}
  DmRows = {d1}
  Runners = {r1}
  Topicless = {}
  MaxStarts = 2
  MaxBackfills = 0
  MaxFaults = 1
  MaxAttempts = 1
  RetryBase = 1
  RetryCap = 0
  Lease = 1
  Window = 1
  JobOf <- TheJobOf
  Recipient <- OneUser
  LookAlike <- Twins
PROPERTY InsertedAreQueued
CHECK_DEADLOCK FALSE
