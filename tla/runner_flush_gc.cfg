SPECIFICATION FairSpec
CONSTANTS
  NoClient = NoClient
  Records = {r2}
  KvRecords = {r2}
  Clients = {c1, c2}
  Runners = {g1, g2}
  Faults = {"prepare", "cursor"}
  GcMaxAge = 0
  GcMaxRootCount = 0
  MaxRequests = 2
INVARIANTS TypeOK PublishedPagesKept IdleRunnerHasCollected CloseDrains
PROPERTIES FlushSyncPublishes CommandsAnswered
CHECK_DEADLOCK FALSE
