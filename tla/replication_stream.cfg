SPECIFICATION FairSpec
CONSTANTS
  NoRecord = NoRecord
  Records = {r1, r2, r3}
  Own = {r1}
  Faults = {"disconnect", "restart", "early"}
  MaxFlushes = 1
  MaxConnects = 2
INVARIANTS TypeOK StreamComplete AckedAfterWal ReplicaMirrors
PROPERTIES OwnWritesShow
CHECK_DEADLOCK FALSE
