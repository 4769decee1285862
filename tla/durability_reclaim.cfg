SPECIFICATION FairSpec
CONSTANTS
  NoRecord = NoRecord
  Records = {r1, r2}
  Faults = {"process", "prepare", "machine", "write"}
  MaxCrashes = 1
  MaxFlushes = 2
PROPERTIES PublishedSegmentsReclaimed
