SPECIFICATION Spec
CONSTANTS
  NoRecord = NoRecord
  Records = {r1, r2}
  Faults = {"prepare"}
  MaxCrashes = 1
  MaxFlushes = 2
INVARIANTS AckedRecoverable
