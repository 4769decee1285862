SPECIFICATION Spec
CONSTANTS
  NoRecord = NoRecord
  Records = {r1, r2, r3}
  Faults = {"write", "process"}
  MaxCrashes = 1
  MaxFlushes = 2
SYMMETRY RecordSymmetry
INVARIANTS AckedHeldOrRecoverable
