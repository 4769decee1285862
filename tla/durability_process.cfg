SPECIFICATION Spec
CONSTANTS
  NoRecord = NoRecord
  Records = {r1, r2, r3}
  Faults = {"process"}
  MaxCrashes = 2
  MaxFlushes = 2
SYMMETRY RecordSymmetry
INVARIANTS TypeOK AckedRecoverable AckedVisible
PROPERTIES CaptureOverwritesNothing UnlinkedArePublished ImplementsStore
