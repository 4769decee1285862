SPECIFICATION Spec
CONSTANTS
  MaxByte = 2
  LeafMax = 2
  IndexMax = 2
  CountMod = 4
  Keys <- MCKeys
  KvKeys <- MCKvKeys
  Vals = {"u", "w"}
  ReadKeys <- MCReadKeys
  Targets <- MCTargets
  ScanPrefixes <- MCPrefixes
  Batches <- MCBatches
  HydEntities = {1}
  MaxActiveRuns = 1
  MaxBufEntries = 2
  MaxWrites = 3
  MaxFlushes = 2
  MaxSeeks = 2
INVARIANTS
  TypeOK
  TreeAnswersPrefixScans
  PointReadsCurrent
  ScanFollowsSnapshot
