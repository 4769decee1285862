SPECIFICATION Spec
CONSTANTS
  Top = 9
  Attrs = {1, 2, 3}
  IndexedAttrs = {1}
  RefAttrs = {3}
  ManyAttrs = {}
  Datasets <- MCDatasets
  Queries <- SharedValue
  Statistics <- MCStatistics
  TxFacts <- MCTxFacts
  MaxTx = 0
  BatchSize = 2
INVARIANT RowsExact
CHECK_DEADLOCK FALSE
