SPECIFICATION Spec
CONSTANTS
  Top = 9
  Attrs = {1, 2, 3}
  IndexedAttrs = {1}
  RefAttrs = {3}
  ManyAttrs = {}
  Datasets <- MCDatasets
  Queries <- MCQueries
  Statistics <- MCStatistics
  TxFacts <- MCTxFacts
  MaxTx = 1
  BatchSize = 2
INVARIANTS TypeOK PlanShowsAll RowsExact
PROPERTIES Answered
CHECK_DEADLOCK FALSE
