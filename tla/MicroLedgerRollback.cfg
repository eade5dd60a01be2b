SPECIFICATION Spec
CONSTANTS
  Addresses = {g, a}
  Genesis = g
  Supply = 1
  TxHashes = {t1, t2}
  Amounts <- PositiveAmounts
  SnapshotHeights = {0, 1, 2}
  None = none
  MaxHeight = 2
  MaxTxs = 2
  MaxBalance = 2
PROPERTIES
  RollbackRestores
