SPECIFICATION Spec
CONSTANTS
  Addresses = {g, a}
  Genesis = g
  Supply = 1
  TxHashes = {t1, t2}
  Amounts <- SignedAmounts
  SnapshotHeights = {0, 1}
  None = none
  MaxHeight = 2
  MaxTxs = 2
  MaxBalance = 2
SYMMETRY Hashes
INVARIANTS
  TypeOK
  BlocksAreWhole
  NoReplayInChain
  
  
PROPERTIES
  NoDoubleSpendInBlock
