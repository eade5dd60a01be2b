SPECIFICATION LiveSpec
CONSTANTS
  Users = {u1, u2}
  AdminEmailed = {u2}
  Admins = {admin}
  Bonus = 1
  Stake = 2
  Amounts <- SmallAmounts
  MintAmounts <- SignedMints
  HistoryCap = 2
  NoAccount = noAccount
  NoFile = noFile
  Torn = torn
  MaxTx = 2
  MaxBalance = 2
  MaxFailures = 1
INVARIANTS
  TypeOK
  SavedWhenAnswered
  OneWelcomeBonus
  LedgerMatchesHistory
PROPERTIES
  RemovalIsNoticed
  
