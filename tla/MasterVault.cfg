SPECIFICATION Spec
CONSTANTS
  Users = {u1, u2}
  Vault = vault
  Devices = {d1, d2}
  Nonces = {n1}
  Supply = 10
  Reserve = 6
  PublicCap = 4
  Reward = 3
  HalfAmounts = {1, 3}
  None = none
  MaxTransactions = 6
  MaxUnlocked = 3
SYMMETRY SymmetricNames
INVARIANTS
  TypeOK
  WalletCoversCounter
  PublicNeverOverdrawn
  ClaimsArePaired
  GrantsAreCounted
  
PROPERTIES
  ReserveHeldUnlessOverride
