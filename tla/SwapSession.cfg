SPECIFICATION FairSession
CONSTANTS
  Alice = alice
  Bob = bob
  Parties = {alice, bob}
  Origin = origin
  Counter = counter
  Contracts = {origin, counter}
  Secret = s1
  Secrets = {s1}
  OriginDuration = 12
  CounterDuration = 6
  Durations = {12, 6}
  LateFunding = FALSE
  None = none
  MaxTime = 30
INVARIANTS
  TypeOK
  BobNeverLoses
  AliceNeverLoses
PROPERTIES
  ImplementsHashTimeLock
  LegsAreSettled
CHECK_DEADLOCK FALSE
