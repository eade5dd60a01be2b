SPECIFICATION Spec
CONSTANTS
    p1 = p1
    p2 = p2
    Processes = {p1, p2}
    Nobody = Nobody
    Keys = {"k1", "k2"}
    NoKey = NoKey
    OtherPinKeys = {"k2"}
    PINs = {"old", "new"}
    IssuedPin = "old"
    NoPin = NoPin
    NoOutput = NoOutput
    LockLogin <- MCLockLogin
    Chunks = 2
    MaxTries = 2
    LockRetries = 1
    MaxLoginLocks = 1
    MaxChanges = 1
    MaxResets = 2
PROPERTIES
    LogoutReleasesCard
