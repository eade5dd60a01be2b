SPECIFICATION Spec
CONSTANTS
    s1 = s1
    s2 = s2
    Streams = {s1, s2}
    Decryptions <- MCDecryptions
    BlockSize = 3
    Foreign = Foreign
    NoEnv = NoEnv
    NoBlock = NoBlock
    OtherMode = OtherMode
    MaxBytes = 6
    Parts = {1, 2, 4, 6}
INVARIANTS
    NothingIsDropped
