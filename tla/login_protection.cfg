SPECIFICATION FairSpec
CONSTANTS
    Attempts = {a1, a2}
    Ips = {i1, i2}
    Trusted = {i2}
    Threshold = 2
    Base = 1
    MaxLock = 2
    Horizon = 2
    IpMax = 1
    NameMax = 2
    Window = 2
    BanThreshold = 2
    BanTime = 1
    None = None
INVARIANTS
    TypeOK
    LockMatchesCount
PROPERTIES
    NobodyShutOut
