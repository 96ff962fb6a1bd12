SPECIFICATION FairSpec
CONSTANTS
    Sessions = {s1}
    SPs = {p1}
    Participation <- AllPairs
    Edited = {p1}
    Calls = {k1, k2}
    FirstPasses = {f1}
    Timer = timer
    MaxInFlight = 1
    Concurrency = 1
    MaxRetries = 1
    MaxFaults = 1
INVARIANTS
    TypeOK
    OneWorkerPerRow
    GivenUpAfterRetries
PROPERTIES
    AcknowledgedIsFinal
    HonoursContract
    ResolvedUnlessOrphaned
