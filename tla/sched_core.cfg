SPECIFICATION FairSpec
CONSTANTS
    Conns = {c1}
    Manual = {m1}
    Ticks = {t1, t2}
    Admins = {}
    Logs = {l1, l2}
    Slots = {1, 2, 3}
    Threshold = 2
    FailureCap = 2
    MaxFaults = 0
    BootGrace = TRUE
    None = None
INVARIANTS
    TypeOK
    InProgressHasRunner
    AutoPauseStops
PROPERTIES
    DueIsServed
