SPECIFICATION FairSpec
CONSTANTS
    Conns = {c1}
    Manual = {}
    Ticks = {t1}
    Admins = {}
    Logs = {l1, l2, l3}
    Slots = {1, 2, 3}
    Threshold = 2
    FailureCap = 2
    MaxFaults = 2
    BootGrace = TRUE
    None = None
PROPERTIES
    SlotFiresOnce
    DueIsServedUnlessStranded
