SPECIFICATION Spec
CONSTANTS
    Conns = {c1}
    Manual = {}
    Ticks = {t1}
    Admins = {a1}
    Logs = {l1, l2}
    Slots = {1, 2, 3, 4, 5}
    Threshold = 0
    FailureCap = 0
    MaxFaults = 1
    BootGrace = FALSE
    None = None
SYMMETRY LogSymmetry
INVARIANTS
    EnabledHasNextRun
