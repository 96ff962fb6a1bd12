SPECIFICATION SignedOnSpec
CONSTANTS
    u1 = u1
    p1 = p1
    p2 = p2
    r1 = r1
    r2 = r2
    s1 = s1
    i1 = i1
    Waiting = {}
    None = None
    Users = {u1}
    Managed = {u1}
    SPs = {p1, p2}
    Editable = {p2}
    Requests = {r1, r2, r3}
    Target <- Targets
    Sessions = {s1, s2}
    LogoutIds = {i2}
    Asks <- AsksAll
    Logins = {}
    Completions = {}
    Terminators = {t1, t2}
SYMMETRY Symmetry
INVARIANTS
    FanOutComplete
    DeactivationRevokes
