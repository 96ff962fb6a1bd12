SPECIFICATION Spec
CONSTANTS
    u1 = u1
    p1 = p1
    p2 = p2
    r1 = r1
    r2 = r2
    s1 = s1
    i1 = i1
    Waiting = {}
    None = None
    Users = {u1}
    Managed = {u1}
    SPs = {p1, p2}
    Editable = {p1}
    Requests = {r1}
    Target <- Targets
    Sessions = {s1}
    LogoutIds = {}
    Asks <- AsksAll
    Logins = {l1}
    Completions = {c1}
    Terminators = {t1}
INVARIANTS
    EveryParticipantNotified
