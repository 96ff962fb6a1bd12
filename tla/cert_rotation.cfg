SPECIFICATION Spec
CONSTANTS
    Kinds = {"signing", "encryption"}
    Ids = {c1, c2, c3, c4, c5, c6, c7, c8, c9, c10, c11, c12, c13}
    Day = 2
    Lead <- LeadDays
    Overlap <- OverlapDays
    Validity = 5
    Grace = 1
    Threshold = 2
    Lifetimes <- LifetimesFound
    Admins = {a1}
    Signers = {s1, s2}
    MaxOps = 1
    MaxFaults = 2
    MaxRestarts = 1
    None = None
SYMMETRY Symmetry
INVARIANTS
    TypeOK
    KeptAlive
    FirstUseUnique
PROPERTIES
    AutoPromotesElapsed
