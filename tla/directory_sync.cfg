SPECIFICATION Spec
CONSTANTS
    c1 = c1
    c2 = c2
    a = a
    b = b
    d = d
    m = m
    g = g
    h = h
    Sources = {c1, c2}
    Local = Local
    Users = {a, b, d, m}
    Groups = {g}
    Home <- HomeOf
    Names = {n1, n2}
    Rank <- RankOf
    Policy <- Policies
    Strict = {c2}
    Concurrency = 2
    External = FALSE
    MaxOps = 1
    None = None
SYMMETRY Symmetry
INVARIANTS
    TypeOK
    StoreConsistent
    SuccessMirrors
PROPERTIES
    KeepsReferenced
    FirstSourceWins
