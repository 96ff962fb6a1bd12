SPECIFICATION Spec
CONSTANTS
    Ids = {x, y}
    Dbs = {d}
    MaxOps = 3
    MaxWrites = 4
    None = None
SYMMETRY Symmetry
INVARIANTS
    TypeOK
    NothingLost
    MirrorExactOrFlagged
