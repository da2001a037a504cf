SPECIFICATION Spec
CONSTANTS
    a = a
    b = b
    c = c
    own = own
    followed = followed
    Hash = {a, b, c}
    Links <- Tree
    Key = {own, followed}
    Priority <- Priorities
    Worker = {w1, w2}
    Desk = {d}
    Pubkey = {p1, p2}
    None = None
    MaxSize = 2
    MaxInputs = 3
SYMMETRY Alike
CONSTRAINT OneEvictsOrTwoRun
CHECK_DEADLOCK FALSE
INVARIANTS
    TypeOK
    OneSyncPerRoot
    OwnTreesFirst
PROPERTIES
    PinnedIsKept
    IndexedIsKept
