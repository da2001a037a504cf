SPECIFICATION Spec
CONSTANTS
    Trees = {t1}
    Hashes = {h1, h2}
    Callbacks = {c1, c2}
    ListIds = {1, 2}
    NoHash = NoHash
    Off = Off
    NoList = NoList
    UndeleteWindow = 2
    MaxClock = 3
    MaxEvents = 2
INVARIANTS
    TypeOK
    CallbacksSeeCurrent
    ListShowsNewest
    OneListPerUser
PROPERTY
    DeletionHolds
SYMMETRY Symmetry
CONSTRAINT AfterForgot
