SPECIFICATION Spec
CONSTANTS
    Accounts = {alice}
    Names = {docs}
    Hashes = {h1, h2}
    Visibilities = {"public", "private"}
    Waiters = {w1}
    Calls = {c1}
    None = None
    PublishDelay = 1
    RetryDelay = 1
    MaxTime = 1
    MaxWrites = 1
    MaxRemote = 2
    MaxDeletes = 1
    MaxRestarts = 1
    MaxSwitches = 1
    Encrypted = TRUE
    SaveMayFail = FALSE
SYMMETRY Symmetry
CHECK_DEADLOCK FALSE
INVARIANTS
    TypeOK
    KeyMatchesHash
    WaiterNeverMissesRecord
    SavedIsCurrent
    DeletedStaysDeleted
PROPERTIES
    DirtyNotOverwritten
    NoRollback
