SPECIFICATION FairSpec
CONSTANTS
    Accounts = {alice}
    Names = {docs}
    Hashes = {h1, h2}
    Visibilities = {"public"}
    Waiters = {}
    Calls = {c1, c2}
    None = None
    PublishDelay = 1
    RetryDelay = 1
    MaxTime = 2
    MaxWrites = 2
    MaxRemote = 0
    MaxDeletes = 0
    MaxRestarts = 1
    MaxSwitches = 0
    Encrypted = FALSE
    SaveMayFail = TRUE
CHECK_DEADLOCK FALSE
INVARIANTS
    CleanHashWasPublished
    DirtyIsPending
PROPERTIES
    EventuallyPublished
