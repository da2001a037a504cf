SPECIFICATION FairSpec
CONSTANTS
    Nodes = {1, 2, 3}
    Pubkey <- TwoAccounts
    Follows <- NoFollows
    MaxPool <- Pools
    Configs <- NoStrangers
    None = None
    MaxConnections <- Reconnects
    MaxFaults = 1
CHECK_DEADLOCK FALSE
INVARIANTS
    TypeOK
    NoPhantomPeer
    QuietAgreement
    OneDevicePerAccount
PROPERTIES
    PoolsWithinLimits
    AcceptedOfferSettles
