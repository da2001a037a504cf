SPECIFICATION FairSpec
CONSTANTS
    Peers = {p1, p2}
    Hashes = {h1}
    Gets = {g1}
    None = None
    Late = Late
    NotInFlight = NotInFlight
    MaxForwards = 1
    MaxRequests = 1
    MaxResponses = 1
    MaxCloses = 0
CHECK_DEADLOCK FALSE
INVARIANT
    FirstResponseWins
