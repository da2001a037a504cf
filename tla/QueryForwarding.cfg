SPECIFICATION FairSpec
CONSTANTS
    Peers = {p1, p2}
    Hashes = {h1, h2}
    NotInFlight = NotInFlight
    MaxForwards = 2
    Window = 2
    MaxTime = 3
INVARIANTS
    TypeOK
    IndexesAgree
    InFlightHasRequester
    ForwardHasTimer
    ForwardRateBounded
PROPERTY
    ForwardEnds
