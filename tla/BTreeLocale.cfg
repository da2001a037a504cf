SPECIFICATION Spec
CONSTANTS
    v1 = v1
    v2 = v2
    Key = {1, 2, 3, 4}
    Value = {v1}
    Items <- AllKeys
    Others = {}
    None = None
    Order = 4
    Locale <- Terms
INVARIANT
    NothingLost
