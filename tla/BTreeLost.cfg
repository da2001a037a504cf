SPECIFICATION Spec
CONSTANTS
    v1 = v1
    v2 = v2
    Key = {1, 2, 3, 4, 5, 6, 7, 8, 9, 10, 11, 12, 13}
    Value = {v1}
    Items <- FewKeys
    Others <- TenKeys
    None = None
    Order = 4
    Locale <- Alphabetic
INVARIANT
    NothingLost
