SPECIFICATION Spec
CONSTANTS
    v1 = v1
    v2 = v2
    Key = {1, 2, 3, 4, 5, 6, 7, 8, 9}
    Value = {v1, v2}
    Items <- FewValues
    Others <- TwoKeys
    None = None
    Order = 4
    Locale <- LastTwo
CONSTRAINT Sane
INVARIANTS
    WellFormed
    GetAgrees
    
