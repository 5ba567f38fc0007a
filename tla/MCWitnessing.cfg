CONSTANTS
    w1 = w1
    w2 = w2
    none = none
    garbage = garbage
    None = none
    Garbage = garbage
    Logs = {"dialog"}
    Witnesses <- MCWitnesses
    Operator = w2
    Heads <- MCHeads
    Instants = {1}
    MaxRestarts = 1
    Lossy = TRUE
    Strangers = TRUE
    Rewrites = TRUE
SPECIFICATION Spec
INVARIANTS
    TypeOK
    NoSplitView
    TakenPostsVerify
    CountedHaveSigned
PROPERTIES
    WitnessingIsKept
    FreshWitnessSigns
