CONSTANTS
    w1 = w1
    w2 = w2
    none = none
    garbage = garbage
    None = none
    Garbage = garbage
    Logs = {"dialog"}
    Witnesses <- GapWitnesses
    Operator = w2
    Heads <- Honest
    Instants = {1}
    MaxRestarts = 0
    Lossy = FALSE
    Strangers = FALSE
    Rewrites = FALSE
SPECIFICATION Spec
INVARIANT
    CosignsEveryExtension
