SPECIFICATION Spec
CONSTANTS
    N = 4
    Directory = {1, 2, 3}
    Ledgers = {l1, l2}
    Platform = "cloudy"
    Stewards = {7, 8, 9}
    Threshold = 2
    GenesisPolicy <- MCGenesisPolicy
    MaxInt = 3
    Spends <- MCAllSpends
    Changes <- MCChanges
    BypassUpTo = 2
    Foreign <- MCForeign
    NoCall <- MCNoCall
INVARIANTS
    TypeOK
    NoFork
    ZeroSum
    DebtWithinACap
PROPERTIES
    NonceSpentOnce
    AppendsVerify
    RejectsOnlyTampering
    ImplementsCreditLedger
SYMMETRY MCSymmetry
