CONSTANTS
    ChainLength = 8
    Entries <- MCEntries
    LogID = "drops"
    NoEntry = 0
    NoCp = NoCp
    MaxRewrites = 1
CHECK_DEADLOCK FALSE
SPECIFICATION Spec
INVARIANTS
    TypeOK
    InclusionIffMember
    ForkIsEvident
    ProofFitsOneSize
