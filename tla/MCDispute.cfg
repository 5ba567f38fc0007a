CONSTANTS
    c1 = c1
    c2 = c2
    none = none
    None = none
    Callers <- MCCallers
    Platform = "cloudy"
    Adjudicators <- MCAdjudicators
    Threshold = 2
    Entries <- MCEntries
    Openings <- MCOpenings
    Rulings <- MCRulings
    Withdrawals <- MCWithdrawals
    Serialised = TRUE
SPECIFICATION Spec
INVARIANTS
    LiveIndexAgrees
    OneRulingPerTuple
PROPERTIES
    ImplementsDocket
    CallsReturn
