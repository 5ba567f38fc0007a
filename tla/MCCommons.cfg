CONSTANTS
    ann = ann
    bob = bob
    eve = eve
    op = op
    zero = zero
    Members = {ann, bob, eve, op}
    Operator = op
    Categories = {"reliability", "support"}
    LogID = "log"
    LifeID = "life"
    ZeroHash = zero
    NoHash = zero
    Claims <- MCClaims
    Entries <- MCEntries
    Openings <- MCOpenings
    Withdrawals <- MCWithdrawals
    Panel <- MCPanel
    Assessments <- MCAssessments
    Answers <- MCAnswers
    Prover <- MCProver
SPECIFICATION Spec
INVARIANTS
    LifecycleFollowsCases
    VerdictsAreGrounded
    StandingCountsEach
