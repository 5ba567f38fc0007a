CONSTANTS
    nojob = nojob
    unlisted = unlisted
    NoJob = nojob
    Unlisted = unlisted
    Configs <- MCConfigs
    Jobs <- MCJobs
    HasCoordKey = TRUE
    AnswerLost = {"list"}
    MaxRestarts = 0
SPECIFICATION Spec
PROPERTY
    ListingConverges
