CONSTANTS
    nojob = nojob
    unlisted = unlisted
    NoJob = nojob
    Unlisted = unlisted
    Configs <- MCConfigs
    Jobs <- MCJobs
    HasCoordKey = TRUE
    AnswerLost = {"list", "settle"}
    MaxRestarts = 1
SPECIFICATION Spec
PROPERTIES
    AnsweredListingConverges
    JobsGetSettled
