CONSTANTS
    r1 = r1
    r2 = r2
    r3 = r3
    w1 = w1
    w2 = w2
    Runs <- MCRuns
    Workers <- MCWorkers
    CreatedAt <- MCCreatedDistinct
    SuccessLimit = 1
    FailedLimit = 0
    Unset = Unset
    NoRun = NoRun
    MaxErrors = 1
SPECIFICATION FairSpec
PROPERTY EventuallyWithinLimit
