CONSTANTS
    r1 = r1
    r2 = r2
    r3 = r3
    w1 = w1
    w2 = w2
    Runs <- MCRuns
    Workers <- MCWorkers
    CreatedAt <- MCCreatedTied
    SuccessLimit = 1
    FailedLimit = Unset
    Unset = Unset
    NoRun = NoRun
    MaxErrors = 0
SYMMETRY MCSymmetry
SPECIFICATION Spec
INVARIANT RetainsLimit
