CONSTANTS
    w1 = w1
    w2 = w2
    Workers <- MCWorkers
    Garbled = {}
    LockTimeout = 2
    MaxErrors = 1
    MaxCrashes = 1
    NoLock = NoLock
SPECIFICATION FairSpec
PROPERTY
    CrashedLockReplaced
