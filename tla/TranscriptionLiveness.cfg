SPECIFICATION FairSpec
CONSTANTS
    Workers = {w1, w2}
    w1 = w1
    w2 = w2
    RetryKeys = {k1}
    k1 = k1
    RetryLimit = 1
    MaxCrashes = 2
    MaxStalls = 0
    MaxDeletes = 0
PROPERTIES AttemptsResolve SuccessIsFinal
CHECK_DEADLOCK FALSE
