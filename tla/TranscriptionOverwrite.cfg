SPECIFICATION Spec
CONSTANTS
    Workers = {w1, w2}
    w1 = w1
    w2 = w2
    RetryKeys = {k1}
    k1 = k1
    RetryLimit = 1
    MaxCrashes = 0
    MaxStalls = 1
    MaxDeletes = 0
PROPERTIES SuccessIsFinal
CHECK_DEADLOCK FALSE
