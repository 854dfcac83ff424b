SPECIFICATION Spec
CONSTANTS
    Workers = {w1, w2}
    w1 = w1
    w2 = w2
    RetryKeys = {k1, k2}
    k1 = k1
    k2 = k2
    RetryLimit = 1
    MaxCrashes = 1
    MaxStalls = 1
    MaxDeletes = 1
SYMMETRY Symmetry
INVARIANTS TypeOK RecordingTracksLatestRun SupersededRunsSettled RevisionsFollowAttempts SucceededRunIsPublished
PROPERTIES NothingPublishedWhileDeleted LedgerSpec
CHECK_DEADLOCK FALSE
