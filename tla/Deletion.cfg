SPECIFICATION DeletionSpec
CONSTANTS
    None = None
    Scenes = {"exports", "backups", "workers"}
    Entries = {c1}
    Late = {c1}
    MaxRestores = 1
    Exports = {x1}
    Purgers = {w1, w2}
    MaxRequests = 2
    MaxFailures = 1
    MaxBackups = 2
SYMMETRY Alike
INVARIANTS DeletedIsNotExported  
CHECK_DEADLOCK FALSE
