SPECIFICATION SceneSpec
CONSTANTS
    extractor = extractor
    observer = observer
    interpreter = interpreter
    reflector = reflector
    Processors = {extractor, observer, interpreter, reflector}
    Readers = {extractor, reflector}
    Upstream <- ChainUpstream
    AcceptsPartial = {interpreter}
    Selections <- AllSelections
    Scenes = {"delivery", "lineage", "serial"}
    Workers = {w1, w2}
    RetryLimit = 1
    MaxEdits = 2
    MaxDeletes = 1
    MaxBatches = 1
    MaxCrashes = 1
    MaxStalls = 1
SYMMETRY Symmetry
INVARIANTS TypeOK PublishedOnce QueuedRunsKeepTheirJob ShownIsFresh StaleIsOutdated OutdatedIsStaleWhenSerial
PROPERTIES SettledRunsStay 
CHECK_DEADLOCK FALSE
