SPECIFICATION SceneSpec
CONSTANTS
    extractor = extractor
    observer = observer
    interpreter = interpreter
    reflector = reflector
    Processors = {reflector}
    Readers = {reflector}
    Upstream <- ChainUpstream
    AcceptsPartial = {}
    Selections <- AllSelections
    Scenes = {"delivery"}
    Workers = {w1}
    RetryLimit = 1
    MaxEdits = 0
    MaxDeletes = 0
    MaxBatches = 1
    MaxCrashes = 1
    MaxStalls = 0
INVARIANTS NoStrandedRun
CHECK_DEADLOCK FALSE
