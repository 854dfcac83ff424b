SPECIFICATION FairSceneSpec
CONSTANTS
    extractor = extractor
    observer = observer
    interpreter = interpreter
    reflector = reflector
    Processors = {extractor, interpreter, reflector}
    Readers = {extractor, interpreter, reflector}
    Upstream <- ChainUpstream
    AcceptsPartial = {}
    Selections <- AllSelections
    Scenes = {"alone", "chain"}
    Workers = {w1, w2}
    RetryLimit = 1
    MaxEdits = 1
    MaxDeletes = 1
    MaxBatches = 1
    MaxCrashes = 0
    MaxStalls = 1
INVARIANTS InputsAreAccepted
PROPERTIES RunsConclude
CHECK_DEADLOCK FALSE
