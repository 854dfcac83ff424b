SPECIFICATION SceneSpec
CONSTANTS
    extractor = extractor
    observer = observer
    interpreter = interpreter
    reflector = reflector
    Processors = {reflector}
    Readers = {reflector}
    Upstream <- ChainUpstream
    AcceptsPartial = {}
    Selections <- AllSelections
    Scenes = {"retry"}
    Workers = {w1}
    RetryLimit = 1
    MaxEdits = 1
    MaxDeletes = 0
    MaxBatches = 1
    MaxCrashes = 0
    MaxStalls = 0
PROPERTIES PublishedFromCurrentText
CHECK_DEADLOCK FALSE
