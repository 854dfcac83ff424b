SPECIFICATION FairSpec
CONSTANTS
    c1 = c1
    c2 = c2
    a = a
    b = b
    Clients = {c1, c2}
    Contents = {a, b}
    MaxChunks = 2
    Manifests <- CompetingManifests
    AudioKeys = {k1}
    k1 = k1
    MaxAborts = 2
    Missing = Missing
INVARIANTS TypeOK DurableAudioIntact AcknowledgedIsDurable DurableIsScheduledOnce BoundChunksKept
PROPERTIES  AudioSpec PreparedResolves
