SPECIFICATION Spec
CONSTANTS
    c1 = c1
    c2 = c2
    a = a
    b = b
    Clients = {c1}
    Contents = {a, b}
    MaxChunks = 1
    Manifests <- OneManifest
    AudioKeys = {k1}
    k1 = k1
    MaxAborts = 0
    Missing = Missing
INVARIANTS PurgedChunksAreGone
