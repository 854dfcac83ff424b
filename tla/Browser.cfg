SPECIFICATION FairBrowserSpec
CONSTANTS
    t1 = t1
    t2 = t2
    s1 = s1
    s2 = s2
    Scenes = {"one tab", "two tabs", "capture", "pair", "move"}
    Tabs = {t1, t2}
    Entries = {e1}
    Days = {d1, d2}
    MaxCaptures = 3
    MaxRemote = 1
    MaxDeletions = 2
    MaxFaults = 1
    Syncs = {s1, s2}
    MaxUnits = 2
    MaxMoves = 1
    MaxLosses = 1
    MaxBreaks = 1
INVARIANTS CapturesKept TextsOnTheirBase
PROPERTY QueuesDrain
CHECK_DEADLOCK FALSE
