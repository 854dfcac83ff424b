SPECIFICATION OwnerSpec
CONSTANTS
    None = None
    Scenes = {"artifacts", "memories", "sessions", "settings", "catalog", "nudges", "corrections"}
    Generated = {k1}
    Reserved = {m1, m2}
    Proposals <- MCProposals
    Words <- MCWords
    MaxEdits = 2
    MaxResults = 2
    MaxInvalidations = 1
    Keys = {r1, r2}
    Contents <- MCContents
    Scopes = {"global_transcription", "processor"}
    ContextItems = 2
    ContextLength = 2
    MaxChanges = 3
    MaxRuns = 1
    MaxPurges = 1
    Callers = {b1, b2}
    CodesPerSet = 2
    IdleTime = 1
    AbsoluteTime = 2
    ChallengeTime = 1
    MaxTime = 2
    MaxSessions = 2
    MaxSets = 2
    MaxChallenges = 2
    Pages = {p1, p2}
    MaxSaves = 2
    MaxSends = 1
    MaxReleases = 1
    MaxRepeats = 1
    BuiltIn = "builtin"
    Custom = "custom"
    Drafts <- MCDrafts
    Clients = {c1, c2}
    MaxRequests = 4
    MaxSeeds = 1
    JournalDays = {1, 2}
    Requirements = {q1, q2}
    Recorders = {t1}
    Schedulers = {s1, s2}
    Cards = {g1}
    Limits = {2}
    MaxRecords = 2
    MaxActions = 2
    MaxDates = 2
    Inspectors = {i1, i2}
    Handlers = {h1, h2}
    Cleaners = {w1, w2}
    MaxCorrections = 1
    MaxCleanups = 3
    MaxDeliveries = 3
INVARIANTS   SessionsEnd ConsentAndSchedule CatalogFollowsOwner  CorrectionsStand
CHECK_DEADLOCK FALSE
