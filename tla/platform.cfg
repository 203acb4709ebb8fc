SPECIFICATION PlatformSpec
CONSTANTS
    MaxOutages = 2
    MaxMoves = 3
    Callers = {c1, c2}
    ResetEvery = 3
    MaxSession = 5
    MaxDrops = 2
    Ups = {u1, u2}
    Downs = {d1, d2}
    MaxMishaps = 2
    MaxRecords = 4
    MaxCrashes = 2
    MaxFailures = 2
    Messages = 3
    Page = 3
    Batch = 2
    MaxAttempts = 2
    MaxBody = 2
    MaxEmbedMishaps = 1
    Items = {i1, i2}
    Workers = {w1, w2}
    MaxAborts = 1
    Todo = {t1}
    MaxChange = 3
    MaxLaneFaults = 2
    AfterDays <- MCDays
    GraceDays <- MCDays
    CaptureDays <- MCDays
    MaxAge = 1
    HoldDays = 2
    Dated = 1
    Horizon = 6
    Mails = {m1, m2}
    Pollers = {p1, p2}
    Dates <- MCDates
    Present = {m1}
    Edge = 1
    Limit = 1
    MaxTime = 2
    MaxKey = 2
    MaxGen = 2
    MaxEvents = 2
INVARIANTS PlatformTypeOK NoFalseMiss BlameIsRight MirrorServesAlone
INVARIANTS FoldersOfThisSession SpentOnceAndStored LinkLives VerifyIsExact
INVARIANTS ChunksCurrent AliasMeansItem RailsHold
INVARIANTS NothingBehindCursor UntilIsPrefix IdentityStable
PROPERTIES ConnectionRecovers EmbeddingRecovers BridgeRecovers
CHECK_DEADLOCK FALSE
