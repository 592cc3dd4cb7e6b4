SPECIFICATION DiscoverySpec
CONSTANTS
    transcript = f
    top = r
    mid = e
    low = d
    Parts = {"walk"}
    LastDb = 2
    V2 = {2}
    NoV1 = {2}
    Chats = {c}
    EarlyLoss = FALSE
    MaxMoves = 4
    MaxKills = 1
    t1 = t1
    t2 = t2
    b1 = b1
    b2 = b2
    Databases = {b1, b2}
    Tasks = {t1, t2}
    Of <- MCOf
    MaxEdits = 3
    MaxDeaths = 1
    Files = {f}
    Dirs = {r, e, d}
    Root = r
    Home <- MCHome
    Parent <- MCParent
    Movable = {e}
    Procs = {p1, p2}
    NoProc = NoProc
    LateRenames = FALSE
    IndexLoss = FALSE
    MaxChanges = 3
    MaxFaults = 1
INVARIANTS JournalComplete
CHECK_DEADLOCK FALSE
