SPECIFICATION StoresSpec
CONSTANTS
    Readers = {r1}
    MaxVersion = 2
    Ids = {i1, i2, i3, i4}
    NoId = NoId
    MaxCrashes = 3
    Logs = {l1, l2}
    Users = {u, v}
    OneShot = {v}
    Restores = FALSE
    MaxEdits = 2
    MaxRefreshes = 2
    MaxFailures = 1
    Workers = {w1, w2}
    CodeTtl = 1
    AccessTtl = 1
    RefreshTtl = 2
    MaxGrants = 1
    MaxFamily = 2
    MaxPending = 1
    MaxAuthorizations = 2
    MaxIssues = 3
    MaxClock = 3
    Loaders = {p1, p2}
    MaxSecrets = 4
    Daemons = {d1, d2}
    Watchers = {o1, o2}
    NoOwner = NoOwner
    MaxInstances = 2
    Sessions = {s1, s2}
    Texts = {a}
    Views = {v1, v2}
    Blank = Blank
    Old = Old
    Idle = Idle
    MaxQueue = 2
    MaxRenders = 1
    MaxAnswers = 1
    Docs = {doc}
    Contents = {text}
    Absent = Absent
    Attempts = 2
    MaxWrites = 2
    MaxErrors = 1
    Shapes <- MCShapes
    Limits = {1, 3}
    Budgets = {1, 2, 9}
    MaxRecords = 2
INVARIANTS StoresTypeOK NeverWedged ReadersPinned
INVARIANTS FactsFollowBlobs AnswersAreCurrent
INVARIANTS FreshIsCurrent
INVARIANTS OneLine ReuseRevokes EvidenceKept OneSecret NoEarlierDaemon
INVARIANTS NewestIsListed SelectionIsPreviewed WholeIsRead
PROPERTIES IsRegister DocumentsOutliveErrors
CHECK_DEADLOCK FALSE
