SPECIFICATION Spec
CONSTANTS
    p = p
    q = q
    s = s
    Paths = {p, q}
    Untracked = {q}
    Roots = {s}
    RootOf <- MCRootOf
    Configured0 = {}
    QueueCap = 1
    DirtyCap = 1
    MaxChanges = 2
    MaxFaults = 1
INVARIANTS NoLostHint
PROPERTIES FullScansRecur Converges
