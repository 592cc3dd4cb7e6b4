SPECIFICATION Spec
CONSTANTS
    Paths = {p1}
    Bounded = {}
    Restorable = {p1}
    MaxGen = 1
    MaxSize = 3
    MaxVersion = 1
    MaxFaults = 2
    MaxResets = 1
    EmbedOptions = {TRUE, FALSE}
INVARIANTS NoDuplicates AnalyticsAgree
