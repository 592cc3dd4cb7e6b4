SPECIFICATION Spec
CONSTANTS
    Paths = {p1}
    Bounded = {}
    Restorable = {}
    MaxGen = 2
    MaxSize = 2
    MaxVersion = 1
    MaxFaults = 1
    MaxResets = 1
    EmbedOptions = {TRUE, FALSE}
INVARIANTS DocIdsName
