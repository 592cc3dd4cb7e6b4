SPECIFICATION Spec
CONSTANTS
    Paths = {p1}
    Bounded = {}
    Restorable = {}
    MaxGen = 2
    MaxSize = 2
    MaxVersion = 2
    MaxFaults = 1
    MaxResets = 0
    EmbedOptions = {TRUE, FALSE}
INVARIANTS DocIdsName EmbeddingCovers
