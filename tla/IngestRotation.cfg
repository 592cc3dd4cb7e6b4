SPECIFICATION FairSpec
CONSTANTS
    Paths = {p1}
    Bounded = {p1}
    Restorable = {}
    MaxGen = 2
    MaxSize = 5
    MaxVersion = 1
    MaxFaults = 1
    MaxResets = 0
    EmbedOptions = {FALSE}
INVARIANTS TrustedRows NoDuplicates
PROPERTIES EventuallyConverged
