SPECIFICATION Spec
CONSTANTS
    Paths = {p1}
    Bounded = {}
    Restorable = {p1}
    MaxGen = 1
    MaxSize = 4
    MaxVersion = 1
    MaxFaults = 1
    MaxResets = 0
    EmbedOptions = {FALSE}
INVARIANTS TrustedRows
