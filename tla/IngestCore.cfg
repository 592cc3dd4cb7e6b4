SPECIFICATION Spec
CONSTANTS
    Paths = {p1, p2}
    Bounded = {p1}
    Restorable = {}
    MaxGen = 1
    MaxSize = 2
    MaxVersion = 1
    MaxFaults = 1
    MaxResets = 0
    EmbedOptions = {FALSE}
INVARIANTS TypeOK AnalyticsAgree RefreshInv
PROPERTIES WriteAhead IntentRetained
