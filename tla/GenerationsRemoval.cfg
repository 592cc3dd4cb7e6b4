SPECIFICATION Spec
CONSTANTS
    Refreshers = {w1}
    Compactors = {c1}
    Readers = {}
    MaxGens = 4
    MaxFaults = 0
INVARIANTS RemovalTolerated
