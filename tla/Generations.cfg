SPECIFICATION Spec
CONSTANTS
    Refreshers = {w1}
    Compactors = {c1}
    Readers = {r1}
    MaxGens = 4
    MaxFaults = 1
INVARIANTS CurrentComplete PinnedFilesStay ReadersOpen
PROPERTIES PublicationsCompose
