SPECIFICATION Spec
CONSTANTS
    d1 = d1
    d2 = d2
    f = f
    g = g
    c1 = c1
    c2 = c2
    c3 = c3
    Processes = {1}
    Paths = {f, g}
    Databases = {d1, d2}
    Objects = {c1, c2, c3}
    Content <- MCContent
    Chunks <- MCChunks
    Rules <- MCRules
    MaxTime = 3
    MaxLosses = 1
INVARIANTS
    SnapshotsWhole
PROPERTIES
    NothingLeftOver
    ImplementsSnapshots
CHECK_DEADLOCK FALSE
