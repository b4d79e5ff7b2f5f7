SPECIFICATION Spec
CONSTANTS
    nyu = nyu
    mio = mio
    ren = ren
    o1 = o1
    o2 = o2
    c1 = c1
    c2 = c2
    i1 = i1
    i2 = i2
    q1 = q1
    q2 = q2
    free = free
    Accounts = {nyu, mio, ren}
    Addresses = {nyu, mio, ren, free}
    Home <- MCHome
    Orgs = {o1, o2}
    Collections = {c1, c2}
    Items = {i1, i2}
    MaxRows = 4
    Requests = {q1, q2}
    None = None
    Scenes <- MCScenes
    Seats = 3
    MostOwned = 1
SYMMETRY MCSymmetry
INVARIANT KeepsAnOwner
CHECK_DEADLOCK FALSE
