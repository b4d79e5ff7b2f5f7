SPECIFICATION Spec
CONSTANTS
    nyu = nyu
    mio = mio
    ren = ren
    ana = ana
    bob = bob
    cat = cat
    s1 = s1
    s2 = s2
    n1 = n1
    n2 = n2
    f1 = f1
    f2 = f2
    q1 = q1
    q2 = q2
    Users = {nyu, mio, ren}
    Addresses = {ana, bob, cat}
    Subjects = {s1, s2}
    Entries = {n1, n2}
    Flows = {f1, f2}
    Requests = {q1, q2}
    None = None
    Scenes <- MCScenes
    Quota = 1
SYMMETRY MCSymmetry
INVARIANTS AccountsInv AnAdminStays WithinQuota
CHECK_DEADLOCK FALSE
