SPECIFICATION Spec
CONSTANTS
    a1 = a1
    a2 = a2
    s1 = s1
    f1 = f1
    f2 = f2
    u1 = u1
    u2 = u2
    h1 = h1
    h2 = h2
    Attachments = {a1, a2}
    Sends = {s1}
    RequestFiles = {f1, f2}
    Submissions = {u1, u2}
    FilesOf <- MCFilesOf
    Handlers = {h1, h2}
    Scenes <- MCScenes
    MaxAccess = 2
    StorageLimit = 2
    RequestLimit = 1
    MaxCrashes = 1
SYMMETRY MCSymmetry
INVARIANTS
    ArrivedIsThere
    OnlyEndedUploadsBlock
    LimitsKept
CHECK_DEADLOCK FALSE
