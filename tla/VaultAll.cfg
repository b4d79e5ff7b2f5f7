SPECIFICATION VaultSpec
CONSTANTS
    Folders = {}
    Ciphers = {}
    Sends = {s1}
    Profile = Profile
    NoFolder = NoFolder
    MaxWrites = 4
    MaxBackups = 1
    MaxEpochs = 3
    Limit = 2
    c1 = c1
    c2 = c2
    q1 = q1
    q2 = q2
    None = None
    Requests = {q1, q2}
    Rules <- MCRules
    Scenes <- MCItemScenes
    Items = {c1, c2}
    Late = 1
    Month = 1
    MaxKeys = 3
    MaxTime = 3
    ItemIds = {c1}
    Mailboxes = {m1, m2}
    MaskedScenes <- MCMaskedScenes
    MostPending = 1
    MostCodes = 1
SYMMETRY MCSymmetry
INVARIANTS KeptAsPromised NothingUnderALostKey RestoresOverWhatWasSeen MaskedInv
PROPERTIES StaleStaysStale
CHECK_DEADLOCK FALSE
