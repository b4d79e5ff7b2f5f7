SPECIFICATION MemorySpec
CONSTANTS
    Devices = {d1}
    Callers = {r1, r2}
    SESSION_MEMORY = 1
    MaxWrites = 3
    MaxTime = 1
    Requests = {r1, r2}
    None = None
    a1 = a1
    a2 = a2
    x1 = x1
    x2 = x2
    BreachScenes <- MCBreachScenes
    Accounts = {a1, a2}
    Subjects = {x1, x2}
    BreachTime = 4
    Spacing = 1
    LongestWait = 2
    LongestPause = 2
    Retries = 1
    PerAccount = 1
    PerHour = 2
    PerDay = 2
    PerAccountDay = 1
    FreshPerRequest = 1
    EmailWait = 2
    EmailKeep = 2
    Hour = 3
    Day = 4
    Week = 5
    Burst = 2
    MostKept = 1
    MirrorScenes <- MCMirrorScenes
    SitesRetry = 2
    MirrorTime = 3
    MaxEdition = 2
    IconScenes <- MCIconScenes
    MaxFiles = 2
    AfterEviction = 1
    IconDays = 2
    NoneDays = 1
    AtOnce = 1
    MostHosts = 1
    Tries = 2
    IconTime = 2
SYMMETRY MemorySymmetry
INVARIANTS VerdictIsCurrent StaleForSeconds QuestionsInv MirrorsInv IconsInv
CHECK_DEADLOCK FALSE
