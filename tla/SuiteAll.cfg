SPECIFICATION FairSpec
CONSTANTS
    b1 = b1
    r1 = r1
    r2 = r2
    r3 = r3
    Browsers = {b1}
    Ids = {r1, r2, r3}
    None = None
    Scenes <- MCScenes
    Page = 1
    Quota = 2
    MaxRounds = 8
    MaxNumber = 7
    MaxIds = 2
    MaxSubmits = 1
    MaxDrops = 1
    MaxFailures = 1
INVARIANTS SuiteInv NothingBelowIsMissed
PROPERTIES RekeyBringsAll ComesToShow
CHECK_DEADLOCK FALSE
