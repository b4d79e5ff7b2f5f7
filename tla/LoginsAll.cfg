SPECIFICATION LoginsSpec
CONSTANTS
    h1 = h1
    h2 = h2
    h3 = h3
    d1 = d1
    d2 = d2
    n1 = n1
    n2 = n2
    k1 = k1
    k2 = k2
    Handlers = {h1, h2, h3}
    Devices = {d1, d2}
    Networks = {n1, n2}
    Keys = {k1, k2}
    None = None
    Old = Old
    Scenes <- MCScenes
    AccountTries = 1
    NetworkTries = 2
    KnownTries = 1
    CodeTries = 2
    CODE_ATTEMPTS = 2
    MaxRefills = 1
    MaxStep = 1
SYMMETRY MCSymmetry
INVARIANTS LoginsInv GuessesWithin
PROPERTIES AnswersStay
CHECK_DEADLOCK FALSE
