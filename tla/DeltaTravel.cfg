SPECIFICATION TravelSpec
CONSTANTS
    f1 = f1
    c1 = c1
    Folders = {f1}
    Ciphers = {c1, c2}
    Sends = {}
    Profile = Profile
    NoFolder = NoFolder
    MaxWrites = 8
    MaxBackups = 0
    MaxEpochs = 1
    Limit = 1
INVARIANTS NothingIsMissed UpToDateIsComplete
PROPERTIES EveryChangeIsNumbered CursorMovesForward ReplicaConverges
CHECK_DEADLOCK FALSE
