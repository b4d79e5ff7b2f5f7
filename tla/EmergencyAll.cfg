SPECIFICATION EitherSpec
CONSTANTS
    Requests = {h1, h2}
    Waits = {1, 2}
    Day = 1
    MaxSaves = 7
    MaxRotations = 2
    MaxTime = 4
INVARIANTS NoIsKept ApprovedForThisAsking
PROPERTIES WaitIsKept RotationMissesNobody AskingIsSettled
CHECK_DEADLOCK FALSE
