CONSTANTS
    Requests = {r1, r2}
    Stems = {photo, notes}
    MaxFiles = 2
    MaxTime = 1
    Capacity = 3
    Reserve = 1
SPECIFICATION FairSpec
INVARIANTS
    UnansweredHasCause
    FolderAccounted
    MeetingCosts
    ReserveBound
PROPERTIES
    RequestAnswered
CHECK_DEADLOCK FALSE
