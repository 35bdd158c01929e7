CONSTANTS
    Checks = {h1}
    SizeRequests = {s1}
    Uploads = {u1, u2}
    Gcs = {g1}
SPECIFICATION FairSpec
INVARIANTS
    TypeOK
    HealthyMeansSeenUp
    ServesOnlyWhenReady
    RoomsAfterStop
PROPERTIES
    CheckAnswered
    SizeAnswered
    StartSettles
    StoppedRests
CHECK_DEADLOCK FALSE
