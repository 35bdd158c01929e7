CONSTANTS
    Requests = {r1, r2, r3}
    Limit = 2
    Period = 2
    MaxUploads = 5
    MaxAttempts = 3
SPECIFICATION FairSpec
INVARIANTS
    SequentialQuota
    SequentialCharge
PROPERTIES
    BlockedClientForgiven
