CONSTANTS
    Requests = {r1, r2}
    Limit = 2
    Period = 2
    MaxUploads = 5
    MaxAttempts = 4
SPECIFICATION Spec
INVARIANTS
    QuotaRespected
