CONSTANTS
    u1 = u1
    u2 = u2
    o1 = o1
    p1 = p1
    h1 = h1
    h2 = h2
    Uploads = {u1, u2}
    Offers = {o1}
    OfferOf <- OneOffer
    Peers = {p1}
    PeerOf <- OnePeer
    Hashes = {h1, h2}
    HashOf <- OwnHashes
    NoHash = NoHash
    NoUpload = NoUpload
    NoOffer = NoOffer
    Gcs = {g1}
    TTL = 2
    MaxTimeout = 10
    MaxCalls = 2
    CommsEnabled = TRUE
    Faults = {}
    MaxRestarts = 0
SPECIFICATION Spec
INVARIANTS
    WaitingJobHasListener
CHECK_DEADLOCK FALSE
