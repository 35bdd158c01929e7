CONSTANTS
    u1 = u1
    u2 = u2
    o1 = o1
    p1 = p1
    h1 = h1
    h2 = h2
    Uploads = {u1, u2}
    Offers = {o1}
    OfferOf <- OneOffer
    Peers = {p1}
    PeerOf <- OnePeer
    Hashes = {h1, h2}
    HashOf <- OneHash
    NoHash = NoHash
    NoUpload = NoUpload
    NoOffer = NoOffer
    Gcs = {g1, g2}
    TTL = 1
    MaxTimeout = 10
    MaxCalls = 0
    CommsEnabled = FALSE
    Faults = {"size", "rm"}
    MaxRestarts = 0
SPECIFICATION FairSpec
INVARIANTS
    FreshJobPinned
    NoOrphanPin
PROPERTIES
    ImplementsCustody
    EveryPinReleased
    ExpiredJobCollected
CHECK_DEADLOCK FALSE
