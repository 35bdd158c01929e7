CONSTANTS
    u1 = u1
    u2 = u2
    o1 = o1
    p1 = p1
    h1 = h1
    h2 = h2
    Uploads = {u1}
    Offers = {o1}
    OfferOf <- Alone
    Peers = {p1}
    PeerOf <- AlonePeer
    Hashes = {h1, h2}
    HashOf <- AloneHash
    NoHash = NoHash
    NoUpload = NoUpload
    NoOffer = NoOffer
    Gcs = {g1, g2}
    TTL = 2
    MaxTimeout = 10
    MaxCalls = 2
    CommsEnabled = TRUE
    Faults = {"size"}
    MaxRestarts = 0
SPECIFICATION FairSpec
PROPERTIES
    AnnouncedFileReleased
    EmptyRoomLeft
CHECK_DEADLOCK FALSE
