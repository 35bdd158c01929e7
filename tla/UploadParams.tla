---------------------------- MODULE UploadParams ----------------------------
(***************************************************************************)
(* The parameters every component of the upload service is written over.   *)
(* An upload is one accepted POST /upload request together with the row    *)
(* and the files it gives rise to; an offer is the pair                    *)
(* (contractAddress, offerId), which is also what names a pubsub room.     *)
(***************************************************************************)
EXTENDS Naturals, FiniteSets

CONSTANTS
    Uploads,        \* the upload requests of a behaviour
    Offers,         \* (contractAddress, offerId) pairs; one room topic each
    Peers,          \* libp2p peers that pin files for an offer
    Hashes,         \* CIDs
    OfferOf,        \* [Uploads -> Offers]  req.body.offerId + contractAddress
    PeerOf,         \* [Uploads -> Peers]   req.body.peerId
    HashOf,         \* [Uploads -> Hashes]  the CID IPFS computes for the files
    NoHash,         \* a null fileHash column
    NoUpload,       \* no job held by a handler
    NoOffer,        \* no topic held by a GC run
    Gcs,            \* the gcFiles() calls that may overlap
    TTL,            \* gc.jobs.ttl, in ticks
    MaxTimeout,     \* the longest delay setTimeout honours (2^31-1 ms in Node)
    CommsEnabled,   \* comms.enabled
    Faults,         \* which outside failures may happen
    MaxCalls,       \* bound on pinned-message calls in flight (model checking only)
    MaxRestarts     \* bound on restarts in a behaviour (model checking only)

FaultKinds == {"add", "unlink", "size", "rm", "purge"}

ASSUME FunctionsAssumption ==
    /\ OfferOf \in [Uploads -> Offers]
    /\ PeerOf \in [Uploads -> Peers]
    /\ HashOf \in [Uploads -> Hashes]

ASSUME NullsAssumption ==
    /\ NoHash \notin Hashes
    /\ NoUpload \notin Uploads
    /\ NoOffer \notin Offers

ASSUME NumbersAssumption ==
    /\ TTL \in Nat \ {0}
    /\ MaxTimeout \in Nat \ {0}
    /\ MaxCalls \in Nat
    /\ MaxRestarts \in Nat

ASSUME FlagsAssumption ==
    /\ CommsEnabled \in BOOLEAN
    /\ Faults \subseteq FaultKinds

\* No other upload of the behaviour has the same content hash.  The staged
\* file names carry the upload's time, so two uploads share a hash only when
\* they were staged in the same millisecond (or the clock went back).
SoleHash(u) == \A v \in Uploads \ {u} : HashOf[v] # HashOf[u]
=============================================================================
