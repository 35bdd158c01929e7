-------------------------- MODULE UploadProperties --------------------------
(***************************************************************************)
(* What the composed service should guarantee, and the fairness under      *)
(* which it makes progress.                                                *)
(***************************************************************************)
EXTENDS UploadService

Waiting(u) == jobStatus[u] = "WAITING_FOR_PINNING"

Gone(u) == jobStatus[u] \in {"destroyed", "purged"}

\* The time of u's row is up, or its hash was announced on its room.
ReleaseDue(u) == Expired(u) \/ <<OfferOf[u], HashOf[u]>> \in announced

(***************************************************************************)
(* A job that waits for a pinner and has not expired still has its file    *)
(* pinned: neither a GC run, nor a pinned-message call for another job,    *)
(* nor an upload that failed half-way, nor a restart between any two of    *)
(* their steps, takes the content away (fileUploader pins before it saves, *)
(* hashPinnedHandler destroys before it unpins, gcFiles unpins only rows   *)
(* that had expired when findAll ran).  What may take it away is the       *)
(* release of another saved upload of the very same hash, for gcFiles      *)
(* counts no rows and hashPinnedHandler counts before it unpins.           *)
(***************************************************************************)
TakenAlong(u) ==
    \E v \in Uploads \ {u} :
        HashOf[v] = HashOf[u] /\ ReleaseDue(v) /\ (Waiting(v) \/ Gone(v))

FreshJobPinned ==
    \A u \in Uploads :
        Waiting(u) /\ ~Expired(u) => HashOf[u] \in pinned \/ TakenAlong(u)

(***************************************************************************)
(* A job answered since the last start has a listener for as long as it    *)
(* waits and has not expired: a message for another job does not end it    *)
(* (subscribeForOffer: "no further messages are expected").                *)
(***************************************************************************)
WaitingJobHasListener ==
    CommsEnabled =>
        \A u \in Uploads :
            req[u] = "answered" /\ Waiting(u) /\ ~Expired(u) => u \in listeners

(***************************************************************************)
(* Nothing stays pinned that no one will unpin: a pinned hash belongs to a *)
(* row, to an upload about to write it into its row, or to a call that has *)
(* destroyed the row and is about to unpin (hashPinnedHandler, gcFiles).   *)
(***************************************************************************)
Kept(h) ==
    \/ \E u \in Rows : HashOf[u] = h /\ (jobHash[u] = h \/ req[u] \in {"unlink", "save"})
    \/ \E k \in Calls : MessageHash(k) = h /\ handlerPc[k] \in {"countHash", "unpin"}

NoOrphanPin == \A h \in pinned : Kept(h)

(***************************************************************************)
(* The service implements FileCustody: a file is held once its row carries *)
(* the hash, the contents that are stored are the pins, and release is due *)
(* when the row has expired or the hash was announced on the offer's room. *)
(***************************************************************************)
CustodyOf(u) ==
    CASE jobStatus[u] = "absent"    -> "none"
      [] jobStatus[u] = "UPLOADING" -> "accepted"
      [] Waiting(u)                 -> "held"
      [] jobStatus[u] = "destroyed" -> "released"
      [] jobStatus[u] = "purged"    -> "purged"

Custody == INSTANCE FileCustody WITH
    Files <- Uploads,
    ContentOf <- HashOf,
    custody <- [u \in Uploads |-> CustodyOf(u)],
    stored <- pinned,
    due <- {u \in Uploads : ReleaseDue(u)}

ImplementsCustody == Custody!CustodySpec

-----------------------------------------------------------------------------
(***************************************************************************)
(* Fairness.  Node runs every continuation that is ready, the database     *)
(* answers every statement, setInterval and setTimeout fire, and the clock *)
(* advances: weak fairness of each request, call, GC run, timer and of     *)
(* Tick.  The daemon may refuse an unpin, but not for ever: strong         *)
(* fairness of the unpin of a GC run.  Nobody has to send a request or a   *)
(* message.  Progress is claimed of a process that is left to run: what a  *)
(* restart cuts off and what a purge forgets, nothing resumes.             *)
(***************************************************************************)
Fairness ==
    /\ \A u \in Uploads :
         /\ WF_vars(req[u] # "idle" /\ UploadStep(u))
         /\ WF_vars(Timeout(u))
    /\ \A k \in Calls : WF_vars(CallStep(k))
    /\ \A g \in Gcs :
         /\ WF_vars(GcStep(g))
         /\ SF_vars(GcUnpin(g) /\ UNCHANGED <<uploadVars, handlerVars, restarts>>)
    /\ WF_vars(Tick)

FairSpec == Init /\ [][ProcessStep]_vars /\ Fairness

(***************************************************************************)
(* A row that has expired is removed in the end (gcFiles: "Unpin file and  *)
(* remove expired jobs"), whatever the order of the runs, the calls and    *)
(* the unpins that failed.                                                 *)
(***************************************************************************)
ExpiredJobCollected ==
    \A u \in Uploads : u \in Rows /\ Expired(u) ~> u \notin Rows

(***************************************************************************)
(* A room whose offer has no job left is left in the end, unless a new job *)
(* for the offer arrives (gcFiles: "Leave rooms for no jobs offers").      *)
(***************************************************************************)
EmptyRoomLeft ==
    \A t \in Offers :
        t \in rooms /\ RowsOfOffer(t) = {} ~> t \notin rooms \/ RowsOfOffer(t) # {}

(***************************************************************************)
(* A call that is about to look for a job that waits for its very message  *)
(* leads to that job gone and its file unpinned (hashPinnedHandler).  What *)
(* the call leaves pinned with a row the GC would still release in the     *)
(* end, so it is what a call leaves without one that the property catches. *)
(***************************************************************************)
AnnouncedFileReleased ==
    \A k \in Calls, u \in Uploads :
        SoleHash(u) /\ handlerPc[k] = "find" /\ u \in Matching(k)
            ~> u \notin Rows /\ HashOf[u] \notin pinned

(***************************************************************************)
(* Whatever the service pins it unpins in the end, for there is a row to   *)
(* expire behind every pin (fileUploader, hashPinnedHandler, gcFiles).     *)
(***************************************************************************)
EveryPinReleased == \A h \in Hashes : h \in pinned ~> h \notin pinned
=============================================================================
