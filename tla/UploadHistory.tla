---------------------------- MODULE UploadHistory ---------------------------
(***************************************************************************)
(* The service with two history variables, which no step reads: they keep  *)
(* what happened in between, so that a loss can be put down to its cause.  *)
(***************************************************************************)
EXTENDS UploadInvariants

VARIABLES
    disturbed,  \* uploads whose listener may go early, see Overlooked and Misled
    refused     \* hashes that a message call has failed to unpin

historyVars == <<vars, disturbed, refused>>

\* Someone has found no job for the offer t and is about to leave its room.
LeavePending(t) ==
    \/ \E k \in Calls : handlerPc[k] = "leave" /\ Topic(k) = t
    \/ \E g \in Gcs : gcPc[g] = "leave" /\ gcTopic[g] = t

\* The step inserts u's row, too late for a count that a leave relies on.
Overlooked(u) == u \in Rows' \ Rows /\ LeavePending(OfferOf[u])

\* A call of u's listener may be for another job than u.
ForAnother(u, h) ==
    \/ h # HashOf[u]
    \/ \E v \in Uploads \ {u} : HashOf[v] = h /\ OfferOf[v] = OfferOf[u]

\* The step delivers such a message to u's listener.
Misled(u) ==
    \E h \in Hashes :
        /\ ForAnother(u, h)
        /\ handlerPc[<<u, h>>] = "idle"
        /\ handlerPc'[<<u, h>>] # "idle"

\* The step is the unpin of k, and it fails.
Refused(k) ==
    /\ handlerPc[k] = "unpin"
    /\ handlerPc'[k] = "idle"
    /\ restarts' = restarts

HistoryInit ==
    /\ Init
    /\ disturbed = {}
    /\ refused = {}

Remember ==
    /\ disturbed' = disturbed \cup {u \in Uploads : Overlooked(u) \/ Misled(u)}
    /\ refused' = refused \cup {MessageHash(k) : k \in {c \in Calls : Refused(c)}}

\* Next, remembered.
HistoryNext ==
    \/ ProcessStep /\ Remember
    \/ Restart /\ Remember
    \/ Purge /\ Remember

HistorySpec == HistoryInit /\ [][HistoryNext]_historyVars

(***************************************************************************)
(* A job answered since the last start that waits and has not expired has  *)
(* its listener and its room, whatever the timeouts, calls and GC runs of  *)
(* its room do in between, but for two causes: its row was inserted while  *)
(* someone was about to leave the room on a count that had not seen it     *)
(* (gcFiles, hashPinnedHandler: count, then leaveRoom), or a message that  *)
(* may be for another job reached its listener (messageHandler returns     *)
(* true for any hash).  The premise on the ttl is that setTimeout honours  *)
(* it; with a longer one every listener is removed at once.                *)
(***************************************************************************)
ListenerLossHasCause ==
    CommsEnabled /\ TTL <= MaxTimeout =>
        \A u \in Uploads :
            req[u] = "answered" /\ Waiting(u) /\ ~Expired(u)
            => \/ u \in listeners /\ RoomOf(u) \in rooms
               \/ u \in disturbed
(***************************************************************************)
(* What orphans a pin, whatever fails: the purge; an upload that fails or  *)
(* is cut off between its add and its save; a call for the very hash whose *)
(* unpin failed, or which a restart cut off, after it had destroyed the    *)
(* row.  A GC run never does, though its unpin and its destroy are two     *)
(* steps too: it unpins first, and no order of runs, calls, uploads and    *)
(* restarts pins the file again.                                           *)
(***************************************************************************)
OrphanedBy(u) ==
    \/ jobStatus[u] = "purged"
    \/ jobStatus[u] = "UPLOADING" /\ req[u] \in {"failed", "lost"}
    \/ /\ jobStatus[u] = "destroyed"
       /\ <<OfferOf[u], HashOf[u]>> \in announced
       /\ HashOf[u] \in refused \/ req[u] = "lost"

OrphanHasCause ==
    \A u \in Uploads :
        SoleHash(u) /\ HashOf[u] \in pinned => Kept(HashOf[u]) \/ OrphanedBy(u)

-----------------------------------------------------------------------------
(***************************************************************************)
(* The inductive invariants behind the two.                                *)
(***************************************************************************)

\* Rooms, listeners and calls exist only for uploads answered since the start.
RoomsAnswered ==
    /\ \A t \in rooms : \E u \in Uploads : OfferOf[u] = t /\ req[u] = "answered"
    /\ \A u \in listeners : req[u] = "answered" /\ RoomOf(u) \in rooms
    /\ \A k \in Calls : handlerPc[k] # "idle" => req[Listener(k)] = "answered"

\* While the row lives, its listener's timeout is not over before the ttl.
TimersCover ==
    TTL <= MaxTimeout => \A u \in listeners : u \in Rows => age[u] + timer[u] >= TTL

\* Whoever is about to leave a room overlooks the rows its offer has by now.
LeavesOverlook ==
    \A u \in Rows : LeavePending(OfferOf[u]) => u \in disturbed

\* A call of an undisturbed listener is for its own job, and finds it gone
\* once it is past its search.
CallIsOwn(k) ==
    /\ handlerPc[k] # "idle" => ~ForAnother(Listener(k), MessageHash(k))
    /\ handlerPc[k] \in {"countHash", "unpin", "countOffer", "leave", "unsubscribe"} =>
         Gone(Listener(k))

CallsOwn == \A k \in Calls : Listener(k) \in disturbed \/ CallIsOwn(k)

ListenInv ==
    /\ PinInv
    /\ RoomsAnswered
    /\ TimersCover
    /\ LeavesOverlook
    /\ CallsOwn
    /\ ListenerLossHasCause

\* A row that a call destroyed has its pin until the call comes to unpin it.
DestroyedUnpinned ==
    \A u \in Uploads :
        SoleHash(u) /\ jobStatus[u] = "destroyed" /\ HashOf[u] \in pinned =>
            \/ \E k \in Calls :
                 MessageHash(k) = HashOf[u] /\ handlerPc[k] \in {"countHash", "unpin"}
            \/ HashOf[u] \in refused
            \/ req[u] = "lost"

OrphanHistoryInv ==
    /\ OrphanInv
    /\ DestroyedUnpinned
=============================================================================
