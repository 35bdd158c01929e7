-------------------------- MODULE UploadInvariants --------------------------
(***************************************************************************)
(* The inductive invariants behind the safety properties of the service:   *)
(* what each actor may rely on between two of its steps, while the others  *)
(* move.                                                                   *)
(***************************************************************************)
EXTENDS UploadProperties

\* A row carries its hash exactly from the save on; a destroyed one has it.
RowHashes ==
    \A u \in Uploads :
        /\ jobStatus[u] \in {"absent", "UPLOADING"} => jobHash[u] = NoHash
        /\ jobStatus[u] \in {"WAITING_FOR_PINNING", "destroyed"} => jobHash[u] = HashOf[u]
        /\ jobHash[u] \in {NoHash, HashOf[u]}

\* Where a request is bounds how far its row is: none before create, no hash
\* before save, and from then on no way back.
RequestRows ==
    \A u \in Uploads :
        /\ req[u] \in {"idle", "create"} => jobStatus[u] = "absent"
        /\ req[u] \in {"add", "unlink", "save"} => jobStatus[u] \in {"UPLOADING", "purged"}
        /\ req[u] \in {"size", "answered"} => Waiting(u) \/ Gone(u)

\* Between add and save the file is pinned, though no row says so yet, unless
\* the release of an equal file took the pin.
UploadedPinned ==
    \A u \in Uploads :
        jobStatus[u] = "UPLOADING" /\ req[u] \in {"unlink", "save"}
            => HashOf[u] \in pinned \/ TakenAlong(u)

\* A job a call works for: saved with the hash and for the offer of the call.
Answers(k, j) ==
    /\ jobHash[j] = MessageHash(k)
    /\ HashOf[j] = MessageHash(k)
    /\ OfferOf[j] = Topic(k)

CallJobs ==
    \A k \in Calls :
        /\ handlerPc[k] # "idle" => <<Topic(k), MessageHash(k)>> \in announced
        /\ handlerPc[k] = "destroy" =>
             /\ found[k] \in Uploads
             /\ Answers(k, found[k])
             /\ Waiting(found[k]) \/ Gone(found[k])
        /\ handlerPc[k] \in {"countHash", "unpin"} =>
             \E j \in Uploads : Answers(k, j) /\ Gone(j)

\* A GC run handles rows that had expired when it read them, and destroys
\* only one that had its hash.
GcRows ==
    \A g \in Gcs :
        /\ \A r \in gcJobs[g] :
             /\ Expired(r[1])
             /\ r[2] # NoHash => r[2] = HashOf[r[1]] /\ (Waiting(r[1]) \/ Gone(r[1]))
        /\ gcPc[g] = "destroy" =>
             /\ gcJob[g] \in Uploads
             /\ Expired(gcJob[g])
             /\ Waiting(gcJob[g]) \/ Gone(gcJob[g])

PinInv ==
    /\ TypeOK
    /\ RowHashes
    /\ RequestRows
    /\ UploadedPinned
    /\ CallJobs
    /\ GcRows
    /\ FreshJobPinned

-----------------------------------------------------------------------------
\* A GC run that is about to destroy a row has unpinned its file for good.
GcUnpinned ==
    \A g \in Gcs :
        gcPc[g] = "destroy" /\ SoleHash(gcJob[g]) /\ jobStatus[gcJob[g]] # "purged"
            => HashOf[gcJob[g]] \notin pinned

\* What can leave u's pin without anyone to unpin it: the purge, an upload
\* that ended between its add and its save, a call that may have failed.
OrphanCause(u) ==
    \/ jobStatus[u] = "purged"
    \/ jobStatus[u] = "UPLOADING" /\ req[u] \in {"failed", "lost"}
    \/ /\ jobStatus[u] = "destroyed"
       /\ <<OfferOf[u], HashOf[u]>> \in announced
       /\ "rm" \in Faults \/ req[u] = "lost"

\* What is pinned was pinned by its upload, and stays for one of the causes
\* while a row or a call is there to unpin it, or after that.
PinExplained(u) ==
    \/ jobStatus[u] = "UPLOADING" /\ req[u] \in {"unlink", "save"}
    \/ Waiting(u)
    \/ /\ jobStatus[u] = "destroyed"
       /\ \E k \in Calls : MessageHash(k) = HashOf[u] /\ handlerPc[k] \in {"countHash", "unpin"}
    \/ OrphanCause(u)

PinsExplained ==
    \A u \in Uploads : SoleHash(u) /\ HashOf[u] \in pinned => PinExplained(u)

OrphanInv ==
    /\ PinInv
    /\ GcUnpinned
    /\ PinsExplained

-----------------------------------------------------------------------------
\* No two uploads of the behaviour have the same hash.
SoleHashes == \A u \in Uploads : SoleHash(u)

\* Nobody purges, nothing restarts, and no step of an upload or a call fails
\* with a pin in hand; without communication there are no calls to fail.
Undisturbed ==
    /\ MaxRestarts = 0
    /\ Faults \subseteq {"size", "rm"}
    /\ "rm" \in Faults => ~CommsEnabled

\* Then none of the causes of an orphan comes about.
UndisturbedInv ==
    /\ OrphanInv
    /\ \A h \in pinned : \E u \in Uploads : HashOf[u] = h
    /\ ~CommsEnabled => listeners = {} /\ announced = {}
    /\ \A u \in Uploads :
         /\ jobStatus[u] # "purged"
         /\ req[u] # "lost"
         /\ jobStatus[u] = "UPLOADING" => req[u] # "failed"

-----------------------------------------------------------------------------
\* Whatever its hash shares, a pin belongs to an upload about to save it, or
\* to a saved row that no GC run is about to destroy.
PinsHaveRows ==
    \A h \in pinned : \E u \in Uploads :
        /\ HashOf[u] = h
        /\ \/ jobStatus[u] = "UPLOADING" /\ req[u] \in {"unlink", "save"}
           \/ Waiting(u) /\ \A g \in Gcs : gcPc[g] = "destroy" => gcJob[g] # u

\* Without communication nobody listens and no call runs.
GcAloneInv ==
    /\ PinInv
    /\ PinsHaveRows
    /\ listeners = {}
    /\ \A k \in Calls : handlerPc[k] = "idle"
    /\ \A u \in Uploads : jobStatus[u] # "purged"
=============================================================================
