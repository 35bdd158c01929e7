------------------------------- MODULE JobsGc -------------------------------
(***************************************************************************)
(* gcFiles.  setInterval starts a run whether or not the previous one is   *)
(* over, so several runs g \in Gcs may be in flight.  The rows of a run    *)
(* are the ones findAll returned, with the hash each had at that moment.   *)
(***************************************************************************)
EXTENDS JobTable, IpfsPins, Rooms

VARIABLES
    gcPc,       \* where each run is
    gcJobs,     \* <<job, fileHash>> pairs the run has still to handle
    gcJob,      \* the job it has unpinned and is about to destroy
    gcTopic     \* the topic it has found no job for

gcVars == <<gcPc, gcJobs, gcJob, gcTopic>>

GcTypeOK ==
    /\ gcPc \in [Gcs -> {"idle", "jobs", "destroy", "rooms", "leave"}]
    /\ gcJobs \in [Gcs -> SUBSET (Uploads \X (Hashes \cup {NoHash}))]
    /\ gcJob \in [Gcs -> Uploads \cup {NoUpload}]
    /\ gcTopic \in [Gcs -> Offers \cup {NoOffer}]

GcInit ==
    /\ gcPc = [g \in Gcs |-> "idle"]
    /\ gcJobs = [g \in Gcs |-> {}]
    /\ gcJob = [g \in Gcs |-> NoUpload]
    /\ gcTopic = [g \in Gcs |-> NoOffer]

GcMove(g, from, to) == gcPc[g] = from /\ gcPc' = [gcPc EXCEPT ![g] = to]

\* findAll: the expired rows of this moment.
GcStart(g) ==
    /\ GcMove(g, "idle", "jobs")
    /\ gcJobs' = [gcJobs EXCEPT ![g] = {<<u, jobHash[u]>> : u \in ExpiredRows}]
    /\ UNCHANGED <<gcJob, gcTopic, jobVars, pinned, roomVars>>

\* Variant: NotPinnedError is not ignored.
GcUnpinStrict(g) ==
    /\ GcMove(g, "jobs", "destroy")
    /\ \E r \in gcJobs[g] :
         /\ r[2] \in pinned
         /\ Unpin(r[2])
         /\ gcJob' = [gcJob EXCEPT ![g] = r[1]]
         /\ gcJobs' = [gcJobs EXCEPT ![g] = @ \ {r}]
    /\ UNCHANGED <<gcTopic, jobVars, roomVars>>

\* storageProvider.rm(job.fileHash) succeeds, or the hash was not pinned.
GcUnpin(g) ==
    /\ GcMove(g, "jobs", "destroy")
    /\ \E r \in gcJobs[g] :
         /\ r[2] # NoHash
         /\ Unpin(r[2])
         /\ gcJob' = [gcJob EXCEPT ![g] = r[1]]
         /\ gcJobs' = [gcJobs EXCEPT ![g] = @ \ {r}]
    /\ UNCHANGED <<gcTopic, jobVars, roomVars>>

\* The run is over without having looked at the other jobs or at the rooms.
GcAbort(g) ==
    /\ GcMove(g, "jobs", "idle")
    /\ gcJobs' = [gcJobs EXCEPT ![g] = {}]
    /\ UNCHANGED <<gcJob, gcTopic, jobVars, roomVars>>

\* Variant: every error of rm is ignored.
GcUnpinFailsIgnored(g) ==
    /\ "rm" \in Faults
    /\ GcMove(g, "jobs", "destroy")
    /\ \E r \in gcJobs[g] :
         /\ r[2] # NoHash
         /\ UnpinMaybe(r[2])
         /\ gcJob' = [gcJob EXCEPT ![g] = r[1]]
         /\ gcJobs' = [gcJobs EXCEPT ![g] = @ \ {r}]
    /\ UNCHANGED <<gcTopic, jobVars, roomVars>>

GcUnpinFails(g) ==
    /\ "rm" \in Faults
    /\ \E r \in gcJobs[g] : r[2] # NoHash /\ UnpinMaybe(r[2])
    /\ GcAbort(g)

\* A job whose hash is still null: ProviderManager.rm throws a TypeError.
GcUnpinNull(g) ==
    /\ \E r \in gcJobs[g] : r[2] = NoHash
    /\ GcAbort(g)
    /\ UNCHANGED pinned

\* Variant: every row of the hash that was unpinned is deleted.
GcDestroyAllOfHash(g) ==
    /\ GcMove(g, "destroy", "jobs")
    /\ jobStatus' = [u \in Uploads |->
           IF u \in RowsOfHash(jobHash[gcJob[g]]) THEN "destroyed" ELSE jobStatus[u]]
    /\ gcJob' = [gcJob EXCEPT ![g] = NoUpload]
    /\ UNCHANGED <<jobHash, age, gcJobs, gcTopic, pinned, roomVars>>

GcDestroy(g) ==
    /\ GcMove(g, "destroy", "jobs")
    /\ DestroyJob(gcJob[g])
    /\ gcJob' = [gcJob EXCEPT ![g] = NoUpload]
    /\ UNCHANGED <<gcJobs, gcTopic, pinned, roomVars>>

\* Variant: a run without expired jobs returns at once.
GcReturnsEarly(g) ==
    /\ gcJobs[g] = {}
    /\ GcMove(g, "jobs", "idle")
    /\ UNCHANGED <<gcJobs, gcJob, gcTopic, jobVars, pinned, roomVars>>

GcJobsDone(g) ==
    /\ gcJobs[g] = {}
    /\ GcMove(g, "jobs", "rooms")
    /\ UNCHANGED <<gcJobs, gcJob, gcTopic, jobVars, pinned, roomVars>>

\* The Map iterator yields a topic and its jobs are counted.
GcCount(g) ==
    /\ \E t \in rooms \ visited[g] :
         /\ visited' = [visited EXCEPT ![g] = @ \cup {t}]
         /\ IF RowsOfOffer(t) = {}
            THEN /\ GcMove(g, "rooms", "leave")
                 /\ gcTopic' = [gcTopic EXCEPT ![g] = t]
            ELSE /\ gcPc[g] = "rooms"
                 /\ UNCHANGED <<gcPc, gcTopic>>
    /\ UNCHANGED <<gcJobs, gcJob, jobVars, pinned, rooms, listeners, timer>>

GcLeave(g) ==
    /\ GcMove(g, "leave", "rooms")
    /\ LeaveRoom(gcTopic[g])
    /\ gcTopic' = [gcTopic EXCEPT ![g] = NoOffer]
    /\ UNCHANGED <<gcJobs, gcJob, jobVars, pinned>>

GcDone(g) ==
    /\ rooms \subseteq visited[g]
    /\ GcMove(g, "rooms", "idle")
    /\ visited' = [visited EXCEPT ![g] = {}]
    /\ UNCHANGED <<gcJobs, gcJob, gcTopic, jobVars, pinned, rooms, listeners, timer>>

ForgetRuns ==
    /\ gcPc' = [g \in Gcs |-> "idle"]
    /\ gcJobs' = [g \in Gcs |-> {}]
    /\ gcJob' = [g \in Gcs |-> NoUpload]
    /\ gcTopic' = [g \in Gcs |-> NoOffer]
=============================================================================
