------------------------------ MODULE JobTable ------------------------------
(***************************************************************************)
(* The upload_job table, one potential row per upload.  Each operator is   *)
(* one SQL statement, hence atomic; everything between two statements of   *)
(* the program may be interleaved with anything else.                      *)
(***************************************************************************)
EXTENDS UploadParams

VARIABLES
    jobStatus,  \* "absent" before the INSERT; "destroyed" and "purged" after a DELETE
    jobHash,    \* the fileHash column
    age         \* ticks since createdAt, saturating at TTL

jobVars == <<jobStatus, jobHash, age>>

Live == {"UPLOADING", "WAITING_FOR_PINNING"}

JobTypeOK ==
    /\ jobStatus \in [Uploads -> Live \cup {"absent", "destroyed", "purged"}]
    /\ jobHash \in [Uploads -> Hashes \cup {NoHash}]
    /\ age \in [Uploads -> 0 .. TTL]

JobInit ==
    /\ jobStatus = [u \in Uploads |-> "absent"]
    /\ jobHash = [u \in Uploads |-> NoHash]
    /\ age = [u \in Uploads |-> 0]

Rows == {u \in Uploads : jobStatus[u] \in Live}
RowsOfHash(h) == {u \in Rows : jobHash[u] = h}
RowsOfOffer(t) == {u \in Rows : OfferOf[u] = t}

\* A row whose createdAt is at or before now - ttl.
Expired(u) == age[u] = TTL
\* Variant: the comparison with createdAt is off by one tick.
EarlyExpiredRows == {u \in Rows : age[u] + 1 >= TTL}

\* Variant: the comparison is the wrong way round.
FreshRows == {u \in Rows : age[u] < TTL}

ExpiredRows == {u \in Rows : Expired(u)}

\* UploadJob.create({... status: UPLOADING}); fileHash stays null.
InsertJob(u) ==
    /\ jobStatus' = [jobStatus EXCEPT ![u] = "UPLOADING"]
    /\ UNCHANGED <<jobHash, age>>

\* Variant: the save brings a row back that is gone.
UpsertJob(u, h) ==
    /\ jobStatus' = [jobStatus EXCEPT ![u] = "WAITING_FOR_PINNING"]
    /\ jobHash' = [jobHash EXCEPT ![u] = h]
    /\ UNCHANGED age

\* job.save() of the hash and the new status; an UPDATE that matches no row
\* when the row is gone.
UpdateJob(u, h) ==
    IF u \in Rows
    THEN /\ jobStatus' = [jobStatus EXCEPT ![u] = "WAITING_FOR_PINNING"]
         /\ jobHash' = [jobHash EXCEPT ![u] = h]
         /\ UNCHANGED age
    ELSE UNCHANGED jobVars

\* job.destroy(); a DELETE that matches no row when the row is gone.
DestroyJob(u) ==
    /\ jobStatus' = [jobStatus EXCEPT ![u] = IF u \in Rows THEN "destroyed" ELSE @]
    /\ UNCHANGED <<jobHash, age>>

\* UploadJob.destroy({ where: {} })
PurgeJobs ==
    /\ jobStatus' = [u \in Uploads |-> IF u \in Rows THEN "purged" ELSE jobStatus[u]]
    /\ UNCHANGED <<jobHash, age>>

\* One tick of the clock that createdAt is compared with.
AgeRows ==
    /\ age' = [u \in Uploads |-> IF u \in Rows /\ age[u] < TTL THEN age[u] + 1 ELSE age[u]]
    /\ UNCHANGED <<jobStatus, jobHash>>
=============================================================================
