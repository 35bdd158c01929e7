---------------------------- MODULE UploadHandler ---------------------------
(***************************************************************************)
(* What POST /upload does once the request is admitted and its files are   *)
(* staged: fileUploader and the subscription that follows it.  A step ends *)
(* at each await.  The callback runs inside multer, outside errorHandler,  *)
(* so a step that throws ends the request without any answer ("failed").   *)
(***************************************************************************)
EXTENDS JobTable, IpfsPins, Rooms

VARIABLES
    req,        \* where the upload's handler is
    staged      \* uploads whose files lie in the upload folder

uploadVars == <<req, staged>>

InProgress == {"create", "add", "unlink", "save", "size"}

UploadTypeOK ==
    /\ req \in [Uploads -> InProgress \cup {"idle", "answered", "failed", "lost"}]
    /\ staged \subseteq Uploads

UploadInit ==
    /\ req = [u \in Uploads |-> "idle"]
    /\ staged = {}

Goto(u, from, to) == req[u] = from /\ req' = [req EXCEPT ![u] = to]

\* multer has written the files and the counter has been increased.
Accept(u) ==
    /\ Goto(u, "idle", "create")
    /\ staged' = staged \cup {u}
    /\ UNCHANGED <<jobVars, pinned, roomVars>>

CreateJob(u) ==
    /\ Goto(u, "create", "add")
    /\ InsertJob(u)
    /\ UNCHANGED <<staged, pinned, roomVars>>

AddFiles(u) ==
    /\ Goto(u, "add", "unlink")
    /\ Pin(HashOf[u])
    /\ UNCHANGED <<staged, jobVars, roomVars>>

\* The row stays UPLOADING with a null hash, the staged files stay too.
AddFails(u) ==
    /\ "add" \in Faults
    /\ Goto(u, "add", "failed")
    /\ PinMaybe(HashOf[u])
    /\ UNCHANGED <<staged, jobVars, roomVars>>

UnlinkStaged(u) ==
    /\ Goto(u, "unlink", "save")
    /\ staged' = staged \ {u}
    /\ UNCHANGED <<jobVars, pinned, roomVars>>

\* Two parts staged under one name: the second unlink finds no file.
UnlinkFails(u) ==
    /\ "unlink" \in Faults
    /\ Goto(u, "unlink", "failed")
    /\ staged' \in {staged, staged \ {u}}
    /\ UNCHANGED <<jobVars, pinned, roomVars>>

SaveJob(u) ==
    /\ Goto(u, "save", "size")
    /\ UpdateJob(u, HashOf[u])
    /\ UNCHANGED <<staged, pinned, roomVars>>

\* object.stat fails or times out: the job waits, but nobody listens for it.
SizeFails(u) ==
    /\ "size" \in Faults
    /\ Goto(u, "size", "failed")
    /\ UNCHANGED <<staged, jobVars, pinned, roomVars>>

\* The size is known; subscribeForOffer and res.json run without a pause.
Answer(u) ==
    /\ Goto(u, "size", "answered")
    /\ SubscribeForOffer(u)
    /\ UNCHANGED <<staged, jobVars, pinned>>

\* The process stops: a request that had begun is never answered, and one
\* that was answered has no listener any more.
ForgetRequests ==
    /\ req' = [u \in Uploads |-> IF req[u] = "idle" THEN "idle" ELSE "lost"]
    /\ UNCHANGED staged
=============================================================================
