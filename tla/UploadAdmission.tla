-------------------------- MODULE UploadAdmission ---------------------------
(***************************************************************************)
(* The upload route from the request to its answer: the check of the free  *)
(* disk space, the staging of the body's files by multer, the checks of    *)
(* the body, the removal of the staged files, and whatever rejects in      *)
(* between.  Space is counted in files of the size limit, the most that    *)
(* one file may take.  What happens to the job meanwhile is in             *)
(* UploadHandler.                                                          *)
(***************************************************************************)
EXTENDS Integers, Sequences, FiniteSets

CONSTANTS
    Requests,   \* requests, each sent once; finitely many
    Stems,      \* what a staged name takes from a file: its stem and its type
    MaxFiles,   \* bound on the files of one request
    MaxTime,    \* bound on the milliseconds that pass
    Capacity,   \* the disk
    Reserve     \* the gigabyte of isEnoughSpace

ASSUME AdmissionAssumption ==
    /\ IsFiniteSet(Requests)
    /\ MaxFiles \in Nat
    /\ MaxTime \in Nat
    /\ Capacity \in Nat
    /\ Reserve \in Nat

VARIABLES
    pc,         \* where the handler of each request is, or how it ended
    body,       \* the body of each request
    written,    \* the paths multer opened for the request, in order: req.files
    unlinked,   \* how many of them its unlinkFiles has removed
    disk,       \* the paths in the uploads folder
    now,        \* Date.now()
    exposed,    \* history: who may still write at the last admission
    met         \* history: the stagings that found their path in the folder

vars == <<pc, body, written, unlinked, disk, now, exposed, met>>
files == <<written, disk, met>>

Answered == {"200", "400", "422", "500"}
\* Rejections that nobody handles: the client gets no answer.  "Rejected" is
\* one that came from the database, the storage or the subscription.
Thrown == {"TypeError", "ENOENT", "UniqueConstraint", "Rejected"}
Ended == Answered \cup Thrown
Writing == {"staging", "oversized", "full"}
Pcs == {"idle", "arrived", "counting", "adding", "dropping", "removing"}
           \cup Writing \cup Ended

\* large: over fileSizeLimit; complete: offerId, peerId, account and
\* contractAddress are all there.  Only a multipart body has files.
File == [stem : Stems, large : BOOLEAN]
Bodies == [multipart : {FALSE}, complete : BOOLEAN, files : {<<>>}]
              \cup [multipart : {TRUE}, complete : BOOLEAN,
                    files : UNION {[1 .. n -> File] : n \in 0 .. MaxFiles}]
Path == (0 .. MaxTime) \X Stems

TypeOK ==
    /\ pc \in [Requests -> Pcs]
    /\ body \in [Requests -> Bodies]
    /\ written \in [Requests -> Seq(Path)]
    /\ unlinked \in [Requests -> Nat]
    /\ \A r \in Requests :
          unlinked[r] <= Len(written[r]) /\ Len(written[r]) <= Len(body[r].files)
    /\ disk \in SUBSET Path
    /\ now \in 0 .. MaxTime
    /\ exposed \in SUBSET Requests
    /\ met \in SUBSET (Path \X Requests \X (1 .. MaxFiles))

Init ==
    /\ pc = [r \in Requests |-> "idle"]
    /\ body \in [Requests -> Bodies]
    /\ written = [r \in Requests |-> <<>>]
    /\ unlinked = [r \in Requests |-> 0]
    /\ disk = {}
    /\ now = 0
    /\ exposed = {}
    /\ met = {}

Free == Capacity - Cardinality(disk)
PathsOf(r) == {written[r][i] : i \in DOMAIN written[r]}
MetPaths == {m[1] : m \in met}
AllStaged(r) == Len(written[r]) = Len(body[r].files)
AllUnlinked(r) == unlinked[r] = Len(written[r])
NextFile(r) == body[r].files[Len(written[r]) + 1]
NextPath(r) == <<now, NextFile(r).stem>>
Goto(r, from, to) == pc[r] = from /\ pc' = [pc EXCEPT ![r] = to]

-----------------------------------------------------------------------------
\* isClientAllowedToUpload answers; ClientQuota says when it refuses.
Arrive(r) == Goto(r, "idle", "arrived") /\ UNCHANGED <<body, files, unlinked, now, exposed>>
Refuse(r) == Goto(r, "idle", "400") /\ UNCHANGED <<body, files, unlinked, now, exposed>>

\* Variant: the reserve is forgotten.
AdmitOneFile(r) ==
    /\ Free >= 1
    /\ Goto(r, "arrived", "staging")
    /\ exposed' = {q \in Requests : pc[q] \in Writing} \cup {r}
    /\ UNCHANGED <<body, files, unlinked, now>>

\* isEnoughSpace answers yes, and the body is received.
Admit(r) ==
    /\ Free >= 1 + Reserve
    /\ Goto(r, "arrived", "staging")
    /\ exposed' = {q \in Requests : pc[q] \in Writing} \cup {r}
    /\ UNCHANGED <<body, files, unlinked, now>>

\* There is too little space, or checkDiskSpace fails.
NoSpace(r) == Goto(r, "arrived", "400") /\ UNCHANGED <<body, files, unlinked, now, exposed>>

\* diskStorage opens the path of the next file and writes to it; it stops at
\* the limit, and the file counts among the uploaded ones all the same.
StageFile(r) ==
    /\ pc[r] = "staging"
    /\ ~AllStaged(r)
    /\ NextPath(r) \in disk \/ Free > 0
    /\ pc' = [pc EXCEPT ![r] = IF NextFile(r).large THEN "oversized" ELSE @]
    /\ written' = [written EXCEPT ![r] = Append(@, NextPath(r))]
    /\ disk' = disk \cup {NextPath(r)}
    /\ met' = IF NextPath(r) \in disk
              THEN met \cup {<<NextPath(r), r, Len(written[r]) + 1>>}
              ELSE met
    /\ UNCHANGED <<body, unlinked, now, exposed>>

\* The disk is full: the write stops, and what it has written stays.
DiskFull(r) ==
    /\ ~AllStaged(r)
    /\ NextPath(r) \notin disk
    /\ Free <= 0
    /\ Goto(r, "staging", "full")
    /\ written' = [written EXCEPT ![r] = Append(@, NextPath(r))]
    /\ disk' = disk \cup {NextPath(r)}
    /\ UNCHANGED <<body, unlinked, now, met, exposed>>

\* The file whose write failed is the last one, and not among the uploaded.
Truncated(r, i) == pc[r] \in {"full", "500"} /\ i = Len(written[r])
UploadedPaths(r) == {written[r][i] : i \in {j \in DOMAIN written[r] : ~Truncated(r, j)}}

\* multer removes the uploaded files and hands its error to the callback.
AbortBody(r) ==
    /\ Goto(r, "oversized", "422") \/ Goto(r, "full", "500")
    /\ disk' = disk \ UploadedPaths(r)
    /\ UNCHANGED <<body, written, met, unlinked, now, exposed>>

\* Variant: the answer comes first, and the files stay.
MissingParamsAnswered(r) ==
    /\ AllStaged(r)
    /\ ~body[r].complete
    /\ Goto(r, "staging", "422")
    /\ UNCHANGED <<body, files, unlinked, now, exposed>>

\* unlinkFiles(req.files): without a multipart body there is no such list.
MissingParams(r) ==
    /\ AllStaged(r)
    /\ ~body[r].complete
    /\ Goto(r, "staging", IF body[r].multipart THEN "dropping" ELSE "TypeError")
    /\ UNCHANGED <<body, files, unlinked, now, exposed>>

\* Variant: the list is taken to be there.
NoFilesInList(r) ==
    /\ AllStaged(r)
    /\ body[r].complete
    /\ body[r].files = <<>>
    /\ Goto(r, "staging", IF body[r].multipart THEN "422" ELSE "TypeError")
    /\ UNCHANGED <<body, files, unlinked, now, exposed>>

NoFiles(r) ==
    /\ AllStaged(r)
    /\ body[r].complete
    /\ body[r].files = <<>>
    /\ Goto(r, "staging", "422")
    /\ UNCHANGED <<body, files, unlinked, now, exposed>>

BodyAccepted(r) ==
    /\ AllStaged(r)
    /\ body[r].complete
    /\ body[r].files # <<>>
    /\ Goto(r, "staging", "counting")
    /\ UNCHANGED <<body, files, unlinked, now, exposed>>

\* increaseClientUploadCounter and UploadJob.create
Counted(r) == Goto(r, "counting", "adding") /\ UNCHANGED <<body, files, unlinked, now, exposed>>

\* A statement of the quota or UploadJob.create is refused.
CountRejects(r) ==
    /\ Goto(r, "idle", "Rejected") \/ Goto(r, "counting", "Rejected")
    /\ UNCHANGED <<body, files, unlinked, now, exposed>>

\* Another request of the address created the client's row meanwhile.
CountFails(r) ==
    /\ \E q \in Requests \ {r} :
          \/ pc[q] \in {"adding", "removing", "200"}
          \/ pc[q] \in {"ENOENT", "Rejected"} /\ body[q].complete /\ written[q] # <<>>
    /\ Goto(r, "counting", "UniqueConstraint")
    /\ UNCHANGED <<body, files, unlinked, now, exposed>>

\* createReadStream opens every file, and IPFS stores what they hold; a daemon
\* that is silent may keep the request waiting for ever.
AddFiles(r) ==
    /\ Goto(r, "adding", IF PathsOf(r) \subseteq disk THEN "removing" ELSE "ENOENT")
    /\ UNCHANGED <<body, files, unlinked, now, exposed>>

\* storageProvider.add rejects: the files stay.
AddRejects(r) ==
    /\ Goto(r, "adding", "Rejected")
    /\ UNCHANGED <<body, files, unlinked, now, exposed>>

\* Variant: a file that is gone already is passed over.
UnlinkAnyway(r) ==
    /\ pc[r] \in {"dropping", "removing"}
    /\ ~AllUnlinked(r)
    /\ disk' = disk \ {written[r][unlinked[r] + 1]}
    /\ unlinked' = [unlinked EXCEPT ![r] = @ + 1]
    /\ UNCHANGED <<pc, body, written, met, now, exposed>>

\* One turn of the loop of unlinkFiles.
UnlinkFile(r) ==
    /\ pc[r] \in {"dropping", "removing"}
    /\ ~AllUnlinked(r)
    /\ LET path == written[r][unlinked[r] + 1] IN
          IF path \in disk
          THEN /\ unlinked' = [unlinked EXCEPT ![r] = @ + 1]
               /\ UNCHANGED pc
          ELSE /\ pc' = [pc EXCEPT ![r] = "ENOENT"]
               /\ UNCHANGED unlinked
    /\ disk' = disk \ {written[r][unlinked[r] + 1]}
    /\ UNCHANGED <<body, written, met, now, exposed>>

\* Variant: nothing removed, nothing answered.
DroppedSome(r) ==
    /\ AllUnlinked(r)
    /\ unlinked[r] > 0
    /\ Goto(r, "dropping", "422")
    /\ UNCHANGED <<body, files, unlinked, now, exposed>>

Dropped(r) ==
    /\ AllUnlinked(r)
    /\ Goto(r, "dropping", "422")
    /\ UNCHANGED <<body, files, unlinked, now, exposed>>

\* job.save, the size request, subscribeForOffer and the answer
Uploaded(r) ==
    /\ AllUnlinked(r)
    /\ Goto(r, "removing", "200")
    /\ UNCHANGED <<body, files, unlinked, now, exposed>>

\* job.save is refused, the size request fails or times out, or
\* subscribeForOffer throws.
FinishRejects(r) ==
    /\ AllUnlinked(r)
    /\ Goto(r, "removing", "Rejected")
    /\ UNCHANGED <<body, files, unlinked, now, exposed>>

PassTime ==
    /\ now < MaxTime
    /\ now' = now + 1
    /\ UNCHANGED <<pc, body, files, unlinked, exposed>>

-----------------------------------------------------------------------------
Receive(r) ==
    \/ Admit(r)
    \/ NoSpace(r)
    \/ StageFile(r)
    \/ DiskFull(r)
    \/ AbortBody(r)

Handle(r) ==
    \/ MissingParams(r)
    \/ NoFiles(r)
    \/ BodyAccepted(r)
    \/ Counted(r)
    \/ CountRejects(r)
    \/ CountFails(r)
    \/ AddFiles(r)
    \/ AddRejects(r)
    \/ UnlinkFile(r)
    \/ Dropped(r)
    \/ Uploaded(r)
    \/ FinishRejects(r)

Next ==
    \/ \E r \in Requests : Arrive(r) \/ Refuse(r) \/ Receive(r) \/ Handle(r)
    \/ PassTime

Spec == Init /\ [][Next]_vars

\* The client sends its whole body, and Node runs every continuation.  Nobody
\* makes the daemon answer add(), which has no timeout.
FairSpec ==
    Spec /\ \A r \in Requests : WF_vars(pc[r] # "adding" /\ (Receive(r) \/ Handle(r)))

-----------------------------------------------------------------------------
(***************************************************************************)
(* A request that the server never answers, although nothing rejected and  *)
(* no race for the client's row was lost, has one of two causes (the       *)
(* callback of multer rejects, and nobody handles it): one of its files    *)
(* was staged under a path that existed, by itself or by a request that    *)
(* runs beside it, or it had parameters missing and no multipart body      *)
(* (unlinkFiles, diskStorage.filename).                                    *)
(***************************************************************************)
UnansweredHasCause ==
    \A r \in Requests :
        /\ pc[r] = "ENOENT" => PathsOf(r) \cap MetPaths # {}
        /\ pc[r] = "TypeError" => ~body[r].multipart /\ ~body[r].complete

(***************************************************************************)
(* Every file in the uploads folder belongs to a request that runs on or   *)
(* threw: an answered one leaves nothing, also where two requests shared a *)
(* path, with one exception.  The truncated file of a write that failed,   *)
(* answered with a 500, stays (unlinkFiles on every other path to an       *)
(* answer, and multer's removal of the uploaded files).                    *)
(***************************************************************************)
FolderAccounted ==
    \A path \in disk : \E r \in Requests :
        \E i \in DOMAIN written[r] :
            written[r][i] = path /\ (pc[r] \notin Answered \/ Truncated(r, i))

(***************************************************************************)
(* For each staging that finds its path in the folder one staging under    *)
(* that path does not come to success: so of two requests whose files meet *)
(* at most one gets a hash, and the other no job with the same content     *)
(* (diskStorage.filename, unlinkFiles).                                    *)
(***************************************************************************)
MeetingCosts ==
    \A path \in MetPaths :
        Cardinality({m \in met : m[1] = path}) <=
            Cardinality({s \in Requests \X (1 .. MaxFiles) :
                             /\ s[2] \in DOMAIN written[s[1]]
                             /\ written[s[1]][s[2]] = path
                             /\ pc[s[1]] # "200"})

(***************************************************************************)
(* The space check is for one file: from an admission on, the disk loses   *)
(* at most the files of the requests that were receiving their bodies      *)
(* then, so that one request with one file leaves the reserve whole, and   *)
(* each further file takes one from it (isEnoughSpace).                    *)
(***************************************************************************)
ReserveBound ==
    exposed # {} =>
        Free >= 1 + Reserve
            - Cardinality({s \in exposed \X (1 .. MaxFiles) :
                               s[2] \in DOMAIN body[s[1]].files})

(***************************************************************************)
(* A request that the quota let pass is answered in the end, unless it has *)
(* one of the causes above, something rejects under way, it lost the race  *)
(* for the row of its client, or the daemon never answers its add().       *)
(***************************************************************************)
RequestAnswered ==
    \A r \in Requests :
        \/ <>[](pc[r] = "adding")
        \/ pc[r] = "arrived" ~>
               \/ pc[r] \in Answered \cup {"Rejected", "UniqueConstraint"}
               \/ PathsOf(r) \cap MetPaths # {}
               \/ ~body[r].multipart /\ ~body[r].complete
=============================================================================
