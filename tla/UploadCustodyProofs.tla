------------------------- MODULE UploadCustodyProofs ------------------------
(***************************************************************************)
(* What the service does with the files in its custody: it implements      *)
(* FileCustody, orphans a pin for known causes only, and orphans none when *)
(* those are away.                                                         *)
(***************************************************************************)
EXTENDS UploadSafetyProofs

(***************************************************************************)
(* The refinement.  Every step of an actor maps to a step of the abstract  *)
(* specification or to a stutter; what an actor remembers between two of   *)
(* its steps is known from PinInv.                                         *)
(***************************************************************************)

CustodyMap == [u \in Uploads |-> CustodyOf(u)]
DueMap == {u \in Uploads : ReleaseDue(u)}

\* The custody of a file is read off the status of its row.
LEMMA CustodyValues ==
    ASSUME NEW u \in Uploads
    PROVE  /\ jobStatus[u] = "absent" => CustodyOf(u) = "none"
           /\ jobStatus[u] = "UPLOADING" => CustodyOf(u) = "accepted"
           /\ jobStatus[u] = "WAITING_FOR_PINNING" => CustodyOf(u) = "held"
           /\ jobStatus[u] = "destroyed" => CustodyOf(u) = "released"
           /\ jobStatus[u] = "purged" => CustodyOf(u) = "purged"
BY DEF CustodyOf, Waiting

LEMMA CustodyValuesNext ==
    ASSUME NEW u \in Uploads
    PROVE  /\ jobStatus'[u] = "absent" => CustodyOf(u)' = "none"
           /\ jobStatus'[u] = "UPLOADING" => CustodyOf(u)' = "accepted"
           /\ jobStatus'[u] = "WAITING_FOR_PINNING" => CustodyOf(u)' = "held"
           /\ jobStatus'[u] = "destroyed" => CustodyOf(u)' = "released"
           /\ jobStatus'[u] = "purged" => CustodyOf(u)' = "purged"
BY DEF CustodyOf, Waiting

\* A step that changes the status of one row changes the custody of one file.
LEMMA OneCustody ==
    ASSUME NEW u \in Uploads,
           \A v \in Uploads \ {u} : jobStatus'[v] = jobStatus[v]
    PROVE  CustodyMap' = [CustodyMap EXCEPT ![u] = CustodyOf(u)']
<1>1. \A v \in Uploads \ {u} : CustodyOf(v)' = CustodyOf(v)
    BY DEF CustodyOf, Waiting
<1>2. QED
    BY <1>1 DEF CustodyMap

LEMMA SameCustody ==
    ASSUME jobStatus' = jobStatus
    PROVE  CustodyMap' = CustodyMap
BY DEF CustodyMap, CustodyOf, Waiting

LEMMA SameDue ==
    ASSUME age' = age, announced' = announced
    PROVE  DueMap' = DueMap
BY DEF DueMap, ReleaseDue, Expired

LEMMA InitRefines == Init => Custody!CustodyInit
<1> SUFFICES ASSUME Init PROVE Custody!CustodyInit
    OBVIOUS
<1>1. [u \in Uploads |-> CustodyOf(u)] = [u \in Uploads |-> "none"]
    BY CustodyValues DEF Init, JobInit
<1>2. pinned = {}
    BY DEF Init, PinInit
<1>3. {u \in Uploads : ReleaseDue(u)} = {}
    BY NumbersAssumption DEF Init, JobInit, HandlerInit, ReleaseDue, Expired
<1>4. QED
    BY <1>1, <1>2, <1>3 DEF Custody!CustodyInit

Refines == [Custody!CustodyNext]_(Custody!custodyVars)

\* The forms a step of the service takes in the abstract specification.
LEMMA StutterRefines ==
    ASSUME CustodyMap' = CustodyMap, pinned' = pinned, DueMap' = DueMap
    PROVE  Refines
BY DEF Refines, Custody!custodyVars, CustodyMap, DueMap

LEMMA CustodyRefines ==
    ASSUME NEW u \in Uploads, NEW to,
           CustodyMap' = [CustodyMap EXCEPT ![u] = to],
           \/ CustodyMap[u] = "none" /\ to = "accepted"
           \/ CustodyMap[u] = "held" /\ u \in DueMap /\ to = "released",
           pinned' = pinned, DueMap' = DueMap
    PROVE  Refines
<1>1. Custody!AcceptFile(u) \/ Custody!ReleaseFile(u)
    BY DEF Custody!AcceptFile, Custody!ReleaseFile, CustodyMap, DueMap
<1>2. QED
    BY <1>1 DEF Refines, Custody!CustodyNext

\* What a saved upload that is due is in the abstract specification.
LEMMA SavedDroppable ==
    ASSUME NEW u \in Uploads, ReleaseDue(u), Waiting(u) \/ Gone(u)
    PROVE  Custody!Droppable(u)
<1>1. u \in DueMap
    BY DEF DueMap
<1>2. CustodyMap[u] \in {"held", "released", "purged"}
    BY CustodyValues DEF CustodyMap, Waiting, Gone
<1>3. QED
    BY <1>1, <1>2 DEF Custody!Droppable, CustodyMap, DueMap

LEMMA HoldRefines ==
    ASSUME NEW u \in Uploads,
           CustodyMap[u] = "accepted", HashOf[u] \in pinned \/ TakenAlong(u),
           CustodyMap' = [CustodyMap EXCEPT ![u] = "held"],
           pinned' = pinned, DueMap' = DueMap
    PROVE  Refines
<1>1. TakenAlong(u) => Custody!TakenAlong(u)
    BY SavedDroppable DEF TakenAlong, Custody!TakenAlong
<1>2. Custody!HoldFile(u)
    BY <1>1 DEF Custody!HoldFile, CustodyMap, DueMap
<1>3. QED
    BY <1>2 DEF Refines, Custody!CustodyNext

LEMMA StoreRefines ==
    ASSUME NEW u \in Uploads,
           pinned' = pinned \cup {HashOf[u]}, CustodyMap[u] \in {"accepted", "purged"},
           CustodyMap' = CustodyMap, DueMap' = DueMap
    PROVE  Refines
<1>1. Custody!StoreFile(u)
    BY DEF Custody!StoreFile, CustodyMap, DueMap
<1>2. QED
    BY <1>1 DEF Refines, Custody!CustodyNext

LEMMA DueRefines ==
    ASSUME DueMap \subseteq DueMap', CustodyMap' = CustodyMap, pinned' = pinned
    PROVE  Refines
<1>1. DueMap' = DueMap \cup DueMap' /\ DueMap' \in SUBSET Uploads
    BY DEF DueMap
<1>2. Custody!BecomeDue
    BY <1>1 DEF Custody!BecomeDue, CustodyMap, DueMap
<1>3. QED
    BY <1>2 DEF Refines, Custody!CustodyNext

LEMMA UploadStepRefines ==
    ASSUME PinInv, NEW u \in Uploads, UploadStep(u)
    PROVE  Refines
<1> USE DEF PinInv
<1>1. DueMap' = DueMap
    <2>1. age' = age /\ announced' = announced
        BY DEF UploadStep, handlerVars, Accept, CreateJob, AddFiles, AddFails, UnlinkStaged,
               UnlinkFails, SaveJob, SizeFails, Answer, InsertJob, UpdateJob, jobVars
    <2>2. QED
        BY <2>1, SameDue
<1>2. CASE CreateJob(u)
    <2>1. pinned' = pinned
        BY <1>2 DEF CreateJob
    <2>2. jobStatus[u] = "absent" /\ jobStatus' = [jobStatus EXCEPT ![u] = "UPLOADING"]
        BY <1>2 DEF CreateJob, Goto, InsertJob, RequestRows
    <2>3. jobStatus'[u] = "UPLOADING" /\ \A v \in Uploads \ {u} : jobStatus'[v] = jobStatus[v]
        BY <2>2 DEF TypeOK, JobTypeOK
    <2>4. CustodyMap[u] = "none" /\ CustodyOf(u)' = "accepted"
        BY <2>2, <2>3, CustodyValues, CustodyValuesNext DEF CustodyMap
    <2>5. CustodyMap' = [CustodyMap EXCEPT ![u] = "accepted"]
        BY <2>3, <2>4, OneCustody
    <2>6. QED
        BY <1>1, <2>1, <2>4, <2>5, CustodyRefines
<1>3. CASE AddFiles(u) \/ AddFails(u)
    <2>1. CustodyMap' = CustodyMap
        BY <1>3, SameCustody DEF AddFiles, AddFails, jobVars
    <2>2. CustodyMap[u] \in {"accepted", "purged"}
        <3>1. jobStatus[u] \in {"UPLOADING", "purged"}
            BY <1>3 DEF AddFiles, AddFails, Goto, RequestRows
        <3>2. QED
            BY <3>1, CustodyValues DEF CustodyMap
    <2>3. CASE pinned' = pinned \cup {HashOf[u]}
        BY <1>1, <2>1, <2>2, <2>3, StoreRefines
    <2>4. CASE pinned' = pinned
        BY <1>1, <2>1, <2>4, StutterRefines
    <2>5. QED
        BY <1>3, <2>3, <2>4 DEF AddFiles, AddFails, Pin, PinMaybe
<1>4. CASE SaveJob(u) /\ u \in Rows
    <2>1. pinned' = pinned
        BY <1>4 DEF SaveJob
    <2>2. jobStatus[u] = "UPLOADING" /\ req[u] = "save"
        BY <1>4 DEF SaveJob, Goto, RequestRows, Rows, Live
    <2>3. jobStatus' = [jobStatus EXCEPT ![u] = "WAITING_FOR_PINNING"]
        BY <1>4 DEF SaveJob, UpdateJob
    <2>4. /\ jobStatus'[u] = "WAITING_FOR_PINNING"
          /\ \A v \in Uploads \ {u} : jobStatus'[v] = jobStatus[v]
        BY <2>3 DEF TypeOK, JobTypeOK
    <2>5. CustodyMap[u] = "accepted" /\ CustodyOf(u)' = "held"
        BY <2>2, <2>4, CustodyValues, CustodyValuesNext DEF CustodyMap
    <2>6. HashOf[u] \in pinned \/ TakenAlong(u)
        BY <2>2 DEF UploadedPinned
    <2>7. CustodyMap' = [CustodyMap EXCEPT ![u] = "held"]
        BY <2>4, <2>5, OneCustody
    <2>8. QED
        BY <1>1, <2>1, <2>5, <2>6, <2>7, HoldRefines
<1>5. CASE UNCHANGED <<jobStatus, pinned>>
    BY <1>1, <1>5, SameCustody, StutterRefines
<1>6. QED
    BY <1>2, <1>3, <1>4, <1>5 DEF UploadStep, Accept, UnlinkStaged, UnlinkFails, SaveJob,
           UpdateJob, SizeFails, Answer, jobVars

LEMMA MessageRefines ==
    ASSUME NEW t \in Offers, NEW p \in Peers, NEW h \in Hashes, Message(t, p, h)
    PROVE  Refines
<1>1. jobStatus' = jobStatus /\ age' = age /\ pinned' = pinned /\ announced \subseteq announced'
    BY DEF Message, Deliver, jobVars
<1>2. DueMap \subseteq DueMap'
    BY <1>1 DEF DueMap, ReleaseDue, Expired
<1>3. QED
    BY <1>1, <1>2, SameCustody, DueRefines

\* Deleting a row releases its file, or a row already gone stays gone.
LEMMA DestroyRefines ==
    ASSUME PinInv, NEW u \in Uploads, DestroyJob(u), Waiting(u) \/ Gone(u), u \in DueMap,
           pinned' = pinned, announced' = announced
    PROVE  Refines
<1>1. DueMap' = DueMap
    BY SameDue DEF DestroyJob
<1>2. CASE Waiting(u)
    <2>1. jobStatus' = [jobStatus EXCEPT ![u] = "destroyed"]
        BY <1>2 DEF DestroyJob, Waiting, Rows, Live
    <2>2. jobStatus'[u] = "destroyed" /\ \A v \in Uploads \ {u} : jobStatus'[v] = jobStatus[v]
        BY <2>1 DEF PinInv, TypeOK, JobTypeOK
    <2>3. CustodyMap[u] = "held" /\ CustodyOf(u)' = "released"
        BY <1>2, <2>2, CustodyValues, CustodyValuesNext DEF CustodyMap, Waiting
    <2>4. CustodyMap' = [CustodyMap EXCEPT ![u] = "released"]
        BY <2>2, <2>3, OneCustody
    <2>5. QED
        BY <1>1, <2>3, <2>4, CustodyRefines
<1>3. CASE Gone(u)
    <2>1. u \notin Rows
        BY <1>3 DEF Gone, Rows, Live
    <2>2. jobStatus' = jobStatus
        BY <2>1 DEF DestroyJob, PinInv, TypeOK, JobTypeOK
    <2>3. QED
        BY <1>1, <2>2, SameCustody, StutterRefines
<1>4. QED
    BY <1>2, <1>3

\* An unpin drops a content whose release is due for one file, or nothing.
LEMMA UnpinRefines ==
    ASSUME NEW u \in Uploads, UnpinMaybe(HashOf[u]), Waiting(u) \/ Gone(u), ReleaseDue(u),
           UNCHANGED <<jobStatus, age, announced>>
    PROVE  Refines
<1>1. CustodyMap' = CustodyMap /\ DueMap' = DueMap
    BY SameCustody, SameDue
<1>2. CASE pinned' = pinned \ {HashOf[u]}
    <2>1. Custody!DropContent(u)
        BY <1>1, <1>2, SavedDroppable DEF Custody!DropContent, CustodyMap, DueMap
    <2>2. QED
        BY <2>1 DEF Refines, Custody!CustodyNext
<1>3. CASE pinned' = pinned
    BY <1>1, <1>3, StutterRefines
<1>4. QED
    BY <1>2, <1>3 DEF UnpinMaybe

LEMMA CallStepRefines ==
    ASSUME PinInv, NEW k \in Calls, CallStep(k)
    PROVE  Refines
<1> USE DEF PinInv
<1>1. announced' = announced
    BY DEF CallStep, Move, FindJob, FindNothing, DestroyFound, CountHash, UnpinHash,
           UnpinFails, CountOffer, LeaveIdleRoom, StopListening
<1>2. CASE DestroyFound(k)
    <2>1. PICK j \in Uploads : /\ j = found[k]
                               /\ Answers(k, j)
                               /\ Waiting(j) \/ Gone(j)
                               /\ <<Topic(k), MessageHash(k)>> \in announced
        BY <1>2 DEF CallJobs, DestroyFound, Move
    <2>2. j \in DueMap
        BY <2>1 DEF Answers, DueMap, ReleaseDue
    <2>3. QED
        BY <1>1, <1>2, <2>1, <2>2, DestroyRefines DEF DestroyFound
<1>3. CASE UnpinHash(k) \/ UnpinFails(k)
    <2>1. PICK j \in Uploads : /\ Answers(k, j)
                               /\ Gone(j)
                               /\ <<Topic(k), MessageHash(k)>> \in announced
        BY <1>3 DEF CallJobs, UnpinHash, UnpinFails, Move
    <2>2. ReleaseDue(j) /\ HashOf[j] = MessageHash(k)
        BY <2>1 DEF Answers, ReleaseDue
    <2>3. UnpinMaybe(HashOf[j])
        BY <1>3, <2>2 DEF UnpinHash, UnpinFails, Unpin, UnpinMaybe
    <2>4. UNCHANGED <<jobStatus, age>>
        BY <1>3 DEF UnpinHash, UnpinFails, jobVars
    <2>5. QED
        BY <1>1, <2>1, <2>2, <2>3, <2>4, UnpinRefines
<1>4. CASE UNCHANGED <<jobVars, pinned>>
    BY <1>1, <1>4, SameCustody, SameDue, StutterRefines DEF jobVars
<1>5. QED
    BY <1>2, <1>3, <1>4 DEF CallStep, FindJob, FindNothing, CountHash, CountOffer,
           LeaveIdleRoom, StopListening

LEMMA GcStepRefines ==
    ASSUME PinInv, NEW g \in Gcs, GcStep(g)
    PROVE  Refines
<1> USE DEF PinInv
<1>1. announced' = announced
    BY DEF GcStep, handlerVars
<1>2. CASE GcDestroy(g)
    <2>1. PICK j \in Uploads : j = gcJob[g] /\ Expired(j) /\ (Waiting(j) \/ Gone(j))
        BY <1>2 DEF GcRows, GcDestroy, GcMove
    <2>2. j \in DueMap
        BY <2>1 DEF DueMap, ReleaseDue
    <2>3. QED
        BY <1>1, <1>2, <2>1, <2>2, DestroyRefines DEF GcDestroy
<1>3. CASE GcUnpin(g) \/ GcUnpinFails(g)
    <2>1. PICK r \in gcJobs[g] : r[2] # NoHash /\ UnpinMaybe(r[2])
        BY <1>3 DEF GcUnpin, GcUnpinFails, Unpin, UnpinMaybe
    <2>2. PICK j \in Uploads : j = r[1]
        BY DEF TypeOK, GcTypeOK
    <2>3. r[2] = HashOf[j] /\ Expired(j) /\ (Waiting(j) \/ Gone(j))
        BY <2>1, <2>2 DEF GcRows
    <2>4. ReleaseDue(j)
        BY <2>3 DEF ReleaseDue
    <2>5. UNCHANGED <<jobStatus, age>>
        BY <1>3 DEF GcUnpin, GcUnpinFails, GcAbort, jobVars
    <2>6. QED
        BY <1>1, <2>1, <2>3, <2>4, <2>5, UnpinRefines
<1>4. CASE UNCHANGED <<jobVars, pinned>>
    BY <1>1, <1>4, SameCustody, SameDue, StutterRefines DEF jobVars
<1>5. QED
    BY <1>2, <1>3, <1>4 DEF GcStep, GcStart, GcUnpinNull, GcAbort, GcJobsDone, GcCount,
           GcLeave, GcDone

LEMMA OtherStepRefines ==
    ASSUME PinInv,
           (\E u \in Uploads : Timeout(u)) \/ Tick \/ Restart \/ Purge \/ UNCHANGED vars
    PROVE  Refines
<1>1. CASE (\E u \in Uploads : Timeout(u)) \/ Restart \/ UNCHANGED vars
    <2>1. UNCHANGED <<jobVars, pinned, announced>>
        BY <1>1 DEF Timeout, Restart, ForgetCalls, handlerVars, vars
    <2>2. QED
        BY <2>1, SameCustody, SameDue, StutterRefines DEF jobVars
<1>2. CASE Tick
    <2>1. UNCHANGED <<jobStatus, pinned, announced>>
        BY <1>2 DEF Tick, AgeRows, handlerVars
    <2>2. \A v \in Uploads : Expired(v) => Expired(v)'
        BY <1>2, NumbersAssumption DEF Tick, AgeRows, Expired
    <2>3. DueMap \subseteq DueMap'
        BY <2>1, <2>2 DEF DueMap, ReleaseDue
    <2>4. QED
        BY <2>1, <2>3, SameCustody, DueRefines
<1>3. CASE Purge
    <2>1. pinned' = pinned /\ DueMap' = DueMap
        BY <1>3, SameDue DEF Purge, PurgeJobs, handlerVars
    <2>2. ASSUME NEW v \in Uploads
          PROVE  CustodyOf(v)' =
                   IF CustodyOf(v) \in {"accepted", "held"} THEN "purged" ELSE CustodyOf(v)
        <3>1. CASE v \in Rows
            <4>1. jobStatus'[v] = "purged"
                BY <1>3, <3>1 DEF Purge, PurgeJobs
            <4>2. QED
                BY <3>1, <4>1, CustodyValues, CustodyValuesNext DEF Rows, Live
        <3>2. CASE v \notin Rows
            <4>1. jobStatus'[v] = jobStatus[v] /\ jobStatus[v] \in {"absent", "destroyed", "purged"}
                BY <1>3, <3>2 DEF Purge, PurgeJobs, Rows, PinInv, TypeOK, JobTypeOK
            <4>2. QED
                BY <4>1, CustodyValues, CustodyValuesNext
        <3>3. QED
            BY <3>1, <3>2
    <2>3. CustodyMap' = [v \in Uploads |->
             IF CustodyMap[v] \in {"accepted", "held"} THEN "purged" ELSE CustodyMap[v]]
        BY <2>2 DEF CustodyMap
    <2>4. Custody!PurgeRecords
        BY <2>1, <2>3 DEF Custody!PurgeRecords, CustodyMap, DueMap
    <2>5. QED
        BY <2>4 DEF Refines, Custody!CustodyNext
<1>4. QED
    BY <1>1, <1>2, <1>3

LEMMA NextRefines ==
    ASSUME PinInv, [Next]_vars
    PROVE  Refines
<1>1. ASSUME NEW u \in Uploads, UploadStep(u) PROVE Refines
    BY <1>1, UploadStepRefines
<1>2. ASSUME NEW t \in Offers, NEW p \in Peers, NEW h \in Hashes, Message(t, p, h)
      PROVE  Refines
    BY <1>2, MessageRefines
<1>3. ASSUME NEW k \in Calls, CallStep(k) PROVE Refines
    BY <1>3, CallStepRefines
<1>4. ASSUME NEW g \in Gcs, GcStep(g) PROVE Refines
    BY <1>4, GcStepRefines
<1>5. CASE (\E u \in Uploads : Timeout(u)) \/ Tick \/ Restart \/ Purge \/ UNCHANGED vars
    BY <1>5, OtherStepRefines
<1>6. QED
    BY <1>1, <1>2, <1>3, <1>4, <1>5 DEF Next, ProcessStep

\* Every behaviour of the service is one of FileCustody: content recorded as
\* waiting is dropped, and a row released, only after the row of a file with
\* that content has expired or its hash was announced on its room.
THEOREM CustodyImplemented == Spec => ImplementsCustody
<1>1. Init => Custody!CustodyInit
    BY InitRefines
<1>2. PinInv /\ [Next]_vars => [Custody!CustodyNext]_(Custody!custodyVars)
    BY NextRefines DEF Refines
<1>3. QED
    BY <1>1, <1>2, PinInvInit, NextPinInv, PTL DEF Spec, ImplementsCustody, Custody!CustodySpec

-----------------------------------------------------------------------------
(***************************************************************************)
(* Orphans.  OrphanInv is inductive with every fault; a pin of an upload   *)
(* that has its hash to itself is the upload's own, so each step concerns  *)
(* one upload.                                                             *)
(***************************************************************************)
LEMMA OrphanInvInit == Init => OrphanInv
<1> SUFFICES ASSUME Init PROVE OrphanInv
    OBVIOUS
<1>1. GcUnpinned /\ PinsExplained
    BY DEF Init, GcInit, PinInit, GcUnpinned, PinsExplained
<1>2. QED
    BY <1>1, PinInvInit DEF OrphanInv

\* A destroyed row had been saved: its request is past the save or cut off.
LEMMA UploadStepOrphanInv ==
    ASSUME OrphanInv, NEW u \in Uploads, UploadStep(u)
    PROVE  OrphanInv'
<1> USE DEF OrphanInv
<1>1. PinInv'
    BY UploadStepPinInv
<1>2. \A v \in Uploads : v # u => jobStatus'[v] = jobStatus[v] /\ req'[v] = req[v]
    BY DEF PinInv, TypeOK, JobTypeOK, UploadTypeOK, UploadStep, Goto, Accept, CreateJob, AddFiles,
           AddFails, UnlinkStaged, UnlinkFails, SaveJob, SizeFails, Answer, InsertJob, UpdateJob,
           jobVars
<1>3. UNCHANGED <<handlerVars, gcVars>>
    BY DEF UploadStep
\* Only an add pins, and only the upload's own hash.
<1>4. \/ pinned' = pinned
      \/ /\ AddFiles(u) \/ AddFails(u)
         /\ pinned' = pinned \cup {HashOf[u]}
    BY DEF UploadStep, Accept, CreateJob, AddFiles, AddFails, UnlinkStaged, UnlinkFails, SaveJob,
           SizeFails, Answer, Pin, PinMaybe
<1>5. GcUnpinned'
    <2>1. ASSUME NEW g \in Gcs, gcPc[g] = "destroy", SoleHash(gcJob[g]),
                 jobStatus'[gcJob[g]] # "purged"
          PROVE  HashOf[gcJob[g]] \notin pinned'
        <3>1. PICK j \in Uploads : j = gcJob[g] /\ (Waiting(j) \/ Gone(j))
            BY <2>1 DEF PinInv, GcRows
        <3>2. jobStatus[j] # "purged"
            BY <1>2, <2>1, <3>1 DEF Gone, Waiting, PinInv, TypeOK, JobTypeOK, UploadStep, Accept,
                   CreateJob, AddFiles, AddFails, UnlinkStaged, UnlinkFails, SaveJob, SizeFails,
                   Answer, Goto, RequestRows, InsertJob, UpdateJob, Rows, Live, jobVars
        <3>3. HashOf[j] \notin pinned
            BY <2>1, <3>1, <3>2 DEF GcUnpinned
        <3>4. AddFiles(u) \/ AddFails(u) => j # u
            BY <3>1, <3>2 DEF PinInv, RequestRows, AddFiles, AddFails, Goto, Waiting, Gone
        <3>5. QED
            BY <1>4, <2>1, <3>1, <3>3, <3>4 DEF SoleHash
    <2>2. QED
        BY <1>3, <2>1 DEF GcUnpinned, gcVars, SoleHash
<1>6. PinsExplained'
    <2>1. ASSUME NEW v \in Uploads, v # u, SoleHash(v), HashOf[v] \in pinned'
          PROVE  PinExplained(v)'
        <3>1. HashOf[v] \in pinned
            BY <1>4, <2>1 DEF SoleHash
        <3>2. PinExplained(v)
            BY <2>1, <3>1 DEF PinsExplained
        <3>3. QED
            BY <1>2, <1>3, <2>1, <3>2 DEF PinExplained, OrphanCause, Waiting, handlerVars, MessageHash
    <2>2. ASSUME SoleHash(u), HashOf[u] \in pinned'
          PROVE  PinExplained(u)'
        <3>1. CASE AddFiles(u) \/ AddFails(u)
            <4>1. jobStatus[u] \in {"UPLOADING", "purged"} /\ jobStatus' = jobStatus
                BY <3>1 DEF PinInv, RequestRows, AddFiles, AddFails, Goto, jobVars
            <4>2. req'[u] \in {"unlink", "failed"}
                BY <3>1 DEF PinInv, TypeOK, UploadTypeOK, AddFiles, AddFails, Goto
            <4>3. QED
                BY <4>1, <4>2 DEF PinExplained, OrphanCause
        <3>2. CASE ~AddFiles(u) /\ ~AddFails(u)
            <4>1. HashOf[u] \in pinned
                BY <1>4, <2>2, <3>2
            <4>2. PinExplained(u)
                BY <2>2, <4>1 DEF PinsExplained
            <4>3. CASE jobStatus[u] = "destroyed"
                <5>1. jobStatus'[u] = "destroyed" /\ req[u] # "lost" /\ announced' = announced
                    BY <3>2, <4>3 DEF PinInv, TypeOK, JobTypeOK, RequestRows, Waiting, Gone,
                           UploadStep, Accept, CreateJob, UnlinkStaged, UnlinkFails, SaveJob,
                           SizeFails, Answer, Goto, UpdateJob, Rows, Live, jobVars, handlerVars
                <5>2. QED
                    BY <1>3, <4>2, <4>3, <5>1 DEF PinExplained, OrphanCause, Waiting, handlerVars,
                           MessageHash
            <4>4. CASE jobStatus[u] # "destroyed"
                <5>1. \/ jobStatus'[u] = "purged"
                      \/ Waiting(u)'
                      \/ jobStatus'[u] = "UPLOADING" /\ req'[u] \in {"unlink", "save", "failed"}
                    BY <3>2, <4>2, <4>4 DEF PinExplained, OrphanCause, PinInv, TypeOK, JobTypeOK,
                           UploadTypeOK, RequestRows, Waiting, Gone, UploadStep, Accept, CreateJob,
                           UnlinkStaged, UnlinkFails, SaveJob, SizeFails, Answer, Goto, InsertJob,
                           UpdateJob, Rows, Live, jobVars
                <5>2. QED
                    BY <5>1 DEF PinExplained, OrphanCause
            <4>5. QED
                BY <4>3, <4>4
        <3>3. QED
            BY <3>1, <3>2
    <2>3. QED
        BY <2>1, <2>2 DEF PinsExplained, SoleHash
<1>7. QED
    BY <1>1, <1>5, <1>6

LEMMA MessageOrphanInv ==
    ASSUME OrphanInv, NEW t \in Offers, NEW p \in Peers, NEW h \in Hashes, Message(t, p, h)
    PROVE  OrphanInv'
<1> USE DEF OrphanInv
<1>1. PinInv'
    BY MessagePinInv
<1>2. UNCHANGED <<jobVars, pinned, uploadVars, gcVars>> /\ announced \subseteq announced'
    BY DEF Message, Deliver
<1>3. \A k \in Calls : handlerPc[k] \in {"countHash", "unpin"} => handlerPc'[k] = handlerPc[k]
    <2>1. \A k \in Calls : k = <<Listener(k), MessageHash(k)>>
        BY DEF Calls, Listener, MessageHash
    <2>2. QED
        BY <2>1 DEF Message, Deliver
<1>4. GcUnpinned'
    BY <1>2 DEF jobVars, gcVars, GcUnpinned
<1>5. PinsExplained'
    BY <1>2, <1>3 DEF jobVars, uploadVars, PinsExplained, PinExplained, OrphanCause, Waiting,
           MessageHash
<1>6. QED
    BY <1>1, <1>4, <1>5

LEMMA CallStepOrphanInv ==
    ASSUME OrphanInv, NEW k \in Calls, CallStep(k)
    PROVE  OrphanInv'
<1> USE DEF OrphanInv
<1>1. PinInv'
    BY CallStepPinInv
<1>2. UNCHANGED <<uploadVars, gcVars>> /\ announced' = announced
    BY DEF CallStep, Move, FindJob, FindNothing, DestroyFound, CountHash, UnpinHash,
           UnpinFails, CountOffer, LeaveIdleRoom, StopListening
<1>3. pinned' \subseteq pinned
    BY DEF CallStep, FindJob, FindNothing, DestroyFound, CountHash, UnpinHash, UnpinFails,
           CountOffer, LeaveIdleRoom, StopListening, Unpin, UnpinMaybe
<1>4. \A v \in Uploads : jobStatus'[v] # jobStatus[v] =>
         /\ Waiting(v) /\ jobStatus'[v] = "destroyed"
         /\ DestroyFound(k) /\ found[k] = v
    <2>1. CASE DestroyFound(k)
        <3>1. found[k] \in Uploads /\ (Waiting(found[k]) \/ Gone(found[k]))
            BY <2>1 DEF PinInv, CallJobs, DestroyFound, Move
        <3>2. QED
            BY <2>1, <3>1, DestroyEffect DEF DestroyFound, PinInv
    <2>2. CASE UNCHANGED jobVars
        BY <2>2 DEF jobVars
    <2>3. QED
        BY <2>1, <2>2 DEF CallStep, FindJob, FindNothing, CountHash, UnpinHash,
               UnpinFails, CountOffer, LeaveIdleRoom, StopListening
<1>5. \A c \in Calls : c # k => handlerPc'[c] = handlerPc[c]
    BY DEF PinInv, TypeOK, HandlerTypeOK, CallStep, Move, FindJob, FindNothing, DestroyFound,
           CountHash, UnpinHash, UnpinFails, CountOffer, LeaveIdleRoom, StopListening
<1>6. GcUnpinned'
    <2>1. \A g \in Gcs : gcPc[g] = "destroy" => gcJob[g] \in Uploads
        BY DEF PinInv, GcRows
    <2>2. QED
        BY <1>2, <1>3, <1>4, <2>1 DEF GcUnpinned, gcVars, SoleHash, Waiting
\* A call leaves "countHash" and "unpin" with the pin of its hash gone, or
\* because its unpin failed.
<1>7. ASSUME NEW v \in Uploads, SoleHash(v), HashOf[v] \in pinned', jobStatus[v] = "destroyed",
             MessageHash(k) = HashOf[v], handlerPc[k] \in {"countHash", "unpin"}
      PROVE  handlerPc'[k] = "unpin" \/ ("rm" \in Faults /\ <<OfferOf[v], HashOf[v]>> \in announced)
    <2>1. CASE CountHash(k)
        <3>1. RowsOfHash(MessageHash(k)) = {}
            <4>1. ASSUME NEW w \in Rows, jobHash[w] = MessageHash(k) PROVE FALSE
                <5>1. w \in Uploads /\ HashOf[w] = HashOf[v]
                    BY <1>7, <4>1, NullsAssumption, FunctionsAssumption
                       DEF PinInv, RowHashes, Rows
                <5>2. w = v
                    BY <1>7, <5>1 DEF SoleHash
                <5>3. QED
                    BY <1>7, <4>1, <5>2 DEF Rows, Live
            <4>2. QED
                BY <4>1 DEF RowsOfHash
        <3>2. QED
            BY <2>1, <3>1 DEF CountHash, Move, PinInv, TypeOK, HandlerTypeOK
    <2>2. CASE UnpinHash(k)
        BY <1>7, <2>2 DEF UnpinHash, Unpin
    <2>3. CASE UnpinFails(k)
        <3>1. PICK j \in Uploads : Answers(k, j) /\ <<Topic(k), MessageHash(k)>> \in announced
            BY <1>7 DEF PinInv, CallJobs
        <3>2. j = v
            BY <1>7, <3>1 DEF Answers, SoleHash
        <3>3. QED
            BY <2>3, <3>1, <3>2 DEF Answers, UnpinFails
    <2>4. QED
        BY <1>7, <2>1, <2>2, <2>3 DEF CallStep, Move, FindJob, FindNothing, DestroyFound,
               CountOffer, LeaveIdleRoom, StopListening
<1>8. PinsExplained'
    <2>1. ASSUME NEW v \in Uploads, SoleHash(v), HashOf[v] \in pinned'
          PROVE  PinExplained(v)'
        <3>1. HashOf[v] \in pinned /\ PinExplained(v)
            BY <1>3, <2>1 DEF PinsExplained
        <3>2. CASE jobStatus'[v] # jobStatus[v]
            <4>1. jobStatus'[v] = "destroyed" /\ DestroyFound(k) /\ found[k] = v
                BY <1>4, <3>2
            <4>2. MessageHash(k) = HashOf[v]
                BY <4>1 DEF PinInv, CallJobs, Answers, DestroyFound, Move
            <4>3. handlerPc'[k] = "countHash"
                BY <4>1 DEF DestroyFound, Move, PinInv, TypeOK, HandlerTypeOK
            <4>4. QED
                BY <4>1, <4>2, <4>3 DEF PinExplained, MessageHash
        <3>3. CASE jobStatus'[v] = jobStatus[v] /\ jobStatus[v] # "destroyed"
            BY <1>2, <3>1, <3>3 DEF PinExplained, OrphanCause, Waiting, uploadVars
        <3>4. CASE jobStatus'[v] = jobStatus[v] /\ jobStatus[v] = "destroyed"
            <4>1. CASE OrphanCause(v)
                BY <1>2, <3>4, <4>1 DEF PinExplained, OrphanCause, uploadVars
            <4>2. CASE ~OrphanCause(v)
                <5>1. PICK c \in Calls :
                         MessageHash(c) = HashOf[v] /\ handlerPc[c] \in {"countHash", "unpin"}
                    BY <3>1, <3>4, <4>2 DEF PinExplained, Waiting
                <5>2. CASE c # k
                    BY <1>5, <3>4, <5>1, <5>2 DEF PinExplained, MessageHash
                <5>3. CASE c = k
                    <6>1. handlerPc'[k] = "unpin"
                             \/ ("rm" \in Faults /\ <<OfferOf[v], HashOf[v]>> \in announced)
                        BY <1>7, <2>1, <3>4, <5>1, <5>3
                    <6>2. QED
                        BY <1>2, <3>4, <5>1, <5>3, <6>1 DEF PinExplained, OrphanCause, MessageHash
                <5>4. QED
                    BY <5>2, <5>3
            <4>3. QED
                BY <4>1, <4>2
        <3>5. QED
            BY <3>2, <3>3, <3>4
    <2>2. QED
        BY <2>1 DEF PinsExplained, SoleHash
<1>9. QED
    BY <1>1, <1>6, <1>8

LEMMA GcStepOrphanInv ==
    ASSUME OrphanInv, NEW g \in Gcs, GcStep(g)
    PROVE  OrphanInv'
<1> USE DEF OrphanInv
<1>1. PinInv'
    BY GcStepPinInv
<1>2. UNCHANGED <<uploadVars, handlerVars>>
    BY DEF GcStep
<1>3. pinned' \subseteq pinned
    BY DEF GcStep, GcStart, GcUnpin, GcUnpinFails, GcUnpinNull, GcAbort, GcDestroy,
           GcJobsDone, GcCount, GcLeave, GcDone, Unpin, UnpinMaybe
<1>4. \A v \in Uploads : jobStatus'[v] # jobStatus[v] =>
         /\ Waiting(v) /\ jobStatus'[v] = "destroyed"
         /\ GcDestroy(g) /\ gcJob[g] = v
    <2>1. CASE GcDestroy(g)
        <3>1. gcJob[g] \in Uploads /\ (Waiting(gcJob[g]) \/ Gone(gcJob[g]))
            BY <2>1 DEF PinInv, GcRows, GcDestroy, GcMove
        <3>2. QED
            BY <2>1, <3>1, DestroyEffect DEF GcDestroy, PinInv
    <2>2. CASE UNCHANGED jobVars
        BY <2>2 DEF jobVars
    <2>3. QED
        BY <2>1, <2>2 DEF GcStep, GcStart, GcUnpin, GcUnpinFails, GcUnpinNull, GcAbort,
               GcJobsDone, GcCount, GcLeave, GcDone
<1>5. GcUnpinned'
    <2>1. \A f \in Gcs : f # g => gcPc'[f] = gcPc[f] /\ gcJob'[f] = gcJob[f]
        BY DEF PinInv, TypeOK, GcTypeOK, GcStep, GcMove, GcStart, GcUnpin, GcUnpinFails,
               GcUnpinNull, GcAbort, GcDestroy, GcJobsDone, GcCount, GcLeave, GcDone
    <2>2. ASSUME NEW f \in Gcs, f # g, gcPc[f] = "destroy", SoleHash(gcJob[f]),
                 jobStatus'[gcJob[f]] # "purged"
          PROVE  HashOf[gcJob[f]] \notin pinned'
        <3>1. gcJob[f] \in Uploads
            BY <2>2 DEF PinInv, GcRows
        <3>2. jobStatus[gcJob[f]] # "purged"
            BY <1>4, <2>2, <3>1 DEF Waiting
        <3>3. QED
            BY <1>3, <2>2, <3>2 DEF GcUnpinned
    <2>3. ASSUME gcPc'[g] = "destroy"
          PROVE  HashOf[gcJob'[g]] \notin pinned'
        <3>1. GcUnpin(g)
            BY <2>3 DEF PinInv, TypeOK, GcTypeOK, GcStep, GcMove, GcStart, GcUnpinFails,
                   GcUnpinNull, GcAbort, GcDestroy, GcJobsDone, GcCount, GcLeave, GcDone
        <3>2. PICK r \in gcJobs[g] :
                 r[2] # NoHash /\ pinned' = pinned \ {r[2]} /\ gcJob'[g] = r[1]
            BY <3>1 DEF GcUnpin, Unpin, PinInv, TypeOK, GcTypeOK
        <3>3. r[2] = HashOf[r[1]]
            BY <3>2 DEF PinInv, GcRows
        <3>4. QED
            BY <3>2, <3>3
    <2>4. QED
        BY <2>1, <2>2, <2>3 DEF GcUnpinned, SoleHash
<1>6. PinsExplained'
    <2>1. ASSUME NEW v \in Uploads, SoleHash(v), HashOf[v] \in pinned'
          PROVE  PinExplained(v)'
        <3>1. HashOf[v] \in pinned /\ PinExplained(v)
            BY <1>3, <2>1 DEF PinsExplained
        <3>2. jobStatus'[v] = jobStatus[v]
            <4>1. SUFFICES ASSUME jobStatus'[v] # jobStatus[v] PROVE FALSE
                OBVIOUS
            <4>2. gcPc[g] = "destroy" /\ gcJob[g] = v /\ jobStatus[v] # "purged"
                BY <1>4, <4>1 DEF Waiting, GcDestroy, GcMove
            <4>3. QED
                BY <2>1, <3>1, <4>2 DEF GcUnpinned
        <3>3. QED
            BY <1>2, <3>1, <3>2 DEF PinExplained, OrphanCause, Waiting, uploadVars, handlerVars,
                   MessageHash
    <2>2. QED
        BY <2>1 DEF PinsExplained, SoleHash
<1>7. QED
    BY <1>1, <1>5, <1>6

LEMMA OtherStepOrphanInv ==
    ASSUME OrphanInv,
           (\E u \in Uploads : Timeout(u)) \/ Tick \/ Restart \/ Purge \/ UNCHANGED vars
    PROVE  OrphanInv'
<1> USE DEF OrphanInv
<1>1. PinInv'
    BY OtherStepPinInv
<1>2. CASE (\E u \in Uploads : Timeout(u)) \/ Tick \/ UNCHANGED vars
    <2>1. UNCHANGED <<jobStatus, pinned, uploadVars, handlerVars, gcVars>>
        BY <1>2 DEF Timeout, Tick, AgeRows, vars, jobVars
    <2>2. GcUnpinned' /\ PinsExplained'
        BY <2>1 DEF uploadVars, handlerVars, gcVars, GcUnpinned, SoleHash, PinsExplained,
               PinExplained, OrphanCause, Waiting, MessageHash
    <2>3. QED
        BY <1>1, <2>2
<1>3. CASE Restart
    <2>1. UNCHANGED <<jobStatus, pinned, announced>>
        BY <1>3 DEF Restart, ForgetCalls, jobVars
    <2>2. GcUnpinned'
        BY <1>3 DEF Restart, ForgetRuns, GcUnpinned
    <2>3. ASSUME NEW v \in Uploads, SoleHash(v), HashOf[v] \in pinned
          PROVE  Waiting(v)' \/ OrphanCause(v)'
        <3>1. PinExplained(v)
            BY <2>3 DEF PinsExplained
        <3>2. jobStatus[v] # "absent" => req'[v] = "lost"
            BY <1>3 DEF Restart, ForgetRequests, PinInv, RequestRows
        <3>3. CASE jobStatus[v] = "destroyed" /\ ~OrphanCause(v)
            <4>1. PICK k \in Calls :
                     MessageHash(k) = HashOf[v] /\ handlerPc[k] \in {"countHash", "unpin"}
                BY <3>1, <3>3 DEF PinExplained, Waiting
            <4>2. PICK j \in Uploads : Answers(k, j) /\ <<Topic(k), MessageHash(k)>> \in announced
                BY <4>1 DEF PinInv, CallJobs
            <4>3. j = v
                BY <2>3, <4>1, <4>2 DEF Answers, SoleHash
            <4>4. <<OfferOf[v], HashOf[v]>> \in announced
                BY <4>2, <4>3 DEF Answers
            <4>5. QED
                BY <2>1, <3>2, <3>3, <4>4 DEF OrphanCause
        <3>4. QED
            BY <2>1, <3>1, <3>2, <3>3 DEF PinExplained, OrphanCause, Waiting
    <2>4. QED
        BY <1>1, <2>1, <2>2, <2>3 DEF PinsExplained, PinExplained, SoleHash
<1>4. CASE Purge
    <2>1. UNCHANGED <<pinned, uploadVars, handlerVars, gcVars>>
        BY <1>4 DEF Purge
    <2>2. \A v \in Uploads : jobStatus'[v] = jobStatus[v] \/ jobStatus'[v] = "purged"
        BY <1>4 DEF Purge, PurgeJobs
    <2>3. \A v \in Uploads : jobStatus[v] = "purged" => jobStatus'[v] = "purged"
        BY <1>4 DEF Purge, PurgeJobs
    <2>4. \A f \in Gcs : gcPc[f] = "destroy" => gcJob[f] \in Uploads
        BY DEF PinInv, GcRows
    <2>5. GcUnpinned'
        BY <2>1, <2>3, <2>4 DEF GcUnpinned, gcVars, SoleHash
    <2>6. ASSUME NEW v \in Uploads, SoleHash(v), HashOf[v] \in pinned
          PROVE  PinExplained(v)'
        <3>1. CASE jobStatus'[v] = "purged"
            BY <3>1 DEF PinExplained, OrphanCause
        <3>2. CASE jobStatus'[v] = jobStatus[v]
            BY <2>1, <2>6, <3>2 DEF PinsExplained, PinExplained, OrphanCause, Waiting,
                   uploadVars, handlerVars, MessageHash
        <3>3. QED
            BY <2>2, <3>1, <3>2
    <2>7. QED
        BY <1>1, <2>1, <2>5, <2>6 DEF PinsExplained, SoleHash
<1>5. QED
    BY <1>2, <1>3, <1>4

LEMMA NextOrphanInv ==
    ASSUME OrphanInv, [Next]_vars
    PROVE  OrphanInv'
<1>1. ASSUME NEW u \in Uploads, UploadStep(u) PROVE OrphanInv'
    BY <1>1, UploadStepOrphanInv
<1>2. ASSUME NEW t \in Offers, NEW p \in Peers, NEW h \in Hashes, Message(t, p, h)
      PROVE  OrphanInv'
    BY <1>2, MessageOrphanInv
<1>3. ASSUME NEW k \in Calls, CallStep(k) PROVE OrphanInv'
    BY <1>3, CallStepOrphanInv
<1>4. ASSUME NEW g \in Gcs, GcStep(g) PROVE OrphanInv'
    BY <1>4, GcStepOrphanInv
<1>5. CASE (\E u \in Uploads : Timeout(u)) \/ Tick \/ Restart \/ Purge \/ UNCHANGED vars
    BY <1>5, OtherStepOrphanInv
<1>6. QED
    BY <1>1, <1>2, <1>3, <1>4, <1>5 DEF Next, ProcessStep

\* What explains a pin keeps it, unless it is one of the causes of an orphan.
LEMMA ExplainedKept ==
    ASSUME RowHashes, NEW u \in Uploads, PinExplained(u), ~OrphanCause(u)
    PROVE  Kept(HashOf[u])
<1>1. CASE jobStatus[u] = "UPLOADING" /\ req[u] \in {"unlink", "save"}
    BY <1>1 DEF Kept, Rows, Live
<1>2. CASE Waiting(u)
    <2>1. jobHash[u] = HashOf[u] /\ u \in Rows
        BY <1>2 DEF RowHashes, Waiting, Rows, Live
    <2>2. QED
        BY <2>1 DEF Kept
<1>3. CASE \E k \in Calls : MessageHash(k) = HashOf[u] /\ handlerPc[k] \in {"countHash", "unpin"}
    BY <1>3 DEF Kept
<1>4. QED
    BY <1>1, <1>2, <1>3 DEF PinExplained

-----------------------------------------------------------------------------
(***************************************************************************)
(* No orphans: UndisturbedInv keeps each of the causes away.               *)
(***************************************************************************)
LEMMA UndisturbedInvInit == Init => UndisturbedInv
<1> SUFFICES ASSUME Init PROVE UndisturbedInv
    OBVIOUS
<1>1. pinned = {} /\ listeners = {} /\ announced = {}
    BY DEF Init, PinInit, RoomInit, HandlerInit
<1>2. \A u \in Uploads : jobStatus[u] = "absent" /\ req[u] = "idle"
    BY DEF Init, JobInit, UploadInit
<1>3. QED
    BY <1>1, <1>2, OrphanInvInit DEF UndisturbedInv

\* A step that pins nothing new, adds no listener, moves no request and
\* brings no row back to UPLOADING keeps all of it.
LEMMA UndisturbedKept ==
    ASSUME UndisturbedInv, OrphanInv', pinned' \subseteq pinned, listeners' \subseteq listeners,
           announced' = announced, req' = req,
           \A u \in Uploads : jobStatus'[u] \in {jobStatus[u], "destroyed"}
    PROVE  UndisturbedInv'
<1>1. \A u \in Uploads :
         /\ jobStatus'[u] # "purged" /\ req'[u] # "lost"
         /\ jobStatus'[u] = "UPLOADING" => req'[u] # "failed"
    BY DEF UndisturbedInv
<1>2. \A h \in pinned' : \E u \in Uploads : HashOf[u] = h
    BY DEF UndisturbedInv
<1>3. ~CommsEnabled => listeners' = {} /\ announced' = {}
    BY DEF UndisturbedInv
<1>4. QED
    BY <1>1, <1>2, <1>3 DEF UndisturbedInv

LEMMA UploadStepUndisturbedInv ==
    ASSUME UndisturbedInv, Undisturbed, NEW u \in Uploads, UploadStep(u)
    PROVE  UndisturbedInv'
<1>1. OrphanInv'
    BY UploadStepOrphanInv DEF UndisturbedInv
<1>2. pinned' \subseteq pinned \cup {HashOf[u]}
    BY DEF UploadStep, Accept, CreateJob, AddFiles, AddFails, UnlinkStaged, UnlinkFails, SaveJob,
           SizeFails, Answer, Pin, PinMaybe
<1>3. \A h \in pinned' : \E v \in Uploads : HashOf[v] = h
    BY <1>2 DEF UndisturbedInv
<1>4. announced' = announced /\ (~CommsEnabled => listeners' = listeners)
    BY DEF UploadStep, handlerVars, Accept, CreateJob, AddFiles, AddFails, UnlinkStaged,
           UnlinkFails, SaveJob, SizeFails, Answer, SubscribeForOffer, roomVars
<1>5. \A v \in Uploads : v # u => jobStatus'[v] = jobStatus[v] /\ req'[v] = req[v]
    BY DEF UndisturbedInv, OrphanInv, PinInv, TypeOK, JobTypeOK, UploadTypeOK, UploadStep, Goto,
           Accept, CreateJob, AddFiles, AddFails, UnlinkStaged, UnlinkFails, SaveJob, SizeFails,
           Answer, InsertJob, UpdateJob, jobVars
<1>6. jobStatus'[u] # "purged" /\ req'[u] # "lost"
    BY DEF UndisturbedInv, OrphanInv, PinInv, TypeOK, JobTypeOK, UploadTypeOK, UploadStep, Goto,
           Accept, CreateJob, AddFiles, AddFails, UnlinkStaged, UnlinkFails, SaveJob, SizeFails,
           Answer, InsertJob, UpdateJob, jobVars
\* With the faults there are a request fails at the size at most, and its
\* row is saved by then.
<1>7. req'[u] = "failed" => jobStatus'[u] # "UPLOADING"
    <2>1. req'[u] = "failed" => SizeFails(u)
        BY DEF Undisturbed, UndisturbedInv, OrphanInv, PinInv, TypeOK, UploadTypeOK, UploadStep,
               Goto, Accept, CreateJob, AddFiles, AddFails, UnlinkStaged, UnlinkFails, SaveJob,
               Answer
    <2>2. SizeFails(u) => jobStatus'[u] # "UPLOADING"
        BY DEF UndisturbedInv, OrphanInv, PinInv, RequestRows, SizeFails, Goto, jobVars, Waiting,
               Gone
    <2>3. QED
        BY <2>1, <2>2
<1>8. QED
    BY <1>1, <1>3, <1>4, <1>5, <1>6, <1>7 DEF UndisturbedInv

LEMMA MessageUndisturbedInv ==
    ASSUME UndisturbedInv, NEW t \in Offers, NEW p \in Peers, NEW h \in Hashes, Message(t, p, h)
    PROVE  UndisturbedInv'
<1>1. OrphanInv'
    BY MessageOrphanInv DEF UndisturbedInv
<1>2. UNCHANGED <<jobVars, pinned, listeners, uploadVars>>
    BY DEF Message, Deliver, roomVars
<1>3. CommsEnabled
    BY DEF UndisturbedInv, Message, Deliver, Addressed, ListenersOf
<1>4. QED
    BY <1>1, <1>2, <1>3 DEF UndisturbedInv, jobVars, uploadVars

LEMMA CallStepUndisturbedInv ==
    ASSUME UndisturbedInv, NEW k \in Calls, CallStep(k)
    PROVE  UndisturbedInv'
<1>1. OrphanInv'
    BY CallStepOrphanInv DEF UndisturbedInv
<1>2. /\ pinned' \subseteq pinned /\ listeners' \subseteq listeners
      /\ announced' = announced /\ req' = req
    BY DEF CallStep, Move, FindJob, FindNothing, DestroyFound, CountHash, UnpinHash, UnpinFails,
           CountOffer, LeaveIdleRoom, LeaveRoom, StopListening, Unsubscribe, Unpin, UnpinMaybe,
           uploadVars, roomVars
<1>3. \A u \in Uploads : jobStatus'[u] \in {jobStatus[u], "destroyed"}
    BY DEF UndisturbedInv, OrphanInv, PinInv, TypeOK, JobTypeOK, CallStep, FindJob, FindNothing,
           DestroyFound, DestroyJob, CountHash, UnpinHash, UnpinFails, CountOffer, LeaveIdleRoom,
           StopListening, jobVars
<1>4. QED
    BY <1>1, <1>2, <1>3, UndisturbedKept

LEMMA GcStepUndisturbedInv ==
    ASSUME UndisturbedInv, NEW g \in Gcs, GcStep(g)
    PROVE  UndisturbedInv'
<1>1. OrphanInv'
    BY GcStepOrphanInv DEF UndisturbedInv
<1>2. /\ pinned' \subseteq pinned /\ listeners' \subseteq listeners
      /\ announced' = announced /\ req' = req
    BY DEF GcStep, GcStart, GcUnpin, GcUnpinFails, GcUnpinNull, GcAbort, GcDestroy, GcJobsDone,
           GcCount, GcLeave, LeaveRoom, GcDone, Unpin, UnpinMaybe, uploadVars, handlerVars, roomVars
<1>3. \A u \in Uploads : jobStatus'[u] \in {jobStatus[u], "destroyed"}
    BY DEF UndisturbedInv, OrphanInv, PinInv, TypeOK, JobTypeOK, GcStep, GcStart, GcUnpin,
           GcUnpinFails, GcUnpinNull, GcAbort, GcDestroy, DestroyJob, GcJobsDone, GcCount, GcLeave,
           GcDone, jobVars
<1>4. QED
    BY <1>1, <1>2, <1>3, UndisturbedKept

LEMMA OtherStepUndisturbedInv ==
    ASSUME UndisturbedInv, Undisturbed,
           (\E u \in Uploads : Timeout(u)) \/ Tick \/ Restart \/ Purge \/ UNCHANGED vars
    PROVE  UndisturbedInv'
<1>1. OrphanInv'
    BY OtherStepOrphanInv DEF UndisturbedInv
<1>2. ~Restart /\ ~Purge
    BY DEF Undisturbed, Restart, Purge, UndisturbedInv, OrphanInv, PinInv, TypeOK
<1>3. UNCHANGED <<jobStatus, pinned, announced, req>> /\ listeners' \subseteq listeners
    BY <1>2 DEF Timeout, TimerFires, Unsubscribe, Tick, AgeRows, RunTimers, vars, jobVars,
           uploadVars, handlerVars, roomVars
<1>4. QED
    BY <1>1, <1>3, UndisturbedKept

\* If no two uploads share a hash, nothing fails between an upload's add and
\* its save or at a call's unpin, nobody purges and the process does not
\* restart, then whatever is pinned has a row, an upload about to save it, or
\* a call about to unpin it.  GC runs may fail to unpin all the same where
\* there are no calls.
THEOREM NoPinOrphaned ==
    ASSUME SoleHashes, Undisturbed
    PROVE  Spec => []NoOrphanPin
<1>1. UndisturbedInv /\ [Next]_vars => UndisturbedInv'
    <2> SUFFICES ASSUME UndisturbedInv, [Next]_vars
                 PROVE  UndisturbedInv'
        OBVIOUS
    <2>1. ASSUME NEW u \in Uploads, UploadStep(u) PROVE UndisturbedInv'
        BY <2>1, UploadStepUndisturbedInv
    <2>2. ASSUME NEW t \in Offers, NEW p \in Peers, NEW h \in Hashes, Message(t, p, h)
          PROVE  UndisturbedInv'
        BY <2>2, MessageUndisturbedInv
    <2>3. ASSUME NEW k \in Calls, CallStep(k) PROVE UndisturbedInv'
        BY <2>3, CallStepUndisturbedInv
    <2>4. ASSUME NEW g \in Gcs, GcStep(g) PROVE UndisturbedInv'
        BY <2>4, GcStepUndisturbedInv
    <2>5. CASE (\E u \in Uploads : Timeout(u)) \/ Tick \/ Restart \/ Purge \/ UNCHANGED vars
        BY <2>5, OtherStepUndisturbedInv
    <2>6. QED
        BY <2>1, <2>2, <2>3, <2>4, <2>5 DEF Next, ProcessStep
<1>2. UndisturbedInv => NoOrphanPin
    <2> SUFFICES ASSUME UndisturbedInv, NEW h \in pinned
                 PROVE  Kept(h)
        BY DEF NoOrphanPin
    <2>1. PICK u \in Uploads : HashOf[u] = h
        BY DEF UndisturbedInv
    <2>2. PinExplained(u)
        BY <2>1 DEF SoleHashes, UndisturbedInv, OrphanInv, PinsExplained
    <2>3. ~OrphanCause(u)
        BY DEF UndisturbedInv, Undisturbed, OrphanCause
    <2>4. QED
        BY <2>1, <2>2, <2>3, ExplainedKept DEF UndisturbedInv, OrphanInv, PinInv
<1>3. QED
    BY <1>1, <1>2, UndisturbedInvInit, PTL DEF Spec

-----------------------------------------------------------------------------
(***************************************************************************)
(* The default configuration, without communication: the GC is the only    *)
(* one that unpins, and hashes may be shared.                              *)
(***************************************************************************)
LEMMA GcAloneInit == Init => GcAloneInv
<1> SUFFICES ASSUME Init PROVE GcAloneInv
    OBVIOUS
<1>1. pinned = {} /\ listeners = {} /\ \A k \in Calls : handlerPc[k] = "idle"
    BY DEF Init, PinInit, RoomInit, HandlerInit
<1>2. \A u \in Uploads : jobStatus[u] = "absent"
    BY DEF Init, JobInit
<1>3. QED
    BY <1>1, <1>2, PinInvInit DEF GcAloneInv, PinsHaveRows

LEMMA UploadStepGcAlone ==
    ASSUME GcAloneInv, ~CommsEnabled, Undisturbed, NEW u \in Uploads, UploadStep(u)
    PROVE  GcAloneInv'
<1> USE DEF GcAloneInv
<1>1. PinInv'
    BY NextPinInv DEF Next, ProcessStep
<1>2. listeners' = {} /\ handlerPc' = handlerPc /\ UNCHANGED gcVars
    BY DEF UploadStep, handlerVars, Accept, CreateJob, AddFiles, AddFails, UnlinkStaged,
           UnlinkFails, SaveJob, SizeFails, Answer, SubscribeForOffer, roomVars
<1>3. \A v \in Uploads : v # u => jobStatus'[v] = jobStatus[v] /\ req'[v] = req[v]
    BY DEF PinInv, TypeOK, JobTypeOK, UploadTypeOK, UploadStep, Goto, Accept, CreateJob, AddFiles,
           AddFails, UnlinkStaged, UnlinkFails, SaveJob, SizeFails, Answer, InsertJob, UpdateJob,
           jobVars
<1>4. ASSUME NEW h \in pinned', h # HashOf[u]
      PROVE  h \in pinned
    BY <1>4 DEF UploadStep, Accept, CreateJob, AddFiles, AddFails, UnlinkStaged, UnlinkFails,
           SaveJob, SizeFails, Answer, Pin, PinMaybe
\* u keeps its own claim to a pin, as a save finds no GC run at the row.
<1>5. ASSUME jobStatus[u] = "UPLOADING", req[u] \in {"unlink", "save"}
      PROVE  \/ jobStatus'[u] = "UPLOADING" /\ req'[u] \in {"unlink", "save"}
             \/ Waiting(u)' /\ \A g \in Gcs : gcPc'[g] = "destroy" => gcJob'[g] # u
    <2>1. \A g \in Gcs : gcPc[g] = "destroy" => gcJob[g] # u
        BY <1>5 DEF PinInv, GcRows, Waiting, Gone
    <2>2. CASE UnlinkStaged(u)
        BY <1>5, <2>2 DEF UnlinkStaged, Goto, jobVars, PinInv, TypeOK, UploadTypeOK
    <2>3. CASE SaveJob(u)
        BY <1>2, <1>5, <2>1, <2>3 DEF SaveJob, UpdateJob, Waiting, gcVars, PinInv, TypeOK,
               JobTypeOK, Rows, Live
    <2>4. QED
        BY <1>5, <2>2, <2>3 DEF Undisturbed, UploadStep, Goto, Accept, CreateJob, AddFiles,
               AddFails, UnlinkFails, SizeFails, Answer
<1>6. Waiting(u) => Waiting(u)'
    BY DEF PinInv, TypeOK, JobTypeOK, RequestRows, Waiting, UploadStep, Goto, Accept, CreateJob,
           AddFiles, AddFails, UnlinkStaged, UnlinkFails, SaveJob, SizeFails, Answer, InsertJob,
           UpdateJob, jobVars
<1>7. PinsHaveRows'
    <2> SUFFICES ASSUME NEW h \in pinned'
                 PROVE  \E v \in Uploads :
                          /\ HashOf[v] = h
                          /\ \/ jobStatus'[v] = "UPLOADING" /\ req'[v] \in {"unlink", "save"}
                             \/ /\ Waiting(v)'
                                /\ \A g \in Gcs : gcPc'[g] = "destroy" => gcJob'[g] # v
        BY DEF PinsHaveRows, Waiting
    <2>1. CASE h \in pinned
        <3>1. PICK v \in Uploads :
                /\ HashOf[v] = h
                /\ \/ jobStatus[v] = "UPLOADING" /\ req[v] \in {"unlink", "save"}
                   \/ Waiting(v) /\ \A g \in Gcs : gcPc[g] = "destroy" => gcJob[g] # v
            BY <2>1 DEF PinsHaveRows
        <3>2. CASE v = u
            BY <1>2, <1>5, <1>6, <3>1, <3>2 DEF gcVars
        <3>3. CASE v # u
            BY <1>2, <1>3, <3>1, <3>3 DEF gcVars, Waiting
        <3>4. QED
            BY <3>2, <3>3
    <2>2. CASE h \notin pinned
        <3>1. h = HashOf[u] /\ AddFiles(u)
            BY <1>4, <2>2 DEF Undisturbed, UploadStep, Accept, CreateJob, AddFiles, AddFails,
                   UnlinkStaged, UnlinkFails, SaveJob, SizeFails, Answer
        <3>2. jobStatus'[u] = jobStatus[u] /\ req'[u] = "unlink" /\ jobStatus[u] # "purged"
            BY <3>1 DEF AddFiles, Goto, jobVars, PinInv, TypeOK, UploadTypeOK
        <3>3. QED
            BY <3>1, <3>2 DEF AddFiles, Goto, PinInv, RequestRows
    <2>3. QED
        BY <2>1, <2>2
<1>8. jobStatus'[u] # "purged"
    BY DEF PinInv, TypeOK, JobTypeOK, UploadStep, Accept, CreateJob, AddFiles, AddFails,
           UnlinkStaged, UnlinkFails, SaveJob, SizeFails, Answer, InsertJob, UpdateJob, jobVars
<1>9. QED
    BY <1>1, <1>2, <1>3, <1>7, <1>8

LEMMA GcStepGcAlone ==
    ASSUME GcAloneInv, NEW g \in Gcs, GcStep(g)
    PROVE  GcAloneInv'
<1> USE DEF GcAloneInv
<1>1. PinInv'
    BY NextPinInv DEF Next, ProcessStep
<1>2. /\ listeners' = {} /\ handlerPc' = handlerPc /\ req' = req
      /\ \A u \in Uploads : jobStatus'[u] # "purged"
    BY DEF PinInv, TypeOK, JobTypeOK, GcStep, handlerVars, uploadVars, jobVars, roomVars, GcStart,
           GcUnpin, GcUnpinFails, GcUnpinNull, GcAbort, GcDestroy, DestroyJob, GcJobsDone, GcCount,
           GcLeave, LeaveRoom, GcDone
\* A row that answers for a pin which is still there: the run has unpinned
\* another hash, and destroys another row.
<1>3. ASSUME NEW h \in pinned', NEW u \in Uploads, HashOf[u] = h, h \in pinned,
             \/ jobStatus[u] = "UPLOADING" /\ req[u] \in {"unlink", "save"}
             \/ Waiting(u) /\ \A f \in Gcs : gcPc[f] = "destroy" => gcJob[f] # u
      PROVE  \/ jobStatus'[u] = "UPLOADING" /\ req'[u] \in {"unlink", "save"}
             \/ Waiting(u)' /\ \A f \in Gcs : gcPc'[f] = "destroy" => gcJob'[f] # u
    <2>1. CASE GcUnpin(g)
        <3>1. PICK r \in gcJobs[g] :
                r[2] # NoHash /\ Unpin(r[2]) /\ gcJob' = [gcJob EXCEPT ![g] = r[1]]
            BY <2>1 DEF GcUnpin
        <3>2. r[2] = HashOf[r[1]] /\ r[2] # h
            BY <1>3, <3>1 DEF PinInv, GcRows, Unpin
        <3>3. r[1] # u
            BY <1>3, <3>2
        <3>4. \A f \in Gcs : gcPc'[f] = "destroy" => gcPc[f] = "destroy" \/ f = g
            BY <2>1 DEF GcUnpin, GcMove, PinInv, TypeOK, GcTypeOK
        <3>5. \A f \in Gcs : gcJob'[f] = IF f = g THEN r[1] ELSE gcJob[f]
            BY <3>1 DEF PinInv, TypeOK, GcTypeOK
        <3>6. gcPc[g] # "destroy"
            BY <2>1 DEF GcUnpin, GcMove
        <3>7. QED
            BY <1>2, <1>3, <2>1, <3>3, <3>4, <3>5, <3>6 DEF GcUnpin, jobVars, Waiting
    <2>2. CASE GcDestroy(g)
        <3>1. gcPc[g] = "destroy"
            BY <2>2 DEF GcDestroy, GcMove
        <3>2. gcJob[g] # u
            BY <1>3, <2>2, <3>1 DEF GcDestroy, GcMove, Gone, Waiting, PinInv, GcRows
        <3>3. jobStatus'[u] = jobStatus[u]
            BY <2>2, <3>2 DEF GcDestroy, DestroyJob, PinInv, TypeOK, JobTypeOK
        <3>4. \A f \in Gcs : gcPc'[f] = "destroy" => gcPc[f] = "destroy" /\ gcJob'[f] = gcJob[f]
            BY <2>2 DEF GcDestroy, GcMove, PinInv, TypeOK, GcTypeOK
        <3>5. QED
            BY <1>2, <1>3, <3>3, <3>4 DEF Waiting
    <2>3. CASE ~GcUnpin(g) /\ ~GcDestroy(g)
        <3>1. UNCHANGED jobVars
            BY <2>3 DEF GcStep, GcStart, GcUnpinFails, GcUnpinNull, GcAbort, GcJobsDone, GcCount,
                   GcLeave, GcDone
        <3>2. \A f \in Gcs : gcPc'[f] = "destroy" => gcPc[f] = "destroy"
            BY <2>3 DEF PinInv, TypeOK, GcTypeOK, GcStep, GcMove, GcStart, GcUnpinFails,
                   GcUnpinNull, GcAbort, GcJobsDone, GcCount, GcLeave, GcDone
        <3>3. gcJob' = gcJob
            BY <2>3 DEF GcStep, GcStart, GcUnpinFails, GcUnpinNull, GcAbort, GcJobsDone, GcCount,
                   GcLeave, GcDone
        <3>4. QED
            BY <1>2, <1>3, <3>1, <3>2, <3>3 DEF Waiting, jobVars
    <2>4. QED
        BY <2>1, <2>2, <2>3
<1>4. pinned' \subseteq pinned
    BY DEF GcStep, GcStart, GcUnpin, GcUnpinFails, GcUnpinNull, GcAbort, GcDestroy, GcJobsDone,
           GcCount, GcLeave, GcDone, Unpin, UnpinMaybe
<1>5. PinsHaveRows'
    BY <1>3, <1>4 DEF PinsHaveRows, Waiting
<1>6. QED
    BY <1>1, <1>2, <1>5

LEMMA OtherStepGcAlone ==
    ASSUME GcAloneInv, Undisturbed,
           (\E u \in Uploads : Timeout(u)) \/ Tick \/ Restart \/ Purge \/ UNCHANGED vars
    PROVE  GcAloneInv'
<1> USE DEF GcAloneInv
<1>1. PinInv'
    BY NextPinInv DEF Next, ProcessStep
<1>2. ~Restart /\ ~Purge
    BY DEF Undisturbed, Restart, Purge, PinInv, TypeOK
<1>3. UNCHANGED <<jobStatus, pinned, req, handlerPc, gcVars>> /\ listeners' = {}
    BY <1>2 DEF Timeout, TimerFires, Unsubscribe, Tick, AgeRows, RunTimers, vars, jobVars,
           uploadVars, handlerVars, roomVars, gcVars
<1>4. QED
    BY <1>1, <1>3 DEF PinsHaveRows, Waiting, gcVars

\* Without communication nothing but the GC unpins, and it unpins before it
\* destroys: whatever is pinned has a row or an upload about to save it, also
\* when uploads share a hash, runs overlap, and unpins fail; if nothing
\* fails between an upload's add and its save, nobody purges and the process
\* does not restart.
THEOREM GcOrphansNothing ==
    ASSUME ~CommsEnabled, Undisturbed
    PROVE  Spec => []NoOrphanPin
<1>1. GcAloneInv /\ [Next]_vars => GcAloneInv'
    <2> SUFFICES ASSUME GcAloneInv, [Next]_vars
                 PROVE  GcAloneInv'
        OBVIOUS
    <2>1. ASSUME NEW u \in Uploads, UploadStep(u) PROVE GcAloneInv'
        BY <2>1, UploadStepGcAlone
    <2>2. ASSUME NEW t \in Offers, NEW p \in Peers, NEW h \in Hashes, Message(t, p, h)
          PROVE  GcAloneInv'
        BY <2>2 DEF GcAloneInv, Message, Deliver, Addressed, ListenersOf
    <2>3. ASSUME NEW k \in Calls, CallStep(k) PROVE GcAloneInv'
        BY <2>3 DEF GcAloneInv, CallStep, Move, FindJob, FindNothing, DestroyFound, CountHash,
               UnpinHash, UnpinFails, CountOffer, LeaveIdleRoom, StopListening
    <2>4. ASSUME NEW g \in Gcs, GcStep(g) PROVE GcAloneInv'
        BY <2>4, GcStepGcAlone
    <2>5. CASE (\E u \in Uploads : Timeout(u)) \/ Tick \/ Restart \/ Purge \/ UNCHANGED vars
        BY <2>5, OtherStepGcAlone
    <2>6. QED
        BY <2>1, <2>2, <2>3, <2>4, <2>5 DEF Next, ProcessStep
<1>2. GcAloneInv => NoOrphanPin
    <2> SUFFICES ASSUME GcAloneInv, NEW h \in pinned
                 PROVE  Kept(h)
        BY DEF NoOrphanPin
    <2>1. PICK u \in Uploads :
            /\ HashOf[u] = h
            /\ \/ jobStatus[u] = "UPLOADING" /\ req[u] \in {"unlink", "save"}
               \/ Waiting(u)
        BY DEF GcAloneInv, PinsHaveRows
    <2>2. QED
        BY <2>1 DEF Kept, Rows, Live, Waiting, GcAloneInv, PinInv, RowHashes
<1>3. QED
    BY <1>1, <1>2, GcAloneInit, PTL DEF Spec
=============================================================================
