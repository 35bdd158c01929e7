-------------------------- MODULE UploadSafetyProofs ------------------------
(***************************************************************************)
(* Theorems about the composed service, for every value of the constants:  *)
(* its types, and PinInv, which is inductive, hence FreshJobPinned holds   *)
(* of every behaviour, also when uploads share a hash.                     *)
(***************************************************************************)
EXTENDS UploadInvariants, TLAPS

(***************************************************************************)
(* Type correctness.  One lemma per component says that each of its        *)
(* operators keeps its variables typed; a step of the service is then a    *)
(* conjunction of operators.                                               *)
(***************************************************************************)
LEMMA JobTyped ==
    ASSUME JobTypeOK, NEW u \in Uploads, NEW h \in Hashes,
           InsertJob(u) \/ UpdateJob(u, h) \/ DestroyJob(u) \/ PurgeJobs \/ AgeRows
             \/ UNCHANGED jobVars
    PROVE  JobTypeOK'
<1> USE NumbersAssumption DEF JobTypeOK, Live, Rows, jobVars
<1>1. CASE InsertJob(u)
    BY <1>1 DEF InsertJob
<1>2. CASE UpdateJob(u, h)
    BY <1>2 DEF UpdateJob
<1>3. CASE DestroyJob(u)
    BY <1>3 DEF DestroyJob
<1>4. CASE PurgeJobs
    BY <1>4 DEF PurgeJobs
<1>5. CASE AgeRows
    BY <1>5 DEF AgeRows
<1>6. CASE UNCHANGED jobVars
    BY <1>6
<1>7. QED
    BY <1>1, <1>2, <1>3, <1>4, <1>5, <1>6

LEMMA PinTyped ==
    ASSUME PinTypeOK, NEW h \in Hashes,
           PinMaybe(h) \/ Pin(h) \/ UnpinMaybe(h) \/ Unpin(h) \/ UNCHANGED pinned
    PROVE  PinTypeOK'
BY DEF PinTypeOK, Pin, PinMaybe, Unpin, UnpinMaybe

LEMMA RoomTyped ==
    ASSUME RoomTypeOK, NEW u \in Uploads, NEW t,
           SubscribeForOffer(u) \/ LeaveRoom(t) \/ Unsubscribe(u) \/ RunTimers
             \/ ForgetRooms \/ UNCHANGED roomVars
    PROVE  RoomTypeOK'
<1> USE NumbersAssumption, FunctionsAssumption DEF RoomTypeOK, roomVars
<1>1. CASE SubscribeForOffer(u)
    <2>1. TimerDelay \in 0 .. TTL
        BY DEF TimerDelay
    <2>2. QED
        BY <1>1, <2>1 DEF SubscribeForOffer, RoomOf
<1>2. CASE LeaveRoom(t)
    BY <1>2 DEF LeaveRoom, ListenersOf
<1>3. CASE Unsubscribe(u)
    BY <1>3 DEF Unsubscribe
<1>4. CASE RunTimers
    BY <1>4 DEF RunTimers
<1>5. CASE ForgetRooms
    BY <1>5 DEF ForgetRooms
<1>6. CASE UNCHANGED roomVars
    BY <1>6
<1>7. QED
    BY <1>1, <1>2, <1>3, <1>4, <1>5, <1>6

LEMMA UploadStepTyped ==
    ASSUME TypeOK, NEW u \in Uploads, UploadStep(u)
    PROVE  TypeOK'
<1> USE FunctionsAssumption DEF TypeOK
<1>1. HandlerTypeOK' /\ GcTypeOK' /\ restarts' \in 0 .. MaxRestarts
    BY DEF UploadStep, handlerVars, gcVars, HandlerTypeOK, GcTypeOK
<1>2. UploadTypeOK'
    BY DEF UploadStep, UploadTypeOK, InProgress, Goto, Accept, CreateJob, AddFiles, AddFails,
           UnlinkStaged, UnlinkFails, SaveJob, SizeFails, Answer
<1>3. JobTypeOK'
    BY JobTyped DEF UploadStep, Accept, CreateJob, AddFiles, AddFails,
           UnlinkStaged, UnlinkFails, SaveJob, SizeFails, Answer
<1>4. PinTypeOK'
    BY PinTyped DEF UploadStep, Accept, CreateJob, AddFiles, AddFails,
           UnlinkStaged, UnlinkFails, SaveJob, SizeFails, Answer
<1>5. RoomTypeOK'
    BY RoomTyped DEF UploadStep, Accept, CreateJob, AddFiles, AddFails,
           UnlinkStaged, UnlinkFails, SaveJob, SizeFails, Answer
<1>6. QED
    BY <1>1, <1>2, <1>3, <1>4, <1>5

LEMMA MessageTyped ==
    ASSUME TypeOK, NEW t \in Offers, NEW p \in Peers, NEW h \in Hashes, Message(t, p, h)
    PROVE  TypeOK'
<1> USE DEF TypeOK
<1>1. HandlerTypeOK'
    BY DEF Message, Deliver, HandlerTypeOK, HandlerPcs, Calls
<1>2. UploadTypeOK' /\ GcTypeOK' /\ restarts' \in 0 .. MaxRestarts
    BY DEF Message, uploadVars, gcVars, UploadTypeOK, GcTypeOK
<1>3. JobTypeOK' /\ PinTypeOK' /\ RoomTypeOK'
    BY DEF Message, Deliver, jobVars, roomVars, JobTypeOK, PinTypeOK, RoomTypeOK
<1>4. QED
    BY <1>1, <1>2, <1>3

LEMMA CallStepTyped ==
    ASSUME TypeOK, NEW k \in Calls, CallStep(k)
    PROVE  TypeOK'
<1> USE DEF TypeOK
<1> DEFINE Steps == FindJob(k) \/ FindNothing(k) \/ DestroyFound(k) \/ CountHash(k)
                      \/ UnpinHash(k) \/ UnpinFails(k) \/ CountOffer(k)
                      \/ LeaveIdleRoom(k) \/ StopListening(k)
<1>0. Steps /\ MessageHash(k) \in Hashes /\ Listener(k) \in Uploads
    BY DEF CallStep, Calls, MessageHash, Listener
<1>1. UploadTypeOK' /\ GcTypeOK' /\ restarts' \in 0 .. MaxRestarts
    BY DEF CallStep, uploadVars, gcVars, UploadTypeOK, GcTypeOK
<1>2. HandlerTypeOK'
    BY <1>0 DEF HandlerTypeOK, HandlerPcs, Move, FindJob, FindNothing, DestroyFound, CountHash,
           UnpinHash, UnpinFails, CountOffer, LeaveIdleRoom, StopListening,
           Matching, RowsOfHash, Rows
<1>3. JobTypeOK'
    <2>1. DestroyJob(found[k]) => JobTypeOK'
        BY DEF DestroyJob, JobTypeOK, Live, Rows
    <2>2. UNCHANGED jobVars => JobTypeOK'
        BY DEF jobVars, JobTypeOK
    <2>3. QED
        BY <1>0, <2>1, <2>2 DEF FindJob, FindNothing, DestroyFound, CountHash, UnpinHash,
               UnpinFails, CountOffer, LeaveIdleRoom, StopListening
<1>4. PinTypeOK'
    BY <1>0, PinTyped DEF FindJob, FindNothing, DestroyFound, CountHash, UnpinHash,
           UnpinFails, CountOffer, LeaveIdleRoom, StopListening
<1>5. RoomTypeOK'
    BY <1>0, RoomTyped DEF FindJob, FindNothing, DestroyFound, CountHash, UnpinHash,
           UnpinFails, CountOffer, LeaveIdleRoom, StopListening
<1>6. QED
    BY <1>1, <1>2, <1>3, <1>4, <1>5

LEMMA GcStepTyped ==
    ASSUME TypeOK, NEW g \in Gcs, GcStep(g)
    PROVE  TypeOK'
<1> USE DEF TypeOK
<1> DEFINE Steps == GcStart(g) \/ GcUnpin(g) \/ GcUnpinFails(g) \/ GcUnpinNull(g)
                      \/ GcDestroy(g) \/ GcJobsDone(g) \/ GcCount(g) \/ GcLeave(g)
                      \/ GcDone(g)
<1>0. Steps
    BY DEF GcStep
<1>1. UploadTypeOK' /\ HandlerTypeOK' /\ restarts' \in 0 .. MaxRestarts
    BY DEF GcStep, uploadVars, handlerVars, UploadTypeOK, HandlerTypeOK
<1>2. GcTypeOK'
    <2>1. {<<u, jobHash[u]>> : u \in ExpiredRows} \subseteq Uploads \X (Hashes \cup {NoHash})
        BY DEF ExpiredRows, Rows, JobTypeOK
    <2>2. CASE GcStart(g)
        BY <2>1, <2>2 DEF GcTypeOK, GcMove, GcStart
    <2>3. CASE GcUnpin(g)
        BY <2>3 DEF GcTypeOK, GcMove, GcUnpin
    <2>4. CASE GcUnpinFails(g) \/ GcUnpinNull(g)
        BY <2>4 DEF GcTypeOK, GcMove, GcUnpinFails, GcUnpinNull, GcAbort
    <2>5. CASE GcDestroy(g) \/ GcJobsDone(g) \/ GcLeave(g) \/ GcDone(g)
        BY <2>5 DEF GcTypeOK, GcMove, GcDestroy, GcJobsDone, GcLeave, GcDone
    <2>6. CASE GcCount(g)
        BY <2>6 DEF GcTypeOK, GcMove, GcCount, RoomTypeOK
    <2>7. QED
        BY <1>0, <2>2, <2>3, <2>4, <2>5, <2>6
<1>3. JobTypeOK'
    <2>1. DestroyJob(gcJob[g]) => JobTypeOK'
        BY DEF DestroyJob, JobTypeOK, Live, Rows
    <2>2. UNCHANGED jobVars => JobTypeOK'
        BY DEF jobVars, JobTypeOK
    <2>3. QED
        BY <1>0, <2>1, <2>2 DEF GcStart, GcUnpin, GcUnpinFails, GcUnpinNull, GcAbort,
               GcDestroy, GcJobsDone, GcCount, GcLeave, GcDone
<1>4. PinTypeOK'
    BY <1>0 DEF GcTypeOK, PinTypeOK, Unpin, UnpinMaybe, GcStart, GcUnpin, GcUnpinFails,
           GcUnpinNull, GcAbort, GcDestroy, GcJobsDone, GcCount, GcLeave, GcDone
<1>5. RoomTypeOK'
    <2>1. LeaveRoom(gcTopic[g]) => RoomTypeOK'
        BY FunctionsAssumption, NumbersAssumption DEF LeaveRoom, ListenersOf, RoomTypeOK
    <2>2. CASE GcCount(g) \/ GcDone(g)
        BY <2>2 DEF GcCount, GcDone, RoomTypeOK
    <2>3. UNCHANGED roomVars => RoomTypeOK'
        BY DEF roomVars, RoomTypeOK
    <2>4. QED
        BY <1>0, <2>1, <2>2, <2>3 DEF GcStart, GcUnpin, GcUnpinFails, GcUnpinNull, GcAbort,
               GcDestroy, GcJobsDone, GcLeave
<1>6. QED
    BY <1>1, <1>2, <1>3, <1>4, <1>5

LEMMA OtherStepTyped ==
    ASSUME TypeOK,
           (\E u \in Uploads : Timeout(u)) \/ Tick \/ Restart \/ Purge \/ UNCHANGED vars
    PROVE  TypeOK'
<1> USE FunctionsAssumption, NumbersAssumption DEF TypeOK
<1>1. CASE \E u \in Uploads : Timeout(u)
    BY <1>1, RoomTyped DEF Timeout, TimerFires, jobVars, uploadVars, handlerVars, gcVars,
           JobTypeOK, PinTypeOK, UploadTypeOK, HandlerTypeOK, GcTypeOK
<1>2. CASE Tick
    <2>1. JobTypeOK'
        BY <1>2 DEF Tick, AgeRows, Rows, JobTypeOK
    <2>2. RoomTypeOK'
        BY <1>2 DEF Tick, RunTimers, RoomTypeOK
    <2>3. QED
        BY <1>2, <2>1, <2>2 DEF Tick, uploadVars, handlerVars, gcVars,
               PinTypeOK, UploadTypeOK, HandlerTypeOK, GcTypeOK
<1>3. CASE Restart
    <2>1. JobTypeOK' /\ PinTypeOK' /\ restarts' \in 0 .. MaxRestarts
        BY <1>3 DEF Restart, jobVars, JobTypeOK, PinTypeOK
    <2>2. RoomTypeOK'
        BY <1>3 DEF Restart, ForgetRooms, RoomTypeOK
    <2>3. UploadTypeOK' /\ HandlerTypeOK' /\ GcTypeOK'
        BY <1>3 DEF Restart, ForgetRequests, ForgetCalls, ForgetRuns, HandlerPcs,
               UploadTypeOK, HandlerTypeOK, GcTypeOK
    <2>4. QED
        BY <2>1, <2>2, <2>3
<1>4. CASE Purge
    BY <1>4 DEF Purge, PurgeJobs, roomVars, uploadVars, handlerVars, gcVars, JobTypeOK,
           PinTypeOK, RoomTypeOK, UploadTypeOK, HandlerTypeOK, GcTypeOK
<1>5. CASE UNCHANGED vars
    BY <1>5 DEF vars, jobVars, roomVars, uploadVars, handlerVars, gcVars, JobTypeOK,
           PinTypeOK, RoomTypeOK, UploadTypeOK, HandlerTypeOK, GcTypeOK
<1>6. QED
    BY <1>1, <1>2, <1>3, <1>4, <1>5

LEMMA InitTyped == Init => TypeOK
BY NumbersAssumption DEF Init, TypeOK, JobInit, PinInit, RoomInit, UploadInit, HandlerInit,
       GcInit, JobTypeOK, PinTypeOK, RoomTypeOK, UploadTypeOK, HandlerTypeOK, GcTypeOK,
       HandlerPcs

LEMMA NextTyped == TypeOK /\ [Next]_vars => TypeOK'
BY UploadStepTyped, MessageTyped, CallStepTyped, GcStepTyped, OtherStepTyped DEF Next, ProcessStep

\* Every variable of the service keeps its type, whatever the components do
\* in whatever order (Init and Next of UploadService).
THEOREM TypeCorrect == Spec => []TypeOK
BY InitTyped, NextTyped, PTL DEF Spec

-----------------------------------------------------------------------------
(***************************************************************************)
(* PinInv, one lemma per actor.                                            *)
(***************************************************************************)
LEMMA PinInvInit == Init => PinInv
<1> SUFFICES ASSUME Init PROVE PinInv
    OBVIOUS
<1>1. TypeOK
    BY InitTyped
<1>2. RowHashes /\ RequestRows /\ UploadedPinned /\ FreshJobPinned
    BY DEF Init, JobInit, UploadInit, RowHashes, RequestRows, UploadedPinned, FreshJobPinned,
           Waiting
<1>3. CallJobs /\ GcRows
    BY DEF Init, HandlerInit, GcInit, CallJobs, GcRows
<1>4. QED
    BY <1>1, <1>2, <1>3 DEF PinInv

\* What was taken along with an equal file stays so: saved rows stay saved or
\* are gone for good, and what is due stays due.
LEMMA TakenStays ==
    ASSUME announced \subseteq announced',
           \A v \in Uploads :
              /\ Waiting(v) \/ Gone(v) => Waiting(v)' \/ Gone(v)'
              /\ Expired(v) => Expired(v)'
    PROVE  \A u \in Uploads : TakenAlong(u) => TakenAlong(u)'
<1> SUFFICES ASSUME NEW u \in Uploads, TakenAlong(u) PROVE TakenAlong(u)'
    OBVIOUS
<1>1. PICK v \in Uploads \ {u} :
         HashOf[v] = HashOf[u] /\ ReleaseDue(v) /\ (Waiting(v) \/ Gone(v))
    BY DEF TakenAlong
<1>2. ReleaseDue(v)' /\ (Waiting(v)' \/ Gone(v)')
    BY <1>1 DEF ReleaseDue
<1>3. QED
    BY <1>1, <1>2 DEF TakenAlong

LEMMA UploadStepPinInv ==
    ASSUME PinInv, NEW u \in Uploads, UploadStep(u)
    PROVE  PinInv'
<1> USE FunctionsAssumption, NullsAssumption DEF PinInv
<1>1. TypeOK'
    BY UploadStepTyped
<1>2. \A v \in Uploads : v # u =>
         jobStatus'[v] = jobStatus[v] /\ jobHash'[v] = jobHash[v] /\ req'[v] = req[v]
    BY DEF TypeOK, JobTypeOK, UploadTypeOK, UploadStep, Goto, Accept, CreateJob, AddFiles, AddFails,
           UnlinkStaged, UnlinkFails, SaveJob, SizeFails, Answer, InsertJob, UpdateJob, jobVars
<1>3. age' = age /\ handlerVars' = handlerVars /\ gcVars' = gcVars
    BY DEF UploadStep, Accept, CreateJob, AddFiles, AddFails,
           UnlinkStaged, UnlinkFails, SaveJob, SizeFails, Answer, InsertJob, UpdateJob, jobVars
<1>4. pinned \subseteq pinned'
    BY DEF UploadStep, Accept, CreateJob, AddFiles, AddFails, UnlinkStaged, UnlinkFails,
           SaveJob, SizeFails, Answer, Pin, PinMaybe
<1>5. RowHashes' /\ RequestRows'
    BY <1>2 DEF TypeOK, JobTypeOK, UploadTypeOK, RowHashes, RequestRows, Waiting, Gone,
           UploadStep, Goto, Accept, CreateJob, AddFiles, AddFails, UnlinkStaged, UnlinkFails,
           SaveJob, SizeFails, Answer, InsertJob, UpdateJob, Rows, Live, jobVars
\* Saved rows stay saved and gone rows stay gone.
<1>6. \A v \in Uploads : Waiting(v) \/ Gone(v) =>
         /\ jobStatus'[v] = jobStatus[v]
         /\ jobHash'[v] = jobHash[v]
    BY <1>2 DEF TypeOK, JobTypeOK, UploadTypeOK, RequestRows, RowHashes, Waiting, Gone, UploadStep,
           Goto, Accept, CreateJob, AddFiles, AddFails, UnlinkStaged, UnlinkFails, SaveJob,
           SizeFails, Answer, InsertJob, UpdateJob, Rows, Live, jobVars
<1>7. UploadedPinned' /\ FreshJobPinned'
    <2>1. \A v \in Uploads : TakenAlong(v) => TakenAlong(v)'
        BY <1>3, <1>6, TakenStays DEF handlerVars, Waiting, Gone, Expired
    <2>2. ASSUME NEW v \in Uploads, v # u
          PROVE  /\ jobStatus'[v] = "UPLOADING" /\ req'[v] \in {"unlink", "save"}
                      => HashOf[v] \in pinned' \/ TakenAlong(v)'
                 /\ Waiting(v)' /\ ~Expired(v)' => HashOf[v] \in pinned' \/ TakenAlong(v)'
        BY <1>2, <1>3, <1>4, <2>1, <2>2 DEF UploadedPinned, FreshJobPinned, Waiting, Expired
    <2>3. /\ jobStatus'[u] = "UPLOADING" /\ req'[u] \in {"unlink", "save"}
               => HashOf[u] \in pinned' \/ TakenAlong(u)'
          /\ Waiting(u)' /\ ~Expired(u)' => HashOf[u] \in pinned' \/ TakenAlong(u)'
        BY <1>3, <1>4, <2>1 DEF TypeOK, JobTypeOK, UploadTypeOK, UploadedPinned, FreshJobPinned,
               RequestRows, Waiting, Expired, Gone, UploadStep, Goto, Accept, CreateJob, AddFiles,
               AddFails, UnlinkStaged, UnlinkFails, SaveJob, SizeFails, Answer, InsertJob,
               UpdateJob, Pin, Rows, Live, jobVars
    <2>4. QED
        BY <2>2, <2>3 DEF UploadedPinned, FreshJobPinned
<1>8. CallJobs'
    BY <1>3, <1>6 DEF CallJobs, Answers, Waiting, Gone, handlerVars, Topic, MessageHash, RoomOf,
           Listener
<1>9. GcRows'
    <2>1. \A g \in Gcs : \A r \in gcJobs[g] : r[1] \in Uploads
        BY DEF TypeOK, GcTypeOK
    <2>2. QED
        BY <1>3, <1>6, <2>1 DEF GcRows, Waiting, Gone, Expired, gcVars
<1>10. QED
    BY <1>1, <1>5, <1>7, <1>8, <1>9

LEMMA MessagePinInv ==
    ASSUME PinInv, NEW t \in Offers, NEW p \in Peers, NEW h \in Hashes, Message(t, p, h)
    PROVE  PinInv'
<1> USE DEF PinInv
<1>1. TypeOK'
    BY MessageTyped
<1>2. UNCHANGED <<jobVars, pinned, uploadVars, gcVars>>
    BY DEF Message, Deliver
<1>3. RowHashes' /\ RequestRows' /\ UploadedPinned' /\ FreshJobPinned' /\ GcRows'
    <2>1. \A v \in Uploads : TakenAlong(v) => TakenAlong(v)'
        BY <1>2, TakenStays DEF Message, Deliver, jobVars, Waiting, Gone, Expired
    <2>2. QED
        BY <1>2, <2>1 DEF jobVars, uploadVars, gcVars, RowHashes, RequestRows, UploadedPinned,
               FreshJobPinned, GcRows, Waiting, Gone, Expired
<1>4. CallJobs'
    <2>1. ASSUME NEW k \in Calls, handlerPc'[k] # handlerPc[k]
          PROVE  handlerPc'[k] = "find" /\ <<Topic(k), MessageHash(k)>> \in announced'
        BY <2>1 DEF TypeOK, HandlerTypeOK, Message, Deliver, Addressed, ListenersOf, Topic
    <2>2. announced \subseteq announced' /\ found' = found
        BY DEF Message, Deliver
    <2>3. QED
        BY <1>2, <2>1, <2>2 DEF CallJobs, Answers, Waiting, Gone, jobVars, Topic, MessageHash
<1>5. QED
    BY <1>1, <1>3, <1>4

\* Destroying a job that was saved moves at most that row, and leaves it gone.
LEMMA DestroyEffect ==
    ASSUME TypeOK, NEW j \in Uploads, Waiting(j) \/ Gone(j), DestroyJob(j)
    PROVE  /\ \A v \in Uploads : jobStatus'[v] # jobStatus[v] =>
                v = j /\ Waiting(v) /\ jobStatus'[v] = "destroyed"
           /\ Gone(j)'
           /\ jobHash' = jobHash /\ age' = age
BY DEF TypeOK, JobTypeOK, DestroyJob, Rows, Live, Waiting, Gone

\* What the invariant needs to know of a step of a call or of a GC run: rows
\* change by being destroyed once saved, and a hash is unpinned only for the
\* release of a saved upload that is due; a fresh one is gone by then.
LEMMA ReleasePreserves ==
    ASSUME PinInv,
           \A v \in Uploads : jobStatus'[v] # jobStatus[v] =>
                Waiting(v) /\ jobStatus'[v] = "destroyed",
           jobHash' = jobHash, age' = age, announced' = announced, uploadVars' = uploadVars,
           \A h \in pinned \ pinned' :
              \E w \in Uploads : /\ HashOf[w] = h
                                 /\ ReleaseDue(w)
                                 /\ Gone(w) \/ (Waiting(w) /\ Expired(w))
    PROVE  RowHashes' /\ RequestRows' /\ UploadedPinned' /\ FreshJobPinned'
<1> USE DEF PinInv
<1>1. RowHashes' /\ RequestRows'
    BY DEF RowHashes, RequestRows, Waiting, Gone, uploadVars
<1>2. \A v \in Uploads : TakenAlong(v) => TakenAlong(v)'
    BY TakenStays DEF Waiting, Gone, Expired
<1>3. ASSUME NEW v \in Uploads, HashOf[v] \in pinned
      PROVE  HashOf[v] \in pinned' \/ TakenAlong(v) \/ Gone(v) \/ (Waiting(v) /\ Expired(v))
    <2>1. CASE HashOf[v] \in pinned'
        BY <2>1
    <2>2. CASE HashOf[v] \notin pinned'
        <3>0. HashOf[v] \in pinned \ pinned'
            BY <1>3, <2>2
        <3>1. PICK w \in Uploads : /\ HashOf[w] = HashOf[v]
                                   /\ ReleaseDue(w)
                                   /\ Gone(w) \/ (Waiting(w) /\ Expired(w))
            BY <3>0
        <3>2. CASE w = v
            BY <3>1, <3>2
        <3>3. CASE w # v
            BY <3>1, <3>3 DEF TakenAlong
        <3>4. QED
            BY <3>2, <3>3
    <2>3. QED
        BY <2>1, <2>2
<1>4. UploadedPinned'
    BY <1>2, <1>3 DEF UploadedPinned, Waiting, Gone, uploadVars
<1>5. FreshJobPinned'
    BY <1>2, <1>3 DEF FreshJobPinned, Waiting, Gone, Expired
<1>6. QED
    BY <1>1, <1>4, <1>5

LEMMA CallStepPinInv ==
    ASSUME PinInv, NEW k \in Calls, CallStep(k)
    PROVE  PinInv'
<1> USE DEF PinInv
<1>1. TypeOK'
    BY CallStepTyped
<1>2. UNCHANGED <<uploadVars, gcVars, announced>>
    BY DEF CallStep, Move, FindJob, FindNothing, DestroyFound, CountHash, UnpinHash,
           UnpinFails, CountOffer, LeaveIdleRoom, StopListening
<1>3. /\ \A v \in Uploads : jobStatus'[v] # jobStatus[v] =>
            Waiting(v) /\ jobStatus'[v] = "destroyed"
      /\ jobHash' = jobHash /\ age' = age
    <2>1. CASE DestroyFound(k)
        <3>1. found[k] \in Uploads /\ (Waiting(found[k]) \/ Gone(found[k]))
            BY <2>1 DEF CallJobs, DestroyFound, Move
        <3>2. QED
            BY <2>1, <3>1, DestroyEffect DEF DestroyFound
    <2>2. CASE UNCHANGED jobVars
        BY <2>2 DEF jobVars
    <2>3. QED
        BY <2>1, <2>2 DEF CallStep, FindJob, FindNothing, CountHash, UnpinHash,
               UnpinFails, CountOffer, LeaveIdleRoom, StopListening
<1>4. \A h \in pinned \ pinned' :
         \E w \in Uploads : HashOf[w] = h /\ ReleaseDue(w) /\ Gone(w)
    <2>1. CASE UnpinHash(k) \/ UnpinFails(k)
        <3>1. PICK j \in Uploads : /\ Answers(k, j)
                                   /\ Gone(j)
                                   /\ <<Topic(k), MessageHash(k)>> \in announced
            BY <2>1 DEF CallJobs, UnpinHash, UnpinFails, Move
        <3>2. pinned \ pinned' \subseteq {MessageHash(k)}
            BY <2>1 DEF UnpinHash, UnpinFails, Unpin, UnpinMaybe
        <3>3. QED
            BY <3>1, <3>2 DEF Answers, ReleaseDue
    <2>2. CASE pinned' = pinned
        BY <2>2
    <2>3. QED
        BY <2>1, <2>2 DEF CallStep, FindJob, FindNothing, DestroyFound, CountHash,
               CountOffer, LeaveIdleRoom, StopListening
<1>5. RowHashes' /\ RequestRows' /\ UploadedPinned' /\ FreshJobPinned'
    BY <1>2, <1>3, <1>4, ReleasePreserves
\* Saved rows are saved or gone afterwards, and gone rows stay gone.
<1>6. \A v \in Uploads : /\ Waiting(v) \/ Gone(v) => Waiting(v)' \/ Gone(v)'
                         /\ Gone(v) => Gone(v)'
    BY <1>3 DEF Waiting, Gone
<1>7. CallJobs'
    <2>1. ASSUME NEW c \in Calls, c # k
          PROVE  handlerPc'[c] = handlerPc[c] /\ found'[c] = found[c]
        BY <2>1 DEF TypeOK, HandlerTypeOK, CallStep, Move, FindJob, FindNothing, DestroyFound,
               CountHash, UnpinHash, UnpinFails, CountOffer, LeaveIdleRoom, StopListening
    <2>2. <<Topic(k), MessageHash(k)>> \in announced
        BY DEF CallJobs, CallStep, Move, FindJob, FindNothing, DestroyFound, CountHash, UnpinHash,
               UnpinFails, CountOffer, LeaveIdleRoom, StopListening
    <2>3. handlerPc'[k] = "destroy" =>
             found'[k] \in Uploads /\ Answers(k, found[k])'
               /\ (Waiting(found[k])' \/ Gone(found[k])')
        <3>1. SUFFICES ASSUME handlerPc'[k] = "destroy"
                       PROVE  found'[k] \in Uploads /\ Answers(k, found[k])'
                                /\ (Waiting(found[k])' \/ Gone(found[k])')
            OBVIOUS
        <3>2. FindJob(k)
            BY <3>1 DEF TypeOK, HandlerTypeOK, CallStep, Move, FindJob, FindNothing, DestroyFound,
                   CountHash, UnpinHash, UnpinFails, CountOffer, LeaveIdleRoom, StopListening
        <3>3. PICK j \in Matching(k) : found'[k] = j
            BY <3>2 DEF FindJob, TypeOK, HandlerTypeOK
        <3>4. j \in Rows /\ jobHash[j] = MessageHash(k) /\ OfferOf[j] = Topic(k)
            BY <3>3 DEF Matching, RowsOfHash, RowsOfOffer
        <3>5. jobHash[j] = HashOf[j] /\ Waiting(j)
            BY <3>4, NullsAssumption DEF Rows, Live, RowHashes, Waiting, Calls, MessageHash
        <3>6. jobStatus' = jobStatus /\ jobHash' = jobHash
            BY <3>2 DEF FindJob, jobVars
        <3>7. QED
            BY <3>3, <3>4, <3>5, <3>6 DEF Rows, Answers, Waiting, Topic, MessageHash
    <2>4. handlerPc'[k] \in {"countHash", "unpin"} =>
             \E j \in Uploads : Answers(k, j)' /\ Gone(j)'
        <3>1. CASE DestroyFound(k)
            <4>1. PICK j \in Uploads : j = found[k] /\ Answers(k, j) /\ (Waiting(j) \/ Gone(j))
                BY <3>1 DEF CallJobs, DestroyFound, Move
            <4>2. Gone(j)'
                BY <3>1, <4>1, DestroyEffect DEF DestroyFound
            <4>3. QED
                BY <1>3, <4>1, <4>2 DEF Answers, Topic, MessageHash
        <3>2. CASE CountHash(k)
            BY <1>3, <1>6, <3>2 DEF CallJobs, CountHash, Move, Answers, Topic, MessageHash
        <3>3. CASE ~DestroyFound(k) /\ ~CountHash(k)
            BY <3>3 DEF TypeOK, HandlerTypeOK, CallStep, Move, FindJob, FindNothing,
                   UnpinHash, UnpinFails, CountOffer, LeaveIdleRoom, StopListening
        <3>4. QED
            BY <3>1, <3>2, <3>3
    <2>5. ASSUME NEW c \in Calls
          PROVE  /\ handlerPc'[c] # "idle" => <<Topic(c), MessageHash(c)>> \in announced'
                 /\ handlerPc'[c] = "destroy" =>
                      /\ found'[c] \in Uploads
                      /\ Answers(c, found[c])'
                      /\ Waiting(found[c])' \/ Gone(found[c])'
                 /\ handlerPc'[c] \in {"countHash", "unpin"} =>
                      \E j \in Uploads : Answers(c, j)' /\ Gone(j)'
        <3>1. CASE c = k
            BY <1>2, <2>2, <2>3, <2>4, <3>1
        <3>2. CASE c # k
            BY <1>2, <1>3, <1>6, <2>1, <3>2 DEF CallJobs, Answers, Topic, MessageHash, Waiting, Gone
        <3>3. QED
            BY <3>1, <3>2
    <2>6. QED
        BY <2>5 DEF CallJobs, Topic, RoomOf, Listener, MessageHash
<1>8. GcRows'
    BY <1>2, <1>3, <1>6 DEF GcRows, gcVars, Expired, TypeOK, GcTypeOK
<1>9. QED
    BY <1>1, <1>5, <1>7, <1>8

LEMMA GcStepPinInv ==
    ASSUME PinInv, NEW g \in Gcs, GcStep(g)
    PROVE  PinInv'
<1> USE DEF PinInv
<1>1. TypeOK'
    BY GcStepTyped
<1>2. UNCHANGED <<uploadVars, handlerVars>>
    BY DEF GcStep
<1>3. /\ \A v \in Uploads : jobStatus'[v] # jobStatus[v] =>
            Waiting(v) /\ jobStatus'[v] = "destroyed"
      /\ jobHash' = jobHash /\ age' = age
    <2>1. CASE GcDestroy(g)
        <3>1. gcJob[g] \in Uploads /\ (Waiting(gcJob[g]) \/ Gone(gcJob[g]))
            BY <2>1 DEF GcRows, GcDestroy, GcMove
        <3>2. QED
            BY <2>1, <3>1, DestroyEffect DEF GcDestroy
    <2>2. CASE UNCHANGED jobVars
        BY <2>2 DEF jobVars
    <2>3. QED
        BY <2>1, <2>2 DEF GcStep, GcStart, GcUnpin, GcUnpinFails, GcUnpinNull, GcAbort,
               GcJobsDone, GcCount, GcLeave, GcDone
<1>4. \A h \in pinned \ pinned' :
         \E w \in Uploads : /\ HashOf[w] = h
                            /\ ReleaseDue(w)
                            /\ Gone(w) \/ (Waiting(w) /\ Expired(w))
    <2>1. CASE GcUnpin(g) \/ GcUnpinFails(g)
        <3>1. PICK r \in gcJobs[g] : r[2] # NoHash /\ pinned \ pinned' \subseteq {r[2]}
            BY <2>1 DEF GcUnpin, GcUnpinFails, Unpin, UnpinMaybe
        <3>2. r[1] \in Uploads
            BY DEF TypeOK, GcTypeOK
        <3>3. r[2] = HashOf[r[1]] /\ Expired(r[1]) /\ (Waiting(r[1]) \/ Gone(r[1]))
            BY <3>1 DEF GcRows
        <3>4. QED
            BY <3>1, <3>2, <3>3 DEF ReleaseDue
    <2>2. CASE pinned' = pinned
        BY <2>2
    <2>3. QED
        BY <2>1, <2>2 DEF GcStep, GcStart, GcUnpinNull, GcDestroy, GcJobsDone, GcCount,
               GcLeave, GcDone
<1>5. RowHashes' /\ RequestRows' /\ UploadedPinned' /\ FreshJobPinned'
    BY <1>2, <1>3, <1>4, ReleasePreserves DEF handlerVars
\* Saved rows are saved or gone afterwards, and gone rows stay gone.
<1>6. \A v \in Uploads : /\ Waiting(v) \/ Gone(v) => Waiting(v)' \/ Gone(v)'
                         /\ Gone(v) => Gone(v)'
    BY <1>3 DEF Waiting, Gone
<1>7. CallJobs'
    BY <1>2, <1>3, <1>6 DEF CallJobs, Answers, handlerVars, Topic, RoomOf, Listener, MessageHash
<1>8. GcRows'
    <2>1. ASSUME NEW f \in Gcs, f # g
          PROVE  gcJobs'[f] = gcJobs[f] /\ gcPc'[f] = gcPc[f] /\ gcJob'[f] = gcJob[f]
        BY <2>1 DEF TypeOK, GcTypeOK, GcStep, GcMove, GcStart, GcUnpin, GcUnpinFails, GcUnpinNull,
               GcAbort, GcDestroy, GcJobsDone, GcCount, GcLeave, GcDone
    <2>2. ASSUME NEW f \in Gcs, NEW r \in gcJobs[f]
          PROVE  /\ Expired(r[1])'
                 /\ r[2] # NoHash => r[2] = HashOf[r[1]] /\ (Waiting(r[1])' \/ Gone(r[1])')
        <3>1. r[1] \in Uploads
            BY DEF TypeOK, GcTypeOK
        <3>2. QED
            BY <1>3, <1>6, <3>1 DEF GcRows, Expired
    <2>3. ASSUME NEW r \in gcJobs'[g]
          PROVE  /\ Expired(r[1])'
                 /\ r[2] # NoHash => r[2] = HashOf[r[1]] /\ (Waiting(r[1])' \/ Gone(r[1])')
        <3>1. CASE r \in gcJobs[g]
            BY <2>2, <3>1
        <3>2. CASE r \notin gcJobs[g]
            <4>1. GcStart(g)
                BY <3>2 DEF TypeOK, GcTypeOK, GcStep, GcUnpin, GcUnpinFails, GcUnpinNull, GcAbort,
                       GcDestroy, GcJobsDone, GcCount, GcLeave, GcDone
            <4>2. PICK u \in ExpiredRows : r = <<u, jobHash[u]>>
                BY <4>1 DEF GcStart, TypeOK, GcTypeOK
            <4>3. u \in Uploads /\ Expired(u) /\ jobStatus[u] \in Live
                BY DEF ExpiredRows, Rows
            <4>4. r[1] = u /\ r[2] = jobHash[u]
                BY <4>2
            <4>5. jobHash[u] # NoHash => jobHash[u] = HashOf[u] /\ Waiting(u)
                BY <4>3 DEF RowHashes, Waiting, Live
            <4>6. QED
                BY <1>3, <1>6, <4>3, <4>4, <4>5 DEF Expired
        <3>3. QED
            BY <3>1, <3>2
    <2>4. gcPc'[g] = "destroy" =>
             \E j \in Uploads : j = gcJob'[g] /\ Expired(j)' /\ (Waiting(j)' \/ Gone(j)')
        <3>1. SUFFICES ASSUME gcPc'[g] = "destroy"
                       PROVE  \E j \in Uploads : /\ j = gcJob'[g]
                                                 /\ Expired(j)'
                                                 /\ Waiting(j)' \/ Gone(j)'
            OBVIOUS
        <3>2. GcUnpin(g)
            BY <3>1 DEF TypeOK, GcTypeOK, GcStep, GcMove, GcStart, GcUnpinFails, GcUnpinNull,
                   GcAbort, GcDestroy, GcJobsDone, GcCount, GcLeave, GcDone
        <3>3. PICK r \in gcJobs[g] : r[2] # NoHash /\ gcJob'[g] = r[1]
            BY <3>2 DEF GcUnpin, TypeOK, GcTypeOK
        <3>4. r[1] \in Uploads
            BY DEF TypeOK, GcTypeOK
        <3>5. QED
            BY <2>2, <3>3, <3>4
    <2>5. ASSUME NEW f \in Gcs
          PROVE  /\ \A r \in gcJobs'[f] :
                      /\ Expired(r[1])'
                      /\ r[2] # NoHash => r[2] = HashOf[r[1]] /\ (Waiting(r[1])' \/ Gone(r[1])')
                 /\ gcPc'[f] = "destroy" =>
                      \E j \in Uploads : j = gcJob'[f] /\ Expired(j)' /\ (Waiting(j)' \/ Gone(j)')
        <3>1. CASE f = g
            BY <2>3, <2>4, <3>1
        <3>2. CASE f # g
            <4>1. gcPc[f] = "destroy" =>
                    \E j \in Uploads : j = gcJob[f] /\ Expired(j) /\ (Waiting(j) \/ Gone(j))
                BY DEF GcRows
            <4>2. QED
                BY <1>3, <1>6, <2>1, <2>2, <3>2, <4>1 DEF Expired
        <3>3. QED
            BY <3>1, <3>2
    <2>6. QED
        BY <2>5 DEF GcRows, Expired, Waiting, Gone
<1>9. QED
    BY <1>1, <1>5, <1>7, <1>8

\* The steps that belong to no actor: a timeout, the clock, a restart, the purge.
LEMMA OtherStepPinInv ==
    ASSUME PinInv,
           (\E u \in Uploads : Timeout(u)) \/ Tick \/ Restart \/ Purge \/ UNCHANGED vars
    PROVE  PinInv'
<1> USE DEF PinInv
<1>1. TypeOK'
    BY OtherStepTyped
<1>2. CASE (\E u \in Uploads : Timeout(u)) \/ UNCHANGED vars
    <2>1. UNCHANGED <<jobVars, pinned, uploadVars, handlerVars, gcVars>>
        BY <1>2 DEF Timeout, vars
    <2>2. RowHashes' /\ RequestRows' /\ UploadedPinned' /\ FreshJobPinned'
        BY <2>1 DEF jobVars, uploadVars, handlerVars, RowHashes, RequestRows, UploadedPinned,
               FreshJobPinned, TakenAlong, ReleaseDue, Waiting, Gone, Expired
    <2>3. CallJobs' /\ GcRows'
        BY <2>1 DEF jobVars, handlerVars, gcVars, CallJobs, GcRows, Answers, Waiting, Gone,
               Expired, Topic, RoomOf, Listener, MessageHash
    <2>4. QED
        BY <1>1, <2>2, <2>3
<1>3. CASE Tick
    <2>1. UNCHANGED <<jobStatus, jobHash, pinned, uploadVars, handlerVars, gcVars>>
        BY <1>3 DEF Tick, AgeRows
    <2>2. \A v \in Uploads : Expired(v) => Expired(v)'
        BY <1>3, NumbersAssumption DEF Tick, AgeRows, Expired
    <2>3. RowHashes' /\ RequestRows' /\ UploadedPinned' /\ FreshJobPinned'
        <3>1. \A v \in Uploads : TakenAlong(v) => TakenAlong(v)'
            BY <2>1, <2>2, TakenStays DEF handlerVars, Waiting, Gone
        <3>2. QED
            BY <2>1, <2>2, <3>1 DEF uploadVars, RowHashes, RequestRows, UploadedPinned,
                   FreshJobPinned, Waiting, Gone
    <2>4. CallJobs'
        BY <2>1 DEF handlerVars, CallJobs, Answers, Waiting, Gone, Topic, RoomOf, Listener,
               MessageHash
    <2>5. \A f \in Gcs : \A r \in gcJobs[f] : r[1] \in Uploads
        BY DEF TypeOK, GcTypeOK
    <2>6. GcRows'
        BY <2>1, <2>2, <2>5 DEF gcVars, GcRows, Waiting, Gone
    <2>7. QED
        BY <1>1, <2>3, <2>4, <2>6
<1>4. CASE Restart
    <2>1. UNCHANGED <<jobVars, pinned, announced>>
        BY <1>4 DEF Restart, ForgetCalls
    <2>2. /\ req' = [u \in Uploads |-> IF req[u] = "idle" THEN "idle" ELSE "lost"]
          /\ handlerPc' = [k \in Calls |-> "idle"]
          /\ gcPc' = [f \in Gcs |-> "idle"]
          /\ gcJobs' = [f \in Gcs |-> {}]
        BY <1>4 DEF Restart, ForgetRequests, ForgetCalls, ForgetRuns
    <2>3. RowHashes' /\ RequestRows' /\ UploadedPinned' /\ FreshJobPinned'
        BY <2>1, <2>2 DEF jobVars, RowHashes, RequestRows, UploadedPinned, FreshJobPinned,
               TakenAlong, ReleaseDue, Waiting, Gone, Expired
    <2>4. CallJobs' /\ GcRows'
        BY <2>2 DEF CallJobs, GcRows
    <2>5. QED
        BY <1>1, <2>3, <2>4
<1>5. CASE Purge
    <2>1. UNCHANGED <<jobHash, age, pinned, uploadVars, handlerVars, gcVars>>
        BY <1>5 DEF Purge, PurgeJobs
    <2>2. \A v \in Uploads : \/ jobStatus'[v] = jobStatus[v] /\ jobStatus[v] \notin Live
                             \/ jobStatus'[v] = "purged" /\ jobStatus[v] \in Live
        BY <1>5 DEF Purge, PurgeJobs, Rows
    <2>3. \A v \in Uploads : /\ Waiting(v) \/ Gone(v) => Gone(v)'
                             /\ Expired(v) => Expired(v)'
        BY <2>1, <2>2 DEF Waiting, Gone, Live, Expired
    <2>4. RowHashes' /\ RequestRows' /\ UploadedPinned' /\ FreshJobPinned'
        <3>1. \A v \in Uploads : TakenAlong(v) => TakenAlong(v)'
            BY <2>1, <2>3, TakenStays DEF handlerVars
        <3>2. QED
            BY <2>1, <2>2, <3>1 DEF uploadVars, RowHashes, RequestRows, UploadedPinned,
                   FreshJobPinned, Waiting, Gone, Live
    <2>5. CallJobs'
        BY <2>1, <2>3 DEF handlerVars, CallJobs, Answers, Topic, RoomOf, Listener, MessageHash
    <2>6. \A f \in Gcs : \A r \in gcJobs[f] : r[1] \in Uploads
        BY DEF TypeOK, GcTypeOK
    <2>7. GcRows'
        BY <2>1, <2>3, <2>6 DEF gcVars, GcRows
    <2>8. QED
        BY <1>1, <2>4, <2>5, <2>7
<1>6. QED
    BY <1>2, <1>3, <1>4, <1>5

LEMMA NextPinInv ==
    ASSUME PinInv, [Next]_vars
    PROVE  PinInv'
<1>1. ASSUME NEW u \in Uploads, UploadStep(u) PROVE PinInv'
    BY <1>1, UploadStepPinInv
<1>2. ASSUME NEW t \in Offers, NEW p \in Peers, NEW h \in Hashes, Message(t, p, h)
      PROVE  PinInv'
    BY <1>2, MessagePinInv
<1>3. ASSUME NEW k \in Calls, CallStep(k) PROVE PinInv'
    BY <1>3, CallStepPinInv
<1>4. ASSUME NEW g \in Gcs, GcStep(g) PROVE PinInv'
    BY <1>4, GcStepPinInv
<1>5. CASE (\E u \in Uploads : Timeout(u)) \/ Tick \/ Restart \/ Purge \/ UNCHANGED vars
    BY <1>5, OtherStepPinInv
<1>6. QED
    BY <1>1, <1>2, <1>3, <1>4, <1>5 DEF Next, ProcessStep

\* Along every behaviour the file of a job that waits and has not expired is
\* pinned at the daemon, or was taken along with a saved upload of the same
\* hash whose release was due, whatever requests, calls, GC runs, restarts and
\* purges do between its creation and its release.
THEOREM FreshPinned == Spec => []FreshJobPinned
<1>1. PinInv => FreshJobPinned
    BY DEF PinInv
<1>2. QED
    BY <1>1, PinInvInit, NextPinInv, PTL DEF Spec
=============================================================================
