-------------------------- MODULE UploadHistoryProofs ------------------------
(***************************************************************************)
(* What the history explains: a waiting job has its listener, and a pin    *)
(* someone to unpin it, but for the causes that the history remembers.     *)
(***************************************************************************)
EXTENDS UploadHistory, UploadCustodyProofs

\* What no step takes back: rows go one way, time and announcements add up.
Onward ==
    /\ announced \subseteq announced'
    /\ \A v \in Uploads :
         /\ Gone(v) => Gone(v)'
         /\ Expired(v) => Expired(v)'
         /\ req[v] = "answered" /\ v \in Rows' => v \in Rows
         /\ req[v] = "answered" /\ Waiting(v)' => Waiting(v)

LEMMA StatusOnward ==
    ASSUME announced \subseteq announced',
           \A v \in Uploads :
              /\ jobStatus'[v] # jobStatus[v] =>
                   jobStatus[v] \in Live /\ jobStatus'[v] \in {"destroyed", "purged"}
              /\ Expired(v) => Expired(v)'
    PROVE  Onward
BY DEF Onward, Gone, Waiting, Rows, Live

LEMMA UploadOnward ==
    ASSUME PinInv, NEW u \in Uploads, UploadStep(u)
    PROVE  Onward
<1> USE DEF PinInv
<1>1. \A v \in Uploads : v # u => jobStatus'[v] = jobStatus[v]
    BY DEF TypeOK, JobTypeOK, UploadStep, Accept, CreateJob, AddFiles, AddFails, UnlinkStaged,
           UnlinkFails, SaveJob, SizeFails, Answer, InsertJob, UpdateJob, jobVars
<1>2. age' = age /\ announced' = announced
    BY DEF UploadStep, handlerVars, Accept, CreateJob, AddFiles, AddFails, UnlinkStaged,
           UnlinkFails, SaveJob, SizeFails, Answer, InsertJob, UpdateJob, jobVars
<1>3. req[u] = "answered" => FALSE
    BY DEF UploadStep, Goto, Accept, CreateJob, AddFiles, AddFails, UnlinkStaged,
           UnlinkFails, SaveJob, SizeFails, Answer
<1>4. Gone(u) => Gone(u)'
    BY DEF RequestRows, Gone, Waiting, Rows, Live, UploadStep, Goto, Accept, CreateJob, AddFiles,
           AddFails, UnlinkStaged, UnlinkFails, SaveJob, SizeFails, Answer, InsertJob, UpdateJob,
           jobVars
<1>5. QED
    BY <1>1, <1>2, <1>3, <1>4 DEF Onward, Gone, Waiting, Expired, Rows, Live

LEMMA CallOnward ==
    ASSUME PinInv, NEW k \in Calls, CallStep(k)
    PROVE  Onward
<1>1. announced' = announced /\ age' = age
    BY DEF CallStep, Move, FindJob, FindNothing, DestroyFound, CountHash, UnpinHash, UnpinFails,
           CountOffer, LeaveIdleRoom, StopListening, DestroyJob, jobVars
<1>2. \A v \in Uploads : jobStatus'[v] # jobStatus[v] =>
         jobStatus[v] \in Live /\ jobStatus'[v] \in {"destroyed", "purged"}
    <2>1. CASE DestroyFound(k)
        BY <2>1 DEF DestroyFound, DestroyJob, Rows, PinInv, TypeOK, JobTypeOK
    <2>2. CASE UNCHANGED jobVars
        BY <2>2 DEF jobVars
    <2>3. QED
        BY <2>1, <2>2 DEF CallStep, FindJob, FindNothing, CountHash, UnpinHash, UnpinFails,
               CountOffer, LeaveIdleRoom, StopListening
<1>3. QED
    BY <1>1, <1>2, StatusOnward DEF Expired

LEMMA GcOnward ==
    ASSUME PinInv, NEW g \in Gcs, GcStep(g)
    PROVE  Onward
<1>1. announced' = announced /\ age' = age
    BY DEF GcStep, handlerVars, GcStart, GcUnpin, GcUnpinFails, GcUnpinNull, GcAbort, GcDestroy,
           GcJobsDone, GcCount, GcLeave, GcDone, DestroyJob, jobVars
<1>2. \A v \in Uploads : jobStatus'[v] # jobStatus[v] =>
         jobStatus[v] \in Live /\ jobStatus'[v] \in {"destroyed", "purged"}
    <2>1. CASE GcDestroy(g)
        BY <2>1 DEF GcDestroy, DestroyJob, Rows, PinInv, TypeOK, JobTypeOK
    <2>2. CASE UNCHANGED jobVars
        BY <2>2 DEF jobVars
    <2>3. QED
        BY <2>1, <2>2 DEF GcStep, GcStart, GcUnpin, GcUnpinFails, GcUnpinNull, GcAbort,
               GcJobsDone, GcCount, GcLeave, GcDone
<1>3. QED
    BY <1>1, <1>2, StatusOnward DEF Expired

LEMMA OtherOnward ==
    ASSUME PinInv,
           \/ \E u \in Uploads : Timeout(u)
           \/ \E t \in Offers, p \in Peers, h \in Hashes : Message(t, p, h)
           \/ Tick
           \/ Restart
           \/ Purge
           \/ UNCHANGED vars
    PROVE  Onward
<1>1. CASE UNCHANGED jobVars
    BY <1>1, StatusOnward DEF jobVars, Expired, Timeout, Message, Deliver, Tick, Restart,
           ForgetCalls, Purge, handlerVars, vars
<1>2. CASE Tick
    <2>1. \A v \in Uploads : Expired(v) => Expired(v)'
        BY <1>2, NumbersAssumption DEF Tick, AgeRows, Expired
    <2>2. QED
        BY <1>2, <2>1, StatusOnward DEF Tick, AgeRows, handlerVars
<1>3. CASE Purge
    BY <1>3, StatusOnward DEF Purge, PurgeJobs, Rows, Expired, handlerVars
<1>4. QED
    BY <1>1, <1>2, <1>3 DEF Timeout, Message, Deliver, Restart, vars

-----------------------------------------------------------------------------
(***************************************************************************)
(* Listeners.  How a step keeps each part of ListenInv.                    *)
(***************************************************************************)
LEMMA Remembered ==
    ASSUME Remember
    PROVE  /\ disturbed \subseteq disturbed'
           /\ refused \subseteq refused'
           /\ \A u \in Uploads : Overlooked(u) \/ Misled(u) => u \in disturbed'
BY DEF Remember

\* A step that changes nothing adds nothing to the history.
LEMMA HistoryStep ==
    ASSUME [HistoryNext]_historyVars
    PROVE  [Next]_vars /\ Remember
<1>1. CASE HistoryNext
    BY <1>1 DEF HistoryNext, Next
<1>2. CASE UNCHANGED historyVars
    <2>1. UNCHANGED vars /\ disturbed' = disturbed /\ refused' = refused
        BY <1>2 DEF historyVars
    <2>2. Rows' = Rows /\ handlerPc' = handlerPc
        BY <2>1 DEF vars, jobVars, handlerVars, Rows
    <2>3. \A u \in Uploads : ~Overlooked(u) /\ ~Misled(u)
        BY <2>2 DEF Overlooked, Misled
    <2>4. \A k \in Calls : ~Refused(k)
        BY <2>2 DEF Refused
    <2>5. QED
        BY <2>1, <2>3, <2>4 DEF Remember
<1>3. QED
    BY <1>1, <1>2

LEMMA LeavesKept ==
    ASSUME LeavesOverlook, Remember,
           \A u \in Rows' : LeavePending(OfferOf[u])' => LeavePending(OfferOf[u])
    PROVE  LeavesOverlook'
<1>1. \A u \in Rows' : u \in Uploads
    BY DEF Rows
<1>2. \A u \in Rows' : LeavePending(OfferOf[u]) /\ u \in Rows => u \in disturbed'
    BY Remembered DEF LeavesOverlook
<1>3. \A u \in Rows' : LeavePending(OfferOf[u]) /\ u \notin Rows => u \in disturbed'
    BY <1>1, Remembered DEF Overlooked
<1>4. QED
    BY <1>2, <1>3 DEF LeavesOverlook

LEMMA SamePending ==
    ASSUME handlerPc' = handlerPc, gcPc' = gcPc, gcTopic' = gcTopic, NEW t
    PROVE  LeavePending(t)' <=> LeavePending(t)
BY DEF LeavePending, Calls, Topic, RoomOf, Listener

LEMMA CallOwnKept ==
    ASSUME NEW k \in Calls, Onward, Remember,
           Listener(k) \in disturbed \/ CallIsOwn(k),
           handlerPc'[k] = handlerPc[k] \/ handlerPc'[k] = "idle"
    PROVE  Listener(k) \in disturbed' \/ CallIsOwn(k)'
<1>1. Listener(k) \in Uploads
    BY DEF Calls, Listener
<1>2. CASE Listener(k) \in disturbed
    BY <1>2, Remembered
<1>3. CASE CallIsOwn(k)
    BY <1>1, <1>3 DEF CallIsOwn, Onward, ForAnother, MessageHash, Listener
<1>4. QED
    BY <1>2, <1>3

LEMMA CallsKept ==
    ASSUME CallsOwn, Onward, Remember, handlerPc' = handlerPc
    PROVE  CallsOwn'
<1>1. \A k \in Calls : Listener(k) \in disturbed' \/ CallIsOwn(k)'
    BY CallOwnKept DEF CallsOwn
<1>2. QED
    BY <1>1 DEF CallsOwn, Calls, Listener

LEMMA TimersKept ==
    ASSUME PinInv, TimersCover, RoomsAnswered, Onward, age' = age,
           listeners' \subseteq listeners,
           \A u \in listeners' : timer'[u] = timer[u]
    PROVE  TimersCover'
<1>1. \A u \in listeners' : u \in Uploads /\ req[u] = "answered"
    BY DEF PinInv, TypeOK, RoomTypeOK, RoomsAnswered
<1>2. QED
    BY <1>1 DEF TimersCover, Onward

LEMMA ListenerKept ==
    ASSUME ListenerLossHasCause, Onward, Remember,
           \A u \in Uploads : req'[u] = "answered" => req[u] = "answered",
           CommsEnabled /\ TTL <= MaxTimeout =>
              \A u \in Uploads :
                 req[u] = "answered" /\ Waiting(u) /\ ~Expired(u) /\ u \in listeners
                     /\ RoomOf(u) \in rooms
                   => (u \in listeners' /\ RoomOf(u) \in rooms') \/ u \in disturbed
    PROVE  ListenerLossHasCause'
<1>1. SUFFICES ASSUME CommsEnabled, TTL <= MaxTimeout, NEW u \in Uploads,
                      req'[u] = "answered", Waiting(u)', ~Expired(u)'
               PROVE  (u \in listeners' /\ RoomOf(u) \in rooms') \/ u \in disturbed'
    BY DEF ListenerLossHasCause, RoomOf
<1>2. req[u] = "answered" /\ Waiting(u) /\ ~Expired(u)
    BY <1>1 DEF Onward
<1>3. (u \in listeners /\ RoomOf(u) \in rooms) \/ u \in disturbed
    BY <1>1, <1>2 DEF ListenerLossHasCause
<1>4. QED
    BY <1>1, <1>2, <1>3, Remembered

LEMMA RoomsKept ==
    ASSUME RoomsAnswered, req' = req, rooms' \subseteq rooms,
           \A u \in listeners' : u \in listeners /\ RoomOf(u) \in rooms',
           \A k \in Calls : handlerPc'[k] # "idle" => handlerPc[k] # "idle"
    PROVE  RoomsAnswered'
BY DEF RoomsAnswered, RoomOf, Calls, Listener

LEMMA ListenInvInit == HistoryInit => ListenInv
<1> SUFFICES ASSUME HistoryInit PROVE ListenInv
    OBVIOUS
<1>1. Init
    BY DEF HistoryInit
<1>2. RoomsAnswered /\ TimersCover
    BY <1>1 DEF Init, RoomInit, HandlerInit, RoomsAnswered, TimersCover
<1>3. CallsOwn
    BY <1>1 DEF Init, HandlerInit, CallsOwn, CallIsOwn
<1>4. LeavesOverlook
    BY <1>1 DEF Init, JobInit, LeavesOverlook, Rows, Live
<1>5. ListenerLossHasCause
    BY <1>1 DEF Init, UploadInit, ListenerLossHasCause
<1>6. QED
    BY <1>1, <1>2, <1>3, <1>4, <1>5, PinInvInit DEF ListenInv

LEMMA UploadStepListenInv ==
    ASSUME ListenInv, Remember, NEW u \in Uploads, UploadStep(u)
    PROVE  ListenInv'
<1> USE DEF ListenInv
<1>1. PinInv' /\ Onward
    BY UploadStepPinInv, UploadOnward
<1>2. handlerPc' = handlerPc /\ announced' = announced /\ gcPc' = gcPc /\ gcTopic' = gcTopic
    BY DEF UploadStep, handlerVars, gcVars
<1>3. CallsOwn' /\ LeavesOverlook'
    BY <1>1, <1>2, CallsKept, LeavesKept, SamePending
<1>4. age' = age
    BY DEF UploadStep, Accept, CreateJob, AddFiles, AddFails, UnlinkStaged, UnlinkFails,
           SaveJob, SizeFails, Answer, InsertJob, UpdateJob, jobVars
<1>5. \A v \in Uploads : req[v] = "answered" => req'[v] = "answered"
    BY DEF PinInv, TypeOK, UploadTypeOK, UploadStep, Goto, Accept, CreateJob, AddFiles, AddFails,
           UnlinkStaged, UnlinkFails, SaveJob, SizeFails, Answer
<1>6. CASE Answer(u) /\ CommsEnabled
    <2>1. /\ rooms' = rooms \cup {OfferOf[u]}
          /\ listeners' = listeners \cup {u}
          /\ timer' = [timer EXCEPT ![u] = TimerDelay]
          /\ req' = [req EXCEPT ![u] = "answered"]
        BY <1>6 DEF Answer, Goto, SubscribeForOffer, RoomOf
    <2>2. req'[u] = "answered"
        BY <2>1 DEF PinInv, TypeOK, UploadTypeOK
    <2>3. RoomsAnswered'
        <3>1. \A t \in rooms' : \E v \in Uploads : OfferOf[v] = t /\ req'[v] = "answered"
            BY <1>5, <2>1, <2>2 DEF RoomsAnswered
        <3>2. \A v \in listeners' : req'[v] = "answered" /\ OfferOf[v] \in rooms'
            BY <1>5, <2>1, <2>2 DEF RoomsAnswered, PinInv, TypeOK, RoomTypeOK, RoomOf
        <3>3. \A k \in Calls : handlerPc'[k] # "idle" => req'[k[1]] = "answered"
            BY <1>2, <1>5 DEF RoomsAnswered, Calls, Listener
        <3>4. QED
            BY <3>1, <3>2, <3>3 DEF RoomsAnswered, RoomOf, Listener
    <2>4. TimersCover'
        <3>1. ASSUME TTL <= MaxTimeout, NEW v \in listeners', v \in Rows'
              PROVE  age'[v] + timer'[v] >= TTL
            <4>1. CASE v = u
                <5>1. timer'[u] = TTL /\ age[u] \in 0 .. TTL
                    BY <2>1, <3>1, NumbersAssumption DEF TimerDelay, PinInv, TypeOK, RoomTypeOK,
                           JobTypeOK
                <5>2. QED
                    BY <1>4, <4>1, <5>1, NumbersAssumption
            <4>2. CASE v # u
                <5>1. v \in listeners /\ v \in Uploads /\ timer'[v] = timer[v]
                    BY <2>1, <4>2 DEF PinInv, TypeOK, RoomTypeOK
                <5>2. v \in Rows
                    BY <1>1, <3>1, <5>1 DEF Onward, RoomsAnswered
                <5>3. QED
                    BY <1>4, <3>1, <5>1, <5>2 DEF TimersCover
            <4>3. QED
                BY <4>1, <4>2
        <3>2. QED
            BY <3>1 DEF TimersCover
    <2>5. ListenerLossHasCause'
        <3>1. SUFFICES ASSUME TTL <= MaxTimeout, NEW v \in Uploads, req'[v] = "answered",
                              Waiting(v)', ~Expired(v)'
                       PROVE  (v \in listeners' /\ OfferOf[v] \in rooms') \/ v \in disturbed'
            BY DEF ListenerLossHasCause, RoomOf
        <3>2. CASE v = u
            BY <2>1, <3>2
        <3>3. CASE v # u
            <4>1. req[v] = "answered" /\ Waiting(v) /\ ~Expired(v)
                BY <1>1, <2>1, <3>1, <3>3 DEF Onward, PinInv, TypeOK, UploadTypeOK
            <4>2. QED
                BY <1>6, <2>1, <3>1, <4>1, Remembered DEF ListenerLossHasCause, RoomOf
        <3>4. QED
            BY <3>2, <3>3
    <2>6. QED
        BY <1>1, <1>3, <2>3, <2>4, <2>5
<1>7. CASE UNCHANGED roomVars /\ (CommsEnabled => req'[u] # "answered")
    <2>1. RoomsAnswered'
        BY <1>2, <1>5, <1>7 DEF RoomsAnswered, roomVars, RoomOf, Listener, Calls, PinInv, TypeOK,
               RoomTypeOK
    <2>2. TimersCover'
        BY <1>1, <1>4, <1>7, TimersKept DEF roomVars
    <2>3. ListenerLossHasCause'
        <3>1. CASE ~CommsEnabled
            BY <3>1 DEF ListenerLossHasCause
        <3>2. CASE CommsEnabled
            <4>1. \A v \in Uploads : req'[v] = "answered" => req[v] = "answered"
                BY <1>7, <3>2 DEF PinInv, TypeOK, UploadTypeOK, UploadStep, Goto, Accept,
                       CreateJob, AddFiles, AddFails, UnlinkStaged, UnlinkFails, SaveJob,
                       SizeFails, Answer
            <4>2. QED
                BY <1>1, <1>7, <4>1, ListenerKept DEF roomVars
        <3>3. QED
            BY <3>1, <3>2 DEF ListenerLossHasCause
    <2>4. QED
        BY <1>1, <1>3, <2>1, <2>2, <2>3
<1>8. QED
    <2>1. CASE Answer(u) /\ ~CommsEnabled
        BY <1>7, <2>1 DEF Answer, SubscribeForOffer
    <2>2. CASE ~Answer(u)
        BY <1>7, <2>2 DEF PinInv, TypeOK, UploadTypeOK, UploadStep, Goto, Accept, CreateJob,
               AddFiles, AddFails, UnlinkStaged, UnlinkFails, SaveJob, SizeFails
    <2>3. QED
        BY <1>6, <2>1, <2>2

LEMMA MessageListenInv ==
    ASSUME ListenInv, Remember, NEW t \in Offers, NEW p \in Peers, NEW h \in Hashes,
           Message(t, p, h)
    PROVE  ListenInv'
<1> USE DEF ListenInv
<1>1. PinInv' /\ Onward
    BY MessagePinInv, OtherOnward
<1>2. UNCHANGED <<jobVars, roomVars, uploadVars, gcVars>>
    BY DEF Message, Deliver
<1>3. \A k \in Calls : handlerPc'[k] = handlerPc[k] \/
                         (/\ Listener(k) \in ListenersOf(t)
                          /\ handlerPc[k] = "idle"
                          /\ handlerPc'[k] = "find")
    <2>1. ASSUME NEW k \in Calls, Listener(k) \in Addressed(t, p), MessageHash(k) = h
          PROVE  Listener(k) \in ListenersOf(t) /\ handlerPc[k] = "idle" /\ handlerPc'[k] = "find"
        <3>1. k = <<Listener(k), h>>
            BY <2>1 DEF Calls, Listener, MessageHash
        <3>2. QED
            BY <2>1, <3>1 DEF Message, Deliver, Addressed
    <2>2. ASSUME NEW k \in Calls, ~(Listener(k) \in Addressed(t, p) /\ MessageHash(k) = h)
          PROVE  handlerPc'[k] = handlerPc[k]
        BY <2>2 DEF Message, Deliver
    <2>3. QED
        BY <2>1, <2>2
<1>4. TimersCover'
    BY <1>1, <1>2, TimersKept DEF roomVars, jobVars
<1>5. LeavesOverlook'
    <2>1. \A s \in Offers : LeavePending(s)' => LeavePending(s)
        BY <1>2, <1>3 DEF LeavePending, gcVars, Topic, RoomOf, Listener
    <2>2. QED
        BY <2>1, LeavesKept, FunctionsAssumption DEF Rows
<1>6. ListenerLossHasCause'
    BY <1>1, <1>2, ListenerKept DEF uploadVars, roomVars
<1>7. RoomsAnswered'
    <2>1. \A k \in Calls : handlerPc'[k] # "idle" => req[k[1]] = "answered"
        BY <1>3 DEF RoomsAnswered, ListenersOf, Listener
    <2>2. QED
        BY <1>2, <2>1 DEF RoomsAnswered, uploadVars, roomVars, RoomOf, Listener
<1>8. CallsOwn'
    <2>1. ASSUME NEW c \in Calls
          PROVE  Listener(c) \in disturbed' \/ CallIsOwn(c)'
        <3>1. CASE handlerPc'[c] = handlerPc[c]
            BY <1>1, <3>1, CallOwnKept DEF CallsOwn
        <3>2. CASE handlerPc[c] = "idle" /\ handlerPc'[c] = "find"
            <4>1. Listener(c) \in Uploads /\ MessageHash(c) \in Hashes
                  /\ c = <<Listener(c), MessageHash(c)>>
                BY DEF Calls, Listener, MessageHash
            <4>2. ForAnother(Listener(c), MessageHash(c)) => Misled(Listener(c))
                BY <3>2, <4>1 DEF Misled
            <4>3. QED
                BY <3>2, <4>1, <4>2, Remembered DEF CallIsOwn, ForAnother, MessageHash, Listener
        <3>3. QED
            BY <1>3, <3>1, <3>2
    <2>2. QED
        BY <2>1 DEF CallsOwn, Listener
<1>9. QED
    BY <1>1, <1>4, <1>5, <1>6, <1>7, <1>8

\* Leaving the room of an offer on a count that overlooks its rows.
LEMMA LeaveKeepsListeners ==
    ASSUME NEW t, LeaveRoom(t), LeavePending(t), LeavesOverlook
    PROVE  /\ rooms' \subseteq rooms
           /\ listeners' \subseteq listeners
           /\ \A u \in Uploads : u \in listeners' => timer'[u] = timer[u]
           /\ \A u \in listeners' : RoomOf(u) \in rooms => RoomOf(u) \in rooms'
           /\ \A u \in Uploads :
                Waiting(u) /\ u \in listeners /\ RoomOf(u) \in rooms
                  => (u \in listeners' /\ RoomOf(u) \in rooms') \/ u \in disturbed
<1>1. \A u \in Uploads : Waiting(u) /\ OfferOf[u] = t => u \in disturbed
    BY DEF LeavesOverlook, Waiting, Rows, Live
<1>2. QED
    BY <1>1 DEF LeaveRoom, ListenersOf, RoomOf

LEMMA CallStepListenInv ==
    ASSUME ListenInv, Remember, NEW k \in Calls, CallStep(k)
    PROVE  ListenInv'
<1> USE DEF ListenInv
<1> DEFINE l == k[1]
<1>0. /\ l \in Uploads /\ k[2] \in Hashes
      /\ Listener(k) = l /\ Topic(k) = OfferOf[l] /\ MessageHash(k) = k[2]
    BY DEF Calls, Listener, Topic, RoomOf, MessageHash
<1>1. PinInv' /\ Onward
    BY CallStepPinInv, CallOnward
<1>2. UNCHANGED <<uploadVars, gcVars>>
    BY DEF CallStep
<1>3. handlerPc[k] # "idle" /\ \A c \in Calls : c # k => handlerPc'[c] = handlerPc[c]
    BY DEF PinInv, TypeOK, HandlerTypeOK, CallStep, Move, FindJob, FindNothing, DestroyFound,
           CountHash, UnpinHash, UnpinFails, CountOffer, LeaveIdleRoom, StopListening
<1>4. req[l] = "answered" /\ (Waiting(l) \/ Gone(l))
    BY <1>0, <1>3 DEF RoomsAnswered, PinInv, RequestRows
<1>5. LeavesOverlook'
    <2>1. handlerPc'[k] = "leave" => RowsOfOffer(OfferOf[l]) = {} /\ Rows' = Rows
        BY <1>0 DEF PinInv, TypeOK, HandlerTypeOK, CallStep, Move, FindJob, FindNothing,
               DestroyFound, CountHash, UnpinHash, UnpinFails, CountOffer, LeaveIdleRoom,
               StopListening, jobVars, Rows
    <2>2. \A u \in Rows' : LeavePending(OfferOf[u])' => LeavePending(OfferOf[u])
        BY <1>0, <1>2, <1>3, <2>1 DEF LeavePending, gcVars, RowsOfOffer, Topic, RoomOf, Listener
    <2>3. QED
        BY <2>2, LeavesKept
<1>6. age' = age
    BY DEF CallStep, FindJob, FindNothing, DestroyFound, CountHash, UnpinHash, UnpinFails,
           CountOffer, LeaveIdleRoom, StopListening, DestroyJob, jobVars
<1>7. l \in disturbed' \/ CallIsOwn(k)'
    <2>1. CASE l \in disturbed
        BY <2>1, Remembered
    <2>2. CASE l \notin disturbed
        <3>1. CallIsOwn(k) /\ ~ForAnother(l, k[2])
            BY <1>0, <1>3, <2>2 DEF CallsOwn, CallIsOwn
        <3>2. CASE DestroyFound(k)
            <4>1. /\ found[k] \in Uploads
                  /\ HashOf[found[k]] = k[2] /\ OfferOf[found[k]] = OfferOf[l]
                BY <1>0, <3>2 DEF PinInv, CallJobs, Answers, DestroyFound, Move
            <4>2. found[k] = l
                BY <1>0, <3>1, <4>1 DEF ForAnother
            <4>3. Gone(l)'
                BY <1>0, <1>4, <3>2, <4>2, DestroyEffect DEF DestroyFound, PinInv
            <4>4. QED
                BY <1>0, <3>1, <4>3 DEF CallIsOwn, ForAnother
        <3>3. CASE FindNothing(k)
            <4>1. Matching(k) = {}
                BY <3>3 DEF FindNothing
            <4>2. k[2] = HashOf[l]
                BY <3>1 DEF ForAnother
            <4>3. Gone(l)
                BY <1>0, <1>4, <4>1, <4>2 DEF Matching, RowsOfHash, RowsOfOffer, Rows, Live,
                       Waiting, PinInv, RowHashes
            <4>4. QED
                BY <1>0, <1>1, <3>1, <4>3 DEF CallIsOwn, ForAnother, Onward
        <3>4. CASE CountHash(k) \/ UnpinHash(k) \/ CountOffer(k)
            <4>1. Gone(l)
                BY <1>0, <3>1, <3>4 DEF CallIsOwn, CountHash, UnpinHash, CountOffer, Move
            <4>2. QED
                BY <1>0, <1>1, <3>1, <4>1 DEF CallIsOwn, ForAnother, Onward
        <3>5. CASE FindJob(k) \/ UnpinFails(k) \/ LeaveIdleRoom(k) \/ StopListening(k)
            <4>1. handlerPc'[k] \in {"destroy", "idle"}
                BY <3>5 DEF FindJob, UnpinFails, LeaveIdleRoom, StopListening, Move, PinInv,
                       TypeOK, HandlerTypeOK
            <4>2. QED
                BY <1>0, <3>1, <4>1 DEF CallIsOwn, ForAnother
        <3>6. QED
            BY <3>2, <3>3, <3>4, <3>5 DEF CallStep
    <2>3. QED
        BY <2>1, <2>2
<1>8. CallsOwn'
    <2>1. ASSUME NEW c \in Calls, c # k
          PROVE  Listener(c) \in disturbed' \/ CallIsOwn(c)'
        BY <1>1, <1>3, <2>1, CallOwnKept DEF CallsOwn
    <2>2. QED
        BY <1>0, <1>7, <2>1 DEF CallsOwn, Listener
\* The rooms and listeners that the step leaves.
<1>9. /\ rooms' \subseteq rooms
      /\ listeners' \subseteq listeners
      /\ \A u \in Uploads : u \in listeners' => timer'[u] = timer[u]
      /\ \A u \in listeners' : RoomOf(u) \in rooms => RoomOf(u) \in rooms'
      /\ \A u \in Uploads :
            Waiting(u) /\ u \in listeners /\ RoomOf(u) \in rooms
              => (u \in listeners' /\ RoomOf(u) \in rooms') \/ u \in disturbed
    <2>1. CASE LeaveIdleRoom(k)
        <3>1. LeaveRoom(OfferOf[l])
            BY <1>0, <2>1 DEF LeaveIdleRoom
        <3>2. LeavePending(OfferOf[l])
            BY <1>0, <2>1 DEF LeavePending, LeaveIdleRoom, Move
        <3>3. QED
            BY <3>1, <3>2, LeaveKeepsListeners
    <2>2. CASE StopListening(k)
        <3>1. rooms' = rooms /\ listeners' = listeners \ {l} /\ timer' = [timer EXCEPT ![l] = 0]
            BY <1>0, <2>2 DEF StopListening, Unsubscribe
        <3>2. l \in disturbed \/ ~Waiting(l)
            BY <1>0, <2>2 DEF CallsOwn, CallIsOwn, StopListening, Move, Gone, Waiting
        <3>3. \A u \in Uploads : u # l => timer'[u] = timer[u]
            BY <3>1 DEF PinInv, TypeOK, RoomTypeOK
        <3>4. QED
            BY <3>1, <3>2, <3>3
    <2>3. CASE UNCHANGED roomVars
        BY <2>3 DEF roomVars
    <2>4. QED
        BY <2>1, <2>2, <2>3 DEF CallStep, FindJob, FindNothing, DestroyFound, CountHash,
               UnpinHash, UnpinFails, CountOffer
<1>10. TimersCover'
    BY <1>1, <1>6, <1>9, TimersKept DEF PinInv, TypeOK, RoomTypeOK
<1>11. ListenerLossHasCause'
    BY <1>1, <1>2, <1>9, ListenerKept DEF uploadVars
<1>12. RoomsAnswered'
    BY <1>2, <1>3, <1>9, RoomsKept DEF uploadVars, RoomsAnswered
<1>13. QED
    BY <1>1, <1>5, <1>8, <1>10, <1>11, <1>12

LEMMA GcStepListenInv ==
    ASSUME ListenInv, Remember, NEW g \in Gcs, GcStep(g)
    PROVE  ListenInv'
<1> USE DEF ListenInv
<1>1. PinInv' /\ Onward
    BY GcStepPinInv, GcOnward
<1>2. UNCHANGED <<uploadVars, handlerVars>>
    BY DEF GcStep
<1>3. CallsOwn'
    BY <1>1, <1>2, CallsKept DEF handlerVars
<1>4. age' = age
    BY DEF GcStep, GcStart, GcUnpin, GcUnpinFails, GcUnpinNull, GcAbort, GcDestroy,
           GcJobsDone, GcCount, GcLeave, GcDone, DestroyJob, jobVars
<1>5. \A f \in Gcs : f # g => gcPc'[f] = gcPc[f] /\ gcTopic'[f] = gcTopic[f]
    BY DEF PinInv, TypeOK, GcTypeOK, GcStep, GcMove, GcStart, GcUnpin, GcUnpinFails, GcUnpinNull,
           GcAbort, GcDestroy, GcJobsDone, GcCount, GcLeave, GcDone
<1>6. gcPc'[g] = "leave" => RowsOfOffer(gcTopic'[g]) = {} /\ Rows' = Rows
    BY DEF PinInv, TypeOK, GcTypeOK, GcStep, GcMove, GcStart, GcUnpin, GcUnpinFails, GcUnpinNull,
           GcAbort, GcDestroy, GcJobsDone, GcCount, GcLeave, GcDone, jobVars, Rows
<1>7. LeavesOverlook'
    <2>1. \A u \in Rows' : LeavePending(OfferOf[u])' => LeavePending(OfferOf[u])
        BY <1>2, <1>5, <1>6 DEF LeavePending, handlerVars, RowsOfOffer, Topic, RoomOf, Listener
    <2>2. QED
        BY <2>1, LeavesKept
<1>8. /\ rooms' \subseteq rooms
      /\ listeners' \subseteq listeners
      /\ \A u \in Uploads : u \in listeners' => timer'[u] = timer[u]
      /\ \A u \in listeners' : RoomOf(u) \in rooms => RoomOf(u) \in rooms'
      /\ \A u \in Uploads :
            Waiting(u) /\ u \in listeners /\ RoomOf(u) \in rooms
              => (u \in listeners' /\ RoomOf(u) \in rooms') \/ u \in disturbed
    <2>1. CASE GcLeave(g)
        <3>1. LeaveRoom(gcTopic[g])
            BY <2>1 DEF GcLeave
        <3>2. LeavePending(gcTopic[g])
            BY <2>1 DEF LeavePending, GcLeave, GcMove
        <3>3. QED
            BY <3>1, <3>2, LeaveKeepsListeners
    <2>2. CASE UNCHANGED <<rooms, listeners, timer>>
        BY <2>2
    <2>3. QED
        BY <2>1, <2>2 DEF GcStep, GcStart, GcUnpin, GcUnpinFails, GcUnpinNull, GcAbort,
               GcDestroy, GcJobsDone, GcCount, GcDone, roomVars
<1>9. TimersCover'
    BY <1>1, <1>4, <1>8, TimersKept DEF PinInv, TypeOK, RoomTypeOK
<1>10. ListenerLossHasCause'
    BY <1>1, <1>2, <1>8, ListenerKept DEF uploadVars
<1>11. RoomsAnswered'
    BY <1>2, <1>8, RoomsKept DEF uploadVars, handlerVars, RoomsAnswered
<1>12. QED
    BY <1>1, <1>3, <1>7, <1>9, <1>10, <1>11

LEMMA OtherStepListenInv ==
    ASSUME ListenInv, Remember,
           (\E u \in Uploads : Timeout(u)) \/ Tick \/ Restart \/ Purge \/ UNCHANGED vars
    PROVE  ListenInv'
<1> USE DEF ListenInv
<1>1. PinInv' /\ Onward
    BY OtherStepPinInv, OtherOnward
<1>2. ASSUME NEW u \in Uploads, Timeout(u) PROVE ListenInv'
    <2>1. UNCHANGED <<jobVars, uploadVars, handlerVars, gcVars>>
        BY <1>2 DEF Timeout
    <2>2. /\ rooms' = rooms
          /\ listeners' = listeners \ {u}
          /\ timer' = [timer EXCEPT ![u] = 0]
          /\ u \in listeners
          /\ timer[u] = 0
        BY <1>2 DEF Timeout, TimerFires, Unsubscribe
    <2>3. TTL <= MaxTimeout /\ Waiting(u) => Expired(u)
        <3>1. TTL <= MaxTimeout /\ Waiting(u) => age[u] + 0 >= TTL
            BY <2>2 DEF TimersCover, Rows, Live, Waiting
        <3>2. age[u] \in 0 .. TTL
            BY DEF PinInv, TypeOK, JobTypeOK
        <3>3. QED
            BY <3>1, <3>2, NumbersAssumption DEF Expired
    <2>4. \A v \in Uploads : v # u => timer'[v] = timer[v]
        BY <2>2 DEF PinInv, TypeOK, RoomTypeOK
    <2>5. CallsOwn' /\ LeavesOverlook'
        BY <1>1, <2>1, CallsKept, LeavesKept, SamePending DEF handlerVars, gcVars
    <2>6. TimersCover'
        BY <1>1, <2>1, <2>2, <2>4, TimersKept DEF jobVars, PinInv, TypeOK, RoomTypeOK
    <2>7. ListenerLossHasCause'
        BY <1>1, <2>1, <2>2, <2>3, ListenerKept DEF uploadVars
    <2>8. RoomsAnswered'
        BY <2>1, <2>2, RoomsKept DEF uploadVars, handlerVars, RoomsAnswered
    <2>9. QED
        BY <1>1, <2>5, <2>6, <2>7, <2>8
<1>3. CASE Tick
    <2>1. UNCHANGED <<jobStatus, rooms, listeners, uploadVars, handlerVars, gcVars>>
        BY <1>3 DEF Tick, AgeRows, RunTimers
    <2>2. CallsOwn' /\ LeavesOverlook'
        BY <1>1, <2>1, CallsKept, LeavesKept, SamePending DEF handlerVars, gcVars
    <2>3. TimersCover'
        <3>1. ASSUME TTL <= MaxTimeout, NEW u \in listeners, u \in Rows
              PROVE  age'[u] + timer'[u] >= TTL
            <4>1. u \in Uploads /\ age[u] \in 0 .. TTL /\ timer[u] \in 0 .. TTL
                BY DEF PinInv, TypeOK, JobTypeOK, RoomTypeOK
            <4>2. age[u] + timer[u] >= TTL
                BY <3>1 DEF TimersCover
            <4>3. /\ age'[u] = IF age[u] < TTL THEN age[u] + 1 ELSE age[u]
                  /\ timer'[u] = IF timer[u] > 0 THEN timer[u] - 1 ELSE 0
                BY <1>3, <3>1, <4>1 DEF Tick, AgeRows, RunTimers
            <4>4. QED
                BY <4>1, <4>2, <4>3, NumbersAssumption
        <3>2. QED
            BY <2>1, <3>1 DEF TimersCover, Rows
    <2>4. ListenerLossHasCause'
        BY <1>1, <2>1, ListenerKept DEF uploadVars
    <2>5. RoomsAnswered'
        BY <2>1, RoomsKept DEF uploadVars, handlerVars, RoomsAnswered
    <2>6. QED
        BY <1>1, <2>2, <2>3, <2>4, <2>5
<1>4. CASE Restart
    <2>1. /\ rooms' = {}
          /\ listeners' = {}
          /\ \A u \in Uploads : req'[u] # "answered"
          /\ \A k \in Calls : handlerPc'[k] = "idle"
          /\ \A g \in Gcs : gcPc'[g] = "idle"
        BY <1>4 DEF Restart, ForgetRooms, ForgetRequests, ForgetCalls, ForgetRuns
    <2>2. RoomsAnswered' /\ TimersCover' /\ ListenerLossHasCause'
        BY <2>1 DEF RoomsAnswered, TimersCover, ListenerLossHasCause
    <2>3. CallsOwn' /\ LeavesOverlook'
        BY <2>1 DEF CallsOwn, CallIsOwn, LeavesOverlook, LeavePending, Listener
    <2>4. QED
        BY <1>1, <2>2, <2>3
<1>5. CASE Purge \/ UNCHANGED vars
    <2>1. UNCHANGED <<age, roomVars, uploadVars, handlerVars, gcVars>>
        BY <1>5 DEF Purge, PurgeJobs, vars, jobVars
    <2>2. CallsOwn' /\ LeavesOverlook'
        BY <1>1, <2>1, CallsKept, LeavesKept, SamePending DEF handlerVars, gcVars
    <2>3. TimersCover'
        BY <1>1, <2>1, TimersKept DEF roomVars
    <2>4. ListenerLossHasCause'
        BY <1>1, <2>1, ListenerKept DEF uploadVars, roomVars
    <2>5. RoomsAnswered'
        BY <2>1, RoomsKept DEF uploadVars, handlerVars, roomVars, RoomsAnswered
    <2>6. QED
        BY <1>1, <2>2, <2>3, <2>4, <2>5
<1>6. QED
    BY <1>2, <1>3, <1>4, <1>5

\* A waiting job of an upload answered since the start keeps its room and its
\* listener until it expires, unless its row was inserted between a count and
\* the leave that relies on it, or a message that may be for another job
\* reached the listener; the ttl being one that setTimeout honours.
THEOREM ListenerLossExplained == HistorySpec => []ListenerLossHasCause
<1>1. ListenInv /\ [HistoryNext]_historyVars => ListenInv'
    <2> SUFFICES ASSUME ListenInv, [HistoryNext]_historyVars
                 PROVE  ListenInv'
        OBVIOUS
    <2>1. [Next]_vars /\ Remember
        BY HistoryStep
    <2>2. ASSUME NEW u \in Uploads, UploadStep(u) PROVE ListenInv'
        BY <2>1, <2>2, UploadStepListenInv
    <2>3. ASSUME NEW t \in Offers, NEW p \in Peers, NEW h \in Hashes, Message(t, p, h)
          PROVE  ListenInv'
        BY <2>1, <2>3, MessageListenInv
    <2>4. ASSUME NEW k \in Calls, CallStep(k) PROVE ListenInv'
        BY <2>1, <2>4, CallStepListenInv
    <2>5. ASSUME NEW g \in Gcs, GcStep(g) PROVE ListenInv'
        BY <2>1, <2>5, GcStepListenInv
    <2>6. CASE (\E u \in Uploads : Timeout(u)) \/ Tick \/ Restart \/ Purge \/ UNCHANGED vars
        BY <2>1, <2>6, OtherStepListenInv
    <2>7. QED
        BY <2>1, <2>2, <2>3, <2>4, <2>5, <2>6 DEF Next, ProcessStep
<1>2. ListenInv => ListenerLossHasCause
    BY DEF ListenInv
<1>3. QED
    BY <1>1, <1>2, ListenInvInit, PTL DEF HistorySpec

-----------------------------------------------------------------------------
(***************************************************************************)
(* Orphans.  How a step keeps DestroyedUnpinned, next to OrphanInv.        *)
(***************************************************************************)

\* What someone still has to unpin, or has failed to, stays explained.
LEMMA DestroyedKept ==
    ASSUME DestroyedUnpinned, Remember,
           \A u \in Uploads :
              SoleHash(u) /\ jobStatus'[u] = "destroyed" /\ HashOf[u] \in pinned'
                => jobStatus[u] = "destroyed" /\ HashOf[u] \in pinned,
           \A u \in Uploads : req[u] = "lost" => req'[u] = "lost",
           \A k \in Calls :
              handlerPc[k] \in {"countHash", "unpin"} => handlerPc'[k] = handlerPc[k]
    PROVE  DestroyedUnpinned'
<1>1. SUFFICES ASSUME NEW u \in Uploads, SoleHash(u), jobStatus'[u] = "destroyed",
                      HashOf[u] \in pinned'
               PROVE  \/ \E k \in Calls :
                           k[2] = HashOf[u] /\ handlerPc'[k] \in {"countHash", "unpin"}
                      \/ HashOf[u] \in refused'
                      \/ req'[u] = "lost"
    BY DEF DestroyedUnpinned, MessageHash, SoleHash
<1>2. \/ \E k \in Calls : k[2] = HashOf[u] /\ handlerPc[k] \in {"countHash", "unpin"}
      \/ HashOf[u] \in refused
      \/ req[u] = "lost"
    BY <1>1 DEF DestroyedUnpinned, MessageHash
<1>3. QED
    BY <1>2, Remembered

LEMMA UploadStepDestroyed ==
    ASSUME OrphanHistoryInv, Remember, NEW u \in Uploads, UploadStep(u)
    PROVE  DestroyedUnpinned'
<1> USE DEF OrphanHistoryInv, OrphanInv, PinInv
<1>1. handlerPc' = handlerPc
    BY DEF UploadStep, handlerVars
<1>2. \A v \in Uploads : req[v] = "lost" => req'[v] = "lost"
    BY DEF TypeOK, UploadTypeOK, UploadStep, Goto, Accept, CreateJob, AddFiles, AddFails,
           UnlinkStaged, UnlinkFails, SaveJob, SizeFails, Answer
<1>3. ASSUME NEW v \in Uploads, SoleHash(v), jobStatus'[v] = "destroyed",
             HashOf[v] \in pinned'
      PROVE  jobStatus[v] = "destroyed" /\ HashOf[v] \in pinned
    <2>1. jobStatus[v] = "destroyed"
        BY <1>3 DEF TypeOK, JobTypeOK, UploadStep, Accept, CreateJob, AddFiles, AddFails,
               UnlinkStaged, UnlinkFails, SaveJob, SizeFails, Answer, InsertJob, UpdateJob, jobVars
    <2>2. CASE AddFiles(u) \/ AddFails(u)
        <3>1. v # u
            BY <2>1, <2>2 DEF RequestRows, AddFiles, AddFails, Goto
        <3>2. HashOf[v] # HashOf[u]
            BY <1>3, <3>1 DEF SoleHash
        <3>3. QED
            BY <1>3, <2>1, <2>2, <3>2 DEF AddFiles, AddFails, Pin, PinMaybe
    <2>3. CASE pinned' = pinned
        BY <1>3, <2>1, <2>3
    <2>4. QED
        BY <2>2, <2>3 DEF UploadStep, Accept, CreateJob, UnlinkStaged, UnlinkFails, SaveJob,
               SizeFails, Answer
<1>4. QED
    BY <1>1, <1>2, <1>3, DestroyedKept

LEMMA CallStepDestroyed ==
    ASSUME OrphanHistoryInv, Remember, NEW k \in Calls, CallStep(k)
    PROVE  DestroyedUnpinned'
<1> USE DEF OrphanHistoryInv, OrphanInv, PinInv
<1>1. req' = req /\ restarts' = restarts
    BY DEF CallStep, uploadVars
<1>2. \A c \in Calls : c # k => handlerPc'[c] = handlerPc[c]
    BY DEF TypeOK, HandlerTypeOK, CallStep, Move, FindJob, FindNothing, DestroyFound,
           CountHash, UnpinHash, UnpinFails, CountOffer, LeaveIdleRoom, StopListening
<1>3. pinned' \subseteq pinned
    BY DEF CallStep, FindJob, FindNothing, DestroyFound, CountHash, UnpinHash, UnpinFails,
           CountOffer, LeaveIdleRoom, StopListening, Unpin, UnpinMaybe
<1>4. SUFFICES ASSUME NEW u \in Uploads, SoleHash(u), jobStatus'[u] = "destroyed",
                      HashOf[u] \in pinned'
               PROVE  \/ \E c \in Calls :
                           c[2] = HashOf[u] /\ handlerPc'[c] \in {"countHash", "unpin"}
                      \/ HashOf[u] \in refused'
                      \/ req[u] = "lost"
    BY <1>1 DEF DestroyedUnpinned, MessageHash, SoleHash
<1>5. CASE jobStatus[u] = "destroyed"
    <2>1. CASE HashOf[u] \in refused \/ req[u] = "lost"
        BY <2>1, Remembered
    <2>2. CASE \E c \in Calls : c[2] = HashOf[u] /\ handlerPc[c] \in {"countHash", "unpin"}
        <3>1. PICK c \in Calls : c[2] = HashOf[u] /\ handlerPc[c] \in {"countHash", "unpin"}
            BY <2>2
        <3>2. CASE c # k
            BY <1>2, <3>1, <3>2
        <3>3. CASE c = k /\ handlerPc[k] = "countHash"
            <4>1. RowsOfHash(HashOf[u]) = {}
                <5>1. ASSUME NEW r \in Rows PROVE jobHash[r] # HashOf[u]
                    <6>1. r \in Uploads /\ r # u
                        BY <1>5, <5>1 DEF Rows, Live
                    <6>2. HashOf[r] # HashOf[u] /\ NoHash # HashOf[u]
                        BY <1>4, <6>1, FunctionsAssumption, NullsAssumption DEF SoleHash
                    <6>3. QED
                        BY <6>1, <6>2 DEF RowHashes
                <5>2. QED
                    BY <5>1 DEF RowsOfHash
            <4>2. CountHash(k)
                BY <3>3 DEF CallStep, Move, FindJob, FindNothing, DestroyFound, UnpinHash,
                       UnpinFails, CountOffer, LeaveIdleRoom, StopListening
            <4>3. handlerPc'[k] = "unpin"
                BY <3>1, <3>3, <4>1, <4>2 DEF CountHash, Move, MessageHash, TypeOK, HandlerTypeOK
            <4>4. QED
                BY <3>1, <3>3, <4>3
        <3>4. CASE c = k /\ handlerPc[k] = "unpin"
            <4>1. CASE UnpinHash(k)
                BY <1>4, <3>1, <3>4, <4>1 DEF UnpinHash, Unpin, MessageHash
            <4>2. CASE UnpinFails(k)
                <5>1. Refused(k)
                    BY <1>1, <3>4, <4>2 DEF Refused, UnpinFails, Move, TypeOK, HandlerTypeOK
                <5>2. HashOf[u] \in refused'
                    BY <3>1, <3>4, <5>1 DEF Remember, MessageHash
                <5>3. QED
                    BY <5>2
            <4>3. QED
                BY <3>4, <4>1, <4>2 DEF CallStep, Move, FindJob, FindNothing, DestroyFound,
                       CountHash, CountOffer, LeaveIdleRoom, StopListening
        <3>5. QED
            BY <3>1, <3>2, <3>3, <3>4
    <2>3. QED
        BY <1>3, <1>4, <1>5, <2>1, <2>2 DEF DestroyedUnpinned, MessageHash
<1>6. CASE jobStatus[u] # "destroyed"
    <2>1. DestroyFound(k)
        BY <1>4, <1>6 DEF CallStep, FindJob, FindNothing, CountHash, UnpinHash, UnpinFails,
               CountOffer, LeaveIdleRoom, StopListening, jobVars
    <2>2. u = found[k] /\ handlerPc[k] = "destroy" /\ handlerPc'[k] = "countHash"
        BY <1>4, <1>6, <2>1 DEF DestroyFound, DestroyJob, Move, TypeOK, JobTypeOK, HandlerTypeOK
    <2>3. k[2] = HashOf[u]
        BY <2>2 DEF CallJobs, Answers, MessageHash
    <2>4. QED
        BY <2>2, <2>3
<1>7. QED
    BY <1>5, <1>6

LEMMA GcStepDestroyed ==
    ASSUME OrphanHistoryInv, Remember, NEW g \in Gcs, GcStep(g)
    PROVE  DestroyedUnpinned'
<1> USE DEF OrphanHistoryInv, OrphanInv, PinInv
<1>1. req' = req /\ handlerPc' = handlerPc
    BY DEF GcStep, uploadVars, handlerVars
<1>2. pinned' \subseteq pinned
    BY DEF GcStep, GcStart, GcUnpin, GcUnpinFails, GcUnpinNull, GcAbort, GcDestroy, GcJobsDone,
           GcCount, GcLeave, GcDone, Unpin, UnpinMaybe
<1>3. ASSUME NEW u \in Uploads, SoleHash(u), jobStatus'[u] = "destroyed",
             HashOf[u] \in pinned'
      PROVE  jobStatus[u] = "destroyed"
    <2>1. CASE GcDestroy(g)
        <3>1. u = gcJob[g] => jobStatus[u] = "purged"
            BY <1>2, <1>3, <2>1 DEF GcUnpinned, GcDestroy, GcMove
        <3>2. QED
            BY <1>3, <2>1, <3>1 DEF GcDestroy, DestroyJob, TypeOK, JobTypeOK, Rows, Live
    <2>2. CASE UNCHANGED jobVars
        BY <1>3, <2>2 DEF jobVars
    <2>3. QED
        BY <2>1, <2>2 DEF GcStep, GcStart, GcUnpin, GcUnpinFails, GcUnpinNull, GcAbort,
               GcJobsDone, GcCount, GcLeave, GcDone
<1>4. QED
    BY <1>1, <1>2, <1>3, DestroyedKept

LEMMA OtherStepDestroyed ==
    ASSUME OrphanHistoryInv, Remember,
           \/ \E u \in Uploads : Timeout(u)
           \/ \E t \in Offers, p \in Peers, h \in Hashes : Message(t, p, h)
           \/ Tick
           \/ Restart
           \/ Purge
           \/ UNCHANGED vars
    PROVE  DestroyedUnpinned'
<1> USE DEF OrphanHistoryInv, OrphanInv, PinInv
<1>1. CASE Restart
    <2>1. \A u \in Uploads : jobStatus[u] = "destroyed" => req'[u] = "lost"
        BY <1>1 DEF Restart, ForgetRequests, RequestRows
    <2>2. jobStatus' = jobStatus
        BY <1>1 DEF Restart, jobVars
    <2>3. QED
        BY <2>1, <2>2 DEF DestroyedUnpinned
<1>2. CASE \E t \in Offers, p \in Peers, h \in Hashes : Message(t, p, h)
    <2>1. PICK t \in Offers, p \in Peers, h \in Hashes : Message(t, p, h)
        BY <1>2
    <2>2. UNCHANGED <<jobVars, pinned, uploadVars>>
        BY <2>1 DEF Message, Deliver
    <2>3. ASSUME NEW k \in Calls, handlerPc[k] \in {"countHash", "unpin"}
          PROVE  handlerPc'[k] = handlerPc[k]
        <3>1. ~(Listener(k) \in Addressed(t, p) /\ MessageHash(k) = h)
            BY <2>1, <2>3 DEF Message, Deliver, Calls, Listener, MessageHash
        <3>2. QED
            BY <2>1, <3>1 DEF Message, Deliver
    <2>4. QED
        BY <2>2, <2>3, DestroyedKept DEF jobVars, uploadVars
<1>3. CASE (\E u \in Uploads : Timeout(u)) \/ Tick \/ UNCHANGED vars
    <2>1. UNCHANGED <<jobStatus, pinned, uploadVars, handlerVars>>
        BY <1>3 DEF Timeout, Tick, AgeRows, vars, jobVars
    <2>2. QED
        BY <2>1, DestroyedKept DEF uploadVars, handlerVars
<1>4. CASE Purge
    <2>1. UNCHANGED <<pinned, uploadVars, handlerVars>>
        BY <1>4 DEF Purge
    <2>2. \A u \in Uploads : jobStatus'[u] = "destroyed" => jobStatus[u] = "destroyed"
        BY <1>4 DEF Purge, PurgeJobs
    <2>3. QED
        BY <2>1, <2>2, DestroyedKept DEF uploadVars, handlerVars
<1>5. QED
    BY <1>1, <1>2, <1>3, <1>4

\* Whatever fails, restarts or is purged: a file with a hash of its own stays
\* pinned without anyone to unpin it only if it was purged, cut off between
\* add and save, or left by a call whose unpin failed or was cut off.
THEOREM OrphansExplained == HistorySpec => []OrphanHasCause
<1>1. HistoryInit => OrphanHistoryInv
    BY OrphanInvInit DEF HistoryInit, OrphanHistoryInv, DestroyedUnpinned, Init, JobInit
<1>2. OrphanHistoryInv /\ [HistoryNext]_historyVars => OrphanHistoryInv'
    <2> SUFFICES ASSUME OrphanHistoryInv, [HistoryNext]_historyVars
                 PROVE  OrphanHistoryInv'
        OBVIOUS
    <2>1. [Next]_vars /\ Remember
        BY HistoryStep
    <2>2. OrphanInv'
        BY <2>1, NextOrphanInv DEF OrphanHistoryInv
    <2>3. ASSUME NEW u \in Uploads, UploadStep(u) PROVE DestroyedUnpinned'
        BY <2>1, <2>3, UploadStepDestroyed
    <2>4. ASSUME NEW k \in Calls, CallStep(k) PROVE DestroyedUnpinned'
        BY <2>1, <2>4, CallStepDestroyed
    <2>5. ASSUME NEW g \in Gcs, GcStep(g) PROVE DestroyedUnpinned'
        BY <2>1, <2>5, GcStepDestroyed
    <2>6. QED
        BY <2>1, <2>2, <2>3, <2>4, <2>5, OtherStepDestroyed DEF Next, ProcessStep, OrphanHistoryInv
<1>3. OrphanHistoryInv => OrphanHasCause
    <2> SUFFICES ASSUME OrphanHistoryInv, NEW u \in Uploads, SoleHash(u), HashOf[u] \in pinned
                 PROVE  Kept(HashOf[u]) \/ OrphanedBy(u)
        BY DEF OrphanHasCause
    <2>1. PinExplained(u) /\ RowHashes
        BY DEF OrphanHistoryInv, OrphanInv, PinsExplained, PinInv
    <2>2. CASE ~OrphanCause(u)
        BY <2>1, <2>2, ExplainedKept
    <2>3. CASE OrphanCause(u)
        BY <2>3 DEF OrphanCause, OrphanedBy, OrphanHistoryInv, DestroyedUnpinned, Kept
    <2>4. QED
        BY <2>2, <2>3
<1>4. QED
    BY <1>1, <1>2, <1>3, PTL DEF HistorySpec
=============================================================================
