---------------------------- MODULE UploadService ---------------------------
(***************************************************************************)
(* The service: upload requests, pinned-message calls and GC runs over the *)
(* shared job table, pin set and rooms Map, with the clock, restarts of    *)
(* the process and the purge command.                                      *)
(***************************************************************************)
EXTENDS UploadHandler, PinnedHandler, JobsGc

VARIABLE restarts   \* how often the process was restarted (bounded by MaxRestarts)

vars == <<jobVars, pinned, roomVars, uploadVars, handlerVars, gcVars, restarts>>

TypeOK ==
    /\ JobTypeOK
    /\ PinTypeOK
    /\ RoomTypeOK
    /\ UploadTypeOK
    /\ HandlerTypeOK
    /\ GcTypeOK
    /\ restarts \in 0 .. MaxRestarts

Init ==
    /\ JobInit
    /\ PinInit
    /\ RoomInit
    /\ UploadInit
    /\ HandlerInit
    /\ GcInit
    /\ restarts = 0

UploadStep(u) ==
    /\ \/ Accept(u)
       \/ CreateJob(u)
       \/ AddFiles(u)
       \/ AddFails(u)
       \/ UnlinkStaged(u)
       \/ UnlinkFails(u)
       \/ SaveJob(u)
       \/ SizeFails(u)
       \/ Answer(u)
    /\ UNCHANGED <<handlerVars, gcVars, restarts>>

Message(t, p, h) == Deliver(t, p, h) /\ UNCHANGED <<uploadVars, gcVars, restarts>>

CallStep(k) ==
    /\ \/ FindJob(k)
       \/ FindNothing(k)
       \/ DestroyFound(k)
       \/ CountHash(k)
       \/ UnpinHash(k)
       \/ UnpinFails(k)
       \/ CountOffer(k)
       \/ LeaveIdleRoom(k)
       \/ StopListening(k)
    /\ UNCHANGED <<uploadVars, gcVars, restarts>>

GcStep(g) ==
    /\ \/ GcStart(g)
       \/ GcUnpin(g)
       \/ GcUnpinFails(g)
       \/ GcUnpinNull(g)
       \/ GcDestroy(g)
       \/ GcJobsDone(g)
       \/ GcCount(g)
       \/ GcLeave(g)
       \/ GcDone(g)
    /\ UNCHANGED <<uploadVars, handlerVars, restarts>>

Timeout(u) ==
    /\ TimerFires(u)
    /\ UNCHANGED <<jobVars, pinned, uploadVars, handlerVars, gcVars, restarts>>

Tick ==
    /\ AgeRows
    /\ RunTimers
    /\ UNCHANGED <<pinned, uploadVars, handlerVars, gcVars, restarts>>

\* A crash or a stop, and the next start: the table, the daemon's pins and
\* the staged files outlive the process, nothing else does, and appFactory
\* rebuilds neither rooms nor listeners from the table.
Restart ==
    /\ restarts < MaxRestarts
    /\ restarts' = restarts + 1
    /\ ForgetRooms
    /\ ForgetRequests
    /\ ForgetCalls
    /\ ForgetRuns
    /\ UNCHANGED <<jobVars, pinned>>

\* The purge command, a process of its own on the same database file.
Purge ==
    /\ "purge" \in Faults
    /\ Rows # {}
    /\ PurgeJobs
    /\ UNCHANGED <<pinned, roomVars, uploadVars, handlerVars, gcVars, restarts>>

\* A step of the running process, or of its clock.
ProcessStep ==
    \/ \E u \in Uploads : UploadStep(u) \/ Timeout(u)
    \/ \E t \in Offers, p \in Peers, h \in Hashes : Message(t, p, h)
    \/ \E k \in Calls : CallStep(k)
    \/ \E g \in Gcs : GcStep(g)
    \/ Tick

Next ==
    \/ ProcessStep
    \/ Restart
    \/ Purge

Spec == Init /\ [][Next]_vars
=============================================================================
