--------------------------- MODULE LifecycleProofs --------------------------
(***************************************************************************)
(* Theorems about the process, its start-up promises, its rooms after a    *)
(* stop and its healthcheck, for any number of uploads, GC runs and        *)
(* requests and for every configuration.                                   *)
(***************************************************************************)
EXTENDS Lifecycle, TLAPS

\* What a promise leaves behind when it is done.
PromisesKept ==
    /\ init["comms"] = "done" /\ config.comms => libp2p # "none"
    /\ init["db"] = "done" => config.migrated
    /\ init["ipfs"] = "done" => config.recent /\ registered

\* appFactory gets past a promise only when it is done.
AwaitedInTurn ==
    /\ boot # "comms" => init["comms"] = "done"
    /\ boot \notin {"comms", "db"} => init["db"] = "done"
    /\ boot \notin Promises => init["ipfs"] = "done"

IntervalsSet ==
    /\ boot \in {"ready", "listening"} /\ stop = "no" => intervals = {"jobs", "clients"}
    /\ stop # "no" => boot = "listening"

\* After stop() has left the rooms, whoever may still enter one is known.
LateKnown ==
    RoomsWereLeft =>
        /\ rooms \subseteq late
        /\ \A u \in Uploads : upload[u] = "running" => u \in late

\* Whoever still waits for the daemon has no answer, and one who got past it
\* without an answer has seen it up.
CheckHistory ==
    \A h \in Checks :
        /\ check[h] \in {"idle", "storage"} => report[h] = 0
        /\ check[h] = "storage" /\ daemon = "up" => seenUp[h]
        /\ check[h] = "db" /\ report[h] = 0 => seenUp[h]
        /\ report[h] = 204 => seenUp[h]

LifeInv ==
    /\ TypeOK
    /\ PromisesKept
    /\ AwaitedInTurn
    /\ IntervalsSet
    /\ LateKnown
    /\ CheckHistory

LEMMA InitLife == Init => LifeInv
<1> SUFFICES ASSUME Init PROVE LifeInv
    OBVIOUS
<1>1. TypeOK
    BY DEF Init, RoutesInit, TypeOK, RoutesTypeOK, Promises, Configs
<1>2. PromisesKept /\ AwaitedInTurn /\ IntervalsSet
    BY DEF Init, PromisesKept, AwaitedInTurn, IntervalsSet, Promises, Configs
<1>3. LateKnown /\ CheckHistory
    BY DEF Init, RoutesInit, LateKnown, RoomsWereLeft, CheckHistory
<1>4. QED
    BY <1>1, <1>2, <1>3 DEF LifeInv

-----------------------------------------------------------------------------
LEMMA StartStep ==
    ASSUME LifeInv, Start
    PROVE  LifeInv'
<1> USE DEF Promises, Exit, Settle, startVars, workVars, routeVars, DaemonStates
<1>1. TypeOK /\ TypeOK'
    <2>1. TypeOK
        BY DEF LifeInv
    <2>2. CASE InitComms \/ InitDb \/ MigrationRequired \/ InitIpfs
        <3>1. UNCHANGED <<config, boot, intervals, stop, workVars, daemon, db, routeVars>>
            BY <2>2 DEF InitComms, InitDb, MigrationRequired, InitIpfs
        <3>2. init' = init \/ \E p \in Promises : init' = [init EXCEPT ![p] = "done"]
            BY <2>2 DEF InitComms, InitDb, MigrationRequired, InitIpfs
        <3>3. init' \in [Promises -> {"pending", "done", "rejected"}]
            BY <2>1, <3>2 DEF TypeOK
        <3>4. /\ process' \in {"up", "exited"}
              /\ libp2p' \in {"none", "up", "stopped"}
              /\ registered' \in BOOLEAN
            BY <2>1, <2>2 DEF InitComms, InitDb, MigrationRequired, InitIpfs, TypeOK
        <3>5. QED
            BY <2>1, <3>1, <3>3, <3>4 DEF TypeOK, RoutesTypeOK
    <2>3. ASSUME NEW p \in Promises, InitFails(p) \/ AwaitInit(p)
          PROVE  TypeOK'
        BY <2>1, <2>3 DEF InitFails, AwaitInit, After, TypeOK, RoutesTypeOK
    <2>4. CASE InitializeFails \/ AddRoutes \/ StartGc \/ StartGcFails \/ Listen \/ PortTaken
        <3>1. UNCHANGED <<config, init, libp2p, registered, stop, workVars, daemon, db, routeVars>>
            BY <2>4 DEF InitializeFails, AddRoutes, StartGc, StartGcFails, Listen, PortTaken
        <3>2. /\ process' \in {"up", "exited"}
              /\ boot' \in Promises \cup {"routes", "gc", "ready", "listening", "rejected"}
              /\ intervals' \in SUBSET {"jobs", "clients"}
            BY <2>1, <2>4 DEF InitializeFails, AddRoutes, StartGc, StartGcFails, Listen,
                              PortTaken, TypeOK
        <3>3. QED
            BY <2>1, <3>1, <3>2 DEF TypeOK, RoutesTypeOK
    <2>5. QED
        BY <2>1, <2>2, <2>3, <2>4 DEF Start
<1>2. UNCHANGED <<config, stop, rooms, late, upload, daemon, check, report, seenUp>>
    BY DEF Start, InitComms, InitDb, MigrationRequired, InitIpfs, InitFails, AwaitInit,
           InitializeFails, AddRoutes, StartGc, StartGcFails, Listen, PortTaken
<1>3. PromisesKept'
    <2>1. CASE InitComms \/ InitDb \/ InitIpfs
        BY <1>1, <2>1 DEF InitComms, InitDb, InitIpfs, LifeInv, PromisesKept, TypeOK
    <2>2. ASSUME NEW p \in Promises, InitFails(p)
          PROVE  PromisesKept'
        BY <1>1, <2>2 DEF InitFails, LifeInv, PromisesKept, TypeOK
    <2>3. CASE UNCHANGED <<init, libp2p, registered>>
        BY <1>2, <2>3 DEF LifeInv, PromisesKept
    <2>4. QED
        BY <2>1, <2>2, <2>3 DEF Start, MigrationRequired, AwaitInit, InitializeFails, AddRoutes,
                                StartGc, StartGcFails, Listen, PortTaken
<1>4. AwaitedInTurn'
    <2>1. CASE InitComms \/ InitDb \/ InitIpfs
        BY <1>1, <2>1 DEF InitComms, InitDb, InitIpfs, LifeInv, AwaitedInTurn, TypeOK
    <2>2. ASSUME NEW p \in Promises, InitFails(p)
          PROVE  AwaitedInTurn'
        BY <1>1, <2>2 DEF InitFails, LifeInv, AwaitedInTurn, TypeOK
    <2>3. ASSUME NEW p \in Promises, AwaitInit(p)
          PROVE  AwaitedInTurn'
        BY <1>1, <2>3 DEF AwaitInit, After, LifeInv, AwaitedInTurn, TypeOK
    <2>4. CASE MigrationRequired \/ InitializeFails \/ PortTaken
        BY <2>4 DEF MigrationRequired, InitializeFails, PortTaken, LifeInv, AwaitedInTurn
    <2>5. CASE AddRoutes \/ StartGc \/ StartGcFails \/ Listen
        BY <2>5 DEF AddRoutes, StartGc, StartGcFails, Listen, LifeInv, AwaitedInTurn
    <2>6. QED
        BY <2>1, <2>2, <2>3, <2>4, <2>5 DEF Start
<1>5. IntervalsSet'
    <2>1. CASE InitComms \/ InitDb \/ InitIpfs \/ MigrationRequired \/ InitializeFails
                 \/ PortTaken \/ (\E p \in Promises : InitFails(p))
        BY <2>1 DEF InitComms, InitDb, InitIpfs, MigrationRequired, InitializeFails, PortTaken,
                    InitFails, LifeInv, IntervalsSet
    <2>2. ASSUME NEW p \in Promises, AwaitInit(p)
          PROVE  IntervalsSet'
        BY <2>2 DEF AwaitInit, After, LifeInv, IntervalsSet
    <2>3. CASE AddRoutes \/ StartGc \/ StartGcFails \/ Listen
        BY <2>3 DEF AddRoutes, StartGc, StartGcFails, Listen, LifeInv, IntervalsSet
    <2>4. QED
        BY <2>1, <2>2, <2>3 DEF Start
<1>6. LateKnown' /\ CheckHistory'
    BY <1>2 DEF LifeInv, LateKnown, RoomsWereLeft, CheckHistory
<1>7. QED
    BY <1>1, <1>3, <1>4, <1>5, <1>6 DEF LifeInv

LEMMA WorkStep ==
    ASSUME LifeInv, Work
    PROVE  LifeInv'
<1> USE DEF startVars, routeVars
<1>1. TypeOK
    BY DEF LifeInv
<1>2. UNCHANGED <<config, process, boot, init, libp2p, registered, intervals, stop,
                  daemon, db, check, report, seenUp, size>>
    BY DEF Work, UploadBegins, UploadEnds, UploadSubscribes, UploadThrows, TimerFires,
           GcBegins, GcEnds, GcLeavesRoom
<1>3. PromisesKept' /\ AwaitedInTurn' /\ IntervalsSet' /\ CheckHistory'
    BY <1>2 DEF LifeInv, PromisesKept, AwaitedInTurn, IntervalsSet, CheckHistory
<1>4. ASSUME NEW u \in Uploads, UploadBegins(u) \/ UploadEnds(u) \/ TimerFires(u)
      PROVE  TypeOK' /\ LateKnown'
    <2>1. CASE UploadBegins(u)
        BY <1>1, <1>2, <2>1
        DEF UploadBegins, TypeOK, RoutesTypeOK, LifeInv, LateKnown, RoomsWereLeft
    <2>2. CASE UploadSubscribes(u)
        BY <1>1, <1>2, <2>2
        DEF UploadSubscribes, TypeOK, RoutesTypeOK, LifeInv, LateKnown, RoomsWereLeft
    <2>3. CASE UploadThrows(u) \/ TimerFires(u)
        BY <1>1, <1>2, <2>3
        DEF UploadThrows, TimerFires, TypeOK, RoutesTypeOK, LifeInv, LateKnown, RoomsWereLeft
    <2>4. QED
        BY <1>4, <2>1, <2>2, <2>3 DEF UploadEnds
<1>5. ASSUME NEW g \in Gcs,
             GcBegins(g) \/ GcEnds(g) \/ \E u \in Uploads : GcLeavesRoom(g, u)
      PROVE  TypeOK' /\ LateKnown'
    BY <1>1, <1>2, <1>5
    DEF GcBegins, GcEnds, GcLeavesRoom, TypeOK, RoutesTypeOK, LifeInv, LateKnown, RoomsWereLeft
<1>6. QED
    BY <1>3, <1>4, <1>5 DEF Work, LifeInv

LEMMA StopStep ==
    ASSUME LifeInv, Stop
    PROVE  LifeInv'
<1> USE DEF startVars, workVars, routeVars, StopGoes
<1>1. TypeOK
    BY DEF LifeInv
<1>2. UNCHANGED <<config, boot, init, registered, upload, daemon, check, report, seenUp>>
    BY DEF Stop, ClearIntervals, LeaveRooms, StopNode, CloseDb, CloseServer
<1>3. TypeOK'
    <2>1. UNCHANGED <<process, runs, timers, size>>
        BY DEF Stop, ClearIntervals, LeaveRooms, StopNode, CloseDb, CloseServer
    <2>2. /\ intervals' \in SUBSET {"jobs", "clients"}
          /\ libp2p' \in {"none", "up", "stopped"}
          /\ db' \in {"open", "closed"}
        BY <1>1 DEF Stop, ClearIntervals, LeaveRooms, StopNode, CloseDb, CloseServer,
                    TypeOK, RoutesTypeOK
    <2>3. /\ rooms' \in SUBSET Uploads /\ late' \in SUBSET Uploads
          /\ stop' \in {"no", "cleared", "left", "stopped", "closed", "down"}
        BY <1>1 DEF Stop, ClearIntervals, LeaveRooms, StopNode, CloseDb, CloseServer, TypeOK
    <2>4. QED
        BY <1>1, <1>2, <2>1, <2>2, <2>3 DEF TypeOK, RoutesTypeOK
<1>4. PromisesKept' /\ AwaitedInTurn' /\ CheckHistory'
    <2>1. libp2p # "none" => libp2p' # "none"
        BY DEF Stop, ClearIntervals, LeaveRooms, StopNode, CloseDb, CloseServer
    <2>2. QED
        BY <1>2, <2>1 DEF LifeInv, PromisesKept, AwaitedInTurn, CheckHistory
<1>5. IntervalsSet'
    BY <1>2 DEF Stop, ClearIntervals, LeaveRooms, StopNode, CloseDb, CloseServer,
                LifeInv, IntervalsSet
<1>6. LateKnown'
    BY <1>1, <1>2 DEF Stop, ClearIntervals, LeaveRooms, StopNode, CloseDb, CloseServer,
                      LifeInv, LateKnown, RoomsWereLeft, TypeOK
<1>7. QED
    BY <1>3, <1>4, <1>5, <1>6 DEF LifeInv

LEMMA AskStep ==
    ASSUME LifeInv, Ask
    PROVE  LifeInv'
<1> USE DEF lifeVars, startVars, workVars
<1>1. RoutesTypeOK
    BY DEF LifeInv, TypeOK
<1>2. UNCHANGED lifeVars
    BY DEF Ask
<1>3. PromisesKept' /\ AwaitedInTurn' /\ IntervalsSet' /\ LateKnown'
    BY <1>2 DEF LifeInv, PromisesKept, AwaitedInTurn, IntervalsSet, LateKnown, RoomsWereLeft
<1>4. ASSUME NEW h \in Checks, CheckBegins(h) \/ CheckStep(h)
      PROVE  RoutesTypeOK' /\ CheckHistory'
    <2>1. CASE CheckBegins(h)
        <3> DEFINE b == daemon = "up"
        <3>1. /\ UNCHANGED <<daemon, db, report, size>>
              /\ check[h] = "idle" /\ check' = [check EXCEPT ![h] = "storage"]
              /\ seenUp' = [seenUp EXCEPT ![h] = b]
            BY <2>1 DEF CheckBegins, CheckGoes
        <3>2. b \in BOOLEAN
            OBVIOUS
        <3>3. daemon = "up" => b
            OBVIOUS
        <3> HIDE DEF b
        <3>4. RoutesTypeOK'
            BY <1>1, <3>1, <3>2 DEF RoutesTypeOK
        <3>5. CheckHistory'
            BY <1>1, <3>1, <3>3 DEF RoutesTypeOK, LifeInv, CheckHistory
        <3>6. QED
            BY <3>4, <3>5
    <2>2. CASE StorageAnswers(h)
        BY <1>1, <2>2 DEF StorageAnswers, CheckGoes, RoutesTypeOK, LifeInv, CheckHistory
    <2>3. CASE StorageRefuses(h)
        BY <1>1, <2>3 DEF StorageRefuses, CheckGoes, RoutesTypeOK, LifeInv, CheckHistory
    <2>4. CASE DbAnswers(h)
        BY <1>1, <2>4 DEF DbAnswers, CheckGoes, RoutesTypeOK, LifeInv, CheckHistory
    <2>5. CASE DbRefuses(h)
        BY <1>1, <2>5 DEF DbRefuses, CheckGoes, RoutesTypeOK, LifeInv, CheckHistory
    <2>6. QED
        BY <1>4, <2>1, <2>2, <2>3, <2>4, <2>5 DEF CheckStep
<1>5. ASSUME NEW s \in SizeRequests,
             SizeBegins(s) \/ StatAnswers(s) \/ StatFails(s) \/ StatTimesOut(s)
      PROVE  RoutesTypeOK' /\ CheckHistory'
    <2>1. PICK to \in {"422", "500", "asked", "200"} :
              /\ size' = [size EXCEPT ![s] = to]
              /\ UNCHANGED <<daemon, db, check, report, seenUp>>
        BY <1>5 DEF SizeBegins, StatAnswers, StatFails, StatTimesOut, SizeGoes, askVars
    <2>2. QED
        BY <1>1, <2>1 DEF RoutesTypeOK, LifeInv, CheckHistory
<1>6. ASSUME DaemonTurns
      PROVE  RoutesTypeOK' /\ CheckHistory'
    <2>1. UNCHANGED <<db, check, report, size>> /\ daemon' \in DaemonStates
        BY <1>6 DEF DaemonTurns
    <2>2. seenUp' \in [Checks -> BOOLEAN]
        BY <1>1, <1>6 DEF DaemonTurns, RoutesTypeOK
    <2>3. \A h \in Checks :
              /\ seenUp[h] => seenUp'[h]
              /\ check[h] = "storage" /\ daemon' = "up" => seenUp'[h]
        BY <1>6 DEF DaemonTurns
    <2>4. QED
        BY <1>1, <2>1, <2>2, <2>3 DEF RoutesTypeOK, LifeInv, CheckHistory
<1>7. RoutesTypeOK' /\ CheckHistory'
    BY <1>4, <1>5, <1>6 DEF Ask, RouteStep
<1>8. TypeOK'
    BY <1>2, <1>7 DEF LifeInv, TypeOK
<1>9. QED
    BY <1>3, <1>7, <1>8 DEF LifeInv

LEMMA LifeInvariant == Spec => []LifeInv
<1>1. LifeInv /\ [Next]_vars => LifeInv'
    <2> SUFFICES ASSUME LifeInv, [Next]_vars PROVE LifeInv'
        OBVIOUS
    <2>1. CASE Next
        BY <2>1, StartStep, WorkStep, StopStep, AskStep DEF Next
    <2>2. CASE UNCHANGED vars
        BY <2>2 DEF vars, startVars, workVars, routeVars, LifeInv, TypeOK, RoutesTypeOK,
                    PromisesKept, AwaitedInTurn, IntervalsSet, LateKnown, RoomsWereLeft,
                    CheckHistory
    <2>3. QED
        BY <2>1, <2>2
<1>2. QED
    BY InitLife, <1>1, PTL DEF Spec

-----------------------------------------------------------------------------
(***************************************************************************)
(* The process and all it keeps stay in their types (appFactory, stop, the *)
(* routes).                                                                *)
(***************************************************************************)
THEOREM LifecycleTyped == Spec => []TypeOK
BY LifeInvariant, PTL DEF LifeInv

(***************************************************************************)
(* In whatever order the promises settle, and for every configuration, the *)
(* server listens only when the schema is migrated, the provider of the    *)
(* required version registered, the node there and the intervals set       *)
(* (appFactory, waitForReadyApp).                                          *)
(***************************************************************************)
THEOREM ReadyBeforeServing == Spec => []ServesOnlyWhenReady
<1>1. LifeInv => ServesOnlyWhenReady
    BY DEF LifeInv, PromisesKept, AwaitedInTurn, IntervalsSet, Promises, ServesOnlyWhenReady
<1>2. QED
    BY LifeInvariant, <1>1, PTL

(***************************************************************************)
(* However many uploads are in flight when stop() leaves the rooms, only   *)
(* those, and the ones begun until the server is closed, enter a room      *)
(* again (stopComms, subscribeForOffer).                                   *)
(***************************************************************************)
THEOREM LateRoomsKnown == Spec => []RoomsAfterStop
<1>1. LifeInv => RoomsAfterStop
    BY DEF LifeInv, LateKnown, RoomsAfterStop
<1>2. QED
    BY LifeInvariant, <1>1, PTL

(***************************************************************************)
(* However the daemon comes and goes, a healthcheck that says healthy ran  *)
(* while it was up (healthcheck).                                          *)
(***************************************************************************)
THEOREM HealthyWasUp == Spec => []HealthyMeansSeenUp
<1>1. LifeInv => HealthyMeansSeenUp
    BY DEF LifeInv, CheckHistory, HealthyMeansSeenUp
<1>2. QED
    BY LifeInvariant, <1>1, PTL
=============================================================================
