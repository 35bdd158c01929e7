------------------------------ MODULE Lifecycle -----------------------------
(***************************************************************************)
(* The process of the service from its start to its stop: the promises of  *)
(* appFactory, which run together and are awaited in turn, the intervals   *)
(* of the two GCs, the HTTP server, and stop(), which the tests call while *)
(* requests and GC runs may be in flight.  What those do is in             *)
(* UploadService; here only what they keep alive counts.                   *)
(***************************************************************************)
EXTENDS Routes

CONSTANTS
    Uploads,    \* upload requests, each with a room of its own
    Gcs         \* runs of the jobs GC that may overlap

VARIABLES
    config,     \* what the process is started with
    process,    \* whether it runs
    boot,       \* where appFactory is, and the server after it
    init,       \* the start-up promises
    libp2p,     \* the node
    registered, \* ProviderManager has its provider
    intervals,  \* the intervals that are set
    runs,       \* the runs of the jobs GC
    upload,     \* where each upload is
    rooms,      \* the rooms Map
    timers,     \* the listeners' timeouts
    stop,       \* where stop() is
    late        \* history: uploads in flight when stop() left the rooms, or begun since

startVars == <<boot, init, libp2p, registered>>
workVars == <<runs, upload, rooms, timers, late>>
vars == <<config, process, intervals, stop, startVars, workVars, daemon, db, routeVars>>

Promises == {"comms", "db", "ipfs"}

\* jobs, clients: the intervals are valid; migrated: no migration is pending;
\* recent: the daemon has the required version; strict: Node ends a process on
\* an unhandled rejection (from version 15).
Configs == [comms : BOOLEAN, jobs : BOOLEAN, clients : BOOLEAN,
            migrated : BOOLEAN, recent : BOOLEAN, strict : BOOLEAN]

TypeOK ==
    /\ RoutesTypeOK
    /\ config \in Configs
    /\ process \in {"up", "exited"}
    /\ boot \in Promises \cup {"routes", "gc", "ready", "listening", "rejected"}
    /\ init \in [Promises -> {"pending", "done", "rejected"}]
    /\ libp2p \in {"none", "up", "stopped"}
    /\ registered \in BOOLEAN
    /\ intervals \in SUBSET {"jobs", "clients"}
    /\ runs \in SUBSET Gcs
    /\ upload \in [Uploads -> {"none", "running", "over"}]
    /\ rooms \in SUBSET Uploads
    /\ timers \in SUBSET Uploads
    /\ stop \in {"no", "cleared", "left", "stopped", "closed", "down"}
    /\ late \in SUBSET Uploads

\* appFactory up to its first await: every promise is started.
Init ==
    /\ RoutesInit
    /\ config \in Configs
    /\ process = "up"
    /\ boot = "comms"
    /\ init = [p \in Promises |->
                  IF p = "comms" /\ ~config.comms THEN "done" ELSE "pending"]
    /\ libp2p = "none"
    /\ registered = FALSE
    /\ intervals = {}
    /\ runs = {}
    /\ upload = [u \in Uploads |-> "none"]
    /\ rooms = {}
    /\ timers = {}
    /\ stop = "no"
    /\ late = {}

Exit == process' = "exited"
Settle(p, outcome) == init[p] = "pending" /\ init' = [init EXCEPT ![p] = outcome]

-----------------------------------------------------------------------------
InitComms ==
    /\ Settle("comms", "done")
    /\ libp2p' = "up"
    /\ UNCHANGED <<config, process, boot, registered, intervals, stop, workVars, daemon, db, routeVars>>

\* migrationCheck finds nothing pending.
InitDb ==
    /\ config.migrated
    /\ Settle("db", "done")
    /\ UNCHANGED <<config, process, boot, libp2p, registered, intervals, stop, workVars, daemon, db, routeVars>>

\* migrationCheck ends the process itself.
MigrationRequired ==
    /\ ~config.migrated
    /\ init["db"] = "pending"
    /\ Exit
    /\ UNCHANGED <<config, startVars, intervals, stop, workVars, daemon, db, routeVars>>

InitIpfs ==
    /\ daemon = "up"
    /\ config.recent
    /\ Settle("ipfs", "done")
    /\ registered' = TRUE
    /\ UNCHANGED <<config, process, boot, libp2p, intervals, stop, workVars, daemon, db, routeVars>>

\* A promise rejects: no node, no database, or a daemon that refuses or is
\* too old.  If appFactory does not await it yet, nobody handles it.
InitFails(p) ==
    /\ p = "ipfs" => daemon = "refusing" \/ (daemon = "up" /\ ~config.recent)
    /\ Settle(p, "rejected")
    /\ IF boot # p /\ config.strict THEN Exit ELSE UNCHANGED process
    /\ UNCHANGED <<config, boot, libp2p, registered, intervals, stop, workVars, daemon, db, routeVars>>

\* Variant: one more promise, which nobody makes.
AfterThree(p) == CASE p = "comms" -> "db" [] p = "db" -> "ipfs" [] OTHER -> "cache"

After(p) == CASE p = "comms" -> "db" [] p = "db" -> "ipfs" [] OTHER -> "routes"

\* Variant: the last promise is not awaited.
AwaitTwo(p) ==
    /\ boot = p
    /\ init[p] = "done" \/ p = "ipfs"
    /\ boot' = After(p)
    /\ UNCHANGED <<config, process, init, libp2p, registered, intervals, stop, workVars, daemon, db, routeVars>>

\* waitForReadyApp
AwaitInit(p) ==
    /\ boot = p
    /\ init[p] = "done"
    /\ boot' = After(p)
    /\ UNCHANGED <<config, process, init, libp2p, registered, intervals, stop, workVars, daemon, db, routeVars>>

\* Variant: only the folder's failure ends the process.
FolderFails ==
    /\ boot = "routes"
    /\ Exit
    /\ UNCHANGED <<config, startVars, intervals, stop, workVars, daemon, db, routeVars>>

\* errorHandler(..., exitOnError) around uploadService.initialize
InitializeFails ==
    /\ boot = "routes" \/ (boot \in Promises /\ init[boot] = "rejected")
    /\ Exit
    /\ UNCHANGED <<config, startVars, intervals, stop, workVars, daemon, db, routeVars>>

\* The folder is there, the routes are set.
AddRoutes ==
    /\ boot = "routes"
    /\ boot' = "gc"
    /\ UNCHANGED <<config, process, init, libp2p, registered, intervals, stop, workVars, daemon, db, routeVars>>

StartGc ==
    /\ boot = "gc"
    /\ config.jobs /\ config.clients
    /\ boot' = "ready"
    /\ intervals' = {"jobs", "clients"}
    /\ UNCHANGED <<config, process, init, libp2p, registered, stop, workVars, daemon, db, routeVars>>

\* runJobsGc or runClientsGc throws, the second with the first interval set;
\* appFactory rejects, and cli/start does not catch it.
StartGcFails ==
    /\ boot = "gc"
    /\ ~(config.jobs /\ config.clients)
    /\ boot' = "rejected"
    /\ intervals' = IF config.jobs THEN {"jobs"} ELSE {}
    /\ IF config.strict THEN Exit ELSE UNCHANGED process
    /\ UNCHANGED <<config, init, libp2p, registered, stop, workVars, daemon, db, routeVars>>

Listen ==
    /\ boot = "ready"
    /\ boot' = "listening"
    /\ UNCHANGED <<config, process, init, libp2p, registered, intervals, stop, workVars, daemon, db, routeVars>>

\* The port is taken: nobody listens for the server's error event.
PortTaken ==
    /\ boot = "ready"
    /\ Exit
    /\ UNCHANGED <<config, startVars, intervals, stop, workVars, daemon, db, routeVars>>

-----------------------------------------------------------------------------
Serving == boot = "listening" /\ stop # "down"
RoomsWereLeft == stop \in {"left", "stopped", "closed", "down"}

UploadBegins(u) ==
    /\ Serving
    /\ upload[u] = "none"
    /\ upload' = [upload EXCEPT ![u] = "running"]
    /\ late' = IF RoomsWereLeft THEN late \cup {u} ELSE late
    /\ UNCHANGED <<config, process, startVars, intervals, stop, runs, rooms, timers, daemon, db, routeVars>>

\* subscribeForOffer enters the room and sets a timeout, stopped or not.
UploadSubscribes(u) ==
    /\ upload[u] = "running"
    /\ upload' = [upload EXCEPT ![u] = "over"]
    /\ rooms' = IF config.comms THEN rooms \cup {u} ELSE rooms
    /\ timers' = IF config.comms THEN timers \cup {u} ELSE timers
    /\ UNCHANGED <<config, process, startVars, intervals, stop, runs, late, daemon, db, routeVars>>

UploadThrows(u) ==
    /\ upload[u] = "running"
    /\ upload' = [upload EXCEPT ![u] = "over"]
    /\ UNCHANGED <<config, process, startVars, intervals, stop, runs, rooms, timers, late, daemon, db, routeVars>>

TimerFires(u) ==
    /\ u \in timers
    /\ timers' = timers \ {u}
    /\ UNCHANGED <<config, process, startVars, intervals, stop, runs, upload, rooms, late, daemon, db, routeVars>>

\* setInterval, also in a process whose start was rejected.
GcBegins(g) ==
    /\ "jobs" \in intervals
    /\ g \notin runs
    /\ runs' = runs \cup {g}
    /\ UNCHANGED <<config, process, startVars, intervals, stop, upload, rooms, timers, late, daemon, db, routeVars>>

GcLeavesRoom(g, u) ==
    /\ g \in runs
    /\ u \in rooms
    /\ rooms' = rooms \ {u}
    /\ UNCHANGED <<config, process, startVars, intervals, stop, runs, upload, timers, late, daemon, db, routeVars>>

\* The run is through, or the database or the daemon refuses it.
GcEnds(g) ==
    /\ g \in runs
    /\ runs' = runs \ {g}
    /\ UNCHANGED <<config, process, startVars, intervals, stop, upload, rooms, timers, late, daemon, db, routeVars>>

-----------------------------------------------------------------------------
StopGoes(from, to) == stop = from /\ stop' = to

\* Variant: one of the two intervals is forgotten.
ClearClientsInterval ==
    /\ boot = "listening"
    /\ StopGoes("no", "cleared")
    /\ intervals' = intervals \ {"clients"}
    /\ UNCHANGED <<config, process, startVars, workVars, daemon, db, routeVars>>

\* stopGc.stop(), and the stop of the upload service, which does nothing.
ClearIntervals ==
    /\ boot = "listening"
    /\ StopGoes("no", "cleared")
    /\ intervals' = {}
    /\ UNCHANGED <<config, process, startVars, workVars, daemon, db, routeVars>>

\* Variant: the rooms are left to the node.
LeaveNoRooms ==
    /\ StopGoes("cleared", "left")
    /\ late' = {u \in Uploads : upload[u] = "running"}
    /\ UNCHANGED <<config, process, startVars, intervals, runs, upload, rooms, timers, daemon, db, routeVars>>

\* The loop of stopComms; the timeouts stay.
LeaveRooms ==
    /\ StopGoes("cleared", "left")
    /\ rooms' = {}
    /\ late' = {u \in Uploads : upload[u] = "running"}
    /\ UNCHANGED <<config, process, startVars, intervals, runs, upload, timers, daemon, db, routeVars>>

StopNode ==
    /\ StopGoes("left", "stopped")
    /\ libp2p' = IF libp2p = "up" THEN "stopped" ELSE libp2p
    /\ UNCHANGED <<config, process, boot, init, registered, intervals, workVars, daemon, db, routeVars>>

CloseDb ==
    /\ StopGoes("stopped", "closed")
    /\ db' = "closed"
    /\ UNCHANGED <<config, process, startVars, intervals, workVars, daemon, routeVars>>

\* The caller closes the server last.
CloseServer ==
    /\ StopGoes("closed", "down")
    /\ UNCHANGED <<config, process, startVars, intervals, workVars, daemon, db, routeVars>>

-----------------------------------------------------------------------------
Start ==
    \/ InitComms \/ InitDb \/ MigrationRequired \/ InitIpfs
    \/ \E p \in Promises : InitFails(p) \/ AwaitInit(p)
    \/ InitializeFails \/ AddRoutes \/ StartGc \/ StartGcFails \/ Listen \/ PortTaken

UploadEnds(u) == UploadSubscribes(u) \/ UploadThrows(u)

Work ==
    \/ \E u \in Uploads : UploadBegins(u) \/ UploadEnds(u) \/ TimerFires(u)
    \/ \E g \in Gcs : GcBegins(g) \/ GcEnds(g) \/ \E u \in Uploads : GcLeavesRoom(g, u)

Stop == ClearIntervals \/ LeaveRooms \/ StopNode \/ CloseDb \/ CloseServer

lifeVars == <<config, process, intervals, stop, startVars, workVars>>
Ask ==
    /\ \/ Serving /\ \E h \in Checks : CheckBegins(h)
       \/ Serving /\ \E s \in SizeRequests : SizeBegins(s)
       \/ RouteStep
       \/ DaemonTurns
    /\ UNCHANGED lifeVars

Next == process = "up" /\ (Start \/ Work \/ Stop \/ Ask)

Spec == Init /\ [][Next]_vars

Up(action) == process = "up" /\ action

\* libp2p and the database settle, a daemon that is not silent answers, Node
\* runs every continuation, and timers fire.  An upload in flight may wait for
\* add() and a GC run for pin.rm(), which have no timeout: they end only if
\* the daemon is not silent.  Nobody is obliged to send a request or to stop
\* the service.
Fairness ==
    /\ WF_vars(Up(Start))
    /\ WF_vars(Up(LeaveRooms \/ StopNode \/ CloseDb \/ CloseServer))
    /\ \A u \in Uploads :
         /\ WF_vars(Up(daemon # "silent" /\ UploadEnds(u)))
         /\ WF_vars(Up(TimerFires(u)))
    /\ \A g \in Gcs : WF_vars(Up(daemon # "silent" /\ GcEnds(g)))
    /\ \A h \in Checks : WF_vars(Up(CheckStep(h) /\ UNCHANGED lifeVars))
    /\ \A s \in SizeRequests : WF_vars(Up(StatTimesOut(s) /\ UNCHANGED lifeVars))

FairSpec == Spec /\ Fairness

-----------------------------------------------------------------------------
(***************************************************************************)
(* The server takes requests only when all they need is there: the schema, *)
(* a registered provider of the required version, the node if              *)
(* communication is on (it is captured once, by initialize), and, until    *)
(* stop(), both GC intervals; whatever order the promises settle in        *)
(* (appFactory, waitForReadyApp, migrationCheck, bootstrap).               *)
(***************************************************************************)
ServesOnlyWhenReady ==
    boot = "listening" =>
        /\ config.migrated /\ config.recent /\ registered
        /\ config.comms => libp2p # "none"
        /\ stop = "no" => intervals = {"jobs", "clients"}

(***************************************************************************)
(* A start never hangs half-way unless the daemon stays silent: it ends    *)
(* with a server or with the end of the process, whichever promise fails   *)
(* and when.  One case is excepted: a GC interval that is not valid, under *)
(* a Node that outlives an unhandled rejection, for nobody catches the     *)
(* rejection of appFactory in cli/start (errorHandler with exitOnError).   *)
(***************************************************************************)
StartSettles ==
    <>[](daemon # "silent") =>
        <>(\/ boot = "listening"
           \/ process = "exited"
           \/ boot = "rejected" /\ ~config.strict /\ ~(config.jobs /\ config.clients))

(***************************************************************************)
(* After stop() has left the rooms, the only rooms entered are those of    *)
(* uploads that were still in flight then, or begun since, because the     *)
(* server is closed last (stopComms, subscribeForOffer).                   *)
(***************************************************************************)
RoomsAfterStop == RoomsWereLeft => rooms \subseteq late

(***************************************************************************)
(* A stopped service comes to rest unless the daemon stays silent: nothing *)
(* that would keep the process going remains, neither an interval nor a GC *)
(* run, an upload or the timeout of a listener (stop, which ends no run    *)
(* and no upload and clears no timeout of a listener).                     *)
(***************************************************************************)
StoppedRests ==
    <>[](daemon # "silent") =>
        (stop = "down" ~>
            [](/\ intervals = {} /\ runs = {} /\ timers = {}
               /\ \A u \in Uploads : upload[u] # "running"))
=============================================================================
