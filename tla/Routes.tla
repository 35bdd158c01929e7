------------------------------- MODULE Routes -------------------------------
(***************************************************************************)
(* The routes that only ask: the healthcheck, which asks the IPFS daemon   *)
(* and then the database, and the file size, which asks the daemon for at  *)
(* most ipfs.sizeFetchTimeout.  The daemon comes and goes as it likes.     *)
(***************************************************************************)
EXTENDS Naturals

CONSTANTS
    Checks,         \* healthcheck requests
    SizeRequests    \* file size requests

VARIABLES
    daemon,     \* the IPFS daemon: it answers, refuses, or takes the call and is silent
    db,         \* the connection to the database
    check,      \* where each healthcheck is
    report,     \* its answer; 0 for none yet
    seenUp,     \* history: the daemon was up at some moment of the check
    size        \* where each size request is, or its answer

routeVars == <<check, report, seenUp, size>>
askVars == <<check, report, seenUp>>

DaemonStates == {"up", "refusing", "silent"}

RoutesTypeOK ==
    /\ daemon \in DaemonStates
    /\ db \in {"open", "closed"}
    /\ check \in [Checks -> {"idle", "storage", "db", "done", "thrown"}]
    /\ report \in [Checks -> {0, 204, 500}]
    /\ seenUp \in [Checks -> BOOLEAN]
    /\ size \in [SizeRequests -> {"idle", "asked", "200", "422", "500"}]

RoutesInit ==
    /\ daemon \in DaemonStates
    /\ db = "open"
    /\ check = [h \in Checks |-> "idle"]
    /\ report = [h \in Checks |-> 0]
    /\ seenUp = [h \in Checks |-> FALSE]
    /\ size = [s \in SizeRequests |-> "idle"]

\* The daemon starts, stops or hangs.
DaemonTurns ==
    /\ daemon' \in DaemonStates \ {daemon}
    /\ seenUp' = [h \in Checks |-> seenUp[h] \/ (check[h] = "storage" /\ daemon' = "up")]
    /\ UNCHANGED <<db, check, report, size>>

-----------------------------------------------------------------------------
CheckGoes(h, from, to) == check[h] = from /\ check' = [check EXCEPT ![h] = to]

CheckBegins(h) ==
    /\ CheckGoes(h, "idle", "storage")
    /\ seenUp' = [seenUp EXCEPT ![h] = (daemon = "up")]
    /\ UNCHANGED <<daemon, db, report, size>>

StorageAnswers(h) ==
    /\ daemon = "up"
    /\ CheckGoes(h, "storage", "db")
    /\ UNCHANGED <<daemon, db, report, seenUp, size>>

\* Variant: storage.version() is not awaited, so nothing is caught.
StorageRefusesUnseen(h) ==
    /\ daemon # "silent"
    /\ CheckGoes(h, "storage", "db")
    /\ UNCHANGED <<daemon, db, report, seenUp, size>>

\* Variant: the handler returns without its answer.
StorageRefusesMute(h) ==
    /\ daemon = "refusing"
    /\ CheckGoes(h, "storage", "done")
    /\ UNCHANGED <<daemon, db, report, seenUp, size>>

\* version() fails; the handler answers, and goes on.
StorageRefuses(h) ==
    /\ daemon = "refusing"
    /\ CheckGoes(h, "storage", "db")
    /\ report' = [report EXCEPT ![h] = 500]
    /\ UNCHANGED <<daemon, db, seenUp, size>>

\* The end() of a response that has ended does nothing.
DbAnswers(h) ==
    /\ db = "open"
    /\ CheckGoes(h, "db", "done")
    /\ report' = [report EXCEPT ![h] = IF @ = 0 THEN 204 ELSE @]
    /\ UNCHANGED <<daemon, db, seenUp, size>>

\* A second send() throws, and nobody handles the rejection.
DbRefuses(h) ==
    /\ db = "closed"
    /\ CheckGoes(h, "db", IF report[h] = 0 THEN "done" ELSE "thrown")
    /\ report' = [report EXCEPT ![h] = 500]
    /\ UNCHANGED <<daemon, db, seenUp, size>>

CheckStep(h) ==
    StorageAnswers(h) \/ StorageRefuses(h) \/ DbAnswers(h) \/ DbRefuses(h)

-----------------------------------------------------------------------------
SizeGoes(s, from, to) ==
    /\ size[s] = from
    /\ size' = [size EXCEPT ![s] = to]
    /\ UNCHANGED <<daemon, db, askVars>>

\* No hash is given, or one of an unknown type, or one to ask the daemon for.
SizeBegins(s) == \E to \in {"422", "500", "asked"} : SizeGoes(s, "idle", to)

StatAnswers(s) == daemon = "up" /\ SizeGoes(s, "asked", "200")
StatFails(s) == daemon # "silent" /\ SizeGoes(s, "asked", "500")

\* Variant: the timeout is not handed to the client.
StatTimesOutIfRefused(s) == daemon = "refusing" /\ SizeGoes(s, "asked", "500")

\* sizeFetchTimeout is over.
StatTimesOut(s) == SizeGoes(s, "asked", "500")

RouteStep ==
    \/ \E h \in Checks : CheckStep(h)
    \/ \E s \in SizeRequests : StatAnswers(s) \/ StatFails(s) \/ StatTimesOut(s)

-----------------------------------------------------------------------------
(***************************************************************************)
(* The healthcheck says healthy only if the daemon was up at some moment   *)
(* of the check, however it came and went (healthcheck).                   *)
(***************************************************************************)
HealthyMeansSeenUp == \A h \in Checks : report[h] = 204 => seenUp[h]

(***************************************************************************)
(* Each healthcheck is answered, whether the daemon answers or refuses and *)
(* whether the database is still open; only a daemon that stays silent can *)
(* hold it up, because version() has no timeout (healthcheck).             *)
(***************************************************************************)
CheckAnswered ==
    <>[](daemon # "silent") =>
        \A h \in Checks : check[h] = "storage" ~> report[h] # 0

(***************************************************************************)
(* Each size request is answered whatever the daemon does (getMetaSize's   *)
(* timeout).                                                               *)
(***************************************************************************)
SizeAnswered == \A s \in SizeRequests : size[s] = "asked" ~> size[s] # "asked"
=============================================================================
