----------------------------- MODULE Migrations -----------------------------
(***************************************************************************)
(* The schema, its migration scripts and their log: the db-migration       *)
(* command (--up and --down, with and without --to) and the check that     *)
(* lets the service start.  umzug, the library that reads the log, runs    *)
(* the scripts and keeps the log, is modelled as the command uses it: one  *)
(* script at a time, each followed by its log entry, in two steps.         *)
(*                                                                         *)
(* Commands may overlap (two containers on one database file), but an undo *)
(* is run alone.  A command may stop between any two steps.                *)
(* SQLite's rebuild of a table without a column is one step.               *)
(***************************************************************************)
EXTENDS Naturals, FiniteSets

CONSTANTS
    Runners,    \* commands that may run at the same time
    MaxStops,   \* bound on the commands stopped half-way (model checking only)
    MaxUndos    \* bound on the --down commands of a behaviour (model checking only)

ASSUME MigrationsAssumption ==
    /\ MaxStops \in Nat
    /\ MaxUndos \in Nat

\* The scripts, in the order of the time stamps their names begin with.
UploadJobTable == 1
ContractAddressColumn == 2
UploadClientTable == 3
Scripts == 1 .. 3

NoScript == 0   \* no --to

VARIABLES
    schema,     \* scripts whose table or column is in the database
    log,        \* scripts with an entry in SequelizeMeta
    pc,         \* where each command is
    command,    \* what each command was started with
    target,     \* its --to
    todo,       \* the scripts it has still to handle
    service,    \* whether a service that passed the check is running
    torn,       \* history: scripts undone whose log entry is still there
    stops, undos

dbVars == <<schema, log, torn>>
commandVars == <<pc, command, target, todo>>
vars == <<dbVars, commandVars, service, stops, undos>>

TypeOK ==
    /\ schema \subseteq Scripts
    /\ log \subseteq Scripts
    /\ pc \in [Runners -> {"idle", "look", "plan", "check", "script", "log"}]
    /\ command \in [Runners -> {"up", "down"}]
    /\ target \in [Runners -> Scripts \cup {NoScript}]
    /\ todo \in [Runners -> SUBSET Scripts]
    /\ service \in BOOLEAN
    /\ torn \subseteq Scripts
    /\ stops \in 0 .. MaxStops
    /\ undos \in 0 .. MaxUndos

Init ==
    /\ schema = {}
    /\ log = {}
    /\ pc = [r \in Runners |-> "idle"]
    /\ command = [r \in Runners |-> "up"]
    /\ target = [r \in Runners |-> NoScript]
    /\ todo = [r \in Runners |-> {}]
    /\ service = FALSE
    /\ torn = {}
    /\ stops = 0
    /\ undos = 0

Pending == Scripts \ log

\* What a command finds to do: the pending scripts, or the executed ones.
Candidates(r) == IF command[r] = "up" THEN Pending ELSE log

\* Variant: an undo goes through the scripts in their order as well.
BeforeAlways(r, s, t) == s <= t

\* Scripts are handled in their order, and undone in the reverse order.
Before(r, s, t) == IF command[r] = "up" THEN s <= t ELSE s >= t
Following(r) == CHOOSE s \in todo[r] : \A t \in todo[r] : Before(r, s, t)

Goto(r, from, to) == pc[r] = from /\ pc' = [pc EXCEPT ![r] = to]
Quit(r) == pc' = [pc EXCEPT ![r] = "idle"] /\ todo' = [todo EXCEPT ![r] = {}]
Undoing(r) == pc[r] # "idle" /\ command[r] = "down"

MigrateUp(r, to) ==
    /\ \A q \in Runners : ~Undoing(q)
    /\ Goto(r, "idle", "look")
    /\ command' = [command EXCEPT ![r] = "up"]
    /\ target' = [target EXCEPT ![r] = to]
    /\ UNCHANGED <<dbVars, todo, service, stops, undos>>

MigrateDown(r, to) ==
    /\ undos < MaxUndos
    /\ undos' = undos + 1
    /\ \A q \in Runners : pc[q] = "idle"
    /\ Goto(r, "idle", "look")
    /\ command' = [command EXCEPT ![r] = "down"]
    /\ target' = [target EXCEPT ![r] = to]
    /\ UNCHANGED <<dbVars, todo, service, stops>>

\* pending() or executed(): without any, the command says so and exits.
Look(r) ==
    /\ pc[r] = "look"
    /\ IF Candidates(r) = {}
       THEN Quit(r)
       ELSE pc' = [pc EXCEPT ![r] = "plan"] /\ UNCHANGED todo
    /\ UNCHANGED <<dbVars, command, target, service, stops, undos>>

\* Variant: the command passes on the scripts of --migrations.
PlanNamed(r) ==
    /\ Goto(r, "plan", "check")
    /\ \E S \in SUBSET Candidates(r) : todo' = [todo EXCEPT ![r] = S]
    /\ UNCHANGED <<dbVars, command, target, service, stops, undos>>

\* up(options) and down(options): the candidates as far as --to, which has
\* to be one of them.  The options hold every flag but no `migrations`, so
\* the scripts named on the command line make no difference.
Plan(r) ==
    /\ pc[r] = "plan"
    /\ IF target[r] \in Candidates(r) \cup {NoScript}
       THEN /\ pc' = [pc EXCEPT ![r] = "check"]
            /\ todo' = [todo EXCEPT ![r] =
                 {s \in Candidates(r) : target[r] = NoScript \/ Before(r, s, target[r])}]
       ELSE Quit(r)
    /\ UNCHANGED <<dbVars, command, target, service, stops, undos>>

\* A script another command has logged meanwhile is skipped.
Check(r) ==
    /\ pc[r] = "check"
    /\ IF todo[r] = {}
       THEN Quit(r)
       ELSE IF command[r] = "up" /\ Following(r) \in log
            THEN /\ todo' = [todo EXCEPT ![r] = @ \ {Following(r)}]
                 /\ UNCHANGED pc
            ELSE pc' = [pc EXCEPT ![r] = "script"] /\ UNCHANGED todo
    /\ UNCHANGED <<dbVars, command, target, service, stops, undos>>

\* Variant: the tables are created without IF NOT EXISTS.
UpSucceedsOnce(s) == s \notin schema

\* CREATE TABLE IF NOT EXISTS can be repeated; ADD COLUMN needs the table
\* and fails on a column that is there.
UpSucceeds(s) ==
    s = ContractAddressColumn =>
        UploadJobTable \in schema /\ ContractAddressColumn \notin schema

\* DROP TABLE IF EXISTS can be repeated and takes the column along; removing
\* a column needs the table.
DownSucceeds(s) == s = ContractAddressColumn => UploadJobTable \in schema
Undone(s) == IF s = UploadJobTable THEN {UploadJobTable, ContractAddressColumn} ELSE {s}

RunUp(r) ==
    /\ pc[r] = "script"
    /\ command[r] = "up"
    /\ IF UpSucceeds(Following(r))
       THEN /\ schema' = schema \cup {Following(r)}
            /\ pc' = [pc EXCEPT ![r] = "log"]
            /\ UNCHANGED todo
       ELSE Quit(r) /\ UNCHANGED schema
    /\ UNCHANGED <<log, torn, command, target, service, stops, undos>>

RunDown(r) ==
    /\ pc[r] = "script"
    /\ command[r] = "down"
    /\ IF DownSucceeds(Following(r))
       THEN /\ schema' = schema \ Undone(Following(r))
            /\ torn' = torn \cup (Undone(Following(r)) \cap log)
            /\ pc' = [pc EXCEPT ![r] = "log"]
            /\ UNCHANGED todo
       ELSE Quit(r) /\ UNCHANGED <<schema, torn>>
    /\ UNCHANGED <<log, command, target, service, stops, undos>>

\* The name is the primary key of the log.
LogUp(r) ==
    /\ pc[r] = "log"
    /\ command[r] = "up"
    /\ IF Following(r) \notin log
       THEN /\ log' = log \cup {Following(r)}
            /\ todo' = [todo EXCEPT ![r] = @ \ {Following(r)}]
            /\ pc' = [pc EXCEPT ![r] = "check"]
       ELSE Quit(r) /\ UNCHANGED log
    /\ UNCHANGED <<schema, torn, command, target, service, stops, undos>>

LogDown(r) ==
    /\ Goto(r, "log", "check")
    /\ command[r] = "down"
    /\ log' = log \ {Following(r)}
    /\ torn' = torn \ {Following(r)}
    /\ todo' = [todo EXCEPT ![r] = @ \ {Following(r)}]
    /\ UNCHANGED <<schema, command, target, service, stops, undos>>

\* The command is killed, or a statement fails because the file is locked.
Stop(r) ==
    /\ stops < MaxStops
    /\ stops' = stops + 1
    /\ pc[r] # "idle"
    /\ Quit(r)
    /\ UNCHANGED <<dbVars, command, target, service, undos>>

\* Variant: the check asks for an executed script instead of a pending one.
StartIfExecuted ==
    /\ ~service
    /\ log # {}
    /\ service' = TRUE
    /\ UNCHANGED <<dbVars, commandVars, stops, undos>>

\* migrationCheck: with a script pending the process exits.
Start ==
    /\ ~service
    /\ Pending = {}
    /\ service' = TRUE
    /\ UNCHANGED <<dbVars, commandVars, stops, undos>>

StopService ==
    /\ service
    /\ service' = FALSE
    /\ UNCHANGED <<dbVars, commandVars, stops, undos>>

CommandStep(r) ==
    \/ Look(r)
    \/ Plan(r)
    \/ Check(r)
    \/ RunUp(r)
    \/ RunDown(r)
    \/ LogUp(r)
    \/ LogDown(r)

Next ==
    \/ \E r \in Runners :
         \/ \E to \in Scripts \cup {NoScript} : MigrateUp(r, to) \/ MigrateDown(r, to)
         \/ CommandStep(r)
         \/ Stop(r)
    \/ Start
    \/ StopService

Spec == Init /\ [][Next]_vars

\* A command that runs goes on.  bin/entrypoint runs db-migration --up at each
\* start of the container, hence again and again; operators may run others
\* in between, so this one is not enabled all the time.
FairSpec ==
    /\ Spec
    /\ \A r \in Runners : SF_vars(MigrateUp(r, NoScript)) /\ WF_vars(CommandStep(r))

-----------------------------------------------------------------------------
(***************************************************************************)
(* A service that starts finds the whole schema, but for what an undo took *)
(* away and did not come to log: overlapping commands, commands that stop  *)
(* half-way and scripts that fail never let migrationCheck pass on tables  *)
(* that are not there.                                                     *)
(***************************************************************************)
StartsMigrated == [][~service /\ service' => Scripts \ schema \subseteq torn]_vars

(***************************************************************************)
(* The log has no gaps, so that the pending scripts of the next --up and   *)
(* the executed ones of the next --down are those after, and those before, *)
(* some point (migrate, undo).                                             *)
(***************************************************************************)
LoggedInOrder == \A s \in log : \A t \in Scripts : t < s => t \in log

(***************************************************************************)
(* The migrations implement SchemaVersion: the log, a set of names that    *)
(* overlapping commands read, plan from and write to at different times,   *)
(* behaves as a version that moves by one script (migrate, undo), and the  *)
(* check for pending scripts finds the last one (migrationCheck).          *)
(***************************************************************************)
LoggedVersion == Cardinality({s \in Scripts : \A t \in Scripts : t <= s => t \in log})

Version == INSTANCE SchemaVersion WITH
    Latest <- UploadClientTable,
    version <- LoggedVersion,
    undoing <- \E r \in Runners : Undoing(r),
    running <- service

ImplementsVersion == Version!VersionSpec

\* A command stopped between a script and its log entry, where repeating the
\* script does not help: the column is there but not logged, or something
\* was undone and still is logged.
HalfDone == ContractAddressColumn \in schema \ log \/ torn # {}

(***************************************************************************)
(* Running --up again and again completes the log, whatever stopped before *)
(* or runs beside it, except when a command stopped half-way through the   *)
(* column's script or through an undo: then later --up commands may fail   *)
(* for ever (migrate, bin/entrypoint).                                     *)
(***************************************************************************)
UpCompletes == <>[]HalfDone \/ []<>(log = Scripts)
=============================================================================
