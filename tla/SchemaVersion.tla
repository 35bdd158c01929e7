---------------------------- MODULE SchemaVersion ---------------------------
(***************************************************************************)
(* What the migration commands promise about a database that several of    *)
(* them work on, without saying how: the database has a version, which     *)
(* moves one script at a time, up while nothing is undone and down only    *)
(* for the undo in progress, and the service starts on the last version.   *)
(***************************************************************************)
EXTENDS Naturals

CONSTANT Latest     \* the version with every script

VARIABLES
    version,    \* as many scripts as have been executed, from the first on
    undoing,    \* whether an undo is in progress
    running     \* whether the service is

versionVars == <<version, undoing, running>>

VersionInit ==
    /\ version = 0
    /\ undoing = FALSE
    /\ running = FALSE

Upgrade ==
    /\ ~undoing
    /\ version < Latest
    /\ version' = version + 1
    /\ UNCHANGED <<undoing, running>>

Downgrade ==
    /\ undoing
    /\ version > 0
    /\ version' = version - 1
    /\ UNCHANGED <<undoing, running>>

BeginUndo ==
    /\ ~undoing
    /\ undoing' = TRUE
    /\ UNCHANGED <<version, running>>

EndUndo ==
    /\ undoing
    /\ undoing' = FALSE
    /\ UNCHANGED <<version, running>>

StartService ==
    /\ ~running
    /\ version = Latest
    /\ running' = TRUE
    /\ UNCHANGED <<version, undoing>>

StopService ==
    /\ running
    /\ running' = FALSE
    /\ UNCHANGED <<version, undoing>>

VersionNext ==
    Upgrade \/ Downgrade \/ BeginUndo \/ EndUndo \/ StartService \/ StopService

VersionSpec == VersionInit /\ [][VersionNext]_versionVars
=============================================================================
