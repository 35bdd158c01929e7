---------------------------- MODULE MCLifecycle -----------------------------
(***************************************************************************)
(* A small instance of the life of the process for TLC.                    *)
(***************************************************************************)
EXTENDS Lifecycle
=============================================================================
