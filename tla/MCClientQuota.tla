---------------------------- MODULE MCClientQuota ---------------------------
(***************************************************************************)
(* Small instances of the quota for TLC.                                   *)
(***************************************************************************)
EXTENDS ClientQuota, TLC

RequestSymmetry == Permutations(Requests)
=============================================================================
