------------------------- MODULE MCUploadAdmission --------------------------
(***************************************************************************)
(* A small instance of the upload's admission for TLC.                     *)
(***************************************************************************)
EXTENDS UploadAdmission
=============================================================================
