--------------------------- MODULE MCUploadHistory --------------------------
(***************************************************************************)
(* The instances of MCUploadService for the service with its history.      *)
(***************************************************************************)
EXTENDS MCUploadService, UploadHistory
=============================================================================
