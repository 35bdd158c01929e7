------------------------------ MODULE IpfsPins ------------------------------
(***************************************************************************)
(* The pin set of the IPFS daemon, as the providers use it: add() pins     *)
(* what it stores, pin.rm() unpins, and the "not pinned" error of pin.rm() *)
(* is turned into NotPinnedError, which every caller ignores.  So a call   *)
(* that succeeds or finds nothing pinned has the same effect, and a call   *)
(* that fails may have taken effect or not.                                *)
(***************************************************************************)
EXTENDS UploadParams

VARIABLE pinned     \* hashes pinned at the daemon

PinTypeOK == pinned \subseteq Hashes

PinInit == pinned = {}

Pin(h) == pinned' = pinned \cup {h}
Unpin(h) == pinned' = pinned \ {h}

PinMaybe(h) == pinned' \in {pinned, pinned \cup {h}}
UnpinMaybe(h) == pinned' \in {pinned, pinned \ {h}}
=============================================================================
