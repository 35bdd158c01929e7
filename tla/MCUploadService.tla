--------------------------- MODULE MCUploadService --------------------------
(***************************************************************************)
(* Small instances of the service for TLC.                                 *)
(***************************************************************************)
EXTENDS UploadInvariants, TLC

CONSTANTS u1, u2, o1, p1, h1, h2

\* One request, or two for the same offer and pinner.
Alone == u1 :> o1
OneOffer == (u1 :> o1) @@ (u2 :> o1)

AlonePeer == u1 :> p1
OnePeer == (u1 :> p1) @@ (u2 :> p1)

\* One content, two different ones, and twice the same.
AloneHash == u1 :> h1
OwnHashes == (u1 :> h1) @@ (u2 :> h2)
OneHash == (u1 :> h1) @@ (u2 :> h1)

\* The uploads and what belongs to them differ in their names only.
SwapUploads == (u1 :> u2) @@ (u2 :> u1) @@ (h1 :> h2) @@ (h2 :> h1)
OneOfferSymmetry == {SwapUploads}
=============================================================================
