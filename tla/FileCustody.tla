----------------------------- MODULE FileCustody ----------------------------
(***************************************************************************)
(* What the service promises about the uploaded files, without saying how: *)
(* once a file is recorded as waiting, its content stays stored until the  *)
(* release of a file with that content is due, because the time of that    *)
(* file is up or because a peer has announced on the offer's room that it  *)
(* keeps it itself.  Content may be dropped, and a held file released,     *)
(* only then.  So a file that has its content to itself keeps it until its *)
(* own release is due, and one that shares it may lose it with the other.  *)
(* An operator who purges the records gives the promise up for all.        *)
(***************************************************************************)
CONSTANTS
    Files,
    ContentOf   \* what each file consists of; files may be equal in content

VARIABLES
    custody,    \* "none", "accepted", "held", "released" or "purged"
    stored,     \* the contents that are kept
    due         \* files whose release is due

custodyVars == <<custody, stored, due>>

CustodyInit ==
    /\ custody = [f \in Files |-> "none"]
    /\ stored = {}
    /\ due = {}

AcceptFile(f) ==
    /\ custody[f] = "none"
    /\ custody' = [custody EXCEPT ![f] = "accepted"]
    /\ UNCHANGED <<stored, due>>

StoreFile(f) ==
    /\ stored' = stored \cup {ContentOf[f]}
    /\ UNCHANGED <<custody, due>>
    /\ custody[f] \in {"accepted", "purged"}

\* The content of a file has left with another file that had the same.
Droppable(f) == f \in due /\ custody[f] \in {"held", "released", "purged"}
TakenAlong(f) == \E g \in Files \ {f} : ContentOf[g] = ContentOf[f] /\ Droppable(g)

HoldFile(f) ==
    /\ custody[f] = "accepted"
    /\ ContentOf[f] \in stored \/ TakenAlong(f)
    /\ custody' = [custody EXCEPT ![f] = "held"]
    /\ UNCHANGED <<stored, due>>

\* Time passes, or an announcement arrives, for some of the files.
BecomeDue ==
    /\ \E S \in SUBSET Files : due' = due \cup S
    /\ UNCHANGED <<custody, stored>>

DropContent(f) ==
    /\ Droppable(f)
    /\ stored' = stored \ {ContentOf[f]}
    /\ UNCHANGED <<custody, due>>

ReleaseFile(f) ==
    /\ custody[f] = "held"
    /\ f \in due
    /\ custody' = [custody EXCEPT ![f] = "released"]
    /\ UNCHANGED <<stored, due>>

PurgeRecords ==
    /\ custody' = [f \in Files |->
           IF custody[f] \in {"accepted", "held"} THEN "purged" ELSE custody[f]]
    /\ UNCHANGED <<stored, due>>

CustodyNext ==
    \/ \E f \in Files :
         AcceptFile(f) \/ StoreFile(f) \/ HoldFile(f) \/ DropContent(f) \/ ReleaseFile(f)
    \/ BecomeDue
    \/ PurgeRecords

CustodySpec == CustodyInit /\ [][CustodyNext]_custodyVars
=============================================================================
