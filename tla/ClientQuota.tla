----------------------------- MODULE ClientQuota ----------------------------
(***************************************************************************)
(* The upload quota of one client address: the upload_client row that the  *)
(* upload handler reads to admit a request, reads again and writes back to *)
(* count it, and that gcClients deletes when the period is over.  Each     *)
(* request slot is used again once its request has ended.                  *)
(***************************************************************************)
EXTENDS Naturals

CONSTANTS
    Requests,       \* requests of the address that may be in flight together
    Limit,          \* uploadLimitPerPeriod
    Period,         \* gc.clients.ttl, in ticks
    MaxUploads,     \* bound on the value a request writes back (model checking only)
    MaxAttempts     \* bound of the history counter (model checking only)

ASSUME QuotaAssumption ==
    /\ Limit \in Nat \ {0}
    /\ Period \in Nat \ {0}
    /\ MaxUploads \in Nat \ {0}
    /\ MaxAttempts \in Nat /\ MaxAttempts > Limit

VARIABLES
    pc,         \* where the handler of each request is
    seen,       \* row.uploads as increaseClientUploadCounter read it; 0 for no row
    uploads,    \* the uploads column; 0 when the address has no row
    rowAge,     \* ticks since the row's createdAt, saturating at Period
    attempts,   \* history: uploads begun since the row was created, saturating
    overlapped  \* history: whether two requests were between the check and the
                \* count together since the row's period began

vars == <<pc, seen, uploads, rowAge, attempts, overlapped>>

Pcs == {"idle", "admitted", "counting", "counted"}

TypeOK ==
    /\ pc \in [Requests -> Pcs]
    /\ seen \in [Requests -> 0 .. MaxUploads]
    /\ uploads \in 0 .. MaxUploads
    /\ rowAge \in 0 .. Period
    /\ attempts \in 0 .. MaxAttempts
    /\ overlapped \in BOOLEAN

Init ==
    /\ pc = [r \in Requests |-> "idle"]
    /\ seen = [r \in Requests |-> 0]
    /\ uploads = 0
    /\ rowAge = 0
    /\ attempts = 0
    /\ overlapped = FALSE

HasRow == uploads > 0
Goto(r, from, to) == pc[r] = from /\ pc' = [pc EXCEPT ![r] = to]
Busy == {r \in Requests : pc[r] \in {"admitted", "counting"}}
AddAttempt(n) == IF n < MaxAttempts THEN n + 1 ELSE n

\* Variant: the comparison with the limit is off by one.
AdmitOneMore(r) ==
    /\ uploads <= Limit
    /\ Goto(r, "idle", "admitted")
    /\ overlapped' = (overlapped \/ Busy # {})
    /\ UNCHANGED <<seen, uploads, rowAge, attempts>>

\* isClientAllowedToUpload answers yes; otherwise the request ends with 400.
Admit(r) ==
    /\ uploads < Limit
    /\ Goto(r, "idle", "admitted")
    /\ overlapped' = (overlapped \/ Busy # {})
    /\ UNCHANGED <<seen, uploads, rowAge, attempts>>

\* No disk space, a file too large, a missing parameter or no file at all:
\* the request is answered before it is counted.
TurnAway(r) ==
    /\ Goto(r, "admitted", "idle")
    /\ UNCHANGED <<seen, uploads, rowAge, attempts, overlapped>>

\* The findOne of increaseClientUploadCounter.
ReadCounter(r) ==
    /\ uploads < MaxUploads
    /\ Goto(r, "admitted", "counting")
    /\ seen' = [seen EXCEPT ![r] = uploads]
    /\ UNCHANGED <<uploads, rowAge, attempts, overlapped>>

CreateClient(r) ==
    /\ seen[r] = 0
    /\ ~HasRow
    /\ Goto(r, "counting", "counted")
    /\ uploads' = 1
    /\ rowAge' = 0
    /\ attempts' = 1
    /\ UNCHANGED <<seen, overlapped>>

\* Another request has created the row: the primary key is violated, and
\* the request ends without an answer.
CreateFails(r) ==
    /\ seen[r] = 0
    /\ HasRow
    /\ Goto(r, "counting", "idle")
    /\ UNCHANGED <<seen, uploads, rowAge, attempts, overlapped>>

\* Variant: the save brings back a row that is gone.
UpsertClient(r) ==
    /\ seen[r] > 0
    /\ Goto(r, "counting", "counted")
    /\ uploads' = seen[r] + 1
    /\ attempts' = IF HasRow THEN AddAttempt(attempts) ELSE 1
    /\ UNCHANGED <<seen, rowAge, overlapped>>

\* client.save() writes the value computed from what was read; the UPDATE
\* matches no row when the row is gone.
SaveClient(r) ==
    /\ seen[r] > 0
    /\ Goto(r, "counting", "counted")
    /\ uploads' = IF HasRow THEN seen[r] + 1 ELSE 0
    /\ attempts' = IF HasRow THEN AddAttempt(attempts) ELSE 0
    /\ UNCHANGED <<seen, rowAge, overlapped>>

\* The upload is over, answered or not.
End(r) ==
    /\ Goto(r, "counted", "idle")
    /\ seen' = [seen EXCEPT ![r] = 0]
    /\ UNCHANGED <<uploads, rowAge, attempts, overlapped>>

\* Variant: blocked clients are kept.
GcKeepsBlocked ==
    /\ HasRow
    /\ uploads < Limit
    /\ rowAge = Period
    /\ uploads' = 0
    /\ attempts' = 0
    /\ rowAge' = 0
    /\ overlapped' = (\E q, r \in Busy : q # r)
    /\ UNCHANGED <<pc, seen>>

\* One DELETE of the rows created at or before now - ttl.
GcClients ==
    /\ HasRow
    /\ rowAge = Period
    /\ uploads' = 0
    /\ attempts' = 0
    /\ rowAge' = 0
    /\ overlapped' = (\E q, r \in Busy : q # r)
    /\ UNCHANGED <<pc, seen>>

Tick ==
    /\ HasRow
    /\ rowAge < Period
    /\ rowAge' = rowAge + 1
    /\ UNCHANGED <<pc, seen, uploads, attempts, overlapped>>

RequestStep(r) ==
    \/ Admit(r)
    \/ TurnAway(r)
    \/ ReadCounter(r)
    \/ CreateClient(r)
    \/ CreateFails(r)
    \/ SaveClient(r)
    \/ End(r)

Next == (\E r \in Requests : RequestStep(r)) \/ GcClients \/ Tick

Spec == Init /\ [][Next]_vars

\* setInterval runs gcClients again and again, and time passes.
FairSpec == Spec /\ WF_vars(GcClients) /\ WF_vars(Tick)

-----------------------------------------------------------------------------
(***************************************************************************)
(* A blocked address is forgiven: its row goes in the end, because the     *)
(* period runs from createdAt and a save does not restart it (gcClients).  *)
(***************************************************************************)
BlockedClientForgiven == uploads >= Limit ~> uploads < Limit

(***************************************************************************)
(* In a period in which the address sent one request at a time, the limit  *)
(* is exact: no more uploads begin than uploadLimitPerPeriod, whatever was *)
(* overlapped in the periods before (isClientAllowedToUpload).             *)
(***************************************************************************)
SequentialQuota == ~overlapped => attempts <= Limit

(***************************************************************************)
(* In such a period the address is charged for each upload of the period   *)
(* and for no other, also when gcClients runs between the read and the     *)
(* write of a count (increaseClientUploadCounter).                         *)
(***************************************************************************)
SequentialCharge == ~overlapped => uploads = attempts

(***************************************************************************)
(* No more uploads begin in a period than the limit allows                 *)
(* (uploadLimitPerPeriod: Count of uploads attempts per period).           *)
(***************************************************************************)
QuotaRespected == attempts <= Limit
=============================================================================
