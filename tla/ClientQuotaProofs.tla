-------------------------- MODULE ClientQuotaProofs -------------------------
(***************************************************************************)
(* Theorems about the quota of one address, for any number of requests,    *)
(* any limit and any period.                                               *)
(***************************************************************************)
EXTENDS ClientQuota, TLAPS

\* A count that is about to be written leaves room for one more.
CountsBounded == \A r \in Requests : pc[r] = "counting" => seen[r] < MaxUploads

\* What an address that sends one request at a time may rely on: its request
\* was admitted below the limit, and what it read is what the row still holds,
\* unless gcClients has deleted the row since.
Sequential ==
    /\ \A q, r \in Busy : q = r
    /\ uploads = attempts
    /\ uploads <= Limit
    /\ \A r \in Busy : uploads < Limit
    /\ \A r \in Requests : pc[r] = "counting" => seen[r] = uploads \/ uploads = 0

QuotaInv ==
    /\ TypeOK
    /\ CountsBounded
    /\ ~overlapped => Sequential

LEMMA InitQuota == Init => QuotaInv
<1> SUFFICES ASSUME Init PROVE QuotaInv
    OBVIOUS
<1>1. TypeOK
    <2>1. 0 \in 0 .. MaxUploads /\ 0 \in 0 .. Period /\ 0 \in 0 .. MaxAttempts
        BY QuotaAssumption
    <2>2. QED
        BY <2>1 DEF Init, TypeOK, Pcs
<1>2. CountsBounded
    BY DEF Init, CountsBounded
<1>3. Sequential
    BY QuotaAssumption DEF Init, Sequential, Busy
<1>4. QED
    BY <1>1, <1>2, <1>3 DEF QuotaInv

LEMMA TypeStep == TypeOK /\ CountsBounded /\ [Next]_vars => TypeOK' /\ CountsBounded'
<1> SUFFICES ASSUME TypeOK, CountsBounded, [Next]_vars
             PROVE  TypeOK' /\ CountsBounded'
    OBVIOUS
<1> USE QuotaAssumption DEF TypeOK, CountsBounded, Pcs, HasRow, Goto
<1>1. ASSUME NEW r \in Requests, RequestStep(r)
      PROVE  TypeOK' /\ CountsBounded'
    <2>1. CASE Admit(r)
        BY <2>1 DEF Admit
    <2>2. CASE TurnAway(r)
        BY <2>2 DEF TurnAway
    <2>3. CASE ReadCounter(r)
        BY <2>3 DEF ReadCounter
    <2>4. CASE CreateClient(r)
        BY <2>4 DEF CreateClient
    <2>5. CASE CreateFails(r)
        BY <2>5 DEF CreateFails
    <2>6. CASE SaveClient(r)
        <3>1. uploads' \in 0 .. MaxUploads
            BY <2>6 DEF SaveClient
        <3>2. attempts' \in 0 .. MaxAttempts
            BY <2>6 DEF SaveClient, AddAttempt
        <3>3. QED
            BY <2>6, <3>1, <3>2 DEF SaveClient
    <2>7. CASE End(r)
        BY <2>7 DEF End
    <2>8. QED
        BY <1>1, <2>1, <2>2, <2>3, <2>4, <2>5, <2>6, <2>7 DEF RequestStep
<1>2. CASE GcClients
    BY <1>2 DEF GcClients
<1>3. CASE Tick
    BY <1>3 DEF Tick
<1>4. CASE UNCHANGED vars
    BY <1>4 DEF vars
<1>5. QED
    BY <1>1, <1>2, <1>3, <1>4 DEF Next

\* Once a request has begun beside another, overlapped holds until the period
\* ends; so a step into ~overlapped starts in it, or is the end of a period.
LEMMA SequentialStep ==
    QuotaInv /\ [Next]_vars /\ ~overlapped' => Sequential'
<1> SUFFICES ASSUME QuotaInv, [Next]_vars, ~overlapped'
             PROVE  Sequential'
    OBVIOUS
<1> USE QuotaAssumption DEF QuotaInv, TypeOK, Pcs, Sequential, Busy, HasRow, Goto
<1>1. ASSUME NEW r \in Requests, RequestStep(r)
      PROVE  Sequential'
    <2>0. ~overlapped
        BY <1>1 DEF RequestStep, Admit, TurnAway, ReadCounter, CreateClient,
                    CreateFails, SaveClient, End
    <2>1. CASE Admit(r)
        BY <2>0, <2>1 DEF Admit
    <2>2. CASE TurnAway(r)
        BY <2>0, <2>2 DEF TurnAway
    <2>3. CASE ReadCounter(r)
        BY <2>0, <2>3 DEF ReadCounter
    <2>4. CASE CreateClient(r)
        BY <2>0, <2>4 DEF CreateClient
    <2>5. CASE CreateFails(r)
        BY <2>0, <2>5 DEF CreateFails
    <2>6. CASE SaveClient(r)
        <3>1. r \in Busy /\ Busy' = {}
            BY <2>0, <2>6 DEF SaveClient
        <3>2. uploads' = attempts' /\ uploads' <= Limit
            <4>1. CASE HasRow
                BY <2>0, <2>6, <3>1, <4>1 DEF SaveClient, AddAttempt
            <4>2. CASE ~HasRow
                BY <2>0, <2>6, <4>2 DEF SaveClient
            <4>3. QED
                BY <4>1, <4>2
        <3>3. QED
            BY <3>1, <3>2
    <2>7. CASE End(r)
        BY <2>0, <2>7 DEF End
    <2>8. QED
        BY <1>1, <2>1, <2>2, <2>3, <2>4, <2>5, <2>6, <2>7 DEF RequestStep
<1>2. CASE GcClients
    BY <1>2 DEF GcClients
<1>3. CASE Tick
    BY <1>3 DEF Tick
<1>4. CASE UNCHANGED vars
    BY <1>4 DEF vars
<1>5. QED
    BY <1>1, <1>2, <1>3, <1>4 DEF Next

LEMMA QuotaInvariant == Spec => []QuotaInv
<1>1. QuotaInv /\ [Next]_vars => QuotaInv'
    BY TypeStep, SequentialStep DEF QuotaInv
<1>2. QED
    BY InitQuota, <1>1, PTL DEF Spec

(***************************************************************************)
(* The row, the requests and their history stay in their types; no request *)
(* writes a count above the bound of the model (increaseClientUploadCounter). *)
(***************************************************************************)
THEOREM QuotaTyped == Spec => []TypeOK
BY QuotaInvariant, PTL DEF QuotaInv

(***************************************************************************)
(* In a period without overlapping requests no more uploads begin than the *)
(* limit allows (isClientAllowedToUpload).                                 *)
(***************************************************************************)
THEOREM LimitExact == Spec => []SequentialQuota
<1>1. QuotaInv => SequentialQuota
    BY DEF QuotaInv, Sequential, SequentialQuota
<1>2. QED
    BY QuotaInvariant, <1>1, PTL

(***************************************************************************)
(* In such a period the address is charged for each of its uploads once,   *)
(* wherever gcClients runs (increaseClientUploadCounter).                  *)
(***************************************************************************)
THEOREM ChargeExact == Spec => []SequentialCharge
<1>1. QuotaInv => SequentialCharge
    BY DEF QuotaInv, Sequential, SequentialCharge
<1>2. QED
    BY QuotaInvariant, <1>1, PTL
=============================================================================
