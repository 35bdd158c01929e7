---------------------------- MODULE PinnedHandler ---------------------------
(***************************************************************************)
(* messageHandler and hashPinnedHandler: what a listener does with an      *)
(* I_HASH_PINNED message.  A message starts one call in every listener of  *)
(* its sender on the room, and the calls interleave at their awaits.       *)
(* Messages with another code, from the service itself or from a peer no   *)
(* listener waits for change nothing and are left out.                     *)
(* Bounds: one call in flight per listener and hash, MaxCalls in all.      *)
(***************************************************************************)
EXTENDS JobTable, IpfsPins, Rooms

VARIABLES
    handlerPc,  \* where each call is
    found,      \* the job findOne returned to it, until it is destroyed
    announced   \* history: <<offer, hash>> some message was handled for

handlerVars == <<handlerPc, found, announced>>

Calls == Uploads \X Hashes
Listener(k) == k[1]
MessageHash(k) == k[2]
Topic(k) == RoomOf(Listener(k))

HandlerPcs ==
    {"idle", "find", "destroy", "countHash", "unpin", "countOffer", "leave", "unsubscribe"}

HandlerTypeOK ==
    /\ handlerPc \in [Calls -> HandlerPcs]
    /\ found \in [Calls -> Uploads \cup {NoUpload}]
    /\ announced \subseteq Offers \X Hashes

HandlerInit ==
    /\ handlerPc = [k \in Calls |-> "idle"]
    /\ found = [k \in Calls |-> NoUpload]
    /\ announced = {}

Move(k, from, to) ==
    /\ handlerPc[k] = from
    /\ handlerPc' = [handlerPc EXCEPT ![k] = to]
    /\ UNCHANGED announced

\* The listeners that react to a message of peer p in room t.
Addressed(t, p) == {u \in ListenersOf(t) : PeerOf[u] = p}

ActiveCalls == {k \in Calls : handlerPc[k] # "idle"}

Deliver(t, p, h) ==
    /\ Addressed(t, p) # {}
    /\ \A u \in Addressed(t, p) : handlerPc[<<u, h>>] = "idle"
    /\ Cardinality(ActiveCalls) + Cardinality(Addressed(t, p)) <= MaxCalls
    /\ handlerPc' = [k \in Calls |->
           IF Listener(k) \in Addressed(t, p) /\ MessageHash(k) = h
           THEN "find" ELSE handlerPc[k]]
    /\ announced' = announced \cup {<<t, h>>}
    /\ UNCHANGED <<found, jobVars, pinned, roomVars>>

\* Variant: the where clause forgets the hash.
MatchingOffer(k) == RowsOfOffer(Topic(k))

\* findOne asks for the hash and the offer, not for the peer.
Matching(k) == RowsOfHash(MessageHash(k)) \cap RowsOfOffer(Topic(k))

FindJob(k) ==
    /\ Move(k, "find", "destroy")
    /\ \E j \in Matching(k) : found' = [found EXCEPT ![k] = j]
    /\ UNCHANGED <<jobVars, pinned, roomVars>>

\* Variant: the early return is missing.
FindNothingGoesOn(k) ==
    /\ Matching(k) = {}
    /\ Move(k, "find", "countHash")
    /\ UNCHANGED <<found, jobVars, pinned, roomVars>>

\* "Job for file ... not found": the call still returns true to the listener.
FindNothing(k) ==
    /\ Matching(k) = {}
    /\ Move(k, "find", "unsubscribe")
    /\ UNCHANGED <<found, jobVars, pinned, roomVars>>

\* The job itself is not needed any more: its hash is the message's.
DestroyFound(k) ==
    /\ Move(k, "destroy", "countHash")
    /\ DestroyJob(found[k])
    /\ found' = [found EXCEPT ![k] = NoUpload]
    /\ UNCHANGED <<pinned, roomVars>>

\* Variants: the jobs of the offer are counted, not those of the hash; the
\* result of the count is taken the wrong way round.
CountOfferForHash(k) ==
    /\ Move(k, "countHash", IF RowsOfOffer(Topic(k)) = {} THEN "unpin" ELSE "countOffer")
    /\ UNCHANGED <<found, jobVars, pinned, roomVars>>

CountHashInverted(k) ==
    /\ Move(k, "countHash", IF RowsOfHash(MessageHash(k)) = {} THEN "countOffer" ELSE "unpin")
    /\ UNCHANGED <<found, jobVars, pinned, roomVars>>

CountHash(k) ==
    /\ Move(k, "countHash", IF RowsOfHash(MessageHash(k)) = {} THEN "unpin" ELSE "countOffer")
    /\ UNCHANGED <<found, jobVars, pinned, roomVars>>

UnpinHash(k) ==
    /\ Move(k, "unpin", "countOffer")
    /\ Unpin(MessageHash(k))
    /\ UNCHANGED <<found, jobVars, roomVars>>

\* errorHandler logs the error and the listener sees undefined: it stays.
UnpinFails(k) ==
    /\ "rm" \in Faults
    /\ Move(k, "unpin", "idle")
    /\ UnpinMaybe(MessageHash(k))
    /\ UNCHANGED <<found, jobVars, roomVars>>

CountOffer(k) ==
    /\ Move(k, "countOffer", IF RowsOfOffer(Topic(k)) = {} THEN "leave" ELSE "unsubscribe")
    /\ UNCHANGED <<found, jobVars, pinned, roomVars>>

\* The call then returns true as well, with its listener gone already.
LeaveIdleRoom(k) ==
    /\ Move(k, "leave", "idle")
    /\ LeaveRoom(Topic(k))
    /\ UNCHANGED <<found, jobVars, pinned>>

StopListening(k) ==
    /\ Move(k, "unsubscribe", "idle")
    /\ Unsubscribe(Listener(k))
    /\ UNCHANGED <<found, jobVars, pinned>>

ForgetCalls ==
    /\ handlerPc' = [k \in Calls |-> "idle"]
    /\ found' = [k \in Calls |-> NoUpload]
    /\ UNCHANGED announced
=============================================================================
