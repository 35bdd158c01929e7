------------------------------- MODULE Rooms --------------------------------
(***************************************************************************)
(* The in-memory side of communication/index.ts: the rooms Map, the        *)
(* 'message' listeners subscribeForOffer registers on a room (one per      *)
(* upload) and the setTimeout that removes each of them.  All of it is     *)
(* lost when the process stops.                                            *)
(***************************************************************************)
EXTENDS UploadParams

VARIABLES
    rooms,      \* offers whose topic is in the rooms Map
    listeners,  \* uploads whose listener is registered on the current room
    timer,      \* ticks left before setTimeout may call unsubscribe
    visited     \* per GC run, topics the Map iterator has passed

roomVars == <<rooms, listeners, timer, visited>>

\* Variant: the listener is dropped a tick before its job expires.
ShortDelay == TTL - 1

\* setTimeout turns a delay it cannot represent into 1.
TimerDelay == IF TTL > MaxTimeout THEN 1 ELSE TTL

RoomTypeOK ==
    /\ rooms \subseteq Offers
    /\ listeners \subseteq Uploads
    /\ timer \in [Uploads -> 0 .. TTL]
    /\ visited \in [Gcs -> SUBSET Offers]

RoomInit ==
    /\ rooms = {}
    /\ listeners = {}
    /\ timer = [u \in Uploads |-> 0]
    /\ visited = [g \in Gcs |-> {}]

RoomOf(u) == OfferOf[u]
ListenersOf(t) == {u \in listeners : RoomOf(u) = t}

\* Variant: the room is created again when it is there already.
SubscribeAnew(u) ==
    IF CommsEnabled
    THEN /\ rooms' = rooms \cup {RoomOf(u)}
         /\ listeners' = (listeners \ ListenersOf(RoomOf(u))) \cup {u}
         /\ timer' = [timer EXCEPT ![u] = TimerDelay]
         /\ UNCHANGED visited
    ELSE UNCHANGED roomVars

\* getOrCreateRoom, room.on('message', ...) and setTimeout(unsubscribe, ttl).
SubscribeForOffer(u) ==
    IF CommsEnabled
    THEN /\ rooms' = rooms \cup {RoomOf(u)}
         /\ listeners' = listeners \cup {u}
         /\ timer' = [timer EXCEPT ![u] = TimerDelay]
         /\ UNCHANGED visited
    ELSE UNCHANGED roomVars

\* The room object is dropped with every listener on it.  A topic that is
\* entered again is appended to the Map, so an iterator meets it once more.
LeaveRoom(t) ==
    /\ rooms' = rooms \ {t}
    /\ listeners' = listeners \ ListenersOf(t)
    /\ timer' = [u \in Uploads |-> IF RoomOf(u) = t THEN 0 ELSE timer[u]]
    /\ visited' = [g \in Gcs |-> visited[g] \ {t}]

\* The function room.on() returned; it does nothing the second time.
Unsubscribe(u) ==
    /\ listeners' = listeners \ {u}
    /\ timer' = [timer EXCEPT ![u] = 0]
    /\ UNCHANGED <<rooms, visited>>

\* The timeout set at subscription is over.
TimerFires(u) ==
    /\ u \in listeners
    /\ timer[u] = 0
    /\ Unsubscribe(u)

RunTimers ==
    /\ timer' = [u \in Uploads |-> IF timer[u] > 0 THEN timer[u] - 1 ELSE 0]
    /\ UNCHANGED <<rooms, listeners, visited>>

\* The Map, its listeners and the iterators over it live in the process.
ForgetRooms ==
    /\ rooms' = {}
    /\ listeners' = {}
    /\ timer' = [u \in Uploads |-> 0]
    /\ visited' = [g \in Gcs |-> {}]
=============================================================================
