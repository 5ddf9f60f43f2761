-------------------------------- MODULE Streams ---------------------------------
(***************************************************************************)
(* WebSocketManager (app/core/websocket_manager.py) and the endpoint       *)
(* /ws/funding (app/api/ws/funding_stream.py).  Every section under _lock  *)
(* runs without an await, so the lock never makes anyone wait and each     *)
(* section is one step.                                                    *)
(*                                                                         *)
(* A connection stands for its WebSocket object.  The identity of the      *)
(* object is not used again while the heartbeat's lists hold it.           *)
(***************************************************************************)
EXTENDS FiniteSets

CONSTANTS
    Connections,    \* WebSocket objects
    Channels,       \* "funding", "arbitrage", "funding:{TOKEN}"
    Absent          \* not a key of _channels

VARIABLES
    endpoint,       \* funding_ws(): "away", "accept", "open", or "gone": in its loop, its client vanished
    connections,    \* keys of _connections
    channels,       \* _channels
    heartbeat,      \* _heartbeat_task: "off", "asleep", "ping"
    todo, dead      \* of its round: connections to ping, connections found dead

streamVars == <<endpoint, connections, channels, heartbeat, todo, dead>>

StreamTypeOK ==
    /\ endpoint \in [Connections -> {"away", "accept", "open", "gone"}]
    /\ connections \subseteq Connections
    /\ channels \in [Channels -> (SUBSET Connections) \cup {Absent}]
    /\ heartbeat \in {"off", "asleep", "ping"}
    /\ todo \subseteq Connections /\ dead \subseteq Connections

StreamInit ==
    /\ endpoint = [c \in Connections |-> "away"] /\ connections = {}
    /\ channels = [ch \in Channels |-> Absent]
    /\ heartbeat = "off" /\ todo = {} /\ dead = {}

-----------------------------------------------------------------------------
(* The endpoint.                                                            *)

At(c, place) == endpoint' = [endpoint EXCEPT ![c] = place]

\* Anything but an expired token is let in.
Open(c) ==
    /\ endpoint[c] = "away" /\ c \notin todo \cup dead
    /\ At(c, "accept")
    /\ UNCHANGED <<connections, channels, heartbeat, todo, dead>>

\* accept() fails, or the token has expired and the connection is closed.
TurnAway(c) ==
    /\ endpoint[c] = "accept" /\ At(c, "away")
    /\ UNCHANGED <<connections, channels, heartbeat, todo, dead>>

Register(c) ==
    /\ endpoint[c] = "accept" /\ At(c, "open")
    /\ connections' = connections \cup {c}
    /\ UNCHANGED <<channels, heartbeat, todo, dead>>

\* Mutant of Left: the endpoint has no "finally".
StillThere(gone) == connections

Left(gone) == connections \ gone

\* disconnect(): out of _connections, and of the channels it is in.
Disconnect(gone) ==
    /\ connections' = Left(gone)
    /\ channels' = [ch \in Channels |->
        IF channels[ch] = Absent \/ channels[ch] \cap gone = {} THEN channels[ch]
        ELSE IF channels[ch] \subseteq gone THEN Absent ELSE channels[ch] \ gone]

Ends(c) == At(c, "away") /\ Disconnect({c}) /\ UNCHANGED <<heartbeat, todo, dead>>

Members(ch) == IF channels[ch] = Absent THEN {} ELSE channels[ch]

\* subscribe(): the channel gets its set; then add() raises, as a dataclass with
\* __eq__ and without __hash__ cannot be a member, and the endpoint ends.
Subscribe(c, ch) ==
    /\ endpoint[c] = "open" /\ At(c, "away")
    /\ channels' = [channels EXCEPT ![ch] = Members(ch)]
    /\ connections' = Left({c})
    /\ UNCHANGED <<heartbeat, todo, dead>>

\* unsubscribe() with a channel raises at discard(); a message that is JSON and
\* not an object raises as well.  Every other message is answered.
Raises(c) == endpoint[c] = "open" /\ Ends(c)

Vanish(c) ==
    /\ endpoint[c] = "open" /\ At(c, "gone")
    /\ UNCHANGED <<connections, channels, heartbeat, todo, dead>>

\* receive_text() raises WebSocketDisconnect: the client closed, or the server
\* found that it is gone.
Close(c) == endpoint[c] \in {"open", "gone"} /\ Ends(c)

-----------------------------------------------------------------------------
(* The heartbeat.                                                           *)

StartHeartbeat ==
    /\ heartbeat = "off" /\ heartbeat' = "asleep"
    /\ UNCHANGED <<endpoint, connections, channels, todo, dead>>

Beat ==
    /\ heartbeat = "asleep" /\ heartbeat' = "ping"
    /\ todo' = connections /\ dead' = {}
    /\ UNCHANGED <<endpoint, connections, channels>>

Pinged(c) ==
    /\ heartbeat = "ping" /\ c \in todo /\ endpoint[c] # "away"
    /\ todo' = todo \ {c}
    /\ UNCHANGED <<endpoint, connections, channels, heartbeat, dead>>

\* The endpoint has ended meanwhile, or the send fails.
FoundDead(c) ==
    /\ heartbeat = "ping" /\ c \in todo /\ endpoint[c] # "open"
    /\ todo' = todo \ {c} /\ dead' = dead \cup {c}
    /\ UNCHANGED <<endpoint, connections, channels, heartbeat>>

Sweep ==
    /\ heartbeat = "ping" /\ todo = {}
    /\ heartbeat' = "asleep" /\ dead' = {} /\ Disconnect(dead)
    /\ UNCHANGED <<endpoint, todo>>

\* stop() closes what is connected; the server has ended the endpoints by then.
StopHeartbeat ==
    /\ heartbeat' = "off" /\ todo' = {} /\ dead' = {}
    /\ UNCHANGED <<endpoint, connections, channels>>

StreamStep ==
    \E c \in Connections :
        \/ Open(c) \/ TurnAway(c) \/ Register(c) \/ Raises(c) \/ Vanish(c) \/ Close(c)
        \/ \E ch \in Channels : Subscribe(c, ch)

HeartbeatStep == Beat \/ Sweep \/ \E c \in Connections : Pinged(c) \/ FoundDead(c)

-----------------------------------------------------------------------------
(* Properties                                                               *)

(* A registered connection has an endpoint that will unregister it: nothing *)
(* broadcasts to, or pings for ever, a WebSocket that nobody serves.        *)
RegisteredServed == \A c \in connections : endpoint[c] \in {"open", "gone"}
=============================================================================
