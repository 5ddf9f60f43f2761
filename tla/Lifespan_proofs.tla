---------------------------- MODULE Lifespan_proofs ----------------------------
(***************************************************************************)
(* Theorems about Lifespan for any collectors, connections and channels:   *)
(* nothing outlives stop_all(), Redis outlives its users, every registered *)
(* connection is served, and nobody gives a shutdown more to do.           *)
(***************************************************************************)
EXTENDS Lifespan, TLAPS

-----------------------------------------------------------------------------
(* The registry.                                                            *)

\* The old instance of n is being stopped by restart().
Replaced(n) == watchdog = "stop" /\ n = walk.name

InstInv(n) ==
    /\ inst[n].alive > 0 => inst[n].stage \in {"running", "stopping"}
    /\ inst[n].session => inst[n].stage \notin {"none", "stopped"}
    /\ n \notin held => inst[n].stage \in {"none", "stopped", "cut"} \/ Replaced(n)
    /\ n \in held /\ regRunning => inst[n].stage \in {"loading", "running"}
    /\ n \in held /\ ~regRunning => inst[n].stage \in {"stopping", "stopped", "cut"}
    /\ inst[n].stage = "loading" => watchdog = "off" \/ (watchdog = "start" /\ n = walk.name)

\* What the watchdog is at.
WatchdogInv ==
    /\ watchdog # "off" => regRunning
    /\ watchdog \in {"stop", "start"} =>
        /\ walk \in [name : Names, rest : SUBSET Names]
        /\ walk.rest \subseteq held \ {walk.name}
    /\ watchdog = "stop" =>
        /\ walk.name \notin held
        /\ inst[walk.name].stage = "stopping" /\ inst[walk.name].alive = 0
    /\ watchdog = "start" =>
        /\ walk.name \in held
        /\ inst[walk.name].stage = "loading"

RegInv == RegistryTypeOK /\ WatchdogInv /\ \A n \in Names : InstInv(n)

Instance == [stage : {"none", "loading", "running", "stopping", "stopped", "cut"},
             alive : 0..TaskCount, session : BOOLEAN]

LEMMA FreshType ==
    ASSUME NEW n \in Names
    PROVE  /\ Started \in Instance /\ Started.stage = "running"
           /\ Fresh(n) \in Instance
           /\ Fresh(n).stage \in {"loading", "running"}
           /\ Fresh(n).stage = "loading" <=> n \in Loading
           /\ Fresh(n).stage = "loading" => Fresh(n).alive = 0
<1>1. Started \in Instance /\ Started.stage = "running"
    BY DEF Started, Instance, TaskCount
<1>2. CASE n \in Loading
    <2>1. Fresh(n) = [stage |-> "loading", alive |-> 0, session |-> TRUE]
        BY <1>2 DEF Fresh, Started
    <2>2. Fresh(n) \in Instance
        BY <2>1 DEF Instance, TaskCount
    <2> QED BY <1>1, <1>2, <2>1, <2>2
<1>3. CASE n \notin Loading
    <2>1. Fresh(n) = Started
        BY <1>3 DEF Fresh
    <2> QED BY <1>1, <1>3, <2>1
<1> QED BY <1>2, <1>3

LEMMA StartAllReg ==
    ASSUME RegInv, held = {}, StartAll
    PROVE  RegInv'
BY DEF RegInv, RegistryTypeOK, WatchdogInv, InstInv, Replaced, StartAll

LEMMA StartNextReg ==
    ASSUME RegInv, regRunning, StartNext
    PROVE  RegInv'
<1>1. PICK n \in toStart :
        /\ toStart' = toStart \ {n} /\ held' = held \cup {n}
        /\ inst' = [inst EXCEPT ![n] = Fresh(n)]
    BY DEF StartNext
<1>2. n \in Names
    BY DEF RegInv, RegistryTypeOK
<1>3. inst \in [Names -> Instance]
    BY DEF RegInv, RegistryTypeOK, Instance
<1>4. /\ inst' \in [Names -> Instance] /\ inst'[n] = Fresh(n)
      /\ \A m \in Names : m # n => inst'[m] = inst[m]
    BY <1>1, <1>2, <1>3, FreshType
<1>5. /\ watchdog = "off" /\ UNCHANGED <<regRunning, watchdog, walk>>
    BY DEF StartNext
<1>6. RegistryTypeOK'
    BY <1>1, <1>2, <1>4, <1>5 DEF RegInv, RegistryTypeOK, Instance
<1>7. ASSUME NEW m \in Names PROVE InstInv(m)'
    <2>1. CASE m = n
        BY <1>1, <1>2, <1>4, <1>5, <2>1, FreshType DEF InstInv, Instance, TaskCount
    <2>2. CASE m # n
        BY <1>1, <1>4, <1>5, <2>2 DEF RegInv, InstInv, Replaced
    <2> QED BY <2>1, <2>2
<1> QED BY <1>5, <1>6, <1>7 DEF RegInv, WatchdogInv

LEMMA LoadedReg ==
    ASSUME RegInv, regRunning, Loaded
    PROVE  RegInv'
<1>1. PICK n \in Names : inst[n].stage = "loading" /\ inst' = [inst EXCEPT ![n] = Started]
    BY DEF Loaded
<1>2. inst \in [Names -> Instance]
    BY DEF RegInv, RegistryTypeOK, Instance
<1>3. /\ inst' \in [Names -> Instance] /\ inst'[n] = Started
      /\ \A m \in Names : m # n => inst'[m] = inst[m]
    BY <1>1, <1>2, FreshType
<1>4. n \in held
    BY <1>1 DEF RegInv, InstInv, Replaced, Loaded
<1>5. /\ watchdog = "off" /\ UNCHANGED <<regRunning, held, toStart, watchdog, walk>>
    BY DEF Loaded
<1>6. ASSUME NEW m \in Names PROVE InstInv(m)'
    BY <1>3, <1>4, <1>5, FreshType DEF RegInv, InstInv, Replaced
<1> QED BY <1>3, <1>5, <1>6 DEF RegInv, RegistryTypeOK, WatchdogInv, Instance

LEMMA AllStartedReg ==
    ASSUME RegInv, AllStarted
    PROVE  RegInv'
BY DEF RegInv, RegistryTypeOK, WatchdogInv, InstInv, Replaced, AllStarted

LEMMA TaskDiesReg ==
    ASSUME RegInv, TaskDies
    PROVE  RegInv'
<1>1. PICK n \in Names : /\ inst[n].stage = "running" /\ inst[n].alive > 0
                         /\ inst' = [inst EXCEPT ![n].alive = @ - 1]
    BY DEF TaskDies
<1>2. inst \in [Names -> Instance]
    BY DEF RegInv, RegistryTypeOK, Instance
<1>3. /\ inst'[n] = [inst[n] EXCEPT !.alive = @ - 1]
      /\ \A m \in Names : m # n => inst'[m] = inst[m]
      /\ inst' = [inst EXCEPT ![n] = inst'[n]]
    BY <1>1, <1>2
<1>4. inst'[n] \in Instance /\ inst'[n].stage = "running"
    BY <1>1, <1>2, <1>3 DEF Instance, TaskCount
<1>5. inst' \in [Names -> Instance]
    BY <1>2, <1>3, <1>4
<1>6. UNCHANGED <<regRunning, held, toStart, watchdog, walk>>
    BY DEF TaskDies
<1>7. ASSUME NEW m \in Names PROVE InstInv(m)'
    BY <1>1, <1>3, <1>4, <1>6 DEF RegInv, InstInv, Replaced
<1>8. WatchdogInv'
    BY <1>1, <1>3, <1>6 DEF RegInv, WatchdogInv
<1> QED BY <1>5, <1>6, <1>7, <1>8 DEF RegInv, RegistryTypeOK, Instance

(* The watchdog's next round begins, or goes on with "rest".                 *)
LEMMA LookReg ==
    ASSUME RegInv, regRunning,
           NEW names \in SUBSET held, NEW now \in [Names -> Instance], NEW holds \in SUBSET Names,
           \A n \in names : now[n] = inst[n] /\ n \in holds,
           \A n \in Names : /\ now[n].alive > 0 => now[n].stage \in {"running", "stopping"}
                            /\ now[n].session => now[n].stage \notin {"none", "stopped"}
                            /\ n \notin holds => now[n].stage \in {"none", "stopped", "cut"}
                            /\ n \in holds => now[n].stage = "running",
           Look(names, now, holds), UNCHANGED <<regRunning, toStart>>
    PROVE  RegInv'
<1>1. CASE /\ watchdog' = "asleep" /\ walk' = <<>> /\ inst' = now /\ held' = holds
    BY <1>1 DEF RegInv, RegistryTypeOK, WatchdogInv, InstInv, Replaced, Instance
<1>2. CASE \E n \in names : /\ Crashed(n)
                           /\ watchdog' = "stop" /\ walk' = [name |-> n, rest |-> names \ {n}]
                           /\ inst' = [now EXCEPT ![n].stage = "stopping"] /\ held' = holds \ {n}
    <2>1. PICK n \in names :
            /\ Crashed(n)
            /\ watchdog' = "stop" /\ walk' = [name |-> n, rest |-> names \ {n}]
            /\ inst' = [now EXCEPT ![n].stage = "stopping"] /\ held' = holds \ {n}
        BY <1>2
    <2>2. n \in Names /\ names \ {n} \in SUBSET Names
        BY DEF RegInv, RegistryTypeOK
    <2>3. now[n].alive = 0 /\ now[n].stage = "running"
        BY <2>1 DEF Crashed
    <2>4. /\ inst'[n] = [now[n] EXCEPT !.stage = "stopping"]
          /\ inst' = [now EXCEPT ![n] = inst'[n]]
          /\ \A m \in Names : m # n => inst'[m] = now[m]
        BY <2>1, <2>2
    <2>5. inst'[n] \in Instance /\ inst'[n].stage = "stopping" /\ inst'[n].alive = 0
        BY <2>2, <2>3, <2>4 DEF Instance
    <2>6. inst' \in [Names -> Instance]
        BY <2>4, <2>5
    <2>7. walk'.name = n /\ walk' \in [name : Names, rest : SUBSET Names]
        BY <2>1, <2>2
    <2>8. RegistryTypeOK'
        BY <2>1, <2>6, <2>7 DEF RegInv, RegistryTypeOK, Instance
    <2>9. WatchdogInv'
        BY <2>1, <2>5, <2>7 DEF RegInv, WatchdogInv
    <2>10. ASSUME NEW m \in Names PROVE InstInv(m)'
        <3>1. CASE m = n
            BY <2>1, <2>5, <2>7, <3>1 DEF InstInv, Replaced
        <3>2. CASE m # n
            BY <2>1, <2>4, <3>2 DEF InstInv, Replaced
        <3> QED BY <3>1, <3>2
    <2> QED BY <2>8, <2>9, <2>10 DEF RegInv
<1> QED BY <1>1, <1>2 DEF Look

LEMMA WatchdogWakesReg ==
    ASSUME RegInv, WatchdogWakes
    PROVE  RegInv'
<1>1. inst \in [Names -> Instance] /\ held \in SUBSET Names /\ regRunning
    BY DEF RegInv, RegistryTypeOK, Instance, WatchdogInv, WatchdogWakes
<1>2. \A n \in Names :
        /\ inst[n].alive > 0 => inst[n].stage \in {"running", "stopping"}
        /\ inst[n].session => inst[n].stage \notin {"none", "stopped"}
        /\ n \notin held => inst[n].stage \in {"none", "stopped", "cut"}
        /\ n \in held => inst[n].stage = "running"
    BY <1>1 DEF RegInv, InstInv, Replaced, WatchdogWakes
<1> QED BY <1>1, <1>2, LookReg DEF WatchdogWakes

LEMMA ReplaceReg ==
    ASSUME RegInv, Replace
    PROVE  RegInv'
<1> DEFINE n == walk.name
           now == [inst EXCEPT ![n] = Fresh(n)]
<1>1. /\ inst \in [Names -> Instance] /\ held \subseteq Names /\ regRunning
      /\ n \in Names /\ walk.rest \subseteq Names /\ n \notin held
    BY DEF RegInv, RegistryTypeOK, Instance, WatchdogInv, Replace
<1>2. /\ now \in [Names -> Instance] /\ now[n] = Fresh(n)
      /\ \A m \in Names : m # n => now[m] = inst[m]
    BY <1>1, FreshType
<1>3. CASE n \in Loading
    <2>1. /\ watchdog' = "start" /\ inst' = now /\ held' = held \cup {n}
          /\ UNCHANGED <<walk, regRunning, toStart>>
        BY <1>3 DEF Replace
    <2>2. Fresh(n).stage = "loading" /\ Fresh(n).alive = 0
        BY <1>1, <1>3, FreshType
    <2>3. ASSUME NEW m \in Names PROVE InstInv(m)'
        <3>1. CASE m = n
            BY <1>1, <1>2, <2>1, <2>2, <3>1 DEF InstInv
        <3>2. CASE m # n
            BY <1>1, <1>2, <2>1, <3>2 DEF RegInv, InstInv, Replaced, Replace
        <3> QED BY <3>1, <3>2
    <2>4. WatchdogInv'
        BY <1>1, <1>2, <2>1, <2>2 DEF RegInv, WatchdogInv, Replace
    <2>5. RegistryTypeOK'
        BY <1>1, <1>2, <2>1 DEF RegInv, RegistryTypeOK, Instance
    <2> QED BY <2>3, <2>4, <2>5 DEF RegInv
<1>4. CASE n \notin Loading
    <2>1. Look(walk.rest, now, held \cup {n}) /\ UNCHANGED <<regRunning, toStart>>
        BY <1>4 DEF Replace
    <2>2. Fresh(n).stage = "running"
        BY <1>1, <1>4, FreshType
    <2>3. ASSUME NEW m \in Names
          PROVE  /\ now[m].alive > 0 => now[m].stage \in {"running", "stopping"}
                 /\ now[m].session => now[m].stage \notin {"none", "stopped"}
                 /\ m \notin held \cup {n} => now[m].stage \in {"none", "stopped", "cut"}
                 /\ m \in held \cup {n} => now[m].stage = "running"
        BY <1>1, <1>2, <2>2 DEF RegInv, InstInv, Replaced, Replace
    <2>4. walk.rest \in SUBSET held /\ n \notin walk.rest /\ held \cup {n} \in SUBSET Names
        BY <1>1 DEF RegInv, WatchdogInv, Replace
    <2>5. \A m \in walk.rest : now[m] = inst[m] /\ m \in held \cup {n}
        BY <1>1, <1>2, <2>4
    <2> HIDE DEF now
    <2> QED BY <1>1, <1>2, <2>1, <2>3, <2>4, <2>5, LookReg
<1> QED BY <1>3, <1>4

LEMMA ReloadedReg ==
    ASSUME RegInv, Reloaded
    PROVE  RegInv'
<1> DEFINE n == walk.name
           now == [inst EXCEPT ![n] = Started]
<1>1. /\ inst \in [Names -> Instance] /\ held \in SUBSET Names /\ regRunning
      /\ n \in Names /\ walk.rest \in SUBSET held /\ n \notin walk.rest /\ n \in held
    BY DEF RegInv, RegistryTypeOK, Instance, WatchdogInv, Reloaded
<1>2. /\ now \in [Names -> Instance] /\ now[n] = Started
      /\ \A m \in Names : m # n => now[m] = inst[m]
    BY <1>1, FreshType
<1>3. ASSUME NEW m \in Names
      PROVE  /\ now[m].alive > 0 => now[m].stage \in {"running", "stopping"}
             /\ now[m].session => now[m].stage \notin {"none", "stopped"}
             /\ m \notin held => now[m].stage \in {"none", "stopped", "cut"}
             /\ m \in held => now[m].stage = "running"
    BY <1>1, <1>2, FreshType DEF RegInv, InstInv, Replaced, Reloaded
<1>4. \A m \in walk.rest : now[m] = inst[m] /\ m \in held
    BY <1>1, <1>2
<1>5. Look(walk.rest, now, held) /\ UNCHANGED <<regRunning, toStart>>
    BY DEF Reloaded
<1> HIDE DEF now
<1> QED BY <1>1, <1>2, <1>3, <1>4, <1>5, LookReg

LEMMA StopAllReg ==
    ASSUME RegInv, StopAll
    PROVE  RegInv'
<1>1. /\ inst \in [Names -> Instance] /\ regRunning /\ regRunning' = FALSE
      /\ watchdog' = "off" /\ walk' = <<>> /\ UNCHANGED <<held, toStart>>
    BY DEF RegInv, RegistryTypeOK, Instance, StopAll, CancelWatchdog
<1>2. inst' = [m \in Names |->
        CASE watchdog # "asleep" /\ m = walk.name -> [inst[m] EXCEPT !.stage = "cut"]
          [] m \in held /\ inst[m].stage = "running" -> [inst[m] EXCEPT !.stage = "stopping"]
          [] OTHER -> inst[m]]
    BY DEF StopAll, CancelWatchdog
<1>3. ASSUME NEW m \in Names PROVE inst'[m] \in Instance /\ InstInv(m)'
    <2>1. CASE watchdog # "asleep" /\ m = walk.name
        <3>1. ~(m \in held /\ inst[m].stage = "running")
            BY <1>1, <2>1 DEF RegInv, WatchdogInv, RegistryTypeOK, StopAll
        <3>2. inst'[m] = [inst[m] EXCEPT !.stage = "cut"]
            BY <1>2, <2>1, <3>1
        <3>3. inst[m].alive = 0
            BY <1>1, <2>1 DEF RegInv, InstInv, WatchdogInv, RegistryTypeOK, StopAll, Instance, TaskCount
        <3>4. inst'[m] \in Instance /\ inst'[m].alive = 0 /\ inst'[m].stage = "cut"
            BY <1>1, <3>2, <3>3 DEF Instance
        <3> QED BY <1>1, <3>4 DEF InstInv
    <2>2. CASE ~(watchdog # "asleep" /\ m = walk.name) /\ m \in held /\ inst[m].stage = "running"
        <3>1. inst'[m] = [inst[m] EXCEPT !.stage = "stopping"]
            BY <1>2, <2>2
        <3>2. inst'[m] \in Instance /\ inst'[m].stage = "stopping"
            BY <1>1, <3>1 DEF Instance
        <3> QED BY <1>1, <2>2, <3>2 DEF InstInv
    <2>3. CASE ~(watchdog # "asleep" /\ m = walk.name) /\ ~(m \in held /\ inst[m].stage = "running")
        <3>1. inst'[m] = inst[m]
            BY <1>2, <2>3
        <3>2. m \notin held
            BY <1>1, <2>3 DEF RegInv, InstInv, RegistryTypeOK, StopAll
        <3> QED BY <1>1, <2>3, <3>1, <3>2 DEF RegInv, InstInv, Replaced, RegistryTypeOK, StopAll
    <2> QED BY <2>1, <2>2, <2>3
<1>4. inst' \in [Names -> Instance]
    BY <1>2, <1>3
<1> QED BY <1>1, <1>3, <1>4 DEF RegInv, RegistryTypeOK, WatchdogInv, Instance

LEMMA StoppedReg ==
    ASSUME RegInv, Stopped
    PROVE  RegInv'
<1>1. PICK n \in held :
        inst[n].stage = "stopping"
        /\ inst' = [inst EXCEPT ![n] = [stage |-> "stopped", alive |-> 0, session |-> FALSE]]
    BY DEF Stopped
<1>2. inst \in [Names -> Instance] /\ n \in Names
    BY DEF RegInv, RegistryTypeOK, Instance
<1>3. [stage |-> "stopped", alive |-> 0, session |-> FALSE] \in Instance
    BY DEF Instance, TaskCount
<1>4. inst' \in [Names -> Instance] /\ \A m \in Names : m # n => inst'[m] = inst[m]
    BY <1>1, <1>2, <1>3
<1>5. ~regRunning /\ UNCHANGED <<regRunning, held, toStart, watchdog, walk>>
    BY DEF Stopped
<1>6. WatchdogInv'
    BY <1>5 DEF RegInv, WatchdogInv
<1>7. ASSUME NEW m \in Names PROVE InstInv(m)'
    BY <1>1, <1>2, <1>4, <1>5 DEF RegInv, InstInv, Replaced
<1> QED BY <1>4, <1>5, <1>6, <1>7 DEF RegInv, RegistryTypeOK, Instance

LEMMA AllStoppedReg ==
    ASSUME RegInv, AllStopped
    PROVE  RegInv'
BY DEF RegInv, RegistryTypeOK, WatchdogInv, InstInv, Replaced, AllStopped, Quiet

-----------------------------------------------------------------------------
(* The connections.                                                         *)

StreamInv == StreamTypeOK /\ RegisteredServed

LEMMA DisconnectChannels ==
    ASSUME StreamInv, NEW gone \in SUBSET Connections, Disconnect(gone)
    PROVE  /\ channels' \in [Channels -> (SUBSET Connections) \cup {Absent}]
           /\ connections' = connections \ gone
<1>1. ASSUME NEW ch \in Channels
      PROVE  /\ channels[ch] \in (SUBSET Connections) \cup {Absent}
             /\ channels[ch] # Absent => channels[ch] \ gone \in SUBSET Connections
    BY DEF StreamInv, StreamTypeOK
<1> QED BY <1>1 DEF Disconnect, Left

(* One lemma for each kind of step: the endpoint of one connection ...       *)
LEMMA EndpointStreams ==
    ASSUME StreamInv, NEW c \in Connections,
           Open(c) \/ TurnAway(c) \/ Register(c) \/ Vanish(c)
    PROVE  StreamInv'
BY DEF StreamInv, StreamTypeOK, RegisteredServed, At, Open, TurnAway, Register, Vanish

LEMMA EndsStreams ==
    ASSUME StreamInv, NEW c \in Connections, Ends(c)
    PROVE  StreamInv'
<1>1. /\ Disconnect({c}) /\ endpoint' = [endpoint EXCEPT ![c] = "away"]
      /\ UNCHANGED <<heartbeat, todo, dead>>
    BY DEF Ends, At
<1>2. /\ channels' \in [Channels -> (SUBSET Connections) \cup {Absent}]
      /\ connections' = connections \ {c}
    BY <1>1, DisconnectChannels
<1> QED BY <1>1, <1>2 DEF StreamInv, StreamTypeOK, RegisteredServed

LEMMA SubscribeStreams ==
    ASSUME StreamInv, NEW c \in Connections, NEW ch \in Channels, Subscribe(c, ch)
    PROVE  StreamInv'
<1>1. Members(ch) \in SUBSET Connections
    BY DEF StreamInv, StreamTypeOK, Members
<1>2. /\ channels' = [channels EXCEPT ![ch] = Members(ch)] /\ connections' = connections \ {c}
      /\ endpoint' = [endpoint EXCEPT ![c] = "away"]
      /\ UNCHANGED <<heartbeat, todo, dead>>
    BY DEF Subscribe, At, Left
<1> QED BY <1>1, <1>2 DEF StreamInv, StreamTypeOK, RegisteredServed

LEMMA StreamStepStreams ==
    ASSUME StreamInv, StreamStep
    PROVE  StreamInv'
<1>1. PICK c \in Connections :
        \/ Open(c) \/ TurnAway(c) \/ Register(c) \/ Raises(c) \/ Vanish(c) \/ Close(c)
        \/ \E ch \in Channels : Subscribe(c, ch)
    BY DEF StreamStep
<1>2. Raises(c) \/ Close(c) => Ends(c)
    BY DEF Raises, Close
<1> QED BY <1>1, <1>2, EndpointStreams, EndsStreams, SubscribeStreams

(* ... and the heartbeat.                                                   *)
LEMMA HeartbeatStreams ==
    ASSUME StreamInv, HeartbeatStep
    PROVE  StreamInv'
<1>1. CASE Sweep
    <2>1. dead \in SUBSET Connections /\ Disconnect(dead)
        BY <1>1 DEF Sweep, StreamInv, StreamTypeOK
    <2>2. /\ channels' \in [Channels -> (SUBSET Connections) \cup {Absent}]
          /\ connections' = connections \ dead
        BY <2>1, DisconnectChannels
    <2> QED BY <1>1, <2>2 DEF Sweep, StreamInv, StreamTypeOK, RegisteredServed
<1>2. CASE Beat
    BY <1>2 DEF Beat, StreamInv, StreamTypeOK, RegisteredServed
<1>3. CASE \E c \in Connections : Pinged(c) \/ FoundDead(c)
    BY <1>3 DEF Pinged, FoundDead, StreamInv, StreamTypeOK, RegisteredServed
<1> QED BY <1>1, <1>2, <1>3 DEF HeartbeatStep

LEMMA SwitchHeartbeat ==
    ASSUME StreamInv, StartHeartbeat \/ StopHeartbeat
    PROVE  StreamInv'
BY DEF StartHeartbeat, StopHeartbeat, StreamInv, StreamTypeOK, RegisteredServed

-----------------------------------------------------------------------------
(* The lifespan.                                                            *)

\* The shutdown has come to position i of StopOrder.
Past(i) == life = "down" \/ (life = "stopping" /\ step >= i)

PartsTypeOK ==
    /\ life \in {"starting", "serving", "draining", "stopping", "down"}
    /\ step \in 1..8
    /\ opened \subseteq {"db", "redis"}
    /\ funding \in {"off", "on", "stopping"}
    /\ bridge \in {"off", "subscribe", "listen", "pause", "ending"}
    /\ bot \in {"off", "initialized", "started", "polling"}
    /\ scheduler \in {"off", "on", "stopping"}

\* Nothing that uses Redis is started before it, and each part is off once
\* the shutdown has passed it.
LifeInv ==
    /\ PartsTypeOK
    /\ "redis" \notin opened => (life = "starting" /\ step <= 2) \/ Past(8)
    /\ life = "starting" /\ step <= 2 =>
        /\ ~regRunning /\ held = {}
        /\ funding = "off" /\ bridge = "off" /\ bot = "off"
    /\ life = "starting" /\ ~regRunning => held = {}
    /\ Past(2) => bot # "polling"
    /\ Past(3) => bridge = "off"
    /\ Past(5) => funding = "off"
    /\ Past(6) => ~regRunning /\ held = {}

IInv == RegInv /\ StreamInv /\ LifeInv

LEMMA Orders ==
    /\ Len(StartOrder) = 8 /\ Len(StopOrder) = 8
    /\ StartOrder[1] = "db" /\ StartOrder[2] = "redis" /\ StartOrder[3] = "scheduler"
    /\ StartOrder[4] = "collectors" /\ StartOrder[5] = "funding" /\ StartOrder[6] = "ws"
    /\ StartOrder[7] = "bridge" /\ StartOrder[8] = "bot"
    /\ StopOrder[1] = "bot" /\ StopOrder[2] = "bridge" /\ StopOrder[3] = "ws"
    /\ StopOrder[4] = "funding" /\ StopOrder[5] = "collectors" /\ StopOrder[6] = "scheduler"
    /\ StopOrder[7] = "redis" /\ StopOrder[8] = "db"
BY DEF StartOrder, StopOrder

LEMMA Positions ==
    ASSUME PartsTypeOK
    PROVE  /\ Starting("db") => life = "starting" /\ step = 1
           /\ Starting("redis") => life = "starting" /\ step = 2
           /\ Starting("scheduler") => life = "starting" /\ step = 3
           /\ Starting("collectors") => life = "starting" /\ step = 4
           /\ Starting("funding") => life = "starting" /\ step = 5
           /\ Starting("ws") => life = "starting" /\ step = 6
           /\ Starting("bridge") => life = "starting" /\ step = 7
           /\ Starting("bot") => life = "starting" /\ step = 8
           /\ Stopping("bot") => life = "stopping" /\ step = 1
           /\ Stopping("bridge") => life = "stopping" /\ step = 2
           /\ Stopping("ws") => life = "stopping" /\ step = 3
           /\ Stopping("funding") => life = "stopping" /\ step = 4
           /\ Stopping("collectors") => life = "stopping" /\ step = 5
           /\ Stopping("scheduler") => life = "stopping" /\ step = 6
           /\ Stopping("redis") => life = "stopping" /\ step = 7
           /\ Stopping("db") => life = "stopping" /\ step = 8
<1>1. step \in {1, 2, 3, 4, 5, 6, 7, 8}
    BY DEF PartsTypeOK
<1> QED BY <1>1, Orders DEF Starting, Stopping

LEMMA Advancing ==
    ASSUME PartsTypeOK
    PROVE  /\ Up => IF step < 8 THEN step' = step + 1 /\ life' = life
                              ELSE step' = 1 /\ life' = "serving"
           /\ Down => IF step < 8 THEN step' = step + 1 /\ life' = life
                                ELSE step' = 1 /\ life' = "down"
BY Orders DEF Up, Down, Advance, PartsTypeOK

LEMMA Initially == Init => IInv
<1> SUFFICES ASSUME Init PROVE IInv
    OBVIOUS
<1>1. RegInv
    <2>1. /\ regRunning = FALSE /\ held = {} /\ toStart = {}
          /\ inst = [n \in Names |-> Unmade] /\ watchdog = "off" /\ walk = <<>>
        BY DEF Init, RegistryInit
    <2>2. Unmade \in Instance /\ Unmade.stage = "none" /\ Unmade.alive = 0 /\ Unmade.session = FALSE
        BY DEF Unmade, Instance, TaskCount
    <2>3. RegistryTypeOK
        BY <2>1, <2>2 DEF RegistryTypeOK, Instance
    <2>4. WatchdogInv
        BY <2>1 DEF WatchdogInv
    <2>5. ASSUME NEW n \in Names PROVE InstInv(n)
        BY <2>1, <2>2 DEF InstInv
    <2> QED BY <2>3, <2>4, <2>5 DEF RegInv
<1>2. StreamInv
    BY DEF Init, StreamInit, StreamInv, StreamTypeOK, RegisteredServed
<1>3. LifeInv
    BY DEF Init, RegistryInit, LifeInv, PartsTypeOK, Past
<1> QED BY <1>1, <1>2, <1>3 DEF IInv

LEMMA RegFrame ==
    ASSUME RegInv, UNCHANGED registryVars
    PROVE  RegInv'
BY DEF RegInv, RegistryTypeOK, WatchdogInv, InstInv, Replaced, registryVars

LEMMA StreamFrame ==
    ASSUME StreamInv, UNCHANGED streamVars
    PROVE  StreamInv'
BY DEF StreamInv, StreamTypeOK, RegisteredServed, streamVars

(* What each step does to the registry ...                                  *)
LEMMA RegistryNext ==
    ASSUME IInv, [Next]_vars
    PROVE  RegInv'
<1>0. RegInv /\ LifeInv
    BY DEF IInv
<1>1. CASE StartStep
    <2>1. CASE StartCollectors
        <3>1. life = "starting"
            BY <2>1 DEF StartCollectors, Starting
        <3>2. StartAll => held = {}
            BY <1>0, <3>1 DEF StartAll, LifeInv
        <3>3. StartAll \/ (regRunning /\ (StartNext \/ Loaded)) \/ AllStarted
            BY <2>1 DEF StartCollectors
        <3> QED BY <1>0, <3>2, <3>3, StartAllReg, StartNextReg, LoadedReg, AllStartedReg
    <2>2. CASE ~StartCollectors
        <3>1. UNCHANGED registryVars
            BY <1>1, <2>2 DEF StartStep, OpenDb, OpenRedis, StartScheduler, StartFunding,
                              StartWs, StartBridge, StartBot
        <3> QED BY <1>0, <3>1, RegFrame
    <2> QED BY <2>1, <2>2
<1>2. CASE StopStep
    <2>1. CASE StopCollectors
        <3>1. StopAll \/ Stopped \/ AllStopped
            BY <2>1 DEF StopCollectors
        <3> QED BY <1>0, <3>1, StopAllReg, StoppedReg, AllStoppedReg
    <2>2. CASE ~StopCollectors
        <3>1. UNCHANGED registryVars
            BY <1>2, <2>2 DEF StopStep, Drain, StopBot, StopBridge, StopWs, StopFunding,
                              StopScheduler, CloseClient
        <3> QED BY <1>0, <3>1, RegFrame
    <2> QED BY <2>1, <2>2
<1>3. CASE CollectorTasks \/ WatchdogStep
    <2>1. TaskDies \/ WatchdogWakes \/ Replace \/ Reloaded
        BY <1>3 DEF CollectorTasks, WatchdogStep
    <2> QED BY <1>0, <2>1, TaskDiesReg, WatchdogWakesReg, ReplaceReg, ReloadedReg
<1>4. CASE Signal \/ Clients \/ Pulse \/ BridgeStep \/ BridgeEnds \/ SchedulerStops \/ UNCHANGED vars
    <2>1. UNCHANGED registryVars
        BY <1>4 DEF Signal, Clients, Pulse, BridgeStep, BridgeEnds, SchedulerStops, vars
    <2> QED BY <1>0, <2>1, RegFrame
<1> QED BY <1>1, <1>2, <1>3, <1>4 DEF Next, Ended

(* ... to the connections ...                                               *)
LEMMA StreamsNext ==
    ASSUME IInv, [Next]_vars
    PROVE  StreamInv'
<1>0. StreamInv
    BY DEF IInv
<1>1. CASE StartWs \/ StopWs
    BY <1>0, <1>1, SwitchHeartbeat DEF StartWs, StopWs
<1>2. CASE Drain
    <2>1. \/ \E c \in Connections : TurnAway(c) \/ Register(c) \/ Close(c)
          \/ UNCHANGED streamVars
        BY <1>2 DEF Drain
    <2>2. \A c \in Connections : Close(c) => Ends(c)
        BY DEF Close
    <2> QED BY <1>0, <2>1, <2>2, EndpointStreams, EndsStreams, StreamFrame
<1>3. CASE Clients \/ Pulse
    BY <1>0, <1>3, StreamStepStreams, HeartbeatStreams DEF Clients, Pulse
<1>4. CASE ~(StartWs \/ StopWs \/ Drain \/ Clients \/ Pulse)
    <2>1. UNCHANGED streamVars
        <3>1. CASE StartStep
            BY <1>4, <3>1 DEF StartStep, OpenDb, OpenRedis, StartScheduler, StartCollectors,
                              StartFunding, StartBridge, StartBot
        <3>2. CASE StopStep
            BY <1>4, <3>2 DEF StopStep, StopBot, StopBridge, StopFunding, StopCollectors,
                              StopScheduler, CloseClient
        <3>3. CASE Signal \/ CollectorTasks \/ WatchdogStep \/ BridgeStep \/ BridgeEnds
                   \/ SchedulerStops \/ UNCHANGED vars
            BY <3>3 DEF Signal, CollectorTasks, WatchdogStep, BridgeStep, BridgeEnds,
                        SchedulerStops, vars
        <3> QED BY <1>4, <3>1, <3>2, <3>3 DEF Next, Ended
    <2> QED BY <1>0, <2>1, StreamFrame
<1> QED BY <1>1, <1>2, <1>3, <1>4

(* ... and to the lifespan.                                                 *)
LEMMA LifeNext ==
    ASSUME IInv, [Next]_vars
    PROVE  LifeInv'
<1>0. LifeInv /\ PartsTypeOK
    BY DEF IInv, LifeInv
<1>1. CASE StartStep
    <2>1. CASE OpenDb
        BY <1>0, <2>1, Positions, Advancing DEF OpenDb, LifeInv, PartsTypeOK, Past, registryVars
    <2>2. CASE OpenRedis
        BY <1>0, <2>2, Positions, Advancing
           DEF OpenRedis, StartFails, LifeInv, PartsTypeOK, Past, registryVars
    <2>3. CASE StartScheduler
        BY <1>0, <2>3, Positions, Advancing DEF StartScheduler, LifeInv, PartsTypeOK, Past, registryVars
    <2>4. CASE StartCollectors
        <3>1. life = "starting" /\ step = 4 /\ UNCHANGED partVars
            BY <1>0, <2>4, Positions DEF StartCollectors, partVars
        <3>2. regRunning' = TRUE /\ (UNCHANGED <<life, step>> \/ Up)
            <4>1. CASE StartAll /\ UNCHANGED <<life, step>>
                BY <4>1 DEF StartAll
            <4>2. CASE regRunning /\ (StartNext \/ Loaded) /\ UNCHANGED <<life, step>>
                BY <4>2 DEF StartNext, Loaded, IInv, RegInv, RegistryTypeOK
            <4>3. CASE AllStarted /\ Up
                BY <4>3 DEF AllStarted, IInv, RegInv, RegistryTypeOK
            <4> QED BY <2>4, <4>1, <4>2, <4>3 DEF StartCollectors
        <3> QED BY <1>0, <3>1, <3>2, Advancing DEF LifeInv, PartsTypeOK, Past, partVars
    <2>5. CASE StartFunding
        BY <1>0, <2>5, Positions, Advancing DEF StartFunding, LifeInv, PartsTypeOK, Past, registryVars
    <2>6. CASE StartWs
        BY <1>0, <2>6, Positions, Advancing DEF StartWs, LifeInv, PartsTypeOK, Past, registryVars
    <2>7. CASE StartBridge
        BY <1>0, <2>7, Positions, Advancing DEF StartBridge, LifeInv, PartsTypeOK, Past, registryVars
    <2>8. CASE StartBot
        <3>1. life = "starting" /\ step = 8
            BY <1>0, <2>8, Positions DEF StartBot
        <3>2. UNCHANGED <<registryVars, opened, funding, bridge, scheduler>>
            BY <2>8 DEF StartBot
        <3>3. \/ bot' \in {"initialized", "started", "polling"} /\ UNCHANGED <<life, step>>
              \/ UNCHANGED bot /\ Up
              \/ UNCHANGED bot /\ StartFails
            BY <2>8 DEF StartBot, BotNext
        <3> QED BY <1>0, <3>1, <3>2, <3>3, Advancing
                DEF StartFails, LifeInv, PartsTypeOK, Past, registryVars
    <2> QED BY <1>1, <2>1, <2>2, <2>3, <2>4, <2>5, <2>6, <2>7, <2>8 DEF StartStep
<1>2. CASE StopStep
    <2>1. CASE Drain
        BY <1>0, <2>1 DEF Drain, LifeInv, PartsTypeOK, Past, registryVars, partVars
    <2>2. CASE StopBot
        BY <1>0, <2>2, Positions, Advancing DEF StopBot, LifeInv, PartsTypeOK, Past, registryVars
    <2>3. CASE StopBridge
        <3>1. CancelBridge(bridge) \in {"off", "ending"}
            BY DEF CancelBridge
        <3> QED BY <1>0, <2>3, <3>1, Positions, Advancing
                DEF StopBridge, LifeInv, PartsTypeOK, Past, registryVars
    <2>4. CASE StopWs
        BY <1>0, <2>4, Positions, Advancing DEF StopWs, LifeInv, PartsTypeOK, Past, registryVars, partVars
    <2>5. CASE StopFunding
        BY <1>0, <2>5, Positions, Advancing DEF StopFunding, LifeInv, PartsTypeOK, Past, registryVars
    <2>6. CASE StopCollectors
        <3>1. life = "stopping" /\ step = 5 /\ UNCHANGED partVars
            BY <1>0, <2>6, Positions DEF StopCollectors
        <3>2. \/ UNCHANGED <<life, step>>
              \/ ~regRunning' /\ held' = {} /\ Down
            BY <2>6 DEF StopCollectors, AllStopped, Quiet
        <3> QED BY <1>0, <3>1, <3>2, Advancing DEF LifeInv, PartsTypeOK, Past, partVars
    <2>7. CASE StopScheduler
        BY <1>0, <2>7, Positions, Advancing DEF StopScheduler, LifeInv, PartsTypeOK, Past, registryVars
    <2>8. CASE CloseClient
        BY <1>0, <2>8, Positions, Advancing DEF CloseClient, LifeInv, PartsTypeOK, Past, registryVars
    <2> QED BY <1>2, <2>1, <2>2, <2>3, <2>4, <2>5, <2>6, <2>7, <2>8 DEF StopStep
<1>3. CASE Signal
    BY <1>0, <1>3 DEF Signal, LifeInv, PartsTypeOK, Past, registryVars, partVars
<1>4. CASE CollectorTasks \/ WatchdogStep
    <2>1. UNCHANGED <<life, step, partVars, regRunning>>
        BY <1>4 DEF CollectorTasks, WatchdogStep, TaskDies, WatchdogWakes, Replace, Reloaded,
                    Calm, partVars
    <2>2. ~regRunning => UNCHANGED held
        BY <1>4 DEF CollectorTasks, WatchdogStep, TaskDies, IInv, RegInv, WatchdogInv,
                    WatchdogWakes, Replace, Reloaded
    <2> QED BY <1>0, <2>1, <2>2 DEF LifeInv, PartsTypeOK, Past, partVars
<1>5. CASE Clients \/ Pulse \/ BridgeStep \/ BridgeEnds \/ SchedulerStops \/ UNCHANGED vars
    <2>1. UNCHANGED <<life, step, opened, funding, bot, regRunning, held>>
        BY <1>5 DEF Clients, Pulse, BridgeStep, BridgeEnds, SchedulerStops, Calm,
                    vars, registryVars, partVars
    <2>2. /\ bridge' \in {"off", "subscribe", "listen", "pause", "ending"}
          /\ bridge = "off" => bridge' = "off"
        BY <1>0, <1>5 DEF Clients, Pulse, BridgeStep, BridgeEnds, SchedulerStops,
                          PartsTypeOK, vars, partVars
    <2>3. scheduler' \in {"off", "on", "stopping"}
        BY <1>0, <1>5 DEF Clients, Pulse, BridgeStep, BridgeEnds, SchedulerStops,
                          PartsTypeOK, vars, partVars
    <2> QED BY <1>0, <2>1, <2>2, <2>3 DEF LifeInv, PartsTypeOK, Past
<1> QED BY <1>1, <1>2, <1>3, <1>4, <1>5 DEF Next, Ended

LEMMA Inductive == IInv /\ [Next]_vars => IInv'
BY RegistryNext, StreamsNext, LifeNext DEF IInv

LEMMA Invariance == Spec => []IInv
BY Initially, Inductive, PTL DEF Spec

-----------------------------------------------------------------------------
(* Every variable of the process keeps its type.                            *)
THEOREM TypeCorrect == Spec => []TypeOK
<1>1. IInv => TypeOK
    BY Orders DEF IInv, RegInv, StreamInv, LifeInv, PartsTypeOK, TypeOK
<1> QED BY <1>1, Invariance, PTL

(* stop_all() leaves no watchdog and no task of a collector running and     *)
(* lets none start, wherever the watchdog was cancelled, for any number of  *)
(* collectors.                                                              *)
THEOREM NothingOutlivesStop == Spec => []StoppedForGood
<1>1. IInv => StoppedForGood
    <2> SUFFICES ASSUME IInv, ~regRunning, held = {} PROVE StoppedForGood
        BY DEF StoppedForGood
    <2>1. watchdog = "off"
        BY DEF IInv, RegInv, WatchdogInv, RegistryTypeOK
    <2>2. ASSUME NEW n \in Names
          PROVE  /\ inst[n].stage \in {"none", "stopped", "cut"} /\ inst[n].alive = 0
                 /\ inst[n].session => inst[n].stage = "cut"
        <3>1. inst[n].stage \in {"none", "stopped", "cut"}
            BY <2>1 DEF IInv, RegInv, InstInv, Replaced
        <3>2. inst[n].alive \in Nat
            BY DEF IInv, RegInv, RegistryTypeOK, TaskCount
        <3> QED BY <3>1, <3>2 DEF IInv, RegInv, InstInv
    <2> QED BY <2>1, <2>2 DEF StoppedForGood
<1> QED BY <1>1, Invariance, PTL

(* Redis is closed after everything that uses it, also when the startup     *)
(* failed half-way; the exception is a notification check that the          *)
(* scheduler started before.                                                *)
THEOREM RedisClosedLast == Spec => []RedisOutlivesUsers
<1>1. IInv => RedisOutlivesUsers
    <2> SUFFICES ASSUME IInv, "redis" \notin opened
                 PROVE  /\ \A n \in Names : inst[n].alive = 0 /\ inst[n].stage # "loading"
                        /\ watchdog = "off" /\ funding = "off" /\ bridge = "off" /\ bot # "polling"
        BY DEF RedisOutlivesUsers
    <2>1. /\ ~regRunning /\ held = {}
          /\ funding = "off" /\ bridge = "off" /\ bot # "polling"
        BY DEF IInv, LifeInv, PartsTypeOK, Past
    <2>2. watchdog = "off"
        BY <2>1 DEF IInv, RegInv, WatchdogInv, RegistryTypeOK
    <2>3. ASSUME NEW n \in Names PROVE inst[n].alive = 0 /\ inst[n].stage # "loading"
        <3>1. inst[n].stage \in {"none", "stopped", "cut"}
            BY <2>1, <2>2 DEF IInv, RegInv, InstInv, Replaced
        <3>2. inst[n].alive \in Nat
            BY DEF IInv, RegInv, RegistryTypeOK, TaskCount
        <3> QED BY <3>1, <3>2 DEF IInv, RegInv, InstInv
    <2> QED BY <2>1, <2>2, <2>3
<1> QED BY <1>1, Invariance, PTL

(* Every registered connection has an endpoint that will unregister it.     *)
THEOREM ConnectionsServed == Spec => []RegisteredServed
<1>1. IInv => RegisteredServed
    BY DEF IInv, StreamInv
<1> QED BY <1>1, Invariance, PTL

-----------------------------------------------------------------------------
(* The shutdown.                                                            *)

AtWork(n) == regRunning \/ inst[n].stage \in {"loading", "running"}
NotStopped(n) == regRunning \/ inst[n].stage \notin {"none", "stopped", "cut"}

\* What is left apart from the steps becomes no more.
NoMore ==
    /\ \A c \in Connections : /\ endpoint'[c] = "accept" => endpoint[c] = "accept"
                              /\ endpoint'[c] # "away" => endpoint[c] # "away"
    /\ bridge' \notin {"off", "ending"} => bridge \notin {"off", "ending"}
    /\ bridge' # "off" => bridge # "off"
    /\ funding' = "on" => funding = "on"
    /\ regRunning' => regRunning
    /\ \A n \in Names : (AtWork(n)' => AtWork(n)) /\ (NotStopped(n)' => NotStopped(n))

\* The kinds of work, before a step and after it.
LEMMA Kinds ==
    /\ DOMAIN Undone = {"steps", "accept", "serve", "tell", "await", "work", "stop"}
    /\ Undone["steps"] = CASE life = "draining" -> 0..8
                           [] life = "stopping" -> step..8
                           [] OTHER -> {}
    /\ Undone["accept"] = {c \in Connections : endpoint[c] = "accept"}
    /\ Undone["serve"] = {c \in Connections : endpoint[c] # "away"}
    /\ Undone["tell"] = {p \in {"bridge", "funding", "collectors"} :
                            CASE p = "bridge" -> bridge \notin {"off", "ending"}
                              [] p = "funding" -> funding = "on"
                              [] OTHER -> regRunning}
    /\ Undone["await"] = IF bridge = "off" THEN {} ELSE {"bridge"}
    /\ Undone["work"] = {n \in Names : AtWork(n)}
    /\ Undone["stop"] = {n \in Names : NotStopped(n)}
BY Orders DEF Undone, AtWork, NotStopped

LEMMA KindsNext ==
    /\ DOMAIN Undone' = {"steps", "accept", "serve", "tell", "await", "work", "stop"}
    /\ Undone'["steps"] = CASE life' = "draining" -> 0..8
                            [] life' = "stopping" -> step'..8
                            [] OTHER -> {}
    /\ Undone'["accept"] = {c \in Connections : endpoint'[c] = "accept"}
    /\ Undone'["serve"] = {c \in Connections : endpoint'[c] # "away"}
    /\ Undone'["tell"] = {p \in {"bridge", "funding", "collectors"} :
                             CASE p = "bridge" -> bridge' \notin {"off", "ending"}
                               [] p = "funding" -> funding' = "on"
                               [] OTHER -> regRunning'}
    /\ Undone'["await"] = IF bridge' = "off" THEN {} ELSE {"bridge"}
    /\ Undone'["work"] = {n \in Names : AtWork(n)'}
    /\ Undone'["stop"] = {n \in Names : NotStopped(n)'}
BY Orders DEF Undone, AtWork, NotStopped

LEMMA AllShrink ==
    ASSUME Undone'["steps"] \subseteq Undone["steps"], NoMore
    PROVE  \A kind \in DOMAIN Undone : Undone'[kind] \subseteq Undone[kind]
<1>1. Undone'["accept"] \subseteq Undone["accept"] /\ Undone'["serve"] \subseteq Undone["serve"]
    BY Kinds, KindsNext DEF NoMore
<1>2. Undone'["tell"] \subseteq Undone["tell"]
    <2> SUFFICES ASSUME NEW p \in Undone'["tell"] PROVE p \in Undone["tell"]
        OBVIOUS
    <2>1. p \in {"bridge", "funding", "collectors"}
        BY KindsNext
    <2>2. CASE p = "bridge"
        BY <2>2, Kinds, KindsNext DEF NoMore
    <2>3. CASE p = "funding"
        BY <2>3, Kinds, KindsNext DEF NoMore
    <2>4. CASE p = "collectors"
        BY <2>4, Kinds, KindsNext DEF NoMore
    <2> QED BY <2>1, <2>2, <2>3, <2>4
<1>3. Undone'["await"] \subseteq Undone["await"]
    BY Kinds, KindsNext DEF NoMore
<1>4. Undone'["work"] \subseteq Undone["work"] /\ Undone'["stop"] \subseteq Undone["stop"]
    BY Kinds, KindsNext DEF NoMore
<1>5. ASSUME NEW kind \in DOMAIN Undone
      PROVE  kind \in {"steps", "accept", "serve", "tell", "await", "work", "stop"}
    BY Kinds
<1> QED BY <1>1, <1>2, <1>3, <1>4, <1>5

\* The registry and the connections keep what they have left.
LEMMA SameRegistry ==
    ASSUME UNCHANGED <<regRunning, inst>>
    PROVE  /\ regRunning' => regRunning
           /\ \A n \in Names : (AtWork(n)' => AtWork(n)) /\ (NotStopped(n)' => NotStopped(n))
BY DEF AtWork, NotStopped

\* A step of the shutdown is over.
LEMMA StepOver ==
    ASSUME PartsTypeOK, life = "stopping", Down, UNCHANGED <<endpoint, regRunning, inst>>,
           bridge' = bridge, funding' = "on" => funding = "on"
    PROVE  /\ Undone'["steps"] \subseteq Undone["steps"] /\ NoMore
           /\ Undone' # Undone
<1>1. step \in 1..8
    BY DEF PartsTypeOK
<1>2. Undone["steps"] = step..8
    BY Kinds
<1>3. Undone'["steps"] = IF step < 8 THEN (step + 1)..8 ELSE {}
    <2>1. CASE step < 8
        BY <2>1, Advancing, KindsNext
    <2>2. CASE ~(step < 8)
        BY <2>2, Advancing, KindsNext
    <2> QED BY <2>1, <2>2
<1>4. Undone'["steps"] \subseteq Undone["steps"]
    BY <1>1, <1>2, <1>3
<1>5. step \in Undone["steps"] /\ step \notin Undone'["steps"]
    BY <1>1, <1>2, <1>3
<1> QED BY <1>4, <1>5, SameRegistry DEF NoMore

\* Nothing of the sequence itself moves on.
LEMMA SameStep ==
    ASSUME UNCHANGED <<life, step>>
    PROVE  Undone'["steps"] \subseteq Undone["steps"]
BY Kinds, KindsNext

Shrinks == (\A kind \in DOMAIN Undone : Undone'[kind] \subseteq Undone[kind]) /\ Undone' # Undone

LEMMA DrainShrinks ==
    ASSUME IInv, Drain
    PROVE  Shrinks
<1>1. UNCHANGED <<registryVars, partVars>> /\ life = "draining"
    BY DEF Drain
<1>2. UNCHANGED <<regRunning, inst, bridge, funding>>
    BY <1>1 DEF registryVars, partVars
<1>3. endpoint \in [Connections -> {"away", "accept", "open", "gone"}]
    BY DEF IInv, StreamInv, StreamTypeOK
<1>4. CASE UNCHANGED <<life, step>> /\ \E c \in Connections : TurnAway(c) \/ Register(c) \/ Close(c)
    <2>1. PICK c \in Connections : TurnAway(c) \/ Register(c) \/ Close(c)
        BY <1>4
    <2>2. \/ endpoint[c] = "accept" /\ endpoint' = [endpoint EXCEPT ![c] = "away"]
          \/ endpoint[c] = "accept" /\ endpoint' = [endpoint EXCEPT ![c] = "open"]
          \/ endpoint[c] \in {"open", "gone"} /\ endpoint' = [endpoint EXCEPT ![c] = "away"]
        BY <2>1 DEF TurnAway, Register, Close, Ends, At
    <2>3. NoMore
        BY <1>2, <1>3, <2>2, SameRegistry DEF NoMore
    <2>4. \/ c \in Undone["accept"] /\ c \notin Undone'["accept"]
          \/ c \in Undone["serve"] /\ c \notin Undone'["serve"]
        BY <1>3, <2>2, Kinds, KindsNext
    <2> QED BY <1>4, <2>3, <2>4, SameStep, AllShrink DEF Shrinks
<1>5. CASE life' = "stopping" /\ step' = 1 /\ UNCHANGED streamVars
    <2>1. NoMore
        BY <1>2, <1>5, SameRegistry DEF NoMore, streamVars
    <2>2. Undone["steps"] = 0..8 /\ Undone'["steps"] = 1..8
        BY <1>1, <1>5, Kinds, KindsNext
    <2>3. Undone'["steps"] \subseteq Undone["steps"] /\ 0 \in Undone["steps"] /\ 0 \notin Undone'["steps"]
        BY <2>2
    <2> QED BY <2>1, <2>3, AllShrink DEF Shrinks
<1> QED BY <1>4, <1>5 DEF Drain

\* A bridge that is cancelled already is left as it is.
LEMMA BridgeShrinks ==
    ASSUME IInv, StopBridge, ~UNCHANGED vars
    PROVE  Shrinks
<1>1. PartsTypeOK /\ life = "stopping"
    BY DEF IInv, LifeInv, StopBridge, Stopping
<1>2. UNCHANGED <<registryVars, streamVars, opened, funding, bot, scheduler>>
    BY DEF StopBridge
<1>3. UNCHANGED <<endpoint, regRunning, inst>>
    BY <1>2 DEF registryVars, streamVars
<1>4. CASE bridge = "off" /\ Down /\ UNCHANGED bridge
    BY <1>1, <1>2, <1>3, <1>4, StepOver, AllShrink DEF Shrinks
<1>5. CASE bridge # "off" /\ bridge' = CancelBridge(bridge) /\ UNCHANGED <<life, step>>
    <2>1. bridge' = "ending"
        BY <1>5 DEF CancelBridge
    <2>2. bridge # "ending"
        BY <1>2, <1>5, <2>1 DEF vars, partVars
    <2>3. NoMore
        BY <1>2, <1>3, <1>5, <2>1, <2>2, SameRegistry DEF NoMore
    <2>4. "bridge" \in Undone["tell"] /\ "bridge" \notin Undone'["tell"]
        BY <1>5, <2>1, <2>2, Kinds, KindsNext
    <2> QED BY <1>5, <2>3, <2>4, SameStep, AllShrink DEF Shrinks
<1> QED BY <1>4, <1>5 DEF StopBridge

LEMMA FundingShrinks ==
    ASSUME IInv, StopFunding
    PROVE  Shrinks
<1>1. PartsTypeOK /\ life = "stopping"
    BY DEF IInv, LifeInv, StopFunding, Stopping
<1>2. UNCHANGED <<endpoint, regRunning, inst, bridge>>
    BY DEF StopFunding, registryVars, streamVars
<1>3. CASE Down /\ funding' = "off"
    BY <1>1, <1>2, <1>3, StepOver, AllShrink DEF Shrinks
<1>4. CASE funding = "on" /\ funding' = "stopping" /\ UNCHANGED <<life, step>>
    <2>1. NoMore
        BY <1>2, <1>4, SameRegistry DEF NoMore
    <2>2. "funding" \in Undone["tell"] /\ "funding" \notin Undone'["tell"]
        BY <1>4, Kinds, KindsNext
    <2> QED BY <1>4, <2>1, <2>2, SameStep, AllShrink DEF Shrinks
<1> QED BY <1>3, <1>4 DEF StopFunding

\* stop_all(), and the end of one instance's stop().
LEMMA CollectorsShrink ==
    ASSUME IInv, StopCollectors
    PROVE  Shrinks
<1>1. PartsTypeOK /\ life = "stopping"
    BY DEF IInv, LifeInv, StopCollectors, Stopping
<1>2. UNCHANGED <<endpoint, bridge, funding>>
    BY DEF StopCollectors, streamVars, partVars
<1>3. inst \in [Names -> Instance] /\ held \subseteq Names
    BY DEF IInv, RegInv, RegistryTypeOK, Instance
<1>4. CASE StopAll /\ UNCHANGED <<life, step>>
    <2>1. regRunning = TRUE /\ regRunning' = FALSE
        BY <1>4 DEF StopAll, IInv, RegInv, RegistryTypeOK
    <2>2. NoMore
        BY <1>2, <2>1 DEF NoMore, AtWork, NotStopped
    <2>3. "collectors" \in Undone["tell"] /\ "collectors" \notin Undone'["tell"]
        BY <2>1, Kinds, KindsNext
    <2> QED BY <1>4, <2>2, <2>3, SameStep, AllShrink DEF Shrinks
<1>5. CASE Stopped /\ UNCHANGED <<life, step>>
    <2>1. PICK n \in held :
            /\ inst[n].stage = "stopping"
            /\ inst' = [inst EXCEPT ![n] = [stage |-> "stopped", alive |-> 0, session |-> FALSE]]
        BY <1>5 DEF Stopped
    <2>2. ~regRunning /\ regRunning' = regRunning
        BY <1>5 DEF Stopped
    <2>3. inst'[n].stage = "stopped" /\ \A m \in Names : m # n => inst'[m] = inst[m]
        BY <1>3, <2>1
    <2>4. NoMore
        BY <1>2, <2>2, <2>3 DEF NoMore, AtWork, NotStopped
    <2>5. n \in Undone["stop"] /\ n \notin Undone'["stop"]
        BY <1>3, <2>1, <2>2, <2>3, Kinds, KindsNext DEF NotStopped
    <2> QED BY <1>5, <2>4, <2>5, SameStep, AllShrink DEF Shrinks
<1>6. CASE AllStopped /\ Down
    <2>1. UNCHANGED <<regRunning, inst>>
        BY <1>6 DEF AllStopped
    <2> QED BY <1>1, <1>2, <1>6, <2>1, StepOver, AllShrink DEF Shrinks
<1> QED BY <1>4, <1>5, <1>6 DEF StopCollectors

LEMMA StopShrinks ==
    ASSUME IInv, StopStep, ~UNCHANGED vars
    PROVE  Shrinks
<1>1. CASE StopBot \/ StopWs \/ StopScheduler \/ CloseClient
    <2>1. PartsTypeOK /\ life = "stopping" /\ Down
        BY <1>1 DEF IInv, LifeInv, StopBot, StopWs, StopScheduler, CloseClient, Stopping
    <2>2. UNCHANGED <<endpoint, regRunning, inst, bridge, funding>>
        BY <1>1 DEF StopBot, StopWs, StopHeartbeat, StopScheduler, CloseClient,
                    registryVars, streamVars, partVars
    <2> QED BY <2>1, <2>2, StepOver, AllShrink DEF Shrinks
<1> QED BY <1>1, DrainShrinks, BridgeShrinks, FundingShrinks, CollectorsShrink DEF StopStep

LEMMA BridgeEndShrinks ==
    ASSUME BridgeEnds
    PROVE  Shrinks
<1>1. /\ bridge = "ending" /\ bridge' = "off"
      /\ UNCHANGED <<life, step, funding, endpoint, regRunning, inst>>
    BY DEF BridgeEnds, Calm, registryVars, streamVars
<1>2. NoMore
    BY <1>1, SameRegistry DEF NoMore
<1>3. "bridge" \in Undone["await"] /\ "bridge" \notin Undone'["await"]
    BY <1>1, Kinds, KindsNext
<1> QED BY <1>1, <1>2, <1>3, SameStep, AllShrink DEF Shrinks

\* What runs meanwhile.  A watchdog at work means that the registry runs.
LEMMA MeanwhileNoMore ==
    ASSUME IInv, CollectorTasks \/ WatchdogStep \/ Pulse \/ BridgeStep \/ SchedulerStops
    PROVE  \A kind \in DOMAIN Undone : Undone'[kind] \subseteq Undone[kind]
<1>1. UNCHANGED <<life, step, funding, endpoint, regRunning>>
    BY DEF CollectorTasks, WatchdogStep, Pulse, BridgeStep, SchedulerStops, Calm, TaskDies,
           WatchdogWakes, Replace, Reloaded, HeartbeatStep, Beat, Sweep, Pinged, FoundDead,
           registryVars, streamVars
<1>2. /\ bridge' \notin {"off", "ending"} => bridge \notin {"off", "ending"}
      /\ bridge' # "off" => bridge # "off"
    BY DEF CollectorTasks, WatchdogStep, Pulse, BridgeStep, SchedulerStops
<1>3. ASSUME NEW n \in Names
      PROVE  (AtWork(n)' => AtWork(n)) /\ (NotStopped(n)' => NotStopped(n))
    <2>1. CASE CollectorTasks
        <3>1. PICK m \in Names : inst' = [inst EXCEPT ![m].alive = @ - 1]
            BY <2>1 DEF CollectorTasks, TaskDies
        <3>2. inst \in [Names -> Instance]
            BY DEF IInv, RegInv, RegistryTypeOK, Instance
        <3>3. inst'[n].stage = inst[n].stage
            BY <3>1, <3>2 DEF Instance
        <3> QED BY <1>1, <3>3 DEF AtWork, NotStopped
    <2>2. CASE WatchdogStep
        <3>1. regRunning
            BY <2>2 DEF WatchdogStep, WatchdogWakes, Replace, Reloaded, IInv, RegInv, WatchdogInv
        <3> QED BY <3>1 DEF AtWork, NotStopped
    <2>3. CASE Pulse \/ BridgeStep \/ SchedulerStops
        <3>1. UNCHANGED <<regRunning, inst>>
            BY <2>3 DEF Pulse, BridgeStep, SchedulerStops, registryVars
        <3> QED BY <3>1, SameRegistry
    <2> QED BY <2>1, <2>2, <2>3
<1>4. NoMore
    BY <1>1, <1>2, <1>3 DEF NoMore
<1> QED BY <1>1, <1>4, SameStep, AllShrink

(* Nobody gives a shutdown more to do and each of its own steps is done      *)
(* with something, for any collectors and connections and wherever a start  *)
(* failed: finitely many of them make for finitely many steps.              *)
THEOREM ShutdownGoesOn == Spec => ShutdownAdvances
<1>1. IInv /\ [Next]_vars
        => [(life \in {"draining", "stopping"}) =>
                /\ \A kind \in DOMAIN Undone : Undone'[kind] \subseteq Undone[kind]
                /\ StopStep \/ BridgeEnds => Undone' # Undone]_vars
    <2> SUFFICES ASSUME IInv, Next, ~UNCHANGED vars, life \in {"draining", "stopping"}
                 PROVE  /\ \A kind \in DOMAIN Undone : Undone'[kind] \subseteq Undone[kind]
                        /\ StopStep \/ BridgeEnds => Undone' # Undone
        OBVIOUS
    <2>1. CASE StopStep
        BY <2>1, StopShrinks DEF Shrinks
    <2>2. CASE BridgeEnds
        BY <2>2, BridgeEndShrinks DEF Shrinks
    <2>3. CASE ~StopStep /\ ~BridgeEnds
        <3>1. ~StartStep /\ ~Signal /\ ~Clients /\ ~Ended
            BY DEF StartStep, OpenDb, OpenRedis, StartScheduler, StartCollectors, StartFunding,
                   StartWs, StartBridge, StartBot, Starting, Signal, Clients, Ended
        <3> QED BY <2>3, <3>1, MeanwhileNoMore DEF Next
    <2> QED BY <2>1, <2>2, <2>3
<1> QED BY <1>1, Invariance, PTL DEF Spec, ShutdownAdvances
=============================================================================
