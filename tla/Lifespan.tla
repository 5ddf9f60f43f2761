-------------------------------- MODULE Lifespan --------------------------------
(***************************************************************************)
(* lifespan() of app/main.py: it starts the parts of the process one after *)
(* the other, serves, and stops them in another order, also when a start   *)
(* failed half-way.  Composed of the collectors' registry, the WebSocket   *)
(* manager with its endpoint, the loop of RedisBridge                      *)
(* (app/core/redis_ws_bridge.py), the scheduler, the Telegram bot's runner *)
(* and the tasks of FundingService.  What the last three do while they run *)
(* is the subject of Notification and FundingService.                      *)
(***************************************************************************)
EXTENDS Registry, Streams, Sequences

VARIABLES
    life,       \* "starting", "serving", "draining", "stopping", "down"
    step,       \* position in StartOrder or StopOrder
    opened,     \* of "db" and "redis", what is open
    funding,    \* tasks of FundingService: "off", "on", "stopping"
    bridge,     \* task of RedisBridge: "off", "subscribe", "listen", "pause", "ending"
    bot,        \* "off", "initialized", "started", "polling"
    scheduler   \* "off", "on", "stopping"

partVars == <<opened, funding, bridge, bot, scheduler>>
vars == <<registryVars, streamVars, life, step, partVars>>

StartOrder == <<"db", "redis", "scheduler", "collectors", "funding", "ws", "bridge", "bot">>

\* Mutant of StopOrder: Redis goes before those that use it.
RedisFirst == <<"redis", "bot", "bridge", "ws", "funding", "collectors", "scheduler", "db">>

StopOrder == <<"bot", "bridge", "ws", "funding", "collectors", "scheduler", "redis", "db">>

TypeOK ==
    /\ RegistryTypeOK /\ StreamTypeOK
    /\ life \in {"starting", "serving", "draining", "stopping", "down"}
    /\ step \in 1..Len(StopOrder)
    /\ opened \subseteq {"db", "redis"}
    /\ funding \in {"off", "on", "stopping"}
    /\ bridge \in {"off", "subscribe", "listen", "pause", "ending"}
    /\ bot \in {"off", "initialized", "started", "polling"}
    /\ scheduler \in {"off", "on", "stopping"}

Init ==
    /\ RegistryInit /\ StreamInit
    /\ life = "starting" /\ step = 1
    /\ opened = {} /\ funding = "off" /\ bridge = "off" /\ bot = "off"
    /\ scheduler = "off"

-----------------------------------------------------------------------------
(* Startup.                                                                 *)

Starting(part) == life = "starting" /\ StartOrder[step] = part
Stopping(part) == life = "stopping" /\ StopOrder[step] = part

\* The step is done: on to the next one.
Advance(order, end) ==
    IF step < Len(order)
      THEN step' = step + 1 /\ UNCHANGED life
      ELSE step' = 1 /\ life' = end

Up == Advance(StartOrder, "serving")
Down == Advance(StopOrder, "down")

\* An exception leaves the try block for its "finally".
StartFails == life' = "stopping" /\ step' = 1

OpenDb ==
    /\ Starting("db") /\ opened' = opened \cup {"db"} /\ Up
    /\ UNCHANGED <<registryVars, streamVars, funding, bridge, bot, scheduler>>

\* The client is set before ping() may fail.
OpenRedis ==
    /\ Starting("redis") /\ opened' = opened \cup {"redis"}
    /\ Up \/ StartFails
    /\ UNCHANGED <<registryVars, streamVars, funding, bridge, bot, scheduler>>

StartScheduler ==
    /\ Starting("scheduler") /\ scheduler' = "on" /\ Up
    /\ UNCHANGED <<registryVars, streamVars, opened, funding, bridge, bot>>

StartCollectors ==
    /\ Starting("collectors")
    /\ \/ /\ StartAll \/ (regRunning /\ (StartNext \/ Loaded))
          /\ UNCHANGED <<life, step>>
       \/ AllStarted /\ Up
    /\ UNCHANGED <<streamVars, opened, funding, bridge, bot, scheduler>>

StartFunding ==
    /\ Starting("funding") /\ funding' = "on" /\ Up
    /\ UNCHANGED <<registryVars, streamVars, opened, bridge, bot, scheduler>>

StartWs ==
    /\ Starting("ws") /\ StartHeartbeat /\ Up
    /\ UNCHANGED <<registryVars, opened, funding, bridge, bot, scheduler>>

StartBridge ==
    /\ Starting("bridge") /\ bridge' = "subscribe" /\ Up
    /\ UNCHANGED <<registryVars, streamVars, opened, funding, bot, scheduler>>

\* The notification job is added, then the bot is started when there is a token for it.
BotNext == [off |-> "initialized", initialized |-> "started", started |-> "polling"]

StartBot ==
    /\ Starting("bot")
    /\ \/ bot \in DOMAIN BotNext /\ bot' = BotNext[bot] /\ UNCHANGED <<life, step>>
       \/ bot \in {"off", "polling"} /\ Up /\ UNCHANGED bot
       \/ bot \in DOMAIN BotNext /\ StartFails /\ UNCHANGED bot
    /\ UNCHANGED <<registryVars, streamVars, opened, funding, bridge, scheduler>>

StartStep ==
    \/ OpenDb \/ OpenRedis \/ StartScheduler \/ StartCollectors \/ StartFunding
    \/ StartWs \/ StartBridge \/ StartBot

-----------------------------------------------------------------------------
(* Shutdown.  The server ends its endpoints before it ends the lifespan.    *)

Signal ==
    /\ life = "serving" /\ life' = "draining"
    /\ UNCHANGED <<registryVars, streamVars, step, partVars>>

Drain ==
    /\ life = "draining"
    /\ \/ /\ \E c \in Connections : TurnAway(c) \/ Register(c) \/ Close(c)
          /\ UNCHANGED <<life, step>>
       \/ /\ \A c \in Connections : endpoint[c] = "away"
          /\ life' = "stopping" /\ step' = 1 /\ UNCHANGED streamVars
    /\ UNCHANGED <<registryVars, partVars>>

\* Mutant of StopBot: stop() has no "except", so that the shutdown ends here.
StopBotRaises ==
    /\ Stopping("bot")
    /\ IF bot \in {"off", "polling"} THEN Down ELSE life' = "down" /\ step' = 1
    /\ bot' = IF bot = "polling" THEN "off" ELSE bot
    /\ UNCHANGED <<registryVars, streamVars, opened, funding, bridge, scheduler>>

\* stop(): an updater that does not poll makes updater.stop() raise, and the
\* rest of the runner's stop() is skipped.
StopBot ==
    /\ Stopping("bot") /\ Down
    /\ bot' = IF bot = "polling" THEN "off" ELSE bot
    /\ UNCHANGED <<registryVars, streamVars, opened, funding, bridge, scheduler>>

CancelBridge(stage) == IF stage = "off" THEN "off" ELSE "ending"

StopBridge ==
    /\ Stopping("bridge")
    /\ \/ bridge # "off" /\ bridge' = CancelBridge(bridge) /\ UNCHANGED <<life, step>>
       \/ bridge = "off" /\ Down /\ UNCHANGED bridge
    /\ UNCHANGED <<registryVars, streamVars, opened, funding, bot, scheduler>>

StopWs ==
    /\ Stopping("ws") /\ StopHeartbeat /\ Down
    /\ UNCHANGED <<registryVars, partVars>>

StopFunding ==
    /\ Stopping("funding")
    /\ \/ funding = "on" /\ funding' = "stopping" /\ UNCHANGED <<life, step>>
       \/ funding = "stopping" /\ funding' = "off" /\ Down
       \/ funding = "off" /\ Down /\ UNCHANGED funding
    /\ UNCHANGED <<registryVars, streamVars, opened, bridge, bot, scheduler>>

StopCollectors ==
    /\ Stopping("collectors")
    /\ \/ (StopAll \/ Stopped) /\ UNCHANGED <<life, step>>
       \/ AllStopped /\ Down
    /\ UNCHANGED <<streamVars, partVars>>

\* shutdown() is passed to the event loop, which runs it at its next turn.
StopScheduler ==
    /\ Stopping("scheduler") /\ Down
    /\ scheduler' = IF scheduler = "on" THEN "stopping" ELSE scheduler
    /\ UNCHANGED <<registryVars, streamVars, opened, funding, bridge, bot>>

CloseClient ==
    /\ \E c \in {"redis", "db"} : Stopping(c) /\ opened' = opened \ {c}
    /\ Down
    /\ UNCHANGED <<registryVars, streamVars, funding, bridge, bot, scheduler>>

StopStep ==
    \/ Drain \/ StopBot \/ StopBridge \/ StopWs \/ StopFunding \/ StopCollectors
    \/ StopScheduler \/ CloseClient

-----------------------------------------------------------------------------
(* What runs meanwhile.                                                     *)

Calm == UNCHANGED <<life, step, opened, funding>>

CollectorTasks ==
    /\ TaskDies
    /\ Calm /\ UNCHANGED <<streamVars, bridge, bot, scheduler>>

WatchdogStep ==
    /\ WatchdogWakes \/ Replace \/ Reloaded
    /\ Calm /\ UNCHANGED <<streamVars, bridge, bot, scheduler>>

Clients ==
    /\ life = "serving" /\ StreamStep
    /\ Calm /\ UNCHANGED <<registryVars, bridge, bot, scheduler>>

Pulse ==
    /\ HeartbeatStep
    /\ Calm /\ UNCHANGED <<registryVars, bridge, bot, scheduler>>

\* _bridge_loop(): errors end a subscription and pause the loop for 3 s.
BridgeStep ==
    /\ \/ bridge = "subscribe" /\ bridge' \in {"listen", "pause"}
       \/ bridge = "listen" /\ bridge' = "pause"
       \/ bridge = "pause" /\ bridge' = "subscribe"
    /\ Calm /\ UNCHANGED <<registryVars, streamVars, bot, scheduler>>

\* Cancelled, it unsubscribes.
BridgeEnds ==
    /\ bridge = "ending" /\ bridge' = "off"
    /\ Calm /\ UNCHANGED <<registryVars, streamVars, bot, scheduler>>

\* The notification check that may be under way is cancelled, whatever "wait" says.
SchedulerStops ==
    /\ scheduler = "stopping" /\ scheduler' = "off"
    /\ Calm /\ UNCHANGED <<registryVars, streamVars, bridge, bot>>

Ended == life = "down" /\ scheduler = "off" /\ UNCHANGED vars

Next ==
    \/ StartStep \/ Signal \/ StopStep
    \/ CollectorTasks \/ WatchdogStep \/ Clients \/ Pulse
    \/ BridgeStep \/ BridgeEnds \/ SchedulerStops
    \/ Ended

\* Starts and stops are awaited calls that end (each load is a fetch with a
\* timeout, each cancelled task ends), the watchdog and the heartbeat wake up,
\* and a ping to a client that is gone fails at the latest when the kernel
\* gives the connection up.
Fairness ==
    /\ WF_vars(StartStep) /\ WF_vars(StopStep) /\ WF_vars(BridgeEnds)
    /\ WF_vars(WatchdogStep)
    /\ WF_vars(Pulse)
    /\ \A c \in Connections : SF_vars(FoundDead(c) /\ Pulse)

Spec == Init /\ [][Next]_vars /\ Fairness

-----------------------------------------------------------------------------
(* Properties                                                               *)

(* Nothing of a collector outlives stop_all(): the watchdog is gone, no task *)
(* is left running and nothing starts later, whatever the watchdog was      *)
(* doing, and no HTTP session is left open but that of an instance whose    *)
(* restart was cut off.                                                     *)
StoppedForGood ==
    ~regRunning /\ held = {} =>
        /\ watchdog = "off"
        /\ \A n \in Names :
            /\ inst[n].stage \in {"none", "stopped", "cut"} /\ inst[n].alive = 0
            /\ inst[n].session => inst[n].stage = "cut"

(* A collector all of whose tasks died is restarted, as long as the         *)
(* registry runs.                                                           *)
Revived ==
    \A n \in Names : (regRunning /\ inst[n].stage = "running" /\ inst[n].alive = 0)
                        ~> (inst[n].alive > 0 \/ ~regRunning)

(* Redis is closed after everything that uses it on its own account, also   *)
(* when the startup failed.  (A notification check may still be under way.) *)
RedisOutlivesUsers ==
    "redis" \notin opened =>
        /\ \A n \in Names : inst[n].alive = 0 /\ inst[n].stage # "loading"
        /\ watchdog = "off" /\ funding = "off" /\ bridge = "off" /\ bot # "polling"

(* What is left of the process at its very end.                             *)
AllOff ==
    /\ opened = {} /\ scheduler # "on"
    /\ bridge = "off" /\ funding = "off" /\ heartbeat = "off" /\ bot # "polling"
    /\ ~regRunning /\ held = {} /\ connections = {}

(* Whatever was started and wherever the start failed, the shutdown comes   *)
(* to its end and leaves no part of the process on: no part that refuses to *)
(* stop, such as a bot that never polled, keeps those behind it from being  *)
(* stopped and closed, and the heartbeat, the watchdog, dying tasks and     *)
(* the bridge's loop do not keep it from ending.                            *)
ShutdownEnds == (life \in {"draining", "stopping"}) ~> (life = "down" /\ AllOff)

\* What the shutdown has left to do: its steps (0 is the drain), requests not yet
\* accepted, endpoints, parts to be told, the bridge to await, collectors at work,
\* collectors not stopped.  As long as the registry runs that is all of them.
Undone ==
    [steps  |-> CASE life = "draining" -> 0..Len(StopOrder)
                  [] life = "stopping" -> step..Len(StopOrder)
                  [] OTHER -> {},
     accept |-> {c \in Connections : endpoint[c] = "accept"},
     serve  |-> {c \in Connections : endpoint[c] # "away"},
     tell   |-> {p \in {"bridge", "funding", "collectors"} :
                    CASE p = "bridge" -> bridge \notin {"off", "ending"}
                      [] p = "funding" -> funding = "on"
                      [] OTHER -> regRunning},
     await  |-> IF bridge = "off" THEN {} ELSE {"bridge"},
     work   |-> {n \in Names : regRunning \/ inst[n].stage \in {"loading", "running"}},
     stop   |-> {n \in Names : regRunning \/ inst[n].stage \notin {"none", "stopped", "cut"}}]

(* Nobody gives a shutdown more to do, not the watchdog in the middle of a  *)
(* restart, a dying task, the heartbeat or the bridge's loop, and each step *)
(* of its own is done with something: the safety half of ShutdownEnds.      *)
ShutdownAdvances ==
    [][(life \in {"draining", "stopping"}) =>
        /\ \A kind \in DOMAIN Undone : Undone'[kind] \subseteq Undone[kind]
        /\ StopStep \/ BridgeEnds => Undone' # Undone]_vars

(* A client that vanished without a word is unregistered by the heartbeat,  *)
(* also when nothing else notices it.                                       *)
GoneUnregistered ==
    \A c \in Connections :
        (endpoint[c] = "gone") ~> (endpoint[c] # "gone" \/ c \notin connections)
=============================================================================
