-------------------------------- MODULE Registry --------------------------------
(***************************************************************************)
(* CollectorRegistry (app/collectors/registry.py) with start() and stop()  *)
(* of its collectors (app/collectors/base.py): who creates, restarts and   *)
(* stops the tasks of a collector.                                         *)
(*                                                                         *)
(* A name has at most one instance at a time: restart() ends the old one   *)
(* before it makes a new one.  "alive" counts the tasks that are not done  *)
(* (REST poll, WebSocket, history).  Their loops log every Exception and   *)
(* go on; what ends one outside stop() is a CancelledError raised by a     *)
(* library call, which they raise again.                                   *)
(***************************************************************************)
EXTENDS Naturals

CONSTANTS
    Names,      \* registered collectors
    Loading     \* those whose start() loads the exchange's symbols first

ASSUME RegistryAssumption == Loading \subseteq Names

VARIABLES
    regRunning,     \* _running of the registry
    held,           \* the names in _instances
    inst,           \* the latest instance of each name
    toStart,        \* names start_all() has not reached
    watchdog,       \* "off", "asleep", or in restart(): "stop" or "start"
    walk            \* in restart(): its name, then the names left of this round

registryVars == <<regRunning, held, inst, toStart, watchdog, walk>>

TaskCount == 3
Unmade == [stage |-> "none", alive |-> 0, session |-> FALSE]

RegistryTypeOK ==
    /\ regRunning \in BOOLEAN /\ held \subseteq Names /\ toStart \subseteq Names
    /\ inst \in [Names -> [stage : {"none", "loading", "running", "stopping", "stopped", "cut"},
                           alive : 0..TaskCount, session : BOOLEAN]]
    /\ watchdog \in {"off", "asleep", "stop", "start"}
    /\ walk \in [name : Names, rest : SUBSET Names] \cup {<<>>}

RegistryInit ==
    /\ regRunning = FALSE /\ held = {} /\ toStart = {}
    /\ inst = [n \in Names |-> Unmade]
    /\ watchdog = "off" /\ walk = <<>>

-----------------------------------------------------------------------------
(* start_all(): one after the other, each start() awaited.                  *)

\* Mutant of Started: start() does not look whether it was called before.
StartedTwice == [stage |-> "running", alive |-> 2 * TaskCount, session |-> TRUE]

Started == [stage |-> "running", alive |-> TaskCount, session |-> TRUE]

\* A new instance, as far as its start() comes without waiting.
Fresh(n) == IF n \in Loading THEN [Started EXCEPT !.stage = "loading", !.alive = 0] ELSE Started

StartAll ==
    /\ ~regRunning /\ regRunning' = TRUE /\ toStart' = Names
    /\ UNCHANGED <<held, inst, watchdog, walk>>

StartNext ==
    /\ watchdog = "off" /\ \A n \in Names : inst[n].stage # "loading"
    /\ \E n \in toStart :
        /\ toStart' = toStart \ {n} /\ held' = held \cup {n}
        /\ inst' = [inst EXCEPT ![n] = Fresh(n)]
    /\ UNCHANGED <<regRunning, watchdog, walk>>

Loaded ==
    /\ watchdog = "off"
    /\ \E n \in Names : inst[n].stage = "loading" /\ inst' = [inst EXCEPT ![n] = Started]
    /\ UNCHANGED <<regRunning, held, toStart, watchdog, walk>>

\* Its last step creates the watchdog.
AllStarted ==
    /\ regRunning /\ toStart = {} /\ \A n \in Names : inst[n].stage # "loading"
    /\ watchdog = "off" /\ watchdog' = "asleep"
    /\ UNCHANGED <<regRunning, held, inst, toStart, walk>>

TaskDies ==
    /\ \E n \in Names :
        /\ inst[n].stage = "running" /\ inst[n].alive > 0
        /\ inst' = [inst EXCEPT ![n].alive = @ - 1]
    /\ UNCHANGED <<regRunning, held, toStart, watchdog, walk>>

-----------------------------------------------------------------------------
(* _watchdog() and restart().                                               *)

\* Mutant of Crashed: an instance that is not _running is taken for crashed.
NotRunning(n) == n \in held /\ inst[n].stage = "stopped"

Crashed(n) == n \in held /\ inst[n].stage = "running" /\ inst[n].alive = 0

\* The round goes on to a next crashed collector, or ends; "now" is what the
\* step made of the instances.
Look(names, now, holds) ==
    LET crashed == {n \in names : Crashed(n)} IN
    \/ /\ crashed = {}
       /\ watchdog' = "asleep" /\ walk' = <<>> /\ inst' = now /\ held' = holds
    \/ \E n \in crashed :
        /\ watchdog' = "stop" /\ walk' = [name |-> n, rest |-> names \ {n}]
        /\ inst' = [now EXCEPT ![n].stage = "stopping"] /\ held' = holds \ {n}

WatchdogWakes ==
    /\ watchdog = "asleep" /\ Look(held, inst, held)
    /\ UNCHANGED <<regRunning, toStart>>

\* The old instance is stopped: restart() makes the new one.
Replace ==
    /\ watchdog = "stop"
    /\ LET n == walk.name
           now == [inst EXCEPT ![n] = Fresh(n)]
       IN IF n \in Loading
            THEN /\ watchdog' = "start" /\ inst' = now /\ held' = held \cup {n}
                 /\ UNCHANGED walk
            ELSE Look(walk.rest, now, held \cup {n})
    /\ UNCHANGED <<regRunning, toStart>>

Reloaded ==
    /\ watchdog = "start"
    /\ Look(walk.rest, [inst EXCEPT ![walk.name] = Started], held)
    /\ UNCHANGED <<regRunning, toStart>>

-----------------------------------------------------------------------------
(* stop_all(): the watchdog is cancelled, then every instance is stopped.    *)

\* Mutant of CancelWatchdog: it is left to notice that _running is gone.
LeaveWatchdog ==
    UNCHANGED <<watchdog, walk>> /\ inst' = [n \in Names |->
        IF n \in held /\ inst[n].stage = "running" THEN [inst[n] EXCEPT !.stage = "stopping"] ELSE inst[n]]

\* The restart it is in, if any, is cut off: nobody goes on with that instance.
\* Then the instances that are _running get their stop().
CancelWatchdog ==
    /\ watchdog' = "off" /\ walk' = <<>>
    /\ inst' = [n \in Names |->
        CASE watchdog # "asleep" /\ n = walk.name -> [inst[n] EXCEPT !.stage = "cut"]
          [] n \in held /\ inst[n].stage = "running" -> [inst[n] EXCEPT !.stage = "stopping"]
          [] OTHER -> inst[n]]

StopAll ==
    /\ regRunning /\ watchdog # "off" /\ regRunning' = FALSE
    /\ CancelWatchdog
    /\ UNCHANGED <<held, toStart>>

\* stop() of an instance: its tasks are cancelled and awaited, then its HTTP
\* session is closed.
Stopped ==
    /\ ~regRunning
    /\ \E n \in held :
        /\ inst[n].stage = "stopping"
        /\ inst' = [inst EXCEPT ![n] = [stage |-> "stopped", alive |-> 0, session |-> FALSE]]
    /\ UNCHANGED <<regRunning, held, toStart, watchdog, walk>>

\* The gather() of the stops is over, when there was anything to stop.
Quiet == ~regRunning /\ \A n \in held : inst[n].stage # "stopping"

AllStopped ==
    /\ Quiet /\ held' = {}
    /\ UNCHANGED <<regRunning, inst, toStart, watchdog, walk>>
=============================================================================
