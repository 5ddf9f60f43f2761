---------------------------- MODULE FundingService ----------------------------
(***************************************************************************)
(* FundingService (app/services/funding_service.py) with the two           *)
(* calculators it drives.  Four tasks share one event loop: the subscriber *)
(* of funding:updates, the timed recalculation, the purge loop and the DB  *)
(* writer (module FundingPersist).  The subscriber and the timed task both *)
(* run _recalculate(), whose two Redis commands are awaits: between        *)
(* computing a result and Redis storing it, any other task may run.        *)
(*                                                                         *)
(* Time passes in ticks.  A sleeping task wakes in the tick its timer ends *)
(* in (the event loop runs ready tasks before it sleeps again) and Redis   *)
(* answers or fails within MaxLatency ticks; the code sets no socket       *)
(* timeout, so this is an assumption about the network.                    *)
(***************************************************************************)
EXTENDS Normalizer, Sequences

CONSTANTS
    RecalcEveryN,         \* recalculate_every_n
    RecalcEvery,          \* recalculate_every_seconds
    PurgeInterval,        \* purge_interval
    KeyTTL,               \* REDIS_KEY_TTL
    ReconnectDelay,       \* the 3 s pause of the subscriber
    MaxLatency,           \* longest Redis round trip, in ticks
    TakerFeePct,          \* taker fee of one leg and one trade, same for every exchange
    MinNetApr,            \* min_net_apr_taker
    MaxInbox,             \* bound: messages waiting in the subscriber's socket
    Malformed             \* a message that does not parse

Tasks == {"sub", "timed"}
RecalcCap == 2 * RecalcEvery + 2 * MaxLatency + 1   \* bound: sinceRecalc is told apart up to here

Message == [exchange : Exchanges, token : Tokens, apr : Aprs]

ASSUME FundingServiceAssumption ==
    /\ RecalcEveryN \in Nat \ {0} /\ RecalcEvery \in Nat \ {0}
    /\ PurgeInterval \in Nat \ {0} /\ KeyTTL \in Nat \ {0}
    /\ ReconnectDelay \in Nat /\ MaxLatency \in Nat /\ MaxInbox \in Nat \ {0}
    /\ TakerFeePct \in Int /\ MinNetApr \in Int
    /\ AgeCap > StaleAfter + PurgeInterval
    /\ Malformed \notin Message

VARIABLES
    inbox,          \* messages delivered to the subscription, oldest first
    updateCounter,  \* _update_counter modulo RecalcEveryN, the only part of it that is read
    sinceRecalc,    \* ticks since _last_recalc_at, saturating
    pc,             \* where each recalculating task is
    wait,           \* its timer (sleeping) or the ticks its command is in flight
    payload,        \* what its command in flight will store
    overtaken,      \* history: a result computed later than that payload is already stored
    newest,         \* history: the task that computed its pairs last
    purgeWait,      \* timer of the purge loop
    current,        \* Redis key arbitrage:current and its remaining life
    ranked,         \* Redis key funding:ranked and its remaining life
    regressed       \* history: arbitrage:current was overwritten by an older result

taskVars == <<pc, wait, payload, overtaken, newest>>
redisVars == <<current, ranked, regressed>>
vars == <<storeVars, inbox, updateCounter, sinceRecalc, taskVars, purgeWait, redisVars>>

Leg == [exchange : Exchanges, apr : Aprs, stale : BOOLEAN]
Pair == [token : Tokens, long : Leg, short : Leg]
NoKey == [val |-> {}, ttl |-> 0]        \* the key does not exist

TaskTypeOK ==
    /\ sinceRecalc \in 0..RecalcCap
    /\ pc \in [Tasks -> {"connect", "backoff", "listen", "sleep", "arb", "rank"}]
    /\ wait \in [Tasks -> Nat]
    /\ payload \in [Tasks -> (SUBSET Pair) \cup (SUBSET Tokens)]
    /\ \A k \in Tasks : payload[k] \subseteq (IF pc[k] = "rank" THEN Tokens ELSE Pair)
    /\ overtaken \in [Tasks -> BOOLEAN] /\ newest \in Tasks

QueueTypeOK ==
    /\ inbox \in Seq(Message \cup {Malformed}) /\ Len(inbox) <= MaxInbox
    /\ updateCounter \in 0..(RecalcEveryN - 1)
    /\ purgeWait \in 0..PurgeInterval
    /\ current \in [val : SUBSET Pair, ttl : 0..KeyTTL]
    /\ ranked \in [val : SUBSET Tokens, ttl : 0..KeyTTL]
    /\ regressed \in BOOLEAN

TypeOK == StoreTypeOK /\ TaskTypeOK /\ QueueTypeOK

Init ==
    /\ StoreInit
    /\ inbox = <<>>
    /\ updateCounter = 0
    /\ sinceRecalc = RecalcEvery    \* _last_recalc_at = 0.0: due at the first timed check
    /\ pc = [sub |-> "connect", timed |-> "sleep"]
    /\ wait = [sub |-> 0, timed |-> RecalcEvery]
    /\ payload = [k \in Tasks |-> {}]
    /\ overtaken = [k \in Tasks |-> FALSE] /\ newest = "sub"
    /\ purgeWait = PurgeInterval
    /\ current = NoKey /\ ranked = NoKey /\ regressed = FALSE

-----------------------------------------------------------------------------
(* The calculators: functions of the token views tv they find.               *)

\* arbitrage_candidates(): tokens with at least two live exchanges.
ArbitrageCandidates(tv) == {t \in Tokens : Cardinality(Live(tv[t])) >= 2}

LegOf(v, e) == [exchange |-> e, apr |-> v[e].apr, stale |-> IsStale(v[e])]

\* Lowest APR long, highest short, over all_snapshots(): stale ones included.
\* Which exchange comes first among equal APRs depends on dict order: any.
BestPairs(v, t) ==
    {pair \in [token : {t}, long : {LegOf(v, e) : e \in Held(v)}, short : {LegOf(v, e) : e \in Held(v)}] :
        /\ pair.long.exchange # pair.short.exchange
        /\ \A e \in Held(v) : pair.long.apr <= v[e].apr /\ v[e].apr <= pair.short.apr}

\* Fees are paid on both legs, on entry and on exit.
NetAprTaker(pair) == (pair.short.apr - pair.long.apr) - (TakerFeePct + TakerFeePct) * 2

\* ArbitrageCalculator.calculate(): one pair per candidate, the unprofitable
\* ones filtered out; the set of results one run may produce.
Calculate(tv) ==
    LET cands == ArbitrageCandidates(tv)
        choices == {f \in [cands -> UNION {BestPairs(tv[t], t) : t \in cands}] :
                        \A t \in cands : f[t].token = t}
    IN  {{pair \in {f[t] : t \in cands} : NetAprTaker(pair) >= MinNetApr} : f \in choices}

\* FundingAggregator.build_ranked(): tokens with no live data are left out.
BuildRanked(tv) == {t \in Tokens : Live(tv[t]) # {}}

-----------------------------------------------------------------------------
(* _recalculate(): stamp the time, compute the pairs, await their SET, then  *)
(* compute the ranking and await its SET.  Task k runs it.  A result stays   *)
(* in flight until Redis has executed the command or the command has failed; *)
(* a failure is logged and the task goes on.                                 *)

Other(k) == IF k = "sub" THEN "timed" ELSE "sub"

\* The pairs are computed from the store the calling handler leaves behind.
StartRecalc(k) ==
    /\ sinceRecalc' = 0
    /\ pc' = [pc EXCEPT ![k] = "arb"]
    /\ wait' = [wait EXCEPT ![k] = 0]
    /\ \E result \in Calculate(tokenViews') : payload' = [payload EXCEPT ![k] = result]
    /\ overtaken' = [overtaken EXCEPT ![k] = FALSE]
    /\ newest' = k

\* Mutant of Expiring: the key is SET without ex=REDIS_KEY_TTL.
NotExpiring(key) == key

\* A key lives KeyTTL ticks after its last SET.
Expiring(key) == IF key.ttl <= 1 THEN NoKey ELSE [key EXCEPT !.ttl = @ - 1]

\* Mutant of Stored: the key outlives REDIS_KEY_TTL.
StoredLonger(v) == [val |-> v, ttl |-> KeyTTL + 1]

Stored(v) == [val |-> v, ttl |-> KeyTTL]

SetCurrent(k) ==
    /\ current' = Stored(payload[k])
    /\ regressed' = overtaken[k]

ArbPublished(k) ==
    /\ pc[k] = "arb"
    /\ \/ /\ SetCurrent(k)
          /\ overtaken' = [overtaken EXCEPT ![Other(k)] = @ \/ (newest = k /\ pc[Other(k)] = "arb")]
       \/ UNCHANGED <<current, regressed, overtaken>>
    /\ pc' = [pc EXCEPT ![k] = "rank"]
    /\ wait' = [wait EXCEPT ![k] = 0]
    /\ payload' = [payload EXCEPT ![k] = BuildRanked(tokenViews)]
    /\ UNCHANGED <<storeVars, inbox, updateCounter, sinceRecalc, newest, purgeWait, ranked>>

\* The subscriber goes back to its messages, the timed task to sleep.
RankPublished(k) ==
    /\ pc[k] = "rank"
    /\ ranked' \in {ranked, Stored(payload[k])}
    /\ pc' = [pc EXCEPT ![k] = IF k = "sub" THEN "listen" ELSE "sleep"]
    /\ wait' = [wait EXCEPT ![k] = IF k = "sub" THEN 0 ELSE RecalcEvery]
    /\ payload' = [payload EXCEPT ![k] = {}]
    /\ UNCHANGED <<storeVars, inbox, updateCounter, sinceRecalc, overtaken, newest, purgeWait,
                   current, regressed>>

-----------------------------------------------------------------------------
(* The subscriber.                                                           *)

Subscribed == pc["sub"] \in {"listen", "arb", "rank"}

\* A collector publishes on funding:updates; without a subscription Redis drops it.
Publish(m) ==
    /\ Subscribed /\ Len(inbox) < MaxInbox
    /\ inbox' = Append(inbox, m)
    /\ UNCHANGED <<storeVars, updateCounter, sinceRecalc, taskVars, purgeWait, redisVars>>

Subscribe ==
    /\ pc["sub"] = "connect"
    /\ \/ pc' = [pc EXCEPT !["sub"] = "listen"] /\ wait' = [wait EXCEPT !["sub"] = 0]
       \/ pc' = [pc EXCEPT !["sub"] = "backoff"] /\ wait' = [wait EXCEPT !["sub"] = ReconnectDelay]
    /\ UNCHANGED <<storeVars, inbox, updateCounter, sinceRecalc, payload, overtaken, newest,
                   purgeWait, redisVars>>

\* listen() raises: whatever was still waiting in the socket is lost.
ConnectionLost ==
    /\ pc["sub"] = "listen"
    /\ inbox' = <<>>
    /\ pc' = [pc EXCEPT !["sub"] = "backoff"]
    /\ wait' = [wait EXCEPT !["sub"] = ReconnectDelay]
    /\ UNCHANGED <<storeVars, updateCounter, sinceRecalc, payload, overtaken, newest, purgeWait,
                   redisVars>>

Reconnect ==
    /\ pc["sub"] = "backoff" /\ wait["sub"] = 0
    /\ pc' = [pc EXCEPT !["sub"] = "connect"]
    /\ UNCHANGED <<storeVars, inbox, updateCounter, sinceRecalc, wait, payload, overtaken, newest,
                   purgeWait, redisVars>>

\* _handle_message(): a message that does not parse is dropped with a warning.
HandleMessage ==
    /\ pc["sub"] = "listen" /\ inbox # <<>>
    /\ inbox' = Tail(inbox)
    /\ \/ /\ Head(inbox) = Malformed
          /\ UNCHANGED <<storeVars, updateCounter, sinceRecalc, taskVars>>
       \/ /\ Head(inbox) # Malformed
          /\ LET m == Head(inbox) IN Update(m.exchange, m.token, m.apr)
          /\ updateCounter' = (updateCounter + 1) % RecalcEveryN
          /\ IF updateCounter' = 0 THEN StartRecalc("sub") ELSE UNCHANGED <<sinceRecalc, taskVars>>
    /\ UNCHANGED <<purgeWait, redisVars>>

-----------------------------------------------------------------------------
(* The timers.                                                               *)

\* Mutant of TimedDue: the comparison turned round.
TimedNotDue == sinceRecalc < RecalcEvery

TimedDue == sinceRecalc >= RecalcEvery

\* _timed_recalc_loop() wakes; if the subscriber recalculated lately it sleeps again.
TimedWake ==
    /\ pc["timed"] = "sleep" /\ wait["timed"] = 0
    /\ UNCHANGED storeVars
    /\ IF TimedDue THEN StartRecalc("timed")
       ELSE /\ wait' = [wait EXCEPT !["timed"] = RecalcEvery]
            /\ UNCHANGED <<sinceRecalc, pc, payload, overtaken, newest>>
    /\ UNCHANGED <<inbox, updateCounter, purgeWait, redisVars>>

PurgeWake ==
    /\ purgeWait = 0
    /\ PurgeStale
    /\ purgeWait' = PurgeInterval
    /\ UNCHANGED <<inbox, updateCounter, sinceRecalc, taskVars, redisVars>>

Sleeping(k) == pc[k] \in {"sleep", "backoff"}
InFlight(k) == pc[k] \in {"connect", "arb", "rank"}

Tick ==
    /\ purgeWait > 0
    /\ \A k \in Tasks : /\ Sleeping(k) => wait[k] > 0
                        /\ InFlight(k) => wait[k] < MaxLatency
    /\ AgeStore
    /\ sinceRecalc' = IF sinceRecalc < RecalcCap THEN sinceRecalc + 1 ELSE RecalcCap
    /\ wait' = [k \in Tasks |-> IF Sleeping(k) THEN wait[k] - 1
                                ELSE IF InFlight(k) THEN wait[k] + 1 ELSE wait[k]]
    /\ purgeWait' = purgeWait - 1
    /\ current' = Expiring(current)
    /\ ranked' = Expiring(ranked)
    /\ regressed' = (regressed /\ current' # NoKey)
    /\ UNCHANGED <<inbox, updateCounter, pc, payload, overtaken, newest>>

-----------------------------------------------------------------------------
(* stop() or a crash, and start() in a new process: everything in memory is  *)
(* gone, the Redis keys live on, and a cancelled task's command may still    *)
(* have reached Redis.                                                       *)
Restart ==
    /\ \/ \E k \in Tasks : pc[k] = "arb" /\ SetCurrent(k) /\ UNCHANGED ranked
       \/ \E k \in Tasks : pc[k] = "rank" /\ ranked' = Stored(payload[k]) /\ UNCHANGED <<current, regressed>>
       \/ UNCHANGED redisVars
    /\ snapshots' = [p \in Exchanges \X Tokens |-> Absent]
    /\ tokenViews' = [t \in Tokens |-> Absent]
    /\ inbox' = <<>> /\ updateCounter' = 0 /\ sinceRecalc' = RecalcEvery
    /\ pc' = [sub |-> "connect", timed |-> "sleep"]
    /\ wait' = [sub |-> 0, timed |-> RecalcEvery]
    /\ payload' = [k \in Tasks |-> {}]
    /\ overtaken' = [k \in Tasks |-> FALSE] /\ newest' = "sub"
    /\ purgeWait' = PurgeInterval

Collect == \E m \in Message \cup {Malformed} : Publish(m)

Next ==
    \/ Collect
    \/ Subscribe \/ ConnectionLost \/ Reconnect \/ HandleMessage
    \/ TimedWake \/ PurgeWake \/ Tick \/ Restart
    \/ \E k \in Tasks : ArbPublished(k) \/ RankPublished(k)

\* Every task of the loop gets its turn and time goes on; nothing obliges a
\* collector to publish, a command to succeed, a connection to break.
Fairness ==
    /\ WF_vars(Subscribe) /\ WF_vars(Reconnect) /\ WF_vars(HandleMessage)
    /\ WF_vars(TimedWake) /\ WF_vars(PurgeWake) /\ WF_vars(Tick)
    /\ \A k \in Tasks : WF_vars(ArbPublished(k)) /\ WF_vars(RankPublished(k))

Spec == Init /\ [][Next]_vars /\ Fairness

-----------------------------------------------------------------------------
(* Properties.                                                               *)

\* The purge loop bounds what stale data can reach the calculators, which do
\* not look at staleness once a token is a candidate: no snapshot in the store
\* outlives the staleness limit by more than one purge interval.
AgeBounded ==
    \A p \in Exchanges \X Tokens :
        snapshots[p] # Absent => snapshots[p].age <= StaleAfter + PurgeInterval

\* Two paths recalculate and the timed one skips its turn when the subscriber
\* was recently active.  Whatever they do to each other, the last recalculation
\* is never further back than two periods, or one period and two round trips.
GapBound == IF RecalcEvery < 2 * MaxLatency THEN RecalcEvery + 2 * MaxLatency ELSE 2 * RecalcEvery
RecalcGap == sinceRecalc <= GapBound

\* "Snapshots older than stale_after_seconds are excluded from arbitrage"
\* (module docstring): no pair about to be published has a leg that was stale
\* when the pair was computed.
OnlyLiveLegs ==
    \A k \in Tasks : pc[k] = "arb" =>
        \A pair \in payload[k] : ~pair.long.stale /\ ~pair.short.stale

\* When the feed falls silent, what was published is withdrawn for good: the
\* keys become empty or expire, whichever of the two recalculations and of the
\* failing commands comes last.
Withdrawn == current.val = {} /\ ranked.val = {}
SilentFeedWithdrawn ==
    []<><<HandleMessage>>_vars \/ []<><<Restart>>_vars \/ <>[]Withdrawn

\* The two recalculating tasks race for arbitrage:current and the older result
\* may win.  It does not stay: a later recalculation or the key's expiry clears it.
OverwriteRepaired == regressed ~> ~regressed

=============================================================================
