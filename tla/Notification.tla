----------------------------- MODULE Notification -----------------------------
(***************************************************************************)
(* Alerts: NotificationService.check_and_notify()                          *)
(* (app/services/notification_service.py), the bot commands that edit what *)
(* it reads (app/bot/telegram_bot.py) and the tier changes Stripe causes   *)
(* (app/services/payment_service.py).  They share the database, the Redis  *)
(* copy of the rules (notif:rules_cache) and one throttle key per user and *)
(* token.  Every await is a step boundary: the checker, its alerts (which  *)
(* asyncio.gather runs side by side), the bot and the webhook interleave.  *)
(*                                                                         *)
(* APScheduler never runs two checks at once (max_instances=1) and the bot *)
(* handles its updates one after the other.  A check takes less than a     *)
(* tick: the HTTP timeout is 10 s, the time to live of the rules copy      *)
(* 300 s and of a throttle key 1800 s.                                     *)
(***************************************************************************)
EXTENDS Naturals, FiniteSets

CONSTANTS
    Users, Tokens, Chats,
    RuleIds,        \* bound: rows notification_rules ever gets
    MaxRules,       \* active rules a user may have (20 in the code)
    ThrottleTTL,    \* _THROTTLE_TTL, in ticks
    CacheTTL,       \* _RULE_CACHE_TTL, in ticks
    None,           \* no chat linked, key absent, row not there
    LostReplies,    \* BOOLEAN: Telegram may deliver and its answer get lost
    Failures,       \* BOOLEAN: Redis, database and Telegram calls may fail, the process crash
    TierChanges     \* BOOLEAN: Stripe events arrive

ASSUME NotificationAssumption ==
    /\ MaxRules \in Nat \ {0} /\ ThrottleTTL \in Nat \ {0} /\ CacheTTL \in Nat \ {0}
    /\ LostReplies \in BOOLEAN /\ Failures \in BOOLEAN /\ TierChanges \in BOOLEAN
    /\ None \notin Chats

VARIABLES
    paid,           \* users.tier is PRO or CUSTOM
    chat,           \* users.telegram_chat_id
    rules,          \* notification_rules, by id
    quiet,          \* history: ticks since one of the three changed, saturating
    cache,          \* notif:rules_cache: the rules and the life left, or None
    throttle,       \* notif:throttle:{user}:{token}: the life left, 0 when absent
    matching,       \* the rules an opportunity of arbitrage:current satisfies
    check,          \* where the running check is
    found,          \* the opportunities it read, as the rules they satisfy
    loaded,         \* the rules it works with
    alerts,         \* where the alert of each rule it dispatched is
    bot,            \* "idle", or "committed" and the rules copy not yet deleted
    sinceAlert,     \* history: ticks since (user, token) got an alert, saturating
    lastAlert       \* history: what was true when the last alert was delivered

dbVars == <<paid, chat, rules>>
checkVars == <<check, found, loaded, alerts>>
historyVars == <<sinceAlert, lastAlert>>
vars == <<dbVars, quiet, cache, throttle, matching, checkVars, bot, historyVars>>

Row == [user : Users, token : Tokens, active : BOOLEAN]
Entry == [rule : RuleIds, user : Users, token : Tokens, chat : Chats]
Keys == Users \X Tokens
Stages == {"done", "acquire", "windows", "send", "release"}

TypeOK ==
    /\ paid \in [Users -> BOOLEAN]
    /\ chat \in [Users -> Chats \cup {None}]
    /\ rules \in [RuleIds -> Row \cup {None}]
    /\ quiet \in 0..CacheTTL
    /\ cache \in [rules : SUBSET Entry, ttl : 1..CacheTTL] \cup {None}
    /\ throttle \in [Keys -> 0..ThrottleTTL]
    /\ matching \subseteq RuleIds /\ found \subseteq RuleIds
    /\ check \in {"idle", "cache", "load", "fill", "dispatch", "alerts"}
    /\ loaded \subseteq Entry
    /\ alerts \in [RuleIds -> Stages]
    /\ bot \in {"idle", "committed"}
    /\ sinceAlert \in [Keys -> 0..ThrottleTTL]
    /\ lastAlert \in [gap : 0..ThrottleTTL, current : BOOLEAN, quiet : 0..CacheTTL]
                    \cup {None}

Init ==
    /\ paid \in [Users -> BOOLEAN]
    /\ chat = [u \in Users |-> None]
    /\ rules = [r \in RuleIds |-> None]
    /\ quiet = CacheTTL
    /\ cache = None
    /\ throttle = [k \in Keys |-> 0]
    /\ matching = {} /\ check = "idle" /\ found = {} /\ loaded = {}
    /\ alerts = [r \in RuleIds |-> "done"]
    /\ bot = "idle"
    /\ sinceAlert = [k \in Keys |-> ThrottleTTL]
    /\ lastAlert = None

-----------------------------------------------------------------------------
(* What _load_rules_from_db() selects: active rules of paying users with a chat. *)

ActiveRules == {r \in RuleIds : rules[r] # None /\ rules[r].active}

DbRules ==
    {[rule |-> r, user |-> rules[r].user, token |-> rules[r].token,
      chat |-> chat[rules[r].user]] :
        r \in {a \in ActiveRules : paid[rules[a].user] /\ chat[rules[a].user] # None}}

EntryOf(r) == CHOOSE e \in loaded : e.rule = r
KeyOf(r) == <<EntryOf(r).user, EntryOf(r).token>>

StopCheck ==
    /\ check' = "idle" /\ found' = {} /\ loaded' = {}
    /\ alerts' = [r \in RuleIds |-> "done"]

\* check_and_notify() reads arbitrage:current.  An empty list ends it; a list
\* that satisfies no rule does not.
StartCheck ==
    /\ check = "idle"
    /\ check' = "cache" /\ found' = matching
    /\ UNCHANGED <<dbVars, quiet, cache, throttle, matching, loaded, alerts, bot, historyVars>>

\* _get_rules_cached(): GET of the rules copy.
ReadCache ==
    /\ check = "cache"
    /\ IF cache = None
         THEN check' = "load" /\ loaded' = {}
         ELSE check' = "dispatch" /\ loaded' = cache.rules
    /\ UNCHANGED <<dbVars, quiet, cache, throttle, matching, found, alerts, bot, historyVars>>

\* _load_rules_from_db(): no rule ends the check and leaves no copy.
LoadRules ==
    /\ check = "load"
    /\ \/ DbRules = {} /\ StopCheck
       \/ /\ DbRules # {}
          /\ check' = "fill" /\ loaded' = DbRules
          /\ UNCHANGED <<found, alerts>>
    /\ UNCHANGED <<dbVars, quiet, cache, throttle, matching, bot, historyVars>>

\* Mutant of the copy: it outlives _RULE_CACHE_TTL.
LongCopy(rs) == [rules |-> rs, ttl |-> CacheTTL + 1]

Copy(rs) == [rules |-> rs, ttl |-> CacheTTL]

\* SET notif:rules_cache: the rows read before, whatever was deleted meanwhile.
FillCache ==
    /\ check = "fill"
    /\ cache' = Copy(loaded) /\ check' = "dispatch"
    /\ UNCHANGED <<dbVars, quiet, throttle, matching, found, loaded, alerts, bot, historyVars>>

\* _process_rules(): one task per rule that an opportunity satisfies.
Dispatch ==
    /\ check = "dispatch"
    /\ LET due == {e.rule : e \in loaded} \cap found
       IN  IF due = {}
             THEN StopCheck
             ELSE /\ check' = "alerts"
                  /\ alerts' = [r \in RuleIds |-> IF r \in due THEN "acquire" ELSE "done"]
                  /\ UNCHANGED <<found, loaded>>
    /\ UNCHANGED <<dbVars, quiet, cache, throttle, matching, bot, historyVars>>

\* asyncio.gather() returns once every task has ended.
Finish ==
    /\ check = "alerts" /\ \A r \in RuleIds : alerts[r] = "done"
    /\ StopCheck
    /\ UNCHANGED <<dbVars, quiet, cache, throttle, matching, bot, historyVars>>

-----------------------------------------------------------------------------
(* _maybe_alert() of one rule.                                              *)

AlertStep(r, from, to) ==
    /\ alerts[r] = from
    /\ alerts' = [alerts EXCEPT ![r] = to]
    /\ UNCHANGED <<dbVars, quiet, cache, matching, check, found, loaded, bot>>

\* Mutant of SET NX: a plain SET, which always succeeds.
SetAlways(k) == TRUE

NotThrottled(k) == throttle[k] = 0

\* SET throttle_key NX EX 1800.
Acquire(r) ==
    /\ AlertStep(r, "acquire", "windows")
    /\ NotThrottled(KeyOf(r))
    /\ throttle' = [throttle EXCEPT ![KeyOf(r)] = ThrottleTTL]
    /\ UNCHANGED historyVars

Throttled(r) ==
    /\ AlertStep(r, "acquire", "done")
    /\ ~NotThrottled(KeyOf(r))
    /\ UNCHANGED <<throttle, historyVars>>

\* APRWindowHelper.get_pair_windows() and _format_alert().
Windows(r) ==
    /\ AlertStep(r, "windows", "send")
    /\ UNCHANGED <<throttle, historyVars>>

Delivered(r) ==
    /\ sinceAlert' = [sinceAlert EXCEPT ![KeyOf(r)] = 0]
    /\ lastAlert' = [gap |-> sinceAlert[KeyOf(r)], current |-> EntryOf(r) \in DbRules,
                     quiet |-> quiet]

\* TelegramSender.send() returned True.
SendOk(r) ==
    /\ AlertStep(r, "send", "done")
    /\ Delivered(r)
    /\ UNCHANGED throttle

\* The message arrived; the answer did not within 10 s: send() returned False.
SendReplyLost(r) ==
    /\ LostReplies
    /\ AlertStep(r, "send", "release")
    /\ Delivered(r)
    /\ UNCHANGED throttle

\* The message did not arrive: send() returned False.
SendFails(r) ==
    /\ Failures
    /\ AlertStep(r, "send", "release")
    /\ UNCHANGED <<throttle, historyVars>>

\* DEL throttle_key, "so we can retry next cycle".
Release(r) ==
    /\ AlertStep(r, "release", "done")
    /\ throttle' = [throttle EXCEPT ![KeyOf(r)] = 0]
    /\ UNCHANGED historyVars

\* A Redis call raises (or the formatting does): gather() swallows it, and the
\* throttle key stays as it is.
AlertRaises(r) ==
    /\ Failures
    /\ \E stage \in {"acquire", "windows", "release"} : AlertStep(r, stage, "done")
    /\ UNCHANGED <<throttle, historyVars>>

Alert(r) ==
    \/ Acquire(r) \/ Throttled(r) \/ Windows(r)
    \/ SendOk(r) \/ SendReplyLost(r) \/ SendFails(r) \/ Release(r) \/ AlertRaises(r)

\* A call outside the alerts fails: GET of the copy and SET of it raise, the
\* query returns no rows.  The check ends.
CheckFails ==
    /\ Failures /\ check \in {"cache", "load", "fill"}
    /\ StopCheck
    /\ UNCHANGED <<dbVars, quiet, cache, throttle, matching, bot, historyVars>>

-----------------------------------------------------------------------------
(* The bot, Stripe, the market, the clock and the process.                  *)

\* A command commits; the DELETE of the rules copy is its next await.
Commit ==
    /\ bot = "idle" /\ bot' = "committed" /\ quiet' = 0
    /\ UNCHANGED <<paid, cache, throttle, matching, checkVars, historyVars>>

\* /start <api_key>: chat ids are not unique, nor is a chat moved away from
\* another account.
CmdStart(u, c) ==
    /\ Commit
    /\ chat' = [chat EXCEPT ![u] = c]
    /\ UNCHANGED rules

\* /setalert from chat c, for a user linked to it.
CmdSetAlert(u, c, t) ==
    /\ chat[u] = c /\ paid[u]
    /\ Cardinality({r \in ActiveRules : rules[r].user = u}) < MaxRules
    /\ Commit
    /\ \E r \in RuleIds :
         /\ rules[r] = None
         /\ rules' = [rules EXCEPT ![r] = [user |-> u, token |-> t, active |-> TRUE]]
    /\ UNCHANGED chat

\* /removealert <id> from chat c.
CmdRemoveAlert(c, r) ==
    /\ r \in ActiveRules /\ chat[rules[r].user] = c
    /\ Commit
    /\ rules' = [rules EXCEPT ![r].active = FALSE]
    /\ UNCHANGED chat

BotInvalidate ==
    /\ bot = "committed" /\ bot' = "idle"
    /\ \/ cache' = None
       \/ Failures /\ UNCHANGED cache
    /\ UNCHANGED <<dbVars, quiet, throttle, matching, checkVars, historyVars>>

\* _upgrade_user() and _downgrade_user_by_customer(): neither touches the rules
\* nor their copy.
TierChange(u) ==
    /\ TierChanges
    /\ paid' = [paid EXCEPT ![u] = ~@] /\ quiet' = 0
    /\ UNCHANGED <<chat, rules, cache, throttle, matching, checkVars, bot, historyVars>>

MarketMoves ==
    /\ matching' \in SUBSET RuleIds /\ matching' # matching
    /\ UNCHANGED <<dbVars, quiet, cache, throttle, checkVars, bot, historyVars>>

\* The process dies, or is redeployed; Redis and the database stay.
Crash ==
    /\ Failures /\ (check # "idle" \/ bot # "idle")
    /\ StopCheck /\ bot' = "idle"
    /\ UNCHANGED <<dbVars, quiet, cache, throttle, matching, historyVars>>

AgedCopy ==
    IF cache = None \/ cache.ttl = 1 THEN None ELSE [cache EXCEPT !.ttl = @ - 1]

Up(n, max) == IF n < max THEN n + 1 ELSE n

\* Mutant of a throttle key: set without EX.
Forever(n) == n

Down(n) == IF n > 0 THEN n - 1 ELSE 0

Tick ==
    /\ check = "idle"
    /\ quiet' = Up(quiet, CacheTTL)
    /\ cache' = AgedCopy
    /\ throttle' = [k \in Keys |-> Down(throttle[k])]
    /\ sinceAlert' = [k \in Keys |-> Up(sinceAlert[k], ThrottleTTL)]
    /\ UNCHANGED <<dbVars, matching, checkVars, bot, lastAlert>>

Next ==
    \/ StartCheck \/ ReadCache \/ LoadRules \/ FillCache \/ Dispatch \/ Finish \/ CheckFails
    \/ \E r \in RuleIds : Alert(r)
    \/ \E u \in Users, c \in Chats : CmdStart(u, c)
    \/ \E u \in Users, c \in Chats, t \in Tokens : CmdSetAlert(u, c, t)
    \/ \E c \in Chats, r \in RuleIds : CmdRemoveAlert(c, r)
    \/ BotInvalidate
    \/ \E u \in Users : TierChange(u)
    \/ MarketMoves \/ Crash \/ Tick

Spec == Init /\ [][Next]_vars

-----------------------------------------------------------------------------
(* Safety                                                                   *)

(* "throttle: max 1 alert per (user_id, token) every 30 min"                *)
(* (notification_service.py:11).  While a failed send() means that nothing  *)
(* was delivered, a user gets at most one alert per token and               *)
(* _THROTTLE_TTL, whatever crashes, failed sends and releases, and second   *)
(* rules on the same token come between.                                    *)
AlertsSpaced == lastAlert # None => lastAlert.gap = ThrottleTTL

(* Once users, chats, tiers and rules have been left alone for              *)
(* _RULE_CACHE_TTL, every alert goes out by a rule that is still active, of *)
(* a user who still pays, to the chat linked last: a lost invalidation, a   *)
(* copy filled from rows read before a command, a tier change that          *)
(* invalidates nothing are all repaired by then.                            *)
AlertsSettle ==
    lastAlert # None /\ lastAlert.quiet = CacheTTL => lastAlert.current

-----------------------------------------------------------------------------
(* Liveness: APScheduler starts a check after every interval, a call that   *)
(* is tried again and again succeeds at times, time passes.                 *)

Fairness ==
    /\ WF_vars(StartCheck) /\ WF_vars(Finish)
    /\ WF_vars(BotInvalidate)
    /\ SF_vars(ReadCache) /\ SF_vars(LoadRules) /\ SF_vars(FillCache) /\ SF_vars(Dispatch)
    /\ \A r \in RuleIds :
         /\ SF_vars(Acquire(r)) /\ WF_vars(Throttled(r)) /\ SF_vars(Windows(r))
         /\ SF_vars(SendOk(r)) /\ WF_vars(Release(r))
    /\ SF_vars(Tick)

FairSpec == Spec /\ Fairness

Wanted(r, u, t) ==
    /\ r \in matching \cap ActiveRules
    /\ rules[r].user = u /\ rules[r].token = t
    /\ paid[u] /\ chat[u] # None

(* A rule that stays active, of a user who stays subscribed and linked, on  *)
(* an opportunity that lasts, alerts again and again: no crash between the  *)
(* throttle key and the message, no failed send or release, no stale copy   *)
(* silences it for good.                                                    *)
LastingRuleAlerts ==
    \A r \in RuleIds, u \in Users, t \in Tokens :
        <>[]Wanted(r, u, t) => []<>(sinceAlert[<<u, t>>] = 0)

=============================================================================
