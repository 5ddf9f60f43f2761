-------------------------- MODULE Notification_proofs --------------------------
(***************************************************************************)
(* Alerts keep their distance and follow the rules as they are, for any    *)
(* number of users, tokens, chats and rules.                               *)
(***************************************************************************)
EXTENDS Notification, TLAPS

USE NotificationAssumption

-----------------------------------------------------------------------------
(* Types.                                                                   *)

\* The rules a check works with; an alert runs only in a check, by a rule of it.
CheckInv ==
    \A r \in RuleIds : alerts[r] # "done" =>
        check = "alerts" /\ \E e \in loaded : e.rule = r

LEMMA DbRulesType ==
    ASSUME TypeOK
    PROVE  DbRules \in SUBSET Entry
<1>1. ASSUME NEW r \in ActiveRules, paid[rules[r].user], chat[rules[r].user] # None
      PROVE  [rule |-> r, user |-> rules[r].user, token |-> rules[r].token,
              chat |-> chat[rules[r].user]] \in Entry
    <2>1. r \in RuleIds /\ rules[r] \in Row
        BY DEF ActiveRules, TypeOK
    <2>2. rules[r].user \in Users /\ rules[r].token \in Tokens
        BY <2>1 DEF Row
    <2>3. chat[rules[r].user] \in Chats
        BY <1>1, <2>2 DEF TypeOK
    <2> QED BY <2>1, <2>2, <2>3 DEF Entry
<1> QED BY <1>1 DEF DbRules

LEMMA EntryType ==
    ASSUME TypeOK, CheckInv, NEW r \in RuleIds, alerts[r] # "done"
    PROVE  /\ EntryOf(r) \in loaded /\ EntryOf(r).rule = r
           /\ KeyOf(r) \in Keys
<1>1. \E e \in loaded : e.rule = r
    BY DEF CheckInv
<1>2. EntryOf(r) \in loaded /\ EntryOf(r).rule = r
    BY <1>1 DEF EntryOf
<1>3. EntryOf(r) \in Entry
    BY <1>2 DEF TypeOK
<1> QED BY <1>2, <1>3 DEF KeyOf, Keys, Entry

Typed == TypeOK /\ CheckInv

LEMMA StopCheckTyped ==
    ASSUME Typed, StopCheck,
           UNCHANGED <<dbVars, quiet, cache, throttle, matching, historyVars>>,
           bot' \in {"idle", "committed"}
    PROVE  Typed'
BY DEF Typed, TypeOK, CheckInv, StopCheck, dbVars, historyVars, Stages

LEMMA CheckTyped ==
    ASSUME Typed,
           \/ StartCheck \/ ReadCache \/ LoadRules \/ FillCache \/ Dispatch \/ Finish \/ CheckFails
    PROVE  Typed'
<1>1. CASE StartCheck
    BY <1>1 DEF StartCheck, Typed, TypeOK, CheckInv, dbVars, historyVars
<1>2. CASE ReadCache
    <2>1. loaded' \in SUBSET Entry
        BY <1>2 DEF ReadCache, Typed, TypeOK
    <2> QED BY <1>2, <2>1 DEF ReadCache, Typed, TypeOK, CheckInv, dbVars, historyVars
<1>3. CASE LoadRules /\ ~StopCheck
    <2>1. loaded' \in SUBSET Entry
        BY <1>3, DbRulesType DEF LoadRules, Typed
    <2> QED BY <1>3, <2>1 DEF LoadRules, Typed, TypeOK, CheckInv, dbVars, historyVars
<1>4. CASE FillCache
    <2>1. cache' \in [rules : SUBSET Entry, ttl : 1..CacheTTL]
        BY <1>4 DEF FillCache, Copy, Typed, TypeOK
    <2> QED BY <1>4, <2>1 DEF FillCache, Typed, TypeOK, CheckInv, dbVars, historyVars
<1>5. CASE Dispatch /\ ~StopCheck
    <2> DEFINE due == {e.rule : e \in loaded} \cap found
    <2>1. /\ check' = "alerts"
          /\ alerts' = [r \in RuleIds |-> IF r \in due THEN "acquire" ELSE "done"]
          /\ UNCHANGED <<dbVars, quiet, cache, throttle, matching, bot, historyVars, found, loaded>>
        BY <1>5 DEF Dispatch
    <2>2. CheckInv'
        BY <2>1 DEF CheckInv
    <2> QED BY <2>1, <2>2 DEF Typed, TypeOK, Stages, dbVars, historyVars
<1>6. CASE (LoadRules /\ StopCheck) \/ (Dispatch /\ StopCheck) \/ Finish \/ CheckFails
    <2>1. StopCheck /\ UNCHANGED <<dbVars, quiet, cache, throttle, matching, bot, historyVars>>
        BY <1>6 DEF LoadRules, Dispatch, Finish, CheckFails
    <2> QED BY <2>1, StopCheckTyped DEF Typed, TypeOK
<1> QED BY <1>1, <1>2, <1>3, <1>4, <1>5, <1>6

LEMMA AlertTyped ==
    ASSUME Typed, NEW r \in RuleIds, Alert(r)
    PROVE  Typed'
<1>1. PICK from \in Stages, to \in Stages : AlertStep(r, from, to) /\ from # "done"
    BY DEF Alert, Acquire, Throttled, Windows, SendOk, SendReplyLost, SendFails, Release,
           AlertRaises, Stages
<1>2. /\ alerts' = [alerts EXCEPT ![r] = to] /\ alerts[r] # "done"
      /\ UNCHANGED <<dbVars, quiet, cache, matching, check, found, loaded, bot>>
    BY <1>1 DEF AlertStep
<1>3. KeyOf(r) \in Keys
    BY <1>2, EntryType DEF Typed
<1>4. throttle' \in [Keys -> 0..ThrottleTTL]
    BY <1>3 DEF Alert, Acquire, Throttled, Windows, SendOk, SendReplyLost, SendFails, Release,
                AlertRaises, Typed, TypeOK
<1>5. /\ sinceAlert' \in [Keys -> 0..ThrottleTTL]
      /\ lastAlert' \in [gap : 0..ThrottleTTL, current : BOOLEAN, quiet : 0..CacheTTL] \cup {None}
    <2>1. CASE Delivered(r)
        <3>1. sinceAlert[KeyOf(r)] \in 0..ThrottleTTL /\ quiet \in 0..CacheTTL
            BY <1>3 DEF Typed, TypeOK
        <3>2. (EntryOf(r) \in DbRules) \in BOOLEAN
            OBVIOUS
        <3>3. lastAlert' = [gap |-> sinceAlert[KeyOf(r)], current |-> EntryOf(r) \in DbRules,
                            quiet |-> quiet]
            BY <2>1 DEF Delivered
        <3>4. sinceAlert' \in [Keys -> 0..ThrottleTTL]
            BY <1>3, <2>1 DEF Delivered, Typed, TypeOK
        <3> HIDE DEF Delivered
        <3> QED BY <3>1, <3>2, <3>3, <3>4
    <2>2. CASE UNCHANGED historyVars
        BY <2>2 DEF historyVars, Typed, TypeOK
    <2> QED BY <2>1, <2>2 DEF Alert, Acquire, Throttled, Windows, SendOk, SendReplyLost,
                              SendFails, Release, AlertRaises
<1>6. CheckInv'
    BY <1>2 DEF Typed, TypeOK, CheckInv
<1> QED BY <1>2, <1>4, <1>5, <1>6 DEF Typed, TypeOK, dbVars

LEMMA OthersTyped ==
    ASSUME Typed,
           \/ \E u \in Users, c \in Chats : CmdStart(u, c)
           \/ \E u \in Users, c \in Chats, t \in Tokens : CmdSetAlert(u, c, t)
           \/ \E c \in Chats, r \in RuleIds : CmdRemoveAlert(c, r)
           \/ BotInvalidate \/ (\E u \in Users : TierChange(u)) \/ MarketMoves
    PROVE  Typed'
<1>1. ASSUME NEW u \in Users, NEW c \in Chats, CmdStart(u, c) PROVE Typed'
    BY <1>1 DEF CmdStart, Commit, Typed, TypeOK, CheckInv, checkVars, historyVars
<1>2. ASSUME NEW u \in Users, NEW c \in Chats, NEW t \in Tokens, CmdSetAlert(u, c, t) PROVE Typed'
    <2>1. PICK r \in RuleIds : rules' = [rules EXCEPT ![r] = [user |-> u, token |-> t, active |-> TRUE]]
        BY <1>2 DEF CmdSetAlert
    <2>2. rules' \in [RuleIds -> Row \cup {None}]
        BY <2>1 DEF Typed, TypeOK, Row
    <2> QED BY <1>2, <2>2 DEF CmdSetAlert, Commit, Typed, TypeOK, CheckInv, checkVars, historyVars
<1>3. ASSUME NEW c \in Chats, NEW r \in RuleIds, CmdRemoveAlert(c, r) PROVE Typed'
    <2>1. rules[r] \in Row /\ rules' = [rules EXCEPT ![r] = [rules[r] EXCEPT !.active = FALSE]]
        BY <1>3 DEF CmdRemoveAlert, ActiveRules, Typed, TypeOK
    <2>2. [rules[r] EXCEPT !.active = FALSE] \in Row
        BY <2>1 DEF Row
    <2>3. rules' \in [RuleIds -> Row \cup {None}]
        BY <2>1, <2>2 DEF Typed, TypeOK
    <2> QED BY <1>3, <2>3 DEF CmdRemoveAlert, Commit, Typed, TypeOK, CheckInv, checkVars, historyVars
<1>4. CASE BotInvalidate
    BY <1>4 DEF BotInvalidate, Typed, TypeOK, CheckInv, dbVars, checkVars, historyVars
<1>5. ASSUME NEW u \in Users, TierChange(u) PROVE Typed'
    BY <1>5 DEF TierChange, Typed, TypeOK, CheckInv, checkVars, historyVars
<1>6. CASE MarketMoves
    BY <1>6 DEF MarketMoves, Typed, TypeOK, CheckInv, dbVars, checkVars, historyVars
<1> QED BY <1>1, <1>2, <1>3, <1>4, <1>5, <1>6

LEMMA TickTyped ==
    ASSUME Typed, Tick
    PROVE  Typed'
<1>1. cache' \in [rules : SUBSET Entry, ttl : 1..CacheTTL] \cup {None}
    <2>1. CASE cache = None \/ cache.ttl = 1
        BY <2>1 DEF Tick, AgedCopy
    <2>2. CASE cache # None /\ cache.ttl # 1
        <3>1. cache \in [rules : SUBSET Entry, ttl : 1..CacheTTL]
            BY <2>2 DEF Typed, TypeOK
        <3>2. cache' = [rules |-> cache.rules, ttl |-> cache.ttl - 1]
            BY <2>2, <3>1 DEF Tick, AgedCopy
        <3> QED BY <2>2, <3>1, <3>2
    <2> QED BY <2>1, <2>2
<1>2. throttle' \in [Keys -> 0..ThrottleTTL] /\ sinceAlert' \in [Keys -> 0..ThrottleTTL]
    BY DEF Tick, Up, Down, Typed, TypeOK
<1>3. quiet' \in 0..CacheTTL
    BY DEF Tick, Up, Typed, TypeOK
<1> QED BY <1>1, <1>2, <1>3 DEF Tick, Typed, TypeOK, CheckInv, dbVars, checkVars

LEMMA TypedNext ==
    ASSUME Typed, [Next]_vars
    PROVE  Typed'
<1>1. CASE Crash
    BY <1>1, StopCheckTyped DEF Crash
<1>2. CASE UNCHANGED vars
    BY <1>2 DEF vars, dbVars, checkVars, historyVars, Typed, TypeOK, CheckInv
<1> QED BY <1>1, <1>2, CheckTyped, AlertTyped, OthersTyped, TickTyped DEF Next

LEMMA TypedInit == Init => Typed
BY DEF Init, Typed, TypeOK, CheckInv, Stages, Keys

(* Every variable keeps its type.                                           *)
THEOREM TypeCorrect == Spec => []TypeOK
<1>1. Typed => TypeOK
    BY DEF Typed
<1> QED BY <1>1, TypedInit, TypedNext, PTL DEF Spec

-----------------------------------------------------------------------------
(* The distance of alerts, while a failed send() means that nothing arrived. *)

\* The alert of r has the throttle key and is not over.
Holds(r) == alerts[r] \in {"windows", "send", "release"}

\* The key outlives the distance; whoever holds it has not been overtaken by an
\* alert, and holds it alone.
SpacedInv ==
    /\ \A k \in Keys : throttle[k] + sinceAlert[k] >= ThrottleTTL
    /\ \A r \in RuleIds : Holds(r) =>
            throttle[KeyOf(r)] = ThrottleTTL /\ sinceAlert[KeyOf(r)] = ThrottleTTL
    /\ \A r, s \in RuleIds : Holds(r) /\ Holds(s) /\ KeyOf(r) = KeyOf(s) => r = s
    /\ AlertsSpaced

\* No alert is under way when this step is done.
LEMMA IdleSpaced ==
    ASSUME SpacedInv, \A r \in RuleIds : ~Holds(r)',
           UNCHANGED <<throttle, sinceAlert, lastAlert>>
    PROVE  SpacedInv'
BY DEF SpacedInv, AlertsSpaced

\* Nothing the alerts depend on changes.
LEMMA SameSpaced ==
    ASSUME SpacedInv, UNCHANGED <<throttle, sinceAlert, lastAlert, alerts, loaded>>
    PROVE  SpacedInv'
BY DEF SpacedInv, AlertsSpaced, Holds, KeyOf, EntryOf

LEMMA CheckSpaced ==
    ASSUME Typed, SpacedInv,
           \/ StartCheck \/ ReadCache \/ LoadRules \/ FillCache \/ Dispatch \/ Finish \/ CheckFails
           \/ Crash
    PROVE  SpacedInv'
<1>1. UNCHANGED <<throttle, sinceAlert, lastAlert>>
    BY DEF StartCheck, ReadCache, LoadRules, FillCache, Dispatch, Finish, CheckFails, Crash, historyVars
<1>2. CASE StartCheck \/ FillCache
    BY <1>1, <1>2, SameSpaced DEF StartCheck, FillCache
<1>3. CASE ReadCache \/ LoadRules \/ Dispatch \/ Finish \/ CheckFails \/ Crash
    <2>1. \A r \in RuleIds : alerts'[r] \in {"done", "acquire"}
        <3>1. CASE StopCheck
            BY <3>1 DEF StopCheck
        <3>2. CASE ReadCache \/ (LoadRules /\ ~StopCheck)
            BY <3>2 DEF ReadCache, LoadRules, Typed, CheckInv
        <3>3. CASE Dispatch /\ ~StopCheck
            BY <3>3 DEF Dispatch
        <3> QED BY <1>3, <3>1, <3>2, <3>3 DEF Finish, CheckFails, Crash
    <2>2. \A r \in RuleIds : ~Holds(r)'
        BY <2>1 DEF Holds
    <2> QED BY <1>1, <2>2, IdleSpaced
<1> QED BY <1>2, <1>3

LEMMA AlertSpaced ==
    ASSUME ~LostReplies, Typed, SpacedInv, NEW r \in RuleIds, Alert(r)
    PROVE  SpacedInv'
<1>1. /\ alerts[r] # "done" /\ UNCHANGED loaded
      /\ \A s \in RuleIds : s # r => alerts'[s] = alerts[s]
    <2>1. PICK from \in Stages, to \in Stages : AlertStep(r, from, to) /\ from # "done"
        BY DEF Alert, Acquire, Throttled, Windows, SendOk, SendReplyLost, SendFails, Release,
               AlertRaises, Stages
    <2> QED BY <2>1 DEF AlertStep, Typed, TypeOK
<1>2. \A s \in RuleIds : KeyOf(s)' = KeyOf(s)
    BY <1>1 DEF KeyOf, EntryOf
<1>3. \A s \in RuleIds : s # r => (Holds(s)' <=> Holds(s))
    BY <1>1 DEF Holds
<1>4. KeyOf(r) \in Keys
    BY <1>1, EntryType DEF Typed
<1>5. \A s \in RuleIds : Holds(s) => KeyOf(s) \in Keys
    BY EntryType DEF Typed, Holds
<1>6. CASE Acquire(r)
    <2>1. /\ throttle[KeyOf(r)] = 0
          /\ throttle' = [throttle EXCEPT ![KeyOf(r)] = ThrottleTTL]
          /\ UNCHANGED <<sinceAlert, lastAlert>>
        BY <1>6 DEF Acquire, NotThrottled, historyVars
    <2>2. throttle'[KeyOf(r)] = ThrottleTTL /\ \A k \in Keys : k # KeyOf(r) => throttle'[k] = throttle[k]
        BY <1>4, <2>1 DEF Typed, TypeOK
    <2>3. sinceAlert[KeyOf(r)] = ThrottleTTL
        BY <1>4, <2>1 DEF SpacedInv, Typed, TypeOK
    <2>4. \A s \in RuleIds : Holds(s) => KeyOf(s) # KeyOf(r)
        BY <2>1 DEF SpacedInv
    <2>5. \A k \in Keys : throttle'[k] + sinceAlert'[k] >= ThrottleTTL
        BY <2>1, <2>2, <2>3 DEF SpacedInv, Typed, TypeOK
    <2>6. ASSUME NEW s \in RuleIds, Holds(s)'
          PROVE  throttle'[KeyOf(s)'] = ThrottleTTL /\ sinceAlert'[KeyOf(s)'] = ThrottleTTL
        BY <1>2, <1>3, <1>5, <2>1, <2>2, <2>3, <2>4, <2>6 DEF SpacedInv
    <2>7. ASSUME NEW s \in RuleIds, NEW t \in RuleIds, Holds(s)', Holds(t)', KeyOf(s)' = KeyOf(t)'
          PROVE  s = t
        BY <1>2, <1>3, <2>4, <2>7 DEF SpacedInv
    <2> QED BY <2>1, <2>5, <2>6, <2>7 DEF SpacedInv, AlertsSpaced
<1>7. CASE SendOk(r)
    <2>1. Holds(r) /\ ~Holds(r)'
        BY <1>7 DEF SendOk, AlertStep, Holds, Typed, TypeOK
    <2>2. throttle[KeyOf(r)] = ThrottleTTL /\ sinceAlert[KeyOf(r)] = ThrottleTTL
        BY <2>1 DEF SpacedInv
    <2>3. /\ sinceAlert' = [sinceAlert EXCEPT ![KeyOf(r)] = 0]
          /\ lastAlert' = [gap |-> sinceAlert[KeyOf(r)], current |-> EntryOf(r) \in DbRules,
                           quiet |-> quiet]
          /\ UNCHANGED throttle
        BY <1>7 DEF SendOk, Delivered
    <2>4. sinceAlert'[KeyOf(r)] = 0 /\ \A k \in Keys : k # KeyOf(r) => sinceAlert'[k] = sinceAlert[k]
        BY <1>4, <2>3 DEF Typed, TypeOK
    <2>5. AlertsSpaced'
        BY <2>2, <2>3 DEF AlertsSpaced
    <2>6. \A k \in Keys : throttle'[k] + sinceAlert'[k] >= ThrottleTTL
        BY <2>2, <2>3, <2>4 DEF SpacedInv, Typed, TypeOK
    <2>7. ASSUME NEW s \in RuleIds, Holds(s)'
          PROVE  Holds(s) /\ KeyOf(s) # KeyOf(r) /\ KeyOf(s) \in Keys
        BY <1>3, <1>5, <2>1, <2>7 DEF SpacedInv
    <2> QED BY <1>2, <2>3, <2>4, <2>5, <2>6, <2>7 DEF SpacedInv
<1>8. CASE Release(r)
    <2>1. Holds(r) /\ ~Holds(r)'
        BY <1>8 DEF Release, AlertStep, Holds, Typed, TypeOK
    <2>2. sinceAlert[KeyOf(r)] = ThrottleTTL
        BY <2>1 DEF SpacedInv
    <2>3. throttle' = [throttle EXCEPT ![KeyOf(r)] = 0] /\ UNCHANGED <<sinceAlert, lastAlert>>
        BY <1>8 DEF Release, historyVars
    <2>4. throttle'[KeyOf(r)] = 0 /\ \A k \in Keys : k # KeyOf(r) => throttle'[k] = throttle[k]
        BY <1>4, <2>3 DEF Typed, TypeOK
    <2>5. \A k \in Keys : throttle'[k] + sinceAlert'[k] >= ThrottleTTL
        BY <2>2, <2>3, <2>4 DEF SpacedInv, Typed, TypeOK
    <2>6. ASSUME NEW s \in RuleIds, Holds(s)'
          PROVE  Holds(s) /\ KeyOf(s) # KeyOf(r) /\ KeyOf(s) \in Keys
        BY <1>3, <1>5, <2>1, <2>6 DEF SpacedInv
    <2> QED BY <1>2, <2>3, <2>4, <2>5, <2>6 DEF SpacedInv, AlertsSpaced
<1>9. CASE Throttled(r) \/ Windows(r) \/ SendFails(r) \/ AlertRaises(r)
    <2>1. Holds(r)' => Holds(r)
        BY <1>9 DEF Throttled, Windows, SendFails, AlertRaises, AlertStep, Holds, Typed, TypeOK
    <2>2. UNCHANGED <<throttle, sinceAlert, lastAlert>>
        BY <1>9 DEF Throttled, Windows, SendFails, AlertRaises, historyVars
    <2>3. \A s \in RuleIds : Holds(s)' => Holds(s)
        BY <1>3, <2>1
    <2> QED BY <1>2, <2>2, <2>3 DEF SpacedInv, AlertsSpaced
<1>10. ~SendReplyLost(r)
    BY DEF SendReplyLost
<1> QED BY <1>6, <1>7, <1>8, <1>9, <1>10 DEF Alert

LEMMA TickSpaced ==
    ASSUME Typed, SpacedInv, Tick
    PROVE  SpacedInv'
<1>1. \A r \in RuleIds : ~Holds(r)'
    BY DEF Tick, Typed, CheckInv, Holds, checkVars
<1>2. ASSUME NEW k \in Keys
      PROVE  throttle'[k] + sinceAlert'[k] >= ThrottleTTL
    <2>1. throttle'[k] = Down(throttle[k]) /\ sinceAlert'[k] = Up(sinceAlert[k], ThrottleTTL)
        BY DEF Tick
    <2> QED BY <2>1 DEF Down, Up, SpacedInv, Typed, TypeOK
<1> QED BY <1>1, <1>2 DEF SpacedInv, AlertsSpaced, Tick

LEMMA SpacedNext ==
    ASSUME ~LostReplies, Typed, SpacedInv, [Next]_vars
    PROVE  SpacedInv'
<1>1. CASE \/ \E u \in Users, c \in Chats : CmdStart(u, c)
           \/ \E u \in Users, c \in Chats, t \in Tokens : CmdSetAlert(u, c, t)
           \/ \E c \in Chats, r \in RuleIds : CmdRemoveAlert(c, r)
           \/ BotInvalidate \/ (\E u \in Users : TierChange(u)) \/ MarketMoves
           \/ UNCHANGED vars
    <2>1. UNCHANGED <<throttle, sinceAlert, lastAlert, alerts, loaded>>
        BY <1>1 DEF CmdStart, CmdSetAlert, CmdRemoveAlert, Commit, BotInvalidate, TierChange,
                    MarketMoves, vars, checkVars, historyVars
    <2> QED BY <2>1, SameSpaced
<1> QED BY <1>1, CheckSpaced, AlertSpaced, TickSpaced DEF Next

(* "max 1 alert per (user_id, token) every 30 min", while a failed send()   *)
(* means that nothing was delivered: crashes, failed sends, failed releases *)
(* and rules that share a key do not bring two alerts closer.               *)
THEOREM AlertsKeepDistance ==
    ASSUME ~LostReplies
    PROVE  Spec => []AlertsSpaced
<1>1. Init => SpacedInv
    BY DEF Init, SpacedInv, AlertsSpaced, Holds, Keys
<1>2. Typed /\ SpacedInv /\ [Next]_vars => SpacedInv'
    BY SpacedNext
<1>3. SpacedInv => AlertsSpaced
    BY DEF SpacedInv
<1> QED BY <1>1, <1>2, <1>3, TypedInit, TypedNext, PTL DEF Spec

-----------------------------------------------------------------------------
(* The rules behind an alert.                                               *)

\* No check outlives a tick.  Rules that are no longer in the database were read
\* in the tick of the last change, or come from a copy written by then.
SettledInv ==
    /\ cache # None /\ ~(cache.rules \subseteq DbRules) => quiet + cache.ttl <= CacheTTL
    /\ check = "fill" /\ ~(loaded \subseteq DbRules) => quiet = 0
    /\ check \in {"dispatch", "alerts"} /\ ~(loaded \subseteq DbRules) => quiet < CacheTTL
    /\ AlertsSettle

LEMMA SameDb ==
    ASSUME UNCHANGED dbVars
    PROVE  DbRules' = DbRules
BY DEF dbVars, DbRules, ActiveRules

LEMMA ChangeSettled ==
    ASSUME Typed, SettledInv, quiet' = 0, UNCHANGED <<cache, checkVars, historyVars>>
    PROVE  SettledInv'
BY DEF SettledInv, AlertsSettle, Typed, TypeOK, checkVars, historyVars

LEMMA CheckSettled ==
    ASSUME Typed, SettledInv,
           \/ StartCheck \/ ReadCache \/ LoadRules \/ FillCache \/ Dispatch \/ Finish \/ CheckFails
           \/ Crash
    PROVE  SettledInv'
<1>1. UNCHANGED <<dbVars, quiet, historyVars>>
    BY DEF StartCheck, ReadCache, LoadRules, FillCache, Dispatch, Finish, CheckFails, Crash
<1>2. DbRules' = DbRules
    BY <1>1, SameDb
<1>3. AlertsSettle'
    BY <1>1 DEF SettledInv, AlertsSettle, historyVars
<1>4. CASE StopCheck /\ UNCHANGED cache
    BY <1>1, <1>2, <1>3, <1>4 DEF StopCheck, SettledInv
<1>5. CASE StartCheck
    BY <1>1, <1>2, <1>3, <1>5 DEF StartCheck, SettledInv
<1>6. CASE ReadCache
    BY <1>1, <1>2, <1>3, <1>6 DEF ReadCache, SettledInv, Typed, TypeOK
<1>7. CASE LoadRules /\ ~StopCheck
    BY <1>1, <1>2, <1>3, <1>7 DEF LoadRules, SettledInv
<1>8. CASE FillCache
    <2>1. /\ cache' = [rules |-> loaded, ttl |-> CacheTTL] /\ check' = "dispatch"
          /\ check = "fill" /\ UNCHANGED <<loaded, quiet>>
        BY <1>8 DEF FillCache, Copy
    <2>2. ~(loaded \subseteq DbRules) => quiet = 0
        BY <2>1 DEF SettledInv
    <2> QED BY <1>2, <1>3, <2>1, <2>2 DEF SettledInv
<1>9. CASE Dispatch /\ ~StopCheck
    BY <1>1, <1>2, <1>3, <1>9 DEF Dispatch, SettledInv
<1> QED BY <1>4, <1>5, <1>6, <1>7, <1>8, <1>9 DEF LoadRules, Dispatch, Finish, CheckFails, Crash

LEMMA AlertSettled ==
    ASSUME Typed, SettledInv, NEW r \in RuleIds, Alert(r)
    PROVE  SettledInv'
<1>1. alerts[r] # "done" /\ UNCHANGED <<dbVars, quiet, cache, check, loaded>>
    BY DEF Alert, Acquire, Throttled, Windows, SendOk, SendReplyLost, SendFails, Release,
           AlertRaises, AlertStep
<1>2. DbRules' = DbRules
    BY <1>1, SameDb
<1>3. check = "alerts" /\ EntryOf(r) \in loaded
    BY <1>1, EntryType DEF Typed, CheckInv
<1>4. quiet = CacheTTL => EntryOf(r) \in DbRules
    BY <1>3 DEF SettledInv, Typed, TypeOK
<1>5. AlertsSettle'
    <2>1. CASE Delivered(r)
        BY <1>4, <2>1 DEF Delivered, AlertsSettle
    <2>2. CASE UNCHANGED historyVars
        BY <2>2 DEF historyVars, SettledInv, AlertsSettle
    <2> QED BY <2>1, <2>2 DEF Alert, Acquire, Throttled, Windows, SendOk, SendReplyLost,
                              SendFails, Release, AlertRaises
<1> QED BY <1>1, <1>2, <1>5 DEF SettledInv

LEMMA OthersSettled ==
    ASSUME Typed, SettledInv,
           \/ \E u \in Users, c \in Chats : CmdStart(u, c)
           \/ \E u \in Users, c \in Chats, t \in Tokens : CmdSetAlert(u, c, t)
           \/ \E c \in Chats, r \in RuleIds : CmdRemoveAlert(c, r)
           \/ BotInvalidate \/ (\E u \in Users : TierChange(u)) \/ MarketMoves
           \/ UNCHANGED vars
    PROVE  SettledInv'
<1>1. CASE BotInvalidate
    <2>1. DbRules' = DbRules
        BY <1>1, SameDb DEF BotInvalidate
    <2> QED BY <1>1, <2>1 DEF BotInvalidate, SettledInv, AlertsSettle, checkVars, historyVars
<1>2. CASE MarketMoves \/ UNCHANGED vars
    <2>1. UNCHANGED <<dbVars, quiet, cache, check, loaded, lastAlert>>
        BY <1>2 DEF MarketMoves, vars, checkVars, historyVars
    <2>2. DbRules' = DbRules
        BY <2>1, SameDb
    <2> QED BY <2>1, <2>2 DEF SettledInv, AlertsSettle
<1>3. CASE \/ \E u \in Users, c \in Chats : CmdStart(u, c)
           \/ \E u \in Users, c \in Chats, t \in Tokens : CmdSetAlert(u, c, t)
           \/ \E c \in Chats, r \in RuleIds : CmdRemoveAlert(c, r)
           \/ \E u \in Users : TierChange(u)
    <2>1. quiet' = 0 /\ UNCHANGED <<cache, checkVars, historyVars>>
        BY <1>3 DEF CmdStart, CmdSetAlert, CmdRemoveAlert, Commit, TierChange
    <2> QED BY <2>1, ChangeSettled
<1> QED BY <1>1, <1>2, <1>3

LEMMA TickSettled ==
    ASSUME Typed, SettledInv, Tick
    PROVE  SettledInv'
<1>1. DbRules' = DbRules
    BY SameDb DEF Tick
<1>2. check' = "idle" /\ AlertsSettle'
    BY DEF Tick, checkVars, SettledInv, AlertsSettle
<1>3. ASSUME cache' # None, ~(cache'.rules \subseteq DbRules)
      PROVE  quiet' + cache'.ttl <= CacheTTL
    <2>1. cache # None /\ cache.ttl # 1
        BY <1>3 DEF Tick, AgedCopy
    <2>2. cache \in [rules : SUBSET Entry, ttl : 1..CacheTTL]
        BY <2>1 DEF Typed, TypeOK
    <2>3. cache'.rules = cache.rules /\ cache'.ttl = cache.ttl - 1
        BY <2>1, <2>2 DEF Tick, AgedCopy
    <2>4. quiet + cache.ttl <= CacheTTL
        BY <1>3, <2>1, <2>3 DEF SettledInv
    <2> QED BY <2>2, <2>3, <2>4 DEF Tick, Up, Typed, TypeOK
<1> QED BY <1>1, <1>2, <1>3 DEF SettledInv

(* Once users, chats, tiers and rules have been left alone for the time to  *)
(* live of the rules copy, every alert goes out by a rule as it is, though  *)
(* invalidations are lost, copies are filled late and the process crashes.  *)
THEOREM AlertsFollowRules == Spec => []AlertsSettle
<1>1. Init => SettledInv
    BY DEF Init, SettledInv, AlertsSettle
<1>2. Typed /\ SettledInv /\ [Next]_vars => SettledInv'
    BY CheckSettled, AlertSettled, OthersSettled, TickSettled DEF Next
<1>3. SettledInv => AlertsSettle
    BY DEF SettledInv
<1> QED BY <1>1, <1>2, <1>3, TypedInit, TypedNext, PTL DEF Spec
=============================================================================
