------------------------- MODULE FundingService_proofs -------------------------
(***************************************************************************)
(* Theorems about FundingService for every value of its constants: the two *)
(* indexes of the normalizer agree, stale data is bounded by the purge     *)
(* loop, and the two recalculation paths never leave a gap.                *)
(***************************************************************************)
EXTENDS FundingService, TLAPS

USE NormalizerAssumption, FundingServiceAssumption

Keys == Exchanges \X Tokens

-----------------------------------------------------------------------------
(* The store: what update, purge_stale and ageing do to one slot.            *)

LEMMA OlderType ==
    ASSUME NEW s \in Slot
    PROVE  /\ Older(s) \in Slot
           /\ s # Absent => /\ Older(s) # Absent
                            /\ Older(s).age <= s.age + 1
           /\ Older(s) = Absent <=> s = Absent
BY DEF Older, Slot, Snapshot

LEMMA KeepLiveType ==
    ASSUME NEW s \in Slot
    PROVE  /\ KeepLive(s) \in Slot
           /\ KeepLive(s) # Absent => KeepLive(s) = s /\ s.age <= StaleAfter
BY DEF KeepLive, IsStale, Slot, Snapshot

LEMMA ViewNotAbsent ==
    ASSUME NEW f \in [Exchanges -> Slot]
    PROVE  f # Absent
BY DEF Slot

(* Each store action keeps the types and the agreement of the two indexes.   *)
LEMMA UpdateStore ==
    ASSUME StoreTypeOK, ViewsAgree,
           NEW e \in Exchanges, NEW t \in Tokens, NEW apr \in Aprs, Update(e, t, apr)
    PROVE  StoreTypeOK' /\ ViewsAgree'
<1> DEFINE s == [apr |-> apr, age |-> 0]
<1>1. s \in Slot /\ s # Absent
    BY DEF Slot, Snapshot
<1>2. ViewOf(t) \in [Exchanges -> Slot]
    BY DEF ViewOf, EmptyView, StoreTypeOK, Slot
<1> DEFINE w == [ViewOf(t) EXCEPT ![e] = s]
<1>3. w \in [Exchanges -> Slot] /\ w # Absent
    BY <1>1, <1>2, ViewNotAbsent
<1>4. /\ snapshots' = [snapshots EXCEPT ![<<e, t>>] = s]
      /\ tokenViews' = [tokenViews EXCEPT ![t] = w]
    BY DEF Update
<1>5. StoreTypeOK'
    BY <1>1, <1>3, <1>4 DEF StoreTypeOK
<1>6. ASSUME NEW u \in Tokens
      PROVE  /\ tokenViews'[u] = Absent <=> \A x \in Exchanges : snapshots'[<<x, u>>] = Absent
             /\ tokenViews'[u] # Absent => \A x \in Exchanges : tokenViews'[u][x] = snapshots'[<<x, u>>]
    <2>1. CASE u # t
        <3>1. tokenViews'[u] = tokenViews[u]
            BY <1>4, <2>1 DEF StoreTypeOK
        <3>2. \A x \in Exchanges : snapshots'[<<x, u>>] = snapshots[<<x, u>>]
            BY <1>4, <2>1 DEF StoreTypeOK
        <3> QED BY <3>1, <3>2 DEF ViewsAgree
    <2>2. CASE u = t
        <3>1. tokenViews'[t] = w
            BY <1>4 DEF StoreTypeOK
        <3>2. snapshots'[<<e, t>>] = s
            BY <1>4 DEF StoreTypeOK
        <3>3. ASSUME NEW x \in Exchanges PROVE w[x] = snapshots'[<<x, t>>]
            <4>1. CASE x = e
                BY <1>2, <3>2, <4>1
            <4>2. CASE x # e
                <5>1. w[x] = ViewOf(t)[x]
                    BY <1>2, <4>2
                <5>2. snapshots'[<<x, t>>] = snapshots[<<x, t>>]
                    BY <1>4, <4>2 DEF StoreTypeOK
                <5>3. ViewOf(t)[x] = snapshots[<<x, t>>]
                    BY DEF ViewOf, EmptyView, ViewsAgree
                <5> QED BY <5>1, <5>2, <5>3
            <4> QED BY <4>1, <4>2
        <3> QED BY <1>1, <1>3, <2>2, <3>1, <3>2, <3>3
    <2> QED BY <2>1, <2>2
<1> QED BY <1>5, <1>6 DEF ViewsAgree

LEMMA PurgeStore ==
    ASSUME StoreTypeOK, ViewsAgree, PurgeStale
    PROVE  StoreTypeOK' /\ ViewsAgree'
<1>1. \A p \in Keys : snapshots'[p] = KeepLive(snapshots[p])
    BY DEF PurgeStale, Keys
<1>2. StoreTypeOK' /\ \A t \in Tokens : tokenViews'[t] = PurgedView(t)
    <2>1. snapshots' \in [Exchanges \X Tokens -> Slot]
        BY KeepLiveType DEF PurgeStale, StoreTypeOK
    <2>2. ASSUME NEW t \in Tokens PROVE PurgedView(t) \in [Exchanges -> Slot] \cup {Absent}
        <3>1. CASE tokenViews[t] = Absent
            BY <3>1 DEF PurgedView
        <3>2. CASE tokenViews[t] # Absent
            <4>1. tokenViews[t] \in [Exchanges -> Slot]
                BY <3>2 DEF StoreTypeOK
            <4> QED BY <4>1 DEF PurgedView, Slot
        <3> QED BY <3>1, <3>2
    <2> QED BY <2>1, <2>2 DEF PurgeStale, StoreTypeOK
<1>3. ASSUME NEW t \in Tokens
      PROVE  /\ tokenViews'[t] = Absent <=> \A e \in Exchanges : snapshots'[<<e, t>>] = Absent
             /\ tokenViews'[t] # Absent => \A e \in Exchanges : tokenViews'[t][e] = snapshots'[<<e, t>>]
    <2> DEFINE gone == {e \in Exchanges : <<e, t>> \in StaleKeys}
               kept == [e \in Exchanges |-> IF e \in gone THEN Absent ELSE tokenViews[t][e]]
    <2>1. \A e \in Exchanges : snapshots'[<<e, t>>] = IF e \in gone THEN Absent ELSE snapshots[<<e, t>>]
        BY <1>1 DEF StaleKeys, KeepLive, Keys
    <2>2. CASE tokenViews[t] = Absent
        BY <1>2, <2>1, <2>2 DEF PurgedView, ViewsAgree
    <2>3. CASE tokenViews[t] # Absent /\ gone = {}
        BY <1>2, <2>1, <2>3 DEF PurgedView, ViewsAgree
    <2>4. CASE tokenViews[t] # Absent /\ gone # {}
        <3>1. \A e \in Exchanges : kept[e] = snapshots'[<<e, t>>]
            BY <2>1, <2>4 DEF ViewsAgree
        <3>2. kept \in [Exchanges -> Slot] /\ kept # Absent
            <4>1. tokenViews[t] \in [Exchanges -> Slot]
                BY <2>4 DEF StoreTypeOK
            <4> QED BY <4>1, ViewNotAbsent DEF Slot
        <3>3. kept = EmptyView <=> \A e \in Exchanges : kept[e] = Absent
            BY DEF EmptyView
        <3>4. tokenViews'[t] = IF kept = EmptyView THEN Absent ELSE kept
            BY <1>2, <2>4 DEF PurgedView
        <3> QED BY <3>1, <3>2, <3>3, <3>4
    <2> QED BY <2>2, <2>3, <2>4
<1> QED BY <1>2, <1>3 DEF ViewsAgree

LEMMA AgeStoreKeeps ==
    ASSUME StoreTypeOK, ViewsAgree, AgeStore
    PROVE  StoreTypeOK' /\ ViewsAgree'
<1> DEFINE aged(t) == [e \in Exchanges |-> Older(tokenViews[t][e])]
<1>1. \A e \in Exchanges, t \in Tokens : snapshots'[<<e, t>>] = Older(snapshots[<<e, t>>])
    BY DEF AgeStore
<1>2. \A t \in Tokens : tokenViews'[t] = IF tokenViews[t] = Absent THEN Absent ELSE aged(t)
    BY DEF AgeStore
<1>3. ASSUME NEW t \in Tokens, tokenViews[t] # Absent
      PROVE  aged(t) \in [Exchanges -> Slot] /\ aged(t) # Absent
    <2>1. tokenViews[t] \in [Exchanges -> Slot]
        BY <1>3 DEF StoreTypeOK
    <2>2. aged(t) \in [Exchanges -> Slot]
        BY <2>1, OlderType
    <2> QED BY <2>2, ViewNotAbsent
<1>4. StoreTypeOK'
    <2>1. snapshots' \in [Exchanges \X Tokens -> Slot]
        BY OlderType DEF AgeStore, StoreTypeOK
    <2>2. tokenViews' \in [Tokens -> [Exchanges -> Slot] \cup {Absent}]
        BY <1>3 DEF AgeStore
    <2> QED BY <2>1, <2>2 DEF StoreTypeOK
<1>5. ASSUME NEW t \in Tokens
      PROVE  /\ tokenViews'[t] = Absent <=> \A e \in Exchanges : snapshots'[<<e, t>>] = Absent
             /\ tokenViews'[t] # Absent => \A e \in Exchanges : tokenViews'[t][e] = snapshots'[<<e, t>>]
    <2>1. \A e \in Exchanges : snapshots[<<e, t>>] \in Slot
        BY DEF StoreTypeOK
    <2>2. \A e \in Exchanges : snapshots'[<<e, t>>] = Absent <=> snapshots[<<e, t>>] = Absent
        BY <1>1, <2>1, OlderType
    <2>3. CASE tokenViews[t] = Absent
        BY <1>2, <2>2, <2>3 DEF ViewsAgree
    <2>4. CASE tokenViews[t] # Absent
        <3>1. tokenViews'[t] = aged(t) /\ aged(t) # Absent
            BY <1>2, <1>3, <2>4
        <3>2. \A e \in Exchanges : aged(t)[e] = Older(tokenViews[t][e])
            OBVIOUS
        <3>3. \A e \in Exchanges : aged(t)[e] = snapshots'[<<e, t>>]
            BY <1>1, <2>4, <3>2 DEF ViewsAgree
        <3>4. ~ \A e \in Exchanges : snapshots[<<e, t>>] = Absent
            BY <2>4 DEF ViewsAgree
        <3> HIDE DEF aged
        <3> QED BY <2>2, <3>1, <3>3, <3>4
    <2> QED BY <2>3, <2>4
<1> QED BY <1>4, <1>5 DEF ViewsAgree

-----------------------------------------------------------------------------
(* The calculators return what the keys may hold.                            *)

LEMMA CalculateType ==
    ASSUME NEW tv \in [Tokens -> [Exchanges -> Slot] \cup {Absent}],
           NEW result \in Calculate(tv)
    PROVE  result \in SUBSET Pair
<1> DEFINE cands == ArbitrageCandidates(tv)
<1>1. cands \subseteq Tokens
    BY DEF ArbitrageCandidates
<1>2. ASSUME NEW t \in Tokens PROVE BestPairs(tv[t], t) \subseteq Pair
    <2>1. ASSUME NEW e \in Held(tv[t]) PROVE LegOf(tv[t], e) \in Leg
        <3>1. e \in Exchanges /\ tv[t] # Absent /\ tv[t][e] # Absent
            BY DEF Held
        <3>2. tv[t] \in [Exchanges -> Slot]
            BY <3>1
        <3>3. tv[t][e] \in Snapshot
            BY <3>1, <3>2 DEF Slot
        <3>4. tv[t][e].apr \in Aprs
            BY <3>3 DEF Snapshot
        <3>5. IsStale(tv[t][e]) \in BOOLEAN
            BY DEF IsStale
        <3> QED BY <3>1, <3>4, <3>5 DEF LegOf, Leg
    <2> QED BY <2>1 DEF BestPairs, Pair
<1>3. PICK f \in [cands -> UNION {BestPairs(tv[t], t) : t \in cands}] :
          result = {pair \in {f[t] : t \in cands} : NetAprTaker(pair) >= MinNetApr}
    BY DEF Calculate
<1>4. \A t \in cands : f[t] \in Pair
    BY <1>1, <1>2, <1>3
<1> QED BY <1>3, <1>4

LEMMA BuildRankedType == \A tv : BuildRanked(tv) \in SUBSET Tokens
BY DEF BuildRanked

LEMMA ExpiringType ==
    ASSUME NEW V, NEW key \in [val : SUBSET V, ttl : 0..KeyTTL]
    PROVE  Expiring(key) \in [val : SUBSET V, ttl : 0..KeyTTL]
BY DEF Expiring, NoKey

LEMMA StoredType ==
    ASSUME NEW V, NEW v \in SUBSET V
    PROVE  Stored(v) \in [val : SUBSET V, ttl : 0..KeyTTL]
BY DEF Stored

(* A command in flight stores a value of the right type.                     *)
LEMMA PayloadStored ==
    ASSUME TaskTypeOK, NEW k \in Tasks
    PROVE  /\ pc[k] = "arb" => Stored(payload[k]) \in [val : SUBSET Pair, ttl : 0..KeyTTL]
           /\ pc[k] = "rank" => Stored(payload[k]) \in [val : SUBSET Tokens, ttl : 0..KeyTTL]
<1>1. pc[k] = "arb" => payload[k] \in SUBSET Pair
    BY DEF TaskTypeOK
<1>2. pc[k] = "rank" => payload[k] \in SUBSET Tokens
    BY DEF TaskTypeOK
<1> QED BY <1>1, <1>2, StoredType

(* The variables StartRecalc changes keep their types.                       *)
LEMMA StartRecalcType ==
    ASSUME TaskTypeOK, StoreTypeOK', NEW k \in Tasks, StartRecalc(k)
    PROVE  TaskTypeOK'
<1>1. tokenViews' \in [Tokens -> [Exchanges -> Slot] \cup {Absent}]
    BY DEF StoreTypeOK
<1>2. PICK result \in SUBSET Pair : payload' = [payload EXCEPT ![k] = result]
    BY <1>1, CalculateType DEF StartRecalc
<1>3. /\ sinceRecalc' = 0
      /\ pc' = [pc EXCEPT ![k] = "arb"]
      /\ wait' = [wait EXCEPT ![k] = 0]
      /\ overtaken' = [overtaken EXCEPT ![k] = FALSE]
      /\ newest' = k
    BY DEF StartRecalc
<1>4. payload' \in [Tasks -> (SUBSET Pair) \cup (SUBSET Tokens)]
    BY <1>2 DEF TaskTypeOK
<1>5. ASSUME NEW j \in Tasks
      PROVE  payload'[j] \subseteq (IF pc'[j] = "rank" THEN Tokens ELSE Pair)
    <2>1. CASE j = k
        BY <1>2, <1>3, <2>1 DEF TaskTypeOK
    <2>2. CASE j # k
        BY <1>2, <1>3, <2>2 DEF TaskTypeOK
    <2> QED BY <2>1, <2>2
<1>6. sinceRecalc' \in 0..RecalcCap
    BY <1>3 DEF RecalcCap
<1> QED BY <1>3, <1>4, <1>5, <1>6 DEF TaskTypeOK

-----------------------------------------------------------------------------
(* Type correctness and the agreement of the two indexes, by one induction:  *)
(* handling a message needs the type of the inbox, the store lemmas need     *)
(* both.                                                                     *)

StoreInv == TypeOK /\ ViewsAgree

LEMMA EmptyStore ==
    ASSUME snapshots' = [p \in Exchanges \X Tokens |-> Absent],
           tokenViews' = [t \in Tokens |-> Absent]
    PROVE  StoreTypeOK' /\ ViewsAgree'
BY DEF StoreTypeOK, ViewsAgree, Slot

LEMMA SameStore ==
    ASSUME StoreTypeOK, ViewsAgree, UNCHANGED storeVars
    PROVE  StoreTypeOK' /\ ViewsAgree'
BY DEF StoreTypeOK, ViewsAgree, storeVars

LEMMA InitStoreInv == Init => StoreInv
<1> SUFFICES ASSUME Init PROVE StoreInv
    OBVIOUS
<1>1. StoreTypeOK /\ ViewsAgree
    BY DEF Init, StoreInit, StoreTypeOK, ViewsAgree, Slot
<1>2. TaskTypeOK
    BY DEF Init, TaskTypeOK, Tasks, RecalcCap
<1>3. QueueTypeOK
    <2>1. /\ NoKey \in [val : SUBSET Pair, ttl : 0..KeyTTL]
          /\ NoKey \in [val : SUBSET Tokens, ttl : 0..KeyTTL]
        BY DEF NoKey
    <2>2. updateCounter \in 0..(RecalcEveryN - 1) /\ purgeWait \in 0..PurgeInterval
        BY DEF Init
    <2>3. inbox \in Seq(Message \cup {Malformed}) /\ Len(inbox) <= MaxInbox
        BY DEF Init
    <2> QED BY <2>1, <2>2, <2>3 DEF Init, QueueTypeOK
<1> QED BY <1>1, <1>2, <1>3 DEF StoreInv, TypeOK

LEMMA NextStoreInv == StoreInv /\ [Next]_vars => StoreInv'
<1> SUFFICES ASSUME StoreInv, [Next]_vars PROVE StoreInv'
    OBVIOUS
<1>a. StoreTypeOK /\ TaskTypeOK /\ QueueTypeOK /\ ViewsAgree
    BY DEF StoreInv, TypeOK
<1> SUFFICES StoreTypeOK' /\ ViewsAgree' /\ TaskTypeOK' /\ QueueTypeOK'
    BY DEF StoreInv, TypeOK
<1>1. CASE Collect
    <2>1. PICK m \in Message \cup {Malformed} : Publish(m)
        BY <1>1 DEF Collect
    <2>2. StoreTypeOK' /\ ViewsAgree'
        BY <1>a, <2>1, SameStore DEF Publish
    <2>3. TaskTypeOK'
        BY <1>a, <2>1 DEF Publish, taskVars, TaskTypeOK
    <2>4. QueueTypeOK'
        BY <1>a, <2>1 DEF Publish, redisVars, QueueTypeOK
    <2> QED BY <2>2, <2>3, <2>4
<1>2. CASE Subscribe
    <2>1. StoreTypeOK' /\ ViewsAgree'
        BY <1>a, <1>2, SameStore DEF Subscribe
    <2>2. TaskTypeOK'
        BY <1>a, <1>2 DEF Subscribe, TaskTypeOK, Tasks
    <2>3. QueueTypeOK'
        BY <1>a, <1>2 DEF Subscribe, redisVars, QueueTypeOK
    <2> QED BY <2>1, <2>2, <2>3
<1>3. CASE ConnectionLost
    <2>1. StoreTypeOK' /\ ViewsAgree'
        BY <1>a, <1>3, SameStore DEF ConnectionLost
    <2>2. TaskTypeOK'
        BY <1>a, <1>3 DEF ConnectionLost, TaskTypeOK, Tasks
    <2>3. QueueTypeOK'
        BY <1>a, <1>3 DEF ConnectionLost, redisVars, QueueTypeOK
    <2> QED BY <2>1, <2>2, <2>3
<1>4. CASE Reconnect
    <2>1. StoreTypeOK' /\ ViewsAgree'
        BY <1>a, <1>4, SameStore DEF Reconnect
    <2>2. TaskTypeOK'
        BY <1>a, <1>4 DEF Reconnect, TaskTypeOK, Tasks
    <2>3. QueueTypeOK'
        BY <1>a, <1>4 DEF Reconnect, redisVars, QueueTypeOK
    <2> QED BY <2>1, <2>2, <2>3
<1>5. CASE HandleMessage
    <2>1. inbox # <<>> /\ Head(inbox) \in Message \cup {Malformed} /\ inbox' = Tail(inbox)
        BY <1>a, <1>5 DEF HandleMessage, QueueTypeOK
    <2>2. CASE Head(inbox) = Malformed
        <3>1. UNCHANGED <<storeVars, updateCounter, sinceRecalc, taskVars>>
            BY <1>5, <2>2 DEF HandleMessage
        <3>2. StoreTypeOK' /\ ViewsAgree'
            BY <1>a, <3>1, SameStore
        <3>3. TaskTypeOK'
            BY <1>a, <3>1 DEF taskVars, TaskTypeOK
        <3>4. QueueTypeOK'
            BY <1>5, <1>a, <2>1, <3>1 DEF HandleMessage, redisVars, QueueTypeOK
        <3> QED BY <3>2, <3>3, <3>4
    <2>3. CASE Head(inbox) # Malformed
        <3> DEFINE m == Head(inbox)
        <3>1. m.exchange \in Exchanges /\ m.token \in Tokens /\ m.apr \in Aprs
            BY <2>1, <2>3 DEF Message
        <3>2. Update(m.exchange, m.token, m.apr)
            BY <1>5, <2>3 DEF HandleMessage
        <3>3. StoreTypeOK' /\ ViewsAgree'
            BY <1>a, <3>1, <3>2, UpdateStore
        <3>4. /\ updateCounter' = (updateCounter + 1) % RecalcEveryN
              /\ IF updateCounter' = 0 THEN StartRecalc("sub") ELSE UNCHANGED <<sinceRecalc, taskVars>>
            BY <1>5, <2>3 DEF HandleMessage
        <3>5. TaskTypeOK'
            <4>1. CASE updateCounter' = 0
                BY <1>a, <3>3, <3>4, <4>1, StartRecalcType DEF Tasks
            <4>2. CASE updateCounter' # 0
                BY <1>a, <3>4, <4>2 DEF taskVars, TaskTypeOK
            <4> QED BY <4>1, <4>2
        <3>6. updateCounter' \in 0..(RecalcEveryN - 1)
            BY <1>a, <3>4 DEF QueueTypeOK
        <3>7. QueueTypeOK'
            BY <1>5, <1>a, <2>1, <3>6 DEF HandleMessage, redisVars, QueueTypeOK
        <3> QED BY <3>3, <3>5, <3>7
    <2> QED BY <2>2, <2>3
<1>6. CASE TimedWake
    <2>1. StoreTypeOK' /\ ViewsAgree'
        BY <1>a, <1>6, SameStore DEF TimedWake
    <2>2. TaskTypeOK'
        <3>1. CASE TimedDue
            BY <1>6, <1>a, <2>1, <3>1, StartRecalcType DEF TimedWake, Tasks
        <3>2. CASE ~TimedDue
            BY <1>6, <1>a, <3>2 DEF TimedWake, TaskTypeOK, Tasks
        <3> QED BY <3>1, <3>2
    <2>3. QueueTypeOK'
        BY <1>a, <1>6 DEF TimedWake, redisVars, QueueTypeOK
    <2> QED BY <2>1, <2>2, <2>3
<1>7. CASE PurgeWake
    <2>1. StoreTypeOK' /\ ViewsAgree'
        BY <1>a, <1>7, PurgeStore DEF PurgeWake
    <2>2. TaskTypeOK'
        BY <1>a, <1>7 DEF PurgeWake, taskVars, TaskTypeOK
    <2>3. QueueTypeOK'
        BY <1>a, <1>7 DEF PurgeWake, redisVars, QueueTypeOK
    <2> QED BY <2>1, <2>2, <2>3
<1>8. CASE Tick
    <2>1. StoreTypeOK' /\ ViewsAgree'
        BY <1>a, <1>8, AgeStoreKeeps DEF Tick
    <2>2. TaskTypeOK'
        <3>1. wait' \in [Tasks -> Nat]
            BY <1>a, <1>8 DEF Tick, TaskTypeOK
        <3>2. sinceRecalc' \in 0..RecalcCap
            BY <1>a, <1>8 DEF Tick, TaskTypeOK, RecalcCap
        <3> QED BY <1>a, <1>8, <3>1, <3>2 DEF Tick, TaskTypeOK
    <2>3. QueueTypeOK'
        <3>1. /\ current' \in [val : SUBSET Pair, ttl : 0..KeyTTL]
              /\ ranked' \in [val : SUBSET Tokens, ttl : 0..KeyTTL]
            BY <1>a, <1>8, ExpiringType DEF Tick, QueueTypeOK
        <3>2. purgeWait' \in 0..PurgeInterval
            BY <1>a, <1>8 DEF Tick, QueueTypeOK
        <3>3. regressed' \in BOOLEAN
            BY <1>8 DEF Tick
        <3> QED BY <1>a, <1>8, <3>1, <3>2, <3>3 DEF Tick, QueueTypeOK
    <2> QED BY <2>1, <2>2, <2>3
<1>9. CASE Restart
    <2>1. StoreTypeOK' /\ ViewsAgree'
        BY <1>9, EmptyStore DEF Restart
    <2>2. TaskTypeOK'
        BY <1>9 DEF Restart, TaskTypeOK, Tasks, RecalcCap
    <2> DEFINE keysOK == /\ current' \in [val : SUBSET Pair, ttl : 0..KeyTTL]
                         /\ ranked' \in [val : SUBSET Tokens, ttl : 0..KeyTTL]
                         /\ regressed' \in BOOLEAN
    <2>3. keysOK
        <3>1. ASSUME NEW k \in Tasks, pc[k] = "arb", SetCurrent(k), UNCHANGED ranked PROVE keysOK
            <4>1. regressed' \in BOOLEAN
                BY <1>a, <3>1 DEF SetCurrent, TaskTypeOK
            <4> QED BY <1>a, <3>1, <4>1, PayloadStored DEF SetCurrent, QueueTypeOK
        <3>2. ASSUME NEW k \in Tasks, pc[k] = "rank", ranked' = Stored(payload[k]),
                     UNCHANGED <<current, regressed>> PROVE keysOK
            BY <1>a, <3>2, PayloadStored DEF QueueTypeOK
        <3>3. CASE UNCHANGED redisVars
            BY <1>a, <3>3 DEF redisVars, QueueTypeOK
        <3> QED BY <1>9, <3>1, <3>2, <3>3 DEF Restart
    <2>4. QueueTypeOK'
        BY <1>9, <2>3 DEF Restart, QueueTypeOK
    <2> QED BY <2>1, <2>2, <2>4
<1>10. ASSUME NEW k \in Tasks, ArbPublished(k)
       PROVE  StoreTypeOK' /\ ViewsAgree' /\ TaskTypeOK' /\ QueueTypeOK'
    <2>1. StoreTypeOK' /\ ViewsAgree'
        BY <1>a, <1>10, SameStore DEF ArbPublished
    <2>2. TaskTypeOK'
        <3>1. /\ pc' = [pc EXCEPT ![k] = "rank"]
              /\ wait' = [wait EXCEPT ![k] = 0]
              /\ payload' = [payload EXCEPT ![k] = BuildRanked(tokenViews)]
              /\ UNCHANGED <<sinceRecalc, newest>>
            BY <1>10 DEF ArbPublished
        <3>2. overtaken' \in [Tasks -> BOOLEAN]
            BY <1>a, <1>10 DEF ArbPublished, TaskTypeOK, Tasks, Other
        <3>3. payload' \in [Tasks -> (SUBSET Pair) \cup (SUBSET Tokens)]
            <4>1. BuildRanked(tokenViews) \in (SUBSET Pair) \cup (SUBSET Tokens)
                BY BuildRankedType
            <4> QED BY <1>a, <3>1, <4>1 DEF TaskTypeOK
        <3>4. ASSUME NEW j \in Tasks
              PROVE  payload'[j] \subseteq (IF pc'[j] = "rank" THEN Tokens ELSE Pair)
            <4>1. CASE j = k
                BY <1>a, <3>1, <4>1, BuildRankedType DEF TaskTypeOK
            <4>2. CASE j # k
                BY <1>a, <3>1, <4>2 DEF TaskTypeOK
            <4> QED BY <4>1, <4>2
        <3> QED BY <1>a, <3>1, <3>2, <3>3, <3>4 DEF TaskTypeOK
    <2>3. QueueTypeOK'
        <3>1. current' \in [val : SUBSET Pair, ttl : 0..KeyTTL] /\ regressed' \in BOOLEAN
            <4>1. CASE SetCurrent(k)
                <5>1. regressed' \in BOOLEAN
                    BY <1>a, <4>1 DEF SetCurrent, TaskTypeOK
                <5> QED BY <1>a, <1>10, <4>1, <5>1, PayloadStored DEF ArbPublished, SetCurrent
            <4>2. CASE UNCHANGED <<current, regressed>>
                BY <1>a, <4>2 DEF QueueTypeOK
            <4> QED BY <1>10, <4>1, <4>2 DEF ArbPublished
        <3> QED BY <1>a, <1>10, <3>1 DEF ArbPublished, QueueTypeOK
    <2> QED BY <2>1, <2>2, <2>3
<1>11. ASSUME NEW k \in Tasks, RankPublished(k)
       PROVE  StoreTypeOK' /\ ViewsAgree' /\ TaskTypeOK' /\ QueueTypeOK'
    <2>1. StoreTypeOK' /\ ViewsAgree'
        BY <1>a, <1>11, SameStore DEF RankPublished
    <2>2. TaskTypeOK'
        <3>1. /\ pc' = [pc EXCEPT ![k] = IF k = "sub" THEN "listen" ELSE "sleep"]
              /\ wait' = [wait EXCEPT ![k] = IF k = "sub" THEN 0 ELSE RecalcEvery]
              /\ payload' = [payload EXCEPT ![k] = {}]
              /\ UNCHANGED <<sinceRecalc, overtaken, newest>>
            BY <1>11 DEF RankPublished
        <3>2. ASSUME NEW j \in Tasks
              PROVE  payload'[j] \subseteq (IF pc'[j] = "rank" THEN Tokens ELSE Pair)
            <4>1. CASE j = k
                BY <1>a, <3>1, <4>1 DEF TaskTypeOK
            <4>2. CASE j # k
                BY <1>a, <3>1, <4>2 DEF TaskTypeOK
            <4> QED BY <4>1, <4>2
        <3> QED BY <1>a, <3>1, <3>2 DEF TaskTypeOK
    <2>3. QueueTypeOK'
        <3>1. ranked' \in [val : SUBSET Tokens, ttl : 0..KeyTTL]
            BY <1>a, <1>11, PayloadStored DEF RankPublished, QueueTypeOK
        <3> QED BY <1>a, <1>11, <3>1 DEF RankPublished, QueueTypeOK
    <2> QED BY <2>1, <2>2, <2>3
<1>12. CASE UNCHANGED vars
    <2>1. StoreTypeOK' /\ ViewsAgree'
        BY <1>a, <1>12, SameStore DEF vars
    <2>2. TaskTypeOK'
        BY <1>a, <1>12 DEF vars, taskVars, TaskTypeOK
    <2>3. QueueTypeOK'
        BY <1>a, <1>12 DEF vars, redisVars, QueueTypeOK
    <2> QED BY <2>1, <2>2, <2>3
<1> QED
    BY <1>1, <1>2, <1>3, <1>4, <1>5, <1>6, <1>7, <1>8, <1>9, <1>10, <1>11, <1>12 DEF Next

\* Every variable of the pipeline has its type in every reachable state.
THEOREM TypeCorrect == Spec => []TypeOK
<1>1. StoreInv => TypeOK
    BY DEF StoreInv
<1> QED BY <1>1, InitStoreInv, NextStoreInv, PTL DEF Spec

\* _snapshots and _token_views stay two indexes of one table, whatever the
\* order of updates, ageing, purges and restarts (normalizer.py).
THEOREM ViewsAlwaysAgree == Spec => []ViewsAgree
<1>1. StoreInv => ViewsAgree
    BY DEF StoreInv
<1> QED BY <1>1, InitStoreInv, NextStoreInv, PTL DEF Spec

-----------------------------------------------------------------------------
(* How old stored data gets.  A snapshot that survived the last purge was    *)
(* live then, so its age exceeds the limit by at most the time since.        *)

PurgeInv ==
    \A p \in Keys :
        snapshots[p] # Absent => snapshots[p].age <= StaleAfter + (PurgeInterval - purgeWait)

LEMMA NextPurgeInv == TypeOK /\ TypeOK' /\ PurgeInv /\ [Next]_vars => PurgeInv'
<1> SUFFICES ASSUME TypeOK, TypeOK', PurgeInv, [Next]_vars PROVE PurgeInv'
    OBVIOUS
<1>a. /\ snapshots \in [Keys -> Slot] /\ snapshots' \in [Keys -> Slot]
      /\ purgeWait \in 0..PurgeInterval /\ purgeWait' \in 0..PurgeInterval
    BY DEF TypeOK, StoreTypeOK, QueueTypeOK, Keys
<1>b. \A p \in Keys : snapshots[p] # Absent => snapshots[p].age \in Nat
    BY <1>a DEF Slot, Snapshot
<1>1. CASE HandleMessage
    <2>1. CASE Head(inbox) = Malformed
        BY <1>1, <2>1 DEF HandleMessage, storeVars, PurgeInv
    <2>2. CASE Head(inbox) # Malformed
        <3> DEFINE m == Head(inbox)
        <3>1. snapshots' = [snapshots EXCEPT ![<<m.exchange, m.token>>] = [apr |-> m.apr, age |-> 0]]
            BY <1>1, <2>2 DEF HandleMessage, Update
        <3>2. purgeWait' = purgeWait
            BY <1>1 DEF HandleMessage
        <3> QED BY <1>a, <3>1, <3>2 DEF PurgeInv
    <2> QED BY <2>1, <2>2
<1>2. CASE PurgeWake
    <2>1. \A p \in Keys : snapshots'[p] = KeepLive(snapshots[p])
        BY <1>2 DEF PurgeWake, PurgeStale, Keys
    <2>2. \A p \in Keys : snapshots'[p] # Absent => snapshots'[p].age <= StaleAfter
        BY <1>a, <2>1, KeepLiveType
    <2> QED BY <1>2, <2>2 DEF PurgeWake, PurgeInv
<1>3. CASE Tick
    <2>1. \A p \in Keys : snapshots'[p] = Older(snapshots[p])
        BY <1>3 DEF Tick, AgeStore, Keys
    <2>2. \A p \in Keys : snapshots'[p] # Absent =>
              snapshots[p] # Absent /\ snapshots'[p].age <= snapshots[p].age + 1
        BY <1>a, <2>1, OlderType
    <2>3. purgeWait' = purgeWait - 1
        BY <1>3 DEF Tick
    <2>4. \A p \in Keys : snapshots'[p] # Absent => snapshots'[p].age \in Nat
        BY <1>a DEF Slot, Snapshot
    <2> QED BY <1>a, <1>b, <2>2, <2>3, <2>4 DEF PurgeInv
<1>4. CASE Restart
    BY <1>4 DEF Restart, PurgeInv, Keys
<1>5. ASSUME UNCHANGED <<snapshots, purgeWait>> PROVE PurgeInv'
    BY <1>5 DEF PurgeInv
<1>6. CASE Collect
    BY <1>5, <1>6 DEF Collect, Publish, storeVars
<1>7. CASE Subscribe \/ ConnectionLost \/ Reconnect \/ TimedWake
    BY <1>5, <1>7 DEF Subscribe, ConnectionLost, Reconnect, TimedWake, storeVars
<1>8. CASE \E k \in Tasks : ArbPublished(k) \/ RankPublished(k)
    BY <1>5, <1>8 DEF ArbPublished, RankPublished, storeVars
<1>9. CASE UNCHANGED vars
    BY <1>5, <1>9 DEF vars, storeVars
<1> QED BY <1>1, <1>2, <1>3, <1>4, <1>6, <1>7, <1>8, <1>9 DEF Next

\* No snapshot outlives the staleness limit by more than one purge interval
\* (_purge_loop), the only bound on the stale legs calculate() lets through.
THEOREM AgesBounded == Spec => []AgeBounded
<1>1. Init => PurgeInv
    BY DEF Init, StoreInit, PurgeInv, Keys
<1>2. TypeOK /\ PurgeInv => AgeBounded
    <2> SUFFICES ASSUME TypeOK, PurgeInv, NEW p \in Keys, snapshots[p] # Absent
                 PROVE  snapshots[p].age <= StaleAfter + PurgeInterval
        BY DEF AgeBounded, Keys
    <2>1. snapshots[p] \in Snapshot /\ purgeWait \in 0..PurgeInterval
        BY DEF TypeOK, StoreTypeOK, QueueTypeOK, Slot, Keys
    <2>2. snapshots[p].age \in Nat
        BY <2>1 DEF Snapshot
    <2> QED BY <2>1, <2>2 DEF PurgeInv
<1> QED BY <1>1, <1>2, NextPurgeInv, TypeCorrect, PTL DEF Spec

-----------------------------------------------------------------------------
(* How far apart recalculations get.  Asleep, the timed task has less than   *)
(* the bound left to its next check; awake, it recalculated when it started. *)

GapInv ==
    /\ pc["timed"] \in {"sleep", "arb", "rank"}
    /\ pc["timed"] = "sleep" => sinceRecalc + wait["timed"] <= GapBound
    /\ pc["timed"] # "sleep" => wait["timed"] <= MaxLatency
    /\ pc["timed"] = "arb" => sinceRecalc <= wait["timed"]
    /\ pc["timed"] = "rank" => sinceRecalc <= MaxLatency + wait["timed"]

LEMMA NextGapInv == TypeOK /\ TypeOK' /\ GapInv /\ [Next]_vars => GapInv'
<1> SUFFICES ASSUME TypeOK, TypeOK', GapInv, [Next]_vars PROVE GapInv'
    OBVIOUS
<1>a. /\ sinceRecalc \in Nat /\ sinceRecalc' \in Nat
      /\ wait["timed"] \in Nat /\ wait'["timed"] \in Nat
      /\ GapBound \in Nat /\ 2 * RecalcEvery <= GapBound
      /\ RecalcEvery + 2 * MaxLatency <= GapBound /\ GapBound < RecalcCap
    BY DEF TypeOK, TaskTypeOK, Tasks, GapBound, RecalcCap
<1>b. /\ DOMAIN pc = Tasks /\ DOMAIN wait = Tasks
    BY DEF TypeOK, TaskTypeOK
\* The subscriber's steps leave the timed task alone and only reset the clock.
<1>c. ASSUME pc'["timed"] = pc["timed"], wait'["timed"] = wait["timed"], sinceRecalc' <= sinceRecalc
      PROVE  GapInv'
    BY <1>a, <1>c DEF GapInv
<1>1. CASE Collect
    BY <1>a, <1>c, <1>1 DEF Collect, Publish, taskVars
<1>2. CASE Subscribe \/ ConnectionLost \/ Reconnect
    BY <1>a, <1>b, <1>c, <1>2 DEF Subscribe, ConnectionLost, Reconnect, Tasks, TypeOK, TaskTypeOK
<1>3. CASE HandleMessage
    <2>1. CASE StartRecalc("sub")
        BY <1>a, <1>b, <1>c, <2>1 DEF StartRecalc, Tasks, TypeOK, TaskTypeOK
    <2>2. CASE UNCHANGED <<sinceRecalc, taskVars>>
        BY <1>a, <1>c, <2>2 DEF taskVars
    <2> QED BY <1>3, <2>1, <2>2 DEF HandleMessage
<1>4. CASE TimedWake
    <2>1. CASE TimedDue
        <3>1. StartRecalc("timed")
            BY <1>4, <2>1 DEF TimedWake
        <3>2. sinceRecalc' = 0 /\ pc'["timed"] = "arb" /\ wait'["timed"] = 0
            BY <1>b, <3>1 DEF StartRecalc, Tasks, TypeOK, TaskTypeOK
        <3> QED BY <1>a, <3>2 DEF GapInv
    <2>2. CASE ~TimedDue
        <3>1. pc'["timed"] = "sleep" /\ wait'["timed"] = RecalcEvery /\ sinceRecalc' = sinceRecalc
            BY <1>4, <1>b, <2>2 DEF TimedWake, Tasks, TypeOK, TaskTypeOK
        <3>2. sinceRecalc < RecalcEvery
            BY <1>a, <2>2 DEF TimedDue
        <3> QED BY <1>a, <3>1, <3>2 DEF GapInv
    <2> QED BY <2>1, <2>2
<1>5. CASE PurgeWake
    BY <1>a, <1>c, <1>5 DEF PurgeWake, taskVars
<1>6. CASE Tick
    <2>1. pc' = pc
        BY <1>6 DEF Tick
    <2>2. sinceRecalc' <= sinceRecalc + 1
        BY <1>a, <1>6 DEF Tick, RecalcCap
    <2>3. wait'["timed"] = IF Sleeping("timed") THEN wait["timed"] - 1
                           ELSE IF InFlight("timed") THEN wait["timed"] + 1 ELSE wait["timed"]
        BY <1>6 DEF Tick, Tasks
    <2>4. InFlight("timed") => wait["timed"] < MaxLatency
        BY <1>6 DEF Tick, Tasks
    <2>5. CASE pc["timed"] = "sleep"
        BY <1>a, <2>1, <2>2, <2>3, <2>5 DEF GapInv, Sleeping, InFlight
    <2>6. CASE pc["timed"] = "arb"
        BY <1>a, <2>1, <2>2, <2>3, <2>4, <2>6 DEF GapInv, Sleeping, InFlight
    <2>7. CASE pc["timed"] = "rank"
        BY <1>a, <2>1, <2>2, <2>3, <2>4, <2>7 DEF GapInv, Sleeping, InFlight
    <2> QED BY <2>5, <2>6, <2>7 DEF GapInv
<1>7. CASE Restart
    BY <1>a, <1>7 DEF Restart, GapInv, Tasks
<1>8. ASSUME NEW k \in Tasks, ArbPublished(k) PROVE GapInv'
    <2>1. CASE k = "sub"
        BY <1>a, <1>b, <1>c, <1>8, <2>1 DEF ArbPublished, Tasks, TypeOK, TaskTypeOK
    <2>2. CASE k = "timed"
        <3>1. pc["timed"] = "arb" /\ pc'["timed"] = "rank" /\ wait'["timed"] = 0 /\ sinceRecalc' = sinceRecalc
            BY <1>b, <1>8, <2>2 DEF ArbPublished, Tasks, TypeOK, TaskTypeOK
        <3> QED BY <1>a, <3>1 DEF GapInv
    <2> QED BY <2>1, <2>2 DEF Tasks
<1>9. ASSUME NEW k \in Tasks, RankPublished(k) PROVE GapInv'
    <2>1. CASE k = "sub"
        BY <1>a, <1>b, <1>c, <1>9, <2>1 DEF RankPublished, Tasks, TypeOK, TaskTypeOK
    <2>2. CASE k = "timed"
        <3>1. /\ pc["timed"] = "rank" /\ pc'["timed"] = "sleep"
              /\ wait'["timed"] = RecalcEvery /\ sinceRecalc' = sinceRecalc
            BY <1>b, <1>9, <2>2 DEF RankPublished, Tasks, TypeOK, TaskTypeOK
        <3> QED BY <1>a, <3>1 DEF GapInv
    <2> QED BY <2>1, <2>2 DEF Tasks
<1>10. CASE UNCHANGED vars
    BY <1>a, <1>c, <1>10 DEF vars, taskVars
<1> QED BY <1>1, <1>2, <1>3, <1>4, <1>5, <1>6, <1>7, <1>8, <1>9, <1>10 DEF Next

\* The two recalculation paths together never leave the published results
\* without a recalculation for longer than GapBound (_timed_recalc_loop).
THEOREM GapBounded == Spec => []RecalcGap
<1>1. Init => GapInv
    BY DEF Init, GapInv, GapBound, Tasks
<1>2. TypeOK /\ GapInv => RecalcGap
    <2> SUFFICES ASSUME TypeOK, GapInv PROVE RecalcGap
        OBVIOUS
    <2>1. sinceRecalc \in Nat /\ wait["timed"] \in Nat
        BY DEF TypeOK, TaskTypeOK, Tasks
    <2>2. 2 * MaxLatency <= GapBound /\ GapBound \in Nat
        BY DEF GapBound
    <2> QED BY <2>1, <2>2 DEF GapInv, RecalcGap
<1> QED BY <1>1, <1>2, NextGapInv, TypeCorrect, PTL DEF Spec

=============================================================================
