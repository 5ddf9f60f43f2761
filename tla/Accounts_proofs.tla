---------------------------- MODULE Accounts_proofs ----------------------------
(***************************************************************************)
(* The cached tier agrees with the row after its time to live, and a       *)
(* subscription that ended gives no tier, for any number of requests       *)
(* served at once, keys and checkout sessions.                             *)
(***************************************************************************)
EXTENDS Accounts, FiniteSetTheorems, TLAPS

USE AccountsAssumption

\* A request that is about to store a tier has read one.
RequestJob == {j \in Job : j.at = "tierset" => j.tier \in Tiers}
AnyJob == RequestJob \cup RegenJob \cup BustJob

CacheTypeOK ==
    /\ tier \in Tiers /\ key \in Keys
    /\ tierCache \in [Keys -> [tier : Tiers, ttl : 1..CacheTTL] \cup {None}]
    /\ job \in [Workers -> AnyJob \cup {None}]
    /\ quiet \in 0..CacheTTL

\* What a job will write about the account is still true.
Current(j) ==
    /\ j.at = "tierset" => j.key = key /\ j.tier = tier
    /\ j.at \notin {"drop", "newreverse", "newtier"}

Wrong(k) == k # key \/ tierCache[k].tier # tier

\* No request outlives a tick, so after one nobody holds what was read before
\* the last change; and a key that is wrong was written before that tick.
Inv ==
    /\ CacheTypeOK
    /\ quiet > 0 => \A w \in Workers : job[w] # None => Current(job[w])
    /\ \A k \in Keys : tierCache[k] # None /\ Wrong(k) => quiet + tierCache[k].ttl <= CacheTTL

LEMMA JobKinds ==
    ASSUME NEW j \in AnyJob
    PROVE  /\ j.at \in {"read", "tierset", "reverse"} => j \in RequestJob
           /\ j.at \in {"commit", "drop", "newreverse", "newtier"} => j \in RegenJob
           /\ j.at \in {"find", "bust"} => j \in BustJob
BY DEF AnyJob, RequestJob, Job, RegenJob, BustJob

LEMMA Initially == Init => Inv
<1> SUFFICES ASSUME Init PROVE Inv
    OBVIOUS
<1>1. CacheTypeOK
    BY DEF Init, CacheTypeOK, Tiers
<1>2. \A w \in Workers : job[w] = None
    BY DEF Init
<1>3. \A k \in Keys : tierCache[k] = None
    BY DEF Init
<1> QED BY <1>1, <1>2, <1>3 DEF Inv

\* The job of one worker changes to j, and nothing else of the invariant's.
LEMMA JobStep ==
    ASSUME Inv, NEW w \in Workers, NEW j \in AnyJob \cup {None},
           job' = [job EXCEPT ![w] = j],
           quiet > 0 /\ j # None => Current(j),
           UNCHANGED <<tier, key, tierCache, quiet>>
    PROVE  Inv'
BY DEF Inv, CacheTypeOK, Current, Wrong

\* Besides, the tier cached for k is dropped or set to t.
LEMMA WriteStep ==
    ASSUME Inv, NEW w \in Workers, NEW j \in AnyJob \cup {None},
           job' = [job EXCEPT ![w] = j],
           quiet > 0 /\ j # None => Current(j),
           UNCHANGED <<tier, key, quiet>>,
           NEW k \in Keys, NEW v \in [tier : Tiers, ttl : 1..CacheTTL] \cup {None},
           tierCache' = [tierCache EXCEPT ![k] = v],
           quiet > 0 /\ v # None => k = key /\ v.tier = tier
    PROVE  Inv'
<1>1. CacheTypeOK'
    BY DEF Inv, CacheTypeOK
<1>2. ASSUME quiet > 0, NEW x \in Workers, job'[x] # None
      PROVE  Current(job[x])'
    BY <1>2 DEF Inv, CacheTypeOK, Current
<1>3. ASSUME NEW x \in Keys, tierCache'[x] # None, Wrong(x)'
      PROVE  quiet' + tierCache'[x].ttl <= CacheTTL
    <2>1. CASE x = k
        <3>1. tierCache'[x] = v
            BY <2>1 DEF Inv, CacheTypeOK
        <3>2. v \in [tier : Tiers, ttl : 1..CacheTTL] /\ quiet = 0
            BY <1>3, <2>1, <3>1 DEF Inv, CacheTypeOK, Wrong
        <3> QED BY <3>1, <3>2
    <2>2. CASE x # k
        BY <1>3, <2>2 DEF Inv, CacheTypeOK, Wrong
    <2> QED BY <2>1, <2>2
<1> QED BY <1>1, <1>2, <1>3 DEF Inv

\* Tier or key changes: whatever is cached, its time to live bounds it.
LEMMA ChangeStep ==
    ASSUME Inv, NEW w \in Workers, NEW j \in AnyJob,
           job' = [job EXCEPT ![w] = j],
           tier' \in Tiers, key' \in Keys, quiet' = 0, UNCHANGED tierCache
    PROVE  Inv'
BY DEF Inv, CacheTypeOK

LEMMA SameStep ==
    ASSUME Inv, UNCHANGED <<tier, key, tierCache, job, quiet>>
    PROVE  Inv'
BY DEF Inv, CacheTypeOK, Current, Wrong

LEMMA TickStep ==
    ASSUME Inv, Tick
    PROVE  Inv'
<1>1. /\ \A w \in Workers : job[w] = None
      /\ tierCache' = [k \in Keys |-> Aged(tierCache[k])]
      /\ quiet' = IF quiet < CacheTTL THEN quiet + 1 ELSE quiet
      /\ UNCHANGED <<tier, key, job>>
    BY DEF Tick, row
<1>2. ASSUME NEW k \in Keys, tierCache'[k] # None
      PROVE  /\ tierCache[k] \in [tier : Tiers, ttl : 1..CacheTTL] /\ tierCache[k] # None
             /\ tierCache'[k] \in [tier : Tiers, ttl : 1..CacheTTL]
             /\ tierCache'[k].tier = tierCache[k].tier
             /\ tierCache'[k].ttl = tierCache[k].ttl - 1
    <2>1. tierCache'[k] = Aged(tierCache[k])
        BY <1>1
    <2>2. tierCache[k] # None /\ tierCache[k].ttl # 1
        BY <1>2, <2>1 DEF Aged
    <2>3. tierCache[k] \in [tier : Tiers, ttl : 1..CacheTTL]
        BY <2>2 DEF Inv, CacheTypeOK
    <2> DEFINE v == tierCache[k]
    <2>4. Aged(v) = [v EXCEPT !.ttl = @ - 1]
        BY <2>2 DEF Aged
    <2>5. [v EXCEPT !.ttl = @ - 1] = [tier |-> v.tier, ttl |-> v.ttl - 1]
        BY <2>3
    <2> QED BY <2>1, <2>2, <2>3, <2>4, <2>5
<1>3. CacheTypeOK'
    BY <1>1, <1>2 DEF Inv, CacheTypeOK
<1>4. ASSUME NEW k \in Keys, tierCache'[k] # None, Wrong(k)'
      PROVE  quiet' + tierCache'[k].ttl <= CacheTTL
    <2>1. Wrong(k)
        BY <1>1, <1>2, <1>4 DEF Wrong
    <2> QED BY <1>1, <1>2, <1>4, <2>1 DEF Inv, CacheTypeOK
<1> QED BY <1>1, <1>3, <1>4 DEF Inv

-----------------------------------------------------------------------------
LEMMA RequestSteps ==
    ASSUME Inv, NEW w \in Workers,
           \/ \E k \in Keys, full \in BOOLEAN : Request(w, k, full)
           \/ ReadRow(w) \/ StoreTier(w) \/ StoreReverse(w)
    PROVE  Inv'
<1>1. ASSUME NEW k \in Keys, NEW full \in BOOLEAN, Request(w, k, full) PROVE Inv'
    <2> DEFINE j == [at |-> "read", key |-> k, tier |-> None, full |-> full,
                     cached |-> tierCache[k] # None]
    <2>1. j \in AnyJob /\ Current(j)
        BY DEF AnyJob, RequestJob, Job, Current
    <2>2. /\ job' = [job EXCEPT ![w] = j]
          /\ UNCHANGED <<tier, key, tierCache, quiet>>
        BY <1>1 DEF Request, Begin, row, redis
    <2> HIDE DEF j
    <2> QED BY <2>1, <2>2, JobStep
<1>2. CASE ReadRow(w)
    <2>1. job[w] \in RequestJob /\ UNCHANGED <<tier, key, tierCache, quiet>>
        BY <1>2, JobKinds DEF ReadRow, At, Inv, CacheTypeOK, row, redis
    <2>2. CASE job[w].key = key /\ ~job[w].cached
        <3> DEFINE j == [job[w] EXCEPT !.at = "tierset", !.tier = tier]
        <3>1. j \in AnyJob /\ Current(j)
            BY <2>1, <2>2 DEF AnyJob, RequestJob, Job, Current, Inv, CacheTypeOK
        <3>2. job' = [job EXCEPT ![w] = j]
            BY <1>2, <2>2 DEF ReadRow, Inv, CacheTypeOK
        <3> HIDE DEF j
        <3> QED BY <2>1, <3>1, <3>2, JobStep
    <2>3. CASE ~(job[w].key = key /\ ~job[w].cached)
        <3>1. job' = [job EXCEPT ![w] = None]
            BY <1>2, <2>3 DEF ReadRow, End
        <3> QED BY <2>1, <3>1, JobStep
    <2> QED BY <2>2, <2>3
<1>3. CASE StoreTier(w)
    <2>1. /\ job[w] \in RequestJob /\ job[w] # None /\ job[w].at = "tierset"
          /\ UNCHANGED <<tier, key, quiet>>
        BY <1>3, JobKinds DEF StoreTier, At, Inv, CacheTypeOK, row
    <2> DEFINE v == [tier |-> job[w].tier, ttl |-> CacheTTL]
               j == IF job[w].full THEN [job[w] EXCEPT !.at = "reverse"] ELSE None
    <2>2. tierCache' = [tierCache EXCEPT ![job[w].key] = v]
        BY <1>3 DEF StoreTier, SetTier, Life
    <2>3. job' = [job EXCEPT ![w] = j]
        BY <1>3 DEF StoreTier, Goto, End, Inv, CacheTypeOK
    <2>4. j \in AnyJob \cup {None} /\ (j # None => Current(j))
        BY <2>1 DEF AnyJob, RequestJob, Job, Current
    <2>5. quiet > 0 => job[w].key = key /\ v.tier = tier
        BY <2>1 DEF Inv, Current
    <2>6. v \in [tier : Tiers, ttl : 1..CacheTTL] /\ job[w].key \in Keys
        BY <2>1 DEF RequestJob, Job
    <2> HIDE DEF v, j
    <2> QED BY <2>1, <2>2, <2>3, <2>4, <2>5, <2>6, WriteStep
<1>4. CASE StoreReverse(w)
    <2>1. job' = [job EXCEPT ![w] = None] /\ UNCHANGED <<tier, key, tierCache, quiet>>
        BY <1>4 DEF StoreReverse, End, row
    <2> QED BY <2>1, JobStep
<1> QED BY <1>1, <1>2, <1>3, <1>4

LEMMA RegenSteps ==
    ASSUME Inv, NEW w \in Workers,
           \/ RegenBegin(w) \/ RegenCommit(w) \/ RegenDrop(w) \/ RegenReverse(w) \/ RegenTier(w)
    PROVE  Inv'
<1>1. CASE RegenBegin(w)
    <2>1. PICK k \in Keys : Begin(w, [at |-> "commit", old |-> key, new |-> k, tier |-> tier])
        BY <1>1 DEF RegenBegin
    <2> DEFINE j == [at |-> "commit", old |-> key, new |-> k, tier |-> tier]
    <2>2. j \in AnyJob /\ Current(j)
        BY DEF AnyJob, RegenJob, Current, Inv, CacheTypeOK
    <2>3. job' = [job EXCEPT ![w] = j] /\ UNCHANGED <<tier, key, tierCache, quiet>>
        BY <1>1, <2>1 DEF Begin, RegenBegin, redis
    <2> HIDE DEF j
    <2> QED BY <2>2, <2>3, JobStep
<1>2. CASE RegenCommit(w)
    <2>1. job[w] \in RegenJob
        BY <1>2, JobKinds DEF RegenCommit, At, Inv, CacheTypeOK
    <2> DEFINE j == [job[w] EXCEPT !.at = "drop"]
    <2>2. j \in AnyJob /\ job[w].new \in Keys
        BY <2>1 DEF AnyJob, RegenJob
    <2>3. job' = [job EXCEPT ![w] = j] /\ key' = job[w].new /\ quiet' = 0
        BY <1>2 DEF RegenCommit, Goto
    <2>4. tier' \in Tiers /\ UNCHANGED tierCache
        BY <1>2 DEF RegenCommit, redis, Inv, CacheTypeOK
    <2> HIDE DEF j
    <2> QED BY <2>2, <2>3, <2>4, ChangeStep
<1>3. CASE RegenDrop(w) \/ RegenReverse(w) \/ RegenTier(w)
    <2>1. /\ job[w] \in RegenJob /\ job[w] # None
          /\ job[w].at \in {"drop", "newreverse", "newtier"}
          /\ UNCHANGED <<tier, key, quiet>>
        BY <1>3, JobKinds DEF RegenDrop, RegenReverse, RegenTier, At, Inv, CacheTypeOK, row
    <2>2. ~(quiet > 0)
        BY <2>1 DEF Inv, Current
    <2>3. CASE RegenDrop(w)
        <3> DEFINE j == [job[w] EXCEPT !.at = "newreverse"]
        <3>1. j \in AnyJob /\ job[w].old \in Keys
            BY <2>1 DEF AnyJob, RegenJob
        <3>2. /\ job' = [job EXCEPT ![w] = j]
              /\ tierCache' = [tierCache EXCEPT ![job[w].old] = None]
            BY <2>3 DEF RegenDrop, Goto, DropTier
        <3> HIDE DEF j
        <3> QED BY <2>1, <2>2, <3>1, <3>2, WriteStep
    <2>4. CASE RegenReverse(w)
        <3> DEFINE j == [job[w] EXCEPT !.at = "newtier"]
        <3>1. j \in AnyJob
            BY <2>1 DEF AnyJob, RegenJob
        <3>2. job' = [job EXCEPT ![w] = j] /\ UNCHANGED tierCache
            BY <2>4 DEF RegenReverse, Goto
        <3> HIDE DEF j
        <3> QED BY <2>1, <2>2, <3>1, <3>2, JobStep
    <2>5. CASE RegenTier(w)
        <3> DEFINE v == [tier |-> job[w].tier, ttl |-> CacheTTL]
        <3>1. v \in [tier : Tiers, ttl : 1..CacheTTL] /\ job[w].new \in Keys
            BY <2>1 DEF RegenJob
        <3>2. /\ job' = [job EXCEPT ![w] = None]
              /\ tierCache' = [tierCache EXCEPT ![job[w].new] = v]
            BY <2>5 DEF RegenTier, End, SetTier, Life
        <3> HIDE DEF v
        <3> QED BY <2>1, <2>2, <3>1, <3>2, WriteStep
    <2> QED BY <1>3, <2>3, <2>4, <2>5
<1> QED BY <1>1, <1>2, <1>3

LEMMA WebhookSteps ==
    ASSUME Inv, NEW w \in Workers, HandleEvent(w) \/ BustFind(w) \/ BustDrop(w),
           reverse = None \/ reverse.key \in Keys
    PROVE  Inv'
<1>1. CASE HandleEvent(w)
    <2> DEFINE j == [at |-> "find", key |-> None]
    <2>1. j \in AnyJob
        BY DEF AnyJob, BustJob
    <2>2. /\ job' = [job EXCEPT ![w] = j] /\ quiet' = 0
          /\ tier' \in Tiers /\ UNCHANGED <<key, tierCache>>
        BY <1>1 DEF HandleEvent, Begin, redis, Tiers
    <2>3. key' \in Keys
        BY <2>2 DEF Inv, CacheTypeOK
    <2> HIDE DEF j
    <2> QED BY <2>1, <2>2, <2>3, ChangeStep
<1>2. CASE BustFind(w)
    <2>1. job[w] \in BustJob /\ UNCHANGED <<tier, key, tierCache, quiet>>
        BY <1>2, JobKinds DEF BustFind, At, Inv, CacheTypeOK, row, redis
    <2>2. CASE reverse = None
        <3>1. job' = [job EXCEPT ![w] = None]
            BY <1>2, <2>2 DEF BustFind, End
        <3> QED BY <2>1, <3>1, JobStep
    <2>3. CASE reverse # None
        <3> DEFINE j == [job[w] EXCEPT !.at = "bust", !.key = reverse.key]
        <3>1. j \in AnyJob /\ Current(j)
            BY <2>1, <2>3 DEF AnyJob, BustJob, Current
        <3>2. job' = [job EXCEPT ![w] = j]
            BY <1>2, <2>3 DEF BustFind, Inv, CacheTypeOK
        <3> HIDE DEF j
        <3> QED BY <2>1, <3>1, <3>2, JobStep
    <2> QED BY <2>2, <2>3
<1>3. CASE BustDrop(w)
    <2>1. /\ job' = [job EXCEPT ![w] = None] /\ UNCHANGED <<tier, key, quiet>>
          /\ tierCache' = [tierCache EXCEPT ![job[w].key] = None]
        BY <1>3 DEF BustDrop, End, DropTier, row
    <2>2. CASE job[w].key \in Keys
        BY <2>1, <2>2, WriteStep
    <2>3. CASE job[w].key \notin Keys
        <3>1. tierCache' = tierCache
            BY <2>1, <2>3 DEF Inv, CacheTypeOK
        <3> QED BY <2>1, <3>1, JobStep
    <2> QED BY <2>2, <2>3
<1> QED BY <1>1, <1>2, <1>3

LEMMA FailStep ==
    ASSUME Inv, NEW w \in Workers, JobFails(w)
    PROVE  Inv'
<1>1. job' = [job EXCEPT ![w] = None] /\ UNCHANGED <<tier, key, tierCache, quiet>>
    BY DEF JobFails, End, row, redis
<1> QED BY <1>1, JobStep

-----------------------------------------------------------------------------
\* What a webhook finds by the user's id is a key.
ReverseOK == reverse = None \/ reverse.key \in Keys

LEMMA ReverseStep ==
    ASSUME Inv, ReverseOK, [Next]_vars
    PROVE  ReverseOK'
<1>1. CASE \E w \in Workers : StoreReverse(w)
    <2>1. PICK w \in Workers : StoreReverse(w)
        BY <1>1
    <2>2. job[w] \in RequestJob
        BY <2>1, JobKinds DEF StoreReverse, At, Inv, CacheTypeOK
    <2> QED BY <2>1, <2>2 DEF StoreReverse, SetReverse, RequestJob, Job, ReverseOK
<1>2. CASE \E w \in Workers : RegenReverse(w)
    <2>1. PICK w \in Workers : RegenReverse(w)
        BY <1>2
    <2>2. job[w] \in RegenJob
        BY <2>1, JobKinds DEF RegenReverse, At, Inv, CacheTypeOK
    <2> QED BY <2>1, <2>2 DEF RegenReverse, SetReverse, RegenJob, ReverseOK
<1>3. CASE Tick
    BY <1>3 DEF Tick, Aged, ReverseOK
<1>4. CASE ~Tick /\ ~\E w \in Workers : StoreReverse(w) \/ RegenReverse(w)
    <2>1. UNCHANGED reverse
        BY <1>4 DEF Next, Work, Request, ReadRow, StoreTier, RegenBegin, RegenCommit, RegenDrop,
            RegenTier, HandleEvent, BustFind, BustDrop, JobFails, DropEvent, OpenCheckout,
            Pay, Cancel, Stripe, redis, vars
    <2> QED BY <2>1 DEF ReverseOK
<1> QED BY <1>1, <1>2, <1>3, <1>4

LEMMA InvStep ==
    ASSUME Inv, ReverseOK, [Next]_vars
    PROVE  Inv'
<1>1. ASSUME NEW w \in Workers, Work(w) PROVE Inv'
    BY <1>1, RequestSteps, RegenSteps, WebhookSteps, FailStep DEF Work, ReverseOK
<1>2. CASE DropEvent \/ (\E s \in Subs : OpenCheckout(s) \/ Pay(s) \/ Cancel(s)) \/ UNCHANGED vars
    <2>1. UNCHANGED <<tier, key, tierCache, job, quiet>>
        BY <1>2 DEF DropEvent, OpenCheckout, Pay, Cancel, Stripe, row, redis, vars
    <2> QED BY <2>1, SameStep
<1>3. CASE Tick
    BY <1>3, TickStep
<1> QED BY <1>1, <1>2, <1>3 DEF Next

(* After the time to live of the cached keys, Redis answers for the current *)
(* key only and with the current tier, whatever requests, regenerations,    *)
(* webhooks, failures and crashes did, in whatever order.                   *)
THEOREM CachesSettle == Spec => []CacheSettles
<1>1. Init => Inv /\ ReverseOK
    BY Initially DEF Init, ReverseOK
<1>2. Inv /\ ReverseOK /\ [Next]_vars => Inv' /\ ReverseOK'
    BY InvStep, ReverseStep
<1>3. Inv => CacheSettles
    <2> SUFFICES ASSUME Inv, quiet = CacheTTL, NEW k \in Keys, tierCache[k] # None
                 PROVE  k = key /\ tierCache[k].tier = tier
        BY DEF CacheSettles
    <2>1. tierCache[k].ttl \in 1..CacheTTL
        BY DEF Inv, CacheTypeOK
    <2> QED BY <2>1 DEF Inv, Wrong
<1> QED BY <1>1, <1>2, <1>3, PTL DEF Spec

-----------------------------------------------------------------------------
(* A subscription that ended gives no tier.                                 *)

\* The customer c will lose the tier by an event behind the i-th, or has a
\* subscription whose end is still to come.
WillEnd(c, i) ==
    \/ \E j \in DOMAIN events : j > i /\ events[j] = [kind |-> "deleted", customer |-> c]
    \/ \E s \in Subs : subs[s] = "active" /\ payer[s] = c

LastCompleted(i) ==
    /\ events[i].kind = "completed"
    /\ \A j \in DOMAIN events : events[j].kind = "completed" => j <= i

NoneCompleted == \A i \in DOMAIN events : events[i].kind # "completed"

\* The customer whom the last completion will leave on record, or the one on
\* record when none is to come, will lose the tier again.
StripeInv ==
    /\ events \in Seq(Event)
    /\ subs \in [Subs -> {"none", "open", "active", "ended"}]
    /\ \A s \in Subs : subs[s] # "none" => payer[s] \in Subs
    /\ payer \in [Subs -> Subs \cup {None}] /\ customer \in Subs \cup {None}
    /\ ~mishap =>
        /\ \A i \in DOMAIN events : LastCompleted(i) => WillEnd(events[i].customer, i)
        /\ tier = "pro" /\ NoneCompleted => WillEnd(customer, 0)

LEMMA CustomersType ==
    ASSUME StripeInv
    PROVE  \A i \in DOMAIN events : events[i].customer \in Subs
<1>1. \A i \in DOMAIN events : events[i] \in Event
    BY DEF StripeInv
<1> QED BY <1>1 DEF Event

LEMMA FirstRemoved ==
    ASSUME NEW q \in Seq(Event), 1 \in DOMAIN q
    PROVE  /\ RemoveAt(q, 1) \in Seq(Event)
           /\ Len(RemoveAt(q, 1)) = Len(q) - 1
           /\ \A i \in 1..(Len(q) - 1) : RemoveAt(q, 1)[i] = q[i + 1]
<1>1. Len(q) \in Nat \ {0}
    OBVIOUS
<1>2. SubSeq(q, 1, 0) = <<>>
    OBVIOUS
<1>3. SubSeq(q, 2, Len(q)) = Tail(q)
    BY <1>1
<1>4. RemoveAt(q, 1) = <<>> \o Tail(q)
    BY <1>2, <1>3 DEF RemoveAt
<1>5. Tail(q) \in Seq(Event) /\ RemoveAt(q, 1) = Tail(q)
    BY <1>1, <1>4
<1> QED BY <1>1, <1>5

LEMMA OneRemoved ==
    ASSUME NEW q \in Seq(Event), NEW i \in DOMAIN q
    PROVE  RemoveAt(q, i) \in Seq(Event)
<1>1. SubSeq(q, 1, i - 1) \in Seq(Event) /\ SubSeq(q, i + 1, Len(q)) \in Seq(Event)
    OBVIOUS
<1> QED BY <1>1 DEF RemoveAt

\* While nothing goes wrong the oldest event is consumed, and for good.
LEMMA ConsumedInOrder ==
    ASSUME StripeInv, NEW i \in Deliverable, NEW lost \in BOOLEAN, Consumed(i, lost)
    PROVE  /\ i \in DOMAIN events /\ events' \in Seq(Event)
           /\ ~mishap' => /\ ~mishap /\ ~lost /\ i = 1
                          /\ Len(events') = Len(events) - 1
                          /\ \A n \in 1..(Len(events) - 1) : events'[n] = events[n + 1]
<1>1. i \in DOMAIN events /\ i \in 1..Len(events) /\ Len(events) \in Nat
    BY DEF Deliverable, StripeInv
<1>2. events' \in Seq(Event)
    BY <1>1, OneRemoved DEF Consumed, StripeInv
<1>3. ASSUME ~mishap'
      PROVE  ~mishap /\ ~lost /\ i = 1 /\ events' = RemoveAt(events, i)
    <2>1. events' = RemoveAt(events, i) /\ ~(mishap \/ i > 1 \/ lost)
        BY <1>3, Zenon DEF Consumed
    <2> QED BY <1>1, <2>1
<1> QED BY <1>1, <1>2, <1>3, FirstRemoved DEF StripeInv

\* The first event is consumed: every end that is due is behind it, or was its own.
LEMMA QueueMoves ==
    ASSUME StripeInv, 1 \in DOMAIN events, events' \in Seq(Event),
           Len(events') = Len(events) - 1,
           \A n \in 1..(Len(events) - 1) : events'[n] = events[n + 1],
           UNCHANGED <<subs, payer>>
    PROVE  /\ \A j \in DOMAIN events : j # 1 => j - 1 \in DOMAIN events' /\ events'[j - 1] = events[j]
           /\ \A c \in Subs \cup {None} : WillEnd(c, 1) => WillEnd(c, 0)'
           /\ ~mishap => \A n \in DOMAIN events' : LastCompleted(n)' => WillEnd(events[n].customer, n)'
<1>1. Len(events) \in Nat \ {0} /\ DOMAIN events = 1..Len(events)
      /\ DOMAIN events' = 1..(Len(events) - 1)
    BY DEF StripeInv
<1>2. \A n \in DOMAIN events' : n + 1 \in DOMAIN events /\ events'[n] = events[n + 1]
    BY <1>1
<1>3. \A j \in DOMAIN events : j # 1 => j - 1 \in DOMAIN events' /\ events'[j - 1] = events[j]
    BY <1>1
<1>4. ASSUME NEW c \in Subs \cup {None}, NEW n \in Nat, WillEnd(c, n + 1)
      PROVE  WillEnd(c, n)'
    <2>1. CASE \E s \in Subs : subs[s] = "active" /\ payer[s] = c
        BY <2>1 DEF WillEnd
    <2>2. CASE \E j \in DOMAIN events : j > n + 1 /\ events[j] = [kind |-> "deleted", customer |-> c]
        <3>1. PICK j \in DOMAIN events : j > n + 1 /\ events[j] = [kind |-> "deleted", customer |-> c]
            BY <2>2
        <3>2. j - 1 \in DOMAIN events' /\ j - 1 > n /\ events'[j - 1] = events[j]
            BY <1>1, <3>1
        <3> QED BY <3>1, <3>2 DEF WillEnd
    <2> QED BY <1>4, <2>1, <2>2 DEF WillEnd
<1>5. ASSUME NEW n \in DOMAIN events', LastCompleted(n)'
      PROVE  LastCompleted(n + 1)
    <2>1. events[n + 1].kind = "completed"
        BY <1>2, <1>5 DEF LastCompleted
    <2>2. ASSUME NEW j \in DOMAIN events, events[j].kind = "completed"
          PROVE  j <= n + 1
        <3>1. CASE j = 1
            BY <1>1, <3>1
        <3>2. CASE j # 1
            <4>1. j - 1 \in DOMAIN events' /\ events'[j - 1] = events[j]
                BY <1>3, <3>2
            <4>2. j - 1 <= n
                BY <1>5, <2>2, <4>1 DEF LastCompleted
            <4> QED BY <1>1, <4>2
        <3> QED BY <3>1, <3>2
    <2> QED BY <2>1, <2>2 DEF LastCompleted
<1>6. ASSUME ~mishap, NEW n \in DOMAIN events', LastCompleted(n)'
      PROVE  WillEnd(events[n].customer, n)'
    <2>1. n \in Nat /\ n + 1 \in DOMAIN events
        BY <1>1
    <2>2. PICK c \in Subs : c = events[n + 1].customer
        BY <2>1, CustomersType
    <2>3. WillEnd(c, n + 1)
        BY <1>5, <1>6, <2>1, <2>2 DEF StripeInv
    <2>4. WillEnd(c, n)'
        BY <1>4, <2>1, <2>3
    <2>5. events'[n].customer = c
        BY <1>2, <2>2
    <2> QED BY <2>4, <2>5
<1>7. ASSUME NEW c \in Subs \cup {None}, WillEnd(c, 1)
      PROVE  WillEnd(c, 0)'
    <2>1. 0 \in Nat /\ 0 + 1 = 1
        OBVIOUS
    <2> QED BY <1>4, <1>7, <2>1
<1> QED BY <1>3, <1>6, <1>7

LEMMA EventStripe ==
    ASSUME StripeInv, NEW w \in Workers, HandleEvent(w)
    PROVE  StripeInv'
<1>1. PICK i \in Deliverable :
        /\ Consumed(i, FALSE)
        /\ \/ Upgrades(events[i]) /\ tier' = "pro" /\ customer' = events[i].customer
           \/ Downgrades(events[i]) /\ tier' = "free" /\ UNCHANGED customer
    BY DEF HandleEvent
<1>2. UNCHANGED <<subs, payer>>
    BY DEF HandleEvent
<1>3. /\ i \in DOMAIN events /\ events' \in Seq(Event) /\ events[i] \in Event
      /\ ~mishap' => /\ ~mishap /\ i = 1
                     /\ Len(events') = Len(events) - 1
                     /\ \A n \in 1..(Len(events) - 1) : events'[n] = events[n + 1]
    <2>1. i \in DOMAIN events => events[i] \in Event
        BY DEF StripeInv
    <2> QED BY <1>1, <2>1, ConsumedInOrder
<1>4. customer' \in Subs \cup {None}
    BY <1>1, <1>3 DEF StripeInv, Event
<1>5. ASSUME ~mishap'
      PROVE  \A n \in DOMAIN events' : LastCompleted(n)' => WillEnd(events[n].customer, n)'
    BY <1>2, <1>3, <1>5, QueueMoves
<1>6. ASSUME ~mishap', tier' = "pro", NoneCompleted'
      PROVE  WillEnd(customer, 0)'
    <2>1. i = 1 /\ Upgrades(events[1]) /\ customer' = events[1].customer
        BY <1>1, <1>3, <1>6
    <2>2. ASSUME NEW j \in DOMAIN events, j # 1
          PROVE  events[j].kind # "completed"
        <3>1. j - 1 \in DOMAIN events' /\ events'[j - 1] = events[j]
            BY <1>2, <1>3, <1>6, <2>1, <2>2, QueueMoves
        <3> QED BY <1>6, <3>1 DEF NoneCompleted
    <2>3. LastCompleted(1)
        <3>1. \A j \in DOMAIN events : events[j].kind = "completed" => j <= 1
            BY <2>2
        <3> QED BY <2>1, <3>1 DEF LastCompleted, Upgrades
    <2>4. PICK c \in Subs : c = events[1].customer
        BY <1>3, <2>1 DEF Event
    <2>5. WillEnd(c, 1)
        BY <1>3, <1>6, <2>1, <2>3, <2>4 DEF StripeInv
    <2>6. WillEnd(c, 0)'
        BY <1>2, <1>3, <1>6, <2>1, <2>5, QueueMoves
    <2> QED BY <2>1, <2>4, <2>6
<1> QED BY <1>2, <1>3, <1>4, <1>5, <1>6 DEF StripeInv

LEMMA DropStripe ==
    ASSUME StripeInv, DropEvent
    PROVE  StripeInv'
<1>1. PICK i \in Deliverable : Consumed(i, Upgrades(events[i]) \/ Downgrades(events[i]))
    BY DEF DropEvent
<1>2. UNCHANGED <<tier, customer, subs, payer>>
    BY DEF DropEvent, row
<1>3. /\ i \in DOMAIN events /\ events' \in Seq(Event)
      /\ ~mishap' => /\ ~mishap /\ ~(Upgrades(events[i]) \/ Downgrades(events[i])) /\ i = 1
                     /\ Len(events') = Len(events) - 1
                     /\ \A n \in 1..(Len(events) - 1) : events'[n] = events[n + 1]
    <2> DEFINE known == Upgrades(events[i]) \/ Downgrades(events[i])
    <2>1. known \in BOOLEAN /\ Consumed(i, known)
        BY <1>1 DEF Upgrades, Downgrades
    <2> HIDE DEF known
    <2>2. /\ i \in DOMAIN events /\ events' \in Seq(Event)
          /\ ~mishap' => /\ ~mishap /\ ~known /\ i = 1
                         /\ Len(events') = Len(events) - 1
                         /\ \A n \in 1..(Len(events) - 1) : events'[n] = events[n + 1]
        BY <2>1, ConsumedInOrder
    <2> QED BY <2>2 DEF known
<1>4. ASSUME ~mishap'
      PROVE  \A n \in DOMAIN events' : LastCompleted(n)' => WillEnd(events[n].customer, n)'
    BY <1>2, <1>3, <1>4, QueueMoves
<1>5. ASSUME ~mishap', tier' = "pro", NoneCompleted'
      PROVE  WillEnd(customer, 0)'
    <2>1. i = 1 /\ ~Upgrades(events[1]) /\ ~Downgrades(events[1])
        BY <1>3, <1>5
    <2>2. ASSUME NEW j \in DOMAIN events
          PROVE  events[j].kind # "completed"
        <3>1. CASE j = 1
            BY <2>1, <3>1 DEF Upgrades
        <3>2. CASE j # 1
            <4>1. j - 1 \in DOMAIN events' /\ events'[j - 1] = events[j]
                BY <1>2, <1>3, <1>5, <2>1, <3>2, QueueMoves
            <4> QED BY <1>5, <4>1 DEF NoneCompleted
        <3> QED BY <3>1, <3>2
    <2>3. WillEnd(customer, 0)
        BY <1>2, <1>3, <1>5, <2>2 DEF StripeInv, NoneCompleted
    <2>4. events[1] # [kind |-> "deleted", customer |-> customer]
        BY <2>1 DEF Downgrades
    <2>5. WillEnd(customer, 1)
        <3>1. \A j \in DOMAIN events : j > 0 /\ j # 1 => j > 1
            BY DEF StripeInv
        <3> QED BY <2>3, <2>4, <3>1 DEF WillEnd
    <2>6. PICK c \in Subs \cup {None} : c = customer
        BY DEF StripeInv
    <2>7. WillEnd(c, 0)'
        BY <1>2, <1>3, <1>5, <2>1, <2>5, <2>6, QueueMoves
    <2> QED BY <1>2, <2>6, <2>7
<1> QED BY <1>2, <1>3, <1>4, <1>5 DEF StripeInv

\* An event is added for a session that became active, or no longer is.
LEMMA QueueGrows ==
    ASSUME StripeInv, NEW s \in Subs, Pay(s) \/ Cancel(s)
    PROVE  StripeInv'
<1>1. PICK kind \in {"completed", "deleted"} :
        /\ events' = Append(events, [kind |-> kind, customer |-> payer[s]])
        /\ subs[s] # "none"
        /\ subs' = [subs EXCEPT ![s] = IF kind = "completed" THEN "active" ELSE "ended"]
        /\ kind = "completed" => subs[s] # "active"
    BY DEF Pay, Cancel, Stripe
<1>2. UNCHANGED <<tier, customer, payer, mishap>>
    BY DEF Pay, Cancel, Stripe, row
<1>3. payer[s] \in Subs
    BY <1>1 DEF StripeInv
<1> DEFINE e == [kind |-> kind, customer |-> payer[s]]
<1>4. e \in Event /\ e.kind = kind /\ e.customer = payer[s]
    BY <1>3 DEF Event
<1>5. /\ events' \in Seq(Event) /\ Len(events) \in Nat
      /\ DOMAIN events = 1..Len(events) /\ DOMAIN events' = 1..(Len(events) + 1)
      /\ events'[Len(events) + 1] = e
      /\ \A j \in DOMAIN events : events'[j] = events[j]
    BY <1>1, <1>4 DEF StripeInv
<1>6. /\ subs' \in [Subs -> {"none", "open", "active", "ended"}]
      /\ \A t \in Subs \ {s} : subs'[t] = subs[t]
      /\ kind = "completed" => subs'[s] = "active"
    BY <1>1 DEF StripeInv
<1>7. ASSUME NEW c \in Subs \cup {None}, NEW n \in 0..Len(events), WillEnd(c, n)
      PROVE  WillEnd(c, n)'
    <2>1. CASE \E j \in DOMAIN events : j > n /\ events[j] = [kind |-> "deleted", customer |-> c]
        BY <1>5, <2>1 DEF WillEnd
    <2>2. CASE \E t \in Subs \ {s} : subs[t] = "active" /\ payer[t] = c
        BY <1>2, <1>6, <2>2 DEF WillEnd
    <2>3. CASE subs[s] = "active" /\ payer[s] = c
        <3>1. kind = "deleted"
            BY <1>1, <2>3
        <3>2. Len(events) + 1 \in DOMAIN events' /\ Len(events) + 1 > n
            BY <1>5
        <3>3. events'[Len(events) + 1] = [kind |-> "deleted", customer |-> c]
            BY <1>5, <2>3, <3>1
        <3> QED BY <3>2, <3>3 DEF WillEnd
    <2> QED BY <1>7, <2>1, <2>2, <2>3 DEF WillEnd
<1> HIDE DEF e
<1>8. ASSUME ~mishap', NEW n \in DOMAIN events', LastCompleted(n)'
      PROVE  WillEnd(events[n].customer, n)'
    <2>1. CASE kind = "completed"
        <3>1. n = Len(events) + 1
            BY <1>4, <1>5, <1>8, <2>1 DEF LastCompleted
        <3>2. events'[n].customer = payer'[s] /\ subs'[s] = "active"
            BY <1>2, <1>4, <1>5, <1>6, <2>1, <3>1
        <3> QED BY <3>2 DEF WillEnd
    <2>2. CASE kind = "deleted"
        <3>1. n # Len(events) + 1
            BY <1>4, <1>5, <1>8, <2>2 DEF LastCompleted
        <3>2. n \in DOMAIN events /\ n \in 0..Len(events) /\ events'[n] = events[n]
            BY <1>5, <3>1
        <3>3. LastCompleted(n)
            BY <1>5, <1>8, <3>2 DEF LastCompleted
        <3>4. PICK c \in Subs : c = events[n].customer
            BY <3>2, CustomersType
        <3>5. WillEnd(c, n)
            BY <1>2, <1>8, <3>2, <3>3, <3>4 DEF StripeInv
        <3> QED BY <1>7, <3>2, <3>4, <3>5
    <2> QED BY <2>1, <2>2
<1>9. ASSUME ~mishap', tier' = "pro", NoneCompleted'
      PROVE  WillEnd(customer, 0)'
    <2>1. NoneCompleted
        BY <1>5, <1>9 DEF NoneCompleted
    <2>2. WillEnd(customer, 0)
        BY <1>2, <1>9, <2>1 DEF StripeInv
    <2>3. PICK c \in Subs \cup {None} : c = customer
        BY DEF StripeInv
    <2>4. 0 \in 0..Len(events)
        BY <1>5
    <2> QED BY <1>2, <1>7, <2>2, <2>3, <2>4
<1>10. \A t \in Subs : subs'[t] # "none" => payer'[t] \in Subs
    BY <1>2, <1>3, <1>6 DEF StripeInv
<1> QED BY <1>2, <1>5, <1>6, <1>8, <1>9, <1>10 DEF StripeInv

LEMMA StripeStep ==
    ASSUME StripeInv, [Next]_vars
    PROVE  StripeInv'
<1>1. CASE \E w \in Workers : HandleEvent(w)
    BY <1>1, EventStripe
<1>2. CASE DropEvent
    BY <1>2, DropStripe
<1>3. CASE \E s \in Subs : Pay(s) \/ Cancel(s)
    BY <1>3, QueueGrows
<1>4. ASSUME NEW s \in Subs, OpenCheckout(s)
      PROVE  StripeInv'
    <2>1. /\ subs[s] = "none" /\ subs' = [subs EXCEPT ![s] = "open"]
          /\ payer' = [payer EXCEPT ![s] = IF customer # None THEN customer ELSE s]
          /\ UNCHANGED <<tier, customer, events, mishap>>
        BY <1>4 DEF OpenCheckout, row
    <2>2. /\ \A t \in Subs \ {s} : subs'[t] = subs[t] /\ payer'[t] = payer[t]
          /\ payer'[s] \in Subs /\ subs'[s] # "active"
        BY <2>1 DEF StripeInv
    <2>3. \A t \in Subs : subs[t] = "active" => subs'[t] = "active" /\ payer'[t] = payer[t]
        BY <2>1, <2>2
    <2>4. \A c, n : WillEnd(c, n) => WillEnd(c, n)'
        BY <2>1, <2>3 DEF WillEnd
    <2>5. /\ subs' \in [Subs -> {"none", "open", "active", "ended"}]
          /\ payer' \in [Subs -> Subs \cup {None}]
          /\ \A t \in Subs : subs'[t] # "none" => payer'[t] \in Subs
        BY <2>1, <2>2 DEF StripeInv
    <2>6. \A n \in DOMAIN events : LastCompleted(n)' <=> LastCompleted(n)
        BY <2>1 DEF LastCompleted
    <2>7. NoneCompleted' <=> NoneCompleted
        BY <2>1 DEF NoneCompleted
    <2>8. ASSUME ~mishap', NEW n \in DOMAIN events', LastCompleted(n)'
          PROVE  WillEnd(events[n].customer, n)'
        <3>1. PICK c \in Subs : c = events[n].customer
            BY <2>1, <2>8, CustomersType
        <3>2. WillEnd(c, n)
            BY <2>1, <2>6, <2>8, <3>1 DEF StripeInv
        <3> QED BY <2>1, <2>4, <3>1, <3>2
    <2>9. ASSUME ~mishap', tier' = "pro", NoneCompleted'
          PROVE  WillEnd(customer, 0)'
        <3>1. PICK c \in Subs \cup {None} : c = customer
            BY DEF StripeInv
        <3>2. WillEnd(c, 0)
            BY <2>1, <2>7, <2>9, <3>1 DEF StripeInv
        <3> QED BY <2>1, <2>4, <3>1, <3>2
    <2> QED BY <2>1, <2>5, <2>8, <2>9 DEF StripeInv
<1>5. CASE ~(DropEvent \/ (\E w \in Workers : HandleEvent(w))
            \/ \E s \in Subs : OpenCheckout(s) \/ Pay(s) \/ Cancel(s))
    <2>1. UNCHANGED <<tier, customer, events, mishap, subs, payer>>
        BY <1>5 DEF Next, Work, Request, ReadRow, StoreTier, StoreReverse, RegenBegin, RegenCommit,
            RegenDrop, RegenReverse, RegenTier, BustFind, BustDrop, JobFails, Tick, row, stripe, vars
    <2> QED BY <2>1 DEF StripeInv, LastCompleted, NoneCompleted, WillEnd
<1> QED BY <1>1, <1>2, <1>3, <1>4, <1>5

(* A user whose sessions have all ended has no tier left once their events  *)
(* were delivered in order, once, to handlers that did not fail, for any    *)
(* number of sessions that overlap and replace the customer on record.      *)
THEOREM EndedSessionsAreFree == Spec => []EndedIsFree
<1>1. Init => StripeInv
    BY DEF Init, StripeInv, LastCompleted
<1>2. StripeInv /\ [Next]_vars => StripeInv'
    BY StripeStep
<1>3. StripeInv => EndedIsFree
    BY DEF StripeInv, EndedIsFree, NoneCompleted, WillEnd
<1> QED BY <1>1, <1>2, <1>3, PTL DEF Spec

-----------------------------------------------------------------------------
(* Types, and how many events Stripe can owe.                               *)

Paid == {s \in Subs : subs[s] \in {"active", "ended"}}
Ended == {s \in Subs : subs[s] = "ended"}

\* A session is paid once and ends once, and each gives one event.
EventsBounded == Len(events) <= Cardinality(Paid) + Cardinality(Ended)

\* A key on its way to the row was generated before.
RowInv ==
    /\ key \in usedKeys /\ usedKeys \subseteq Keys
    /\ \A w \in Workers : job[w] # None /\ job[w].at = "commit" => job[w].new \in usedKeys

AccountInv ==
    /\ Inv /\ StripeInv /\ RowInv /\ EventsBounded
    /\ reverse \in [key : Keys, ttl : 1..CacheTTL] \cup {None}
    /\ mishap \in BOOLEAN

LEMMA SessionsFinite ==
    ASSUME NEW S, S \subseteq Subs
    PROVE  IsFiniteSet(S) /\ Cardinality(S) \in 0..MaxSubs
<1>1. IsFiniteSet(Subs) /\ Cardinality(Subs) = MaxSubs
    BY FS_Interval DEF Subs
<1>2. IsFiniteSet(S) /\ Cardinality(S) <= Cardinality(Subs)
    BY <1>1, FS_Subset
<1>3. Cardinality(S) \in Nat
    BY <1>2, FS_CardinalityType
<1> QED BY <1>1, <1>2, <1>3

LEMMA OneMore ==
    ASSUME NEW S, S \subseteq Subs, NEW s \in Subs, s \notin S
    PROVE  Cardinality(S \cup {s}) = Cardinality(S) + 1
BY SessionsFinite, FS_AddElement

LEMMA RemovedLength ==
    ASSUME NEW q \in Seq(Event), NEW i \in DOMAIN q
    PROVE  Len(RemoveAt(q, i)) = Len(q) - 1
<1>1. /\ Len(q) \in Nat /\ i \in 1..Len(q)
      /\ SubSeq(q, 1, i - 1) \in Seq(Event) /\ Len(SubSeq(q, 1, i - 1)) = i - 1
      /\ SubSeq(q, i + 1, Len(q)) \in Seq(Event) /\ Len(SubSeq(q, i + 1, Len(q))) = Len(q) - i
    OBVIOUS
<1>2. PICK p \in Seq(Event), r \in Seq(Event) :
        RemoveAt(q, i) = p \o r /\ Len(p) = i - 1 /\ Len(r) = Len(q) - i
    BY <1>1 DEF RemoveAt
<1>3. Len(p \o r) = Len(p) + Len(r)
    OBVIOUS
<1> QED BY <1>1, <1>2, <1>3

\* No event is sent but by a payment or the end of a subscription.
LEMMA EventsStep ==
    ASSUME StripeInv, EventsBounded, [Next]_vars
    PROVE  EventsBounded'
<1>1. Paid \subseteq Subs /\ Ended \subseteq Subs /\ Len(events) \in Nat
    BY DEF Paid, Ended, StripeInv
<1>2. Cardinality(Paid) \in Nat /\ Cardinality(Ended) \in Nat
    BY <1>1, SessionsFinite
<1>3. ASSUME NEW s \in Subs, Pay(s) \/ Cancel(s)
      PROVE  EventsBounded'
    <2>1. PICK e : events' = Append(events, e)
        BY <1>3 DEF Pay, Cancel, Stripe
    <2>2. Len(events') = Len(events) + 1
        BY <2>1 DEF StripeInv
    <2>3. CASE Pay(s)
        <3>1. subs[s] = "open" /\ subs' = [subs EXCEPT ![s] = "active"]
            BY <2>3 DEF Pay, Stripe
        <3>2. Paid' = Paid \cup {s} /\ Ended' = Ended /\ s \notin Paid
            BY <3>1 DEF Paid, Ended, StripeInv
        <3>3. Cardinality(Paid') = Cardinality(Paid) + 1
            BY <1>1, <3>2, OneMore
        <3> QED BY <1>1, <1>2, <2>2, <3>2, <3>3 DEF EventsBounded
    <2>4. CASE Cancel(s)
        <3>1. subs[s] = "active" /\ subs' = [subs EXCEPT ![s] = "ended"]
            BY <2>4 DEF Cancel, Stripe
        <3>2. Paid' = Paid /\ Ended' = Ended \cup {s} /\ s \notin Ended
            BY <3>1 DEF Paid, Ended, StripeInv
        <3>3. Cardinality(Ended') = Cardinality(Ended) + 1
            BY <1>1, <3>2, OneMore
        <3> QED BY <1>1, <1>2, <2>2, <3>2, <3>3 DEF EventsBounded
    <2> QED BY <1>3, <2>3, <2>4
<1>4. CASE DropEvent \/ \E w \in Workers : HandleEvent(w)
    <2>1. PICK i \in Deliverable : events' = RemoveAt(events, i) \/ UNCHANGED events
        BY <1>4 DEF DropEvent, HandleEvent, Consumed
    <2>2. i \in DOMAIN events
        BY <2>1 DEF Deliverable
    <2>3. Len(events') <= Len(events) /\ Len(events') \in Nat
        BY <1>1, <2>1, <2>2, RemovedLength DEF StripeInv
    <2>4. UNCHANGED subs
        BY <1>4 DEF DropEvent, HandleEvent
    <2>5. Paid' = Paid /\ Ended' = Ended
        BY <2>4 DEF Paid, Ended
    <2> QED BY <1>1, <1>2, <2>3, <2>5 DEF EventsBounded
<1>5. CASE \E s \in Subs : OpenCheckout(s)
    <2>1. PICK s \in Subs : OpenCheckout(s)
        BY <1>5
    <2>2. subs[s] = "none" /\ subs' = [subs EXCEPT ![s] = "open"] /\ UNCHANGED events
        BY <2>1 DEF OpenCheckout
    <2>3. Paid' = Paid /\ Ended' = Ended
        BY <2>2 DEF Paid, Ended, StripeInv
    <2> QED BY <2>2, <2>3 DEF EventsBounded
<1>6. CASE ~(DropEvent \/ (\E w \in Workers : HandleEvent(w))
            \/ \E s \in Subs : OpenCheckout(s) \/ Pay(s) \/ Cancel(s))
    <2>1. UNCHANGED <<events, subs>>
        BY <1>6 DEF Next, Work, Request, ReadRow, StoreTier, StoreReverse, RegenBegin, RegenCommit,
            RegenDrop, RegenReverse, RegenTier, BustFind, BustDrop, JobFails, Tick, stripe, vars
    <2> QED BY <2>1 DEF EventsBounded, Paid, Ended
<1> QED BY <1>3, <1>4, <1>5, <1>6

\* The row stays as it is, and no new key is on its way to it.
LEMMA RowKept ==
    ASSUME Inv, RowInv, UNCHANGED <<key, usedKeys>>,
           NEW w \in Workers, NEW j, job' = [job EXCEPT ![w] = j],
           j = None \/ j.at # "commit"
    PROVE  RowInv'
BY DEF RowInv, Inv, CacheTypeOK

LEMMA RowStep ==
    ASSUME Inv, RowInv, [Next]_vars
    PROVE  RowInv'
<1>1. ASSUME NEW w \in Workers, RegenBegin(w)
      PROVE  RowInv'
    <2>1. PICK k \in Keys \ usedKeys :
            /\ usedKeys' = usedKeys \cup {k}
            /\ Begin(w, [at |-> "commit", old |-> key, new |-> k, tier |-> tier])
        BY <1>1 DEF RegenBegin
    <2> DEFINE j == [at |-> "commit", old |-> key, new |-> k, tier |-> tier]
    <2>2. job' = [job EXCEPT ![w] = j] /\ key' = key /\ j.new = k
        BY <1>1, <2>1 DEF RegenBegin, Begin
    <2> HIDE DEF j
    <2> QED BY <2>1, <2>2 DEF RowInv, Inv, CacheTypeOK
<1>2. ASSUME NEW w \in Workers, RegenCommit(w)
      PROVE  RowInv'
    <2>1. /\ job[w] # None /\ job[w].at = "commit" /\ key' = job[w].new
          /\ usedKeys' = usedKeys
          /\ job' = [job EXCEPT ![w] = [job[w] EXCEPT !.at = "drop"]]
        BY <1>2 DEF RegenCommit, At, Goto
    <2>2. job[w] \in RegenJob
        BY <2>1, JobKinds DEF Inv, CacheTypeOK
    <2> DEFINE j == [job[w] EXCEPT !.at = "drop"]
    <2>3. j.at = "drop"
        BY <2>2 DEF RegenJob
    <2> HIDE DEF j
    <2> QED BY <2>1, <2>3 DEF RowInv, Inv, CacheTypeOK, j
<1>3. ASSUME NEW w \in Workers, Work(w), ~RegenBegin(w), ~RegenCommit(w)
      PROVE  RowInv'
    <2>1. UNCHANGED <<key, usedKeys>>
        BY <1>3 DEF Work, Request, ReadRow, StoreTier, StoreReverse, RegenDrop, RegenReverse,
            RegenTier, HandleEvent, BustFind, BustDrop, JobFails, row
    <2>2. \/ job' = [job EXCEPT ![w] = None]
          \/ \E k \in Keys, full \in BOOLEAN : Request(w, k, full)
          \/ ReadRow(w) /\ ~End(w)
          \/ HandleEvent(w)
          \/ BustFind(w) /\ ~End(w)
          \/ \E step \in {"reverse", "newreverse", "newtier"} :
                job[w] # None /\ Goto(w, step)
        BY <1>3 DEF Work, ReadRow, StoreTier, StoreReverse, RegenDrop, RegenReverse,
            RegenTier, BustFind, BustDrop, JobFails, End, At
    <2>3. PICK j : /\ job' = [job EXCEPT ![w] = j]
                   /\ j = None \/ j.at # "commit"
        <3>1. CASE job' = [job EXCEPT ![w] = None]
            BY <3>1
        <3>2. ASSUME NEW k \in Keys, NEW full \in BOOLEAN, Request(w, k, full)
              PROVE  \E j : job' = [job EXCEPT ![w] = j] /\ j.at # "commit"
            <4> DEFINE j == [at |-> "read", key |-> k, tier |-> None, full |-> full,
                             cached |-> tierCache[k] # None]
            <4>1. job' = [job EXCEPT ![w] = j] /\ j.at = "read"
                BY <3>2 DEF Request, Begin
            <4> QED BY <4>1
        <3>3. CASE ReadRow(w) /\ ~End(w)
            <4>1. job' = [job EXCEPT ![w] = [job[w] EXCEPT !.at = "tierset", !.tier = tier]]
                BY <3>3 DEF ReadRow, Inv, CacheTypeOK
            <4>2. job[w] \in RequestJob
                BY <3>3, JobKinds DEF ReadRow, At, Inv, CacheTypeOK
            <4> DEFINE j == [job[w] EXCEPT !.at = "tierset", !.tier = tier]
            <4>3. j.at = "tierset"
                BY <4>2 DEF RequestJob, Job
            <4> QED BY <4>1, <4>3
        <3>4. CASE HandleEvent(w)
            <4> DEFINE j == [at |-> "find", key |-> None]
            <4>1. job' = [job EXCEPT ![w] = j] /\ j.at = "find"
                BY <3>4 DEF HandleEvent, Begin
            <4> QED BY <4>1
        <3>5. CASE BustFind(w) /\ ~End(w)
            <4>1. job' = [job EXCEPT ![w] = [job[w] EXCEPT !.at = "bust", !.key = reverse.key]]
                BY <3>5 DEF BustFind, Inv, CacheTypeOK
            <4>2. job[w] \in BustJob
                BY <3>5, JobKinds DEF BustFind, At, Inv, CacheTypeOK
            <4> DEFINE j == [job[w] EXCEPT !.at = "bust", !.key = reverse.key]
            <4>3. j.at = "bust"
                BY <4>2 DEF BustJob
            <4> QED BY <4>1, <4>3
        <3>6. ASSUME NEW step \in {"reverse", "newreverse", "newtier"}, job[w] # None, Goto(w, step)
              PROVE  \E j : job' = [job EXCEPT ![w] = j] /\ j.at # "commit"
            <4> DEFINE j == [job[w] EXCEPT !.at = step]
            <4>1. job' = [job EXCEPT ![w] = j]
                BY <3>6 DEF Goto
            <4>2. job[w] \in RequestJob \cup RegenJob \cup BustJob
                BY <3>6 DEF Inv, CacheTypeOK, AnyJob
            <4>3. j.at = step
                BY <4>2 DEF RequestJob, Job, RegenJob, BustJob
            <4> QED BY <4>1, <4>3
        <3> QED BY <2>2, <3>1, <3>2, <3>3, <3>4, <3>5, <3>6
    <2> QED BY <2>1, <2>3, RowKept
<1>4. CASE ~\E w \in Workers : Work(w)
    <2>1. UNCHANGED <<key, usedKeys, job>>
        BY <1>4 DEF Next, DropEvent, OpenCheckout, Pay, Cancel, Stripe, Tick, row, vars
    <2> QED BY <2>1 DEF RowInv
<1> QED BY <1>1, <1>2, <1>3, <1>4

LEMMA ReverseTyped ==
    ASSUME Inv, reverse \in [key : Keys, ttl : 1..CacheTTL] \cup {None}, [Next]_vars
    PROVE  reverse' \in [key : Keys, ttl : 1..CacheTTL] \cup {None}
<1>1. ASSUME NEW w \in Workers, StoreReverse(w)
      PROVE  reverse' \in [key : Keys, ttl : 1..CacheTTL]
    <2>1. job[w] \in RequestJob
        BY <1>1, JobKinds DEF StoreReverse, At, Inv, CacheTypeOK
    <2> QED BY <1>1, <2>1 DEF StoreReverse, SetReverse, Life, RequestJob, Job
<1>2. ASSUME NEW w \in Workers, RegenReverse(w)
      PROVE  reverse' \in [key : Keys, ttl : 1..CacheTTL]
    <2>1. job[w] \in RegenJob
        BY <1>2, JobKinds DEF RegenReverse, At, Inv, CacheTypeOK
    <2> QED BY <1>2, <2>1 DEF RegenReverse, SetReverse, Life, RegenJob
<1>3. CASE Tick
    <2>1. reverse' = Aged(reverse)
        BY <1>3 DEF Tick
    <2>2. CASE reverse = None \/ reverse.ttl = 1
        BY <2>1, <2>2 DEF Aged
    <2>3. CASE ~(reverse = None \/ reverse.ttl = 1)
        <3>1. reverse' = [reverse EXCEPT !.ttl = @ - 1]
            BY <2>1, <2>3 DEF Aged
        <3> QED BY <2>3, <3>1
    <2> QED BY <2>2, <2>3
<1>4. CASE ~Tick /\ ~\E w \in Workers : StoreReverse(w) \/ RegenReverse(w)
    <2>1. UNCHANGED reverse
        BY <1>4 DEF Next, Work, Request, ReadRow, StoreTier, RegenBegin, RegenCommit, RegenDrop,
            RegenTier, HandleEvent, BustFind, BustDrop, JobFails, DropEvent, OpenCheckout,
            Pay, Cancel, Stripe, redis, vars
    <2> QED BY <2>1
<1> QED BY <1>1, <1>2, <1>3, <1>4

LEMMA MishapTyped ==
    ASSUME mishap \in BOOLEAN, [Next]_vars
    PROVE  mishap' \in BOOLEAN
<1>1. CASE DropEvent \/ \E w \in Workers : HandleEvent(w)
    <2>1. PICK i, lost : Consumed(i, lost)
        BY <1>1 DEF DropEvent, HandleEvent
    <2> QED BY <2>1, Zenon DEF Consumed
<1>2. CASE ~(DropEvent \/ \E w \in Workers : HandleEvent(w))
    <2>1. UNCHANGED mishap
        BY <1>2 DEF Next, Work, Request, ReadRow, StoreTier, StoreReverse, RegenBegin, RegenCommit,
            RegenDrop, RegenReverse, RegenTier, BustFind, BustDrop, JobFails, OpenCheckout, Pay,
            Cancel, Stripe, Tick, vars
    <2> QED BY <2>1
<1> QED BY <1>1, <1>2

LEMMA AccountStep == AccountInv /\ [Next]_vars => AccountInv'
<1> SUFFICES ASSUME AccountInv, [Next]_vars PROVE AccountInv'
    OBVIOUS
<1>1. ReverseOK
    BY DEF AccountInv, ReverseOK
<1>2. Inv' /\ StripeInv' /\ RowInv' /\ EventsBounded'
    BY <1>1, InvStep, StripeStep, RowStep, EventsStep DEF AccountInv
<1>3. reverse' \in [key : Keys, ttl : 1..CacheTTL] \cup {None}
    BY ReverseTyped DEF AccountInv
<1>4. mishap' \in BOOLEAN
    BY MishapTyped DEF AccountInv
<1> QED BY <1>2, <1>3, <1>4 DEF AccountInv

(* The type invariant of an account.  Its last line bounds the webhook      *)
(* events Stripe still has to deliver, by counting what was sent: one for   *)
(* each session that was paid, and one for each that ended.                 *)
THEOREM TypeCorrect == Spec => []TypeOK
<1>1. Init => AccountInv
    <2> SUFFICES ASSUME Init PROVE AccountInv
        OBVIOUS
    <2>1. Inv
        BY Initially
    <2>2. StripeInv
        BY DEF Init, StripeInv, LastCompleted
    <2>3. RowInv
        BY DEF Init, RowInv
    <2>4. EventsBounded
        <3>1. Len(events) = 0
            BY DEF Init
        <3>2. Cardinality(Paid) \in Nat /\ Cardinality(Ended) \in Nat
            BY SessionsFinite DEF Paid, Ended
        <3> QED BY <3>1, <3>2 DEF EventsBounded
    <2>5. reverse = None /\ mishap \in BOOLEAN
        BY DEF Init
    <2> QED BY <2>1, <2>2, <2>3, <2>4, <2>5 DEF AccountInv
<1>2. AccountInv => TypeOK
    <2> SUFFICES ASSUME AccountInv PROVE TypeOK
        OBVIOUS
    <2>1. job \in [Workers -> Job \cup RegenJob \cup BustJob \cup {None}]
        BY DEF AccountInv, Inv, CacheTypeOK, AnyJob, RequestJob
    <2>2. Len(events) <= 2 * MaxSubs
        <3>1. Cardinality(Paid) \in 0..MaxSubs /\ Cardinality(Ended) \in 0..MaxSubs
            BY SessionsFinite DEF Paid, Ended
        <3>2. Len(events) \in Nat /\ Len(events) <= Cardinality(Paid) + Cardinality(Ended)
            BY DEF AccountInv, StripeInv, EventsBounded
        <3> QED BY <3>1, <3>2
    <2> QED BY <2>1, <2>2 DEF AccountInv, Inv, CacheTypeOK, StripeInv, RowInv, TypeOK
<1> QED BY <1>1, <1>2, AccountStep, PTL DEF Spec
=============================================================================
