------------------------------- MODULE Accounts -------------------------------
(***************************************************************************)
(* One user's account: the row in users, the two Redis keys that cache it  *)
(* (auth:tier:{api_key} and auth:user_api_key:{user_id}), the requests     *)
(* that read them (app/api/deps.py, app/dependencies.py), POST             *)
(* /auth/api-key (app/api/v1/auth.py) and Stripe's webhooks                *)
(* (app/services/payment_service.py).  Accounts share nothing, so one      *)
(* stands for all.                                                         *)
(*                                                                         *)
(* A worker is a request being served; every await of its handler is a     *)
(* step boundary.  A request takes less than a tick: the time to live of   *)
(* the keys is 300 s.                                                      *)
(***************************************************************************)
EXTENDS Naturals, Sequences, SequencesExt

CONSTANTS
    Workers,        \* requests served at the same time
    Keys,           \* bound: API keys the user ever has, and none of others
    CacheTTL,       \* ex=300, in ticks
    MaxSubs,        \* bound: checkout sessions the user ever opens
    None,
    Reordered,      \* BOOLEAN: Stripe delivers events again and out of order
    Failures        \* BOOLEAN: Redis or database calls fail, the process crashes

ASSUME AccountsAssumption ==
    /\ CacheTTL \in Nat \ {0} /\ MaxSubs \in Nat
    /\ Reordered \in BOOLEAN /\ Failures \in BOOLEAN
    /\ None \notin Keys

VARIABLES
    tier,           \* users.tier
    key,            \* users.api_key
    usedKeys,       \* keys generated so far; a key is never generated twice
    customer,       \* users.stripe_customer_id, named by the session that made it
    tierCache,      \* auth:tier:{api_key}: [tier, ttl] or None
    reverse,        \* auth:user_api_key:{user_id}: [key, ttl] or None
    job,            \* what each worker is doing, or None
    quiet,          \* history: ticks since tier or key changed, saturating
    mishap,         \* history: an event came late, came twice, or was lost
    subs,           \* at Stripe: the state of each checkout session
    payer,          \* at Stripe: the customer of each session
    events          \* at Stripe: webhook events not delivered yet, oldest first

row == <<tier, key, usedKeys, customer>>
redis == <<tierCache, reverse>>
stripe == <<subs, payer, events>>
vars == <<row, redis, job, quiet, mishap, stripe>>

Tiers == {"free", "pro", "custom"}
Subs == 1..MaxSubs
Event == [kind : {"completed", "deleted"}, customer : Subs]

Job == [at : {"read", "tierset", "reverse"}, key : Keys, tier : Tiers \cup {None},
        full : BOOLEAN, cached : BOOLEAN]
RegenJob == [at : {"commit", "drop", "newreverse", "newtier"}, old : Keys,
             new : Keys, tier : Tiers]
BustJob == [at : {"find", "bust"}, key : Keys \cup {None}]

TypeOK ==
    /\ tier \in Tiers /\ key \in usedKeys /\ usedKeys \subseteq Keys
    /\ customer \in Subs \cup {None}
    /\ tierCache \in [Keys -> [tier : Tiers, ttl : 1..CacheTTL] \cup {None}]
    /\ reverse \in [key : Keys, ttl : 1..CacheTTL] \cup {None}
    /\ job \in [Workers -> Job \cup RegenJob \cup BustJob \cup {None}]
    /\ quiet \in 0..CacheTTL /\ mishap \in BOOLEAN
    /\ subs \in [Subs -> {"none", "open", "active", "ended"}]
    /\ payer \in [Subs -> Subs \cup {None}]
    /\ events \in Seq(Event) /\ Len(events) <= 2 * MaxSubs

Init ==
    /\ tier = "free" /\ \E k \in Keys : key = k /\ usedKeys = {k}
    /\ customer = None
    /\ tierCache = [k \in Keys |-> None] /\ reverse = None
    /\ job = [w \in Workers |-> None]
    /\ quiet = CacheTTL /\ mishap = FALSE
    /\ subs = [s \in Subs |-> "none"] /\ payer = [s \in Subs |-> None]
    /\ events = <<>>

-----------------------------------------------------------------------------
(* Redis and the steps of a job.                                            *)

\* Mutant of SET ... ex=300: the key outlives it.
LongLife == CacheTTL + 1

Life == CacheTTL

SetTier(k, t) == tierCache' = [tierCache EXCEPT ![k] = [tier |-> t, ttl |-> Life]]
SetReverse(k) == reverse' = [key |-> k, ttl |-> Life]
DropTier(k) == tierCache' = [tierCache EXCEPT ![k] = None]

At(w, step) == job[w] # None /\ job[w].at = step
Begin(w, j) == job[w] = None /\ job' = [job EXCEPT ![w] = j]
Goto(w, step) == job' = [job EXCEPT ![w].at = step]
End(w) == job' = [job EXCEPT ![w] = None]

-----------------------------------------------------------------------------
(* get_current_user_tier() (full = FALSE) and _resolve_user_from_api_key()  *)
(* (full = TRUE), for a key the user has or had.                            *)

\* GET auth:tier:{k}.  A hit is the answer of the first; the second reads the
\* row in any case.
Request(w, k, full) ==
    /\ k \in usedKeys
    /\ LET hit == tierCache[k] # None
       IN  /\ full \/ ~hit
           /\ Begin(w, [at |-> "read", key |-> k, tier |-> None, full |-> full, cached |-> hit])
    /\ UNCHANGED <<row, redis, quiet, stripe, mishap>>

\* The row of that key: none is a 401.
ReadRow(w) ==
    /\ At(w, "read")
    /\ IF job[w].key = key /\ ~job[w].cached
         THEN job' = [job EXCEPT ![w].at = "tierset", ![w].tier = tier]
         ELSE End(w)
    /\ UNCHANGED <<row, redis, quiet, stripe, mishap>>

StoreTier(w) ==
    /\ At(w, "tierset")
    /\ SetTier(job[w].key, job[w].tier)
    /\ IF job[w].full THEN Goto(w, "reverse") ELSE End(w)
    /\ UNCHANGED <<row, reverse, quiet, stripe, mishap>>

StoreReverse(w) ==
    /\ At(w, "reverse")
    /\ SetReverse(job[w].key)
    /\ End(w)
    /\ UNCHANGED <<row, tierCache, quiet, stripe, mishap>>

-----------------------------------------------------------------------------
(* POST /auth/api-key.                                                      *)

\* get_current_user() read the row; the handler works with that copy.
RegenBegin(w) ==
    /\ \E k \in Keys \ usedKeys :
         /\ usedKeys' = usedKeys \cup {k}
         /\ Begin(w, [at |-> "commit", old |-> key, new |-> k, tier |-> tier])
    /\ UNCHANGED <<tier, key, customer, redis, quiet, stripe, mishap>>

RegenCommit(w) ==
    /\ At(w, "commit")
    /\ key' = job[w].new /\ quiet' = 0
    /\ Goto(w, "drop")
    /\ UNCHANGED <<tier, usedKeys, customer, redis, stripe, mishap>>

RegenDrop(w) ==
    /\ At(w, "drop")
    /\ DropTier(job[w].old)
    /\ Goto(w, "newreverse")
    /\ UNCHANGED <<row, reverse, quiet, stripe, mishap>>

RegenReverse(w) ==
    /\ At(w, "newreverse")
    /\ SetReverse(job[w].new)
    /\ Goto(w, "newtier")
    /\ UNCHANGED <<row, tierCache, quiet, stripe, mishap>>

RegenTier(w) ==
    /\ At(w, "newtier")
    /\ SetTier(job[w].new, job[w].tier)
    /\ End(w)
    /\ UNCHANGED <<row, reverse, quiet, stripe, mishap>>

-----------------------------------------------------------------------------
(* handle_stripe_webhook().                                                 *)

\* The events Stripe may deliver next.  It promises no order and may deliver
\* an event again; with Reordered = FALSE the oldest comes, once.
Deliverable == IF Reordered THEN DOMAIN events ELSE DOMAIN events \cap {1}

\* The event is delivered for good, or will come again; lost says that its
\* handler did nothing with it.
Consumed(i, lost) ==
    \/ events' = RemoveAt(events, i) /\ mishap' = (mishap \/ i > 1 \/ lost)
    \/ Reordered /\ UNCHANGED events /\ mishap' = TRUE

\* Mutant of _handle_subscription_deleted(): the customer is not looked up, the
\* event acknowledged.
IgnoresDeletion(e) == FALSE

\* _downgrade_user_by_customer(): the user is found by stripe_customer_id.
Downgrades(e) == e.kind = "deleted" /\ e.customer = customer

Upgrades(e) == e.kind = "completed"

\* The update and its commit; then the cache is busted.
HandleEvent(w) ==
    /\ \E i \in Deliverable :
         LET e == events[i]
         IN  /\ Consumed(i, FALSE)
             /\ \/ /\ Upgrades(e)
                   /\ tier' = "pro" /\ customer' = e.customer
                \/ /\ Downgrades(e)
                   /\ tier' = "free" /\ UNCHANGED customer
    /\ Begin(w, [at |-> "find", key |-> None])
    /\ quiet' = 0
    /\ UNCHANGED <<key, usedKeys, redis, subs, payer>>

\* A deletion for a customer no user has, and an event whose handler raised:
\* logged and answered 200, so Stripe does not send it again.
DropEvent ==
    /\ \E i \in Deliverable :
         LET known == Upgrades(events[i]) \/ Downgrades(events[i])
         IN  (known => Failures) /\ Consumed(i, known)
    /\ UNCHANGED <<row, redis, job, quiet, subs, payer>>

\* _bust_user_tier_cache(): without the reverse key it deletes nothing.
BustFind(w) ==
    /\ At(w, "find")
    /\ IF reverse = None
         THEN End(w)
         ELSE job' = [job EXCEPT ![w].at = "bust", ![w].key = reverse.key]
    /\ UNCHANGED <<row, redis, quiet, stripe, mishap>>

BustDrop(w) ==
    /\ At(w, "bust")
    /\ DropTier(job[w].key)
    /\ End(w)
    /\ UNCHANGED <<row, reverse, quiet, stripe, mishap>>

-----------------------------------------------------------------------------
(* Stripe, failures and time.                                               *)

\* POST /auth/checkout, refused to a paying user; the session belongs to the
\* customer on record, or makes a new one.
OpenCheckout(s) ==
    /\ tier = "free" /\ subs[s] = "none" /\ (s > 1 => subs[s - 1] # "none")
    /\ subs' = [subs EXCEPT ![s] = "open"]
    /\ payer' = [payer EXCEPT ![s] = IF customer # None THEN customer ELSE s]
    /\ UNCHANGED <<row, redis, job, quiet, events, mishap>>

Stripe(s, from, to, kind) ==
    /\ subs[s] = from
    /\ subs' = [subs EXCEPT ![s] = to]
    /\ events' = Append(events, [kind |-> kind, customer |-> payer[s]])
    /\ UNCHANGED <<row, redis, job, quiet, payer, mishap>>

Pay(s) == Stripe(s, "open", "active", "completed")
Cancel(s) == Stripe(s, "active", "ended", "deleted")

\* A call raises, or the process dies: the request ends where it is.
JobFails(w) ==
    /\ Failures /\ job[w] # None
    /\ End(w)
    /\ UNCHANGED <<row, redis, quiet, stripe, mishap>>

Aged(v) == IF v = None \/ v.ttl = 1 THEN None ELSE [v EXCEPT !.ttl = @ - 1]

Tick ==
    /\ \A w \in Workers : job[w] = None
    /\ tierCache' = [k \in Keys |-> Aged(tierCache[k])]
    /\ reverse' = Aged(reverse)
    /\ quiet' = IF quiet < CacheTTL THEN quiet + 1 ELSE quiet
    /\ UNCHANGED <<row, job, stripe, mishap>>

Work(w) ==
    \/ \E k \in Keys, full \in BOOLEAN : Request(w, k, full)
    \/ ReadRow(w) \/ StoreTier(w) \/ StoreReverse(w)
    \/ RegenBegin(w) \/ RegenCommit(w) \/ RegenDrop(w) \/ RegenReverse(w) \/ RegenTier(w)
    \/ HandleEvent(w) \/ BustFind(w) \/ BustDrop(w)
    \/ JobFails(w)

Next ==
    \/ \E w \in Workers : Work(w)
    \/ DropEvent
    \/ \E s \in Subs : OpenCheckout(s) \/ Pay(s) \/ Cancel(s)
    \/ Tick

Spec == Init /\ [][Next]_vars

-----------------------------------------------------------------------------
(* Properties                                                               *)

AtRest == \A w \in Workers : job[w] = None

(* Once tier and key have been left alone for the time to live of the keys, *)
(* Redis answers for the current key only, and with the current tier,       *)
(* whatever requests, regenerations, webhooks, failures and crashes did     *)
(* meanwhile, and in whatever order.                                        *)
CacheSettles ==
    quiet = CacheTTL =>
        \A k \in Keys : tierCache[k] # None => k = key /\ tierCache[k].tier = tier

(* While Stripe's events come in order and once, and their handlers do not  *)
(* fail, a user whose sessions have all ended, and whose events have all    *)
(* been delivered, no longer has the tier they paid for, also when sessions *)
(* overlapped and the customer on record was replaced.                      *)
EndedIsFree ==
    ~mishap /\ events = <<>> /\ (\A s \in Subs : subs[s] # "active") => tier # "pro"

(* "Bust the Redis auth cache for this user so the new tier is reflected    *)
(* immediately" (payment_service.py:158).                                   *)
NewTierReflected ==
    AtRest /\ tierCache[key] # None => tierCache[key].tier = tier

=============================================================================
