------------------------------ MODULE TokenBucket ------------------------------
(***************************************************************************)
(* TokenBucket.check() and its Lua script (app/utils/rate_limiter.py), for *)
(* one bucket key of one tier, asked by several clients: requests of one   *)
(* process, or of several.                                                 *)
(*                                                                         *)
(* Only differences of clock readings matter, so the state keeps ages:     *)
(* how long ago a client read time.time(), and how far last_refill lies    *)
(* back.  Tokens are counted in fractions; the rounding of floats is left  *)
(* out.                                                                    *)
(***************************************************************************)
EXTENDS Integers

CONSTANTS
    Clients,
    Token,          \* fractions that make a whole token
    Capacity, Rate, \* the tier's capacity and refill per tick, in fractions
    TTL,            \* _TTL_SECONDS, in ticks
    MaxDelay,       \* bound: ticks between a client's time.time() and its script
    Outages,        \* BOOLEAN: Redis may stop and start again
    None            \* no request, key absent

\* An idle bucket is full before its key expires, as seen by the latest request
\* too: 120 s are enough for every tier of _TIER_CONFIG, which fill up in 30 s.
ASSUME BucketAssumption ==
    /\ Token \in Nat \ {0} /\ Capacity \in Nat /\ Rate \in Nat
    /\ TTL \in Nat \ {0} /\ MaxDelay \in Nat /\ Outages \in BOOLEAN
    /\ Capacity >= Token /\ MaxDelay < TTL /\ (TTL - MaxDelay) * Rate >= Capacity

BucketRec == [tokens : 0..Capacity, age : 0..(TTL + MaxDelay), idle : 0..TTL]

\* The marker is neither a reading nor a bucket.
ASSUME NoneAssumption == None \notin 0..MaxDelay /\ None \notin BucketRec

VARIABLES
    delay,      \* how late requests are at most, chosen at the start (0: the process is never busy)
    bucket,     \* hash rl:{identifier}: tokens, age of last_refill, ticks since EXPIRE
    stamp,      \* age of the "now" of each client's request in flight, or None
    up,         \* Redis answers
    loaded,     \* Redis holds the script
    sha,        \* self._sha is set
    verdict,    \* the last answer: "allow", "deny", "open", or "none"
    upThen,     \* history: Redis was up when it was given
    budget      \* history: what a count of every token spent leaves, started afresh when Redis lost the key;
                \* the time a late request sets last_refill back is counted again

server == <<up, loaded>>
vars == <<delay, bucket, stamp, server, sha, verdict, upThen, budget>>

TypeOK ==
    /\ delay \in 0..MaxDelay
    /\ bucket \in BucketRec \cup {None}
    /\ stamp \in [Clients -> 0..MaxDelay \cup {None}]
    /\ up \in BOOLEAN /\ loaded \in BOOLEAN /\ sha \in BOOLEAN
    /\ verdict \in {"none", "allow", "deny", "open"} /\ upThen \in BOOLEAN
    /\ budget \in Int /\ budget <= Capacity

Init ==
    /\ delay \in 0..MaxDelay
    /\ bucket = None
    /\ stamp = [c \in Clients |-> None]
    /\ up = TRUE /\ loaded = FALSE /\ sha = FALSE
    /\ verdict = "none" /\ upThen = TRUE
    /\ budget = Capacity

-----------------------------------------------------------------------------

Capped(n) == IF n < Capacity THEN n ELSE Capacity

\* now = time.time(), before the script is loaded or called.
Ask(c) ==
    /\ stamp[c] = None
    /\ stamp' = [stamp EXCEPT ![c] = 0]
    /\ UNCHANGED <<delay, bucket, server, sha, verdict, upThen, budget>>

\* _get_sha(): SCRIPT LOAD by the first request; its answer is kept for good.
LoadScript(c) ==
    /\ stamp[c] # None /\ ~sha /\ up
    /\ sha' = TRUE /\ loaded' = TRUE
    /\ UNCHANGED <<delay, bucket, stamp, up, verdict, upThen, budget>>

\* Mutant of the elapsed time: last_refill is overwritten before it is read.
NoElapsed(now) == 0

\* math.max(0, now - last_refill)
Elapsed(now) == IF bucket.age > now THEN bucket.age - now ELSE 0

\* Mutant of math.min(capacity, ...): tokens pile up while nobody asks.
Uncapped(now) == IF bucket = None THEN Capacity ELSE bucket.tokens + Elapsed(now) * Rate

Refilled(now) == IF bucket = None THEN Capacity ELSE Capped(bucket.tokens + Elapsed(now) * Rate)

\* What was refilled since the reading now, and will be once more.
Again(now) == IF bucket # None /\ bucket.age < now THEN (now - bucket.age) * Rate ELSE 0

\* EVALSHA: the whole script is one step.  last_refill becomes the caller's now.
Evaluate(c) ==
    /\ stamp[c] # None /\ up /\ sha /\ loaded
    /\ LET tokens == Refilled(stamp[c])
           taken == IF tokens >= Token THEN Token ELSE 0
       IN  /\ bucket' = [tokens |-> tokens - taken, age |-> stamp[c], idle |-> 0]
           /\ verdict' = IF tokens >= Token THEN "allow" ELSE "deny"
           /\ budget' = Capped(budget + Again(stamp[c])) - taken
    /\ stamp' = [stamp EXCEPT ![c] = None]
    /\ upThen' = TRUE
    /\ UNCHANGED <<delay, server, sha>>

\* The except branch: the call raised, or Redis does not know the script.
FailOpen(c) ==
    /\ stamp[c] # None
    /\ ~up \/ (sha /\ ~loaded)
    /\ stamp' = [stamp EXCEPT ![c] = None]
    /\ verdict' = "open" /\ upThen' = up
    /\ UNCHANGED <<delay, bucket, server, sha, budget>>

\* Redis forgets loaded scripts when it stops; keys come back from disk, or not.
Stop ==
    /\ Outages /\ up
    /\ up' = FALSE /\ loaded' = FALSE
    /\ \/ UNCHANGED <<bucket, budget>>
       \/ bucket' = None /\ budget' = Capacity
    /\ UNCHANGED <<delay, stamp, sha, verdict, upThen>>

Start ==
    /\ ~up /\ up' = TRUE
    /\ UNCHANGED <<delay, bucket, stamp, loaded, sha, verdict, upThen, budget>>

\* EXPIRE key 120 runs out.
Aged ==
    IF bucket = None \/ bucket.idle = TTL - 1 THEN None
    ELSE [bucket EXCEPT !.age = @ + 1, !.idle = @ + 1]

Tick ==
    /\ \A c \in Clients : stamp[c] # None => stamp[c] < delay
    /\ stamp' = [c \in Clients |-> IF stamp[c] = None THEN None ELSE stamp[c] + 1]
    /\ bucket' = Aged
    /\ budget' = Capped(budget + Rate)
    /\ UNCHANGED <<delay, server, sha, verdict, upThen>>

Next ==
    \/ \E c \in Clients : Ask(c) \/ LoadScript(c) \/ Evaluate(c) \/ FailOpen(c)
    \/ Stop \/ Start \/ Tick

Spec == Init /\ [][Next]_vars

-----------------------------------------------------------------------------
(* Properties                                                               *)

(* Requests never take more than Capacity plus Rate per tick, a late one    *)
(* counted as early as its clock reading: the bucket, its refills computed  *)
(* from the callers' clocks and the expiry of its key together hand out no  *)
(* token twice, save for one case.  A request that was overtaken sets       *)
(* last_refill back to its own reading, and the time in between is refilled *)
(* again; nothing more.  "Uses a Lua script for atomic evaluation so there  *)
(* are no race conditions even across multiple worker processes."           *)
(* (rate_limiter.py:6)  What Redis loses when it stops is forgiven.         *)
NeverOverdrawn == budget + delay * Rate >= 0

(* The level a request would find now.                                      *)
Level == IF bucket = None THEN Capacity ELSE Capped(bucket.tokens + bucket.age * Rate)

(* Whatever clocks the requests carry, the bucket never holds less than a   *)
(* count of the tokens spent leaves: a user who keeps to the tier is not    *)
(* refused for somebody's slow clock, for a key that expired, or for        *)
(* requests that passed during an outage; and what a late request has       *)
(* refilled again is there to be taken.                                     *)
NeverShort == budget <= Level

\* Every request reaches the script in the tick of its clock reading.
Prompt == delay = 0

Ideal == INSTANCE IdealBucket WITH level <- IF Prompt THEN Level ELSE Capacity,
                                   verdict <- IF Prompt THEN verdict ELSE "none"

(* While requests are prompt, the script is a token bucket: it refuses no   *)
(* request an ideal bucket would allow and allows none it would refuse,     *)
(* across refills, the expiry of idle keys and restarts of Redis.           *)
ImplementsIdeal == Ideal!Spec

(* "On Redis failure, fail open (allow request) to avoid outage"            *)
(* (rate_limiter.py:149): once Redis is back, requests are counted again.   *)
OpenOnlyInOutage == verdict = "open" => ~upThen

=============================================================================
