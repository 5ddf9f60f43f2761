------------------------------ MODULE IdealBucket ------------------------------
(***************************************************************************)
(* What a token bucket promises (app/utils/rate_limiter.py:9-17): a level  *)
(* that grows by Rate every tick up to Capacity, and a request allowed     *)
(* exactly when the level holds a whole token, which it takes.  An outage  *)
(* of Redis may fill it (Lose) and lets requests pass uncounted (Open).    *)
(***************************************************************************)
EXTENDS Naturals

CONSTANTS
    Token,      \* fractions of a token that make a whole one
    Capacity,   \* capacity of the tier, in fractions
    Rate        \* refill per tick, in fractions

VARIABLES level, verdict

Init == level = Capacity /\ verdict = "none"

Capped(n) == IF n < Capacity THEN n ELSE Capacity

Allow == level >= Token /\ level' = level - Token /\ verdict' = "allow"
Deny == level < Token /\ level' = level /\ verdict' = "deny"
Refill == level' = Capped(level + Rate) /\ verdict' = verdict
Lose == level' = Capacity /\ verdict' = verdict
Open == level' = level /\ verdict' = "open"

Next == Allow \/ Deny \/ Refill \/ Lose \/ Open

Spec == Init /\ [][Next]_<<level, verdict>>

=============================================================================
