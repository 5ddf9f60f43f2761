------------------------------ MODULE RateWindow ------------------------------
(***************************************************************************)
(* BaseCollector._rate_limit() and _fetch_rest() (app/collectors/base.py): *)
(* the sliding window a collector holds against its exchange's limit, and  *)
(* Aster's second guard, _mbx_weight_check() (app/collectors/aster.py).    *)
(* The callers are the fetches one collector runs side by side: its REST   *)
(* poll, its history task and a backfill.                                  *)
(*                                                                         *)
(* _request_times is kept as the ages of its entries; one that is a window *)
(* old is never looked at again.  A sleep ends after the entry it waits    *)
(* for has left the window (the margin of 0.05 s), within a tick of that.  *)
(* Both guards use windows of 60 s.                                        *)
(***************************************************************************)
EXTENDS Naturals, FiniteSets, Sequences

CONSTANTS
    Callers,
    Limit,          \* rate_limit_per_minute
    Window,         \* window, in ticks
    MaxRetries      \* http_max_retries: attempts of one fetch

ASSUME RateWindowAssumption ==
    /\ IsFiniteSet(Callers) /\ Callers # {}
    /\ Limit \in Nat \ {0} /\ Window \in Nat \ {0} /\ MaxRetries \in Nat \ {0}

VARIABLES
    times,      \* _request_times, oldest first, as ages; those in the window
    sent,       \* history: ages of the HTTP requests made in the window
    caller,     \* what each caller does: "idle", "asleep", "backoff", "request"
    left,       \* ticks it still has to sleep
    attempts,   \* attempts its fetch has left
    weighted,   \* the collector is Aster's, with the second guard
    heavy,      \* _current_weight is over the threshold
    windowAge   \* the age of _weight_window_start, saturating

weightVars == <<weighted, heavy, windowAge>>
windowVars == <<times, sent, caller, left, attempts, weightVars>>

Ages == 0..(Window - 1)

WindowTypeOK ==
    /\ times \in Seq(Ages) /\ sent \in Seq(Ages)
    /\ caller \in [Callers -> {"idle", "asleep", "backoff", "request"}]
    /\ left \in [Callers -> 0..Window]
    /\ attempts \in [Callers -> 0..MaxRetries]
    /\ weighted \in BOOLEAN /\ heavy \in BOOLEAN /\ windowAge \in 0..Window

WindowInit ==
    /\ times = <<>> /\ sent = <<>>
    /\ caller = [c \in Callers |-> "idle"]
    /\ left = [c \in Callers |-> 0]
    /\ attempts = [c \in Callers |-> 0]
    /\ weighted \in BOOLEAN /\ heavy = FALSE /\ windowAge = 0

-----------------------------------------------------------------------------

\* Mutant of the test: the limit itself still passes.
OverLimit(n) == n > Limit

AtLimit(n) == n >= Limit

Sleep(c, stage, ticks) ==
    /\ caller' = [caller EXCEPT ![c] = stage]
    /\ left' = [left EXCEPT ![c] = ticks]

\* The request is made.
Send(c) ==
    /\ sent' = Append(sent, 0)
    /\ caller' = [caller EXCEPT ![c] = "request"]
    /\ attempts' = [attempts EXCEPT ![c] = MaxRetries - 1]

ResetWeight == heavy' = FALSE /\ windowAge' = 0

\* _mbx_weight_check(): a window that has ended is not looked at.
WeightCheck(c) ==
    \/ /\ ~weighted \/ (windowAge < Window /\ ~heavy)
       /\ Send(c) /\ UNCHANGED <<left, heavy, windowAge>>
    \/ /\ weighted /\ windowAge = Window
       /\ ResetWeight /\ Send(c) /\ UNCHANGED left
    \/ /\ weighted /\ windowAge < Window /\ heavy
       /\ Sleep(c, "backoff", Window - windowAge)
       /\ UNCHANGED <<sent, attempts, heavy, windowAge>>

\* The end of _rate_limit() stamps the request, before Aster's guard.
Go(c) ==
    /\ times' = Append(times, 0)
    /\ WeightCheck(c) /\ UNCHANGED weighted

\* _rate_limit() up to its sleep, or to its end.
Fetch(c) ==
    /\ caller[c] = "idle"
    /\ IF AtLimit(Len(times))
         THEN /\ Sleep(c, "asleep", Window - Head(times))
              /\ UNCHANGED <<times, sent, attempts, weightVars>>
         ELSE Go(c)

\* Awake again, it goes ahead without a second look at the window.
Wake(c) == caller[c] = "asleep" /\ left[c] = 0 /\ Go(c)

\* Nor does Aster's guard look at the weight again.
WakeWeighted(c) ==
    /\ caller[c] = "backoff" /\ left[c] = 0
    /\ ResetWeight /\ Send(c) /\ UNCHANGED <<times, left, weighted>>

\* X-MBX-USED-WEIGHT-1M of an answer, whichever request it is for.
Weighed == IF weighted THEN heavy' \in BOOLEAN ELSE UNCHANGED heavy

\* The exchange answers, or the last attempt failed.
Done(c) ==
    /\ caller[c] = "request"
    /\ caller' = [caller EXCEPT ![c] = "idle"]
    /\ attempts' = [attempts EXCEPT ![c] = 0]
    /\ Weighed /\ UNCHANGED <<times, sent, left, weighted, windowAge>>

\* Mutant of AttemptsLeft: retry() without stop_after_attempt().
Unstopped(c) == TRUE

AttemptsLeft(c) == attempts[c] > 0

\* tenacity repeats _do_request(), after both guards; a refused request has
\* its weight read as well.
Retry(c) ==
    /\ caller[c] = "request" /\ AttemptsLeft(c)
    /\ sent' = Append(sent, 0)
    /\ attempts' = [attempts EXCEPT ![c] = @ - 1]
    /\ Weighed /\ UNCHANGED <<times, caller, left, weighted, windowAge>>

\* Mutant of Gone: > for >=.
GoneLate(ages) == Cardinality({i \in DOMAIN ages : ages[i] + 1 > Window})

\* How many entries fail now - t < window at the next tick.
Gone(ages) == Cardinality({i \in DOMAIN ages : ages[i] + 1 >= Window})

\* t for t in _request_times if now - t < window: the entries are in the order
\* of time, so the ones that go are the first.
Older(ages) == [i \in 1..(Len(ages) - Gone(ages)) |-> ages[i + Gone(ages)] + 1]

WindowTick ==
    /\ \A c \in Callers : caller[c] \in {"asleep", "backoff"} => left[c] > 0
    /\ times' = Older(times) /\ sent' = Older(sent)
    /\ left' = [c \in Callers |-> IF left[c] > 0 THEN left[c] - 1 ELSE 0]
    /\ windowAge' = IF weighted /\ windowAge < Window THEN windowAge + 1 ELSE windowAge
    /\ UNCHANGED <<caller, attempts, weighted, heavy>>

WindowNext ==
    \/ \E c \in Callers : Fetch(c) \/ Wake(c) \/ WakeWeighted(c) \/ Done(c) \/ Retry(c)
    \/ WindowTick

-----------------------------------------------------------------------------
(* Properties                                                               *)

(* Each caller that sleeps may go ahead on the same freed place, so the     *)
(* limit is multiplied at worst by the number of fetches that run side by   *)
(* side, never more.                                                        *)
Overshoot == Len(times) <= Limit * Cardinality(Callers)

(* Retries are made outside the window, and Aster's requests leave after    *)
(* a back-off that may be longer than the life of their stamp.  What the    *)
(* exchange gets to see in a window is still bounded: the attempts of every *)
(* fetch stamped in it, and for each caller those of one fetch stamped      *)
(* before.                                                                  *)
SentBounded ==
    Len(sent) <= Cardinality(Callers) * (Limit + 1) * MaxRetries - IF weighted THEN 0 ELSE Cardinality(Callers)
=============================================================================
