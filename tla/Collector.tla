------------------------------- MODULE Collector -------------------------------
(***************************************************************************)
(* One collector (app/collectors/base.py and the four adapters): the        *)
(* requests it makes (RateWindow) and the data it publishes (Feed).         *)
(*                                                                         *)
(* In Feed a fetch takes any time and ends either way, so that whatever the *)
(* guards of RateWindow do to a request is a behaviour of Feed; RateWindow  *)
(* reads nothing of Feed but the adapter.  Each run of the system is        *)
(* therefore looked at twice, once for its requests and once for its data,  *)
(* instead of through the product of the two.                               *)
(***************************************************************************)
EXTENDS RateWindow, Feed

VARIABLE view   \* which of the two moves: "requests" or "data"

vars == <<view, windowVars, feedVars>>

Init ==
    /\ view \in {"requests", "data"}
    /\ WindowInit /\ FeedInit
    /\ weighted = (kind = "aster")
    /\ view = "requests" => ~listed /\ market = CHOOSE q \in Quotes : TRUE

Requests == view = "requests" /\ WindowNext /\ UNCHANGED <<view, feedVars>>
Data == view = "data" /\ FeedNext /\ UNCHANGED <<view, windowVars>>

Next == Requests \/ Data

\* Every fetch ends; an exchange that is asked, or connected to, again and
\* again answers at times, and then its messages arrive; so does Redis.
Fairness ==
    /\ WF_vars(Data /\ PollStep)
    /\ SF_vars(Data /\ (MainAnswer \/ Premium))
    /\ SF_vars(Data /\ Reload /\ active' # "empty")
    /\ SF_vars(Data /\ Publish)
    /\ SF_vars(Data /\ Connect) /\ SF_vars(Data /\ Message)
    /\ WF_vars(Data /\ Reconnect) /\ WF_vars(Data /\ FeedTick)

Spec == Init /\ [][Next]_vars /\ Fairness

-----------------------------------------------------------------------------
(* Properties                                                               *)

TypeOK == view \in {"requests", "data"} /\ WindowTypeOK /\ FeedTypeOK

(* Failure after failure, the reconnects of _ws_loop() are spaced by delays *)
(* that double up to ws_reconnect_delay_max: n failures in a row take at    *)
(* least the sum of the n - 1 first delays.  (Pacifica's _run_ws() keeps    *)
(* its errors to itself and pauses 5 s.)                                    *)
BackoffGrows == kind # "pacifica" => elapsed >= Waited[fails]

\* The symbol is one the adapter goes on listening to: Aster and Pacifica keep
\* the list of symbols they loaded unless it is empty, Extended keeps it anyway.
Followed ==
    CASE kind = "hyperliquid" -> TRUE
      [] kind = "extended" -> active = "with"
      [] OTHER -> active # "without"

(* Once the market of a followed symbol rests, what is published about it   *)
(* is that market, rate and price, for good: whatever was missed, kept from *)
(* a dead WebSocket or lost on the way to Redis is made up for.             *)
Converges ==
    \A q \in Quotes :
        <>[](market = q /\ listed /\ Followed) => <>[](row = [rate |-> q, price |-> q])

(* A symbol that was delisted for good is no longer published after a       *)
(* while, although the adapters never delete it from their snapshots.       *)
DelistedStops == <>[]~listed => <>[]~recent
=============================================================================
