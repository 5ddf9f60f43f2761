------------------------------ MODULE Normalizer ------------------------------
(***************************************************************************)
(* DataNormalizer (app/processors/normalizer.py): the in-memory store of   *)
(* the latest funding snapshot of every (exchange, token) pair, kept twice:*)
(* in the flat dict _snapshots and grouped per token in _token_views.      *)
(*                                                                         *)
(* Python holds one monotonic received_at per snapshot and compares        *)
(* now - received_at with the staleness limit.  The model keeps that       *)
(* difference itself, the age of the snapshot, which saturates at AgeCap:  *)
(* ages above the cap behave alike, and time may run for ever in finitely  *)
(* many states.                                                            *)
(***************************************************************************)
EXTENDS Integers, FiniteSets

CONSTANTS
    Exchanges,    \* exchange slugs
    Tokens,       \* token symbols
    Aprs,         \* funding APRs a collector may report (integers)
    StaleAfter,   \* stale_after_seconds, in ticks
    AgeCap,       \* bound: ages are told apart up to here
    Absent        \* "key not in the dict"

Snapshot == [apr : Aprs, age : 0..AgeCap]

ASSUME NormalizerAssumption ==
    /\ Aprs \subseteq Int
    /\ StaleAfter \in Nat
    /\ AgeCap \in Nat /\ AgeCap > StaleAfter
    /\ Absent \notin Snapshot
    /\ Absent \notin [Exchanges -> Snapshot \cup {Absent}]

VARIABLES
    snapshots,    \* _snapshots: (exchange, token) -> snapshot
    tokenViews    \* _token_views: token -> (exchange -> snapshot)

storeVars == <<snapshots, tokenViews>>

Slot == Snapshot \cup {Absent}
EmptyView == [e \in Exchanges |-> Absent]

StoreTypeOK ==
    /\ snapshots \in [Exchanges \X Tokens -> Slot]
    /\ tokenViews \in [Tokens -> [Exchanges -> Slot] \cup {Absent}]

StoreInit ==
    /\ snapshots = [p \in Exchanges \X Tokens |-> Absent]
    /\ tokenViews = [t \in Tokens |-> Absent]

-----------------------------------------------------------------------------
(* Staleness and the queries the calculators make.                           *)

IsStale(s) == s.age > StaleAfter

Held(v) == IF v = Absent THEN {} ELSE {e \in Exchanges : v[e] # Absent}
Live(v) == {e \in Held(v) : ~IsStale(v[e])}

-----------------------------------------------------------------------------
(* update(data): both dicts get the same fresh snapshot object.              *)

ViewOf(t) == IF tokenViews[t] = Absent THEN EmptyView ELSE tokenViews[t]

Update(e, t, apr) ==
    LET s == [apr |-> apr, age |-> 0]
    IN  /\ snapshots' = [snapshots EXCEPT ![<<e, t>>] = s]
        /\ tokenViews' = [tokenViews EXCEPT ![t] = [ViewOf(t) EXCEPT ![e] = s]]

(* purge_stale(): drop every stale snapshot from both dicts, and a view that *)
(* holds nothing any more.                                                   *)

\* Mutant of KeepLive: the purge keeps what is stale.
KeepAll(s) == s

KeepLive(s) == IF s # Absent /\ IsStale(s) THEN Absent ELSE s

StaleKeys == {p \in Exchanges \X Tokens :
                 snapshots[p] # Absent /\ IsStale(snapshots[p])}

\* Mutant of PurgedView: the view that became empty is not deleted.
PurgedViewKeepsEmpty(t) ==
    IF tokenViews[t] = Absent THEN Absent
    ELSE [e \in Exchanges |-> IF <<e, t>> \in StaleKeys THEN Absent ELSE tokenViews[t][e]]

PurgedView(t) ==
    LET gone == {e \in Exchanges : <<e, t>> \in StaleKeys}
        kept == [e \in Exchanges |-> IF e \in gone THEN Absent ELSE tokenViews[t][e]]
    IN  IF tokenViews[t] = Absent \/ gone = {} THEN tokenViews[t]
        ELSE IF kept = EmptyView THEN Absent ELSE kept

PurgeStale ==
    /\ snapshots' = [p \in Exchanges \X Tokens |-> KeepLive(snapshots[p])]
    /\ tokenViews' = [t \in Tokens |-> PurgedView(t)]

-----------------------------------------------------------------------------
(* One tick of time.monotonic(): every snapshot in either dict grows older.  *)

Older(s) == IF s = Absent THEN Absent
            ELSE [s EXCEPT !.age = IF @ < AgeCap THEN @ + 1 ELSE AgeCap]

AgeStore ==
    /\ snapshots' = [p \in Exchanges \X Tokens |-> Older(snapshots[p])]
    /\ tokenViews' = [t \in Tokens |->
                         IF tokenViews[t] = Absent THEN Absent
                         ELSE [e \in Exchanges |-> Older(tokenViews[t][e])]]

-----------------------------------------------------------------------------
(* The two dicts are two indexes of one table: a token has a view exactly    *)
(* when some exchange has a snapshot of it, and the view holds those very    *)
(* snapshots.  get_snapshot() and get_all_latest() read the first index,     *)
(* the calculators the second; update() and purge_stale() must keep both in  *)
(* step over any sequence of updates, ageing and purges.                     *)
ViewsAgree ==
    \A t \in Tokens :
        /\ tokenViews[t] = Absent <=> \A e \in Exchanges : snapshots[<<e, t>>] = Absent
        /\ tokenViews[t] # Absent =>
               \A e \in Exchanges : tokenViews[t][e] = snapshots[<<e, t>>]

=============================================================================
