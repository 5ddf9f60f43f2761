---------------------------- MODULE FundingPersist ----------------------------
(***************************************************************************)
(* FundingService._persist_to_db(): one cycle of the DB writer, run every  *)
(* db_persist_interval.  It walks the latest snapshots in one transaction, *)
(* creates missing exchange and token rows on the way, and keeps their ids *)
(* in two dicts.  A failed flush of a token row is taken for a race with   *)
(* another writer: the transaction is rolled back and the walk goes on.    *)
(*                                                                         *)
(* A snapshot is an <<exchange, spelling>> pair: tokens are looked up by   *)
(* the spelling the collector uses and stored in upper case.  Every cycle  *)
(* brings new timestamps, so "stored" holds the rows of this cycle only.   *)
(***************************************************************************)
EXTENDS Naturals, Sequences, FiniteSets, SequencesExt

CONSTANTS
    Exchanges,      \* exchange slugs
    Spellings,      \* token names as collectors spell them
    Upper,          \* str.upper() on them: [Spellings -> Spellings]
    Faults,         \* BOOLEAN: the database may fail a flush or a commit
    MaxBatch,       \* bound: snapshots in one cycle
    Writers         \* BOOLEAN: backfill and seed scripts insert rows meanwhile

Symbols == {Upper[s] : s \in Spellings}
Snapshots == Exchanges \X Spellings

ASSUME PersistAssumption ==
    /\ Upper \in [Spellings -> Spellings]
    /\ \A s \in Spellings : Upper[Upper[s]] = Upper[s]
    /\ IsFiniteSet(Exchanges) /\ IsFiniteSet(Spellings)
    /\ MaxBatch \in Nat /\ Faults \in BOOLEAN /\ Writers \in BOOLEAN

VARIABLES
    dbExchanges,    \* committed rows of exchanges, by slug
    dbTokens,       \* committed rows of tokens, by symbol
    stored,         \* committed rows of funding_rates at this cycle's timestamps
    pc,             \* "idle", "tokens" (exchanges read), "walk" or "failed"
    batch,          \* the cycle's snapshots, get_all_latest()
    todo,           \* those not yet processed, freshest first
    exchanges,      \* dict slug -> id: "none", "ok", or "gone" after its row was rolled back
    tokens,         \* dict spelling -> id, likewise
    tx,             \* rows created and flushed in the open transaction
    rows,           \* funding rows merged in it, flushed or not
    inserted,       \* how many snapshots the cycle reports as persisted
    disturbed       \* history: the database failed in this cycle, or others wrote

dbVars == <<dbExchanges, dbTokens>>
vars == <<dbVars, stored, pc, batch, todo, exchanges, tokens, tx, rows, inserted,
          disturbed>>

NoTx == [ex |-> {}, tok |-> {}]
RowOf(d) == <<d[1], Upper[d[2]]>>

TypeOK ==
    /\ dbExchanges \subseteq Exchanges /\ dbTokens \subseteq Symbols
    /\ stored \subseteq Exchanges \X Symbols
    /\ pc \in {"idle", "tokens", "walk", "failed"}
    /\ batch \subseteq Snapshots
    /\ todo \in Seq(Snapshots)
    /\ exchanges \in [Exchanges -> {"none", "ok", "gone"}]
    /\ tokens \in [Spellings -> {"none", "ok", "gone"}]
    /\ tx.ex \subseteq Exchanges /\ tx.tok \subseteq Symbols
    /\ rows \subseteq [at : Exchanges \X Symbols, valid : BOOLEAN]
    /\ inserted \in 0..Cardinality(Snapshots) /\ disturbed \in BOOLEAN

Init ==
    /\ dbExchanges \in SUBSET Exchanges /\ dbTokens \in SUBSET Symbols
    /\ stored = {} /\ pc = "idle" /\ batch = {} /\ todo = <<>>
    /\ exchanges = [e \in Exchanges |-> "none"]
    /\ tokens = [s \in Spellings |-> "none"]
    /\ tx = NoTx /\ rows = {} /\ inserted = 0 /\ disturbed = FALSE

-----------------------------------------------------------------------------
(* Two selects fill the dicts; other writers may commit between them.        *)

\* get_all_latest() in every order; an exchange reports a token under one spelling.
Batches ==
    UNION {SetToSeqs(b) : b \in {c \in SUBSET Snapshots :
        /\ Cardinality(c) \in 1..MaxBatch
        /\ \A d1, d2 \in c : RowOf(d1) = RowOf(d2) => d1 = d2}}

BeginCycle ==
    /\ pc \in {"idle", "failed"}
    /\ todo' \in Batches
    /\ batch' = ToSet(todo')
    /\ exchanges' = [e \in Exchanges |-> IF e \in dbExchanges THEN "ok" ELSE "none"]
    /\ pc' = "tokens"
    /\ stored' = {} /\ tx' = NoTx /\ rows' = {} /\ inserted' = 0 /\ disturbed' = FALSE
    /\ UNCHANGED <<dbVars, tokens>>

\* tokens.get(data.token): the dict is keyed by the stored symbol.
KnownToken(s) == s \in dbTokens

SelectTokens ==
    /\ pc = "tokens"
    /\ tokens' = [s \in Spellings |-> IF KnownToken(s) THEN "ok" ELSE "none"]
    /\ pc' = "walk"
    /\ UNCHANGED <<dbVars, stored, batch, todo, exchanges, tx, rows, inserted, disturbed>>

-----------------------------------------------------------------------------
(* Flush and rollback.                                                       *)

ValidRows == \A r \in rows : r.valid

\* Mutant of Lose: the entries of rolled back rows are deleted from the dict.
Delete(dict, created) == [k \in DOMAIN dict \ created |-> dict[k]]

\* session.rollback(): rows created in the transaction vanish, the dicts do
\* not forget their ids.
Lose(dict, created) == [k \in DOMAIN dict |-> IF k \in created /\ dict[k] = "ok" THEN "gone" ELSE dict[k]]
TokenKeys == {s \in Spellings : Upper[s] \in tx.tok}

RolledBack == tx' = NoTx /\ rows' = {}

\* The call returns: its local variables are gone.
Return(outcome) ==
    /\ pc' = outcome
    /\ RolledBack
    /\ todo' = <<>>
    /\ exchanges' = [e \in Exchanges |-> "none"]
    /\ tokens' = [s \in Spellings |-> "none"]
    /\ UNCHANGED <<batch, inserted>>

\* A flush or a commit raises: for a reason of its own, or out of the blue.
Raises(reason) ==
    /\ reason \/ Faults
    /\ disturbed' = (disturbed \/ ~reason)

\* The exception reaches get_db_session(), which rolls back and re-raises.
Fail(reason) == Raises(reason) /\ Return("failed") /\ UNCHANGED <<dbVars, stored>>

-----------------------------------------------------------------------------
(* The loop body for the snapshot d at the head of the list.                 *)

Walking(d) == pc = "walk" /\ todo # <<>> /\ d = Head(todo)

\* Mutant of Remember: the id of the new row is not put in the dict.
Forget(dict, k) == dict

Remember(dict, k) == [dict EXCEPT ![k] = "ok"]

CreateExchange ==
    \E d \in Snapshots :
        /\ Walking(d) /\ exchanges[d[1]] = "none"
        /\ \/ /\ d[1] \notin dbExchanges \cup tx.ex /\ ValidRows
              /\ tx' = [tx EXCEPT !.ex = @ \cup {d[1]}]
              /\ exchanges' = Remember(exchanges, d[1])
              /\ UNCHANGED <<dbVars, stored, pc, batch, todo, tokens, rows, inserted, disturbed>>
           \/ Fail(d[1] \in dbExchanges \cup tx.ex \/ ~ValidRows)

TokenNeeded(d) == Walking(d) /\ exchanges[d[1]] # "none" /\ tokens[d[2]] = "none"

CreateToken ==
    \E d \in Snapshots :
        /\ TokenNeeded(d)
        /\ Upper[d[2]] \notin dbTokens \cup tx.tok /\ ValidRows
        /\ tx' = [tx EXCEPT !.tok = @ \cup {Upper[d[2]]}]
        /\ tokens' = Remember(tokens, d[2])
        /\ UNCHANGED <<dbVars, stored, pc, batch, todo, exchanges, rows, inserted, disturbed>>

\* The flush failed: everything since the last rollback is undone, then the
\* row is looked up; without it the snapshot is skipped.
CreateTokenFails ==
    \E d \in Snapshots :
        /\ TokenNeeded(d)
        /\ Raises(Upper[d[2]] \in dbTokens \cup tx.tok \/ ~ValidRows)
        /\ RolledBack
        /\ exchanges' = Lose(exchanges, tx.ex)
        /\ IF Upper[d[2]] \in dbTokens
           THEN tokens' = Remember(Lose(tokens, TokenKeys), d[2]) /\ UNCHANGED todo
           ELSE tokens' = Lose(tokens, TokenKeys) /\ todo' = Tail(todo)
        /\ UNCHANGED <<dbVars, stored, pc, batch, inserted>>

\* One of the two selects raises, or the one that follows a failed flush.
SelectFails ==
    /\ pc = "tokens" \/ \E d \in Snapshots : TokenNeeded(d)
    /\ Fail(FALSE)

Merge ==
    \E d \in Snapshots :
        /\ Walking(d) /\ exchanges[d[1]] # "none" /\ tokens[d[2]] # "none"
        /\ rows' = rows \cup {[at |-> RowOf(d),
                               valid |-> exchanges[d[1]] = "ok" /\ tokens[d[2]] = "ok"]}
        /\ inserted' = inserted + 1
        /\ todo' = Tail(todo)
        /\ UNCHANGED <<dbVars, stored, pc, batch, exchanges, tokens, tx, disturbed>>

Commit ==
    /\ pc = "walk" /\ todo = <<>>
    /\ \/ /\ ValidRows
          /\ dbExchanges' = dbExchanges \cup tx.ex
          /\ dbTokens' = dbTokens \cup tx.tok
          /\ stored' = {r.at : r \in rows}
          /\ Return("idle") /\ UNCHANGED disturbed
       \/ Fail(~ValidRows)

\* BackfillService and the seed script commit rows of their own.
OtherWriter ==
    /\ Writers
    /\ \/ \E e \in Exchanges \ (dbExchanges \cup tx.ex) : dbExchanges' = dbExchanges \cup {e} /\ UNCHANGED dbTokens
       \/ \E t \in Symbols \ (dbTokens \cup tx.tok) : dbTokens' = dbTokens \cup {t} /\ UNCHANGED dbExchanges
    /\ disturbed' = TRUE
    /\ UNCHANGED <<stored, pc, batch, todo, exchanges, tokens, tx, rows, inserted>>

CycleStep ==
    \/ BeginCycle \/ SelectTokens \/ CreateExchange \/ CreateToken \/ CreateTokenFails
    \/ SelectFails \/ Merge \/ Commit

Next == CycleStep \/ OtherWriter

\* The writer loop is never cancelled while the service runs and every call of
\* the database returns, with or without an error.
Spec == Init /\ [][Next]_vars /\ WF_vars(CycleStep)

-----------------------------------------------------------------------------
(* Properties.                                                               *)

\* "Write all current snapshots to the funding_rates TimescaleDB hypertable."
\* (funding_service.py:212): a finished cycle that nobody disturbed has committed
\* a row for every snapshot it started from, whatever rows the tables held before
\* and whatever the order of the snapshots.
Persisted == stored = {RowOf(d) : d \in batch}
AllPersisted == pc \in {"idle", "failed"} /\ ~disturbed => Persisted

\* The same for batches whose spellings are all in upper case: the walk never
\* takes its own rows for those of another writer and never loses one.
CanonicalPersisted == (\A d \in batch : Upper[d[2]] = d[2]) => AllPersisted

CycleOver == pc \in {"idle", "failed"}

=============================================================================
