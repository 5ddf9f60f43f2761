--------------------------- MODULE DbWriters_proofs ----------------------------
(***************************************************************************)
(* What the writers of exchanges, tokens and funding_rates keep, for any    *)
(* exchanges, symbols, batches and backfills: the type invariant; the       *)
(* caches of the backfills hold ids of committed rows; an undisturbed cycle *)
(* of the DB writer stores every snapshot; a backfill that met no failure   *)
(* leaves no hole, whichever page walk it follows; and every step of a      *)
(* backfill leaves it less to do.                                           *)
(***************************************************************************)
EXTENDS DbWriters, SetLemmas, TLAPS

USE PersistAssumption

-----------------------------------------------------------------------------
(* The caches.                                                              *)

\* No writer deletes a row.
LEMMA RowsStay ==
    ASSUME [WritersNext]_writerVars
    PROVE  dbExchanges \subseteq dbExchanges' /\ dbTokens \subseteq dbTokens'
<1>1. CASE Cycle
    BY <1>1 DEF Cycle, CycleStep, BeginCycle, SelectTokens, CreateExchange, CreateToken,
                CreateTokenFails, SelectFails, Merge, Commit, Fail, dbVars
<1>2. ASSUME NEW j \in Jobs, BackfillStep(j) PROVE dbExchanges \subseteq dbExchanges' /\ dbTokens \subseteq dbTokens'
    BY <1>2 DEF BackfillStep, JobStep, LookAtGuard, FindExchange, NewExchange, Load, Fetch,
                FindToken, NewToken, NewTokenFails, Flush, Mark, Raise, dbVars
<1>3. CASE Others
    BY <1>3 DEF Others, OtherWriter
<1>4. CASE UNCHANGED writerVars
    BY <1>4 DEF writerVars, vars, dbVars
<1> QED BY <1>1, <1>2, <1>3, <1>4 DEF WritersNext, Finished

\* What a job puts in the caches, next to what is there.
LEMMA Caching ==
    ASSUME CachedRowsExist, NEW j \in Jobs, NEW ex, NEW tok,
           caches' = Cached(j, ex, tok),
           dbExchanges \subseteq dbExchanges', dbTokens \subseteq dbTokens',
           ex \subseteq dbExchanges', \A s \in tok : Upper[s] \in dbTokens'
    PROVE  CachedRowsExist'
<1> SUFFICES ASSUME NEW i \in Jobs
             PROVE  /\ caches'[i].ex \subseteq dbExchanges'
                    /\ {Upper[s] : s \in caches'[i].tok} \subseteq dbTokens'
    BY DEF CachedRowsExist
<1>1. CASE SameProcess(i, j)
    <2>1. caches'[i] = [ex |-> caches[i].ex \cup ex, tok |-> caches[i].tok \cup tok]
        BY <1>1 DEF Cached
    <2> QED BY <2>1 DEF CachedRowsExist
<1>2. CASE ~SameProcess(i, j)
    <2>1. caches'[i] = caches[i]
        BY <1>2 DEF Cached
    <2> QED BY <2>1 DEF CachedRowsExist
<1> QED BY <1>1, <1>2

LEMMA CachesNext ==
    ASSUME CachedRowsExist, [WritersNext]_writerVars
    PROVE  CachedRowsExist'
<1>1. dbExchanges \subseteq dbExchanges' /\ dbTokens \subseteq dbTokens'
    BY RowsStay
<1>2. CASE UNCHANGED caches
    BY <1>1, <1>2 DEF CachedRowsExist
<1>3. ASSUME NEW j \in Jobs, BackfillStep(j), ~UNCHANGED caches
      PROVE  CachedRowsExist'
    <2>1. CASE FindExchange(j) \/ NewExchange(j)
        <3>1. caches' = Cached(j, {ExchangeOf(j)}, {}) /\ ExchangeOf(j) \in dbExchanges'
            BY <1>1, <1>3, <2>1 DEF FindExchange, NewExchange, CacheExchange, CachedRowsExist
        <3> QED BY <1>1, <3>1, Caching
    <2>2. CASE FindToken(j) \/ NewToken(j) \/ NewTokenFails(j)
        <3>1. caches' = Cached(j, {}, {job[j].symbol}) /\ Upper[job[j].symbol] \in dbTokens'
            BY <1>1, <1>3, <2>2 DEF FindToken, NewToken, NewTokenFails, CacheToken, SymbolOf
        <3> QED BY <1>1, <3>1, Caching
    <2> QED BY <1>3, <2>1, <2>2 DEF BackfillStep, JobStep, LookAtGuard, Load, Fetch, Flush, Mark, Raise
<1>4. CASE Cycle \/ Others \/ Finished \/ UNCHANGED writerVars
    <2>1. UNCHANGED caches
        BY <1>4 DEF Cycle, Others, Finished, writerVars, backfillVars
    <2> QED BY <1>2, <2>1
<1> QED BY <1>2, <1>3, <1>4 DEF WritersNext

(* The caches, which outlive a job that raised, hold ids of committed rows  *)
(* only, for any number of backfills in any number of processes.            *)
THEOREM CachedIdsExist == WritersSpec => []CachedRowsExist
<1>1. WritersInit => CachedRowsExist
    BY DEF WritersInit, BackfillInit, CachedRowsExist
<1> QED BY <1>1, CachesNext, PTL DEF WritersSpec

-----------------------------------------------------------------------------
(* The cycle.                                                               *)

Canonical == \A d \in batch : Upper[d[2]] = d[2]

\* The dicts and the open transaction, while nothing was rolled back.
CleanDicts ==
    /\ \A e \in Exchanges : exchanges[e] = IF e \in dbExchanges \cup tx.ex THEN "ok" ELSE "none"
    /\ pc = "walk" => \A d \in batch :
            tokens[d[2]] = IF Upper[d[2]] \in dbTokens \cup tx.tok THEN "ok" ELSE "none"

\* What is left, and what was merged, make up the batch.
Accounted == {r.at : r \in rows} \cup {RowOf(d) : d \in ToSet(todo)} = {RowOf(d) : d \in batch}

CycleTypeOK ==
    /\ batch \subseteq Snapshots /\ todo \in Seq(Snapshots)
    /\ pc \in {"idle", "tokens", "walk", "failed"}
    /\ exchanges \in [Exchanges -> {"none", "ok", "gone"}]
    /\ tokens \in [Spellings -> {"none", "ok", "gone"}]
    /\ tx \in [ex : SUBSET Exchanges, tok : SUBSET Symbols]
    /\ disturbed \in BOOLEAN

CycleInv ==
    /\ CycleTypeOK
    /\ pc \in {"tokens", "walk"} => ToSet(todo) \subseteq batch
    /\ Canonical /\ ~disturbed /\ pc \in {"tokens", "walk"} =>
            CleanDicts /\ Accounted /\ ValidRows
    /\ pc = "tokens" => tx = NoTx /\ rows = {}
    /\ view = "backfill" => pc = "idle"
    /\ CanonicalPersisted

\* A sequence's members are its head's and its tail's.
LEMMA HeadAndTail ==
    ASSUME NEW S, NEW s \in Seq(S), s # <<>>
    PROVE  /\ Head(s) \in S /\ Tail(s) \in Seq(S)
           /\ ToSet(s) = {Head(s)} \cup ToSet(Tail(s))
<1>1. Len(s) \in Nat \ {0} /\ DOMAIN s = 1..Len(s) /\ Head(s) = s[1]
    OBVIOUS
<1>2. Tail(s) \in Seq(S) /\ Head(s) \in S
    OBVIOUS
<1>3. DOMAIN Tail(s) = 1..(Len(s) - 1) /\ \A i \in 1..(Len(s) - 1) : Tail(s)[i] = s[i + 1]
    OBVIOUS
<1>4. ASSUME NEW i \in 1..Len(s) PROVE s[i] \in {Head(s)} \cup ToSet(Tail(s))
    <2>1. CASE i = 1
        BY <1>1, <2>1
    <2>2. CASE i # 1
        <3>1. i - 1 \in 1..(Len(s) - 1) /\ Tail(s)[i - 1] = s[i]
            BY <1>1, <1>3, <2>2
        <3> QED BY <1>3, <3>1 DEF ToSet
    <2> QED BY <2>1, <2>2
<1>5. ASSUME NEW i \in 1..(Len(s) - 1) PROVE Tail(s)[i] \in ToSet(s)
    <2>1. i + 1 \in 1..Len(s)
        BY <1>1
    <2> QED BY <1>1, <1>3, <2>1 DEF ToSet
<1>6. Head(s) \in ToSet(s)
    BY <1>1 DEF ToSet
<1> QED BY <1>1, <1>2, <1>3, <1>4, <1>5, <1>6 DEF ToSet

LEMMA BatchesType ==
    ASSUME NEW s \in Batches
    PROVE  s \in Seq(Snapshots) /\ ToSet(s) \subseteq Snapshots
<1>1. PICK b \in SUBSET Snapshots : Cardinality(b) \in 1..MaxBatch /\ s \in SetToSeqs(b)
    BY DEF Batches
<1>2. s \in [1..Cardinality(b) -> b] /\ Cardinality(b) \in Nat
    BY <1>1 DEF SetToSeqs
<1>3. s \in [1..Cardinality(b) -> Snapshots]
    BY <1>1, <1>2
<1> QED BY <1>2, <1>3 DEF ToSet

LEMMA NoTxType == NoTx \in [ex : SUBSET Exchanges, tok : SUBSET Symbols]
BY DEF NoTx

LEMMA CycleInit == WritersInit => CycleInv
<1> SUFFICES ASSUME WritersInit PROVE CycleInv
    OBVIOUS
<1>1. /\ stored = {} /\ pc = "idle" /\ batch = {} /\ todo = <<>>
      /\ exchanges = [e \in Exchanges |-> "none"] /\ tokens = [s \in Spellings |-> "none"]
      /\ tx = NoTx /\ disturbed = FALSE
    BY DEF WritersInit, Init
<1>2. CycleTypeOK
    <2>1. todo \in Seq(Snapshots) /\ batch \subseteq Snapshots
        BY <1>1
    <2> QED BY <1>1, <2>1, NoTxType DEF CycleTypeOK
<1>3. {RowOf(d) : d \in batch} = {}
    BY <1>1
<1> QED BY <1>1, <1>2, <1>3 DEF CycleInv, CanonicalPersisted, AllPersisted, Persisted

LEMMA BeginNext ==
    ASSUME CycleInv, BeginCycle, view # "backfill", UNCHANGED view
    PROVE  CycleInv'
<1>1. todo' \in Seq(Snapshots) /\ batch' \subseteq Snapshots /\ batch' = ToSet(todo')
    BY BatchesType DEF BeginCycle
<1>2. /\ exchanges' = [e \in Exchanges |-> IF e \in dbExchanges THEN "ok" ELSE "none"]
      /\ pc' = "tokens" /\ tx' = NoTx /\ rows' = {} /\ disturbed' = FALSE
      /\ UNCHANGED <<dbExchanges, dbTokens, tokens>>
    BY DEF BeginCycle, dbVars
<1>3. CycleTypeOK'
    BY <1>1, <1>2, NoTxType DEF CycleInv, CycleTypeOK
<1>4. CleanDicts'
    BY <1>2 DEF CleanDicts, NoTx
<1>5. Accounted' /\ ValidRows'
    BY <1>1, <1>2 DEF Accounted, ValidRows, RowOf
<1> QED BY <1>1, <1>2, <1>3, <1>4, <1>5 DEF CycleInv, CanonicalPersisted, AllPersisted

LEMMA SelectNext ==
    ASSUME CycleInv, SelectTokens, UNCHANGED view
    PROVE  CycleInv'
<1>1. /\ pc = "tokens" /\ tokens' = [s \in Spellings |-> IF s \in dbTokens THEN "ok" ELSE "none"]
      /\ pc' = "walk" /\ tx = NoTx
      /\ UNCHANGED <<dbExchanges, dbTokens, stored, batch, todo, exchanges, tx, rows, disturbed>>
    BY DEF SelectTokens, KnownToken, dbVars, CycleInv
<1>2. CycleTypeOK'
    BY <1>1 DEF CycleInv, CycleTypeOK
<1>3. ASSUME Canonical, ~disturbed
      PROVE  CleanDicts'
    <2>1. \A d \in batch : d[2] \in Spellings /\ Upper[d[2]] = d[2]
        BY <1>3 DEF Canonical, CycleInv, CycleTypeOK, Snapshots
    <2>2. \A d \in batch : tokens'[d[2]] = IF Upper[d[2]] \in dbTokens \cup tx.tok THEN "ok" ELSE "none"
        BY <1>1, <2>1 DEF NoTx
    <2>3. \A e \in Exchanges : exchanges[e] = IF e \in dbExchanges \cup tx.ex THEN "ok" ELSE "none"
        BY <1>1, <1>3 DEF CycleInv, CleanDicts
    <2> QED BY <1>1, <2>2, <2>3 DEF CleanDicts
<1> QED BY <1>1, <1>2, <1>3 DEF CycleInv, Canonical, Accounted, ValidRows, RowOf,
                               CanonicalPersisted, AllPersisted

\* The cycle raises: somebody disturbed it, or it has no canonical batch.
LEMMA FailNext ==
    ASSUME CycleInv, UNCHANGED view, view # "backfill", NEW reason \in BOOLEAN, Fail(reason),
           Canonical /\ ~disturbed => ~reason
    PROVE  CycleInv'
<1>1. /\ pc' = "failed" /\ todo' = <<>> /\ UNCHANGED batch
      /\ exchanges' = [e \in Exchanges |-> "none"] /\ tokens' = [s \in Spellings |-> "none"]
      /\ disturbed' = (disturbed \/ ~reason) /\ tx' = NoTx
    BY DEF Fail, Raises, Return, RolledBack
<1>2. CycleTypeOK'
    BY <1>1, NoTxType DEF CycleInv, CycleTypeOK
<1>3. Canonical => disturbed'
    BY <1>1 DEF CycleInv, CycleTypeOK
<1> QED BY <1>1, <1>2, <1>3 DEF CycleInv, CanonicalPersisted, AllPersisted, Canonical

LEMMA SelectFailsNext ==
    ASSUME CycleInv, SelectFails, UNCHANGED view, view # "backfill"
    PROVE  CycleInv'
BY FailNext DEF SelectFails

LEMMA ExchangeNext ==
    ASSUME CycleInv, CreateExchange, UNCHANGED view, view # "backfill"
    PROVE  CycleInv'
<1>1. PICK d \in Snapshots :
        /\ Walking(d) /\ exchanges[d[1]] = "none"
        /\ \/ /\ d[1] \notin dbExchanges \cup tx.ex /\ ValidRows
              /\ tx' = [tx EXCEPT !.ex = @ \cup {d[1]}]
              /\ exchanges' = Remember(exchanges, d[1])
              /\ UNCHANGED <<dbVars, stored, pc, batch, todo, tokens, rows, inserted, disturbed>>
           \/ Fail(d[1] \in dbExchanges \cup tx.ex \/ ~ValidRows)
    BY DEF CreateExchange
<1>2. pc = "walk" /\ d[1] \in Exchanges
    BY <1>1 DEF Walking, Snapshots
<1>3. Canonical /\ ~disturbed => d[1] \notin dbExchanges \cup tx.ex /\ ValidRows
    BY <1>1, <1>2 DEF CycleInv, CleanDicts
<1>4. CASE Fail(d[1] \in dbExchanges \cup tx.ex \/ ~ValidRows)
    <2> DEFINE reason == d[1] \in dbExchanges \cup tx.ex \/ ~ValidRows
    <2>1. reason \in BOOLEAN /\ (Canonical /\ ~disturbed => ~reason)
        BY <1>3
    <2>2. Fail(reason)
        BY <1>4
    <2> HIDE DEF reason
    <2> QED BY <2>1, <2>2, FailNext
<1>5. CASE /\ tx' = [tx EXCEPT !.ex = @ \cup {d[1]}]
           /\ exchanges' = Remember(exchanges, d[1])
           /\ UNCHANGED <<dbVars, stored, pc, batch, todo, tokens, rows, inserted, disturbed>>
    <2>1. /\ tx' = [ex |-> tx.ex \cup {d[1]}, tok |-> tx.tok]
          /\ tx' \in [ex : SUBSET Exchanges, tok : SUBSET Symbols]
        BY <1>2, <1>5 DEF CycleInv, CycleTypeOK
    <2>2. CycleTypeOK'
        BY <1>2, <1>5, <2>1 DEF Remember, CycleInv, CycleTypeOK
    <2>3. ASSUME Canonical, ~disturbed
          PROVE  CleanDicts'
        BY <1>2, <1>5, <2>1, <2>3 DEF CycleInv, CycleTypeOK, CleanDicts, Remember, dbVars
    <2> QED BY <1>2, <1>5, <2>2, <2>3 DEF CycleInv, Canonical, Accounted, ValidRows, RowOf,
                                        CanonicalPersisted, AllPersisted
<1> QED BY <1>1, <1>4, <1>5

\* The snapshot at the head of the list.
LEMMA HeadFacts ==
    ASSUME CycleInv, NEW d \in Snapshots, Walking(d)
    PROVE  /\ pc = "walk" /\ d \in batch /\ d[1] \in Exchanges /\ d[2] \in Spellings
           /\ Tail(todo) \in Seq(Snapshots)
           /\ ToSet(todo) = {d} \cup ToSet(Tail(todo))
<1>1. pc = "walk" /\ todo # <<>> /\ d = Head(todo) /\ todo \in Seq(Snapshots)
    BY DEF Walking, CycleInv, CycleTypeOK
<1>2. /\ Tail(todo) \in Seq(Snapshots)
      /\ ToSet(todo) = {d} \cup ToSet(Tail(todo))
    BY <1>1, HeadAndTail
<1>3. d \in batch
    BY <1>1, <1>2 DEF CycleInv
<1> QED BY <1>1, <1>2, <1>3 DEF Snapshots

LEMMA TokenNext ==
    ASSUME CycleInv, CreateToken, UNCHANGED view, view # "backfill"
    PROVE  CycleInv'
<1>1. PICK d \in Snapshots :
        /\ Walking(d) /\ tokens[d[2]] = "none"
        /\ tx' = [tx EXCEPT !.tok = @ \cup {Upper[d[2]]}]
        /\ tokens' = Remember(tokens, d[2])
    BY DEF CreateToken, TokenNeeded
<1>2. UNCHANGED <<dbExchanges, dbTokens, stored, pc, batch, todo, exchanges, rows, disturbed>>
    BY DEF CreateToken, dbVars
<1>3. pc = "walk" /\ d \in batch /\ d[2] \in Spellings
    BY <1>1, HeadFacts
<1>4. /\ tx' = [ex |-> tx.ex, tok |-> tx.tok \cup {Upper[d[2]]}]
      /\ tx' \in [ex : SUBSET Exchanges, tok : SUBSET Symbols]
    <2>1. tx \in [ex : SUBSET Exchanges, tok : SUBSET Symbols]
        BY DEF CycleInv, CycleTypeOK
    <2>2. Upper[d[2]] \in Symbols
        BY <1>3 DEF Symbols
    <2>3. tx' = [ex |-> tx.ex, tok |-> tx.tok \cup {Upper[d[2]]}]
        BY <1>1, <2>1
    <2>4. tx.ex \in SUBSET Exchanges /\ tx.tok \cup {Upper[d[2]]} \in SUBSET Symbols
        BY <2>1, <2>2
    <2> QED BY <2>3, <2>4
<1>5. CycleTypeOK'
    BY <1>1, <1>2, <1>3, <1>4 DEF Remember, CycleInv, CycleTypeOK
<1>6. ASSUME Canonical, ~disturbed
      PROVE  CleanDicts'
    <2>1. ASSUME NEW x \in batch
          PROVE  tokens'[x[2]] = IF Upper[x[2]] \in dbTokens \cup tx'.tok THEN "ok" ELSE "none"
        <3>1. x[2] \in Spellings /\ Upper[x[2]] = x[2] /\ Upper[d[2]] = d[2]
            BY <1>3, <1>6 DEF Canonical, CycleInv, CycleTypeOK, Snapshots
        <3>2. tokens[x[2]] = IF Upper[x[2]] \in dbTokens \cup tx.tok THEN "ok" ELSE "none"
            BY <1>3, <1>6 DEF CycleInv, CleanDicts
        <3>3. tokens'[x[2]] = IF x[2] = d[2] THEN "ok" ELSE tokens[x[2]]
            BY <1>1, <3>1 DEF Remember, CycleInv, CycleTypeOK
        <3> QED BY <1>4, <3>1, <3>2, <3>3
    <2>2. \A e \in Exchanges : exchanges[e] = IF e \in dbExchanges \cup tx.ex THEN "ok" ELSE "none"
        BY <1>3, <1>6 DEF CycleInv, CleanDicts
    <2> QED BY <1>2, <1>4, <2>1, <2>2 DEF CleanDicts
<1> QED BY <1>2, <1>3, <1>5, <1>6 DEF CycleInv, Canonical, Accounted, ValidRows, RowOf,
                                    CanonicalPersisted, AllPersisted

LEMMA TokenFailsNext ==
    ASSUME CycleInv, CreateTokenFails, UNCHANGED view, view # "backfill"
    PROVE  CycleInv'
<1>1. PICK d \in Snapshots :
        /\ TokenNeeded(d)
        /\ Raises(Upper[d[2]] \in dbTokens \cup tx.tok \/ ~ValidRows)
        /\ exchanges' = Lose(exchanges, tx.ex)
        /\ IF Upper[d[2]] \in dbTokens
           THEN tokens' = Remember(Lose(tokens, TokenKeys), d[2]) /\ UNCHANGED todo
           ELSE tokens' = Lose(tokens, TokenKeys) /\ todo' = Tail(todo)
    BY DEF CreateTokenFails
<1>2. tx' = NoTx /\ UNCHANGED <<pc, batch>>
    BY DEF CreateTokenFails, RolledBack
<1>3. Walking(d) /\ tokens[d[2]] = "none"
    BY <1>1 DEF TokenNeeded
<1>4. /\ pc = "walk" /\ d \in batch /\ d[2] \in Spellings
      /\ Tail(todo) \in Seq(Snapshots)
      /\ ToSet(todo) = {d} \cup ToSet(Tail(todo))
    BY <1>3, HeadFacts
<1>5. disturbed' \in BOOLEAN /\ (Canonical => disturbed')
    <2>1. Canonical /\ ~disturbed => Upper[d[2]] \notin dbTokens \cup tx.tok /\ ValidRows
        BY <1>3, <1>4 DEF CycleInv, CleanDicts
    <2> QED BY <1>1, <2>1 DEF Raises, CycleInv, CycleTypeOK
<1>6. CycleTypeOK'
    <2>1. exchanges' \in [Exchanges -> {"none", "ok", "gone"}]
        BY <1>1 DEF Lose, CycleInv, CycleTypeOK
    <2>2. Lose(tokens, TokenKeys) \in [Spellings -> {"none", "ok", "gone"}]
        BY DEF Lose, CycleInv, CycleTypeOK
    <2>3. tokens' \in [Spellings -> {"none", "ok", "gone"}]
        BY <1>1, <2>2 DEF Remember
    <2>4. todo' \in Seq(Snapshots)
        BY <1>1, <1>4 DEF CycleInv, CycleTypeOK
    <2> QED BY <1>2, <1>5, <2>1, <2>3, <2>4, NoTxType DEF CycleInv, CycleTypeOK
<1>7. ToSet(todo') \subseteq batch
    BY <1>1, <1>4 DEF CycleInv
<1> QED BY <1>2, <1>4, <1>5, <1>6, <1>7 DEF CycleInv, Canonical, CanonicalPersisted, AllPersisted

LEMMA MergeNext ==
    ASSUME CycleInv, Merge, UNCHANGED view, view # "backfill"
    PROVE  CycleInv'
<1>1. PICK d \in Snapshots :
        /\ Walking(d) /\ exchanges[d[1]] # "none" /\ tokens[d[2]] # "none"
        /\ rows' = rows \cup {[at |-> RowOf(d),
                               valid |-> exchanges[d[1]] = "ok" /\ tokens[d[2]] = "ok"]}
        /\ todo' = Tail(todo)
    BY DEF Merge
<1>2. UNCHANGED <<dbExchanges, dbTokens, stored, pc, batch, exchanges, tokens, tx, disturbed>>
    BY DEF Merge, dbVars
<1>3. /\ pc = "walk" /\ d \in batch /\ d[1] \in Exchanges
      /\ Tail(todo) \in Seq(Snapshots)
      /\ ToSet(todo) = {d} \cup ToSet(Tail(todo))
    BY <1>1, HeadFacts
<1>4. CycleTypeOK'
    BY <1>1, <1>2, <1>3 DEF CycleInv, CycleTypeOK
<1>5. ASSUME Canonical, ~disturbed
      PROVE  CleanDicts' /\ Accounted' /\ ValidRows'
    <2>1. CleanDicts /\ Accounted /\ ValidRows
        BY <1>3, <1>5 DEF CycleInv
    <2>2. exchanges[d[1]] = "ok" /\ tokens[d[2]] = "ok"
        BY <1>1, <1>3, <2>1 DEF CleanDicts
    <2> DEFINE good == exchanges[d[1]] = "ok" /\ tokens[d[2]] = "ok"
               new == [at |-> RowOf(d), valid |-> good]
    <2>3. rows' = rows \cup {new}
        BY <1>1
    <2>4. new.at = RowOf(d)
        OBVIOUS
    <2>5. new.valid = good
        OBVIOUS
    <2>6. new.valid
        BY <2>2, <2>5, Zenon
    <2> HIDE DEF new, good
    <2>7. ValidRows'
        BY <2>1, <2>3, <2>6 DEF ValidRows
    <2>8. {r.at : r \in rows'} = {r.at : r \in rows} \cup {RowOf(d)}
        BY <2>3, <2>4
    <2>9. {RowOf(x) : x \in ToSet(todo)} = {RowOf(d)} \cup {RowOf(x) : x \in ToSet(todo')}
        BY <1>1, <1>3
    <2>10. Accounted'
        BY <1>2, <2>1, <2>8, <2>9 DEF Accounted, RowOf
    <2>11. CleanDicts'
        BY <1>2, <2>1 DEF CleanDicts
    <2> QED BY <2>7, <2>10, <2>11
<1> QED BY <1>1, <1>2, <1>3, <1>4, <1>5 DEF CycleInv, Canonical, CanonicalPersisted, AllPersisted

LEMMA CommitNext ==
    ASSUME CycleInv, Commit, UNCHANGED view, view # "backfill"
    PROVE  CycleInv'
<1>1. pc = "walk" /\ todo = <<>>
    BY DEF Commit
<1>2. CASE Fail(~ValidRows)
    <2>1. Canonical /\ ~disturbed => ValidRows
        BY <1>1 DEF CycleInv
    <2> DEFINE reason == ~ValidRows
    <2>2. Fail(reason) /\ reason \in BOOLEAN /\ (Canonical /\ ~disturbed => ~reason)
        BY <1>2, <2>1
    <2> HIDE DEF reason
    <2> QED BY <2>2, FailNext
<1>3. CASE ~Fail(~ValidRows)
    <2>1. /\ stored' = {r.at : r \in rows} /\ pc' = "idle" /\ todo' = <<>> /\ tx' = NoTx
          /\ exchanges' = [e \in Exchanges |-> "none"] /\ tokens' = [s \in Spellings |-> "none"]
          /\ UNCHANGED <<batch, disturbed>>
        BY <1>3 DEF Commit, Return, RolledBack
    <2>2. CycleTypeOK'
        BY <2>1, NoTxType DEF CycleInv, CycleTypeOK
    <2>3. ASSUME Canonical, ~disturbed
          PROVE  stored' = {RowOf(d) : d \in batch}
        <3>1. {r.at : r \in rows} \cup {RowOf(d) : d \in ToSet(todo)} = {RowOf(d) : d \in batch}
            BY <1>1, <2>3 DEF CycleInv, Accounted
        <3>2. ToSet(todo) = {}
            BY <1>1 DEF ToSet
        <3> QED BY <2>1, <3>1, <3>2
    <2>4. CanonicalPersisted'
        BY <2>1, <2>3 DEF CanonicalPersisted, AllPersisted, Persisted, Canonical, RowOf
    <2> QED BY <2>1, <2>2, <2>4 DEF CycleInv
<1> QED BY <1>2, <1>3

\* Another writer disturbs the cycle; a backfill of the other view finds it idle.
LEMMA OthersNext ==
    ASSUME CycleInv, Others \/ (\E j \in Jobs : BackfillStep(j)) \/ UNCHANGED writerVars
    PROVE  CycleInv'
<1>1. CASE Others
    <2>1. /\ disturbed' = TRUE
          /\ UNCHANGED <<stored, pc, batch, todo, exchanges, tokens, tx, rows, view>>
        BY <1>1 DEF Others, OtherWriter
    <2>2. CycleTypeOK'
        BY <2>1 DEF CycleInv, CycleTypeOK
    <2> QED BY <2>1, <2>2 DEF CycleInv, CanonicalPersisted, AllPersisted
<1>2. CASE \E j \in Jobs : BackfillStep(j)
    <2>1. pc = "idle" /\ UNCHANGED <<cycleVars, view>>
        BY <1>2 DEF BackfillStep, CycleInv
    <2>2. CycleTypeOK'
        BY <2>1 DEF cycleVars, CycleInv, CycleTypeOK
    <2> QED BY <2>1, <2>2 DEF cycleVars, CycleInv, CanonicalPersisted, AllPersisted, Persisted, RowOf
<1>3. CASE UNCHANGED writerVars
    BY <1>3 DEF writerVars, vars, dbVars, CycleInv, CycleTypeOK, Canonical, CleanDicts, Accounted,
                ValidRows, RowOf, CanonicalPersisted, AllPersisted, Persisted
<1> QED BY <1>1, <1>2, <1>3

LEMMA CycleNext == CycleInv /\ [WritersNext]_writerVars => CycleInv'
<1> SUFFICES ASSUME CycleInv, [WritersNext]_writerVars PROVE CycleInv'
    OBVIOUS
<1>1. CASE Cycle
    <2>1. view # "backfill" /\ UNCHANGED view /\ CycleStep
        BY <1>1 DEF Cycle
    <2> QED BY <2>1, BeginNext, SelectNext, ExchangeNext, TokenNext, TokenFailsNext,
               SelectFailsNext, MergeNext, CommitNext DEF CycleStep
<1> QED BY <1>1, OthersNext DEF WritersNext, Finished

(* A finished cycle that nobody disturbed has committed a row for every      *)
(* snapshot of a batch in canonical spelling, in whatever order it came and  *)
(* whatever rows the tables held before.                                     *)
THEOREM UndisturbedPersists == WritersSpec => []CanonicalPersisted
<1>1. CycleInv => CanonicalPersisted
    BY DEF CycleInv
<1> QED BY <1>1, CycleInit, CycleNext, PTL DEF WritersSpec

-----------------------------------------------------------------------------
(* The walks.                                                               *)

HIDE PersistAssumption

\* The smaller of two numbers.
LEMMA MinOf ==
    ASSUME NEW a \in Nat, NEW b \in Nat
    PROVE  Min({a, b}) = IF a <= b THEN a ELSE b
<1> DEFINE m == IF a <= b THEN a ELSE b
<1>1. m \in {a, b} /\ \A y \in {a, b} : m <= y
    OBVIOUS
<1>2. \A x \in {a, b} : (\A y \in {a, b} : x <= y) => x = m
    OBVIOUS
<1> HIDE DEF m
<1>3. (CHOOSE x \in {a, b} : \A y \in {a, b} : x <= y) = m
    BY <1>1, <1>2
<1> QED BY <1>3 DEF Min, m

\* Some time of a set comes last, whatever the order of the walk.
LEMMA SomeLast ==
    ASSUME NEW w, NEW S, S \subseteq Start..End, S # {}
    PROVE  \E x \in S : \A y \in S \ {x} : Precedes(w, y, x)
<1>1. S \subseteq Nat /\ Start \in Nat /\ End \in Nat
    BY PagingAssumption
<1>2. CASE w = "backward"
    <2>1. PICK x \in S : \A y \in S : x <= y
        BY <1>1, LeastNumber
    <2> QED BY <1>1, <1>2, <2>1 DEF Precedes
<1>3. CASE w # "backward"
    <2> DEFINE U == {n \in Nat : \A y \in S : y <= n}
    <2>1. End \in U /\ U \subseteq Nat
        BY <1>1
    <2> HIDE DEF U
    <2>2. PICK x \in U : \A n \in U : x <= n
        BY <2>1, LeastNumber
    <2>3. x \in S
        <3>1. SUFFICES ASSUME x \notin S PROVE FALSE
            OBVIOUS
        <3>2. PICK y \in S : TRUE
            OBVIOUS
        <3>3. x - 1 \in U
            BY <1>1, <2>2, <3>1, <3>2 DEF U
        <3> QED BY <2>1, <2>2, <3>3
    <2>4. \A y \in S : y <= x
        BY <2>2 DEF U
    <2>5. \A y \in S \ {x} : y < x
        BY <1>1, <2>3, <2>4
    <2> QED BY <1>3, <2>3, <2>5 DEF Precedes
<1> QED BY <1>2, <1>3

\* q[1], ..., q[n] come in the order of the walk.
InOrder(w, q, n) == \A i, k \in 1..n : i < k => Precedes(w, q[i], q[k])

LEMMA SortedExists ==
    ASSUME NEW w
    PROVE  \A n \in Nat : \A S : S \subseteq Start..End /\ Cardinality(S) = n =>
              \E q \in [1..n -> S] : InOrder(w, q, n)
<1> DEFINE Good(n) == \A S : S \subseteq Start..End /\ Cardinality(S) = n =>
                          \E q \in [1..n -> S] : InOrder(w, q, n)
           A == {n \in Nat : Good(n)}
<1>1. 0 \in A
    <2>1. ASSUME NEW S PROVE [i \in 1..0 |-> 0] \in [1..0 -> S] /\ InOrder(w, [i \in 1..0 |-> 0], 0)
        BY DEF InOrder
    <2> QED BY <2>1
<1>2. ASSUME NEW n \in A PROVE n + 1 \in A
    <2>1. n \in Nat /\ Good(n)
        OBVIOUS
    <2> HIDE DEF Good
    <2>2. ASSUME NEW S, S \subseteq Start..End, Cardinality(S) = n + 1
          PROVE  \E q \in [1..(n + 1) -> S] : InOrder(w, q, n + 1)
        <3>1. IsFiniteSet(Start..End)
            BY FS_Interval, PagingAssumption
        <3>2. IsFiniteSet(S)
            BY <2>2, <3>1, FS_Subset
        <3>3. S # {}
            BY <2>1, <2>2, FS_EmptySet
        <3>4. PICK x \in S : \A y \in S \ {x} : Precedes(w, y, x)
            BY <2>2, <3>3, SomeLast
        <3>5. Cardinality(S \ {x}) = n
            BY <2>1, <2>2, <3>2, FS_RemoveElement
        <3>6. S \ {x} \subseteq Start..End
            BY <2>2
        <3>7. PICK q \in [1..n -> S \ {x}] : InOrder(w, q, n)
            BY <2>1, <3>5, <3>6 DEF Good
        <3> DEFINE p == [i \in 1..(n + 1) |-> IF i <= n THEN q[i] ELSE x]
        <3>8. /\ p[n + 1] = x
              /\ \A i \in 1..n : p[i] = q[i] /\ q[i] \in S \ {x}
              /\ p \in [1..(n + 1) -> S]
            BY <2>1
        <3> HIDE DEF p
        <3>9. ASSUME NEW i \in 1..(n + 1), NEW k \in 1..(n + 1), i < k
              PROVE  Precedes(w, p[i], p[k])
            <4>1. i \in 1..n
                BY <2>1, <3>9
            <4>2. CASE k \in 1..n
                BY <3>7, <3>8, <3>9, <4>1, <4>2 DEF InOrder
            <4>3. CASE k = n + 1
                BY <3>4, <3>8, <4>1, <4>3
            <4> QED BY <2>1, <4>2, <4>3
        <3> QED BY <3>8, <3>9 DEF InOrder
    <2>3. Good(n + 1)
        BY <2>2 DEF Good
    <2> QED BY <2>1, <2>3
<1> HIDE DEF A, Good
<1>3. A = Nat
    <2>1. A \subseteq Nat
        BY DEF A
    <2> QED BY <1>1, <1>2, <2>1, SetInduction
<1> QED BY <1>3 DEF A, Good

\* Each time of the set occurs, in order.
LEMMA SortedType ==
    ASSUME NEW w \in Walks, NEW S, S \subseteq Start..End
    PROVE  /\ Cardinality(S) \in Nat
           /\ Sorted[w][S] \in [1..Cardinality(S) -> S]
           /\ InOrder(w, Sorted[w][S], Cardinality(S))
           /\ \A t \in S : \E i \in 1..Cardinality(S) : Sorted[w][S][i] = t
<1> DEFINE n == Cardinality(S)
           q == Sorted[w][S]
<1>1. IsFiniteSet(Start..End)
    BY FS_Interval, PagingAssumption
<1>2. IsFiniteSet(S) /\ n \in Nat
    BY <1>1, FS_Subset, FS_CardinalityType
<1>3. \E p \in [1..n -> S] : InOrder(w, p, n)
    BY <1>2, SortedExists
<1>4. q = CHOOSE p \in [1..n -> S] : \A i, k \in 1..n : i < k => Precedes(w, p[i], p[k])
    BY DEF Sorted
<1>5. q \in [1..n -> S] /\ InOrder(w, q, n)
    <2>1. \E p \in [1..n -> S] : \A i, k \in 1..n : i < k => Precedes(w, p[i], p[k])
        BY <1>3 DEF InOrder
    <2>2. q \in [1..n -> S] /\ \A i, k \in 1..n : i < k => Precedes(w, q[i], q[k])
        BY <1>4, <2>1
    <2> QED BY <2>2 DEF InOrder
<1> HIDE DEF q
<1>6. ASSUME NEW i \in 1..n, NEW k \in 1..n, q[i] = q[k]
      PROVE  i = k
    <2>1. q[i] \in Nat /\ q[k] \in Nat
        <3>1. Start..End \subseteq Nat
            BY PagingAssumption
        <3> QED BY <1>5, <3>1
    <2>2. ~(i < k)
        BY <1>5, <1>6, <2>1 DEF InOrder, Precedes
    <2>3. ~(k < i)
        BY <1>5, <1>6, <2>1 DEF InOrder, Precedes
    <2> QED BY <1>2, <2>2, <2>3
<1>7. q \in Injection(1..n, S)
    BY <1>5, <1>6, Fun_IsInj
<1>8. Cardinality(1..n) = n
    BY <1>2, UpTo
<1>9. q \in Surjection(1..n, S)
    BY <1>2, <1>7, <1>8, FS_Injection
<1> QED BY <1>2, <1>5, <1>9, Fun_SurjectionProperties DEF q

LEMMA SeqOfMore ==
    ASSUME NEW S, NEW T, S \subseteq T, NEW s \in Seq(S)
    PROVE  s \in Seq(T)
<1>1. Len(s) \in Nat /\ s \in [1..Len(s) -> S]
    OBVIOUS
<1>2. s \in [1..Len(s) -> T]
    BY <1>1
<1> QED BY <1>1, <1>2

\* What a window asks for.
Asked(v, H) == {t \in H : v.lo <= t /\ t <= v.hi}

\* A page brings records of its window only: all of them, if it is not full;
\* otherwise all up to its last, which is not its first.
LEMMA PageType ==
    ASSUME NEW w \in Walks, NEW v \in Windows, NEW H, H \subseteq Settlements
    PROVE  LET page == Answer(w, v, H)
           IN  /\ page \in Seq(H) /\ ToSet(page) \subseteq Asked(v, H)
               /\ w = "chunks" \/ Len(page) < PageSize => ToSet(page) = Asked(v, H)
               /\ w # "chunks" /\ Len(page) >= PageSize =>
                    /\ page # <<>> /\ Last(page) \in Asked(v, H)
                    /\ \E t \in Asked(v, H) : Precedes(w, t, Last(page))
                    /\ \A t \in Asked(v, H) : t \in ToSet(page) \/ Precedes(w, Last(page), t)
<1> DEFINE R == Asked(v, H)
           n == Cardinality(R)
           q == Sorted[w][R]
           page == Answer(w, v, H)
           m == IF PageSize <= n THEN PageSize ELSE n
<1>1. R \subseteq Start..End /\ R \subseteq H
    BY BackfillAssumption DEF Asked
<1> HIDE DEF R
<1>2. /\ n \in Nat /\ q \in [1..n -> R] /\ InOrder(w, q, n)
      /\ \A t \in R : \E i \in 1..n : q[i] = t
    BY <1>1, SortedType
<1>3. PageSize \in Nat \ {0, 1}
    BY PagingAssumption
<1> HIDE DEF n
<1>4. q \in Seq(R) /\ Len(q) = n
    BY <1>2
<1>5. page = IF w = "chunks" THEN q ELSE SubSeq(q, 1, Min({PageSize, Len(q)}))
    BY DEF Answer, R, Asked
<1> HIDE DEF q, page
<1>6. CASE w = "chunks"
    <2>1. page = q
        BY <1>5, <1>6
    <2>2. q \in Seq(H)
        BY <1>1, <1>4, SeqOfMore
    <2>3. ToSet(q) = R
        BY <1>2, <1>4 DEF ToSet
    <2> QED BY <1>6, <2>1, <2>2, <2>3 DEF page, R
<1>7. CASE w # "chunks"
    <2>1. page = SubSeq(q, 1, m) /\ m \in 0..n
        <3>1. n \in Nat /\ PageSize \in Nat
            BY <1>2, <1>3
        <3>2. Min({PageSize, n}) = m /\ m \in 0..n
            BY <3>1, MinOf
        <3> HIDE DEF m
        <3>3. page = SubSeq(q, 1, Min({PageSize, Len(q)}))
            BY <1>5, <1>7
        <3> QED BY <1>4, <3>2, <3>3
    <2> HIDE DEF m
    <2>2. /\ page \in Seq(R) /\ Len(page) = m
          /\ \A i \in 1..m : page[i] = q[i]
        BY <1>2, <1>4, <2>1
    <2>3. page \in Seq(H)
        BY <1>1, <2>2, SeqOfMore
    <2>4. ToSet(page) = {q[i] : i \in 1..m}
        BY <2>2 DEF ToSet
    <2>5. ToSet(page) \subseteq R
        BY <1>2, <2>1, <2>4
    <2>6. ASSUME Len(page) < PageSize
          PROVE  ToSet(page) = R
        <3>1. m = n
            BY <1>2, <1>3, <2>2, <2>6 DEF m
        <3> QED BY <1>2, <2>4, <3>1
    <2>7. ASSUME Len(page) >= PageSize
          PROVE  /\ page # <<>> /\ Last(page) \in R
                 /\ \E t \in R : Precedes(w, t, Last(page))
                 /\ \A t \in R : t \in ToSet(page) \/ Precedes(w, Last(page), t)
        <3>1. m >= 2 /\ 1 \in 1..n /\ m \in 1..n /\ 1 < m
            BY <1>2, <1>3, <2>1, <2>2, <2>7
        <3>2. Last(page) = q[m]
            BY <2>2, <3>1 DEF Last
        <3>3. Precedes(w, q[1], q[m])
            BY <1>2, <3>1 DEF InOrder
        <3>4. ASSUME NEW t \in R, t \notin ToSet(page)
              PROVE  Precedes(w, q[m], t)
            <4>1. PICK i \in 1..n : q[i] = t
                BY <1>2
            <4>2. ~(i \in 1..m)
                BY <2>4, <3>4, <4>1
            <4>3. m < i
                BY <1>2, <3>1, <4>2
            <4> QED BY <1>2, <3>1, <4>1, <4>3 DEF InOrder
        <3>5. q[1] \in R /\ q[m] \in R /\ page # <<>>
            BY <1>2, <2>2, <3>1
        <3> QED BY <3>2, <3>3, <3>4, <3>5
    <2> QED BY <1>7, <2>3, <2>5, <2>6, <2>7 DEF page, R
<1> QED BY <1>6, <1>7

\* Where the walks come by.
OnWalk(w, v) ==
    /\ v \in Windows
    /\ w = "chunks" =>
        /\ v.hi = Min({v.lo + Chunk, End})
        /\ v.lo = End + 1 \/ \E k \in Nat : v.lo = Start + k * (Chunk + 1)
    /\ w = "forward" /\ Goes(w, v) => v.hi = End
    /\ w = "backward" /\ Goes(w, v) => v.lo = Start

\* The times still to be asked for.
Ahead(w, v, t) ==
    /\ Goes(w, v)
    /\ IF w = "backward" THEN t <= v.hi ELSE v.lo <= t

LEMMA ChunkWindow ==
    ASSUME NEW a \in Start..(End + 1)
    PROVE  /\ ChunkFrom(a) \in Windows /\ ChunkFrom(a).lo = a
           /\ ChunkFrom(a).hi = IF a + Chunk <= End THEN a + Chunk ELSE End
<1>1. a \in Nat /\ a + Chunk \in Nat /\ End \in Nat /\ Start \in Nat \ {0} /\ Start < End
      /\ Chunk \in Nat \ {0}
    BY PagingAssumption
<1>2. ChunkFrom(a) = [lo |-> a, hi |-> Min({a + Chunk, End})]
    BY DEF ChunkFrom
<1>3. Min({a + Chunk, End}) = IF a + Chunk <= End THEN a + Chunk ELSE End
    BY <1>1, MinOf
<1>4. Min({a + Chunk, End}) \in (Start - 1)..End
    BY <1>1, <1>3
<1> QED BY <1>2, <1>3, <1>4 DEF Windows

\* No chunk but the one behind the range begins at its end.
LEMMA ChunkStart ==
    ASSUME NEW k \in Nat, Start + k * (Chunk + 1) \in Start..(End + 1)
    PROVE  Start + k * (Chunk + 1) # End
<1>1. Chunk \in Nat \ {0} /\ Start \in Nat \ {0} /\ End \in Nat /\ Start < End
    BY PagingAssumption
<1>2. k * (Chunk + 1) = k * Chunk + k /\ k * Chunk \in Nat
    BY <1>1
<1>3. CASE k \in 0..End
    BY <1>3, PagingAssumption
<1>4. CASE k > End
    BY <1>1, <1>2, <1>4
<1> QED BY <1>1, <1>3, <1>4

\* The first window of a walk has the whole range ahead.
LEMMA WalkBegins ==
    ASSUME NEW w \in Walks
    PROVE  OnWalk(w, First(w)) /\ \A t \in Start..End : Ahead(w, First(w), t)
<1>1. Start \in Nat \ {0} /\ End \in Nat /\ Start < End /\ Chunk \in Nat \ {0}
    BY PagingAssumption
<1>2. CASE w = "chunks"
    <2>1. Start \in Start..(End + 1)
        BY <1>1
    <2>2. /\ First(w) = ChunkFrom(Start) /\ First(w) \in Windows /\ First(w).lo = Start
          /\ First(w).hi = Min({Start + Chunk, End})
        BY <1>2, <2>1, ChunkWindow DEF First, ChunkFrom
    <2>3. Start = Start + 0 * (Chunk + 1) /\ 0 \in Nat
        BY <1>1
    <2> QED BY <1>1, <1>2, <2>2, <2>3 DEF OnWalk, Ahead, Goes
<1>3. CASE w # "chunks"
    <2>1. First(w) = [lo |-> Start, hi |-> End]
        BY <1>3 DEF First
    <2> QED BY <1>1, <1>3, <2>1 DEF OnWalk, Ahead, Goes, Windows
<1> QED BY <1>2, <1>3

LEMMA BrokenWindow ==
    ASSUME NEW w \in {"forward", "backward"}
    PROVE  OnWalk(w, Broken)
<1>1. Start \in Nat \ {0} /\ End \in Nat /\ Start < End
    BY PagingAssumption
<1> QED BY <1>1 DEF OnWalk, Broken, Windows, Goes

\* Behind an error a walk goes on, or is broken off.
LEMMA WalkAfterError ==
    ASSUME NEW w \in Walks, NEW v, OnWalk(w, v), Goes(w, v)
    PROVE  OnWalk(w, AfterError(w, v))
<1>1. /\ Start \in Nat \ {0} /\ End \in Nat /\ Start < End /\ Chunk \in Nat \ {0}
      /\ v.lo \in Start..(End + 1) /\ v.hi \in (Start - 1)..End
    BY PagingAssumption DEF OnWalk, Windows
<1>2. CASE w = "chunks"
    <2>1. v.hi + 1 \in Start..(End + 1)
        BY <1>1
    <2>2. /\ AfterError(w, v) = ChunkFrom(v.hi + 1) /\ AfterError(w, v) \in Windows
          /\ AfterError(w, v).lo = v.hi + 1
          /\ AfterError(w, v).hi = Min({v.hi + 1 + Chunk, End})
        BY <1>2, <2>1, ChunkWindow DEF AfterError, ChunkFrom
    <2>3. v.hi + 1 = End + 1 \/ \E k \in Nat : v.hi + 1 = Start + k * (Chunk + 1)
        <3>1. v.hi = IF v.lo + Chunk <= End THEN v.lo + Chunk ELSE End
            BY <1>1, <1>2, MinOf DEF OnWalk
        <3>2. CASE v.hi # End
            <4>1. PICK k \in Nat : v.lo = Start + k * (Chunk + 1)
                BY <1>1, <1>2, <3>1, <3>2 DEF OnWalk
            <4>2. k + 1 \in Nat /\ (k + 1) * (Chunk + 1) = k * (Chunk + 1) + (Chunk + 1)
                BY <1>1
            <4>3. k * (Chunk + 1) \in Nat
                BY <1>1
            <4>4. v.hi + 1 = Start + (k + 1) * (Chunk + 1)
                BY <1>1, <3>1, <3>2, <4>1, <4>2, <4>3
            <4> QED BY <4>2, <4>4
        <3> QED BY <3>2
    <2> QED BY <1>2, <2>2, <2>3 DEF OnWalk
<1>3. CASE w # "chunks"
    BY <1>3, BrokenWindow DEF AfterError, Walks
<1> QED BY <1>2, <1>3

\* A page and the window behind it bring what the window before was to bring.
LEMMA WalkOn ==
    ASSUME NEW w \in Walks, NEW v, OnWalk(w, v), Goes(w, v), NEW H, H \subseteq Settlements
    PROVE  LET page == Answer(w, v, H)
               next == After(w, v, page)
           IN  /\ OnWalk(w, next)
               /\ \A t \in H : Ahead(w, v, t) => t \in ToSet(page) \/ Ahead(w, next, t)
<1> DEFINE page == Answer(w, v, H)
           next == After(w, v, page)
<1>1. /\ Start \in Nat \ {0} /\ End \in Nat /\ Start < End /\ Chunk \in Nat \ {0}
      /\ PageSize \in Nat
      /\ v.lo \in Start..(End + 1) /\ v.hi \in (Start - 1)..End /\ v \in Windows
    BY PagingAssumption DEF OnWalk, Windows
<1>2. \A t \in H : t \in Start..End /\ t + 1 \notin H
    BY BackfillAssumption
<1>3. /\ page \in Seq(H) /\ ToSet(page) \subseteq Asked(v, H)
      /\ w = "chunks" \/ Len(page) < PageSize => ToSet(page) = Asked(v, H)
      /\ w # "chunks" /\ Len(page) >= PageSize =>
            /\ page # <<>> /\ Last(page) \in Asked(v, H)
            /\ \E t \in Asked(v, H) : Precedes(w, t, Last(page))
            /\ \A t \in Asked(v, H) : t \in ToSet(page) \/ Precedes(w, Last(page), t)
    BY <1>1, PageType
<1> HIDE DEF page
<1>4. CASE w = "chunks"
    <2>1. next = AfterError(w, v) /\ next = ChunkFrom(v.hi + 1)
        BY <1>4 DEF After, AfterError
    <2>2. OnWalk(w, next)
        BY <2>1, WalkAfterError
    <2>3. v.hi + 1 \in Start..(End + 1)
        BY <1>1
    <2>4. next.lo = v.hi + 1
        BY <2>1, <2>3, ChunkWindow
    <2>5. ASSUME NEW t \in H, Ahead(w, v, t), t \notin ToSet(page)
          PROVE  Ahead(w, next, t)
        <3>1. v.lo <= t /\ ~(t <= v.hi) /\ t \in Start..End
            BY <1>2, <1>3, <1>4, <2>5 DEF Ahead, Asked
        <3>2. v.hi + 1 <= t /\ v.hi + 1 # End + 1
            BY <1>1, <3>1
        <3>3. PICK k \in Nat : v.hi + 1 = Start + k * (Chunk + 1)
            BY <1>4, <2>2, <2>4, <3>2 DEF OnWalk
        <3>4. v.hi + 1 # End
            BY <2>3, <3>3, ChunkStart
        <3>5. v.hi + 1 < End
            BY <1>1, <3>1, <3>2, <3>4
        <3> QED BY <1>4, <2>4, <3>2, <3>5 DEF Ahead, Goes
    <2> HIDE DEF next
    <2> QED BY <2>2, <2>5 DEF page, next
<1>5. CASE w # "chunks" /\ Ending(w, v, page)
    <2>1. next = Broken
        BY <1>5 DEF After
    <2>2. OnWalk(w, next)
        BY <1>5, <2>1, BrokenWindow DEF Walks
    <2>3. ASSUME NEW t \in H, Ahead(w, v, t)
          PROVE  t \in ToSet(page)
        <3>1. t \in Asked(v, H)
            BY <1>1, <1>2, <1>5, <2>3 DEF Ahead, Asked, OnWalk, Walks
        <3>2. CASE Len(page) < PageSize
            BY <1>3, <3>1, <3>2
        <3>3. CASE ~(Len(page) < PageSize)
            <4>1. Len(page) \in Nat
                BY <1>3
            <4>2. Len(page) >= PageSize
                BY <1>1, <3>3, <4>1
            <4>3. PICK u \in Asked(v, H) : Precedes(w, u, Last(page))
                BY <1>3, <1>5, <4>2
            <4>4. /\ Last(page) \in Start..End /\ u \in Start..End /\ v.lo <= u
                  /\ Last(page) \in Asked(v, H)
                BY <1>2, <1>3, <1>5, <4>2 DEF Asked
            <4>5. t \in ToSet(page) \/ Precedes(w, Last(page), t)
                BY <1>3, <1>5, <3>1, <4>2
            <4>6. CASE w = "backward"
                <5>1. Last(page) <= Start
                    BY <1>5, <3>3, <4>6 DEF Ending
                <5> QED BY <1>1, <1>2, <4>4, <4>5, <4>6, <5>1 DEF Precedes
            <4>7. CASE w # "backward"
                <5>1. Last(page) <= v.lo
                    BY <1>5, <3>3, <4>7 DEF Ending
                <5>2. u < Last(page)
                    BY <4>3, <4>7 DEF Precedes
                <5> QED BY <1>1, <4>4, <5>1, <5>2
            <4> QED BY <4>6, <4>7
        <3> QED BY <3>2, <3>3
    <2> HIDE DEF next
    <2> QED BY <2>2, <2>3 DEF page, next
<1>6. CASE w # "chunks" /\ ~Ending(w, v, page)
    <2>1. next = Beyond(w, v, page)
        BY <1>6 DEF After
    <2>2. Len(page) \in Nat /\ Len(page) >= PageSize
        <3>1. Len(page) \in Nat /\ ~(Len(page) < PageSize)
            BY <1>3, <1>6 DEF Ending
        <3> QED BY <1>1, <3>1
    <2> DEFINE z == Last(page)
    <2>3. /\ z \in H /\ z \in Start..End /\ z + 1 \notin H
          /\ \A t \in Asked(v, H) : t \in ToSet(page) \/ Precedes(w, z, t)
        BY <1>2, <1>3, <1>6, <2>2 DEF Asked
    <2> HIDE DEF z
    <2>4. CASE w = "backward"
        <3>1. next = [v EXCEPT !.hi = z - 1]
            BY <2>1, <2>4 DEF Beyond, z
        <3>2. next = [lo |-> v.lo, hi |-> z - 1]
            BY <1>1, <3>1 DEF Windows
        <3>3. v.lo = Start /\ z - 1 \in (Start - 1)..End
            BY <1>1, <2>3, <2>4 DEF OnWalk
        <3>4. OnWalk(w, next)
            BY <1>1, <2>4, <3>2, <3>3 DEF OnWalk, Windows
        <3>5. ASSUME NEW t \in H, Ahead(w, v, t), t \notin ToSet(page)
              PROVE  Ahead(w, next, t)
            <4>1. t <= v.hi /\ t \in Start..End
                BY <1>2, <2>4, <3>5 DEF Ahead
            <4>2. t \in Asked(v, H)
                BY <3>3, <4>1 DEF Asked
            <4>3. t < z
                BY <2>3, <2>4, <3>5, <4>1, <4>2 DEF Precedes
            <4>4. t + 1 \notin H
                BY <1>2
            <4>5. t + 1 # z
                BY <2>3, <4>4
            <4>6. t <= z - 1 /\ z - 1 > Start
                BY <1>1, <2>3, <4>1, <4>3, <4>5
            <4> QED BY <2>4, <3>2, <4>6 DEF Ahead, Goes
        <3> HIDE DEF next
        <3> QED BY <3>4, <3>5 DEF page, next
    <2>5. CASE w # "backward"
        <3>1. next = [v EXCEPT !.lo = z + 1]
            BY <2>1, <2>5 DEF Beyond, z
        <3>2. next = [lo |-> z + 1, hi |-> v.hi]
            BY <1>1, <3>1 DEF Windows
        <3>3. v.hi = End /\ z + 1 \in Start..(End + 1) /\ w = "forward"
            BY <1>1, <1>6, <2>3, <2>5 DEF OnWalk, Walks
        <3>4. OnWalk(w, next)
            BY <1>1, <2>5, <3>2, <3>3 DEF OnWalk, Windows
        <3>5. ASSUME NEW t \in H, Ahead(w, v, t), t \notin ToSet(page)
              PROVE  Ahead(w, next, t)
            <4>1. v.lo <= t /\ t \in Start..End
                BY <1>2, <2>5, <3>5 DEF Ahead
            <4>2. t \in Asked(v, H)
                BY <3>3, <4>1 DEF Asked
            <4>3. z < t
                BY <2>3, <2>5, <3>5, <4>2 DEF Precedes
            <4>4. t # z + 1
                BY <2>3
            <4>5. z + 1 <= t /\ z + 1 < End
                BY <1>1, <2>3, <4>1, <4>3, <4>4
            <4> QED BY <2>5, <3>2, <4>5 DEF Ahead, Goes
        <3> HIDE DEF next
        <3> QED BY <3>4, <3>5 DEF page, next
    <2> QED BY <2>4, <2>5
<1> QED BY <1>4, <1>5, <1>6

-----------------------------------------------------------------------------
(* The jobs.                                                                *)

Listing == ToSet(Listed)

JobType == [exchange : Exchanges, stage : Calling \cup {"load", "fetch"} \cup Over,
            left : Seq(Listing), symbol : Listing \cup {NoSymbol}, window : Windows,
            page : Seq(Settlements), batch : Seq(Records), clean : BOOLEAN]

\* Whatever a job is at.
Sound(w, r) ==
    /\ r \in JobType /\ Len(r.batch) <= BatchSize
    /\ r.symbol # NoSymbol => OnWalk(w, r.window)
    /\ r.page # <<>> => r.symbol # NoSymbol

\* What its stage says: a page is used up before the next is asked for, and
\* nothing is left when the guard is written.
Staged(w, r) ==
    /\ r.stage = "load" => r.page = <<>>
    /\ r.stage \in {"guard", "exchange", "newExchange"} => r.page = <<>>
    /\ r.stage = "fetch" => r.symbol # NoSymbol /\ r.page = <<>> /\ Goes(w, r.window)
    /\ r.stage \in {"token", "newToken"} => r.symbol # NoSymbol /\ r.page # <<>>
    /\ r.stage \in {"mark", "done"} => r.symbol = NoSymbol /\ r.left = <<>> /\ r.batch = <<>>

Working == {"fetch", "token", "newToken", "flush", "mark", "done"}

\* The job has the record of s at time t in hand, or still to fetch.
Holds(w, r, s, t) ==
    \/ <<s, t>> \in ToSet(r.batch)
    \/ s = r.symbol /\ (t \in ToSet(r.page) \/ Ahead(w, r.window, t))
    \/ s \in ToSet(r.left)

Recorded(rec, r, s, t) == <<r.exchange, Upper[s], t>> \in rec

\* A working job that met no failure has lost no record of a symbol's history.
Unlost(rec, w, r) ==
    r.clean /\ r.stage \in Working =>
        \A s \in Listing : \A t \in History(s) : Recorded(rec, r, s, t) \/ Holds(w, r, s, t)

TablesType ==
    /\ dbExchanges \subseteq Exchanges /\ dbTokens \subseteq Symbols
    /\ recorded \subseteq Exchanges \X Symbols \X Settlements
    /\ guard \subseteq Exchanges /\ walk \in Walks
    /\ caches \in [Jobs -> [ex : SUBSET Exchanges, tok : SUBSET Spellings]]

JobsInv ==
    /\ TablesType
    /\ job \in [Jobs -> JobType]
    /\ \A j \in Jobs : Sound(walk, job[j]) /\ Staged(walk, job[j]) /\ Unlost(recorded, walk, job[j])

LEMMA ListingType == Listing \subseteq Spellings /\ NoSymbol \notin Listing
<1>1. Listed \in Seq(Spellings) /\ NoSymbol \notin Spellings
    BY BackfillAssumption
<1> QED BY <1>1 DEF Listing, ToSet

LEMMA HistoryType ==
    ASSUME NEW s
    PROVE  History(s) \subseteq Settlements /\ History(s) \subseteq Start..End
BY BackfillAssumption DEF History

\* The step from r to a keeps the job in order and loses no record.
Carries(w, r, a) ==
    /\ Sound(w, a) /\ Staged(w, a)
    /\ a.exchange = r.exchange /\ a.clean = r.clean
    /\ \A s \in Listing : \A t \in History(s) : Holds(w, r, s, t) => Holds(w, a, s, t)

\* The generator is asked for its next record.
LEMMA AdvancedOn ==
    ASSUME walk \in Walks, NEW r, Sound(walk, r), r.page = <<>>
    PROVE  Carries(walk, r, Advanced(r))
<1> DEFINE more == r.symbol # NoSymbol /\ Goes(walk, r.window)
           a == Advanced(r)
<1>1. r \in JobType /\ Len(r.batch) <= BatchSize /\ (r.symbol # NoSymbol => OnWalk(walk, r.window))
    BY DEF Sound
<1>2. CASE more
    <2>1. a = [r EXCEPT !.stage = "fetch"]
        BY <1>2 DEF Advanced
    <2>2. /\ a \in JobType /\ a.stage = "fetch"
          /\ a.exchange = r.exchange /\ a.clean = r.clean /\ a.batch = r.batch
          /\ a.symbol = r.symbol /\ a.window = r.window /\ a.page = r.page /\ a.left = r.left
        BY <1>1, <2>1 DEF JobType, Calling
    <2> HIDE DEF a
    <2>3. Sound(walk, a)
        BY <1>1, <2>2 DEF Sound
    <2>4. Staged(walk, a)
        BY <1>2, <2>2 DEF Staged
    <2>5. \A s \in Listing : \A t \in History(s) : Holds(walk, r, s, t) => Holds(walk, a, s, t)
        BY <2>2 DEF Holds
    <2> QED BY <2>2, <2>3, <2>4, <2>5 DEF Carries, a
<1>3. CASE ~more /\ r.left # <<>>
    <2>1. /\ Head(r.left) \in Listing /\ Tail(r.left) \in Seq(Listing)
          /\ ToSet(r.left) = {Head(r.left)} \cup ToSet(Tail(r.left))
        BY <1>1, <1>3, HeadAndTail DEF JobType
    <2>2. a = [r EXCEPT !.stage = "fetch", !.symbol = Head(r.left), !.left = Tail(r.left),
                        !.window = First(walk)]
        BY <1>3 DEF Advanced
    <2>3. OnWalk(walk, First(walk)) /\ First(walk) \in Windows
          /\ \A t \in Start..End : Ahead(walk, First(walk), t)
        BY WalkBegins DEF OnWalk
    <2>4. /\ a \in JobType /\ a.stage = "fetch"
          /\ a.exchange = r.exchange /\ a.clean = r.clean /\ a.batch = r.batch
          /\ a.symbol = Head(r.left) /\ a.window = First(walk) /\ a.page = r.page
          /\ a.left = Tail(r.left)
        BY <1>1, <2>1, <2>2, <2>3 DEF JobType, Calling
    <2> HIDE DEF a
    <2>5. Goes(walk, First(walk))
        <3>1. Start \in Start..End
            BY PagingAssumption
        <3> QED BY <2>3, <3>1 DEF Ahead
    <2>6. Head(r.left) # NoSymbol
        BY <2>1, ListingType
    <2>7. Sound(walk, a)
        BY <1>1, <2>3, <2>4, <2>6 DEF Sound
    <2>8. Staged(walk, a)
        BY <2>4, <2>5, <2>6 DEF Staged
    <2>9. ASSUME NEW s \in Listing, NEW t \in History(s), Holds(walk, r, s, t)
          PROVE  Holds(walk, a, s, t)
        <3>1. t \in Start..End /\ s # NoSymbol
            BY HistoryType, ListingType
        <3>2. ~(t \in ToSet(r.page))
            BY DEF ToSet
        <3>3. ~(s = r.symbol /\ Ahead(walk, r.window, t))
            BY <1>3, <3>1 DEF Ahead
        <3>4. <<s, t>> \in ToSet(r.batch) \/ s \in ToSet(r.left)
            BY <2>9, <3>2, <3>3 DEF Holds
        <3> QED BY <2>1, <2>3, <2>4, <3>1, <3>4 DEF Holds
    <2> QED BY <2>4, <2>7, <2>8, <2>9 DEF Carries, a
<1>4. CASE ~more /\ r.left = <<>>
    <2>1. a = [r EXCEPT !.stage = IF r.batch = <<>> THEN "mark" ELSE "flush", !.symbol = NoSymbol]
        BY <1>4 DEF Advanced
    <2>2. /\ a \in JobType /\ a.stage = IF r.batch = <<>> THEN "mark" ELSE "flush"
          /\ a.exchange = r.exchange /\ a.clean = r.clean /\ a.batch = r.batch
          /\ a.symbol = NoSymbol /\ a.window = r.window /\ a.page = r.page /\ a.left = r.left
        BY <1>1, <2>1 DEF JobType, Calling
    <2> HIDE DEF a
    <2>3. Sound(walk, a)
        BY <1>1, <2>2 DEF Sound
    <2>4. Staged(walk, a)
        BY <1>4, <2>2 DEF Staged
    <2>5. ASSUME NEW s \in Listing, NEW t \in History(s), Holds(walk, r, s, t)
          PROVE  Holds(walk, a, s, t)
        <3>1. s # NoSymbol
            BY ListingType
        <3>2. ~(t \in ToSet(r.page)) /\ ~(s \in ToSet(r.left))
            BY <1>4 DEF ToSet
        <3>3. ~(s = r.symbol /\ Ahead(walk, r.window, t))
            BY <1>4, <3>1 DEF Ahead
        <3> QED BY <2>2, <2>5, <3>2, <3>3 DEF Holds
    <2> QED BY <2>2, <2>3, <2>4, <2>5 DEF Carries, a
<1> QED BY <1>2, <1>3, <1>4

LEMMA CarriesOn ==
    ASSUME NEW w, NEW r, NEW b, NEW a,
           b.exchange = r.exchange, b.clean = r.clean,
           \A s \in Listing : \A t \in History(s) : Holds(w, r, s, t) => Holds(w, b, s, t),
           Carries(w, b, a)
    PROVE  Carries(w, r, a)
BY DEF Carries

LEMMA Concatenated ==
    ASSUME NEW S, NEW a \in Seq(S), NEW b \in Seq(S)
    PROVE  /\ a \o b \in Seq(S) /\ Len(a \o b) = Len(a) + Len(b)
           /\ ToSet(a \o b) = ToSet(a) \cup ToSet(b)
<1>1. Len(a) \in Nat /\ Len(b) \in Nat
    OBVIOUS
<1>2. a \o b \in Seq(S) /\ Len(a \o b) = Len(a) + Len(b)
    OBVIOUS
<1>3. \A i \in 1..Len(a) : (a \o b)[i] = a[i]
    OBVIOUS
<1>4. \A i \in 1..Len(b) : (a \o b)[Len(a) + i] = b[i]
    OBVIOUS
<1>5. DOMAIN a = 1..Len(a) /\ DOMAIN b = 1..Len(b) /\ DOMAIN (a \o b) = 1..(Len(a) + Len(b))
    BY <1>1, <1>2
<1>6. ASSUME NEW i \in 1..Len(a) PROVE a[i] \in ToSet(a \o b)
    <2>1. i \in 1..(Len(a) + Len(b))
        BY <1>1
    <2> QED BY <1>3, <1>5, <2>1 DEF ToSet
<1>7. ASSUME NEW i \in 1..Len(b) PROVE b[i] \in ToSet(a \o b)
    <2>1. Len(a) + i \in 1..(Len(a) + Len(b))
        BY <1>1
    <2> QED BY <1>4, <1>5, <2>1 DEF ToSet
<1>8. ASSUME NEW i \in 1..(Len(a) + Len(b)) PROVE (a \o b)[i] \in ToSet(a) \cup ToSet(b)
    <2>1. CASE i \in 1..Len(a)
        BY <1>3, <1>5, <2>1 DEF ToSet
    <2>2. CASE i \notin 1..Len(a)
        <3>1. i - Len(a) \in 1..Len(b) /\ Len(a) + (i - Len(a)) = i
            BY <1>1, <2>2
        <3>2. (a \o b)[i] = b[i - Len(a)]
            BY <1>4, <3>1
        <3> QED BY <1>5, <3>1, <3>2 DEF ToSet
    <2> QED BY <2>1, <2>2
<1> QED BY <1>2, <1>5, <1>6, <1>7, <1>8 DEF ToSet

\* Records are taken from the page until it is used up or the batch is full.
LEMMA TakenOn ==
    ASSUME walk \in Walks, NEW r, Sound(walk, r), r.symbol # NoSymbol
    PROVE  Carries(walk, r, Taken(r))
<1> DEFINE n == Len(r.page)
           b == Len(r.batch)
           count == Min({BatchSize - b, n})
           page == SubSeq(r.page, count + 1, n)
           new == [i \in 1..count |-> <<r.symbol, r.page[i]>>]
           filled == [r EXCEPT !.page = page, !.batch = @ \o new]
<1>1. /\ r \in JobType /\ OnWalk(walk, r.window)
      /\ r.batch \in Seq(Records) /\ r.page \in Seq(Settlements) /\ r.symbol \in Listing
    <2>1. r \in JobType /\ OnWalk(walk, r.window)
        BY DEF Sound
    <2> QED BY <2>1 DEF JobType
<1>2. b \in Nat /\ n \in Nat /\ BatchSize \in Nat /\ b <= BatchSize
    <2>1. Len(r.batch) \in Nat /\ Len(r.page) \in Nat
        BY <1>1
    <2> QED BY <2>1, BackfillAssumption DEF Sound
<1>3. count \in 0..n /\ b + count <= BatchSize /\ (count < n => b + count = BatchSize)
    <2> HIDE DEF b, n
    <2>1. BatchSize - b \in Nat
        BY <1>2
    <2>2. count = IF BatchSize - b <= n THEN BatchSize - b ELSE n
        BY <1>2, <2>1, MinOf
    <2> HIDE DEF count
    <2> QED BY <1>2, <2>1, <2>2
<1> HIDE DEF count
<1>4. /\ page \in Seq(Settlements) /\ Len(page) = n - count
      /\ \A i \in 1..(n - count) : page[i] = r.page[count + i]
    BY <1>1, <1>2, <1>3
<1>5. /\ new \in Seq(Records) /\ Len(new) = count
      /\ \A i \in 1..count : new[i] = <<r.symbol, r.page[i]>>
    <2>1. ASSUME NEW i \in 1..count PROVE <<r.symbol, r.page[i]>> \in Records
        <3>1. i \in 1..Len(r.page)
            BY <1>2, <1>3
        <3>2. r.page[i] \in Settlements
            BY <1>1, <3>1
        <3> QED BY <1>1, <3>2 DEF Records, Listing
    <2>2. count \in Nat
        BY <1>2, <1>3
    <2> QED BY <2>1, <2>2
<1> HIDE DEF page, new
<1>6. /\ r.batch \o new \in Seq(Records) /\ Len(r.batch \o new) = b + count
      /\ ToSet(r.batch \o new) = ToSet(r.batch) \cup ToSet(new)
    <2>1. r.batch \in Seq(Records) /\ new \in Seq(Records) /\ Len(new) = count /\ Len(r.batch) = b
        BY <1>1, <1>5
    <2> HIDE DEF b
    <2>2. PICK p \in Seq(Records), q \in Seq(Records) : p = r.batch /\ q = new
        BY <2>1
    <2>3. /\ p \o q \in Seq(Records) /\ Len(p \o q) = Len(p) + Len(q)
          /\ ToSet(p \o q) = ToSet(p) \cup ToSet(q)
        BY Concatenated
    <2> QED BY <2>1, <2>2, <2>3
<1>7. /\ filled \in JobType /\ filled.page = page /\ filled.batch = r.batch \o new
      /\ filled.exchange = r.exchange /\ filled.clean = r.clean /\ filled.symbol = r.symbol
      /\ filled.window = r.window /\ filled.left = r.left
    BY <1>1, <1>4, <1>6 DEF JobType
<1> HIDE DEF n, b
<1>8. Taken(r) = IF Len(filled.batch) >= BatchSize THEN [filled EXCEPT !.stage = "flush"]
                 ELSE Advanced(filled)
    BY DEF Taken, filled, page, new, count, n, b
<1> HIDE DEF filled
<1>9. Sound(walk, filled)
    BY <1>1, <1>2, <1>3, <1>6, <1>7 DEF Sound
<1>10. ASSUME NEW s \in Listing, NEW t \in History(s), Holds(walk, r, s, t)
       PROVE  Holds(walk, filled, s, t)
    <2>1. CASE <<s, t>> \in ToSet(r.batch)
        BY <1>6, <1>7, <2>1 DEF Holds
    <2>2. CASE s = r.symbol /\ t \in ToSet(r.page)
        <3>1. PICK i \in 1..n : r.page[i] = t
            BY <1>1, <2>2 DEF ToSet, n
        <3>2. CASE i <= count
            <4>1. i \in 1..count
                BY <1>2, <1>3, <3>2
            <4>2. new[i] = <<s, t>>
                BY <1>5, <2>2, <3>1, <4>1
            <4>3. DOMAIN new = 1..count
                BY <1>5
            <4>4. <<s, t>> \in ToSet(new)
                BY <4>1, <4>2, <4>3 DEF ToSet
            <4> QED BY <1>6, <1>7, <4>4 DEF Holds
        <3>3. CASE ~(i <= count)
            <4>1. i - count \in 1..(n - count) /\ count + (i - count) = i
                BY <1>2, <1>3, <3>3
            <4>2. page[i - count] = t
                BY <1>4, <3>1, <4>1
            <4>3. t \in ToSet(page)
                BY <1>4, <4>1, <4>2 DEF ToSet
            <4> QED BY <1>7, <2>2, <4>3 DEF Holds
        <3> QED BY <3>2, <3>3
    <2>3. CASE (s = r.symbol /\ Ahead(walk, r.window, t)) \/ s \in ToSet(r.left)
        BY <1>7, <2>3 DEF Holds
    <2> QED BY <1>10, <2>1, <2>2, <2>3 DEF Holds
<1>11. CASE Len(filled.batch) >= BatchSize
    <2> DEFINE a == [filled EXCEPT !.stage = "flush"]
    <2>1. /\ a \in JobType /\ a.stage = "flush" /\ a.page = filled.page /\ a.batch = filled.batch
          /\ a.exchange = filled.exchange /\ a.clean = filled.clean /\ a.symbol = filled.symbol
          /\ a.window = filled.window /\ a.left = filled.left
        BY <1>7 DEF JobType, Calling
    <2> HIDE DEF a
    <2>2. Sound(walk, a) /\ Staged(walk, a)
        BY <1>9, <2>1 DEF Sound, Staged
    <2>3. \A s \in Listing : \A t \in History(s) : Holds(walk, filled, s, t) => Holds(walk, a, s, t)
        BY <2>1 DEF Holds
    <2>4. Carries(walk, filled, a)
        BY <2>1, <2>2, <2>3 DEF Carries
    <2>5. Taken(r) = a
        BY <1>8, <1>11 DEF a
    <2> QED BY <1>7, <1>10, <2>4, <2>5, CarriesOn
<1>12. CASE ~(Len(filled.batch) >= BatchSize)
    <2>1. count = n
        BY <1>2, <1>3, <1>6, <1>7, <1>12
    <2>2. filled.page = <<>>
        <3>1. page \in Seq(Settlements) /\ Len(page) = 0
            BY <1>2, <1>4, <2>1
        <3> QED BY <1>7, <3>1
    <2>3. Carries(walk, filled, Advanced(filled))
        BY <1>9, <2>2, AdvancedOn
    <2>4. Taken(r) = Advanced(filled)
        BY <1>8, <1>12
    <2> QED BY <1>7, <1>10, <2>3, <2>4, CarriesOn
<1> QED BY <1>11, <1>12

\* On to the next await.
LEMMA GoonOn ==
    ASSUME walk \in Walks, NEW r, Sound(walk, r), NEW known
    PROVE  Carries(walk, r, Goon(r, known))
<1>1. CASE r.page = <<>>
    BY <1>1, AdvancedOn DEF Goon
<1>2. CASE r.page # <<>> /\ r.symbol \in known
    BY <1>2, TakenOn DEF Goon, Sound
<1>3. CASE r.page # <<>> /\ r.symbol \notin known
    <2> DEFINE a == [r EXCEPT !.stage = "token"]
    <2>1. Goon(r, known) = a /\ r.symbol # NoSymbol /\ r \in JobType
        BY <1>3 DEF Goon, Sound
    <2>2. /\ a \in JobType /\ a.stage = "token" /\ a.page = r.page /\ a.batch = r.batch
          /\ a.exchange = r.exchange /\ a.clean = r.clean /\ a.symbol = r.symbol
          /\ a.window = r.window /\ a.left = r.left
        BY <2>1 DEF JobType, Calling
    <2> HIDE DEF a
    <2>3. Sound(walk, a) /\ Staged(walk, a)
        BY <1>3, <2>1, <2>2 DEF Sound, Staged
    <2>4. \A s \in Listing : \A t \in History(s) : Holds(walk, r, s, t) => Holds(walk, a, s, t)
        BY <2>2 DEF Holds
    <2> QED BY <2>1, <2>2, <2>3, <2>4 DEF Carries
<1> QED BY <1>1, <1>2, <1>3

\* A job goes to another stage.
LEMMA Restaged ==
    ASSUME NEW w, NEW r, Sound(w, r), NEW stage \in Calling \cup {"load", "fetch"} \cup Over
    PROVE  LET a == [r EXCEPT !.stage = stage]
           IN  /\ Sound(w, a) /\ a.stage = stage
               /\ a.exchange = r.exchange /\ a.clean = r.clean /\ a.symbol = r.symbol
               /\ a.page = r.page /\ a.batch = r.batch /\ a.left = r.left /\ a.window = r.window
<1> DEFINE a == [r EXCEPT !.stage = stage]
<1>1. /\ a \in JobType /\ a.stage = stage
      /\ a.exchange = r.exchange /\ a.clean = r.clean /\ a.symbol = r.symbol
      /\ a.page = r.page /\ a.batch = r.batch /\ a.left = r.left /\ a.window = r.window
    BY DEF Sound, JobType
<1> HIDE DEF a
<1>2. Sound(w, a)
    BY <1>1 DEF Sound
<1> QED BY <1>1, <1>2 DEF a

\* One job becomes a; the records of the others stay where they are.
LEMMA JobMoves ==
    ASSUME JobsInv, TablesType', NEW j \in Jobs, NEW a, job' = [job EXCEPT ![j] = a],
           Sound(walk, a), Staged(walk, a), Unlost(recorded', walk, a),
           UNCHANGED walk, recorded \subseteq recorded'
    PROVE  JobsInv'
<1>1. a \in JobType
    BY DEF Sound
<1>2. job' \in [Jobs -> JobType]
    BY <1>1 DEF JobsInv
<1>3. ASSUME NEW i \in Jobs
      PROVE  Sound(walk, job'[i]) /\ Staged(walk, job'[i]) /\ Unlost(recorded', walk, job'[i])
    <2>1. CASE i = j
        <3>1. job'[i] = a
            BY <2>1 DEF JobsInv
        <3> QED BY <3>1
    <2>2. CASE i # j
        <3>1. job'[i] = job[i]
            BY <2>2 DEF JobsInv
        <3>2. Sound(walk, job[i]) /\ Staged(walk, job[i]) /\ Unlost(recorded, walk, job[i])
            BY DEF JobsInv
        <3>3. Unlost(recorded', walk, job[i])
            BY <3>2 DEF Unlost, Recorded
        <3> QED BY <3>1, <3>2, <3>3
    <2> QED BY <2>1, <2>2
<1> QED BY <1>2, <1>3 DEF JobsInv

LEMMA JobFacts ==
    ASSUME JobsInv, NEW j \in Jobs
    PROVE  /\ job[j] \in JobType /\ walk \in Walks
           /\ Sound(walk, job[j]) /\ Staged(walk, job[j]) /\ Unlost(recorded, walk, job[j])
BY DEF JobsInv, TablesType

\* A working job goes on and carries what it held.
LEMMA JobGoesOn ==
    ASSUME JobsInv, TablesType', NEW j \in Jobs, NEW r, NEW a, job' = [job EXCEPT ![j] = a],
           UNCHANGED walk, recorded \subseteq recorded',
           Carries(walk, r, a), r.exchange = job[j].exchange,
           r.clean => \A s \in Listing : \A t \in History(s) :
                        Recorded(recorded', r, s, t) \/ Holds(walk, r, s, t)
    PROVE  JobsInv'
<1>1. Sound(walk, a) /\ Staged(walk, a) /\ a.exchange = r.exchange /\ a.clean = r.clean
    BY DEF Carries
<1>2. Unlost(recorded', walk, a)
    BY <1>1 DEF Carries, Unlost, Recorded
<1> QED BY <1>1, <1>2, JobMoves

LEMMA CachedType ==
    ASSUME TablesType, NEW j \in Jobs, NEW ex, NEW tok, ex \subseteq Exchanges, tok \subseteq Spellings,
           caches' = Cached(j, ex, tok)
    PROVE  caches' \in [Jobs -> [ex : SUBSET Exchanges, tok : SUBSET Spellings]]
<1>1. \A i \in Jobs : caches[i].ex \subseteq Exchanges /\ caches[i].tok \subseteq Spellings
                      /\ caches[i] \in [ex : SUBSET Exchanges, tok : SUBSET Spellings]
    BY DEF TablesType
<1> QED BY <1>1 DEF Cached

\* The steps before the first request, and the last one.
LEMMA EarlySteps ==
    ASSUME JobsInv, NEW j \in Jobs,
           LookAtGuard(j) \/ FindExchange(j) \/ NewExchange(j) \/ Mark(j) \/ Raise(j)
    PROVE  JobsInv'
<1>1. /\ job[j] \in JobType /\ walk \in Walks
      /\ Sound(walk, job[j]) /\ Staged(walk, job[j]) /\ Unlost(recorded, walk, job[j])
    BY JobFacts
<1>2. ExchangeOf(j) \in Exchanges
    BY <1>1 DEF JobType, ExchangeOf
<1>3. UNCHANGED <<recorded, walk>>
    BY DEF LookAtGuard, FindExchange, NewExchange, Mark, Raise
<1>4. TablesType'
    <2>1. caches' \in [Jobs -> [ex : SUBSET Exchanges, tok : SUBSET Spellings]]
        <3>1. CASE UNCHANGED caches
            BY <3>1 DEF JobsInv, TablesType
        <3>2. CASE CacheExchange(j)
            <4>1. {ExchangeOf(j)} \subseteq Exchanges /\ {} \subseteq Spellings
                BY <1>2
            <4>2. TablesType /\ caches' = Cached(j, {ExchangeOf(j)}, {})
                BY <3>2 DEF CacheExchange, JobsInv
            <4>3. PICK ex, tok : ex = {ExchangeOf(j)} /\ tok = {}
                OBVIOUS
            <4>4. ex \subseteq Exchanges /\ tok \subseteq Spellings /\ caches' = Cached(j, ex, tok)
                BY <4>1, <4>2, <4>3
            <4> QED BY <4>2, <4>4, CachedType
        <3> QED BY <3>1, <3>2 DEF LookAtGuard, FindExchange, NewExchange, Mark, Raise
    <2>2. dbExchanges' \subseteq Exchanges /\ UNCHANGED dbTokens
        BY <1>2 DEF LookAtGuard, FindExchange, NewExchange, Mark, Raise, dbVars, JobsInv, TablesType
    <2>3. guard' \subseteq Exchanges
        BY <1>2 DEF LookAtGuard, FindExchange, NewExchange, Mark, Raise, JobsInv, TablesType
    <2> QED BY <1>3, <2>1, <2>2, <2>3 DEF JobsInv, TablesType
<1>5. CASE LookAtGuard(j) \/ FindExchange(j) \/ NewExchange(j)
    <2>1. PICK stage \in {"skipped", "exchange", "newExchange", "load"} :
            job' = [job EXCEPT ![j] = [job[j] EXCEPT !.stage = stage]]
        BY <1>5 DEF LookAtGuard, FindExchange, NewExchange, To, Become
    <2>2. job[j].stage \in {"guard", "exchange", "newExchange"}
        BY <1>5 DEF LookAtGuard, FindExchange, NewExchange, In
    <2> DEFINE a == [job[j] EXCEPT !.stage = stage]
    <2>3. Sound(walk, a) /\ a.stage = stage /\ a.page = job[j].page
        <3>1. stage \in Calling \cup {"load", "fetch"} \cup Over
            BY DEF Calling, Over
        <3> QED BY <1>1, <3>1, Restaged
    <2>4. job' = [job EXCEPT ![j] = a]
        BY <2>1
    <2> HIDE DEF a
    <2>5. Staged(walk, a)
        BY <1>1, <2>2, <2>3 DEF Staged
    <2>6. Unlost(recorded', walk, a)
        BY <2>3 DEF Unlost, Working
    <2> QED BY <1>3, <1>4, <2>3, <2>4, <2>5, <2>6, JobMoves
<1>6. CASE Mark(j)
    <2> DEFINE a == [job[j] EXCEPT !.stage = "done"]
    <2>1. job' = [job EXCEPT ![j] = a] /\ job[j].stage = "mark"
        BY <1>6 DEF Mark, To, Become, In
    <2>2. /\ Sound(walk, a) /\ a.stage = "done"
          /\ a.exchange = job[j].exchange /\ a.clean = job[j].clean /\ a.symbol = job[j].symbol
          /\ a.page = job[j].page /\ a.batch = job[j].batch /\ a.left = job[j].left
          /\ a.window = job[j].window
        <3>1. "done" \in Calling \cup {"load", "fetch"} \cup Over
            BY DEF Over
        <3> QED BY <1>1, <3>1, Restaged
    <2> HIDE DEF a
    <2>3. Staged(walk, a)
        BY <1>1, <2>1, <2>2 DEF Staged
    <2>4. Unlost(recorded, walk, a)
        BY <1>1, <2>1, <2>2 DEF Unlost, Working, Recorded, Holds
    <2> QED BY <1>3, <1>4, <2>1, <2>2, <2>3, <2>4, JobMoves
<1>7. CASE Raise(j)
    <2> DEFINE r == NewJob(ExchangeOf(j))
               a == [r EXCEPT !.stage = "failed"]
    <2>1. job' = [job EXCEPT ![j] = a]
        BY <1>7 DEF Raise, Become
    <2>2. /\ r.symbol = NoSymbol /\ r.page = <<>> /\ r.batch = <<>>
          /\ r \in JobType
        <3>1. Broken \in Windows
            BY PagingAssumption DEF Broken, Windows
        <3>2. <<>> \in Seq(Listing) /\ <<>> \in Seq(Settlements) /\ <<>> \in Seq(Records)
            OBVIOUS
        <3>3. "guard" \in Calling
            BY DEF Calling
        <3> QED BY <1>2, <3>1, <3>2, <3>3 DEF NewJob, JobType
    <2> HIDE DEF r
    <2>3. Sound(walk, a) /\ a.stage = "failed"
        <3>1. Len(r.batch) = 0 /\ BatchSize \in Nat
            BY <2>2, BackfillAssumption
        <3>2. Sound(walk, r)
            BY <2>2, <3>1 DEF Sound
        <3>3. "failed" \in Calling \cup {"load", "fetch"} \cup Over
            BY DEF Over
        <3> QED BY <3>2, <3>3, Restaged
    <2> HIDE DEF a
    <2>4. Staged(walk, a) /\ Unlost(recorded', walk, a)
        BY <2>3 DEF Staged, Unlost, Working
    <2> QED BY <1>3, <1>4, <2>1, <2>3, <2>4, JobMoves
<1> QED BY <1>5, <1>6, <1>7

\* What a job is given, next to what it has.
LEMMA LoadStep ==
    ASSUME JobsInv, NEW j \in Jobs, Load(j)
    PROVE  JobsInv'
<1>1. /\ job[j] \in JobType /\ walk \in Walks
      /\ Sound(walk, job[j]) /\ Staged(walk, job[j])
    BY JobFacts
<1>2. UNCHANGED <<recorded, walk>> /\ TablesType' /\ job[j].page = <<>>
    BY <1>1 DEF Load, In, Staged, JobsInv, TablesType, dbVars
<1>3. Listed \in Seq(Listing)
    <2>1. Listed \in Seq(Spellings)
        BY BackfillAssumption
    <2>2. Len(Listed) \in Nat /\ Listed \in [1..Len(Listed) -> Listing]
        BY <2>1 DEF Listing, ToSet
    <2> QED BY <2>2
<1>4. ASSUME Become(j, Advanced([job[j] EXCEPT !.left = Listed]))
      PROVE  JobsInv'
    <2> DEFINE r == [job[j] EXCEPT !.left = Listed]
    <2>1. /\ r \in JobType /\ r.page = job[j].page /\ r.batch = job[j].batch
          /\ r.symbol = job[j].symbol /\ r.window = job[j].window /\ r.left = Listed
          /\ r.exchange = job[j].exchange
        BY <1>1, <1>3 DEF JobType
    <2>2. job' = [job EXCEPT ![j] = Advanced(r)]
        BY <1>4 DEF Become
    <2> HIDE DEF r
    <2>3. Sound(walk, r) /\ r.page = <<>>
        BY <1>1, <1>2, <2>1 DEF Sound
    <2>4. Carries(walk, r, Advanced(r))
        BY <1>1, <2>3, AdvancedOn
    <2>5. \A s \in Listing : \A t \in History(s) : Holds(walk, r, s, t)
        BY <2>1 DEF Holds, Listing
    <2> QED BY <1>2, <2>1, <2>2, <2>4, <2>5, JobGoesOn
<1>5. ASSUME Become(j, Advanced([job[j] EXCEPT !.clean = FALSE]))
      PROVE  JobsInv'
    <2> DEFINE r == [job[j] EXCEPT !.clean = FALSE]
    <2>1. /\ r \in JobType /\ r.page = job[j].page /\ r.batch = job[j].batch
          /\ r.symbol = job[j].symbol /\ r.window = job[j].window /\ r.clean = FALSE
          /\ r.exchange = job[j].exchange
        BY <1>1 DEF JobType
    <2>2. job' = [job EXCEPT ![j] = Advanced(r)]
        BY <1>5 DEF Become
    <2> HIDE DEF r
    <2>3. Sound(walk, r) /\ r.page = <<>>
        BY <1>1, <1>2, <2>1 DEF Sound
    <2>4. Carries(walk, r, Advanced(r))
        BY <1>1, <2>3, AdvancedOn
    <2> QED BY <1>2, <2>1, <2>2, <2>4, JobGoesOn
<1> QED BY <1>4, <1>5 DEF Load

\* A page comes, or the request failed.
LEMMA FetchStep ==
    ASSUME JobsInv, NEW j \in Jobs, Fetch(j)
    PROVE  JobsInv'
<1> DEFINE v == job[j].window
           H == History(job[j].symbol)
           page == Answer(walk, v, H)
           next == After(walk, v, page)
<1>1. /\ job[j] \in JobType /\ walk \in Walks /\ job[j].stage = "fetch"
      /\ Sound(walk, job[j]) /\ Staged(walk, job[j]) /\ Unlost(recorded, walk, job[j])
    BY JobFacts DEF Fetch, In
<1>2. UNCHANGED <<recorded, walk>> /\ TablesType'
    BY DEF Fetch, JobsInv, TablesType, dbVars
<1>3. /\ job[j].symbol # NoSymbol /\ job[j].page = <<>> /\ Goes(walk, v)
      /\ OnWalk(walk, v) /\ v \in Windows /\ Len(job[j].batch) <= BatchSize
    BY <1>1 DEF Sound, Staged, OnWalk
<1>4. H \subseteq Settlements
    BY HistoryType
<1> HIDE DEF v, H
<1>5. /\ OnWalk(walk, next) /\ page \in Seq(H)
      /\ \A t \in H : Ahead(walk, v, t) => t \in ToSet(page) \/ Ahead(walk, next, t)
    BY <1>1, <1>3, <1>4, WalkOn, PageType
<1>6. page \in Seq(Settlements) /\ next \in Windows
    BY <1>4, <1>5, SeqOfMore DEF OnWalk
<1>7. OnWalk(walk, AfterError(walk, v)) /\ AfterError(walk, v) \in Windows
    BY <1>1, <1>3, WalkAfterError DEF OnWalk
<1>8. \/ Become(j, Goon([job[j] EXCEPT !.page = page, !.window = next], caches[j].tok))
      \/ Become(j, Advanced([job[j] EXCEPT !.window = AfterError(walk, v), !.clean = FALSE]))
    BY DEF Fetch, v, H
<1> HIDE DEF page, next
<1>9. CASE Become(j, Goon([job[j] EXCEPT !.page = page, !.window = next], caches[j].tok))
    <2> DEFINE r == [job[j] EXCEPT !.page = page, !.window = next]
    <2>1. /\ r \in JobType /\ r.page = page /\ r.batch = job[j].batch
          /\ r.symbol = job[j].symbol /\ r.window = next /\ r.left = job[j].left
          /\ r.exchange = job[j].exchange /\ r.clean = job[j].clean
        BY <1>1, <1>6 DEF JobType
    <2>2. job' = [job EXCEPT ![j] = Goon(r, caches[j].tok)]
        BY <1>9 DEF Become
    <2> HIDE DEF r
    <2>3. Sound(walk, r)
        BY <1>3, <1>5, <2>1 DEF Sound
    <2>4. Carries(walk, r, Goon(r, caches[j].tok))
        BY <1>1, <2>3, GoonOn
    <2>5. ASSUME r.clean, NEW s \in Listing, NEW t \in History(s)
          PROVE  Recorded(recorded, r, s, t) \/ Holds(walk, r, s, t)
        <3>1. Recorded(recorded, job[j], s, t) \/ Holds(walk, job[j], s, t)
            BY <1>1, <2>1, <2>5 DEF Unlost, Working
        <3>2. ASSUME s = job[j].symbol, Ahead(walk, v, t)
              PROVE  t \in ToSet(page) \/ Ahead(walk, next, t)
            BY <1>5, <3>2 DEF H
        <3>3. ~(t \in ToSet(job[j].page))
            BY <1>3 DEF ToSet
        <3> QED BY <2>1, <3>1, <3>2, <3>3 DEF Recorded, Holds, v
    <2> QED BY <1>2, <2>1, <2>2, <2>4, <2>5, JobGoesOn
<1>10. CASE Become(j, Advanced([job[j] EXCEPT !.window = AfterError(walk, v), !.clean = FALSE]))
    <2> DEFINE r == [job[j] EXCEPT !.window = AfterError(walk, v), !.clean = FALSE]
    <2>1. /\ r \in JobType /\ r.page = <<>> /\ r.batch = job[j].batch
          /\ r.window = AfterError(walk, v)
          /\ r.exchange = job[j].exchange /\ r.clean = FALSE
        BY <1>1, <1>3, <1>7 DEF JobType
    <2>2. job' = [job EXCEPT ![j] = Advanced(r)]
        BY <1>10 DEF Become
    <2> HIDE DEF r
    <2>3. Sound(walk, r)
        BY <1>3, <1>7, <2>1 DEF Sound
    <2>4. Carries(walk, r, Advanced(r))
        BY <1>1, <2>1, <2>3, AdvancedOn
    <2> QED BY <1>2, <2>1, <2>2, <2>4, JobGoesOn
<1> QED BY <1>8, <1>9, <1>10

\* A token is found or inserted, and the record at hand taken; or it is dropped.
LEMMA TokenStep ==
    ASSUME JobsInv, NEW j \in Jobs, FindToken(j) \/ NewToken(j) \/ NewTokenFails(j)
    PROVE  JobsInv'
<1>1. /\ job[j] \in JobType /\ walk \in Walks /\ job[j].stage \in {"token", "newToken"}
      /\ Sound(walk, job[j]) /\ Staged(walk, job[j]) /\ Unlost(recorded, walk, job[j])
    BY JobFacts DEF FindToken, NewToken, NewTokenFails, In
<1>2. /\ job[j].symbol # NoSymbol /\ job[j].page # <<>> /\ job[j].symbol \in Spellings
      /\ SymbolOf(j) \in Symbols
    <2>1. job[j].symbol # NoSymbol /\ job[j].page # <<>>
        BY <1>1 DEF Staged
    <2>2. job[j].symbol \in Spellings
        BY <1>1, <2>1, ListingType DEF JobType
    <2> QED BY <2>1, <2>2 DEF SymbolOf, Symbols
<1>3. UNCHANGED <<recorded, walk, guard, dbExchanges>>
    BY DEF FindToken, NewToken, NewTokenFails, dbVars
<1>4. TablesType'
    <2>1. TablesType
        BY DEF JobsInv
    <2>2. caches' \in [Jobs -> [ex : SUBSET Exchanges, tok : SUBSET Spellings]]
        <3>1. CASE UNCHANGED caches
            BY <2>1, <3>1 DEF TablesType
        <3>2. CASE CacheToken(j)
            <4>1. {job[j].symbol} \subseteq Spellings /\ {} \subseteq Exchanges
                BY <1>2
            <4>2. PICK ex, tok : ex = {} /\ tok = {job[j].symbol}
                OBVIOUS
            <4>3. caches' = Cached(j, ex, tok) /\ ex \subseteq Exchanges /\ tok \subseteq Spellings
                BY <3>2, <4>1, <4>2 DEF CacheToken
            <4> QED BY <2>1, <4>3, CachedType
        <3> QED BY <3>1, <3>2 DEF FindToken, NewToken, NewTokenFails
    <2>3. dbTokens' \subseteq Symbols
        BY <1>2, <2>1 DEF FindToken, NewToken, NewTokenFails, dbVars, TablesType
    <2> QED BY <1>3, <2>1, <2>2, <2>3 DEF TablesType
<1>5. CASE GoonKnowing(j)
    <2>1. PICK known : job' = [job EXCEPT ![j] = Goon(job[j], known)]
        BY <1>5 DEF GoonKnowing, Become
    <2>2. Carries(walk, job[j], Goon(job[j], known))
        BY <1>1, GoonOn
    <2>3. job[j].clean => \A s \in Listing : \A t \in History(s) :
                            Recorded(recorded, job[j], s, t) \/ Holds(walk, job[j], s, t)
        BY <1>1 DEF Unlost, Working
    <2> QED BY <1>3, <1>4, <2>1, <2>2, <2>3, JobGoesOn
<1>6. CASE To(j, "newToken")
    <2> DEFINE a == [job[j] EXCEPT !.stage = "newToken"]
    <2>1. job' = [job EXCEPT ![j] = a]
        BY <1>6 DEF To, Become
    <2>2. /\ Sound(walk, a) /\ a.stage = "newToken"
          /\ a.exchange = job[j].exchange /\ a.clean = job[j].clean /\ a.symbol = job[j].symbol
          /\ a.page = job[j].page /\ a.batch = job[j].batch /\ a.left = job[j].left
          /\ a.window = job[j].window
        <3>1. "newToken" \in Calling \cup {"load", "fetch"} \cup Over
            BY DEF Calling
        <3> QED BY <1>1, <3>1, Restaged
    <2> HIDE DEF a
    <2>3. Staged(walk, a)
        BY <1>2, <2>2 DEF Staged
    <2>4. Unlost(recorded, walk, a)
        BY <1>1, <2>2 DEF Unlost, Working, Recorded, Holds
    <2> QED BY <1>3, <1>4, <2>1, <2>2, <2>3, <2>4, JobMoves
<1>7. CASE Become(j, Goon([job[j] EXCEPT !.page = Tail(@), !.clean = FALSE], caches[j].tok))
    <2> DEFINE r == [job[j] EXCEPT !.page = Tail(@), !.clean = FALSE]
    <2>1. Tail(job[j].page) \in Seq(Settlements)
        BY <1>1, <1>2 DEF JobType
    <2>2. /\ r \in JobType /\ r.batch = job[j].batch
          /\ r.symbol = job[j].symbol /\ r.window = job[j].window
          /\ r.exchange = job[j].exchange /\ r.clean = FALSE
        BY <1>1, <2>1 DEF JobType
    <2>3. job' = [job EXCEPT ![j] = Goon(r, caches[j].tok)]
        BY <1>7 DEF Become
    <2> HIDE DEF r
    <2>4. Sound(walk, r)
        BY <1>1, <1>2, <2>2 DEF Sound
    <2>5. Carries(walk, r, Goon(r, caches[j].tok))
        BY <1>1, <2>4, GoonOn
    <2> QED BY <1>3, <1>4, <2>2, <2>3, <2>5, JobGoesOn
<1> QED BY <1>5, <1>6, <1>7 DEF FindToken, NewToken, NewTokenFails

\* What was in the batch is in the table.
LEMMA FlushStep ==
    ASSUME JobsInv, NEW j \in Jobs, Flush(j)
    PROVE  JobsInv'
<1>1. /\ job[j] \in JobType /\ walk \in Walks /\ job[j].stage = "flush"
      /\ Sound(walk, job[j]) /\ Unlost(recorded, walk, job[j])
    BY JobFacts DEF Flush, In
<1>2. /\ UNCHANGED <<walk, guard, caches, dbExchanges, dbTokens>>
      /\ recorded' = recorded \cup RowsOf(job[j])
    BY DEF Flush, dbVars
<1>3. RowsOf(job[j]) \subseteq Exchanges \X Symbols \X Settlements
    <2>1. job[j].batch \in Seq(Records) /\ job[j].exchange \in Exchanges
        BY <1>1 DEF JobType
    <2>2. ASSUME NEW d \in ToSet(job[j].batch)
          PROVE  <<job[j].exchange, Upper[d[1]], d[2]>> \in Exchanges \X Symbols \X Settlements
        <3>1. d \in Records
            BY <2>1 DEF ToSet
        <3>2. d[1] \in Spellings /\ d[2] \in Settlements
            BY <3>1, ListingType DEF Records, Listing
        <3> QED BY <2>1, <3>2 DEF Symbols
    <2> QED BY <2>2 DEF RowsOf
<1>4. TablesType'
    BY <1>2, <1>3 DEF JobsInv, TablesType
<1> DEFINE r == [job[j] EXCEPT !.batch = <<>>]
<1>5. /\ r \in JobType /\ r.page = job[j].page /\ r.batch = <<>>
      /\ r.symbol = job[j].symbol /\ r.window = job[j].window /\ r.left = job[j].left
      /\ r.exchange = job[j].exchange /\ r.clean = job[j].clean
    <2>1. <<>> \in Seq(Records)
        OBVIOUS
    <2> QED BY <1>1, <2>1 DEF JobType
<1>6. job' = [job EXCEPT ![j] = Goon(r, caches[j].tok)]
    BY DEF Flush, Become
<1> HIDE DEF r
<1>7. Sound(walk, r)
    <2>1. Len(r.batch) = 0 /\ BatchSize \in Nat
        BY <1>5, BackfillAssumption
    <2> QED BY <1>1, <1>5, <2>1 DEF Sound
<1>8. Carries(walk, r, Goon(r, caches[j].tok))
    BY <1>1, <1>7, GoonOn
<1>9. ASSUME r.clean, NEW s \in Listing, NEW t \in History(s)
      PROVE  Recorded(recorded', r, s, t) \/ Holds(walk, r, s, t)
    <2>1. Recorded(recorded, job[j], s, t) \/ Holds(walk, job[j], s, t)
        BY <1>1, <1>5, <1>9 DEF Unlost, Working
    <2>2. CASE <<s, t>> \in ToSet(job[j].batch)
        <3> DEFINE d == <<s, t>>
        <3>1. <<job[j].exchange, Upper[d[1]], d[2]>> \in RowsOf(job[j])
            BY <2>2 DEF RowsOf
        <3> QED BY <1>2, <1>5, <3>1 DEF Recorded
    <2>3. CASE <<s, t>> \notin ToSet(job[j].batch)
        BY <1>2, <1>5, <2>1, <2>3 DEF Recorded, Holds
    <2> QED BY <2>2, <2>3
<1>10. recorded \subseteq recorded'
    BY <1>2
<1> QED BY <1>2, <1>4, <1>5, <1>6, <1>8, <1>9, <1>10, JobGoesOn

\* What the rest of the type invariant needs: the cycle reports no more snapshots
\* than it took.
CycleCount ==
    /\ stored \subseteq Exchanges \X Symbols
    /\ rows \subseteq [at : Exchanges \X Symbols, valid : BOOLEAN]
    /\ inserted \in Nat /\ inserted + Len(todo) <= Cardinality(Snapshots)

LEMMA SnapshotsFinite == IsFiniteSet(Snapshots) /\ Cardinality(Snapshots) \in Nat
<1>1. IsFiniteSet(Exchanges \X Spellings)
    BY FS_Product, PersistAssumption
<1> QED BY <1>1, FS_CardinalityType DEF Snapshots

LEMMA BatchLength ==
    ASSUME NEW s \in Batches
    PROVE  Len(s) <= Cardinality(Snapshots)
<1>1. PICK b \in SUBSET Snapshots : Cardinality(b) \in 1..MaxBatch /\ s \in SetToSeqs(b)
    BY DEF Batches
<1>2. s \in [1..Cardinality(b) -> b] /\ Cardinality(b) \in Nat
    BY <1>1 DEF SetToSeqs
<1>3. Len(s) = Cardinality(b)
    BY <1>2
<1> QED BY <1>3, SnapshotsFinite, FS_Subset

\* The cycle is left, its transaction with it.
LEMMA ReturnCount ==
    ASSUME CycleInv, CycleCount, NEW outcome, Return(outcome), stored' \subseteq Exchanges \X Symbols
    PROVE  CycleCount'
<1>1. todo' = <<>> /\ rows' = {} /\ inserted' = inserted
    BY DEF Return, RolledBack
<1>2. Len(todo) \in Nat /\ Len(todo') = 0
    BY <1>1 DEF CycleInv, CycleTypeOK
<1> QED BY <1>1, <1>2, SnapshotsFinite DEF CycleCount

LEMMA WalkCount ==
    ASSUME CycleInv, CycleCount, CreateTokenFails \/ Merge
    PROVE  CycleCount'
<1>1. todo # <<>> /\ todo \in Seq(Snapshots)
    BY DEF CreateTokenFails, Merge, TokenNeeded, Walking, CycleInv, CycleTypeOK
<1>2. Len(todo) \in Nat \ {0} /\ Len(Tail(todo)) = Len(todo) - 1
    BY <1>1
<1>3. CASE CreateTokenFails
    <2>1. /\ rows' = {} /\ UNCHANGED <<stored, inserted>>
          /\ todo' = todo \/ todo' = Tail(todo)
        BY <1>3 DEF CreateTokenFails, RolledBack
    <2>2. Len(todo') <= Len(todo) /\ Len(todo') \in Nat
        BY <1>2, <2>1
    <2> QED BY <1>2, <2>1, <2>2, SnapshotsFinite DEF CycleCount
<1>4. CASE Merge
    <2>1. PICK d \in Snapshots :
            rows' = rows \cup {[at |-> RowOf(d),
                                valid |-> exchanges[d[1]] = "ok" /\ tokens[d[2]] = "ok"]}
        BY <1>4 DEF Merge
    <2> DEFINE good == exchanges[d[1]] = "ok" /\ tokens[d[2]] = "ok"
    <2>2. good \in BOOLEAN
        OBVIOUS
    <2>3. rows' = rows \cup {[at |-> RowOf(d), valid |-> good]}
        BY <2>1
    <2> HIDE DEF good
    <2>4. RowOf(d) \in Exchanges \X Symbols
        BY DEF RowOf, Snapshots, Symbols
    <2>5. [at |-> RowOf(d), valid |-> good] \in [at : Exchanges \X Symbols, valid : BOOLEAN]
        BY <2>2, <2>4
    <2>6. rows' \subseteq [at : Exchanges \X Symbols, valid : BOOLEAN]
        BY <2>3, <2>5 DEF CycleCount
    <2>7. inserted' = inserted + 1 /\ todo' = Tail(todo) /\ UNCHANGED stored
        BY <1>4 DEF Merge
    <2> QED BY <1>2, <2>6, <2>7, SnapshotsFinite DEF CycleCount
<1> QED BY <1>3, <1>4

LEMMA CountNext ==
    ASSUME CycleInv, CycleCount, [WritersNext]_writerVars
    PROVE  CycleCount'
<1>1. CASE BeginCycle
    <2>1. /\ todo' \in Batches /\ stored' = {} /\ rows' = {} /\ inserted' = 0
        BY <1>1 DEF BeginCycle
    <2>2. Len(todo') <= Cardinality(Snapshots) /\ Len(todo') \in Nat
        BY <2>1, BatchLength, BatchesType
    <2> QED BY <2>1, <2>2, SnapshotsFinite DEF CycleCount
<1>2. CASE CreateTokenFails \/ Merge
    BY <1>2, WalkCount
<1>3. CASE Commit
    <2>1. CASE Fail(~ValidRows)
        BY <2>1, ReturnCount DEF Fail, CycleCount
    <2>2. CASE ~Fail(~ValidRows)
        <3>1. stored' = {r.at : r \in rows} /\ Return("idle")
            BY <1>3, <2>2 DEF Commit
        <3>2. stored' \subseteq Exchanges \X Symbols
            BY <3>1 DEF CycleCount
        <3> QED BY <3>1, <3>2, ReturnCount
    <2> QED BY <2>1, <2>2
<1>4. CASE CreateExchange \/ SelectFails
    <2>1. CASE \E reason : Fail(reason)
        BY <2>1, ReturnCount DEF Fail, CycleCount
    <2>2. CASE ~\E reason : Fail(reason)
        <3>1. UNCHANGED <<stored, rows, inserted, todo>>
            BY <1>4, <2>2 DEF CreateExchange, SelectFails
        <3> QED BY <3>1 DEF CycleCount
    <2> QED BY <2>1, <2>2
<1>5. CASE SelectTokens \/ CreateToken \/ Others \/ (\E j \in Jobs : BackfillStep(j))
           \/ UNCHANGED writerVars
    <2>1. UNCHANGED <<stored, rows, inserted, todo>>
        BY <1>5 DEF SelectTokens, CreateToken, Others, OtherWriter, BackfillStep, cycleVars,
                    writerVars, vars
    <2> QED BY <2>1 DEF CycleCount
<1> QED BY <1>1, <1>2, <1>3, <1>4, <1>5 DEF WritersNext, Cycle, CycleStep, Finished

\* The cycle and the other writers add rows to the tables that the jobs look at.
LEMMA TablesNext ==
    ASSUME CycleInv, JobsInv, Cycle \/ Others \/ UNCHANGED writerVars
    PROVE  JobsInv'
<1>1. UNCHANGED backfillVars
    BY DEF Cycle, Others, writerVars
<1>2. tx \in [ex : SUBSET Exchanges, tok : SUBSET Symbols]
    BY DEF CycleInv, CycleTypeOK
<1>3. dbExchanges' \subseteq Exchanges /\ dbTokens' \subseteq Symbols
    <2>1. dbExchanges \subseteq Exchanges /\ dbTokens \subseteq Symbols
        BY DEF JobsInv, TablesType
    <2>2. CASE Commit
        <3>1. \/ UNCHANGED <<dbExchanges, dbTokens>>
              \/ dbExchanges' = dbExchanges \cup tx.ex /\ dbTokens' = dbTokens \cup tx.tok
            BY <2>2 DEF Commit, Fail, dbVars
        <3> QED BY <1>2, <2>1, <3>1
    <2>3. CASE OtherWriter
        BY <2>1, <2>3 DEF OtherWriter
    <2>4. CASE ~Commit /\ ~OtherWriter
        <3>1. UNCHANGED <<dbExchanges, dbTokens>>
            BY <2>4 DEF Cycle, CycleStep, BeginCycle, SelectTokens, CreateExchange, CreateToken,
                CreateTokenFails, SelectFails, Merge, Fail, Others, writerVars, vars, dbVars
        <3> QED BY <2>1, <3>1
    <2> QED BY <2>2, <2>3, <2>4
<1> QED BY <1>1, <1>3 DEF backfillVars, JobsInv, TablesType

LEMMA JobsNext ==
    ASSUME CycleInv, JobsInv, [WritersNext]_writerVars
    PROVE  JobsInv'
<1>1. ASSUME NEW j \in Jobs, BackfillStep(j) PROVE JobsInv'
    BY <1>1, EarlySteps, LoadStep, FetchStep, TokenStep, FlushStep DEF BackfillStep, JobStep
<1> QED BY <1>1, TablesNext DEF WritersNext, Finished

WritersInv == CycleInv /\ CycleCount /\ JobsInv

LEMMA WritersBegin == WritersInit => WritersInv
<1> SUFFICES ASSUME WritersInit PROVE WritersInv
    OBVIOUS
<1>1. CycleInv
    BY CycleInit
<1>2. CycleCount
    <2>1. stored = {} /\ rows = {} /\ inserted = 0 /\ Len(todo) = 0
        BY DEF WritersInit, Init
    <2> QED BY <2>1, SnapshotsFinite DEF CycleCount
<1>3. TablesType
    BY DEF WritersInit, Init, BackfillInit, TablesType
<1>4. PICK of \in [Jobs -> Exchanges] : job = [j \in Jobs |-> NewJob(of[j])]
    BY BackfillAssumption DEF WritersInit, BackfillInit
<1>5. ASSUME NEW e \in Exchanges
      PROVE  Sound(walk, NewJob(e)) /\ Staged(walk, NewJob(e)) /\ Unlost(recorded, walk, NewJob(e))
    <2> DEFINE r == NewJob(e)
    <2>1. /\ r.symbol = NoSymbol /\ r.page = <<>> /\ r.batch = <<>> /\ r.stage = "guard"
          /\ r \in JobType
        <3>1. Broken \in Windows
            BY PagingAssumption DEF Broken, Windows
        <3>2. <<>> \in Seq(Listing) /\ <<>> \in Seq(Settlements) /\ <<>> \in Seq(Records)
            OBVIOUS
        <3>3. "guard" \in Calling
            BY DEF Calling
        <3> QED BY <3>1, <3>2, <3>3 DEF NewJob, JobType
    <2> HIDE DEF r
    <2>2. Len(r.batch) = 0 /\ BatchSize \in Nat
        BY <2>1, BackfillAssumption
    <2>3. Sound(walk, r) /\ Staged(walk, r) /\ Unlost(recorded, walk, r)
        BY <2>1, <2>2 DEF Sound, Staged, Unlost, Working
    <2> QED BY <2>3 DEF r
<1>6. \A e \in Exchanges : NewJob(e) \in JobType
    BY <1>5 DEF Sound
<1>7. job \in [Jobs -> JobType] /\ \A j \in Jobs : job[j] = NewJob(of[j])
    BY <1>4, <1>6
<1>8. JobsInv
    BY <1>3, <1>5, <1>7 DEF JobsInv
<1> QED BY <1>1, <1>2, <1>8 DEF WritersInv

LEMMA WritersStep == WritersInv /\ [WritersNext]_writerVars => WritersInv'
BY CycleNext, CountNext, JobsNext DEF WritersInv

(* The type invariant of the DB writer and the backfills.  The cycle never  *)
(* reports more snapshots than there are, and no window, page or batch of a *)
(* backfill leaves its range or its size.                                   *)
THEOREM TypeCorrect == WritersSpec => []WritersTypeOK
<1>1. WritersInv => WritersTypeOK
    <2> SUFFICES ASSUME WritersInv PROVE WritersTypeOK
        OBVIOUS
    <2>1. TypeOK
        <3>1. Len(todo) \in Nat
            BY DEF WritersInv, CycleInv, CycleTypeOK
        <3>2. inserted \in 0..Cardinality(Snapshots)
            BY <3>1, SnapshotsFinite DEF WritersInv, CycleCount
        <3>3. tx.ex \subseteq Exchanges /\ tx.tok \subseteq Symbols
            BY DEF WritersInv, CycleInv, CycleTypeOK
        <3> QED BY <3>2, <3>3 DEF WritersInv, CycleInv, CycleTypeOK, CycleCount, JobsInv, TablesType,
                                  TypeOK
    <2>2. ASSUME NEW j \in Jobs
          PROVE  /\ job[j].exchange \in Exchanges
                 /\ job[j].stage \in Calling \cup {"load", "fetch"} \cup Over
                 /\ job[j].left \in Seq(Spellings) /\ job[j].symbol \in Spellings \cup {NoSymbol}
                 /\ job[j].window \in Windows /\ job[j].page \in Seq(Settlements)
                 /\ job[j].batch \in Seq(Records) /\ Len(job[j].batch) <= BatchSize
                 /\ job[j].clean \in BOOLEAN
        <3>1. job[j] \in JobType /\ Len(job[j].batch) <= BatchSize
            BY DEF WritersInv, JobsInv, Sound
        <3>2. job[j].left \in Seq(Listing) /\ job[j].symbol \in Listing \cup {NoSymbol}
            BY <3>1 DEF JobType
        <3>3. job[j].left \in Seq(Spellings)
            BY <3>2, ListingType, SeqOfMore
        <3> QED BY <3>1, <3>2, <3>3, ListingType DEF JobType
    <2>3. BackfillTypeOK
        BY <2>2 DEF WritersInv, JobsInv, TablesType, BackfillTypeOK
    <2> QED BY <2>1, <2>3 DEF WritersTypeOK
<1> QED BY <1>1, WritersBegin, WritersStep, PTL DEF WritersSpec

(* A backfill that met no failure has recorded the whole history of every    *)
(* symbol, for any range, page, chunk and batch sizes, any number of jobs    *)
(* and symbols, and whatever other writers insert meanwhile.                 *)
THEOREM CleanBackfillsComplete == WritersSpec => []Complete
<1>1. WritersInv => Complete
    <2> SUFFICES ASSUME WritersInv, NEW j \in Jobs, job[j].stage = "done", job[j].clean,
                        NEW s \in ToSet(Listed), NEW t \in History(s)
                 PROVE  <<job[j].exchange, Upper[s], t>> \in recorded
        BY DEF Complete
    <2>1. Staged(walk, job[j]) /\ Unlost(recorded, walk, job[j]) /\ Sound(walk, job[j])
        BY DEF WritersInv, JobsInv
    <2>2. s # NoSymbol /\ s \in Listing
        BY ListingType DEF Listing
    <2>3. Recorded(recorded, job[j], s, t) \/ Holds(walk, job[j], s, t)
        BY <2>1, <2>2 DEF Unlost, Working
    <2>4. ~Holds(walk, job[j], s, t)
        <3>1. job[j].symbol = NoSymbol /\ job[j].left = <<>> /\ job[j].batch = <<>>
            BY <2>1 DEF Staged
        <3> QED BY <2>2, <3>1 DEF Holds, ToSet
    <2> QED BY <2>3, <2>4 DEF Recorded
<1> QED BY <1>1, WritersBegin, WritersStep, PTL DEF WritersSpec

-----------------------------------------------------------------------------
(* What is left to do gets less.                                            *)

\* The lexicographic order of five numbers, spelt out.
Lexical(a1, a2, a3, a4, a5, b1, b2, b3, b4, b5) ==
    \/ a1 < b1
    \/ a1 = b1 /\ a2 < b2
    \/ a1 = b1 /\ a2 = b2 /\ a3 < b3
    \/ a1 = b1 /\ a2 = b2 /\ a3 = b3 /\ a4 < b4
    \/ a1 = b1 /\ a2 = b2 /\ a3 = b3 /\ a4 = b4 /\ a5 < b5

LEMMA LessOfFive ==
    ASSUME NEW a1 \in Nat, NEW a2 \in Nat, NEW a3 \in Nat, NEW a4 \in Nat, NEW a5 \in Nat,
           NEW b1 \in Nat, NEW b2 \in Nat, NEW b3 \in Nat, NEW b4 \in Nat, NEW b5 \in Nat,
           Lexical(a1, a2, a3, a4, a5, b1, b2, b3, b4, b5)
    PROVE  Less(<<a1, a2, a3, a4, a5>>, <<b1, b2, b3, b4, b5>>)
<1> DEFINE m == <<a1, a2, a3, a4, a5>>
           n == <<b1, b2, b3, b4, b5>>
<1>1. DOMAIN n = 1..5
    OBVIOUS
<1>2. /\ m[1] = a1 /\ m[2] = a2 /\ m[3] = a3 /\ m[4] = a4 /\ m[5] = a5
      /\ n[1] = b1 /\ n[2] = b2 /\ n[3] = b3 /\ n[4] = b4 /\ n[5] = b5
    OBVIOUS
<1> HIDE DEF m, n
<1>3. SUFFICES \E k \in 1..5 : m[k] < n[k] /\ \A i \in 1..(k - 1) : m[i] = n[i]
    BY <1>1 DEF Less, m, n
<1>4. \/ a1 < b1
      \/ a1 = b1 /\ a2 < b2
      \/ a1 = b1 /\ a2 = b2 /\ a3 < b3
      \/ a1 = b1 /\ a2 = b2 /\ a3 = b3 /\ a4 < b4
      \/ a1 = b1 /\ a2 = b2 /\ a3 = b3 /\ a4 = b4 /\ a5 < b5
    BY DEF Lexical
<1>5. CASE a1 < b1
    BY <1>2, <1>5
<1>6. CASE a1 = b1 /\ a2 < b2
    <2>1. \A i \in 1..(2 - 1) : i = 1
        OBVIOUS
    <2>2. 2 \in 1..5 /\ m[2] < n[2] /\ \A i \in 1..(2 - 1) : m[i] = n[i]
        BY <1>2, <1>6, <2>1
    <2> QED BY <2>2
<1>7. CASE a1 = b1 /\ a2 = b2 /\ a3 < b3
    <2>1. \A i \in 1..(3 - 1) : i = 1 \/ i = 2
        OBVIOUS
    <2>2. 3 \in 1..5 /\ m[3] < n[3] /\ \A i \in 1..(3 - 1) : m[i] = n[i]
        BY <1>2, <1>7, <2>1
    <2> QED BY <2>2
<1>8. CASE a1 = b1 /\ a2 = b2 /\ a3 = b3 /\ a4 < b4
    <2>1. \A i \in 1..(4 - 1) : i = 1 \/ i = 2 \/ i = 3
        OBVIOUS
    <2>2. 4 \in 1..5 /\ m[4] < n[4] /\ \A i \in 1..(4 - 1) : m[i] = n[i]
        BY <1>2, <1>8, <2>1
    <2> QED BY <2>2
<1>9. CASE a1 = b1 /\ a2 = b2 /\ a3 = b3 /\ a4 = b4 /\ a5 < b5
    <2>1. \A i \in 1..(5 - 1) : i = 1 \/ i = 2 \/ i = 3 \/ i = 4
        OBVIOUS
    <2>2. 5 \in 1..5 /\ m[5] < n[5] /\ \A i \in 1..(5 - 1) : m[i] = n[i]
        BY <1>2, <1>9, <2>1
    <2> QED BY <2>2
<1> QED BY <1>4, <1>5, <1>6, <1>7, <1>8, <1>9

LEMMA TogoType ==
    ASSUME NEW v \in Windows
    PROVE  Togo(v) \in Nat
<1>1. /\ Start \in Nat \ {0} /\ End \in Nat /\ Start < End
      /\ v.lo \in Start..(End + 1) /\ v.hi \in (Start - 1)..End
    BY PagingAssumption DEF Windows
<1> QED BY <1>1 DEF Togo, Goes

\* A window that goes on from behind the start of another, or before its end,
\* asks for less, and so does one from which no walk goes on.
LEMMA FurtherOn ==
    ASSUME NEW v \in Windows, NEW u \in Windows, Goes(walk, v),
           \/ ~Goes(walk, u)
           \/ walk = "backward" /\ u.hi < v.hi
           \/ walk # "backward" /\ v.lo < u.lo
    PROVE  Togo(u) < Togo(v)
<1>1. /\ Start \in Nat \ {0} /\ End \in Nat /\ Start < End
      /\ v.lo \in Start..(End + 1) /\ v.hi \in (Start - 1)..End
      /\ u.lo \in Start..(End + 1) /\ u.hi \in (Start - 1)..End
    BY PagingAssumption DEF Windows
<1>2. CASE ~Goes(walk, u)
    BY <1>1, <1>2 DEF Togo, Goes
<1>3. CASE Goes(walk, u) /\ walk = "backward" /\ u.hi < v.hi
    BY <1>1, <1>3 DEF Togo, Goes
<1>4. CASE Goes(walk, u) /\ walk # "backward" /\ v.lo < u.lo
    BY <1>1, <1>4 DEF Togo, Goes
<1> QED BY <1>2, <1>3, <1>4

LEMMA BrokenStops ==
    ASSUME NEW w
    PROVE  ~Goes(w, Broken) /\ Broken \in Windows
<1>1. Start \in Nat \ {0} /\ End \in Nat /\ Start < End
    BY PagingAssumption
<1> QED BY <1>1 DEF Broken, Goes, Windows

\* Each request, answered or failed, is for less of the range than the one before.
LEMMA WalkLess ==
    ASSUME walk \in Walks, NEW v, OnWalk(walk, v), Goes(walk, v), NEW H, H \subseteq Settlements
    PROVE  /\ Togo(After(walk, v, Answer(walk, v, H))) < Togo(v)
           /\ Togo(AfterError(walk, v)) < Togo(v)
<1> DEFINE page == Answer(walk, v, H)
           next == After(walk, v, page)
           error == AfterError(walk, v)
<1>1. /\ Start \in Nat \ {0} /\ End \in Nat /\ Start < End /\ Chunk \in Nat \ {0}
      /\ PageSize \in Nat
      /\ v.lo \in Start..(End + 1) /\ v.hi \in (Start - 1)..End /\ v \in Windows
    BY PagingAssumption DEF OnWalk, Windows
<1>2. next \in Windows /\ error \in Windows
    BY WalkOn, WalkAfterError DEF OnWalk
<1>3. CASE walk = "chunks"
    <2>1. next = error /\ error = ChunkFrom(v.hi + 1)
        BY <1>3 DEF After, AfterError
    <2>2. v.hi + 1 \in Start..(End + 1)
        BY <1>1
    <2>3. error.lo = v.hi + 1
        BY <2>1, <2>2, ChunkWindow
    <2>4. v.hi = IF v.lo + Chunk <= End THEN v.lo + Chunk ELSE End
        <3>1. v.lo \in Nat /\ v.lo + Chunk \in Nat /\ v.hi = Min({v.lo + Chunk, End})
            BY <1>1, <1>3 DEF OnWalk
        <3> QED BY <1>1, <3>1, MinOf
    <2>5. v.lo < End
        BY <1>3 DEF Goes
    <2> HIDE DEF next, error
    <2>6. v.lo < error.lo
        BY <1>1, <2>3, <2>4, <2>5
    <2>7. Togo(error) < Togo(v)
        BY <1>1, <1>2, <1>3, <2>6, FurtherOn
    <2> QED BY <2>1, <2>7 DEF next, error, page
<1>4. CASE walk # "chunks"
    <2>1. error = Broken
        BY <1>4 DEF AfterError
    <2>2. Togo(Broken) < Togo(v)
        BY <1>1, BrokenStops, FurtherOn
    <2>3. CASE Ending(walk, v, page)
        <3>1. next = Broken
            BY <1>4, <2>3 DEF After
        <3> QED BY <2>1, <2>2, <3>1
    <2>4. CASE ~Ending(walk, v, page)
        <3> HIDE DEF page
        <3>1. next = Beyond(walk, v, page)
            BY <1>4, <2>4 DEF After
        <3>2. page \in Seq(H) /\ (Len(page) >= PageSize => Last(page) \in Asked(v, H))
            BY <1>1, <1>4, PageType DEF page
        <3>3. Len(page) >= PageSize
            <4>1. Len(page) \in Nat /\ ~(Len(page) < PageSize)
                BY <2>4, <3>2 DEF Ending
            <4> QED BY <1>1, <4>1
        <3> DEFINE z == Last(page)
        <3>4. z \in Start..End /\ v.lo <= z /\ z <= v.hi
            BY <3>2, <3>3, BackfillAssumption DEF Asked
        <3> HIDE DEF z
        <3>5. CASE walk = "backward"
            <4>1. next = [v EXCEPT !.hi = z - 1]
                BY <3>1, <3>5 DEF Beyond, z
            <4>2. next.hi < v.hi
                BY <1>1, <3>4, <4>1 DEF Windows
            <4> HIDE DEF next
            <4> QED BY <1>1, <1>2, <2>1, <2>2, <3>5, <4>2, FurtherOn DEF next, page
        <3>6. CASE walk # "backward"
            <4>1. next = [v EXCEPT !.lo = z + 1]
                BY <3>1, <3>6 DEF Beyond, z
            <4>2. v.lo < next.lo
                BY <1>1, <3>4, <4>1 DEF Windows
            <4> HIDE DEF next
            <4> QED BY <1>1, <1>2, <2>1, <2>2, <3>6, <4>2, FurtherOn DEF next, page
        <3> QED BY <3>5, <3>6
    <2> QED BY <2>3, <2>4
<1> QED BY <1>3, <1>4

\* What Work() is read from, besides its stage.
SameButStage(r, a) ==
    a.left = r.left /\ a.window = r.window /\ Len(a.page) = Len(r.page) /\ Len(a.batch) = Len(r.batch)

\* Between two awaits a job gets on to its next symbol, takes records of its page,
\* or leaves both as they are; it asks for a token only if it does not know it.
Eased(r, a, known) ==
    /\ a \in JobType
    /\ \/ a.stage \in {"fetch", "mark"}
       \/ a.stage = "flush" /\ a.batch # <<>>
       \/ a.stage = "token" /\ r.symbol \notin known
    /\ \/ Len(a.left) < Len(r.left)
       \/ a.left = r.left /\ a.window = r.window /\ Len(a.page) < Len(r.page)
       \/ SameButStage(r, a)

LEMMA AdvancedEases ==
    ASSUME walk \in Walks, NEW r, Sound(walk, r), r.page = <<>>, NEW known
    PROVE  /\ Eased(r, Advanced(r), known)
           /\ \/ Len(Advanced(r).left) < Len(r.left)
              \/ SameButStage(r, Advanced(r)) /\ Advanced(r).page = r.page
<1> DEFINE more == r.symbol # NoSymbol /\ Goes(walk, r.window)
           a == Advanced(r)
<1>1. r \in JobType /\ a \in JobType
    BY AdvancedOn DEF Sound, Carries
<1>2. CASE more
    <2>1. a = [r EXCEPT !.stage = "fetch"]
        BY <1>2 DEF Advanced
    <2>2. /\ a.stage = "fetch" /\ a.batch = r.batch /\ a.window = r.window
          /\ a.page = r.page /\ a.left = r.left
        BY <1>1, <2>1 DEF JobType
    <2> HIDE DEF a
    <2> QED BY <1>1, <2>2 DEF Eased, SameButStage, a
<1>3. CASE ~more /\ r.left # <<>>
    <2>1. a = [r EXCEPT !.stage = "fetch", !.symbol = Head(r.left), !.left = Tail(r.left),
                        !.window = First(walk)]
        BY <1>3 DEF Advanced
    <2>2. a.stage = "fetch" /\ a.left = Tail(r.left)
        BY <1>1, <2>1 DEF JobType
    <2>3. Len(Tail(r.left)) < Len(r.left)
        BY <1>1, <1>3 DEF JobType
    <2> HIDE DEF a
    <2> QED BY <1>1, <2>2, <2>3 DEF Eased, a
<1>4. CASE ~more /\ r.left = <<>>
    <2>1. a = [r EXCEPT !.stage = IF r.batch = <<>> THEN "mark" ELSE "flush", !.symbol = NoSymbol]
        BY <1>4 DEF Advanced
    <2>2. /\ a.stage = IF r.batch = <<>> THEN "mark" ELSE "flush"
          /\ a.batch = r.batch /\ a.window = r.window /\ a.page = r.page /\ a.left = r.left
        BY <1>1, <2>1 DEF JobType
    <2> HIDE DEF a
    <2> QED BY <1>1, <2>2 DEF Eased, SameButStage, a
<1> QED BY <1>2, <1>3, <1>4

LEMMA TakenEases ==
    ASSUME walk \in Walks, NEW r, Sound(walk, r), r.symbol # NoSymbol, r.page # <<>>, NEW known
    PROVE  Eased(r, Taken(r), known)
<1> DEFINE n == Len(r.page)
           b == Len(r.batch)
           count == Min({BatchSize - b, n})
           page == SubSeq(r.page, count + 1, n)
           new == [i \in 1..count |-> <<r.symbol, r.page[i]>>]
           filled == [r EXCEPT !.page = page, !.batch = @ \o new]
<1>1. /\ r \in JobType /\ OnWalk(walk, r.window)
      /\ r.batch \in Seq(Records) /\ r.page \in Seq(Settlements) /\ r.symbol \in Listing
    <2>1. r \in JobType /\ OnWalk(walk, r.window)
        BY DEF Sound
    <2> QED BY <2>1 DEF JobType
<1>2. b \in Nat /\ n \in Nat \ {0} /\ BatchSize \in Nat \ {0} /\ b <= BatchSize
    <2>1. Len(r.batch) \in Nat /\ Len(r.page) \in Nat \ {0}
        BY <1>1
    <2> QED BY <2>1, BackfillAssumption DEF Sound
<1>3. /\ count \in 0..n /\ b + count <= BatchSize
      /\ (count = 0 => b = BatchSize) /\ (count < n => b + count = BatchSize)
    <2> HIDE DEF b, n
    <2>1. BatchSize - b \in Nat
        BY <1>2
    <2>2. count = IF BatchSize - b <= n THEN BatchSize - b ELSE n
        BY <1>2, <2>1, MinOf
    <2> HIDE DEF count
    <2> QED BY <1>2, <2>1, <2>2
<1> HIDE DEF count
<1>4. page \in Seq(Settlements) /\ Len(page) = n - count
    BY <1>1, <1>2, <1>3
<1>5. new \in Seq(Records) /\ Len(new) = count
    <2>1. ASSUME NEW i \in 1..count PROVE <<r.symbol, r.page[i]>> \in Records
        <3>1. i \in 1..Len(r.page)
            BY <1>2, <1>3
        <3>2. r.page[i] \in Settlements
            BY <1>1, <3>1
        <3> QED BY <1>1, <3>2 DEF Records, Listing
    <2>2. count \in Nat
        BY <1>2, <1>3
    <2> QED BY <2>1, <2>2
<1> HIDE DEF page, new
<1>6. r.batch \o new \in Seq(Records) /\ Len(r.batch \o new) = b + count
    <2>1. PICK p \in Seq(Records), q \in Seq(Records) :
            p = r.batch /\ q = new /\ Len(p) = b /\ Len(q) = count
        BY <1>1, <1>5
    <2> HIDE DEF b
    <2>2. p \o q \in Seq(Records) /\ Len(p \o q) = Len(p) + Len(q)
        BY Concatenated
    <2> QED BY <2>1, <2>2
<1>7. /\ filled \in JobType /\ filled.page = page /\ filled.batch = r.batch \o new
      /\ filled.window = r.window /\ filled.left = r.left /\ filled.symbol = r.symbol
    BY <1>1, <1>4, <1>6 DEF JobType
<1> HIDE DEF n, b
<1>8. Taken(r) = IF Len(filled.batch) >= BatchSize THEN [filled EXCEPT !.stage = "flush"]
                 ELSE Advanced(filled)
    BY DEF Taken, filled, page, new, count, n, b
<1> HIDE DEF filled
<1>9. CASE Len(filled.batch) >= BatchSize
    <2> DEFINE a == [filled EXCEPT !.stage = "flush"]
    <2>1. /\ a \in JobType /\ a.stage = "flush" /\ a.page = page /\ a.batch = filled.batch
          /\ a.window = r.window /\ a.left = r.left
        BY <1>7 DEF JobType, Calling
    <2>2. Taken(r) = a
        BY <1>8, <1>9
    <2> HIDE DEF a
    <2>3. a.batch # <<>>
        <3>1. Len(a.batch) \in Nat /\ Len(a.batch) # 0
            BY <1>2, <1>3, <1>6, <1>7, <1>9, <2>1
        <3> QED BY <3>1
    <2>4. CASE count = 0
        <3>1. Len(a.page) = Len(r.page) /\ Len(a.batch) = Len(r.batch)
            BY <1>2, <1>4, <1>6, <1>7, <2>1, <2>4 DEF n, b
        <3> QED BY <2>1, <2>2, <2>3, <3>1 DEF Eased, SameButStage
    <2>5. CASE count # 0
        <3>1. Len(a.page) < Len(r.page)
            BY <1>2, <1>3, <1>4, <2>1, <2>5 DEF n
        <3> QED BY <2>1, <2>2, <2>3, <3>1 DEF Eased
    <2> QED BY <2>4, <2>5
<1>10. CASE ~(Len(filled.batch) >= BatchSize)
    <2>1. Len(filled.batch) = b + count /\ count = n
        BY <1>2, <1>3, <1>6, <1>7, <1>10
    <2>2. Len(filled.page) = 0 /\ filled.page = <<>>
        BY <1>2, <1>4, <1>7, <2>1
    <2>3. Sound(walk, filled)
        BY <1>1, <1>3, <1>7, <2>1, <2>2 DEF Sound
    <2>4. /\ Eased(filled, Advanced(filled), known)
          /\ \/ Len(Advanced(filled).left) < Len(filled.left)
             \/ SameButStage(filled, Advanced(filled)) /\ Advanced(filled).page = filled.page
        BY <2>2, <2>3, AdvancedEases
    <2>5. Taken(r) = Advanced(filled)
        BY <1>8, <1>10
    <2> DEFINE a == Advanced(filled)
    <2>6. /\ a \in JobType
          /\ \/ a.stage \in {"fetch", "mark"}
             \/ a.stage = "flush" /\ a.batch # <<>>
             \/ a.stage = "token" /\ r.symbol \notin known
        BY <1>7, <2>4 DEF Eased
    <2>7. \/ Len(a.left) < Len(r.left)
          \/ a.left = r.left /\ a.window = r.window /\ Len(a.page) < Len(r.page)
        <3>1. CASE Len(a.left) < Len(filled.left)
            BY <1>7, <3>1
        <3>2. CASE SameButStage(filled, a) /\ a.page = filled.page
            <4>1. a.left = r.left /\ a.window = r.window /\ Len(a.page) = 0
                BY <1>7, <2>2, <3>2 DEF SameButStage
            <4>2. 0 < Len(r.page)
                BY <1>2 DEF n
            <4> QED BY <4>1, <4>2
        <3> QED BY <2>4, <3>1, <3>2
    <2> HIDE DEF a
    <2>8. Taken(r) = a
        BY <2>5 DEF a
    <2> QED BY <2>6, <2>7, <2>8 DEF Eased
<1> QED BY <1>9, <1>10

LEMMA GoonEases ==
    ASSUME walk \in Walks, NEW r, Sound(walk, r), NEW known
    PROVE  Eased(r, Goon(r, known), known)
<1>1. CASE r.page = <<>>
    BY <1>1, AdvancedEases DEF Goon
<1>2. CASE r.page # <<>> /\ r.symbol \in known
    BY <1>2, TakenEases DEF Goon, Sound
<1>3. CASE r.page # <<>> /\ r.symbol \notin known
    <2> DEFINE a == [r EXCEPT !.stage = "token"]
    <2>1. Goon(r, known) = a /\ r \in JobType
        BY <1>3 DEF Goon, Sound
    <2>2. /\ a \in JobType /\ a.stage = "token" /\ a.page = r.page /\ a.batch = r.batch
          /\ a.window = r.window /\ a.left = r.left
        BY <2>1 DEF JobType, Calling
    <2> HIDE DEF a
    <2> QED BY <1>3, <2>1, <2>2 DEF Eased, SameButStage
<1> QED BY <1>1, <1>2, <1>3

\* Symbols left, before and after they are read.
SymbolsLeft(r) == Len(IF r.stage \in Starting THEN Listed ELSE r.left)

LEMMA WorkType ==
    ASSUME NEW r \in JobType
    PROVE  /\ SymbolsLeft(r) \in Nat /\ Len(r.left) \in Nat /\ Togo(r.window) \in Nat
           /\ Len(r.page) \in Nat /\ Len(r.batch) \in Nat /\ Rank(r.stage) \in Nat
<1>1. r.left \in Seq(Listing) /\ r.page \in Seq(Settlements) /\ r.batch \in Seq(Records)
      /\ r.window \in Windows /\ Listed \in Seq(Spellings)
    BY BackfillAssumption DEF JobType
<1>2. Len(Listed) \in Nat /\ Len(r.left) \in Nat /\ Len(r.page) \in Nat /\ Len(r.batch) \in Nat
    BY <1>1
<1>3. Rank(r.stage) \in Nat
    BY DEF Rank
<1> QED BY <1>1, <1>2, <1>3, TogoType DEF SymbolsLeft

\* From the record r a job goes on to a; before, at q, it had more to do than r.
LEMMA WorkLess ==
    ASSUME NEW q \in JobType, NEW r \in JobType, NEW known, NEW a, Eased(r, a, known),
           Len(r.left) <= SymbolsLeft(q),
           \/ Togo(r.window) < Togo(q.window)
           \/ r.window = q.window /\ Len(r.page) < Len(q.page)
           \/ r.window = q.window /\ Len(r.page) = Len(q.page) /\ Len(r.batch) < Len(q.batch)
           \/ r.window = q.window /\ Len(r.page) = Len(q.page) /\ Len(r.batch) = Len(q.batch)
                /\ Rank(a.stage) < Rank(q.stage)
    PROVE  Less(Work(a), Work(q))
<1>1. a \in JobType /\ a.stage \notin Starting
    BY DEF Eased, Starting
<1>2. SymbolsLeft(a) = Len(a.left)
    BY <1>1 DEF SymbolsLeft
<1> DEFINE a1 == SymbolsLeft(a)
           a2 == Togo(a.window)
           a3 == Len(a.page)
           a4 == Len(a.batch)
           a5 == Rank(a.stage)
           q1 == SymbolsLeft(q)
           q2 == Togo(q.window)
           q3 == Len(q.page)
           q4 == Len(q.batch)
           q5 == Rank(q.stage)
           r1 == Len(r.left)
           r2 == Togo(r.window)
           r3 == Len(r.page)
           r4 == Len(r.batch)
<1>3. /\ a1 \in Nat /\ a2 \in Nat /\ a3 \in Nat /\ a4 \in Nat /\ a5 \in Nat
      /\ q1 \in Nat /\ q2 \in Nat /\ q3 \in Nat /\ q4 \in Nat /\ q5 \in Nat
      /\ r1 \in Nat /\ r2 \in Nat /\ r3 \in Nat /\ r4 \in Nat
    BY <1>1, WorkType
<1>4. Work(a) = <<a1, a2, a3, a4, a5>> /\ Work(q) = <<q1, q2, q3, q4, q5>>
    BY DEF Work, SymbolsLeft
<1>5. r1 <= q1 /\ (a1 < r1 \/ (a1 = r1 /\ a2 = r2 /\ (a3 < r3 \/ (a3 = r3 /\ a4 = r4))))
    BY <1>2 DEF Eased, SameButStage
<1>6. r2 < q2 \/ (r2 = q2 /\ (r3 < q3 \/ (r3 = q3 /\ (r4 < q4 \/ (r4 = q4 /\ a5 < q5)))))
    OBVIOUS
<1> HIDE DEF a1, a2, a3, a4, a5, q1, q2, q3, q4, q5, r1, r2, r3, r4
<1>7. Lexical(a1, a2, a3, a4, a5, q1, q2, q3, q4, q5)
    <2>1. CASE a1 < q1
        BY <2>1 DEF Lexical
    <2>2. CASE ~(a1 < q1)
        <3>1. a1 = q1 /\ a2 = r2 /\ (a3 < r3 \/ (a3 = r3 /\ a4 = r4))
            BY <1>3, <1>5, <2>2
        <3> QED BY <1>3, <1>6, <3>1 DEF Lexical
    <2> QED BY <2>1, <2>2
<1>8. Less(<<a1, a2, a3, a4, a5>>, <<q1, q2, q3, q4, q5>>)
    BY <1>3, <1>7, LessOfFive
<1> QED BY <1>4, <1>8

\* A batch is flushed when it holds something, and symbols are read once.
Pending(r) ==
    /\ r.stage = "flush" => r.batch # <<>>
    /\ r.stage \in Starting => r.left = <<>>

PendingInv == \A j \in Jobs : Pending(job[j])

\* What a step makes of a job.
Lowers(j, a) == job' = [job EXCEPT ![j] = a] /\ Less(Work(a), Work(job[j])) /\ Pending(a)

LEMMA EasedPending ==
    ASSUME NEW r, NEW a, NEW known, Eased(r, a, known)
    PROVE  Pending(a)
BY DEF Eased, Pending, Starting

\* A job whose stage alone changes.
LEMMA StageLess ==
    ASSUME NEW r \in JobType, Pending(r), NEW stage \in Calling \cup {"load", "fetch"} \cup Over,
           Rank(stage) < Rank(r.stage), stage # "flush",
           stage \in Starting => r.stage \in Starting
    PROVE  LET a == [r EXCEPT !.stage = stage]
           IN  Less(Work(a), Work(r)) /\ Pending(a)
<1> DEFINE a == [r EXCEPT !.stage = stage]
<1>1. /\ a \in JobType /\ a.stage = stage /\ a.left = r.left /\ a.window = r.window
      /\ a.page = r.page /\ a.batch = r.batch
    BY DEF JobType
<1> HIDE DEF a
<1>2. Listed \in Seq(Spellings) /\ r.left \in Seq(Listing)
    BY BackfillAssumption DEF JobType
<1>3. Pending(a)
    BY <1>1 DEF Pending
<1> DEFINE a1 == SymbolsLeft(a)
           r1 == SymbolsLeft(r)
           r2 == Togo(r.window)
           r3 == Len(r.page)
           r4 == Len(r.batch)
           a5 == Rank(a.stage)
           r5 == Rank(r.stage)
<1>4. /\ a1 \in Nat /\ r1 \in Nat /\ r2 \in Nat /\ r3 \in Nat /\ r4 \in Nat /\ a5 \in Nat /\ r5 \in Nat
    BY <1>1, WorkType
<1>5. Work(a) = <<a1, r2, r3, r4, a5>> /\ Work(r) = <<r1, r2, r3, r4, r5>>
    BY <1>1 DEF Work, SymbolsLeft
<1>6. a1 < r1 \/ a1 = r1
    <2>1. CASE stage \in Starting \/ r.stage \notin Starting
        BY <1>1, <2>1 DEF SymbolsLeft
    <2>2. CASE stage \notin Starting /\ r.stage \in Starting
        <3>1. a1 = 0
            BY <1>1, <2>2 DEF SymbolsLeft, Pending
        <3> HIDE DEF a1, r1
        <3> QED BY <1>4, <3>1
    <2> QED BY <2>1, <2>2
<1>7. a5 < r5
    BY <1>1
<1> HIDE DEF a1, r1, r2, r3, r4, a5, r5
<1>8. Less(<<a1, r2, r3, r4, a5>>, <<r1, r2, r3, r4, r5>>)
    <2>1. Lexical(a1, r2, r3, r4, a5, r1, r2, r3, r4, r5)
        BY <1>6, <1>7 DEF Lexical
    <2> QED BY <1>4, <2>1, LessOfFive
<1>9. Less(Work(a), Work(r))
    BY <1>5, <1>8
<1> QED BY <1>3, <1>9 DEF a

LEMMA EarlyLess ==
    ASSUME JobsInv, NEW j \in Jobs, Pending(job[j]),
           LookAtGuard(j) \/ FindExchange(j) \/ NewExchange(j) \/ Mark(j)
    PROVE  \E a : Lowers(j, a)
<1>1. job[j] \in JobType
    BY JobFacts
<1>2. PICK stage \in {"skipped", "exchange", "newExchange", "load", "done"} :
        /\ job' = [job EXCEPT ![j] = [job[j] EXCEPT !.stage = stage]]
        /\ \/ job[j].stage = "guard" /\ stage \in {"skipped", "exchange"}
           \/ job[j].stage = "exchange" /\ stage \in {"newExchange", "load"}
           \/ job[j].stage = "newExchange" /\ stage = "load"
           \/ job[j].stage = "mark" /\ stage = "done"
    BY DEF LookAtGuard, FindExchange, NewExchange, Mark, In, To, Become
<1>3. /\ stage \in Calling \cup {"load", "fetch"} \cup Over /\ stage # "flush"
      /\ stage \in Starting => job[j].stage \in Starting
    BY <1>2 DEF Calling, Over, Starting
<1>4. Rank(stage) < Rank(job[j].stage)
    BY <1>2 DEF Rank
<1> QED BY <1>1, <1>2, <1>3, <1>4, StageLess DEF Lowers

\* The job is given up.
LEMMA RaiseLess ==
    ASSUME JobsInv, NEW j \in Jobs, Raise(j)
    PROVE  \E a : Lowers(j, a)
<1> DEFINE q == job[j]
           n == NewJob(ExchangeOf(j))
           a == [n EXCEPT !.stage = "failed"]
<1>1. q \in JobType /\ q.exchange \in Exchanges
    BY JobFacts DEF JobType
<1>2. job' = [job EXCEPT ![j] = a] /\ q.stage \in Calling
    BY DEF Raise, Become, In, Calling
<1>3. n \in JobType
    <2>1. <<>> \in Seq(Listing) /\ <<>> \in Seq(Settlements) /\ <<>> \in Seq(Records)
        OBVIOUS
    <2> QED BY <1>1, <2>1, BrokenStops DEF NewJob, JobType, ExchangeOf, Calling
<1>4. /\ a \in JobType /\ a.stage = "failed" /\ a.left = <<>> /\ a.window = Broken
      /\ a.page = <<>> /\ a.batch = <<>>
    <2>1. n.left = <<>> /\ n.window = Broken /\ n.page = <<>> /\ n.batch = <<>>
        BY DEF NewJob
    <2> HIDE DEF n
    <2> QED BY <1>3, <2>1 DEF JobType, Over
<1> HIDE DEF a
<1>5. SymbolsLeft(a) = 0 /\ Togo(a.window) = 0 /\ Len(a.page) = 0 /\ Len(a.batch) = 0 /\ Rank(a.stage) = 0
    BY <1>4, BrokenStops DEF SymbolsLeft, Starting, Togo, Rank
<1>6. PICK a1 \in Nat, a2 \in Nat, a3 \in Nat, a4 \in Nat, a5 \in Nat :
        a1 = 0 /\ a2 = 0 /\ a3 = 0 /\ a4 = 0 /\ a5 = 0
    OBVIOUS
<1>7. Work(a) = <<a1, a2, a3, a4, a5>>
    BY <1>5, <1>6 DEF Work, SymbolsLeft
<1> DEFINE q1 == SymbolsLeft(q)
           q2 == Togo(q.window)
           q3 == Len(q.page)
           q4 == Len(q.batch)
           q5 == Rank(q.stage)
<1>8. q1 \in Nat /\ q2 \in Nat /\ q3 \in Nat /\ q4 \in Nat /\ q5 \in Nat
    BY <1>1, WorkType
<1>9. Work(q) = <<q1, q2, q3, q4, q5>>
    BY DEF Work, SymbolsLeft
<1>10. a5 < q5
    BY <1>2, <1>6 DEF Rank, Calling
<1> HIDE DEF q1, q2, q3, q4, q5
<1>11. Lexical(a1, a2, a3, a4, a5, q1, q2, q3, q4, q5)
    BY <1>6, <1>8, <1>10 DEF Lexical
<1>12. Less(<<a1, a2, a3, a4, a5>>, <<q1, q2, q3, q4, q5>>)
    BY <1>8, <1>11, LessOfFive
<1>13. Pending(a)
    BY <1>4 DEF Pending, Starting
<1> QED BY <1>2, <1>7, <1>9, <1>12, <1>13 DEF Lowers

LEMMA LoadLess ==
    ASSUME JobsInv, NEW j \in Jobs, Pending(job[j]), Load(j)
    PROVE  \E a : Lowers(j, a)
<1> DEFINE q == job[j]
<1>1. /\ q \in JobType /\ walk \in Walks /\ Sound(walk, q) /\ q.stage = "load"
      /\ q.page = <<>> /\ q.left = <<>>
    BY JobFacts DEF Load, In, Staged, Pending, Starting
<1>2. Listed \in Seq(Listing) /\ Len(Listed) \in Nat /\ SymbolsLeft(q) = Len(Listed)
    <2>1. Listed \in Seq(Spellings)
        BY BackfillAssumption
    <2>2. Len(Listed) \in Nat /\ Listed \in [1..Len(Listed) -> Listing]
        BY <2>1 DEF Listing, ToSet
    <2> QED BY <1>1, <2>2 DEF SymbolsLeft, Starting
<1>3. PICK r \in JobType :
        /\ job' = [job EXCEPT ![j] = Advanced(r)]
        /\ r.page = q.page /\ r.batch = q.batch /\ r.symbol = q.symbol /\ r.window = q.window
        /\ Len(r.left) <= SymbolsLeft(q)
    <2>1. CASE Become(j, Advanced([q EXCEPT !.left = Listed]))
        <3> DEFINE x == [q EXCEPT !.left = Listed]
        <3>1. /\ x \in JobType /\ x.page = q.page /\ x.batch = q.batch
              /\ x.symbol = q.symbol /\ x.window = q.window /\ x.left = Listed
            BY <1>1, <1>2 DEF JobType
        <3>2. job' = [job EXCEPT ![j] = Advanced(x)]
            BY <2>1 DEF Become
        <3> HIDE DEF x, q
        <3>3. Len(x.left) <= SymbolsLeft(q)
            BY <1>2, <3>1
        <3> QED BY <3>1, <3>2, <3>3
    <2>2. CASE Become(j, Advanced([q EXCEPT !.clean = FALSE]))
        <3> DEFINE x == [q EXCEPT !.clean = FALSE]
        <3>1. /\ x \in JobType /\ x.page = q.page /\ x.batch = q.batch
              /\ x.symbol = q.symbol /\ x.window = q.window /\ x.left = <<>>
            BY <1>1 DEF JobType
        <3>2. job' = [job EXCEPT ![j] = Advanced(x)]
            BY <2>2 DEF Become
        <3> HIDE DEF x, q
        <3>3. Len(x.left) <= SymbolsLeft(q)
            <4>1. Len(x.left) = 0
                BY <3>1
            <4> QED BY <1>2, <4>1
        <3> QED BY <3>1, <3>2, <3>3
    <2> QED BY <2>1, <2>2 DEF Load
<1> DEFINE a == Advanced(r)
<1>4. Sound(walk, r) /\ r.page = <<>>
    BY <1>1, <1>3 DEF Sound
<1>5. PICK known : known = {r.symbol}
    OBVIOUS
<1>6. Eased(r, a, known)
    BY <1>1, <1>4, AdvancedEases
<1>7. job' = [job EXCEPT ![j] = a]
    BY <1>3
<1> HIDE DEF a
<1>8. Rank(a.stage) < Rank(q.stage)
    BY <1>1, <1>6 DEF Eased, Rank
<1>9. Less(Work(a), Work(q))
    BY <1>1, <1>3, <1>6, <1>8, WorkLess
<1> QED BY <1>6, <1>7, <1>9, EasedPending DEF Lowers

LEMMA FetchLess ==
    ASSUME JobsInv, NEW j \in Jobs, Fetch(j)
    PROVE  \E a : Lowers(j, a)
<1> DEFINE q == job[j]
           v == q.window
           H == History(q.symbol)
           page == Answer(walk, v, H)
           next == After(walk, v, page)
           error == AfterError(walk, v)
<1>1. /\ q \in JobType /\ walk \in Walks /\ q.stage = "fetch"
      /\ Sound(walk, q) /\ Staged(walk, q)
    BY JobFacts DEF Fetch, In
<1>2. /\ q.symbol # NoSymbol /\ q.page = <<>> /\ Goes(walk, v)
      /\ OnWalk(walk, v) /\ Len(q.batch) <= BatchSize
    BY <1>1 DEF Sound, Staged
<1>3. H \subseteq Settlements
    BY HistoryType
<1>4. SymbolsLeft(q) = Len(q.left)
    BY <1>1 DEF SymbolsLeft, Starting
<1>5. \/ Become(j, Goon([q EXCEPT !.page = page, !.window = next], caches[j].tok))
      \/ Become(j, Advanced([q EXCEPT !.window = error, !.clean = FALSE]))
    BY DEF Fetch
<1> HIDE DEF v, H, q
<1>6. OnWalk(walk, next) /\ page \in Seq(H)
    <2>1. v \in Windows
        BY <1>2 DEF OnWalk
    <2>2. page \in Seq(H)
        BY <1>1, <1>3, <2>1, PageType
    <2>3. OnWalk(walk, next)
        BY <1>1, <1>2, <1>3, <2>1, WalkOn
    <2> QED BY <2>2, <2>3
<1>7. page \in Seq(Settlements) /\ next \in Windows
    BY <1>3, <1>6, SeqOfMore DEF OnWalk
<1>8. OnWalk(walk, error) /\ error \in Windows
    BY <1>1, <1>2, WalkAfterError DEF OnWalk
<1>9. Togo(next) < Togo(v) /\ Togo(error) < Togo(v)
    BY <1>1, <1>2, <1>3, WalkLess
<1> HIDE DEF page, next, error
<1>10. PICK known, r, a :
        /\ r \in JobType /\ job' = [job EXCEPT ![j] = a] /\ Eased(r, a, known)
        /\ r.left = q.left /\ Togo(r.window) < Togo(q.window)
    <2>1. CASE Become(j, Goon([q EXCEPT !.page = page, !.window = next], caches[j].tok))
        <3> DEFINE r == [q EXCEPT !.page = page, !.window = next]
        <3>1. /\ r \in JobType /\ r.page = page /\ r.batch = q.batch
              /\ r.symbol = q.symbol /\ r.window = next /\ r.left = q.left
            BY <1>1, <1>7 DEF JobType
        <3>2. job' = [job EXCEPT ![j] = Goon(r, caches[j].tok)]
            BY <2>1 DEF Become
        <3> HIDE DEF r
        <3>3. Sound(walk, r)
            BY <1>2, <1>6, <3>1 DEF Sound
        <3>4. Eased(r, Goon(r, caches[j].tok), caches[j].tok)
            BY <1>1, <3>3, GoonEases
        <3> QED BY <1>9, <3>1, <3>2, <3>4 DEF v
    <2>2. CASE Become(j, Advanced([q EXCEPT !.window = error, !.clean = FALSE]))
        <3> DEFINE r == [q EXCEPT !.window = error, !.clean = FALSE]
        <3>1. /\ r \in JobType /\ r.page = <<>> /\ r.batch = q.batch
              /\ r.window = error /\ r.left = q.left
            BY <1>1, <1>2, <1>8 DEF JobType
        <3>2. job' = [job EXCEPT ![j] = Advanced(r)]
            BY <2>2 DEF Become
        <3> HIDE DEF r
        <3>3. Sound(walk, r)
            BY <1>2, <1>8, <3>1 DEF Sound
        <3>4. Eased(r, Advanced(r), caches[j].tok)
            BY <1>1, <3>1, <3>3, AdvancedEases
        <3> QED BY <1>9, <3>1, <3>2, <3>4 DEF v
    <2> QED BY <1>5, <2>1, <2>2
<1>11. Len(r.left) <= SymbolsLeft(q)
    <2>1. Len(q.left) \in Nat
        BY <1>1, WorkType
    <2> QED BY <1>4, <1>10, <2>1
<1>12. Less(Work(a), Work(q))
    BY <1>1, <1>10, <1>11, WorkLess
<1> QED BY <1>10, <1>12, EasedPending DEF Lowers, q

LEMMA TokenLess ==
    ASSUME JobsInv, NEW j \in Jobs, Pending(job[j]), FindToken(j) \/ NewToken(j) \/ NewTokenFails(j)
    PROVE  \E a : Lowers(j, a)
<1> DEFINE q == job[j]
<1>1. /\ q \in JobType /\ walk \in Walks /\ q.stage \in {"token", "newToken"}
      /\ Sound(walk, q) /\ q.symbol # NoSymbol /\ q.page # <<>>
    BY JobFacts DEF FindToken, NewToken, NewTokenFails, In, Staged
<1>2. SymbolsLeft(q) = Len(q.left)
    BY <1>1 DEF SymbolsLeft, Starting
<1>3. Len(q.left) \in Nat /\ Len(q.left) <= SymbolsLeft(q)
    BY <1>1, <1>2, WorkType
<1>4. CASE CacheToken(j) /\ GoonKnowing(j)
    <2> DEFINE known == caches'[j].tok
               a == Goon(q, known)
    <2>1. job' = [job EXCEPT ![j] = a]
        BY <1>4 DEF GoonKnowing, Become
    <2>2. q.symbol \in known
        BY <1>4 DEF CacheToken, Cached, SameProcess
    <2>3. Eased(q, a, known)
        BY <1>1, GoonEases
    <2> HIDE DEF a, known
    <2>4. Rank(a.stage) < Rank(q.stage)
        BY <1>1, <2>2, <2>3 DEF Eased, Rank
    <2>5. Less(Work(a), Work(q))
        BY <1>1, <1>3, <2>3, <2>4, WorkLess
    <2> QED BY <2>1, <2>3, <2>5, EasedPending DEF Lowers
<1>5. CASE To(j, "newToken") /\ q.stage = "token"
    <2>1. job' = [job EXCEPT ![j] = [q EXCEPT !.stage = "newToken"]]
        BY <1>5 DEF To, Become
    <2>2. /\ "newToken" \in Calling \cup {"load", "fetch"} \cup Over
          /\ Rank("newToken") < Rank(q.stage) /\ "newToken" \notin Starting
        BY <1>5 DEF Calling, Rank, Starting
    <2>3. /\ Less(Work([q EXCEPT !.stage = "newToken"]), Work(q))
          /\ Pending([q EXCEPT !.stage = "newToken"])
        BY <1>1, <2>2, StageLess
    <2> QED BY <2>1, <2>3 DEF Lowers
<1>6. CASE Become(j, Goon([q EXCEPT !.page = Tail(@), !.clean = FALSE], caches[j].tok))
    <2> DEFINE r == [q EXCEPT !.page = Tail(@), !.clean = FALSE]
               known == caches[j].tok
               a == Goon(r, known)
    <2>1. Tail(q.page) \in Seq(Settlements) /\ Len(Tail(q.page)) < Len(q.page)
        BY <1>1 DEF JobType
    <2>2. /\ r \in JobType /\ r.batch = q.batch /\ r.page = Tail(q.page)
          /\ r.symbol = q.symbol /\ r.window = q.window /\ r.left = q.left
        BY <1>1, <2>1 DEF JobType
    <2>3. job' = [job EXCEPT ![j] = a]
        BY <1>6 DEF Become
    <2> HIDE DEF r
    <2>4. Sound(walk, r)
        BY <1>1, <2>2 DEF Sound
    <2>5. Eased(r, a, known)
        BY <1>1, <2>4, GoonEases
    <2> HIDE DEF a, known
    <2>6. Less(Work(a), Work(q))
        BY <1>1, <1>3, <2>1, <2>2, <2>5, WorkLess
    <2> QED BY <2>3, <2>5, <2>6, EasedPending DEF Lowers
<1> QED BY <1>4, <1>5, <1>6 DEF FindToken, NewToken, NewTokenFails, In

LEMMA FlushLess ==
    ASSUME JobsInv, NEW j \in Jobs, Pending(job[j]), Flush(j)
    PROVE  \E a : Lowers(j, a)
<1> DEFINE q == job[j]
           r == [q EXCEPT !.batch = <<>>]
           known == caches[j].tok
           a == Goon(r, known)
<1>1. q \in JobType /\ walk \in Walks /\ Sound(walk, q) /\ q.stage = "flush" /\ q.batch # <<>>
    BY JobFacts DEF Flush, In, Pending
<1>2. /\ r \in JobType /\ r.page = q.page /\ r.batch = <<>>
      /\ r.symbol = q.symbol /\ r.window = q.window /\ r.left = q.left
    <2>1. <<>> \in Seq(Records)
        OBVIOUS
    <2> QED BY <1>1, <2>1 DEF JobType
<1>3. job' = [job EXCEPT ![j] = a]
    BY DEF Flush, Become
<1> HIDE DEF r
<1>4. Sound(walk, r)
    <2>1. Len(r.batch) = 0 /\ BatchSize \in Nat
        BY <1>2, BackfillAssumption
    <2> QED BY <1>1, <1>2, <2>1 DEF Sound
<1>5. Eased(r, a, known)
    BY <1>1, <1>4, GoonEases
<1>6. SymbolsLeft(q) = Len(q.left) /\ Len(q.left) \in Nat
    BY <1>1, WorkType DEF SymbolsLeft, Starting
<1>7. Len(r.batch) < Len(q.batch)
    <2>1. q.batch \in Seq(Records)
        BY <1>1 DEF JobType
    <2>2. Len(q.batch) \in Nat \ {0}
        BY <1>1, <2>1
    <2>3. Len(r.batch) = 0
        BY <1>2
    <2> QED BY <2>2, <2>3
<1> HIDE DEF a, known
<1>8. Len(r.left) <= SymbolsLeft(q)
    BY <1>2, <1>6
<1>9. Less(Work(a), Work(q))
    BY <1>1, <1>2, <1>5, <1>7, <1>8, WorkLess
<1> QED BY <1>3, <1>5, <1>9, EasedPending DEF Lowers

LEMMA JobLess ==
    ASSUME JobsInv, PendingInv, NEW j \in Jobs, JobStep(j)
    PROVE  \E a : Lowers(j, a)
<1>1. Pending(job[j])
    BY DEF PendingInv
<1> QED BY <1>1, EarlyLess, LoadLess, FetchLess, TokenLess, FlushLess, RaiseLess DEF JobStep

LEMMA PendingStep ==
    ASSUME WritersInv, PendingInv, [WritersNext]_writerVars
    PROVE  PendingInv'
<1>1. job \in [Jobs -> JobType] /\ JobsInv
    BY DEF WritersInv, JobsInv
<1>2. CASE \E j \in Jobs : BackfillStep(j)
    <2>1. PICK j \in Jobs : JobStep(j)
        BY <1>2 DEF BackfillStep
    <2>2. PICK a : Lowers(j, a)
        BY <1>1, <2>1, JobLess
    <2>3. ASSUME NEW i \in Jobs PROVE Pending(job'[i])
        <3>1. job'[i] = IF i = j THEN a ELSE job[i]
            BY <1>1, <2>2 DEF Lowers
        <3> QED BY <2>2, <3>1 DEF Lowers, PendingInv
    <2> QED BY <2>3 DEF PendingInv
<1>3. CASE ~ \E j \in Jobs : BackfillStep(j)
    <2>1. UNCHANGED job
        BY <1>3 DEF WritersNext, Cycle, Others, Finished, writerVars, backfillVars
    <2> QED BY <2>1 DEF PendingInv
<1> QED BY <1>2, <1>3

(* Every step of a backfill leaves less to do, for any number of jobs,        *)
(* symbols and settlements, any walk, page, chunk and batch size, and         *)
(* whatever fails: there is no endless walk, no page that is asked for again  *)
(* and no record that is looked at for ever.                                  *)
THEOREM BackfillsGoForward == WritersSpec => BackfillsAdvance
<1> DEFINE Advances ==
        view = "backfill" =>
            \/ \E j \in Jobs : /\ Less(Work(job'[j]), Work(job[j]))
                              /\ \A i \in Jobs \ {j} : job'[i] = job[i]
            \/ Others
<1>1. WritersInit => PendingInv
    BY DEF WritersInit, BackfillInit, NewJob, PendingInv, Pending
<1>2. WritersInv /\ PendingInv /\ [WritersNext]_writerVars => PendingInv'
    BY PendingStep
<1>3. WritersInv /\ PendingInv /\ [WritersNext]_writerVars => [Advances]_writerVars
    <2> SUFFICES ASSUME WritersInv, PendingInv, WritersNext, view = "backfill",
                        ~UNCHANGED writerVars, ~Others
                 PROVE  \E j \in Jobs : /\ Less(Work(job'[j]), Work(job[j]))
                                        /\ \A i \in Jobs \ {j} : job'[i] = job[i]
        OBVIOUS
    <2>1. PICK j \in Jobs : JobStep(j)
        BY DEF WritersNext, Cycle, Finished, BackfillStep
    <2>2. job \in [Jobs -> JobType] /\ JobsInv
        BY DEF WritersInv, JobsInv
    <2>3. PICK a : Lowers(j, a)
        BY <2>1, <2>2, JobLess
    <2>4. job'[j] = a /\ \A i \in Jobs \ {j} : job'[i] = job[i]
        BY <2>2, <2>3 DEF Lowers
    <2> QED BY <2>3, <2>4 DEF Lowers
<1> QED BY <1>1, <1>2, <1>3, WritersBegin, WritersStep, PTL DEF WritersSpec, BackfillsAdvance
=============================================================================
