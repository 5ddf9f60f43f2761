-------------------------------- MODULE Backfill --------------------------------
(***************************************************************************)
(* BackfillService (app/services/backfill_service.py): two backfills that  *)
(* run side by side, of two exchanges in one process (run_all(), with its  *)
(* class-level caches) or of any exchanges in two processes.  They share    *)
(* the tables of exchanges and tokens with the DB writer (FundingPersist)   *)
(* and with the seed script.                                               *)
(***************************************************************************)
EXTENDS FundingPersist, HistoryPaging

CONSTANTS
    Jobs,           \* calls of backfill()
    Assignments,    \* which exchange each job may be for
    Listed,         \* the symbols of every exchange, a sequence of spellings
    Settlements,    \* times of funding settlements in the range
    ListedAt,       \* when each symbol was listed
    BatchSize       \* _BATCH_SIZE

NoSymbol == "none"

\* Settlements are hours apart.
ASSUME BackfillAssumption ==
    /\ Listed \in Seq(Spellings) /\ NoSymbol \notin Spellings /\ BatchSize \in Nat \ {0}
    /\ Settlements \subseteq Start..End /\ ListedAt \in [Spellings -> Nat]
    /\ \A t \in Settlements : t + 1 \notin Settlements
    /\ Assignments \subseteq [Jobs -> Exchanges]

VARIABLES
    recorded,       \* rows of funding_rates: <<exchange, symbol, time>>
    guard,          \* exchanges with a guard key in Redis
    walk,           \* the walk of the exchanges' adapters
    caches,         \* per job: keys of _exchange_cache and of _token_cache
    job             \* per job: what it is at

backfillVars == <<recorded, guard, walk, caches, job>>

Over == {"done", "skipped", "failed"}
Calling == {"guard", "exchange", "newExchange", "token", "newToken", "flush", "mark"}

\* A symbol has a record of every settlement since it was listed.
History(s) == {t \in Settlements : t >= ListedAt[s]}
Records == ToSet(Listed) \X Settlements

BackfillTypeOK ==
    /\ recorded \subseteq Exchanges \X Symbols \X Settlements
    /\ guard \subseteq Exchanges
    /\ walk \in Walks
    /\ caches \in [Jobs -> [ex : SUBSET Exchanges, tok : SUBSET Spellings]]
    /\ \A j \in Jobs :
        /\ job[j].exchange \in Exchanges
        /\ job[j].stage \in Calling \cup {"load", "fetch"} \cup Over
        /\ job[j].left \in Seq(Spellings) /\ job[j].symbol \in Spellings \cup {NoSymbol}
        /\ job[j].window \in Windows /\ job[j].page \in Seq(Settlements)
        /\ job[j].batch \in Seq(Records) /\ Len(job[j].batch) <= BatchSize
        /\ job[j].clean \in BOOLEAN

\* "clean" is history: no request of the job failed and no record was dropped.
NewJob(e) ==
    [exchange |-> e, stage |-> "guard", left |-> <<>>, symbol |-> NoSymbol,
     window |-> Broken, page |-> <<>>, batch |-> <<>>, clean |-> TRUE]

BackfillInit ==
    /\ recorded = {} /\ guard = {} /\ walk \in Walks
    /\ caches = [j \in Jobs |-> [ex |-> {}, tok |-> {}]]
    /\ \E of \in Assignments : job = [j \in Jobs |-> NewJob(of[j])]

-----------------------------------------------------------------------------
(* The loop over the records, from one await to the next.                    *)

Become(j, r) == job' = [job EXCEPT ![j] = r]
To(j, stage) == Become(j, [job[j] EXCEPT !.stage = stage])
In(j, stage) == job[j].stage = stage
ExchangeOf(j) == job[j].exchange
SymbolOf(j) == Upper[job[j].symbol]

\* The generator is asked for its next record when a page is used up: the next
\* request, the next symbol, or the end, where the rest of the batch is left.
Advanced(r) ==
    LET more == r.symbol # NoSymbol /\ Goes(walk, r.window)
    IN CASE more -> [r EXCEPT !.stage = "fetch"]
         [] ~more /\ r.left # <<>> ->
                [r EXCEPT !.stage = "fetch", !.symbol = Head(r.left), !.left = Tail(r.left),
                          !.window = First(walk)]
         [] OTHER ->
                [r EXCEPT !.stage = IF r.batch = <<>> THEN "mark" ELSE "flush", !.symbol = NoSymbol]

\* Records of a known token are taken until the batch is full.
Taken(r) ==
    LET count == Min({BatchSize - Len(r.batch), Len(r.page)})
        filled == [r EXCEPT !.page = SubSeq(r.page, count + 1, Len(r.page)),
                            !.batch = @ \o [i \in 1..count |-> <<r.symbol, r.page[i]>>]]
    IN IF Len(filled.batch) >= BatchSize THEN [filled EXCEPT !.stage = "flush"]
       ELSE Advanced(filled)

\* On to the next await.
Goon(r, known) ==
    CASE r.page = <<>> -> Advanced(r)
      [] r.page # <<>> /\ r.symbol \in known -> Taken(r)
      [] OTHER -> [r EXCEPT !.stage = "token"]

-----------------------------------------------------------------------------

\* The guard key is looked at; a recent run means there is nothing to do.
LookAtGuard(j) ==
    /\ In(j, "guard")
    /\ To(j, IF ExchangeOf(j) \in guard THEN "skipped" ELSE "exchange")
    /\ UNCHANGED <<dbVars, recorded, guard, walk, caches>>

\* run_all() gives each exchange to one job: two for the same exchange are in
\* different processes.
SameProcess(i, j) == i = j \/ ExchangeOf(i) # ExchangeOf(j)

\* Every job of the process sees what is put in a class-level cache.
Cached(j, ex, tok) ==
    [i \in Jobs |-> IF SameProcess(i, j)
        THEN [ex |-> caches[i].ex \cup ex, tok |-> caches[i].tok \cup tok] ELSE caches[i]]

CacheExchange(j) == caches' = Cached(j, {ExchangeOf(j)}, {})
CacheToken(j) == caches' = Cached(j, {}, {job[j].symbol})

\* _ensure_exchange(): the cache, then a select.
FindExchange(j) ==
    /\ In(j, "exchange")
    /\ IF ExchangeOf(j) \in caches[j].ex \cup dbExchanges
         THEN To(j, "load") /\ CacheExchange(j)
         ELSE To(j, "newExchange") /\ UNCHANGED caches
    /\ UNCHANGED <<dbVars, recorded, guard, walk>>

\* Its insert.
NewExchange(j) ==
    /\ In(j, "newExchange") /\ ExchangeOf(j) \notin dbExchanges
    /\ dbExchanges' = dbExchanges \cup {ExchangeOf(j)}
    /\ CacheExchange(j) /\ To(j, "load")
    /\ UNCHANGED <<dbTokens, recorded, guard, walk>>

\* The symbols are known from before, or fetched now; without them nothing is yielded.
Load(j) ==
    /\ In(j, "load")
    /\ \/ Become(j, Advanced([job[j] EXCEPT !.left = Listed]))
       \/ Become(j, Advanced([job[j] EXCEPT !.clean = FALSE]))
    /\ UNCHANGED <<dbVars, recorded, guard, walk, caches>>

\* A request for a page, answered or failed for good.
Fetch(j) ==
    LET window == job[j].window
        page == Answer(walk, window, History(job[j].symbol))
    IN /\ In(j, "fetch")
       /\ \/ Become(j, Goon([job[j] EXCEPT !.page = page, !.window = After(walk, window, page)],
                            caches[j].tok))
          \/ Become(j, Advanced([job[j] EXCEPT !.window = AfterError(walk, window), !.clean = FALSE]))
       /\ UNCHANGED <<dbVars, recorded, guard, walk, caches>>

GoonKnowing(j) == Become(j, Goon(job[j], caches'[j].tok))

\* Mutant of FindToken: the id of a new row is cached before its commit.
FindTokenEarly(j) ==
    /\ In(j, "token") /\ CacheToken(j)
    /\ IF SymbolOf(j) \in dbTokens THEN GoonKnowing(j) ELSE To(j, "newToken")
    /\ UNCHANGED <<dbVars, recorded, guard, walk>>

\* _ensure_token() of a name that is not cached: a select.
FindToken(j) ==
    /\ In(j, "token")
    /\ IF SymbolOf(j) \in dbTokens THEN CacheToken(j) /\ GoonKnowing(j)
       ELSE To(j, "newToken") /\ UNCHANGED caches
    /\ UNCHANGED <<dbVars, recorded, guard, walk>>

\* Its insert.
NewToken(j) ==
    /\ In(j, "newToken") /\ SymbolOf(j) \notin dbTokens
    /\ dbTokens' = dbTokens \cup {SymbolOf(j)}
    /\ CacheToken(j) /\ GoonKnowing(j)
    /\ UNCHANGED <<dbExchanges, recorded, guard, walk>>

\* The insert fails: the row is looked up; without it the record is dropped.
NewTokenFails(j) ==
    /\ In(j, "newToken") /\ (SymbolOf(j) \in dbTokens \/ Faults)
    /\ IF SymbolOf(j) \in dbTokens THEN CacheToken(j) /\ GoonKnowing(j)
       ELSE /\ Become(j, Goon([job[j] EXCEPT !.page = Tail(@), !.clean = FALSE], caches[j].tok))
            /\ UNCHANGED caches
    /\ UNCHANGED <<dbVars, recorded, guard, walk>>

RowsOf(r) == {<<r.exchange, Upper[d[1]], d[2]>> : d \in ToSet(r.batch)}

\* _upsert_batch(): rows that are there already are left as they are.
Flush(j) ==
    /\ In(j, "flush")
    /\ recorded' = recorded \cup RowsOf(job[j])
    /\ Become(j, Goon([job[j] EXCEPT !.batch = <<>>], caches[j].tok))
    /\ UNCHANGED <<dbVars, guard, walk, caches>>

\* The guard key is written, whatever the generator yielded.
Mark(j) ==
    /\ In(j, "mark")
    /\ guard' = guard \cup {ExchangeOf(j)}
    /\ To(j, "done")
    /\ UNCHANGED <<dbVars, recorded, walk, caches>>

\* An exception leaves backfill(): a call of Redis or the database failed, or
\* another writer inserted the exchange first.  run_all() logs it.
Raise(j) ==
    /\ \/ Faults /\ job[j].stage \in Calling
       \/ In(j, "newExchange") /\ ExchangeOf(j) \in dbExchanges
    /\ Become(j, [NewJob(ExchangeOf(j)) EXCEPT !.stage = "failed"])
    /\ UNCHANGED <<dbVars, recorded, guard, walk, caches>>

JobStep(j) ==
    \/ LookAtGuard(j) \/ FindExchange(j) \/ NewExchange(j) \/ Load(j) \/ Fetch(j)
    \/ FindToken(j) \/ NewToken(j) \/ NewTokenFails(j) \/ Flush(j) \/ Mark(j) \/ Raise(j)
=============================================================================
