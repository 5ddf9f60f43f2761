# Funding Radar: TLA+ models and proofs

Funding Radar is one asyncio process (FastAPI under a single uvicorn worker) that collects funding
rates of perpetual futures from four exchanges, ranks them, looks for arbitrage pairs, stores
history in TimescaleDB, streams updates over WebSockets, alerts subscribers over Telegram and sells
a Pro tier through Stripe. Redis is its message bus, its cache and the place where throttles and
rate limits live. Paths below are relative to the repository root.

Nothing in it runs in parallel on one core's memory, yet almost everything runs side by side: every
`await` is a point where another task, another request, a webhook or the bot may run. The models
split each handler at the awaits after which the state it read may have changed, and let everything
else run in between.

## 1. The system

| component | state it keeps | operations | talks to |
|---|---|---|---|
| exchange collectors (`app/collectors/base.py`, four adapters) | request window `_request_times`, HTTP session, tasks, asset metadata | REST poll, WebSocket with back-off, hourly history, publish | exchanges; Redis channel `funding:updates`, keys `funding:latest:{exchange}:{token}` |
| `CollectorRegistry` (`app/collectors/registry.py`) | `_instances`, `_running`, watchdog task | start_all, stop_all, restart, watchdog | collectors |
| `DataNormalizer` (`app/processors/normalizer.py`) | `_snapshots`, `_token_views` | update, purge_stale, queries | called by FundingService |
| `ArbitrageCalculator`, `FundingAggregator` | last results | calculate and publish | read the normalizer; Redis keys `arbitrage:current`, `funding:ranked` and their channels |
| `FundingService` (`app/services/funding_service.py`) | update counter, time of the last recalculation, four tasks | subscriber, timed recalculation, DB writer, purge | all of the above, database |
| `RedisBridge`, `WebSocketManager`, `/ws/funding` | channels, connections, `last_sent`, a lock | dispatch; connect, subscribe, broadcast, heartbeat, disconnect | Redis channels; clients |
| `NotificationService`, `TelegramSender` | Redis: `notif:rules_cache`, `notif:throttle:{user}:{token}` | check every 30 s, alert | `arbitrage:current`, rules in the database, Telegram |
| Telegram bot (`app/bot/telegram_bot.py`) | database: chat ids, rules | /start, /setalert, /removealert, read-only commands | database, `notif:rules_cache` |
| auth (`app/api/deps.py`, `app/dependencies.py`, `app/api/v1/auth.py`) | Redis: `auth:tier:{api_key}`, `auth:user_api_key:{user_id}` | resolve tier or user, regenerate key, register, login | users table |
| payments (`app/services/payment_service.py`, `app/api/v1/webhooks.py`) | users: tier, Stripe customer | checkout, webhook events, cache bust | Stripe, users table, auth keys |
| rate limiter (`app/utils/rate_limiter.py`) | Redis hash per bucket; `_sha` in the process | check (Lua script) | every rate-limited request |
| `BackfillService` and scripts | Redis guard key; class-level id caches | run_all, backfill | collectors, database |
| APR windows (`app/processors/apr_windows.py`) | Redis copies, 60 s | get_windows, get_pair_windows | funding_rates; alerts and REST API |
| lifespan and scheduler (`app/main.py`, `app/core/scheduler.py`) | the singletons | ordered start and stop; interval jobs | everything |
| REST API, schemas, models, migrations | none beyond Redis and the database | read | Redis, database |

What is hard, and what makes each part correct (the hazards of `PROJECT.json` give the lines):

- **FundingService**: two tasks recalculate with awaits between computing and storing; the other
  task may run between. Correct: the two indexes of the store agree, stale data leaves the store in
  bounded time, recalculation never pauses longer than its period allows, an older result that
  overwrote a newer one is repaired, a silent feed is withdrawn.
- **DB writer**: one failed flush rolls back a whole transaction while the loop goes on with ids
  of rows that are gone. Correct: a cycle ends, and stores everything when nothing disturbed it.
- **Notifications**: throttle key, send and release are three steps with failures and crashes
  between, several rules share a key, and the rules come from a copy that others invalidate.
  Correct: alerts keep their distance, follow the rules as they are, and are not silenced for good.
- **Accounts**: caches are filled from rows read earlier, by requests, key regeneration and
  webhooks at once; Stripe's events come late, twice, out of order. Correct: the caches agree with
  the row after their time to live at the latest; a subscription that ended gives no tier.
- **Rate limits**: clock readings taken before an await, keys that expire, a restarting Redis,
  sleepers that wake together. Correct: no token twice, none withheld; a bounded overshoot.
- **Collectors**: a window shared by fetches that sleep side by side, retries behind it, WebSocket
  caches that outlive their connection, symbol lists loaded once. Correct: a bounded overshoot, a
  growing back-off, what is published converges to the market, a delisted symbol goes silent.
- **Registry, WebSockets, lifespan**: the watchdog restarts while the shutdown begins, clients vanish
  without a word, a start fails half-way. Correct: nothing outlives the stop of its owner, every
  part but a last notification check ends before Redis is closed, the shutdown ends, clients that
  are gone are unregistered.
- **Backfill and history paging**: guards read early and written late, caches of ids that outlive a
  failed job, pages and batches whose boundaries fall anywhere. Correct: a backfill without a
  failure leaves no hole, all end, cached ids are those of rows.

## 2. Modules

| module | models | run by |
|---|---|---|
| `Normalizer` | the store of the latest snapshots and its purge | through `FundingService` |
| `FundingService` | subscriber, timed recalculation, purge, restart, both calculators, the two Redis keys | `FundingService.cfg`, `FundingService_legs.cfg` |
| `FundingPersist` | one cycle of the DB writer next to other writers | through `DbWriters`; `MCFundingPersist` with `FundingPersist_mixed.cfg` |
| `HistoryPaging` | the page walks of the adapters' `_fetch_history_range()` | through `Backfill` |
| `Backfill` | `BackfillService`: guard, id caches, creation of rows, batches, upserts | through `DbWriters` |
| `DbWriters`, `MCDbWriters` | the DB writer and the backfills on the tables they share | `DbWriters.cfg` |
| `Notification` | check, alerts, throttle keys, rules copy, bot commands, tier changes, crash | `Notification_safe.cfg`, `Notification_live.cfg` |
| `Accounts`, `MCAccounts` | one account: row, two cached keys, requests, key regeneration, Stripe | `Accounts.cfg`, `Accounts_bust.cfg` |
| `TokenBucket` | `TokenBucket.check()` and the Lua script, with outages | `TokenBucket.cfg`, `TokenBucket_outage.cfg` |
| `IdealBucket` | what a token bucket promises | refined by `TokenBucket` |
| `RateWindow` | `_rate_limit()`, `_fetch_rest()` and Aster's weight guard | through `Collector` |
| `Feed` | `start()`, poll loop and WebSocket loop of the four adapters, for one symbol | through `Collector` |
| `Collector` | both sides of one collector | `Collector.cfg` |
| `Registry` | `CollectorRegistry`: start, watchdog, restart, stop | through `Lifespan` |
| `Streams` | `WebSocketManager` and the endpoint `/ws/funding` | through `Lifespan` |
| `Lifespan` | `lifespan()`: all parts started and stopped, the bridge's task | `Lifespan.cfg` |
| `FundingService_proofs`, `TokenBucket_proofs`, `Notification_proofs`, `Accounts_proofs`, `DbWriters_proofs`, `Collector_proofs`, `Lifespan_proofs` | theorems about these modules and those they extend | |
| `SetLemmas` | induction, recursion and counting as facts about sets, for the proofs | |

Composition is by EXTENDS where components act on shared state: `FundingService` calls the store's
operators as the Python methods are called, `Lifespan` is composed of `Registry` and `Streams`,
`DbWriters` of `Backfill` (on `HistoryPaging`) and `FundingPersist`, `Collector` of `RateWindow`
and `Feed`. `TokenBucket` instantiates `IdealBucket` with the level a request would find at this
moment.

`Collector` and `DbWriters` have a variable `view`, chosen at the start and never changed: their two
halves meet in little, and following one of them at a time gives up nothing. A fetch in `Feed`
takes any time and ends either way, so whatever `RateWindow` does to a request is a behaviour of
`Feed`, and `RateWindow` reads nothing of `Feed` but the adapter. The DB writer and the backfills
meet in the tables of exchanges and tokens only; each of them adds rows there and none updates or
deletes one, and in either view the rows of all others appear at any time (`OtherWriter`). Nobody
reads `funding_rates`.

### How state and actions correspond to the code

**Normalizer.** `snapshots` is `_snapshots`, `tokenViews` is `_token_views`; `Absent` means the key
is not in the dict, so that "a view that holds nothing" and "no view" differ, as they do in the
code. Snapshots carry their age, `now - received_at`, in place of the time; ages saturate.

**FundingService.** `inbox` is the subscriber's socket, `pc` and `wait` say where each of the two
recalculating tasks is and how long it has slept or waited. `HandleMessage` is the whole of
`_handle_message()` up to its first await, the recalculation it triggers included; `ArbPublished`
is the moment Redis answers (or fails) the first pipeline, after which the ranking is computed;
`RankPublished` the second. `Restart` is `stop()`/`start()` or a crash: memory is gone, Redis keys
stay, and a command that was under way may still have been executed. Equal rates leave open which
exchange `sorted()` puts first, hence `BestPairs` is a set.

**FundingPersist.** `todo` is what is left of the loop, `exchanges` and `tokens` are the two dicts
(an id is "gone" when its row was rolled back), `tx` and `rows` what the open transaction created
and merged. A merge with a "gone" id fails at the next flush or at the commit (the foreign key).
A flush inside the token branch that fails is handled by rollback and lookup, every other error
ends the cycle through `get_db_session()`.

**Backfill and HistoryPaging.** `job[j]` is a call of `backfill()`: the await it is at, the symbols
left to the generator, the window it asks for next, the page and the batch in hand. `Advanced`,
`Taken` and `Goon` are what the loop does between two awaits. `caches` are the class-level dicts,
shared by the jobs of one process (`run_all()`), apart for two processes. `First`, `Goes`,
`After` and `AfterError` are the loop conditions and window arithmetic of the adapters: chunks of
time that go on after an error (Hyperliquid), pages forward from `last_ts + 1` (Aster), pages
backward from `last_ts - 1` (Extended); Pacifica yields nothing.

**Notification.** `check` is where `check_and_notify()` is; each dispatched rule has its own stage in
`alerts`, since `asyncio.gather()` runs the alerts side by side. Bot commands are a commit and,
later, the deletion of the rules copy. Three ways a send can end are told apart: delivered and
answered, delivered and the answer lost, not delivered.

**Accounts.** A worker is one request being served, `job` its position; a request takes less than a
tick, a cached key lives `CacheTTL` ticks. `full` tells `_resolve_user_from_api_key()` (reads the
row always, writes both keys) from `get_current_user_tier()` (trusts a hit, writes one). Stripe
(external) keeps `subs`, `payer` and the undelivered `events`.

**TokenBucket.** `stamp` holds how old each client's `time.time()` is, `bucket` the hash with the age
of `last_refill` and the time since `EXPIRE`. `Evaluate` is the whole Lua script, which Redis runs
as one step. `Stop` forgets the loaded script and perhaps the keys; `sha` stays set.

**RateWindow.** `times` is `_request_times`, `caller` the fetches running side by side, `sent` a
history of all HTTP requests, retries included; `heavy` and `windowAge` are Aster's
`_current_weight` and `_weight_window_start`.

**Feed.** One symbol of one exchange: `market` is what the exchange would answer, `snap` what the
adapter keeps from its WebSocket (a price; for Aster price and rate), `active` and `ticker` its
list of symbols and volumes, `poll` and `ws` where the two loops are, `row` the last row
published. `kind` chooses the adapter; what differs among them is a guard or an alternative of
the same action. A REST answer carries the market of the moment it is given.

**Registry.** `inst[n]` is the latest instance of a collector: its stage, its live tasks, its HTTP
session. `watchdog` and `walk` are the restart the watchdog is in; `restart()` takes the instance
out of `held` (`_instances`) before it awaits `stop()`, and `StopAll` may cancel it at each of its
awaits. A task dies when a library call raises `CancelledError`; every other error is logged by
the loop.

**Streams.** Every section under `_lock` runs without an await and is one step. `endpoint[c]` is
`funding_ws()` for one WebSocket, `todo` and `dead` the heartbeat's lists, taken before its pings.
`Subscribe` is what `subscribe()` does: `ConnectionInfo` is a dataclass with `__eq__` and without
`__hash__`, so `set.add()` raises and the endpoint ends.

**Lifespan.** `step` is the position in the startup or shutdown sequence. `StopBot` on a bot that does
not poll leaves it as it is (`updater.stop()` raises), `StopScheduler` only asks for the shutdown,
which the event loop runs later (`SchedulerStops`).

Variables commented "history" observe the run; no guard of the code's actions reads them.

## 3. What is checked

Passing runs:

- **funding_service**: `ViewsAgree`, `AgeBounded`, `RecalcGap` (safety), `SilentFeedWithdrawn`,
  `OverwriteRepaired` (liveness). Two exchanges, one token, an inbox of one, N = 2. The timers keep
  the order of the real ones (10 s, 120 s, 300 s) and each is small but distinct enough for every
  order of expiries; one rate is enough as the properties do not compare rates.
- **writers**: `CanonicalPersisted` over every order of up to three snapshots of two exchanges and
  three spellings, any initial rows, faults and other writers: three is the first size at which a
  rollback can lose a row, leave a stale id and meet it again. A cycle that a fault or another writer
  disturbed may lose its rows; checked is that it ends and that the next undisturbed one stores
  everything. `Complete`,
  `CachedRowsExist`, `BackfillsAdvance` over two jobs (of one exchange in two processes, or of two in
  one) and the three walks, with the first and the last settlement on the ends of the range, pages
  of two, batches of three, chunks of two: each boundary falls before, on and behind the others. A
  symbol listed just before the last settlement gives a short page. `WritersEnd` (liveness): each
  cycle and all backfills end. `BackfillsAdvance` is its safety half for the page walks, whose loops
  run until their window has passed: a measure of what is left falls with every step.
- **notification_safe**: `AlertsSpaced`, `AlertsSettle`. Two rules on the same token of one user,
  which is what shares a throttle key; a second user shares nothing but the rules copy. Throttle
  of two ticks, copy of one.
- **notification_live**: `LastingRuleAlerts`. One rule, all failures, lost replies included.
- **accounts**: `CacheSettles`, `EndedIsFree`. Two workers (a race needs two), two keys (one
  regeneration), two sessions (one replaced customer). Workers and keys are symmetric: no action
  names one.
- **token_bucket**: `NeverOverdrawn`, `NeverShort`, `ImplementsIdeal` (the refinement). Capacity 7,
  token 3, rate 2 make every remainder occur; requests that are late by up to two ticks overtake each
  other by one or two; TTL 6 is the least that satisfies the assumption that an idle bucket is full
  before its key expires. `delay` is chosen at the start: the refinement is about the behaviours
  with `delay = 0`, in which every request reaches the script in the tick of its clock reading. Three
  clients and a delay of three were tried and agree.
- **collectors**: `Overshoot`, `SentBounded` with two callers, limit two, two attempts, a window of
  three, with and without the weight guard; larger instances (three callers, limit three, three
  attempts) were tried and agree with the bounds. `BackoffGrows`, `Converges`, `DelistedStops` for
  each adapter: two quotes are what "stale" and "current" need, four failures go past the longest
  delay (Pacifica is outside `BackoffGrows`: its `_run_ws()` keeps errors to itself and pauses 5 s).
- **lifespan**: `StoppedForGood`, `RedisOutlivesUsers`, `RegisteredServed`, `ShutdownAdvances`
  (safety), `Revived`, `ShutdownEnds`, `GoneUnregistered` (liveness). Two collectors, one that loads
  symbols in `start()` and one that does not, so that the watchdog can be in the restart of either
  with the other still to come; two connections, so that the heartbeat's lists can differ from
  what is there. `ShutdownEnds` asks for more than an end: nothing is on or open behind it (`AllOff`),
  which a bot that refuses to stop would prevent if its runner let the exception out
  (`telegram_bot.py:541`).

Runs that end in a violation, each a disagreement between the code and what it says of itself:

- **funding_service_legs** (`OnlyLiveLegs`): stale snapshots are said to be excluded from arbitrage
  (`funding_service.py:32`), yet the legs come from `all_snapshots()`.
- **funding_persist_mixed** (`AllPersisted`): "Write all current snapshots" (`funding_service.py:212`),
  yet a token spelled in mixed case rolls back what was merged before it, in every cycle.
- **accounts_bust** (`NewTierReflected`): "so the new tier is reflected immediately"
  (`payment_service.py:158`), yet the reverse key it needs is not written by the usual request.
- **token_bucket_outage** (`OpenOnlyInOutage`): fail open on Redis failure (`rate_limiter.py:149`),
  yet after one restart of Redis the cached script hash makes it fail open for good.

Some properties are stated under a condition because the code does not promise more. Dropping the
condition shows: with lost Telegram replies two alerts may follow each other at once; a late or
repeated completion after a deletion leaves the user pro; a user who lapsed is alerted until the
rules copy expires; the tier of a regenerated key may be cached from the row read before a webhook;
with late requests the bucket may be ahead by `Rate` per tick of delay; several fetches exceed
the exchange's limit, and retries are not counted in it; a symbol listed after the adapter's start
is never followed by Aster, Extended or Pacifica (`Followed`); a failed fetch leaves a hole that the
guard key hides for 23 hours.

Disagreements the model records as what the code does, without a run of their own:

- "Uses a Lua script for atomic evaluation so there are no race conditions even across multiple worker
  processes" (`rate_limiter.py:6`): the clock is read before the script is called (`rate_limiter.py:130`),
  and a request that was overtaken sets `last_refill` back (`rate_limiter.py:88`), so that the time
  between the two readings is refilled twice. `NeverOverdrawn` counts this time again (`Again`) and
  shows that nothing else is handed out twice.
- Nobody can subscribe to a channel of `/ws/funding`. "Add the client to the requested channels."
  (`websocket_manager.py:136`) and the protocol of `funding_stream.py:9-17` end in a disconnect, since
  `ConnectionInfo` is not hashable and `set.add()` raises (`websocket_manager.py:141`). `Subscribe`
  is this step: it leaves an empty channel behind and ends the connection, so that every broadcast of
  the bridge finds nobody. It has no run of its own: the step itself is the disagreement.
- "Persisted %d/%d funding snapshots to DB." (`funding_service.py:296`) counts rows that a rollback took
  back: `inserted` is not reset with the transaction.
- The watchdog restarts a collector only when all of its tasks are done (`registry.py:156`); one
  whose poll loop alone has ended is left as it is (`registry.py:12-13`: "monitors for unexpected task
  exits and restarts them"). `Revived` is stated accordingly.
- A restart that `stop_all()` cuts off leaves the HTTP session of that instance open
  (`base.py:174`: "Cancel all tasks and close the HTTP session gracefully"), which `StoppedForGood`
  allows for `"cut"` instances only.
- `shutdown_scheduler()` says "waiting for running jobs" (`scheduler.py:61`); the asyncio scheduler
  cancels them, after `shutdown()` has returned.
- When Aster's WebSocket is down its rates stay at those last received: `premiumIndex` fills
  entries that are missing and replaces none (`MergePremium`).
- `scripts/global_backfill.py` uses `HyperliquidCollector`, `AsterCollector` and `backfill_service`
  without importing or making them.

Deadlock is checked in every run.

### Fairness

*FundingService*: weak fairness on each task's step, on the timers and on the tick: the event loop
runs ready tasks in order and the clock goes on. Redis answers or fails within `MaxLatency` ticks;
redis-py is used without a socket timeout, so this is an assumption about the network. No fairness
on collectors, on success of a command or on disconnects. *DbWriters*: weak fairness on the cycle
and the jobs together: each is awaited and every call returns or raises. *Notification*: weak
fairness where a step stays possible, strong fairness where failure, crash or a competing alert
takes it away again and again (a call tried for ever succeeds at times; the scheduler starts a check
every 30 s). *Collector*: weak fairness on the steps of the poll loop (a fetch has a timeout), on
the reconnect and on the tick; strong fairness on an answer, a reload, a publication, a connection
and a message: an exchange that is asked again and again answers at times. None on the market,
on listings, or against failures in between. *Lifespan*: weak fairness on the steps of startup and
shutdown, on the end of the cancelled bridge, on the watchdog and on the heartbeat; strong fairness
on a ping that finds a dead client: TCP gives up on it in the end. Tasks die, clients vanish and
signals come at will. Safety runs assume no fairness.

## 4. What is proved

All proofs are checked by TLAPS, for every value of the constants that satisfies the named
assumptions (`NormalizerAssumption`, `FundingServiceAssumption`, `BucketAssumption`,
`NoneAssumption`, `NotificationAssumption`, `AccountsAssumption`, `PersistAssumption`,
`PagingAssumption`, `BackfillAssumption`, `RateWindowAssumption`, `FeedAssumption`,
`RegistryAssumption`), which TLC evaluates on the instances. Most say that a bound is a positive number or
a set finite. Four say something of the code:
- `BucketAssumption`: an idle bucket is full before its key expires, also for the latest request. The
  slowest tier of `_TIER_CONFIG` fills up in 30 s, the key lives 120 s.
- `PagingAssumption`: no chunk of Hyperliquid's walk begins at the end of the range (its loop would end
  before it); chunks are a millisecond longer than whole days and ranges are whole days.
- `BackfillAssumption`: settlements are not neighbours. The walks by pages end when their cursor, a
  millisecond behind the last record, reaches the end of the range; a record there would be lost if
  the one before was its neighbour. Settlements are hours apart.
- `PersistAssumption`: `upper()` twice is `upper()` once.

Induction over data (how long a page is, how often the back-off doubled, how many entries the window
holds) is put into sets: `SetInduction` says that a set of numbers with zero and every successor has all
of them, `Recursion` that a function defined by recursion takes the values its equations say. Both
follow from the least element of a set of numbers and need no operator as a parameter.

**FundingService_proofs**
- `TypeCorrect`, `ViewsAlwaysAgree`: inductive as they stand, given the type invariant; the work is
  in `Update`, `PurgeStale` and `AgeStore`, which are proved as lemmas about the store alone.
- `AgesBounded`: not inductive. The strengthening relates a snapshot's age to the purge timer: the
  time since the last purge plus the limit bounds every age.
- `GapBounded`: not inductive. The strengthening says, for each position of the timed task, how
  `sinceRecalc` relates to its timer: while it sleeps the two together stay within the bound, while
  its commands are in flight it has itself just stamped the time.

**TokenBucket_proofs**
- `TypeCorrect`: the age of `last_refill` exceeds the time since `EXPIRE` by at most the clock delay.
- `NothingWithheld`: a script that runs with an old clock sets `last_refill` back, never past what it
  refilled, so the level falls by no more than the token it takes.
- `OverdrawnBounded`: not inductive. The strengthening (`Covered`) looks at the latest request there can
  be: what it would find is covered by the count and by what it would set back. A later reading finds
  more by what is refilled in between (`LaterFindsMore`), so each script keeps it; the tick in which a
  key expires keeps it as the bucket was full by then (here the assumption on the TTL is needed).
- `ScriptImplementsIdeal`: with prompt requests the two bounds meet, the level is the count, and each
  step of the script is one of the ideal bucket.

**Notification_proofs**
- `TypeCorrect`; with it `CheckInv`: an alert runs only in a check, by a rule that check loaded.
- `AlertsKeepDistance` (assuming `~LostReplies`): `SpacedInv` says that what is left of a throttle key
  and the time since the last alert under it add up to the throttle's time to live, and that at
  most one alert holds a key, with both at their full value. So the release after a failed send
  deletes only its own key.
- `AlertsFollowRules`: `SettledInv` follows stale rules through the steps of a check: rules in hand
  that are not the database's mean that the rules changed in this tick, a stale copy in Redis that
  its remaining life and the quiet time fit into `CacheTTL`.

**Accounts_proofs**
- `TypeCorrect`: the queue of events is bounded by counting: each undelivered event is the completion or
  the deletion of its own session, so paid and ended sessions together bound their number.
- `CachesSettle`: no request outlives a tick, so after a quiet one every job's data is current; a
  cached key that is wrong was written before, so its remaining life and the quiet time fit into
  `CacheTTL`.
- `EndedSessionsAreFree`: `StripeInv` looks ahead in the queue of events. The customer whom the last
  completion will leave on record (the one on record, when none is to come) has a deletion behind
  it in the queue, or a subscription whose end is still to come.

**DbWriters_proofs**
- `CachedIdsExist`: rows are never deleted, and an id is cached only after its commit; the caches
  of a process hold for each of its jobs.
- `UndisturbedPersists`: while nothing disturbs the cycle and all spellings are canonical, the two
  dicts agree with the tables and the open transaction (`CleanDicts`), the rows merged and those to
  come make up the batch (`Accounted`), and none refers to a row that is gone (`ValidRows`).
- `TypeCorrect`: pages, windows and batches keep their ranges and sizes (`JobType`); a cycle takes as many
  snapshots as are left of it.
- `CleanBackfillsComplete`: two inductions. Within a walk, `WalkOn` shows that a page together with the
  window asked for behind it brings what the window before was to bring, for each walk: full pages cut
  off at their last record, short ones, empty ones, chunks that follow each other. Across the steps,
  `Unlost` says of each record of a backfill without a failure that it is recorded, in the batch,
  in the page, ahead of the window, or of a symbol left to the generator (`Holds`); with nothing left,
  it is recorded. Records are never deleted, so other writers and other jobs cannot disturb it.
- `BackfillsGoForward`: symbols left, the range still to ask for, records in the page, records in the
  batch, awaits until the next of these (`Work`). Each walk asks for less behind every page and
  after every error (`WalkLess`), from the same facts about pages as `WalkOn`. `PendingInv`
  is the strengthening: a batch is flushed when it holds something, and symbols are read once;
  otherwise a flush would leave the work as it was, or a job could take its symbols up again.

The measure is a tuple of natural numbers, so no backfill takes infinitely many steps; with the
fairness of §3 and the absence of deadlock, which TLC checks, that is its half of `WritersEnd`. This
last step is not a theorem.

**Collector_proofs**
- `TypeCorrect`: among others that no sleep is negative: `_rate_limit()` sleeps for an entry that is
  still in the window.
- `OvershootBounded`: sleepers that are due will stamp their requests without another look, so they are
  counted as if they had (`OvershootInv`). How many entries share an age is not bounded by the limit,
  but the number of places is: a place is the first entry of an age, or one with as many entries
  of its age behind it as there are other callers. No step makes more than `Limit` places, and as many
  entries as there are callers fit into each.
- `RequestsBounded`: requests are compared with stamps. What a caller may still send on a stamp it made
  is owed; for every age `a`, what was sent in the last `a` ticks and what is owed is covered by the
  attempts of the fetches stamped in them and of one fetch for each caller (`SentCovered`). With the
  bound on the stamps this is the property.
- `ReconnectsBackOff`: the next delay is a function of the failures, and what the history counted is the
  sum of the delays before, less what is left of the present sleep (`BackoffInv`).

**Lifespan_proofs**
- `TypeCorrect`, and one inductive invariant in three parts: what a restart the watchdog is in says of
  its instance (`WatchdogInv`, `InstInv`); connections have an endpoint (`StreamInv`);
  which parts are off once startup or shutdown has passed them (`LifeInv`).
- From it, for any sets of exchanges, connections and channels and wherever a start failed:
  `NothingOutlivesStop` (the watchdog and the collectors), `RedisClosedLast` (collectors, watchdog,
  the tasks of FundingService, bridge and polling bot; a notification check that is under way is
  the exception) and `ConnectionsServed`.
- `ShutdownGoesOn`: what is left of a shutdown (`Undone`) is a record of sets: its steps, endpoints,
  parts to be told, collectors at work, collectors not stopped. No step adds to one of them, and each
  step of the shutdown takes something out of one (`Shrinks`). `WatchdogInv` is what it rests on: the
  watchdog acts only while the registry runs, so no restart makes an instance that
  `stop_all()` did not count. When exchanges and connections are finitely many, so are the steps.

Only model-checked: liveness (`SilentFeedWithdrawn`, `OverwriteRepaired`, `WritersEnd`, `LastingRuleAlerts`, `Converges`, `DelistedStops`, `Revived`, `ShutdownEnds`, `GoneUnregistered`),
since TLAPS does not reason about fairness and ENABLED. Every safety property of the passing runs is a
theorem.

## 5. Bounds

Named in the modules: `AgeCap`, `RecalcCap` (saturating counters; larger values behave alike),
`MaxInbox`, `MaxBatch`, `RuleIds`, `Keys`, `MaxSubs`, `MaxDelay` of the bucket, `MaxFails` (failures
in a row that the history tells apart), `Jobs`, `Connections`, `Names`. `MaxDelay` and
`PacificaPause` of `Feed`, `Chunk`, `PageSize`, `BatchSize`, `Limit`, `Window`, `MaxRetries` are
constants of the code scaled down. `TaskCount` is the code's: three tasks of a collector. The update
counter is kept modulo `RecalcEveryN`, the only use the code makes of it. Histories saturate at the
bound the property mentions. Floats (rates, tokens of a bucket) are integers or fractions;
rounding is left out.

## 6. Not modelled

Parsing of exchange payloads, APR windows and APR arithmetic, texts of messages, REST handlers that
only read, registration, login and JWTs, schemas and migrations: no state that others race for.
The history loop of a collector publishes to `funding:history`, which nobody subscribes to, and
keeps nothing. What `broadcast()` does with subscribers (tier throttle, dead connections) cannot be
reached, as every `subscribe()` raises. An Aster ticker answer that is empty altogether, which
would let every row through unfiltered (`aster.py:382`), is left out: `Feed` follows one symbol of
an exchange that lists others. The limiter's `except Exception` also covers a reply lost after the
script ran and an exhausted connection pool; `FailOpen` stands for a Redis that is down or does not
know the script. Eviction of keys by Redis (`allkeys-lru` in
`docker-compose.prod.yml`) could drop a throttle key early; it is left out, as are several
processes of the service itself (the code keeps its state per process and is deployed with one
worker).

## 7. What is left

1. The composition of `Accounts` and `Notification`: a tier change and the rules copy, now an
   arbitrary change of `paid` in `Notification`.
2. Measures like those of `BackfillsAdvance` for the liveness that depends on strong fairness
   (`Converges`, `LastingRuleAlerts`), where failures may put an attempt back any number of times.
3. `apr_windows.py` as a part of `Notification`'s `Windows` step, should its copies come to matter to
   more than texts.
