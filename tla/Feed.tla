---------------------------------- MODULE Feed ----------------------------------
(***************************************************************************)
(* What one collector publishes about one symbol: start(), _poll_loop()    *)
(* and _ws_loop() of BaseCollector (app/collectors/base.py) with the four  *)
(* adapters' _load_exchange_info(), _poll_rest() and _run_ws().            *)
(*                                                                         *)
(* "market" stands for the symbol's funding rate and its mark price, which *)
(* move together here.  Where an adapter keeps a WebSocket snapshot, "snap" *)
(* is the symbol's entry: the mid price (Hyperliquid), the mark price      *)
(* (Extended, Pacifica), price and funding rate (Aster).  An answer to a   *)
(* REST request carries the market of the moment it is given; a fetch may  *)
(* take any time, RateWindow says what requests it makes.  "Listed" means  *)
(* that the exchange lists the symbol and that it passes the filters on    *)
(* open interest and volume.                                               *)
(***************************************************************************)
EXTENDS Naturals, FiniteSets, FiniteSetsExt

CONSTANTS
    Quotes,         \* values of the market
    None,           \* no entry in a dict
    MaxDelay,       \* ws_reconnect_delay_max, in ticks of ws_reconnect_delay_min
    PacificaPause,  \* asyncio.sleep(5) of PacificaCollector._run_ws()
    MaxFails        \* bound: failures in a row that the history tells apart

Kinds == {"hyperliquid", "aster", "extended", "pacifica"}

ASSUME FeedAssumption ==
    /\ None \notin Quotes /\ Quotes # {}
    /\ MaxDelay \in Nat \ {0} /\ PacificaPause \in Nat \ {0} /\ MaxFails \in Nat \ {0}

VARIABLES
    kind,       \* the adapter
    market,     \* the quote of the exchange
    listed,     \* the exchange lists the symbol
    active,     \* _active_symbols, or _asset_meta: "empty", or "with" or "without" the symbol
    ticker,     \* Aster: _ticker_cache has the symbol
    snap,       \* _ws_snapshots, or _mid_prices, of the symbol
    poll,       \* where start() and then the poll loop are
    batch,      \* the symbol's row in the items to be published
    row,        \* the last row published
    recent,     \* history: the symbol's row was published in this tick
    ws,         \* where the WebSocket loop is
    delay, wait,\* its next back-off, and what is left of the present one
    fails,      \* history: failures since the last clean return of _run_ws(), saturating
    elapsed     \* history: ticks since the first of them, saturating

symbolVars == <<kind, market, listed>>
pollVars == <<active, ticker, poll, batch, row, recent>>
wsVars == <<ws, delay, wait, fails, elapsed>>
feedVars == <<symbolVars, pollVars, snap, wsVars>>

Row == [rate : Quotes, price : Quotes]

\* The powers of two, and what a back-off that doubles up to MaxDelay has
\* waited before the n-th failure in a row.
Doubled[n \in Nat] == IF n = 0 THEN 1 ELSE 2 * Doubled[n - 1]
Waited[n \in Nat] ==
    IF n <= 1 THEN 0 ELSE Waited[n - 1] + Min({Doubled[n - 2], MaxDelay})

FeedTypeOK ==
    /\ kind \in Kinds /\ market \in Quotes /\ listed \in BOOLEAN
    /\ active \in {"empty", "with", "without"} /\ ticker \in BOOLEAN
    /\ snap \in Quotes \cup {None}
    /\ poll \in {"load", "preload", "reload", "main", "premium", "publish", "sleep"}
    /\ batch \in Row \cup {None} /\ row \in Row \cup {None} /\ recent \in BOOLEAN
    /\ ws \in {"off", "connect", "open", "backoff"}
    /\ delay \in 1..MaxDelay /\ wait \in 0..Max({MaxDelay, PacificaPause})
    /\ fails \in 0..MaxFails /\ elapsed \in 0..Waited[MaxFails]

\* Hyperliquid's start() is BaseCollector's; the others load the symbols first.
FeedInit ==
    /\ kind \in Kinds /\ market \in Quotes /\ listed \in BOOLEAN
    /\ active = "empty" /\ ticker = FALSE /\ snap = None
    /\ poll = IF kind = "hyperliquid" THEN "main" ELSE "load"
    /\ ws = IF kind = "hyperliquid" THEN "connect" ELSE "off"
    /\ batch = None /\ row = None /\ recent = FALSE
    /\ delay = 1 /\ wait = 0 /\ fails = 0 /\ elapsed = 0

-----------------------------------------------------------------------------
(* start()                                                                  *)

Listing == IF listed THEN "with" ELSE "without"

\* Mutant of RoundStart: Pacifica does not load again either.
NoReload(symbols) == "main"

\* Where _poll_rest() begins: Pacifica loads its symbols again when it has none.
RoundStart(symbols) ==
    IF kind = "pacifica" /\ symbols = "empty" THEN "reload" ELSE "main"

\* super().start() creates the tasks.
Started == poll' = RoundStart(active') /\ ws' = "connect"

\* _load_exchange_info(): when the request fails, nothing is loaded and
\* start() goes on.
LoadInfo ==
    /\ poll = "load"
    /\ active' = Listing \/ UNCHANGED active
    /\ IF kind = "aster" THEN poll' = "preload" /\ UNCHANGED ws ELSE Started
    /\ UNCHANGED <<symbolVars, ticker, batch, row, recent, snap, delay, wait, fails, elapsed>>

\* premiumIndex fills the entry of a symbol that has none.
MergePremium == IF listed /\ snap = None THEN market ELSE snap

\* _preload_ticker_cache(): each of its requests may fail.
Preload ==
    /\ poll = "preload"
    /\ ticker' \in {FALSE, listed}
    /\ snap' \in {snap, MergePremium}
    /\ UNCHANGED active /\ Started
    /\ UNCHANGED <<symbolVars, batch, row, recent, delay, wait, fails, elapsed>>

-----------------------------------------------------------------------------
(* _poll_loop(): one round.                                                 *)

\* Mutant of AsterRows: rows are built whatever the ticker says.
Unfiltered(copy, hasTicker) == copy # None

\* _build_normalized(): an entry whose ticker has no volume is left out.
AsterRows(copy, hasTicker) == copy # None /\ hasTicker

\* The price of a REST row: the WebSocket's, when there is one.
Priced == IF snap = None THEN market ELSE snap

Batch(b) == batch' = b /\ poll' = IF b = None THEN "sleep" ELSE "publish"

Reload ==
    /\ poll = "reload"
    /\ active' = Listing \/ UNCHANGED active
    /\ poll' = "main"
    /\ UNCHANGED <<symbolVars, ticker, batch, row, recent, snap, wsVars>>

\* The answer with the rates.  Aster's is the ticker, premiumIndex follows.
AsterAnswer ==
    /\ kind = "aster"
    /\ ticker' = listed /\ poll' = "premium"
    /\ UNCHANGED <<active, batch>>

HyperliquidAnswer ==
    /\ kind = "hyperliquid"
    /\ active' = IF listed THEN "with" ELSE active
    /\ Batch(IF listed THEN [rate |-> market, price |-> Priced] ELSE None)
    /\ UNCHANGED ticker

\* Symbols that were not loaded are left out.
ExtendedAnswer ==
    /\ kind \in {"extended", "pacifica"}
    /\ Batch(IF listed /\ active = "with" THEN [rate |-> market, price |-> Priced] ELSE None)
    /\ UNCHANGED <<active, ticker>>

MainAnswer ==
    /\ poll = "main"
    /\ AsterAnswer \/ HyperliquidAnswer \/ ExtendedAnswer
    /\ UNCHANGED <<symbolVars, row, recent, snap, wsVars>>

MainFails ==
    /\ poll = "main" /\ poll' = "sleep"
    /\ UNCHANGED <<symbolVars, active, ticker, batch, row, recent, snap, wsVars>>

\* premiumIndex answers or fails; the rows are built either way.
Premium ==
    /\ poll = "premium"
    /\ snap' \in {snap, MergePremium}
    /\ Batch(IF AsterRows(snap', ticker) THEN [rate |-> snap', price |-> snap'] ELSE None)
    /\ UNCHANGED <<symbolVars, active, ticker, row, recent, wsVars>>

\* _publish_batch(): an error of Redis is logged, the rows are lost.
Publish ==
    /\ poll = "publish" /\ poll' = "sleep" /\ batch' = None
    /\ row' = batch /\ recent' = TRUE
    /\ UNCHANGED <<symbolVars, active, ticker, snap, wsVars>>

PublishFails ==
    /\ poll = "publish" /\ poll' = "sleep" /\ batch' = None
    /\ UNCHANGED <<symbolVars, active, ticker, row, recent, snap, wsVars>>

-----------------------------------------------------------------------------
(* _ws_loop() and _run_ws().                                                *)

Connect ==
    /\ ws = "connect" /\ ws' = "open"
    /\ UNCHANGED <<symbolVars, pollVars, snap, delay, wait, fails, elapsed>>

\* Mutant of Takes: an event fills an entry, it does not replace one.
FillsOnly == listed /\ snap = None

\* Aster ignores the symbols that exchangeInfo did not name at the start.
Takes == listed /\ ~(kind = "aster" /\ active = "without")

Message ==
    /\ ws = "open" /\ Takes /\ snap # market
    /\ snap' = market
    /\ UNCHANGED <<symbolVars, pollVars, wsVars>>

\* Mutant of Longer: the delay stays as it is.
SameDelay(d) == d

Longer(d) == Min({2 * d, MaxDelay})

Failed ==
    /\ ws' = "backoff"
    /\ fails' = Min({fails + 1, MaxFails})
    /\ elapsed' = IF fails = 0 THEN 0 ELSE elapsed

\* A connection is refused or breaks.  Pacifica's _run_ws() catches the error
\* and never returns to _ws_loop().
Break ==
    /\ ws \in {"connect", "open"}
    /\ Failed
    /\ IF kind = "pacifica"
         THEN wait' = PacificaPause /\ UNCHANGED delay
         ELSE wait' = delay /\ delay' = Longer(delay)
    /\ UNCHANGED <<symbolVars, pollVars, snap>>

\* The exchange closes the connection properly: no delay before the next.
CleanClose ==
    /\ ws = "open" /\ ws' = "connect"
    /\ delay' = 1 /\ fails' = 0 /\ elapsed' = 0
    /\ UNCHANGED <<symbolVars, pollVars, snap, wait>>

Reconnect ==
    /\ ws = "backoff" /\ wait = 0 /\ ws' = "connect"
    /\ UNCHANGED <<symbolVars, pollVars, snap, delay, wait, fails, elapsed>>

-----------------------------------------------------------------------------
(* The exchange and the clock.                                              *)

MarketMoves ==
    /\ market' \in Quotes \ {market}
    /\ UNCHANGED <<kind, listed, pollVars, snap, wsVars>>

ListingChanges ==
    /\ listed' = ~listed
    /\ UNCHANGED <<kind, market, pollVars, snap, wsVars>>

\* The next round begins within a tick (rest_poll_interval) of the end of the last.
FeedTick ==
    /\ poll # "publish"
    /\ poll' = IF poll = "sleep" THEN RoundStart(active) ELSE poll
    /\ recent' = FALSE
    /\ wait' = IF wait > 0 THEN wait - 1 ELSE 0
    /\ elapsed' = IF fails > 0 /\ elapsed < Waited[MaxFails] THEN elapsed + 1 ELSE elapsed
    /\ UNCHANGED <<symbolVars, active, ticker, batch, row, snap, ws, delay, fails>>

PollStep ==
    \/ LoadInfo \/ Preload \/ Reload \/ MainAnswer \/ MainFails
    \/ Premium \/ Publish \/ PublishFails

WsStep == Connect \/ Message \/ Break \/ CleanClose \/ Reconnect

FeedNext == PollStep \/ WsStep \/ MarketMoves \/ ListingChanges \/ FeedTick
=============================================================================
