# HyperQ: specifications of the trading engine

TLA+ specifications of the HyperQ trading engine (Rust, `src/src/*.rs`), model-checked
with TLC on small instances, with theorems checked by TLAPS. File references are to
`src/src/` unless they name another directory; `PROJECT.json` ("map") gives the lines each
definition stands for.

## 1. The system

One process trades perpetual futures on one exchange account. `main.rs` starts a
multi-threaded tokio runtime; the Sentinel and the inference loop run on threads of their
own with a current-thread runtime each. The parts talk through shared `DashMap`s, one mpsc
channel of signals, and the exchange.

| Component (source) | State | Operations | Interacts with |
|---|---|---|---|
| Position record and its close lock (`models.rs`) | `MockPosition`: amount, extremes, tier, and the atomics `is_closing`, `closing_started_at` | `new`, `try_lock_for_close`, `unlock_close` | everyone who closes a position |
| Order execution (`executor.rs`) | none of its own; acts on `position_map` and the account | `execute_order`: open, close | order channel, REST client |
| Sentinel (`sentinel.rs`) | collected close orders of a cycle | scan, forced unlock, lock, execute | executor, own thread |
| RiskGuard (`risk_guard.rs`) | collected close orders of a cycle, extremes of each record | scan under write guards, lock, execute | executor |
| Signal processing (`trend_processor.rs`) | none | reversal exit, slot check, balance, sizing, open | mpsc channel from inference, executor |
| Reconciler (`reconciler.rs`) | the answer it is applying, the symbol it found no record for | ask, look up, correct or insert, remove | REST client, `position_map` |
| Start-up and tasks (`main.rs`) | task handles; hot coins, funding, OI maps | synchronise, cancel open orders, spawn loops, radar, decay | all |
| Order channel (`ws_api.rs`) | `req_counter`, `pending_requests`, `ws_tx` | `request`, writer, reader, reconnect | executor, exchange |
| REST client (`rest_api.rs`) | token bucket, `global_pause_until` | check and consume, handle response, endpoints | exchange |
| Inference (`inference.rs`) | best signal of the cycle | ask the AI about hot, configured and held coins, veto, flip, send | market maps, `position_map`, mpsc channel |
| Market streams (`binance_ws.rs`) | price, CVD, OFI, liquidation, ticker maps | one handler per stream | maps read by the rest |
| Features (`features.rs`) | none | pure indicators over candle windows | inference |
| Signal subscriber (`signal_zmq.rs`) | none used | compiled, not started by `main` | - |
| Configuration, logging, metrics | none over time | parse, install | - |

What is hard, and what makes each part correct:

- **Close lock.** Three closers and a breaker of old locks work on two atomics that are
  written and read one at a time. At most one closer may believe it has the lock, a lock must
  never lose its time stamp for good, and it must end.
- **Order execution.** Up to five awaits per order, each of which may fail, and failing calls
  may have been executed. Closing must reduce only, opening must not exceed what was decided,
  every record must go back to the state others rely on.
- **Signals, monitors, reconciler.** Each reads the map, awaits for seconds, then writes:
  `max_positions`, "not held", the quantity to close and the reconciler's answer may all be
  out of date when used.
- **Start-up.** The process may have died anywhere; records are rebuilt from the account and
  the open orders cancelled, and each of these calls may fail.
- **Order channel.** Late answers, requests still in the channel after their timeout, and a
  mutex that is held across an await and that the connection task needs as well.
- **Risk phases.** Six phases per record and cycle, each of which may end the record's turn, with a flag
  and a best ROE that outlive the cycle. No phase may hide a stop that comes after it, and what a
  position has once won must stay protected. The price may be one the exchange is asked for, under two guards.
- **Inference and signals.** A cycle over lists that are copied at different moments, a bounded channel, and a
  consumer that executes orders between two receives. Coins held must stay watched, the cycle must go on.
- **Order flow stream.** A list that changes while a connection serves the old one.
- **REST client.** A lazily refilled bucket and a pause, checked before, and set after, calls
  that overlap; some calls check neither, and some set no pause.

## 2. Modules

    TradingState <- Exchange <- Executor <- Monitors, TrendProcessor \
               \<- Reconciler <---------------------------------------- Trading <- MC_Trading
    Trading <- TradingProofs <- TradingOrderProofs <- TradingCalmProofs
    Lease <- TrackedLease <- CloseLock <- CloseLockProofs, MC_CloseLock
                                            (CloseLock: Promise == INSTANCE TrackedLease WITH ...
                                             Trading: LeaseOf(s) == INSTANCE Lease WITH ..., per symbol)
    RiskGuard <- RiskGuardProofs, MC_RiskGuard, RiskGuardHistory <- MC_RiskGuardHistory
    MarketStreams <- Inference <- Signals <- SignalsProofs, MC_Signals
    OrderRpc <- WsApi <- WsApiProofs, MC_WsApi   (Rpc == INSTANCE OrderRpc WITH ...)
    RestApi <- RestApiProofs, MC_RestApi

Each family can be read on its own. `Trading` composes five of them into one next-state
relation; `CloseLock` refines what `Trading` does in one step (taking, releasing, breaking a
lock) to single loads and stores, and both are shown to implement the same `Lease`; `RiskGuard` fills in the decisions `Monitors` leaves open, and `Signals`
those of `TrendProcessor`; `WsApi` and `RestApi` refine single calls of the executor.
The links of `RiskGuard`, `Signals`, `WsApi` and `RestApi` to `Trading` are by reading, not by a refinement
mapping.

**CloseLock.** One position record: `isClosing` and `stamp` are the two atomics, `st` where
each closer stands. `TryLock`/`StampLock` are the two halves of `try_lock_for_close` under a
read guard (Sentinel, main loop), `ExclusiveLock` the same under the RiskGuard's `iter_mut`;
`Fail`/`EndUnlock` the two stores of `unlock_close`; `LoadFlag`, `LoadStamp`, `ForceUnlock`,
`Wait`, `EndForce` the loads and stores of the Sentinel's forced unlock. Removing or replacing the
record needs the shard's write guard (`NoGuards`). Time is the age of the stamp.
The history variable `overtaken` says that a lock was broken or a record taken away while its
closer was still at work; `SoleCloser` is stated up to that.

**Lease, TrackedLease.** What the lock promises without its atomics: the position is on lease to one worker
at a time; a lease is given while it is free (`Grant`), taken back when its worker ends (`Return`), left to its
time-out by a worker that ends without unlocking, as in a dry run (`Abandon`), broken, or void when the process starts
anew (`Restart`). `TrackedLease` adds the memory of a lease broken under somebody at work. `CloseLock`
implements `TrackedLease` with `leased <- isClosing`, `working <- Owners`, `broken <- overtaken` (`KeepsLease`):
the two atomics are enough. `Trading` implements `Lease` once per symbol, with the lock of the record as
`leased` and the tasks that have a close order for it as `working` (`KeepsLeases`): whoever has the lock lets go of
it as its close ends, and the only steps that break one are the Sentinel's time-out, the reconciler's removal, and a
record stored over another one by an open order or by the reconciler (`Breaks`).

**RiskGuard.** One record with its profit fields, the age of its price, both loops, and who blocks a
worker thread. An ROE is an integer in tenths of a percent; what a price is worth is
read as the ROE it makes. `Judge` is one record's turn in `update_roe_cycle`; its phases are operators of
their own (`HardStop`, `AssassinCut`, `MomentumExit`, `Breakeven`, `Arms`, `TrailingStop`), and `Exits` says
which of them closes. `Ask` .. `Answer` is the REST call under the write guard of the iteration and the read guard
of `price_map`; `Block` a task that runs into one of them and takes its worker thread with
it. `driven` says whether a worker polls the I/O driver: a tokio worker that leaves the driver for one ready task
wakes no other one, so when that task blocks the driver may stay unpolled though workers are idle, until another
thread wakes a task (`Wake`). `AnswerError` is the answer that is no price. `SentinelClose` has the stops by volatility, time barrier and
funding. The rest of the program is one action each: reversal, end of a close, a forced unlock, an open and the
record it stores, correction, removal; adoption is two, the look-up that finds no record and keeps no guard
(`FindMissing`) and the insertion (`Adopt`), which may replace a record stored, locked and in profit since.
`RiskGuardHistory` adds the best ROE seen since the symbol has had a record (`peak`).

**MarketStreams, Inference, Signals.** `MarketStreams` is the radar's list and the coins of the order flow
connection. `Inference` is one cycle: `StartCycle` copies the hot list, `ListHeld` the coins held, `Turn` picks the
next coin of the first tier that has any, `Monitor` and `Compete` are what becomes of an answer, `Judge` what the
five-minute candle makes of the best signal (`SendVerified`); `SendUnverified` and `VetoUnseen` are an answer
without a candle and a request that fails. The channel
is the sequence `queue`; a thread that waits to send has put its signal behind the last that fits
(`Blocked`). `Signals` adds the main loop and the tasks that close and adopt positions meanwhile.

**TradingState, Exchange, Executor, Monitors, TrendProcessor, Reconciler, Trading.** `positions`
is `position_map`, `exch` and `orders` the account and the book; `pc[t]` is the await at which
each of the three order-giving tasks stands, `cur`, `oid`, `got` its locals, `todo` the close
orders its scan has collected. Every call to the exchange is one step: `CancelAll`, `PlaceLimit`, `CancelLimit`,
`GetStatus`, `PlaceMarket`; what `execute_order` does after the last one (`FinishClose`, `FailClose`,
`FinishOpen`, `AbandonOpen`) is another. The reconciler takes the answer (`Snapshot`), applies it
symbol by symbol - a record is corrected under its guard (`Correct`); one that is missing is noted (`FindGhost`) and
inserted in a later step (`AdoptGhost`) - lists the records (`ListLocal`) and removes (`Prune`); the others run in
between. `BootSync` and
`BootCancel` are start-up, `Crash` the death of the process at any point. `mode`, chosen
once at the start from `Modes`, is the set of conditions a behaviour is under: dry run, whether the
reconciler is heard, and which faults may happen.

**WsApi, OrderRpc.** `OrderRpc` is what callers may rely on: a request that returns a result was executed; one that
returns an error of the exchange (`ws_api.rs:148`) or was refused before it was sent was not and never will be; of a
failed one nothing is known; none is worked on twice. `WsApi`
is the code: the table of senders, tokio's fair mutex around `ws_tx` as the queue of those who asked
for it, the writer's channel, the connection with its losses, and the reconnect loop.

**RestApi.** The bucket (`tokens`, `due` for the time since `last_refill`), the pause, and the calls
under way. `Admit` and `Exhausted` are `check_limit_and_pause`; the call it admits is sent in a step of its own (`Send`),
so that a pause may begin in between. Calls are of five kinds: `query` (both guards asked, response given to
`handle_response`), `cancelAll` (the same, passes a pause), `setting` and `reduce` (`set_margin_type`, `set_leverage`,
`place_order`: guards asked, response read by the call itself, `reduce` passes a pause), and `free`: exchange info, server
time, 24 h tickers, mark price and book ticker ask neither guard and start no pause (`SendFree`). What is stated is
therefore what `check_limit_and_pause` lets through, not what is sent.

**Faulty variants.** Next to a definition stands, in some modules, a variant marked
"faulty variant". It is no part of any specification: it is the mistake a
property exists to catch, and replacing the definition by it makes that property fail
("mutants" in `PROJECT.json` pairs them).

### What is abstracted

- In `Trading`: prices, ROE, thresholds, confidence. Whether a stop, an exit or a signal comes is left
  open there. Reasons of a close are three: `hard` (the text the executor looks for), `stop`, `exit`.
- The close orders of a scan are a set: they are executed in any order.
- Breaking a lock needs no time in `Trading`: it may happen under the condition `slowClose`, or
  when nobody is closing. `slowClose` is ordinary, not exotic: `config.example.toml:30` has
  `closing_timeout_ms = 5000`, while a close with a maker part may take 3.5 s plus three order or
  cancel calls of up to 5 s each.
- A lost reply (`lostReply`): the order is executed at once and the call returns an error. Orders
  executed after the caller gave up are in `WsApi`, not in `Trading`.
- In `RiskGuard`: the other records matter as orders a loop may have to execute; a close lasts as long as it
  likes, and a dry run is left to `Trading`. EMA and adverse excursion are logged only.
- In `Signals`: what the AI answers, features and candles are any; sizes are left out; an order fills
  or fails.
- The exchange is external. One net position per symbol, reduce-only orders take at most what is
  there, cancelling what does not rest changes nothing.
- `RestApi` counts time in ticks of `Rate` tokens and caps the credit at a full bucket, beyond which it
  makes no difference.

## 3. Runs

| Run | Shows | Bounds |
|---|---|---|
| `CloseLock` | `NoStuckLock`, `SoleCloser`, `KeepsLease` (refinement of `TrackedLease`), `LockReleased` | the program's three closers, timeout of 2 ticks, with and without dry run |
| `CloseLockForced` | violation, see 4 | the same |
| `TradingOne` | `LockHasOwner`, `NoOrphanOrders`, `DryRunPlacesNothing`, `KeepsLeases` (refinement of `Lease` per symbol); `GhostTracked`, `ZombieRemoved` under fairness | one symbol, one resting order, one open, one crash; five sets of conditions: crashes while every call succeeds, lost replies with slow closes and liquidations, lost replies with crashes, a dry run with crashes and failing calls, failing calls |
| `TradingTwo` | `NoBlindExposure`, `OpenIsExact`, `OpenedWithinLimit`, `OneClosePerPosition`, `ForgottenOnlyWhenFlat` | two symbols, `max_positions` 1, two opens, lots of 2 so that orders fill in part; four sets of conditions: liquidations only, the same in a dry run, REST calls that fail, lost replies with liquidations |
| `StaleAnswer`, `CancelIgnored` | violations, see 4 | one symbol |
| `WsApi` | `AnswerIsOwn`, `NoPendingLeak`, `TurnsTaken`, `KeepsPromise` (refinement), `RequestReturns`, `LinkComesBack` | two callers, three requests, two lost connections; each request may be executed or answered with an error |
| `RestApi` | `WindowBound`, `PauseKept` | two overlapping calls of any kind, bucket of 6, windows of up to 4 ticks, a pause of 3 |
| `RiskGuard` | `WaitsEnd`, `FloorKept`, `FloorRises`, `OverdueClosed` | seven ROEs, one or more on each side of every threshold, two stops, three workers and the three tasks that use the shards |
| `BreakevenLost` | violation, see 4 | the same |
| `Signals` | `HeldWatched`, `CycleEnds`, `SubscriptionFollows` | two coins, one hot at a time, one slot, a channel of one, three prices that make candles with and without a burst and a pin bar |
| `FlipVetoed` | violation, see 4 | the same |

`NoBlindExposure`, `OpenIsExact` and `ForgottenOnlyWhenFlat` are stated for `Calm` behaviours: no call fails, no close
outlasts its lock, the process does not crash and the reconciler rests; a run may be dry, positions may be
liquidated, and orders refused, expired or filled in part. Each limit is needed. A failing cancel or `get_order` buys
twice (see 4), and so does a lost reply. A close that outlasts its lock runs next to another one, and when it
is over it removes whatever record the symbol has by then (`executor.rs:353`), that of a position opened since included. A crash lets an order
fill between the two calls of start-up, which reads the positions (`main.rs:71`) before it cancels the
orders (`main.rs:104`): that position has no record until the reconciler adopts it. The reconciler applies an
answer that may be out of date. What these lead to is healed (`GhostTracked`, `ZombieRemoved`), not prevented.

Each run also checks, or has a neighbour that checks, its module's `TypeOK`.

Why these bounds are enough to be interesting: every hazard on the list takes at most two tasks,
one order each, and one fault between two of their steps. One symbol shows all races on a record, two
are needed for slots and for a scan that collects several closes. A lot of 2 gives a maker order
three outcomes. Three requests of two callers let a late answer meet a later request of
the same and of another caller; two lost connections let one be lost while the callers queue behind
the last one. A window longer than the time to refill the bucket once shows double refills.

In `RiskGuard` three workers are as many as there are tasks that block, so that the pool may lose its last one as
well as one worker alone. In `Signals` the
capacity of 256 is one, which is full when one signal waits while another is executed; the
two lists have the same length, so that comparing lengths is not enough; the one probability, 66 %, passes the
threshold of the first layer only, so that a coin held, which has the threshold of the third, is not
reversed by the signal that opened it, while hot ones are. That probabilities differ within a cycle is not exercised:
which of two signals is the best decides nothing the properties are about. `Others` bounds adoptions.

`CHECK_DEADLOCK FALSE` stands in `WsApi`, where a bound (`MaxRequests`) ends a behaviour, and in `RiskGuard` and
`BreakevenLost`, where the program really may stop: every worker blocked by the call the RiskGuard awaits.

### Fairness

- `CloseLock`: time passes, the Sentinel's loop goes on, its own close returns, and a thread between two
  stores runs on. Nothing is assumed of the closes of others: a RiskGuard that hangs must not
  keep the lock. That the Sentinel's own close returns is an assumption of the code too: its order calls
  have a timeout of 5 s, its REST calls have none.
- `Trading`: the reconciler's loop and start-up go on (its call is answered in the end). Nothing of
  orders, exchange, monitors.
- `WsApi`: a caller's own steps, its timeout included, and the connection task, whose reconnects succeed in
  the end. Nothing of writer, reader, exchange. `LinkComesBack` is about connections that once stood: when
  the *first* connect fails, `main.rs:228` never tries again (`link = "never"`).
- `RiskGuard`: the exchange answers, or the call fails (`reqwest` is used without a timeout, so this is
  assumed of the network), and a worker that polls the I/O driver takes the answer; that one polls it is *not*
  assumed (`Answer` is disabled while `driven` is false, and nothing makes `Wake` happen), so `OverdueClosed` carries
  the condition that the driver is polled again and again; closes end; a loop that has executed its orders scans again; the Sentinel's thread,
  which waits for a shard, gets it one of the infinitely many times it is free (strong fairness: the RiskGuard
  takes and releases it every 100 ms). Nothing of price feed, reconciler, main loop.
- `Signals`: the inference thread and the main loop go on, so their calls end (of the AI's socket only `recv` has a
  timeout: that connecting and sending, `inference.rs:37-39`, end is assumed); the stream notices a changed list
  (it looks after every message and at least every 15 s). Nothing of the radar, of connections, of other
  tasks. `HeldWatched` and `SubscriptionFollows` are about what stays: a coin that is held from some time
  on, a list that does not change any more.

## 4. Where code and words differ

Shown by a run each, with a shortest behaviour:

1. `CloseLockForced`: the Sentinel loads the flag, then the stamp, then clears both. In between
   the failed close may unlock and somebody lock anew; a fresh lock is broken as "timed out"
   (`sentinel.rs:57`), and two closes of one position run.
2. `StaleAnswer`: the reconciler removes as "zombie" (`reconciler.rs:76`) the record of a position
   opened after the exchange gave its answer. It is watched again ten minutes later (`GhostTracked`).
3. `CancelIgnored`: `executor.rs:154` calls a failed cancel fine; when the maker order was
   not filled but the cancel itself failed, the rest is bought at the market *and* the maker order fills.
4. `BreakevenLost`: `risk_guard.rs:123` says a position whose profit was once above 8 % may on no account lose
   money. The reconciler's look-up keeps no guard (`reconciler.rs:43`), its insertion (`:62`) replaces whatever was
   stored in between, and an open order replaces an adopted record the same way (`executor.rs:241`): the best profit
   is forgotten, and the position falls through the breakeven stop. `FloorRises` is about all other steps.
5. `FlipVetoed`: `README.md:9` (and `:46`, `inference.rs:219-245`, `trend_processor.rs:118`) describe the flip of a
   signal against a confirmed burst as a feature. A candle whose body runs 1.5 % against a signal has come back 0.8 %
   from its end as well, and the veto, looked at first (`inference.rs:216`, `233`), drops the signal. `NeverFlipped`
   proves it for every candle: the flip is dead code, and with it the branch "fakeout passed" beside it. Momentum
   trades come from the regime override only.

Met while modelling, without a run:

- `executor.rs:194` returns with "Entire order failed" also when the market order only timed out
  and was executed: a position without a record until the reconciler adopts it (`GhostTracked`).
- In a dry run the RiskGuard and the reversal exit leave the record locked (`executor.rs:57`), which
  the comment at `sentinel.rs:135` means to avoid; the Sentinel's timeout releases it (`LockReleased`). `LockHasOwner` is
  therefore stated outside dry runs.
- `trend_processor.rs:101` wants no second position of a symbol; between the check and the order
  the reconciler may adopt one.
- `rest_api.rs:115` says a closing call proceeds in a pause; five lines later an empty bucket refuses it.
- Stop losses as maker orders: `README.md:11` promises market closes for all stop losses; only reasons containing
  "Hard Stop Loss" get one (`executor.rs:266`), the Sentinel's ATR stop and the RiskGuard's other stops first rest
  3.5 s as a maker order.
- The pause after a 429 is not global: the five `free` calls (`rest_api.rs:148-223`) are sent in it and take no tokens,
  a call admitted before it began is sent in it, and a 429 answered to `set_margin_type`, `set_leverage`, `place_order`
  or a `free` call starts none. `WindowBound` and `PauseKept` are about `check_limit_and_pause` alone.
- `get_book_ticker` (`rest_api.rs:216`) takes an error message of the exchange for a price of zero, where
  `risk_guard.rs:43` means to fall back on the old price: a long position is closed by the hard stop, a
  short one gets an enormous best ROE and is closed by the trailing stop a cycle later.
- The RiskGuard waits for that call with two guards held. A task of the runtime that wants one of the shards blocks
  its worker; when that worker had left the I/O driver for this one task, nobody polls the driver, the answer is not
  read and the cycle does not go on, with any number of workers: `Ask`, `Block`, and nothing after it. Only a task
  woken by another thread (the inference engine, the Sentinel) gets the driver polled again, and not even that helps
  when all workers are blocked. `README.md:10` promises a look every 100 ms.
- A monitor signal (`inference.rs:177`: "for reversal exits") of a coin closed meanwhile *opens* a position:
  it has seen neither the candle nor the competition for the best signal.
- `trend_processor.rs:98` does not open "immediately" after a reversal, but a second signal for the same coin
  that waits in the channel does.
- `config.example.toml` has not the keys `config.rs` requires (`dry_run`, `binance.env`, the names of the
  thresholds differ): copied as it is, it does not load.
- `get_order` failing after the maker order (`executor.rs:158`) counts as nothing filled, and the
  quantity is bought again. `OpenIsExact` is stated for behaviours without failing calls.

## 5. Proofs

TLAPS, for every value of the constants that satisfies the named assumptions:

| Module | Theorems | Argument |
|---|---|---|
| `CloseLockProofs` | `TypeCorrect`, `NeverStuck`, `OneCloser` | `NoStuckLock` is inductive with the type invariant. `SoleCloser` needs to know who may hold a flag: while nothing was overtaken an owner implies a set flag and a present record |
| `CloseLockProofs` | `ImplementsLease` | every load and store of the lock maps to a step of `TrackedLease` or to none: the compare-and-exchange is the grant, the second store of an unlock the return or the break; `CloseLockInv` shows that the flag of an absent record is clear, so that a close which fails with its record gone is a return as well |
| `RiskGuardProofs` | `SomebodyIsAtWork` | `LoopsInv`: a turn of the RiskGuard starts only when it executes nothing, so a lock it takes is its only one; blocked tasks go with the call, and the driver is unpolled only while there are some. It is the safety half of `OverdueClosed` |
| `RiskGuardProofs` | `TypeCorrect`, `KeepsTheFloor`, `FloorNeverFalls` | `GuardInv`: with the types, that the alert flag is up only above 10 %. Without it the breakeven stop, which a raised flag switches off, could leave a stage nobody guards. A record no phase closes is above its floor, stage by stage; the floors of the stages are ordered (`FloorMonotone`), which is why no step but the two that store a record anew, `Open` and `Adopt`, lowers one |
| `SignalsProofs` | `TypeCorrect`, `NeverFlipped` | `VetoAbsorbsFlip`, linear arithmetic on a candle: low and high enclose open and close. On top of it `FlipInv`: neither the best signal nor one in the channel is of the momentum tier, and a signal to verify is there when it is verified |
| `TradingProofs` | `TypeCorrect`, `LocksAreOwned` | `TasksConsistent`: a task has an order exactly while it executes one, queued orders are closes, the limit order it waits for is one the book remembers. Without it not even the types are inductive (what a task reads of its order might be `NoOrder`). `LocksOwned` is inductive on top of it, with the fact that a dry run stays one |
| `TradingOrderProofs` | `DryRunsAreDry`, `LimitKept`, `NoOrphans` | `DryIdle`: in a dry run no task ever has an order. `SlotKept`: while the main loop opens, its slot is free; it counted every record, only the main loop adds records of the program's own, and it opens one position at a time. `OrdersTended`: who asks for the fill has cancelled the order, and until start-up is over nobody gives one, so that start-up finds all of them |
| `TradingOrderProofs` | `LocksAreLeases` | every step of the engine maps, symbol by symbol, to a step of `Lease` or to none, under any faults. It needs that a task has at most one order for a symbol, queued or executed (`OneOrderPerSymbol`), or the end of one close would not end its work; and that nothing is at work before start-up is over (`NothingWorksYet`) |
| `TradingOrderProofs` | `CloserIsAlone` | that a closer has the record and the record its lock is inductive together with the uniqueness of jobs per symbol, opens included: an open order for a symbol with a close under way would store a fresh, unlocked record. That excludes the reconciler, which may adopt one meanwhile, and the time-out |
| `TradingCalmProofs` | `EverythingWatched`, `OpensAreExact`, `ForgetsOnlyTheFlat` | `Fit`, for `Calm` behaviours: a symbol has at most one job in all tasks together, an open one only without a record and a close only behind the lock of one; what the account holds plus what a close has sold is within the record, and what the account holds is a part of what an open has bought so far (the whole of it but for liquidations); a close that was filled has nothing left to sell (`SoldOut`); every order in the book is the order of the task that waits for it. A step of one task on one symbol leaves the others alone (`LocalStep`); what remains is arithmetic on fills (`OpenMoves`, `CloseMoves`, `ReducesAll`) |
| `WsApiProofs` | `TurnsComeAround` | `QueueInv`: joining the queue adds one place, letting go takes the only one of whoever held the mutex (`Joined`, `Left`). That the sender stays while a reply is awaited follows because who clears it holds the mutex, and so does who awaits |
| `WsApiProofs` | `TypeCorrect`, `AnswersReachTheirCaller`, `NoSenderLeaks`, `ImplementsOrderRpc` | `OwnInv`: a sender in the table belongs to a caller at work on that very id; a receiver holds an answer only to its own id and only when its sender is gone; who awaits a reply holds the mutex. On top of it `RpcInv` for the refinement: ids are given out in order and are nobody else's, a request is on its way at most once, and one that is on its way was neither executed nor rejected, nor reported as answered, rejected or refused; an answer is to a request the exchange has worked on |
| `RestApiProofs` | `TypeCorrect`, `BudgetKept`, `PauseHeld` | what was admitted and what is available never exceed what the window allows; a pause that was started is at least as long as what is left of it since the last 429 |

Assumptions: `LotAssumption`, `BoundsAssumption`, `ModesAssumption`, `ReasonsAssumption`,
`SymbolsAssumption`, `TasksAssumption`, `NullsAssumption` (TradingState), `ActorsAssumption`, `TimeoutAssumption`,
`StampAssumption` (CloseLock), `LevelsAssumption`, `StopsAssumption`, `WorkersAssumption`, `PoolAssumption` (RiskGuard),
`HotListsAssumption` (MarketStreams), `InferenceAssumption`, `SignalsAssumption`, `CallersAssumption`, `WsBoundsAssumption` (WsApi), `BucketAssumption`,
`WeightsAssumption`, `TimesAssumption` (RestApi). Each is evaluated by TLC on the runs of its module.

Only model-checked: everything under fairness, liveness being out of this prover's reach (`LockReleased`,
`GhostTracked`, `ZombieRemoved`, `RequestReturns`, `LinkComesBack`, `OverdueClosed`, `HeldWatched`,
`CycleEnds`, `SubscriptionFollows`). Every safety property and the three refinements the passing runs check are proved, `WaitsEnd` and
`TurnsTaken` being the part of three of those liveness properties that is safety.

## 6. Not modelled, and the plan

Not modelled, and why:

- `features.rs`: pure floating-point indicators over candle windows, nothing over time; both tools
  work on integers.
- The numbers of the market streams (CVD, order flow, liquidations, tickers) and of the AI: every one may be read at
  any time. The decay of liquidations (`main.rs:198`) may be lost between the read and the write of
  `binance_ws.rs:306`; a liquidation may not, since only that stream adds. Nothing says how fast old ones must fade.
- The pollers of funding and open interest: one task each, writing numbers nobody else writes.
- Sizes and leverage (`trend_processor.rs:153-201`), entry prices of zero (`executor.rs:180`).
- What the REST endpoints send and return, parsing, configuration, logging, metrics, `start.sh`/`stop.sh`; `signal_zmq.rs`, which
  is never started.

Planned, in this order:

1. Orders executed after their caller gave up, in `Trading`, by composing it with `OrderRpc`.
2. `NoBlindExposure` with the reconciler at work: how long a stale snapshot may hide a position.
3. A clock that goes back, in `CloseLock` (`sentinel.rs:56` subtracts unsigned numbers).
4. Two records in `RiskGuard`, so that the other position of a scan is a position and not an order.
