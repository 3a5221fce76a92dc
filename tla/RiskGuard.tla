------------------------------- MODULE RiskGuard -------------------------------
(****************************************************************************)
(* The profit side of one position record: the price feed it is valued with *)
(* (binance_ws.rs), the RiskGuard's 100 ms cycle with its phases            *)
(* (risk_guard.rs) and the Sentinel's stops (sentinel.rs).                  *)
(*                                                                          *)
(* The RiskGuard iterates over position_map with the write guard of a shard *)
(* and, when the price is older than five seconds, awaits a REST call while *)
(* it holds it, and the read guard of a shard of price_map as well.  Every  *)
(* other task that wants one of the two shards then blocks the worker       *)
(* thread it runs on, and the answer needs a worker that polls the I/O      *)
(* driver: one that leaves it to run a single ready task wakes no other, so *)
(* the driver may go unpolled though workers are idle.                      *)
(*                                                                          *)
(* A price is what it makes of the position: its ROE, in tenths of a        *)
(* percent; a price that is read may be any the market shows.  The other    *)
(* records of the map matter only as the orders the two loops may have to   *)
(* execute for them.  Which close takes the lock when two want it is the    *)
(* subject of CloseLock; a dry run is that of Trading.                      *)
(****************************************************************************)
EXTENDS Integers, FiniteSets

CONSTANTS
    Levels,      \* the ROEs the market may show
    Ruin,        \* the ROE of a short position at a price of zero; a long one has -Ruin
    Stops,       \* the Sentinel's stops by volatility, leverage, regime and funding
    Workers,     \* worker threads of the runtime
    PoolTasks    \* the tasks on them that use the two shards: the stream of book
                 \* tickers, the reconciler, the RiskGuard's macro cycle

ASSUME LevelsAssumption == Levels \subseteq Int /\ Ruin \in Int
ASSUME StopsAssumption == Stops \subseteq Int
ASSUME WorkersAssumption == Workers \in Nat
ASSUME PoolAssumption == IsFiniteSet(PoolTasks)

VARIABLES
    held,        \* the symbol has a record in position_map
    long,        \* position_amt > 0
    momentum,    \* is_momentum_trade
    overdue,     \* the time barrier has passed
    roe,         \* unrealized_roe
    mfe,         \* max_favorable_excursion
    alert,       \* alert_flag
    opening,     \* an open order for the symbol is under way
    adopting,    \* the reconciler has found no record and will insert one
    closer,      \* who holds the close lock, or "none"
    quote,       \* price_map: no entry ("none"), "fresh", or "old" (> 5 s)
    guard,       \* the RiskGuard: "asleep", "asking" (REST) or "executing"
    sentinel,    \* the Sentinel: "asleep" or "executing"
    blocked,     \* the pool tasks that block a worker thread
    driven       \* a worker polls the I/O driver, or will when its task is done

recordVars == <<held, long, momentum, overdue, roe, mfe, alert>>
loopVars == <<guard, sentinel, blocked, driven>>
storeVars == <<opening, adopting>>
vars == <<recordVars, storeVars, closer, quote, loopVars>>

\* What MockPosition::new stores, whatever the market says.
FreshRecord(l, m) ==
    /\ held' = TRUE /\ long' = l /\ momentum' = m
    /\ overdue' = FALSE /\ roe' = 0 /\ mfe' = 0 /\ alert' = FALSE

NoRecord ==
    /\ held' = FALSE /\ long' = TRUE /\ momentum' = FALSE
    /\ overdue' = FALSE /\ roe' = 0 /\ mfe' = 0 /\ alert' = FALSE

\* A shard of position_map is free unless the RiskGuard awaits a price under its
\* write guard.
ShardFree == guard # "asking"

Init ==
    /\ held = FALSE /\ long = TRUE /\ momentum = FALSE
    /\ overdue = FALSE /\ roe = 0 /\ mfe = 0 /\ alert = FALSE
    /\ opening = FALSE /\ adopting = FALSE /\ closer = "none"
    /\ quote = "none"
    /\ guard = "asleep" /\ sentinel = "asleep" /\ blocked = {}
    /\ driven = TRUE

----------------------------------------------------------------------------
(* The price feed *)

\* A bookTicker message is stored in price_map.
BookTicker ==
    /\ ShardFree
    /\ quote # "fresh"
    /\ quote' = "fresh"
    /\ UNCHANGED <<recordVars, storeVars, closer, loopVars>>

\* Five seconds without a message for the symbol: the market is quiet, the stream is
\* lost and connects again two seconds later, or it is silent for fifteen.
GrowOld ==
    /\ quote = "fresh"
    /\ quote' = "old"
    /\ UNCHANGED <<recordVars, storeVars, closer, loopVars>>

----------------------------------------------------------------------------
(* The phases of the RiskGuard.  Arguments: the ROE just read, the best one so *)
(* far, the alert flag as the phase finds it.                                  *)

\* Phase 2: the share of the best ROE, in percent, that may not be lost again.
Share(best) ==
    IF best < 200 THEN 60 ELSE IF best < 400 THEN 75 ELSE 85

HardStop(r) == r < -120

\* cvd: the order flow is far against the position.
AssassinCut(r, cvd) == r < -50 /\ cvd

MomentumExit(r, best) == momentum /\ best > 100 /\ best - r > 150

Breakeven(r, best, a) == ~momentum /\ best > 80 /\ r < 15 /\ ~a

TrailingStop(r, best, a) == ~momentum /\ a /\ 100 * r < Share(best) * best

\* Phase 1 is reached when none of the phases before it ended the cycle.
Arms(r, best, cvd) ==
    /\ ~HardStop(r) /\ ~AssassinCut(r, cvd) /\ ~momentum /\ ~Breakeven(r, best, alert)
    /\ best > 100

\* Faulty variant: the momentum branch comes before the stops.
ExitsMomentumFirst(r, best, cvd) ==
    IF momentum
      THEN MomentumExit(r, best)
      ELSE \/ HardStop(r)
           \/ AssassinCut(r, cvd)
           \/ Breakeven(r, best, alert)
           \/ TrailingStop(r, best, alert \/ Arms(r, best, cvd))

Exits(r, best, cvd) ==
    \/ HardStop(r)
    \/ AssassinCut(r, cvd)
    \/ MomentumExit(r, best)
    \/ Breakeven(r, best, alert)
    \/ TrailingStop(r, best, alert \/ Arms(r, best, cvd))

\* Faulty variant: the best ROE is not followed.
BetterFirst(a, b) == a

Better(a, b) == IF a > b THEN a ELSE b

\* One record's turn in update_roe_cycle, once its price is known.  The orders the
\* cycle has collected, for this record or for others, are executed after the scan.
Judge(r, cvd) ==
    /\ roe' = r
    /\ mfe' = Better(mfe, r)
    /\ alert' = (alert \/ Arms(r, mfe', cvd))
    /\ IF Exits(r, mfe', cvd) /\ closer = "none"
         THEN closer' = "risk" /\ guard' = "executing"
         ELSE UNCHANGED closer /\ guard' \in {"asleep", "executing"}
    /\ UNCHANGED <<held, long, momentum, overdue>>

\* A price of the market, from price_map or from the exchange.
JudgeMarket == \E r \in Levels, cvd \in BOOLEAN : Judge(r, cvd)

Scan ==
    /\ guard = "asleep"
    /\ held
    /\ quote = "fresh"
    /\ JudgeMarket
    /\ UNCHANGED <<storeVars, quote, sentinel, blocked, driven>>

\* The price is old: ask the exchange, with both guards held; the cycle falls
\* back on the old price when the call fails.
Ask ==
    /\ guard = "asleep"
    /\ held
    /\ quote = "old"
    /\ guard' = "asking"
    /\ UNCHANGED <<recordVars, storeVars, closer, quote, sentinel, blocked, driven>>

\* A scan of the other records, the symbol having no record or no price.
ScanOthers ==
    /\ guard = "asleep"
    /\ ~held \/ quote = "none"
    /\ guard' = "executing"
    /\ UNCHANGED <<recordVars, storeVars, closer, quote, sentinel, blocked, driven>>

\* A pool task wants one of the shards: the worker it runs on is lost.  When that
\* worker had left the driver for this task and no other one is running, nobody polls
\* the driver any more.
Block(t) ==
    /\ guard = "asking" /\ driven
    /\ t \notin blocked
    /\ blocked' = blocked \cup {t}
    /\ driven' \in (IF Cardinality(blocked') < Workers THEN BOOLEAN ELSE {FALSE})
    /\ UNCHANGED <<recordVars, storeVars, closer, quote, guard, sentinel>>

\* Another thread - the inference engine with a signal, the Sentinel with an order -
\* wakes a task up: an idle worker runs it, and polls the driver afterwards.
Wake ==
    /\ ~driven
    /\ Cardinality(blocked) < Workers
    /\ driven' = TRUE
    /\ UNCHANGED <<recordVars, storeVars, closer, quote, guard, sentinel, blocked>>

\* Both guards are dropped once the price is known, be it the old one; the tasks that
\* wanted the shards go on.
AnswerPolled == guard = "asking" /\ driven

AnswerPrice ==
    /\ AnswerPolled
    /\ JudgeMarket
    /\ blocked' = {}
    /\ UNCHANGED <<storeVars, quote, sentinel, driven>>

\* get_book_ticker does not look at the status of the answer: an error message has
\* no bidPrice and no askPrice, and counts as a price of zero.
AnswerError ==
    /\ AnswerPolled
    /\ \E cvd \in BOOLEAN : Judge(IF long THEN -Ruin ELSE Ruin, cvd)
    /\ blocked' = {}
    /\ UNCHANGED <<storeVars, quote, sentinel, driven>>

----------------------------------------------------------------------------
(* The Sentinel *)

\* Faulty variant: the time barrier asks for a profit instead of the lack of one.
SentinelExitsSwapped(stop, adverse) ==
    \/ roe < stop
    \/ overdue /\ roe > 30
    \/ adverse

\* adverse: funding is due within ten minutes, high, and paid by this side.
SentinelExits(stop, adverse) ==
    \/ roe < stop
    \/ overdue /\ roe <= 30
    \/ adverse

SentinelClose ==
    /\ sentinel = "asleep"
    /\ ShardFree
    /\ held /\ closer = "none"
    /\ \E stop \in Stops, adverse \in BOOLEAN : SentinelExits(stop, adverse)
    /\ closer' = "sentinel"
    /\ sentinel' = "executing"
    /\ UNCHANGED <<recordVars, storeVars, quote, guard, blocked, driven>>

\* The record calls for a close, whatever the stop and the funding.
MustClose == \A stop \in Stops : SentinelExits(stop, FALSE)

\* Its scan found something to close among the other records only.
SentinelCloseOthers ==
    /\ sentinel = "asleep"
    /\ ShardFree
    /\ ~held \/ closer # "none" \/ \E stop \in Stops : ~SentinelExits(stop, FALSE)
    /\ sentinel' = "executing"
    /\ UNCHANGED <<recordVars, storeVars, closer, quote, guard, blocked, driven>>

----------------------------------------------------------------------------
(* The rest of the program *)

\* The main loop closes the position because a signal opposes it.
Reverse ==
    /\ ShardFree
    /\ held /\ closer = "none"
    /\ closer' = "main"
    /\ UNCHANGED <<recordVars, storeVars, quote, loopVars>>

\* execute_order removes the record after a close that went through ...
Closed ==
    /\ ShardFree
    /\ closer # "none"
    /\ NoRecord
    /\ closer' = "none"
    /\ guard' = IF closer = "risk" THEN "asleep" ELSE guard
    /\ sentinel' = IF closer = "sentinel" THEN "asleep" ELSE sentinel
    /\ UNCHANGED <<storeVars, quote, blocked, driven>>

\* ... and unlocks it after one that failed.
CloseFailed ==
    /\ ShardFree
    /\ closer # "none"
    /\ closer' = "none"
    /\ guard' = IF closer = "risk" THEN "asleep" ELSE guard
    /\ sentinel' = IF closer = "sentinel" THEN "asleep" ELSE sentinel
    /\ UNCHANGED <<recordVars, storeVars, quote, blocked, driven>>

\* The Sentinel breaks a lock that has timed out, or a close that outlived the record
\* it was for fails and unlocks the one there is now; the close goes on without it.
Unlock ==
    /\ ShardFree
    /\ held /\ closer # "none"
    /\ closer' = "none"
    /\ UNCHANGED <<recordVars, storeVars, quote, loopVars>>

\* Faulty variant: the orders are spawned, and the loop does not await them.
GuardGoesOnAtOnce ==
    /\ guard = "executing"
    /\ guard' = "asleep"
    /\ UNCHANGED <<recordVars, storeVars, closer, quote, sentinel, blocked, driven>>

\* The orders for the other records are executed, and the loop goes on.
GuardGoesOn ==
    /\ guard = "executing" /\ closer # "risk"
    /\ guard' = "asleep"
    /\ UNCHANGED <<recordVars, storeVars, closer, quote, sentinel, blocked, driven>>

SentinelGoesOn ==
    /\ sentinel = "executing" /\ closer # "sentinel"
    /\ sentinel' = "asleep"
    /\ UNCHANGED <<recordVars, storeVars, closer, quote, guard, blocked, driven>>

\* The main loop opens a position for a symbol that has no record ...
Order ==
    /\ ShardFree
    /\ ~held /\ ~opening
    /\ opening' = TRUE
    /\ UNCHANGED <<recordVars, adopting, closer, quote, loopVars>>

\* ... and stores one when the order is filled, in place of the record the reconciler
\* may have adopted meanwhile, lock and all.
Open ==
    /\ ShardFree
    /\ opening
    /\ opening' = FALSE
    /\ \E l, m \in BOOLEAN : FreshRecord(l, m)
    /\ closer' = "none"
    /\ UNCHANGED <<adopting, quote, loopVars>>

\* The order fails.
OrderFailed ==
    /\ opening
    /\ opening' = FALSE
    /\ UNCHANGED <<recordVars, adopting, closer, quote, loopVars>>

\* The reconciler looks up a listed position and finds no record; it keeps no guard ...
FindMissing ==
    /\ ShardFree
    /\ ~held /\ ~adopting
    /\ adopting' = TRUE
    /\ UNCHANGED <<recordVars, opening, closer, quote, loopVars>>

\* ... and inserts one, never as a momentum trade, in place of the one an open may
\* have stored meanwhile, lock and best ROE and all.
Adopt ==
    /\ ShardFree
    /\ adopting
    /\ adopting' = FALSE
    /\ \E l \in BOOLEAN : FreshRecord(l, FALSE)
    /\ closer' = "none"
    /\ UNCHANGED <<opening, quote, loopVars>>

\* Faulty variant: a listed position replaces the record it has.
CorrectAmountByRecord ==
    /\ ShardFree
    /\ held
    /\ FreshRecord(~long, FALSE)
    /\ UNCHANGED <<storeVars, closer, quote, loopVars>>

\* The reconciler finds the position turned round and corrects its amount; what the
\* record remembers of the profits stays.
CorrectAmount ==
    /\ ShardFree
    /\ held
    /\ long' = ~long
    /\ UNCHANGED <<held, momentum, overdue, roe, mfe, alert, storeVars, closer, quote, loopVars>>

\* The reconciler does not find the position and removes the record.  A close still
\* under way comes to its end without it.
Prune ==
    /\ ShardFree
    /\ held
    /\ NoRecord
    /\ closer' = "none"
    /\ UNCHANGED <<storeVars, quote, loopVars>>

\* layer1_max_holding_hours and the like have passed since entry_time.
TimeBarrier ==
    /\ held
    /\ ~overdue
    /\ overdue' = TRUE
    /\ UNCHANGED <<held, long, momentum, roe, mfe, alert, storeVars, closer, quote, loopVars>>

----------------------------------------------------------------------------

FeedStep == BookTicker \/ GrowOld

Answer == AnswerPrice \/ AnswerError

GuardStep == Scan \/ Ask \/ ScanOthers \/ Answer \/ Wake \/ \E t \in PoolTasks : Block(t)

SentinelStep == SentinelClose \/ SentinelCloseOthers

RestStep ==
    \/ Reverse \/ Closed \/ CloseFailed \/ Unlock
    \/ GuardGoesOn \/ SentinelGoesOn
    \/ FindMissing \/ Adopt \/ CorrectAmount \/ Prune \/ TimeBarrier
    \/ Order \/ Open \/ OrderFailed

Next == FeedStep \/ GuardStep \/ SentinelStep \/ RestStep

Spec == Init /\ [][Next]_vars

\* The exchange answers a REST call or the call fails, and a worker that polls the
\* driver takes the answer - that one does poll it is not assumed; a close comes to an
\* end; the Sentinel's thread, which waits for the shard, gets it one of the infinitely
\* many times it is free (the RiskGuard sleeps 100 ms between its cycles).
Fairness ==
    /\ WF_vars(Answer)
    /\ WF_vars(Closed \/ CloseFailed)
    /\ WF_vars(GuardGoesOn) /\ WF_vars(SentinelGoesOn)
    /\ SF_vars(SentinelClose /\ MustClose)

FairSpec == Spec /\ Fairness

----------------------------------------------------------------------------
(* Properties *)

\* Every variable has its type, and the best ROE is no less than the last one.
TypeOK ==
    /\ held \in BOOLEAN /\ long \in BOOLEAN /\ momentum \in BOOLEAN
    /\ overdue \in BOOLEAN
    /\ roe \in Int /\ mfe \in Int /\ mfe >= roe /\ alert \in BOOLEAN
    /\ opening \in BOOLEAN /\ adopting \in BOOLEAN
    /\ closer \in {"none", "risk", "sentinel", "main"}
    /\ quote \in {"none", "fresh", "old"}
    /\ guard \in {"asleep", "asking", "executing"}
    /\ sentinel \in {"asleep", "executing"}
    /\ blocked \subseteq PoolTasks
    /\ driven \in BOOLEAN

\* What the comments of the phases promise a position whose best ROE was `best`, in
\* hundredths of the tenths: it may lose 12%; once it was above 8% it is out at +1.5%;
\* above 10% it keeps its share; a momentum trade may fall 15% from its peak.
Floor(m, best) ==
    IF m THEN IF best > 100 THEN Better(-12000, 100 * (best - 150)) ELSE -12000
         ELSE IF best > 100 THEN Share(best) * best
                            ELSE IF best > 80 THEN 1500 ELSE -12000

Judges == Scan \/ Answer

\* No cycle leaves a position behind, unlocked, below its floor: no phase hides
\* another one by its `continue`, and the alert flag a later phase needs was set by an
\* earlier cycle.
FloorKept ==
    [][Judges => (closer' # "none" \/ 100 * roe' >= Floor(momentum, mfe'))]_vars

\* A step that stores no record anew never lowers the floor of one: neither a better
\* ROE, nor the change of stage it brings at 8, 10, 20 and 40 percent, nor an amount
\* the reconciler corrects gives back what the position had secured.
FloorRises ==
    [][held /\ held' /\ ~Open /\ ~Adopt
         => Floor(momentum', mfe') >= Floor(momentum, mfe)]_vars

\* Everything that waits here waits for somebody at work: a lock taken by one of the
\* loops for the very close this loop is executing, though it may lose the lock to a
\* time-out, a prune or a fresh record and scan again; a pool task that blocks its
\* worker for the RiskGuard's REST call.  And the driver goes unpolled only for a task
\* that ran into the guards of that call.
WaitsEnd ==
    /\ closer = "risk" => guard = "executing"
    /\ closer = "sentinel" => sentinel = "executing"
    /\ blocked # {} => guard = "asking"
    /\ ~driven => blocked # {}

\* A position past its time barrier without the profit to stay is closed, or somebody
\* is closing it, though the RiskGuard may hold the shard whenever the Sentinel looks
\* and the Sentinel may be executing other closes - provided the workers come back to
\* the driver after all, which nothing but another thread's wake-up makes them do.
Lingers == held /\ overdue /\ roe <= 30
OverdueClosed == []<>driven => (Lingers ~> (~Lingers \/ closer # "none"))

=============================================================================
