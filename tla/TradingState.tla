------------------------------ MODULE TradingState ------------------------------
(****************************************************************************)
(* What the tasks of the trading engine share, and the account at the       *)
(* exchange they act on: constants, variables and the words the modules     *)
(* Exchange, Executor, Monitors, TrendProcessor, Reconciler and Trading     *)
(* have in common.                                                          *)
(*                                                                          *)
(* Three tasks give orders: the main loop (signals), the RiskGuard loop and *)
(* the Sentinel thread.  Each runs its orders one after the other inside    *)
(* Executor::execute_order, which awaits the exchange at every call; pc is  *)
(* the await the task is at.  Quantities are integers, longs positive.      *)
(* Prices, ROE, thresholds and sizes only decide whether and which way an   *)
(* order is given; that choice is left open.                                *)
(****************************************************************************)
EXTENDS Integers, FiniteSets

CONSTANTS
    Symbols,       \* the coins traded
    OrderIds,      \* orders that can rest in the book at a time (bound)
    Lot,           \* the quantity of an open order
    MaxPositions,  \* max_positions of the configuration
    MaxOpens,      \* open orders the main loop gives in a behaviour (bound)
    MaxCrashes,    \* crashes of the process in a behaviour (bound)
    Modes,         \* the sets of Conditions a behaviour may be under
    RiskReasons,   \* the close conditions of the RiskGuard that may hold (bound)
    SentinelReasons,             \* those of the Sentinel that may hold (bound)
    main, risk, sentinel,        \* the three tasks
    NoPosition, NoOrder, NoJob, NoId

Conditions ==
    { "dryRun"        \* the dry_run flag of the configuration
    , "reconciler"    \* the reconciler's calls get an answer
    , "crash"         \* the process may crash
    , "lostReply"     \* an order is executed but the call returns an error
    , "cancelFail"    \* order.cancel returns an error and the order rests on
    , "restFail"      \* a REST call returns an error
    , "slowClose"     \* a close outlasts closing_timeout_ms
    , "liquidation"   \* the exchange, or a person, closes a position
    }

Tasks == {main, risk, sentinel}

\* hard: the RiskGuard's "Hard Stop Loss", which the executor knows by its text;
\* stop: any other stop loss;  exit: profits, time, funding, reversal.
Reasons == {"hard", "stop", "exit"}

ASSUME LotAssumption == Lot \in Nat \ {0}
ASSUME BoundsAssumption == MaxPositions \in Nat /\ MaxOpens \in Nat /\ MaxCrashes \in Nat
ASSUME ModesAssumption == Modes \subseteq SUBSET Conditions
ASSUME ReasonsAssumption ==
    /\ RiskReasons \subseteq Reasons
    /\ SentinelReasons \subseteq {"stop", "exit"}
ASSUME SymbolsAssumption == IsFiniteSet(Symbols)
ASSUME TasksAssumption == main # risk /\ main # sentinel /\ risk # sentinel

\* An order given to execute_order.  qty is the signed quantity of the position
\* to open, or of the position to close.
Jobs == [kind : {"open", "close"}, sym : Symbols, qty : Int, reason : Reasons]

\* A record of position_map.  own: opened by this run of the program, not adopted.
Positions == [amt : Int, closing : BOOLEAN, own : BOOLEAN]

\* A limit order the exchange knows: rests while rem > 0.
Orders == [sym : Symbols, side : {-1, 1}, rem : Nat, done : Nat, ro : BOOLEAN]

ASSUME NullsAssumption ==
    /\ NoPosition \notin Positions
    /\ NoOrder \notin Orders
    /\ NoJob \notin Jobs
    /\ NoId \notin OrderIds

VARIABLES
    exch,        \* the account: signed position of each symbol
    orders,      \* the limit orders in the book, by order id
    positions,   \* position_map
    pc,          \* where each task is
    todo,        \* the close orders of a scan still to execute
    cur,         \* the order each task executes
    oid,         \* the id of its limit order
    got,         \* limit_filled_qty of its order
    rpc,         \* where the reconciler is
    snap,        \* the positions the exchange reported to it
    rtodo,       \* the symbols it has still to look at
    ghosts,      \* the one it has found without a record, until it inserts one
    boot,        \* "sync" and "cancel" while main starts up, then "up"
    mode,        \* the conditions this behaviour is under, chosen at the start
    opens,       \* open orders given so far
    crashes      \* crashes so far

exchVars == <<exch, orders>>
taskVars == <<pc, todo, cur, oid, got>>
reconVars == <<rpc, snap, rtodo, ghosts>>
countVars == <<boot, mode, opens, crashes>>
vars == <<exchVars, positions, taskVars, reconVars, countVars>>

\* idle       scanning, or waiting for the next signal
\* drain      between two close orders of one scan
\* check      an open order waits for the balance, then checks for duplicates
\* cancelAll  about to cancel all open orders of the symbol
\* limit      about to place the maker order
\* cancel     the maker order rests for 3.5 s, then is cancelled
\* status     about to ask how much of it was filled
\* market     about to place the market order for the rest
\* filled     the last call succeeded;  failed: it returned an error
PCs == {"idle", "drain", "check", "cancelAll", "limit", "cancel", "status",
        "market", "filled", "failed"}

Sign(n) == IF n > 0 THEN 1 ELSE IF n < 0 THEN -1 ELSE 0
Abs(n) == IF n < 0 THEN -n ELSE n
Least(a, b) == IF a < b THEN a ELSE b

Held(s) == positions[s] # NoPosition
HeldSymbols == {s \in Symbols : Held(s)}

\* MockPosition::new: a fresh record carries a fresh lock.
NewPosition(amt, own) == [amt |-> amt, closing |-> FALSE, own |-> own]

CloseJob(s, reason) ==
    [kind |-> "close", sym |-> s, qty |-> positions[s].amt, reason |-> reason]

\* Task t has a close order for s, queued or being executed.
Closing(t, s) ==
    \/ \E j \in todo[t] : j.sym = s
    \/ cur[t] # NoJob /\ cur[t].kind = "close" /\ cur[t].sym = s

Fault(f) == f \in mode
DryRun == "dryRun" \in mode
Reconciling == "reconciler" \in mode

=============================================================================
