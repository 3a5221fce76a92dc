----------------------------- MODULE TradingProofs -----------------------------
(****************************************************************************)
(* What holds of the trading engine for any number of symbols and orders,   *)
(* any quantities and any combination of faults: type correctness, that a   *)
(* locked position always has somebody closing it, and that closing never   *)
(* makes a position larger or turns it round.                               *)
(****************************************************************************)
EXTENDS Trading, TLAPS

USE LotAssumption, BoundsAssumption, TasksAssumption, NullsAssumption

----------------------------------------------------------------------------
(* Operators *)

LEMMA SignAbs ==
    ASSUME NEW n \in Int
    PROVE  /\ Sign(n) \in {-1, 0, 1}
           /\ n # 0 => Sign(n) \in {-1, 1}
           /\ Abs(n) \in Nat
           /\ Abs(n) > 0 => n # 0
  BY DEF Sign, Abs

\* The side of a job's exchange order.
LEMMA SideType ==
    ASSUME NEW j \in Jobs
    PROVE  /\ Side(j) \in {-1, 0, 1}
           /\ Abs(j.qty) \in Nat
           /\ Abs(j.qty) > 0 => Side(j) \in {-1, 1}
           /\ ReduceOnly(j) \in BOOLEAN
  <1>1. j.qty \in Int /\ -j.qty \in Int /\ (j.qty # 0 => -j.qty # 0)
    BY DEF Jobs
  <1>2. QED
    BY <1>1, SignAbs DEF Side, ReduceOnly

\* No order fills more than its quantity.
LEMMA FillableBound ==
    ASSUME exch \in [Symbols -> Int], NEW s \in Symbols, NEW side \in {-1, 0, 1},
           NEW q \in Int, NEW ro \in BOOLEAN
    PROVE  /\ Fillable(s, side, q, ro) \in Int
           /\ Fillable(s, side, q, ro) <= q
  <1>1. Reducible(s, side) \in Int
    BY SignAbs DEF Reducible
  <1>2. QED
    BY <1>1 DEF Fillable, Least

\* A signed quantity moved by a fill stays an integer.
LEMMA SignedSum ==
    ASSUME NEW a \in Int, NEW n \in Int, NEW side \in {-1, 0, 1}
    PROVE  a + side * n \in Int /\ side * n \in Int
  OBVIOUS

\* Locking and unlocking a record leaves a record.
LEMMA LockType ==
    ASSUME NEW p \in Positions, NEW b \in BOOLEAN
    PROVE  [p EXCEPT !.closing = b] \in Positions
  BY DEF Positions

LEMMA CancelledBookType ==
    ASSUME orders \in [OrderIds -> Orders \cup {NoOrder}], NEW O
    PROVE  CancelledBook(O) \in [OrderIds -> Orders \cup {NoOrder}]
  <1> SUFFICES ASSUME NEW o \in OrderIds, Rests(o)
               PROVE  Settled(o, [orders[o] EXCEPT !.rem = 0]) \in Orders \cup {NoOrder}
    BY DEF CancelledBook
  <1>1. [orders[o] EXCEPT !.rem = 0] \in Orders
    BY DEF Orders, Rests
  <1>2. QED
    BY <1>1 DEF Settled

----------------------------------------------------------------------------
(* Type correctness *)

LEMMA TypeInit == Init => TypeOK
  BY DEF Init, TypeOK, OnTasks, OnSymbols, PCs

LEMMA ReturnType ==
    ASSUME TypeOK, NEW t \in Tasks, Return(t)
    PROVE  /\ pc' \in [Tasks -> PCs]
           /\ todo' \in [Tasks -> SUBSET Jobs]
           /\ cur' \in [Tasks -> Jobs \cup {NoJob}]
           /\ oid' \in [Tasks -> OrderIds \cup {NoId}]
           /\ got' \in [Tasks -> Nat]
  BY DEF TypeOK, Return, PCs

LEMMA ExchangeType ==
    ASSUME TypeOK, ExchangeStep
    PROVE  TypeOK'
  <1> USE DEF TypeOK, taskVars, reconVars, countVars
  <1>1. ASSUME NEW o \in OrderIds, Fill(o) PROVE TypeOK'
    <2> DEFINE order == orders[o]
    <2>1. order \in Orders /\ order.rem > 0
      BY <1>1 DEF Fill, Rests
    <2>2. PICK n \in 1 .. order.rem :
            /\ exch' = [exch EXCEPT ![order.sym] = @ + order.side * n]
            /\ orders' = [orders EXCEPT ![o] =
                   Settled(o, [order EXCEPT !.rem = @ - n, !.done = @ + n])]
      BY <1>1 DEF Fill
    <2>3. order.sym \in Symbols /\ order.side \in {-1, 0, 1} /\ n \in Int
      BY <2>1 DEF Orders
    <2>4. exch' \in [Symbols -> Int]
      BY <2>2, <2>3, SignedSum
    <2>5. [order EXCEPT !.rem = @ - n, !.done = @ + n] \in Orders
      <3>1. order.rem - n \in Nat /\ order.done + n \in Nat
        BY <2>1 DEF Orders
      <3>2. QED
        BY <2>1, <3>1 DEF Orders
    <2>6. orders' \in [OrderIds -> Orders \cup {NoOrder}]
      BY <2>2, <2>5 DEF Settled
    <2>7. QED
      BY <1>1, <2>4, <2>6 DEF Fill
  <1>2. ASSUME NEW o \in OrderIds, Expire(o) PROVE TypeOK'
    BY <1>2, CancelledBookType DEF Expire
  <1>3. ASSUME NEW s \in Symbols, Liquidate(s) PROVE TypeOK'
    BY <1>3 DEF Liquidate
  <1>4. QED
    BY <1>1, <1>2, <1>3 DEF ExchangeStep

\* The limit order a task places is one: of positive quantity and with a side.
LEMMA AcceptType ==
    ASSUME TypeOK, NEW t \in Tasks, NEW o \in OrderIds, cur[t] \in Jobs, Accept(t, o)
    PROVE  RestingOrder(cur[t].sym, Side(cur[t]), Abs(cur[t].qty), ReduceOnly(cur[t]))
             \in Orders
  <1> DEFINE job == cur[t]
  <1>1. job.sym \in Symbols
    BY DEF Jobs
  <1>2. Abs(job.qty) > 0
    BY <1>1, SideType, FillableBound DEF Accept, TypeOK
  <1>3. QED
    BY <1>1, <1>2, SideType DEF RestingOrder, Orders

LEMMA ExecutorType ==
    ASSUME TypeOK, TasksConsistent, NEW t \in Tasks, ExecutorStep(t)
    PROVE  TypeOK'
  <1> USE DEF TypeOK, exchVars, reconVars, countVars
  <1>0. pc[t] \notin {"idle", "drain"} => cur[t] \in Jobs
    BY DEF TasksConsistent
  <1>1. CASE Start(t)
    BY <1>1 DEF Start, PCs
  <1>2. CASE CancelAll(t)
    <2>1. orders' \in [OrderIds -> Orders \cup {NoOrder}]
      BY <1>2, CancelledBookType DEF CancelAll
    <2>2. pc' \in [Tasks -> PCs]
      BY <1>2 DEF CancelAll, AfterCancelAll, PCs
    <2>3. QED
      BY <1>2, <2>1, <2>2 DEF CancelAll
  <1>3. CASE PlaceLimit(t)
    <2>1. ASSUME NEW o \in OrderIds, Accept(t, o)
          PROVE  orders' \in [OrderIds -> Orders \cup {NoOrder}]
      BY <1>0, <1>3, <2>1, AcceptType DEF Accept, PlaceLimit
    <2>2. orders' \in [OrderIds -> Orders \cup {NoOrder}]
      BY <1>3, <2>1 DEF PlaceLimit
    <2>3. pc' \in [Tasks -> PCs] /\ oid' \in [Tasks -> OrderIds \cup {NoId}]
      BY <1>3 DEF PlaceLimit, PCs
    <2>4. QED
      BY <1>3, <2>2, <2>3 DEF PlaceLimit
  <1>4. CASE CancelLimit(t)
    <2>1. orders' \in [OrderIds -> Orders \cup {NoOrder}]
      BY <1>4, CancelledBookType DEF CancelLimit
    <2>2. QED
      BY <1>4, <2>1 DEF CancelLimit, PCs
  <1>5. CASE GetStatus(t)
    <2>1. oid[t] \in OrderIds /\ orders[oid[t]] \in Orders
      BY <1>5 DEF GetStatus, TasksConsistent
    <2>2. orders[oid[t]].done \in Nat
      BY <2>1 DEF Orders
    <2>3. got' \in [Tasks -> Nat] /\ pc' \in [Tasks -> PCs]
      BY <1>5, <2>2 DEF GetStatus, PCs
    <2>4. orders' \in [OrderIds -> Orders \cup {NoOrder}]
      BY <1>5, <2>1 DEF GetStatus
    <2>5. QED
      BY <1>5, <2>3, <2>4 DEF GetStatus
  <1>6. CASE PlaceMarket(t)
    <2> DEFINE job == cur[t]
               n == Fillable(job.sym, Side(job), Remaining(t), ReduceOnly(job))
    <2>1. job \in Jobs /\ job.sym \in Symbols
      BY <1>0, <1>6 DEF PlaceMarket, Jobs
    <2>2. Side(job) \in {-1, 0, 1} /\ ReduceOnly(job) \in BOOLEAN /\ Remaining(t) \in Int
      BY <2>1, SideType DEF Remaining
    <2>3. n \in Int
      BY <2>1, <2>2, FillableBound
    <2>4. exch[job.sym] + Side(job) * n \in Int
      BY <2>1, <2>2, <2>3, SignedSum
    <2> HIDE DEF n
    <2>5. exch' \in [Symbols -> Int]
      BY <1>6, <2>4 DEF PlaceMarket, n
    <2>6. QED
      BY <1>6, <2>5 DEF PlaceMarket, PCs
  <1>7. CASE FinishClose(t)
    BY <1>7, ReturnType DEF FinishClose
  <1>8. CASE FailClose(t)
    <2>. DEFINE Unlocked(p) ==
                  IF p = NoPosition THEN p ELSE [p EXCEPT !.closing = FALSE]
    <2>3. \A p \in Positions \cup {NoPosition} : Unlocked(p) \in Positions \cup {NoPosition}
      BY LockType
    <2>4. positions' = [positions EXCEPT ![cur[t].sym] = Unlocked(@)]
      BY <1>8 DEF FailClose
    <2>. HIDE DEF Unlocked
    <2>5. positions' \in [Symbols -> Positions \cup {NoPosition}]
      BY <2>3, <2>4
    <2>6. QED
      BY <1>8, <2>5, ReturnType DEF FailClose
  <1>9. CASE FinishOpen(t)
    <2>1. cur[t] \in Jobs
      BY <1>0, <1>9 DEF FinishOpen
    <2>2. cur[t].qty \in Int /\ got[t] \in Int
      BY <2>1 DEF Jobs
    <2>3. 0 + Sign(cur[t].qty) * got[t] \in Int /\ Sign(cur[t].qty) * got[t] \in Int
      BY <2>2, SignAbs, SignedSum
    <2>4. NewPosition(Opened(t), TRUE) \in Positions
      BY <2>2, <2>3 DEF NewPosition, Opened, Positions
    <2>5. QED
      BY <1>9, <2>4, ReturnType DEF FinishOpen
  <1>10. CASE AbandonOpen(t)
    BY <1>10, ReturnType DEF AbandonOpen
  <1>11. QED
    BY <1>1, <1>2, <1>3, <1>4, <1>5, <1>6, <1>7, <1>8, <1>9, <1>10 DEF ExecutorStep

LEMMA TypeStep ==
    ASSUME TypeOK, TasksConsistent, [Next]_vars
    PROVE  TypeOK'
  <1>1. CASE ExchangeStep
    BY <1>1, ExchangeType
  <1>2. ASSUME NEW t \in Tasks, ExecutorStep(t) PROVE TypeOK'
    BY <1>2, ExecutorType
  <1> USE DEF TypeOK, exchVars, taskVars, reconVars, countVars
  <1>3. CASE MonitorStep
    <2>1. ASSUME NEW s \in Symbols, NEW t \in {risk, sentinel}, LockForClose(t, s)
          PROVE  TypeOK'
      <3>1. positions[s] \in Positions /\ t \in Tasks
        BY <2>1 DEF LockForClose, Held, Tasks
      <3>2. [positions[s] EXCEPT !.closing = TRUE] \in Positions
        BY <3>1, LockType
      <3>3. \A reason \in Reasons : CloseJob(s, reason) \in Jobs
        BY <3>1 DEF CloseJob, Jobs, Positions
      <3>4. ReasonsOf(t) \subseteq Reasons
        BY ReasonsAssumption DEF ReasonsOf, Reasons
      <3>5. todo' \in [Tasks -> SUBSET Jobs]
        BY <2>1, <3>1, <3>3, <3>4 DEF LockForClose
      <3>6. positions' \in [Symbols -> Positions \cup {NoPosition}]
        BY <2>1, <3>2 DEF LockForClose
      <3>7. QED
        BY <2>1, <3>5, <3>6 DEF LockForClose
    <2>2. ASSUME NEW s \in Symbols, ForceUnlock(s) PROVE TypeOK'
      <3>1. [positions[s] EXCEPT !.closing = FALSE] \in Positions
        BY <2>2, LockType DEF ForceUnlock, Held
      <3>2. QED
        BY <2>2, <3>1 DEF ForceUnlock
    <2>3. QED
      BY <1>3, <2>1, <2>2 DEF MonitorStep
  <1>4. CASE SignalStep
    <2> main \in Tasks
      BY DEF Tasks
    <2>1. CASE CheckOpen
      BY <2>1, ReturnType DEF CheckOpen, PCs
    <2>2. ASSUME NEW s \in Symbols, Reverse(s) PROVE TypeOK'
      <3>1. [positions[s] EXCEPT !.closing = TRUE] \in Positions
        BY <2>2, LockType DEF Reverse, Held
      <3>2. CloseJob(s, "exit") \in Jobs
        BY <2>2 DEF Reverse, Held, CloseJob, Jobs, Positions, Reasons
      <3>3. positions' \in [Symbols -> Positions \cup {NoPosition}]
        BY <2>2, <3>1 DEF Reverse
      <3>4. todo' \in [Tasks -> SUBSET Jobs]
        BY <2>2, <3>2 DEF Reverse
      <3>5. QED
        BY <2>2, <3>3, <3>4 DEF Reverse
    <2>3. ASSUME NEW s \in Symbols, Open(s) PROVE TypeOK'
      <3>1. \A qty \in {Lot, -Lot} :
              [kind |-> "open", sym |-> s, qty |-> qty, reason |-> "exit"] \in Jobs
        BY DEF Jobs, Reasons
      <3>2. cur' \in [Tasks -> Jobs \cup {NoJob}]
        BY <2>3, <3>1 DEF Open
      <3>3. opens' \in 0 .. MaxOpens
        BY <2>3 DEF Open
      <3>4. QED
        BY <2>3, <3>2, <3>3 DEF Open, PCs
    <2>4. QED
      BY <1>4, <2>1, <2>2, <2>3 DEF SignalStep
  <1>5. CASE ReconcilerStep
    <2>1. CASE Snapshot
      BY <2>1 DEF Snapshot
    <2>2. ASSUME NEW s \in Symbols, Apply(s) PROVE TypeOK'
      <3>1. snap[s] \in Int
        OBVIOUS
      <3>2. CASE Correct(s)
        <4>1. [positions[s] EXCEPT !.amt = snap[s]] \in Positions
          BY <3>1, <3>2 DEF Correct, Held, Positions
        <4>2. QED
          BY <3>2, <4>1 DEF Correct
      <3>3. CASE FindGhost(s)
        BY <3>3 DEF FindGhost
      <3>4. CASE AdoptGhost(s)
        <4>1. NewPosition(snap[s], FALSE) \in Positions
          BY <3>1 DEF NewPosition, Positions
        <4>2. QED
          BY <3>4, <4>1 DEF AdoptGhost
      <3>5. QED
        BY <2>2, <3>2, <3>3, <3>4 DEF Apply
    <2>3. ASSUME NEW s \in Symbols, Prune(s) PROVE TypeOK'
      BY <2>3 DEF Prune
    <2>4. CASE ListLocal
      BY <2>4 DEF ListLocal, HeldSymbols
    <2>5. CASE Rest
      BY <2>5 DEF Rest
    <2>6. QED
      BY <1>5, <2>1, <2>2, <2>3, <2>4, <2>5 DEF ReconcilerStep
  <1>6. CASE BootSync
    <2>1. ASSUME NEW s \in Symbols PROVE NewPosition(exch[s], FALSE) \in Positions
      BY DEF NewPosition, Positions
    <2>2. Adopted \in [Symbols -> Positions \cup {NoPosition}]
      BY <2>1 DEF Adopted
    <2>3. QED
      BY <1>6, <2>2 DEF BootSync
  <1>7. CASE BootCancel
    <2>1. orders' \in [OrderIds -> Orders \cup {NoOrder}]
      BY <1>7, CancelledBookType DEF BootCancel
    <2>2. QED
      BY <1>7, <2>1 DEF BootCancel
  <1>8. CASE Crash
    BY <1>8 DEF Crash, OnTasks, OnSymbols, PCs
  <1>9. CASE UNCHANGED vars
    BY <1>9 DEF vars
  <1>10. QED
    BY <1>1, <1>2, <1>3, <1>4, <1>5, <1>6, <1>7, <1>8, <1>9 DEF Next

----------------------------------------------------------------------------
(* The locals of the tasks stay consistent *)

\* What a task knows of its order survives any change of the book that leaves the
\* orders the tasks wait for in place.
LEMMA BookConsistent ==
    ASSUME TasksConsistent, UNCHANGED taskVars,
           \A t \in Tasks : oid[t] # NoId => orders'[oid[t]] # NoOrder
    PROVE  TasksConsistent'
  BY DEF TasksConsistent, taskVars

\* Cancelling orders leaves those a task waits for in place.
LEMMA CancelledBookKeeps ==
    ASSUME TypeOK, TasksConsistent, NEW O, NEW t \in Tasks, oid[t] # NoId
    PROVE  CancelledBook(O)[oid[t]] # NoOrder
  <1>1. oid[t] \in OrderIds /\ orders[oid[t]] \in Orders
    BY DEF TypeOK, TasksConsistent
  <1>2. [orders[oid[t]] EXCEPT !.rem = 0] \in Orders
    BY <1>1 DEF Orders
  <1>3. QED
    BY <1>1, <1>2 DEF CancelledBook, Settled

LEMMA ReturnConsistent ==
    ASSUME TypeOK, TasksConsistent, NEW t \in Tasks, Return(t),
           pc[t] \notin {"cancel", "status"}, UNCHANGED orders
    PROVE  TasksConsistent'
  BY DEF TypeOK, TasksConsistent, Return

LEMMA ConsistentInit == Init => TasksConsistent
  BY DEF Init, TasksConsistent, OnTasks

LEMMA ExchangeConsistent ==
    ASSUME TypeOK, TasksConsistent, ExchangeStep
    PROVE  TasksConsistent'
  <1>1. ASSUME NEW o \in OrderIds, Fill(o) PROVE TasksConsistent'
    <2>1. orders[o] \in Orders
      BY <1>1 DEF Fill, Rests, TypeOK
    <2>2. PICK n \in 1 .. orders[o].rem : orders' = [orders EXCEPT ![o] =
              Settled(o, [orders[o] EXCEPT !.rem = @ - n, !.done = @ + n])]
      BY <1>1 DEF Fill
    <2> DEFINE left == [orders[o] EXCEPT !.rem = @ - n, !.done = @ + n]
    <2>3. left \in Orders
      <3>1. orders[o].rem - n \in Nat /\ orders[o].done + n \in Nat
        BY <2>1 DEF Orders
      <3>2. QED
        BY <2>1, <3>1 DEF Orders
    <2> HIDE DEF left
    <2>4. ASSUME NEW t \in Tasks, oid[t] # NoId PROVE orders'[oid[t]] # NoOrder
      BY <2>2, <2>3, <2>4 DEF left, Settled, TypeOK, TasksConsistent
    <2>5. QED
      BY <1>1, <2>4, BookConsistent DEF Fill
  <1>2. ASSUME NEW o \in OrderIds, Expire(o) PROVE TasksConsistent'
    BY <1>2, BookConsistent, CancelledBookKeeps DEF Expire
  <1>3. ASSUME NEW s \in Symbols, Liquidate(s) PROVE TasksConsistent'
    BY <1>3, BookConsistent DEF Liquidate, TasksConsistent
  <1>4. QED
    BY <1>1, <1>2, <1>3 DEF ExchangeStep

LEMMA ExecutorConsistent ==
    ASSUME TypeOK, TasksConsistent, NEW t \in Tasks, ExecutorStep(t)
    PROVE  TasksConsistent'
  <1> USE DEF TasksConsistent
  <1>1. CASE Start(t)
    <2>1. NoJob \notin todo[t]
      BY DEF TypeOK
    <2>2. QED
      BY <1>1, <2>1 DEF Start, exchVars, TypeOK
  <1>2. CASE CancelAll(t)
    <2>1. \A u \in Tasks : oid[u] # NoId => orders'[oid[u]] # NoOrder
      BY <1>2, CancelledBookKeeps DEF CancelAll
    <2>2. QED
      BY <1>2, <2>1 DEF CancelAll, AfterCancelAll, TypeOK
  <1>3. CASE PlaceLimit(t)
    <2>1. oid[t] = NoId
      BY <1>3 DEF PlaceLimit
    <2>2. cur[t] \in Jobs
      BY <1>3 DEF PlaceLimit, TypeOK
    <2>3. CASE UNCHANGED <<orders, oid>>
      BY <1>3, <2>3 DEF PlaceLimit, TypeOK
    <2>4. ASSUME NEW o \in OrderIds, Accept(t, o),
                 \/ oid' = [oid EXCEPT ![t] = o] /\ pc' = [pc EXCEPT ![t] = "cancel"]
                 \/ UNCHANGED oid /\ pc' = [pc EXCEPT ![t] = "market"]
          PROVE  TasksConsistent'
      <3> DEFINE order ==
            RestingOrder(cur[t].sym, Side(cur[t]), Abs(cur[t].qty), ReduceOnly(cur[t]))
      <3>1. order # NoOrder
        BY <2>2, <2>4, AcceptType
      <3>2. orders[o] = NoOrder /\ orders' = [orders EXCEPT ![o] = order]
        BY <2>4 DEF Accept
      <3> HIDE DEF order
      <3>3. \A u \in Tasks : oid[u] # NoId => oid[u] # o
        BY <3>2
      <3>4. UNCHANGED <<todo, cur>>
        BY <1>3 DEF PlaceLimit
      <3>5. QED
        BY <1>3, <2>1, <2>4, <3>1, <3>2, <3>3, <3>4 DEF PlaceLimit, TypeOK
    <2>5. QED
      BY <1>3, <2>3, <2>4 DEF PlaceLimit
  <1>4. CASE CancelLimit(t)
    <2>1. \A u \in Tasks : oid[u] # NoId => orders'[oid[u]] # NoOrder
      BY <1>4, CancelledBookKeeps DEF CancelLimit
    <2>2. QED
      BY <1>4, <2>1 DEF CancelLimit, TypeOK
  <1>5. CASE GetStatus(t)
    BY <1>5 DEF GetStatus, TypeOK
  <1>6. CASE PlaceMarket(t)
    BY <1>6 DEF PlaceMarket, TypeOK
  <1>7. QED
    BY <1>1, <1>2, <1>3, <1>4, <1>5, <1>6, ReturnConsistent
    DEF ExecutorStep, FinishClose, FailClose, FinishOpen, AbandonOpen, exchVars

LEMMA ConsistentStep ==
    ASSUME TypeOK, TasksConsistent, [Next]_vars
    PROVE  TasksConsistent'
  <1>1. CASE ExchangeStep
    BY <1>1, ExchangeConsistent
  <1>2. ASSUME NEW t \in Tasks, ExecutorStep(t) PROVE TasksConsistent'
    BY <1>2, ExecutorConsistent
  <1> USE DEF TasksConsistent
  <1>3. CASE MonitorStep
    <2>1. ASSUME NEW s \in Symbols, NEW t \in {risk, sentinel}, LockForClose(t, s)
          PROVE  TasksConsistent'
      BY <2>1 DEF LockForClose, CloseJob, exchVars, TypeOK, Tasks
    <2>2. ASSUME NEW s \in Symbols, ForceUnlock(s) PROVE TasksConsistent'
      BY <2>2 DEF ForceUnlock, exchVars, taskVars
    <2>3. QED
      BY <1>3, <2>1, <2>2 DEF MonitorStep
  <1>4. CASE SignalStep
    <2> main \in Tasks
      BY DEF Tasks
    <2>1. CASE CheckOpen
      <3>1. CASE Return(main)
        BY <2>1, <3>1, ReturnConsistent DEF CheckOpen, exchVars
      <3>2. CASE UNCHANGED <<todo, cur, oid, got>>
        BY <2>1, <3>2 DEF CheckOpen, exchVars, TypeOK, Return
      <3>3. QED
        BY <2>1, <3>1, <3>2 DEF CheckOpen
    <2>2. ASSUME NEW s \in Symbols, Reverse(s) PROVE TasksConsistent'
      BY <2>2 DEF Reverse, CloseJob, exchVars, TypeOK
    <2>3. ASSUME NEW s \in Symbols, Open(s) PROVE TasksConsistent'
      <3>1. PICK qty \in {Lot, -Lot} : cur' = [cur EXCEPT ![main] =
                [kind |-> "open", sym |-> s, qty |-> qty, reason |-> "exit"]]
        BY <2>3 DEF Open
      <3>2. [kind |-> "open", sym |-> s, qty |-> qty, reason |-> "exit"] \in Jobs
        BY DEF Jobs, Reasons
      <3>3. QED
        BY <2>3, <3>1, <3>2 DEF Open, Ready, exchVars, TypeOK
    <2>4. QED
      BY <1>4, <2>1, <2>2, <2>3 DEF SignalStep
  <1>5. CASE ReconcilerStep
    <2>1. UNCHANGED <<exchVars, taskVars>>
      BY <1>5 DEF ReconcilerStep, Snapshot, Apply, Correct, FindGhost, AdoptGhost, Prune,
         ListLocal, Rest
    <2>2. QED
      BY <2>1, BookConsistent DEF exchVars, taskVars, TasksConsistent
  <1>6. CASE BootSync
    BY <1>6 DEF BootSync, exchVars, taskVars
  <1>7. CASE BootCancel
    BY <1>7, CancelledBookKeeps, BookConsistent DEF BootCancel
  <1>8. CASE Crash
    BY <1>8 DEF Crash, OnTasks
  <1>9. CASE UNCHANGED vars
    BY <1>9 DEF vars, exchVars, taskVars
  <1>10. QED
    BY <1>1, <1>2, <1>3, <1>4, <1>5, <1>6, <1>7, <1>8, <1>9 DEF Next

\* The type invariant and, with it, the consistency of the tasks' locals: each needs
\* the other, since what a task reads of its order is typed only while that exists.
THEOREM TypeCorrect == Spec => [](TypeOK /\ TasksConsistent)
<1>1. Init => TypeOK /\ TasksConsistent
  BY TypeInit, ConsistentInit
<1>2. TypeOK /\ TasksConsistent /\ [Next]_vars => (TypeOK /\ TasksConsistent)'
  BY TypeStep, ConsistentStep
<1>3. QED
  BY <1>1, <1>2, PTL DEF Spec

----------------------------------------------------------------------------
(* Locked positions *)

\* A close order is dropped only together with the lock of its symbol: what is still
\* locked after a task's step is locked before it, and somebody else closes it.
LEMMA ExecutorKeepsOwner ==
    ASSUME TypeOK, TasksConsistent, LocksOwned, ~DryRun,
           NEW t \in Tasks, ExecutorStep(t)
    PROVE  LocksOwned'
  <1> USE DEF LocksOwned, Held, Closing
  <1>1. CASE Start(t)
    <2>1. PICK j \in todo[t] :
            /\ todo' = [todo EXCEPT ![t] = @ \ {j}]
            /\ cur' = [cur EXCEPT ![t] = j]
      BY <1>1 DEF Start
    <2>2. j \in Jobs /\ j.kind = "close" /\ cur[t] = NoJob
      BY <1>1, <2>1 DEF Start, TypeOK, TasksConsistent
    <2>3. ASSUME NEW u \in Tasks, NEW s \in Symbols, Closing(u, s) PROVE Closing(u, s)'
      BY <2>1, <2>2, <2>3 DEF TypeOK
    <2>4. QED
      BY <1>1, <2>3 DEF Start
  <1>2. CASE CancelAll(t) \/ PlaceLimit(t) \/ CancelLimit(t) \/ GetStatus(t) \/ PlaceMarket(t)
    BY <1>2 DEF CancelAll, PlaceLimit, CancelLimit, GetStatus, PlaceMarket
  <1>3. CASE FinishClose(t) \/ FailClose(t)
    <2>1. cur[t] \in Jobs /\ Return(t)
      BY <1>3 DEF FinishClose, FailClose, TypeOK, TasksConsistent
    <2>2. ASSUME NEW s \in Symbols, Held(s)', positions'[s].closing
          PROVE  /\ s # cur[t].sym
                 /\ positions'[s] = positions[s]
      <3>1. CASE FinishClose(t)
        BY <2>2, <3>1 DEF FinishClose, TypeOK
      <3>2. CASE FailClose(t)
        <4> DEFINE r == cur[t].sym
                   Unlocked(p) == IF p = NoPosition THEN p ELSE [p EXCEPT !.closing = FALSE]
        <4>1. positions' = [positions EXCEPT ![r] = Unlocked(@)] /\ r \in Symbols
          BY <2>1, <3>2 DEF FailClose, Jobs
        <4>2. Unlocked(positions[r]) = NoPosition \/ ~Unlocked(positions[r]).closing
          BY <4>1 DEF TypeOK, Positions
        <4> HIDE DEF Unlocked, r
        <4>3. s # r /\ positions'[s] = positions[s]
          BY <2>2, <4>1, <4>2 DEF TypeOK
        <4>4. QED
          BY <4>3 DEF r
      <3>3. QED
        BY <1>3, <3>1, <3>2
    <2>3. ASSUME NEW u \in Tasks, NEW s \in Symbols, Closing(u, s), s # cur[t].sym
          PROVE  Closing(u, s)'
      BY <2>1, <2>3 DEF Return, TypeOK
    <2>4. QED
      BY <2>2, <2>3
  <1>4. CASE FinishOpen(t) \/ AbandonOpen(t)
    <2>1. cur[t] \in Jobs /\ cur[t].kind # "close" /\ Return(t)
      <3>1. pc[t] \in {"filled", "failed"} /\ ~IsClose(t) /\ Return(t)
        BY <1>4 DEF FinishOpen, AbandonOpen
      <3>2. cur[t] \in Jobs
        BY <3>1 DEF TypeOK, TasksConsistent
      <3>3. QED
        BY <3>1, <3>2 DEF IsClose
    <2>2. ASSUME NEW s \in Symbols, Held(s)', positions'[s].closing
          PROVE  positions'[s] = positions[s]
      <3>1. CASE FinishOpen(t)
        BY <2>2, <3>1 DEF FinishOpen, NewPosition, TypeOK
      <3>2. CASE AbandonOpen(t)
        BY <3>2 DEF AbandonOpen
      <3>3. QED
        BY <1>4, <3>1, <3>2
    <2>3. ASSUME NEW u \in Tasks, NEW s \in Symbols, Closing(u, s) PROVE Closing(u, s)'
      BY <2>1, <2>3 DEF Return, TypeOK
    <2>4. QED
      BY <2>2, <2>3
  <1>5. QED
    BY <1>1, <1>2, <1>3, <1>4 DEF ExecutorStep

LEMMA OwnerStep ==
    ASSUME TypeOK, TasksConsistent, LocksOwned, ~DryRun, [Next]_vars
    PROVE  LocksOwned'
  <1>1. ASSUME NEW t \in Tasks, ExecutorStep(t) PROVE LocksOwned'
    BY <1>1, ExecutorKeepsOwner
  <1> USE DEF LocksOwned, Held, Closing, exchVars, taskVars
  <1>2. CASE ExchangeStep
    BY <1>2 DEF ExchangeStep, Fill, Expire, Liquidate
  <1>3. CASE MonitorStep
    <2>1. ASSUME NEW s \in Symbols, NEW t \in {risk, sentinel}, LockForClose(t, s)
          PROVE  LocksOwned'
      <3>1. PICK reason : todo' = [todo EXCEPT ![t] = @ \cup {CloseJob(s, reason)}]
        BY <2>1 DEF LockForClose
      <3>2. CloseJob(s, reason).sym = s
        BY DEF CloseJob
      <3>3. \A u \in Tasks : todo[u] \subseteq todo'[u]
        BY <3>1 DEF TypeOK
      <3>4. t \in Tasks /\ CloseJob(s, reason) \in todo'[t]
        BY <3>1 DEF TypeOK, Tasks
      <3>5. \A r \in Symbols : r # s => positions'[r] = positions[r]
        BY <2>1 DEF LockForClose, TypeOK
      <3>6. UNCHANGED cur
        BY <2>1 DEF LockForClose
      <3>7. QED
        BY <3>2, <3>3, <3>4, <3>5, <3>6
    <2>2. ASSUME NEW s \in Symbols, ForceUnlock(s) PROVE LocksOwned'
      <3>1. positions' = [positions EXCEPT ![s].closing = FALSE] /\ positions[s] \in Positions
        BY <2>2 DEF ForceUnlock, TypeOK
      <3>2. ~positions'[s].closing
        BY <3>1 DEF TypeOK, Positions
      <3>3. \A r \in Symbols : r # s => positions'[r] = positions[r]
        BY <3>1 DEF TypeOK
      <3>4. QED
        BY <2>2, <3>2, <3>3 DEF ForceUnlock
    <2>3. QED
      BY <1>3, <2>1, <2>2 DEF MonitorStep
  <1>4. CASE SignalStep
    <2> main \in Tasks
      BY DEF Tasks
    <2>1. CASE CheckOpen
      BY <2>1 DEF CheckOpen, Return, TypeOK, TasksConsistent
    <2>2. ASSUME NEW s \in Symbols, Reverse(s) PROVE LocksOwned'
      <3>1. CloseJob(s, "exit") \in todo'[main] /\ CloseJob(s, "exit").sym = s
        BY <2>2 DEF Reverse, CloseJob, TypeOK
      <3>2. \A u \in Tasks : todo[u] \subseteq todo'[u]
        BY <2>2 DEF Reverse, Ready, TypeOK
      <3>3. \A r \in Symbols : r # s => positions'[r] = positions[r]
        BY <2>2 DEF Reverse, TypeOK
      <3>4. UNCHANGED cur
        BY <2>2 DEF Reverse
      <3>5. QED
        BY <3>1, <3>2, <3>3, <3>4
    <2>3. ASSUME NEW s \in Symbols, Open(s) PROVE LocksOwned'
      BY <2>3 DEF Open, Ready, TypeOK, TasksConsistent
    <2>4. QED
      BY <1>4, <2>1, <2>2, <2>3 DEF SignalStep
  <1>5. CASE ReconcilerStep
    <2>1. ASSUME NEW s \in Symbols, Apply(s) PROVE LocksOwned'
      <3>1. \A r \in Symbols : Held(r)' /\ positions'[r].closing
                                 => Held(r) /\ positions[r].closing
        <4>1. CASE Correct(s)
          <5>1. positions' = [positions EXCEPT ![s] = [@ EXCEPT !.amt = snap[s]]]
            BY <4>1 DEF Correct
          <5>2. Held(s) /\ [positions[s] EXCEPT !.amt = snap[s]].closing = positions[s].closing
            BY <4>1 DEF Correct, Held, Positions, TypeOK
          <5>3. QED
            BY <5>1, <5>2 DEF Held, TypeOK
        <4>2. CASE FindGhost(s)
          BY <4>2 DEF FindGhost, Held
        <4>3. CASE AdoptGhost(s)
          BY <4>3 DEF AdoptGhost, NewPosition, Held, TypeOK
        <4>4. QED
          BY <2>1, <4>1, <4>2, <4>3 DEF Apply
      <3>2. UNCHANGED <<todo, cur>>
        BY <2>1 DEF Apply, Correct, FindGhost, AdoptGhost
      <3>3. QED
        BY <3>1, <3>2
    <2>2. ASSUME NEW s \in Symbols, Prune(s) PROVE LocksOwned'
      BY <2>2 DEF Prune, TypeOK
    <2>3. QED
      BY <1>5, <2>1, <2>2 DEF ReconcilerStep, Snapshot, ListLocal, Rest
  <1>6. CASE BootSync
    BY <1>6 DEF BootSync, Adopted, NewPosition
  <1>7. CASE BootCancel
    BY <1>7 DEF BootCancel
  <1>8. CASE Crash
    BY <1>8 DEF Crash, OnSymbols
  <1>9. CASE UNCHANGED vars
    BY <1>9 DEF vars
  <1>10. QED
    BY <1>1, <1>2, <1>3, <1>4, <1>5, <1>6, <1>7, <1>8, <1>9 DEF Next

\* The conditions of a behaviour are chosen at its start.
LEMMA ModeStep == [Next]_vars => mode' = mode
  BY DEF Next, vars, countVars, exchVars, taskVars, ExchangeStep, Fill, Expire, Liquidate,
         ExecutorStep, Start, CancelAll, PlaceLimit, CancelLimit, GetStatus, PlaceMarket,
         FinishClose, FailClose, FinishOpen, AbandonOpen, Return,
         MonitorStep, LockForClose, ForceUnlock, SignalStep, CheckOpen, Reverse, Open,
         ReconcilerStep, Snapshot, Apply, Correct, FindGhost, AdoptGhost, Prune,
            ListLocal, Rest,
         BootSync, BootCancel, Crash

\* Outside a dry run no position stays locked without a task that has its close order
\* queued or under way, so every lock ends in an unlock or in the record's removal.
THEOREM LocksAreOwned == Spec => []LockHasOwner
<1>1. Init => LockHasOwner
  BY DEF Init, LockHasOwner, LocksOwned, Held, OnSymbols
<1>2. TypeOK /\ TasksConsistent /\ LockHasOwner /\ [Next]_vars => LockHasOwner'
  BY OwnerStep, ModeStep DEF LockHasOwner, DryRun
<1>3. QED
  BY <1>1, <1>2, TypeCorrect, PTL DEF Spec

----------------------------------------------------------------------------
(* What a reduce-only order may fill *)

\* A reduce-only order fills no more than the position, and only against it.
LEMMA ReduceOnlyFill ==
    ASSUME exch \in [Symbols -> Int], NEW s \in Symbols, NEW side \in {-1, 0, 1},
           NEW q \in Int, Fillable(s, side, q, TRUE) > 0
    PROVE  side * exch[s] < 0 /\ Fillable(s, side, q, TRUE) <= Abs(exch[s])
  <1> DEFINE n == Fillable(s, side, q, TRUE)
  <1>1. Reducible(s, side) \in Int
    BY SignAbs DEF Reducible
  <1>2. n \in Int /\ n <= Reducible(s, side)
    BY <1>1 DEF Fillable, Least
  <1>3. n > 0
    OBVIOUS
  <1> HIDE DEF n
  <1>4. Reducible(s, side) > 0
    BY <1>1, <1>2, <1>3
  <1>5. CASE side * exch[s] < 0
    <2>1. Reducible(s, side) = Abs(exch[s])
      BY <1>5 DEF Reducible
    <2>2. n <= Abs(exch[s])
      BY <1>2, <2>1
    <2>3. QED
      BY <1>5, <2>2 DEF n
  <1>6. CASE ~(side * exch[s] < 0)
    BY <1>4, <1>6 DEF Reducible
  <1>7. QED
    BY <1>5, <1>6

=============================================================================
