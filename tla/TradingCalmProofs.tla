--------------------------- MODULE TradingCalmProofs ---------------------------
(****************************************************************************)
(* While no call fails, nothing crashes and the reconciler is at rest, the  *)
(* records and the account agree, for any number of symbols and orders and  *)
(* any quantity, dry run or not, and though the exchange may liquidate a    *)
(* position or a person close it at any moment: whatever the account holds  *)
(* is watched, no open order buys more than was decided on, and a record is *)
(* only forgotten when there is nothing left of its position.               *)
(****************************************************************************)
EXTENDS TradingOrderProofs

----------------------------------------------------------------------------
(* The inductive invariant *)

\* A symbol has at most one of them, in all tasks together: an open order only
\* while it has no record, a close order only behind the record's lock.
OneJobEach ==
    /\ \A t, u \in Tasks : \A j \in JobsOf(t), k \in JobsOf(u) :
         j.sym = k.sym => t = u /\ j = k
    /\ \A t \in Tasks : cur[t] \notin todo[t]

\* A close order belongs to a locked record and has its quantity.
Locked(j) == Held(j.sym) /\ positions[j.sym].closing /\ j.qty = positions[j.sym].amt

QueueFits(t) == \A j \in todo[t] : Locked(j)

\* What the order of task t has bought or sold so far.
Moved(t) ==
    IF pc[t] \in {"cancel", "status"} THEN orders[oid[t]].done
    ELSE IF pc[t] = "filled" THEN Abs(cur[t].qty)
    ELSE got[t]

\* e is a part of q, in the same direction.
Within(e, q) == (0 <= e /\ e <= q) \/ (q <= e /\ e <= 0)

\* A close order has at least the rest of the position still to sell.
CloseFits(t) ==
    /\ Locked(cur[t])
    /\ Abs(exch[cur[t].sym]) + Moved(t) <= Abs(cur[t].qty)

\* While an open order runs the account holds what it bought, or what was left of it
\* by a liquidation, and there is no record.
OpenFits(t) ==
    /\ t = main
    /\ ~Held(cur[t].sym)
    /\ cur[t].qty \in {Lot, -Lot}
    /\ Within(exch[cur[t].sym], Sign(cur[t].qty) * Moved(t))
    /\ Moved(t) <= Lot

CurFits(t) ==
    /\ cur[t] # NoJob => IF IsClose(t) THEN CloseFits(t) ELSE OpenFits(t)
    /\ pc[t] \notin {"market", "filled", "failed"} => got[t] = 0

\* The maker order of task t is the order of its job.
OrderFits(t) ==
    oid[t] # NoId =>
        /\ orders[oid[t]].sym = cur[t].sym
        /\ orders[oid[t]].side = Side(cur[t])
        /\ orders[oid[t]].ro = ReduceOnly(cur[t])
        /\ orders[oid[t]].rem + orders[oid[t]].done <= Abs(cur[t].qty)
        /\ pc[t] = "status" => orders[oid[t]].rem = 0

NoStrayOrders == \A o \in OrderIds : orders[o] # NoOrder => \E t \in Tasks : oid[t] = o

\* The account holds at most what the record says, in the same direction, and nothing
\* without a record unless an open order is under way.
SymbolFits(s) ==
    IF boot = "sync"
      THEN ~Held(s) /\ exch[s] \in {0, Lot}
      ELSE /\ Held(s) => /\ Within(exch[s], positions[s].amt)
                         /\ Within(positions[s].amt, Lot) \/ Within(positions[s].amt, -Lot)
           /\ ~Held(s) => exch[s] = 0 \/ \E t \in Tasks : cur[t] # NoJob /\ cur[t].sym = s

Starting == boot # "up" => \A t \in Tasks : pc[t] = "idle" /\ todo[t] = {}

Fit ==
    /\ OneJobEach
    /\ \A t \in Tasks : QueueFits(t) /\ CurFits(t) /\ OrderFits(t)
    /\ NoStrayOrders
    /\ \A s \in Symbols : SymbolFits(s)
    /\ Starting
    /\ rpc = "idle"

CalmInv == Calm => Fit

----------------------------------------------------------------------------
(* Arithmetic *)

\* An open order of quantity q that has moved m moves n more.
LEMMA OpenMoves ==
    ASSUME NEW q \in Int, q # 0, NEW m \in Nat, NEW n \in Nat,
           NEW e \in Int, Within(e, Sign(q) * m)
    PROVE  Within(e + Sign(q) * n, Sign(q) * (m + n))
  <1>1. CASE q > 0
    <2>1. Sign(q) = 1
      BY <1>1 DEF Sign
    <2>2. QED
      BY <2>1 DEF Within
  <1>2. CASE q < 0
    <2>1. Sign(q) = -1
      BY <1>2 DEF Sign
    <2>2. QED
      BY <2>1 DEF Within
  <1>3. QED
    BY <1>1, <1>2

\* A close order of a position with a record of amount q moves n of what is held.
LEMMA CloseMoves ==
    ASSUME NEW q \in Int, NEW e \in Int, NEW n \in Nat, Within(e, q), n <= Abs(e)
    PROVE  /\ Within(e + Sign(-q) * n, q)
           /\ Abs(e + Sign(-q) * n) = Abs(e) - n
  <1>1. CASE q > 0
    <2>1. Sign(-q) = -1
      BY <1>1 DEF Sign
    <2>2. QED
      BY <1>1, <2>1 DEF Within, Abs
  <1>2. CASE q < 0
    <2>1. Sign(-q) = 1
      BY <1>2 DEF Sign
    <2>2. QED
      BY <1>2, <2>1 DEF Within, Abs
  <1>3. CASE q = 0
    <2>1. e = 0 /\ n = 0
      BY <1>3 DEF Within, Abs
    <2>2. Sign(-q) = 0
      BY <1>3 DEF Sign
    <2>3. QED
      BY <1>3, <2>1, <2>2 DEF Within, Abs
  <1>4. QED
    BY <1>1, <1>2, <1>3

\* A whole lot, or what has been bought of it.
LEMMA PartOfLot ==
    ASSUME NEW q \in {Lot, -Lot}, NEW m \in Nat, m <= Lot
    PROVE  /\ Abs(q) = Lot /\ q # 0 /\ q \in Int
           /\ Sign(q) * Abs(q) = q
           /\ Sign(q) * m \in Int
           /\ Within(Sign(q) * m, Lot) \/ Within(Sign(q) * m, -Lot)
           /\ \A e \in Int : Within(e, Sign(q) * m) => Abs(e) <= Lot
  <1>1. CASE q = Lot
    <2>1. Sign(q) = 1
      BY <1>1, LotAssumption DEF Sign
    <2>2. QED
      BY <1>1, <2>1, LotAssumption DEF Within, Abs
  <1>2. CASE q = -Lot
    <2>1. Sign(q) = -1
      BY <1>2, LotAssumption DEF Sign
    <2>2. QED
      BY <1>2, <2>1, LotAssumption DEF Within, Abs
  <1>3. QED
    BY <1>1, <1>2

----------------------------------------------------------------------------
(* A step of one task on one symbol leaves the others alone *)

\* Nothing of task u changes, nor the order it waits for.
SameTask(u) ==
    /\ pc'[u] = pc[u] /\ todo'[u] = todo[u] /\ cur'[u] = cur[u]
    /\ oid'[u] = oid[u] /\ got'[u] = got[u]
    /\ oid[u] # NoId => orders'[oid[u]] = orders[oid[u]]

SameSymbol(r) == exch'[r] = exch[r] /\ positions'[r] = positions[r]

LEMMA OthersFit ==
    ASSUME TypeOK, TasksConsistent, Fit, NEW u \in Tasks, SameTask(u),
           \A j \in JobsOf(u) : SameSymbol(j.sym)
    PROVE  QueueFits(u)' /\ CurFits(u)' /\ OrderFits(u)'
  <1>1. QueueFits(u) /\ CurFits(u) /\ OrderFits(u)
    BY DEF Fit
  <1>2. QueueFits(u)'
    BY <1>1 DEF QueueFits, Locked, Held, JobsOf, SameTask, SameSymbol
  <1>3. OrderFits(u)'
    BY <1>1 DEF OrderFits, SameTask
  <1>4. Moved(u)' = Moved(u)
    BY DEF Moved, SameTask, TasksConsistent
  <1>5. cur[u] # NoJob => SameSymbol(cur[u].sym)
    BY DEF JobsOf
  <1>6. CurFits(u)'
    BY <1>1, <1>4, <1>5
       DEF CurFits, CloseFits, OpenFits, IsClose, Locked, Held, SameTask, SameSymbol
  <1>7. QED
    BY <1>2, <1>3, <1>6

LEMMA LocalStep ==
    ASSUME TypeOK, TasksConsistent, Fit, NEW t \in Tasks, NEW s \in Symbols,
           boot = "up", boot' = "up", rpc' = rpc,
           \A u \in Tasks \ {t} : SameTask(u) /\ \A j \in JobsOf(u) : j.sym # s,
           \A r \in Symbols \ {s} : SameSymbol(r),
           cur[t] # NoJob => cur[t].sym = s,
           \A j \in todo'[t] : (j \in todo[t] /\ j.sym # s) \/ Locked(j)',
           OneJobEach', NoStrayOrders', CurFits(t)', OrderFits(t)', SymbolFits(s)'
    PROVE  Fit'
  <1>1. \A u \in Tasks : QueueFits(u)' /\ CurFits(u)' /\ OrderFits(u)'
    <2>1. ASSUME NEW u \in Tasks \ {t} PROVE QueueFits(u)' /\ CurFits(u)' /\ OrderFits(u)'
      <3>1. \A j \in JobsOf(u) : j.sym \in Symbols
        BY DEF JobsOf, TypeOK, Jobs
      <3>2. QED
        BY <3>1, OthersFit
    <2>2. QueueFits(t)'
      <3>1. ASSUME NEW j \in todo'[t], j \in todo[t], j.sym # s PROVE Locked(j)'
        <4>1. Locked(j) /\ j.sym \in Symbols
          BY <3>1 DEF Fit, QueueFits, TypeOK, Jobs
        <4>2. SameSymbol(j.sym)
          BY <3>1, <4>1
        <4>3. QED
          BY <4>1, <4>2 DEF Locked, Held, SameSymbol
      <3>2. QED
        BY <3>1 DEF QueueFits
    <2>3. QED
      BY <2>1, <2>2
  <1>2. ASSUME NEW r \in Symbols \ {s} PROVE SymbolFits(r)'
    <2>1. SymbolFits(r) /\ SameSymbol(r)
      BY DEF Fit
    <2>2. (\E u \in Tasks : cur[u] # NoJob /\ cur[u].sym = r)
            => \E u \in Tasks : cur'[u] # NoJob /\ cur'[u].sym = r
      BY DEF SameTask
    <2>3. QED
      BY <2>1, <2>2 DEF SymbolFits, SameSymbol, Held
  <1>3. QED
    BY <1>1, <1>2 DEF Fit, Starting

\* No task takes an order it did not have.
LEMMA FewerJobs ==
    ASSUME OneJobEach, \A u \in Tasks : JobsOf(u)' \subseteq JobsOf(u),
           \A u \in Tasks : cur'[u] \notin todo'[u]
    PROVE  OneJobEach'
  BY DEF OneJobEach

LEMMA SameJobs ==
    ASSUME OneJobEach, todo' = todo, cur' = cur
    PROVE  OneJobEach'
  BY DEF OneJobEach, JobsOf

\* Task t is at work on symbol s, so no other task is.
LEMMA OnlyWorker ==
    ASSUME Fit, NEW t \in Tasks, NEW j \in JobsOf(t)
    PROVE  \A u \in Tasks \ {t} : \A k \in JobsOf(u) : k.sym # j.sym
  BY DEF Fit, OneJobEach

----------------------------------------------------------------------------
(* A task at work *)

LEMMA Worker ==
    ASSUME TypeOK, TasksConsistent, Fit, NEW t \in Tasks, pc[t] \notin {"idle", "drain"}
    PROVE  /\ boot = "up"
           /\ cur[t] # NoJob /\ cur[t] \in JobsOf(t) /\ cur[t] \in Jobs
           /\ cur[t].sym \in Symbols /\ cur[t].qty \in Int
           /\ IF IsClose(t) THEN CloseFits(t) ELSE OpenFits(t)
           /\ exch[cur[t].sym] \in Int
           /\ Moved(t) \in Nat
           /\ \A u \in Tasks \ {t} : \A k \in JobsOf(u) : k.sym # cur[t].sym
  <1>1. boot = "up"
    BY DEF Fit, Starting
  <1>2. cur[t] # NoJob /\ cur[t] \in JobsOf(t) /\ cur[t] \in Jobs
    BY DEF TypeOK, TasksConsistent, JobsOf
  <1>3. cur[t].sym \in Symbols /\ cur[t].qty \in Int
    BY <1>2 DEF Jobs
  <1>4. IF IsClose(t) THEN CloseFits(t) ELSE OpenFits(t)
    BY <1>2 DEF Fit, CurFits
  <1>5. exch[cur[t].sym] \in Int
    BY <1>3 DEF TypeOK
  <1>6. Moved(t) \in Nat
    <2>1. CASE pc[t] \in {"cancel", "status"}
      <3>1. orders[oid[t]] \in Orders
        BY <2>1 DEF TypeOK, TasksConsistent
      <3>2. QED
        BY <2>1, <3>1 DEF Moved, Orders
    <2>2. CASE pc[t] = "filled"
      <3>1. Abs(cur[t].qty) \in Nat
        BY <1>3, SignAbs
      <3>2. QED
        BY <2>2, <3>1 DEF Moved
    <2>3. CASE pc[t] \notin {"cancel", "status", "filled"}
      BY <2>3 DEF Moved, TypeOK
    <2>4. QED
      BY <2>1, <2>2, <2>3
  <1>7. \A u \in Tasks \ {t} : \A k \in JobsOf(u) : k.sym # cur[t].sym
    BY <1>2, OnlyWorker
  <1>8. QED
    BY <1>1, <1>2, <1>3, <1>4, <1>5, <1>6, <1>7

\* What a record in use says of the account.
LEMMA CloserKnows ==
    ASSUME TypeOK, Fit, NEW t \in Tasks, cur[t] # NoJob, cur[t].sym \in Symbols,
           boot = "up", CloseFits(t)
    PROVE  Within(exch[cur[t].sym], cur[t].qty)
  <1>1. Held(cur[t].sym) /\ cur[t].qty = positions[cur[t].sym].amt
    BY DEF CloseFits, Locked
  <1>2. SymbolFits(cur[t].sym)
    BY DEF Fit
  <1>3. QED
    BY <1>1, <1>2 DEF SymbolFits

\* A call to the exchange made by t, or a fill of its order: the records stay.
LEMMA CallStep ==
    ASSUME TypeOK, TasksConsistent, Fit, NEW t \in Tasks, pc[t] \notin {"idle", "drain"},
           boot' = boot, rpc' = rpc, todo' = todo, cur' = cur, positions' = positions,
           \A u \in Tasks \ {t} : SameTask(u),
           \A r \in Symbols \ {cur[t].sym} : exch'[r] = exch[r],
           NoStrayOrders', OrderFits(t)',
           IF IsClose(t)
             THEN /\ Abs(exch'[cur[t].sym]) + Moved(t)' <= Abs(cur[t].qty)
                  /\ Within(exch'[cur[t].sym], cur[t].qty)
             ELSE /\ Within(exch'[cur[t].sym], Sign(cur[t].qty) * Moved(t)')
                  /\ Moved(t)' <= Lot,
           pc'[t] \notin {"market", "filled", "failed"} => got'[t] = 0
    PROVE  Fit'
  <1> DEFINE s == cur[t].sym
  <1>1. /\ boot = "up" /\ cur[t] # NoJob /\ s \in Symbols
        /\ IF IsClose(t) THEN CloseFits(t) ELSE OpenFits(t)
        /\ \A u \in Tasks \ {t} : \A k \in JobsOf(u) : k.sym # s
    BY Worker
  <1>2. CurFits(t)'
    BY <1>1 DEF CurFits, IsClose, CloseFits, OpenFits, Locked, Held
  <1>3. SymbolFits(s)'
    <2>1. SymbolFits(s)
      BY <1>1 DEF Fit
    <2>2. CASE IsClose(t)
      BY <1>1, <2>1, <2>2 DEF SymbolFits, CloseFits, Locked, Held
    <2>3. CASE ~IsClose(t)
      BY <1>1, <2>3 DEF SymbolFits, OpenFits, Held
    <2>4. QED
      BY <2>2, <2>3
  <1>4. OneJobEach'
    BY SameJobs DEF Fit
  <1>5. \A j \in todo'[t] : j \in todo[t] /\ j.sym # s
    <2>1. cur[t] \in JobsOf(t) /\ todo[t] \subseteq JobsOf(t)
      BY <1>1 DEF JobsOf
    <2>2. QED
      BY <2>1 DEF Fit, OneJobEach
  <1> HIDE DEF s
  <1>6. \A r \in Symbols \ {s} : SameSymbol(r)
    BY DEF SameSymbol, s
  <1>7. QED
    BY <1>1, <1>2, <1>3, <1>4, <1>5, <1>6, LocalStep DEF s

\* A call after which the account is as before, and what t has moved too.
LEMMA QuietCall ==
    ASSUME TypeOK, TasksConsistent, Fit, NEW t \in Tasks, pc[t] \notin {"idle", "drain"},
           boot' = boot, rpc' = rpc, todo' = todo, cur' = cur, positions' = positions,
           \A u \in Tasks \ {t} : SameTask(u),
           exch' = exch, NoStrayOrders', OrderFits(t)', Moved(t)' = Moved(t),
           pc'[t] \notin {"market", "filled", "failed"} => got'[t] = 0
    PROVE  Fit'
  <1>1. /\ boot = "up" /\ cur[t] # NoJob /\ cur[t].sym \in Symbols
        /\ IF IsClose(t) THEN CloseFits(t) ELSE OpenFits(t)
    BY Worker
  <1>2. IsClose(t) => Within(exch[cur[t].sym], cur[t].qty)
    BY <1>1, CloserKnows
  <1>3. IF IsClose(t)
          THEN /\ Abs(exch'[cur[t].sym]) + Moved(t)' <= Abs(cur[t].qty)
               /\ Within(exch'[cur[t].sym], cur[t].qty)
          ELSE /\ Within(exch'[cur[t].sym], Sign(cur[t].qty) * Moved(t)')
               /\ Moved(t)' <= Lot
    BY <1>1, <1>2 DEF CloseFits, OpenFits
  <1>4. QED
    BY <1>3, CallStep

\* Task t is done with its order; only the record of its symbol may change.
LEMMA ReturnStep ==
    ASSUME TypeOK, TasksConsistent, Fit, NEW t \in Tasks,
           NEW s \in Symbols, cur[t].sym = s,
           pc[t] \notin {"idle", "drain", "cancel", "status"},
           boot' = boot, rpc' = rpc, UNCHANGED exchVars, Return(t),
           \A r \in Symbols \ {s} : positions'[r] = positions[r], SymbolFits(s)'
    PROVE  Fit'
  <1>1. /\ boot = "up" /\ cur[t] # NoJob
        /\ \A u \in Tasks \ {t} : \A k \in JobsOf(u) : k.sym # s
    BY Worker
  <1>2. cur'[t] = NoJob /\ got'[t] = 0 /\ oid'[t] = NoId /\ todo' = todo /\ oid' = oid
    BY DEF Return, TypeOK, TasksConsistent
  <1>3. \A u \in Tasks \ {t} : SameTask(u) /\ cur'[u] = cur[u]
    BY DEF Return, TypeOK, SameTask, exchVars
  <1>4. OneJobEach'
    <2>1. \A u \in Tasks : JobsOf(u)' \subseteq JobsOf(u)
      BY <1>2, <1>3 DEF JobsOf
    <2>2. \A u \in Tasks : cur'[u] \notin todo'[u]
      BY <1>2, <1>3, NullsAssumption DEF Fit, OneJobEach, TypeOK
    <2>3. QED
      BY <2>1, <2>2, FewerJobs DEF Fit
  <1>5. \A j \in todo'[t] : j \in todo[t] /\ j.sym # s
    <2>1. cur[t] \in JobsOf(t) /\ todo[t] \subseteq JobsOf(t)
      BY <1>1 DEF JobsOf
    <2>2. QED
      BY <1>2, <2>1 DEF Fit, OneJobEach
  <1>6. CurFits(t)' /\ OrderFits(t)'
    BY <1>2 DEF CurFits, OrderFits
  <1>7. NoStrayOrders'
    BY <1>2 DEF Fit, NoStrayOrders, exchVars
  <1>8. \A r \in Symbols \ {s} : SameSymbol(r)
    BY DEF SameSymbol, exchVars
  <1>9. QED
    BY <1>1, <1>3, <1>4, <1>5, <1>6, <1>7, <1>8, LocalStep

----------------------------------------------------------------------------
(* The exchange *)

\* What a reduce-only order fills is there.
LEMMA ReducesSome ==
    ASSUME exch \in [Symbols -> Int], NEW s \in Symbols, NEW side \in {-1, 0, 1},
           NEW q \in Int, NEW n \in Nat, n >= 1, n <= Fillable(s, side, q, TRUE)
    PROVE  n <= Abs(exch[s])
  <1> DEFINE f == Fillable(s, side, q, TRUE)
             a == Abs(exch[s])
  <1>1. f \in Int
    BY FillableBound
  <1>2. f > 0
    <2> HIDE DEF f
    <2>1. n <= f
      BY DEF f
    <2>2. QED
      BY <1>1, <2>1
  <1>3. f <= a
    BY <1>2, ReduceOnlyFill
  <1>4. a \in Int
    BY SignAbs
  <1>5. n <= f
    OBVIOUS
  <1> HIDE DEF f, a
  <1>6. n <= a
    BY <1>1, <1>3, <1>4, <1>5
  <1>7. QED
    BY <1>6 DEF a

\* The order of a task in the book.
LEMMA OwnedOrder ==
    ASSUME TypeOK, TasksConsistent, Fit, NEW o \in OrderIds, orders[o] # NoOrder
    PROVE  \E t \in Tasks :
             /\ oid[t] = o /\ pc[t] \in {"cancel", "status"}
             /\ \A u \in Tasks \ {t} : oid[u] # o
  <1>1. PICK t \in Tasks : oid[t] = o
    BY DEF Fit, NoStrayOrders
  <1>2. QED
    BY <1>1, NullsAssumption DEF TasksConsistent

LEMMA FillFits ==
    ASSUME TypeOK, TasksConsistent, Fit, NEW o \in OrderIds, Fill(o)
    PROVE  Fit'
  <1>1. orders[o] \in Orders /\ Rests(o) /\ orders[o] # NoOrder
    BY DEF Fill, Rests, TypeOK
  <1>2. PICK t \in Tasks : /\ oid[t] = o /\ pc[t] \in {"cancel", "status"}
                           /\ \A u \in Tasks \ {t} : oid[u] # o
    BY <1>1, OwnedOrder
  <1> DEFINE job == cur[t]
             sym == job.sym
             e == exch[sym]
             d == orders[o].done
             r == orders[o].rem
  <1>3. /\ orders[o].sym = sym /\ orders[o].side = Side(job)
        /\ orders[o].ro = ReduceOnly(job) /\ r + d <= Abs(job.qty)
        /\ pc[t] = "cancel"
    <2>1. OrderFits(t)
      BY DEF Fit
    <2>2. QED
      BY <1>1, <1>2, <2>1, NullsAssumption DEF OrderFits, Rests, Orders
  <1>4. /\ boot = "up" /\ job # NoJob /\ job \in Jobs /\ sym \in Symbols /\ job.qty \in Int
        /\ IF IsClose(t) THEN CloseFits(t) ELSE OpenFits(t)
        /\ e \in Int
    BY <1>2, Worker
  <1>5. d \in Nat /\ r \in Nat /\ Moved(t) = d
    BY <1>1, <1>2 DEF Orders, Moved
  <1>6. PICK n \in 1 .. r :
          /\ n <= Fillable(sym, Side(job), r, ReduceOnly(job))
          /\ exch' = [exch EXCEPT ![sym] = @ + Side(job) * n]
          /\ orders' = [orders EXCEPT ![o] =
                Settled(o, [orders[o] EXCEPT !.rem = @ - n, !.done = @ + n])]
    BY <1>3 DEF Fill
  <1>7. n \in Nat /\ n >= 1 /\ n <= r
    BY <1>5, <1>6
  <1>8. /\ orders'[o] = [orders[o] EXCEPT !.rem = @ - n, !.done = @ + n]
        /\ \A q \in OrderIds : q # o => orders'[q] = orders[q]
    <2>1. Settled(o, [orders[o] EXCEPT !.rem = @ - n, !.done = @ + n])
            = [orders[o] EXCEPT !.rem = @ - n, !.done = @ + n]
      BY <1>2 DEF Settled
    <2>2. QED
      BY <1>6, <2>1 DEF TypeOK
  <1>9. UNCHANGED <<positions, pc, todo, cur, oid, got, rpc, boot>>
    BY DEF Fill, taskVars, reconVars, countVars
  <1>10. orders'[o].sym = orders[o].sym /\ orders'[o].side = orders[o].side
         /\ orders'[o].ro = orders[o].ro
    BY <1>1, <1>8 DEF Orders
  <1>11. orders'[o].rem = r - n /\ orders'[o].done = d + n
    BY <1>1, <1>8 DEF Orders
  <1>12. OrderFits(t)'
    <2>1. orders'[o].rem + orders'[o].done <= Abs(job.qty)
      BY <1>3, <1>5, <1>7, <1>11, <1>4, SignAbs
    <2>2. QED
      BY <1>2, <1>3, <1>9, <1>10, <2>1 DEF OrderFits, Side, ReduceOnly
  <1>13. NoStrayOrders'
    BY <1>2, <1>8, <1>9 DEF Fit, NoStrayOrders
  <1>14. \A u \in Tasks \ {t} : SameTask(u)
    BY <1>2, <1>8, <1>9 DEF SameTask, TypeOK
  <1>15. Moved(t)' = d + n
    BY <1>2, <1>9, <1>11 DEF Moved
  <1>16. exch'[sym] = e + Side(job) * n /\ \A q \in Symbols \ {sym} : exch'[q] = exch[q]
    BY <1>4, <1>6 DEF TypeOK
  <1>17. got'[t] = 0
    BY <1>3, <1>9 DEF Fit, CurFits
  <1>18. CASE IsClose(t)
    <2>1. Within(e, job.qty) /\ Abs(e) + d <= Abs(job.qty)
      BY <1>4, <1>5, <1>18, CloserKnows DEF CloseFits
    <2>2. Side(job) = Sign(-job.qty) /\ ReduceOnly(job) = TRUE
      BY <1>18 DEF Side, ReduceOnly, IsClose
    <2>3. Side(job) \in {-1, 0, 1}
      BY <1>4, SideType
    <2> HIDE DEF r, d, e, sym, job
    <2>4. n <= Abs(e)
      <3>1. exch \in [Symbols -> Int] /\ r \in Int
        BY <1>5 DEF TypeOK
      <3>2. n <= Fillable(sym, Side(job), r, TRUE)
        BY <1>6, <2>2
      <3>3. QED
        BY <1>4, <1>7, <2>3, <3>1, <3>2, ReducesSome DEF e
    <2>5. /\ Within(e + Side(job) * n, job.qty)
          /\ Abs(e + Side(job) * n) = Abs(e) - n
      BY <1>4, <1>7, <2>1, <2>2, <2>4, CloseMoves
    <2>6. Abs(e) - n + (d + n) <= Abs(job.qty)
      BY <1>4, <1>5, <1>7, <2>1, SignAbs
    <2>7. QED
      BY <1>3, <1>4, <1>9, <1>12, <1>13, <1>14, <1>15, <1>16, <1>17, <1>18, <2>5, <2>6, CallStep
         DEF job, sym
  <1>19. CASE ~IsClose(t)
    <2>1. job.qty \in {Lot, -Lot} /\ Within(e, Sign(job.qty) * d)
      BY <1>4, <1>5, <1>19 DEF OpenFits
    <2>2. Side(job) = Sign(job.qty)
      BY <1>4, <1>19 DEF Side, IsClose, Jobs
    <2> HIDE DEF r, d, e, sym, job
    <2>3. Abs(job.qty) = Lot /\ job.qty # 0
      BY <2>1, LotAssumption, PartOfLot
    <2>4. Within(e + Side(job) * n, Sign(job.qty) * (d + n))
      BY <1>4, <1>5, <1>7, <2>1, <2>2, <2>3, OpenMoves
    <2>5. d + n <= Lot
      BY <1>3, <1>5, <1>7, <2>3, LotAssumption
    <2>6. QED
      BY <1>3, <1>4, <1>9, <1>12, <1>13, <1>14, <1>15, <1>16, <1>17, <1>19, <2>4, <2>5, CallStep
         DEF job, sym
  <1>20. QED
    BY <1>18, <1>19

\* Cancelling the order of task t, by the exchange or by t, only ends it.
LEMMA CancelFits ==
    ASSUME TypeOK, TasksConsistent, Fit, NEW t \in Tasks, oid[t] # NoId,
           orders' = CancelledBook({oid[t]}),
           UNCHANGED <<exch, positions, todo, cur, oid, got, rpc, boot>>,
           \A u \in Tasks \ {t} : pc'[u] = pc[u],
           pc'[t] \in {"cancel", "status"}
    PROVE  Fit'
  <1> DEFINE o == oid[t]
  <1>1. /\ o \in OrderIds /\ orders[o] \in Orders /\ pc[t] \in {"cancel", "status"}
        /\ \A u \in Tasks \ {t} : oid[u] # o
    BY DEF TypeOK, TasksConsistent
  <1>2. /\ orders'[o] = IF Rests(o) THEN [orders[o] EXCEPT !.rem = 0] ELSE orders[o]
        /\ \A q \in OrderIds : q # o => orders'[q] = orders[q]
    BY <1>1 DEF CancelledBook, Settled
  <1>3. /\ orders'[o].sym = orders[o].sym /\ orders'[o].side = orders[o].side
        /\ orders'[o].ro = orders[o].ro /\ orders'[o].done = orders[o].done
    BY <1>1, <1>2 DEF Orders
  <1>4. orders'[o].rem = 0
    <2>1. CASE Rests(o)
      BY <1>1, <1>2, <2>1 DEF Orders
    <2>2. CASE ~Rests(o)
      BY <1>1, <1>2, <2>2, NullsAssumption DEF Orders, Rests
    <2>3. QED
      BY <2>1, <2>2
  <1>5. OrderFits(t)'
    <2>1. OrderFits(t)
      BY DEF Fit
    <2>2. Abs(cur[t].qty) \in Nat
      BY <1>1, Worker, SignAbs
    <2>3. orders[o].rem \in Nat /\ orders[o].done \in Nat
      BY <1>1 DEF Orders
    <2>4. orders'[o].rem + orders'[o].done <= Abs(cur[t].qty)
      BY <1>3, <1>4, <2>1, <2>2, <2>3 DEF OrderFits
    <2>5. QED
      BY <1>3, <1>4, <2>1, <2>4 DEF OrderFits, Side, ReduceOnly
  <1>6. NoStrayOrders'
    BY <1>1, <1>2 DEF Fit, NoStrayOrders
  <1>7. \A u \in Tasks \ {t} : SameTask(u)
    BY <1>1, <1>2 DEF SameTask, TypeOK
  <1>8. Moved(t)' = Moved(t)
    BY <1>1, <1>3 DEF Moved
  <1>9. got'[t] = 0
    BY <1>1 DEF Fit, CurFits
  <1>10. QED
    BY <1>1, <1>5, <1>6, <1>7, <1>8, <1>9, QuietCall

LEMMA ExpireFits ==
    ASSUME TypeOK, TasksConsistent, Fit, NEW o \in OrderIds, Expire(o)
    PROVE  Fit'
  <1>1. orders[o] # NoOrder
    BY DEF Expire, Rests
  <1>2. PICK t \in Tasks : oid[t] = o /\ pc[t] \in {"cancel", "status"}
    BY <1>1, OwnedOrder
  <1>3. QED
    BY <1>2, CancelFits, NullsAssumption DEF Expire, taskVars, reconVars, countVars

\* A liquidation leaves nothing of a position: less than its record says, and less than
\* a close order still has to sell or an open order has bought.
LEMMA LiquidateFits ==
    ASSUME TypeOK, TasksConsistent, Fit, NEW s \in Symbols, Liquidate(s)
    PROVE  Fit'
  <1>1. /\ exch' = [exch EXCEPT ![s] = 0]
        /\ UNCHANGED <<orders, positions, pc, todo, cur, oid, got, rpc, boot>>
    BY DEF Liquidate, taskVars, reconVars, countVars
  <1>2. ASSUME NEW r \in Symbols
        PROVE  /\ exch'[r] = exch[r] \/ exch'[r] = 0
               /\ exch[r] \in Int
    BY <1>1 DEF TypeOK
  <1>3. ASSUME NEW r \in Symbols, NEW q \in Int, Within(exch[r], q)
        PROVE  Within(exch'[r], q)
    BY <1>2, <1>3 DEF Within
  <1>4. ASSUME NEW t \in Tasks
        PROVE  QueueFits(t)' /\ CurFits(t)' /\ OrderFits(t)'
    <2>1. QueueFits(t) /\ CurFits(t) /\ OrderFits(t)
      BY DEF Fit
    <2>2. QueueFits(t)' /\ OrderFits(t)'
      BY <1>1, <2>1 DEF QueueFits, Locked, Held, OrderFits, Side, ReduceOnly
    <2>3. Moved(t)' = Moved(t)
      BY <1>1 DEF Moved
    <2> DEFINE Early == pc[t] \notin {"market", "filled", "failed"} => got[t] = 0
    <2>0. Early' /\ cur'[t] = cur[t]
      BY <1>1, <2>1 DEF CurFits
    <2> HIDE DEF Early
    <2>4. ASSUME cur[t] = NoJob PROVE CurFits(t)'
      BY <2>0, <2>4 DEF CurFits, Early
    <2>5. ASSUME cur[t] # NoJob, IsClose(t) PROVE CurFits(t)'
      <3>1. CloseFits(t) /\ cur[t].sym \in Symbols /\ Moved(t) \in Nat /\ cur[t].qty \in Int
        BY <2>1, <2>5, Worker DEF CurFits, TasksConsistent
      <3> DEFINE e == exch[cur[t].sym]
                 f == exch'[cur[t].sym]
                 q == Abs(cur[t].qty)
      <3>2. e \in Int /\ (f = e \/ f = 0) /\ q \in Int /\ Abs(e) + Moved(t) <= q
        BY <1>2, <3>1, SignAbs DEF CloseFits
      <3>3. Abs(f) <= Abs(e) /\ Abs(f) \in Int /\ Abs(e) \in Int
        <4> HIDE DEF e, f
        <4>1. QED
          BY <3>2 DEF Abs
      <3>4. Abs(f) + Moved(t) <= q
        <4> HIDE DEF e, f, q
        <4>1. QED
          BY <3>1, <3>2, <3>3
      <3>5. CloseFits(t)'
        <4>1. Locked(cur[t])'
          BY <1>1, <3>1 DEF CloseFits, Locked, Held
        <4>2. QED
          BY <2>0, <2>3, <3>4, <4>1 DEF CloseFits
      <3>6. QED
        BY <2>0, <2>5, <3>5 DEF CurFits, Early, IsClose
    <2>6. ASSUME cur[t] # NoJob, ~IsClose(t) PROVE CurFits(t)'
      <3>1. /\ OpenFits(t) /\ cur[t].sym \in Symbols /\ Moved(t) \in Nat
        BY <2>1, <2>6, Worker DEF CurFits, TasksConsistent
      <3>2. Sign(cur[t].qty) * Moved(t) \in Int
        BY <3>1, PartOfLot DEF OpenFits
      <3>3. Within(exch'[cur[t].sym], Sign(cur[t].qty) * Moved(t))
        BY <1>3, <3>1, <3>2 DEF OpenFits
      <3>4. OpenFits(t)'
        BY <1>1, <2>0, <2>3, <3>1, <3>3 DEF OpenFits, Held
      <3>5. QED
        BY <2>0, <2>6, <3>4 DEF CurFits, Early, IsClose
    <2>7. QED
      BY <2>2, <2>4, <2>5, <2>6
  <1>5. ASSUME NEW r \in Symbols
        PROVE  SymbolFits(r)'
    <2>1. SymbolFits(r)
      BY DEF Fit
    <2>2. Held(r) => positions[r].amt \in Int
      BY DEF Held, TypeOK, Positions
    <2>3. QED
      BY <1>1, <1>2, <1>3, <2>1, <2>2 DEF SymbolFits, Held
  <1>6. OneJobEach'
    BY <1>1, SameJobs DEF Fit
  <1>7. QED
    BY <1>1, <1>4, <1>5, <1>6 DEF Fit, NoStrayOrders, Starting

----------------------------------------------------------------------------
(* The executor *)

LEMMA CalmFaults ==
    ASSUME Calm
    PROVE  ~Reconciling /\ \A f : f # "dryRun" /\ f # "liquidation" => ~Fault(f)
  BY DEF Calm, Reconciling, Fault

\* A task takes up a close order or, in a dry run, drops it.
LEMMA StartFits ==
    ASSUME TypeOK, TasksConsistent, Fit, NEW t \in Tasks, Start(t)
    PROVE  Fit'
  <1>1. /\ boot = "up" /\ cur[t] = NoJob /\ oid[t] = NoId /\ got[t] = 0
        /\ UNCHANGED <<exch, orders, positions, oid, got, rpc, boot>>
    BY DEF Start, TasksConsistent, Fit, CurFits, exchVars, reconVars, countVars
  <1>2. PICK j \in todo[t] :
          /\ todo' = [todo EXCEPT ![t] = @ \ {j}]
          /\ \/ /\ pc'[t] \in {"idle", "drain"} /\ pc' = [pc EXCEPT ![t] = pc'[t]]
                /\ cur' = cur
             \/ /\ pc' = [pc EXCEPT ![t] = "cancelAll"]
                /\ cur' = [cur EXCEPT ![t] = j]
    <2>1. PICK j \in todo[t] :
            /\ todo' = [todo EXCEPT ![t] = @ \ {j}]
            /\ IF DryRun
                 THEN /\ pc' = [pc EXCEPT ![t] = IF todo[t] = {j} THEN "idle" ELSE "drain"]
                      /\ UNCHANGED cur
                 ELSE /\ pc' = [pc EXCEPT ![t] = "cancelAll"]
                      /\ cur' = [cur EXCEPT ![t] = j]
      BY DEF Start
    <2>2. DryRun => pc'[t] \in {"idle", "drain"} /\ pc' = [pc EXCEPT ![t] = pc'[t]]
      BY <2>1 DEF TypeOK
    <2>3. QED
      BY <2>1, <2>2
  <1>3. /\ todo'[t] = todo[t] \ {j} /\ cur'[t] \in {j, NoJob}
        /\ \A u \in Tasks \ {t} : SameTask(u)
    BY <1>1, <1>2 DEF SameTask, TypeOK
  <1>4. j \in Jobs /\ j # NoJob /\ j.kind = "close" /\ j.sym \in Symbols /\ Locked(j)
    BY NullsAssumption DEF TypeOK, TasksConsistent, Fit, QueueFits, Jobs
  <1>5. JobsOf(t)' \subseteq JobsOf(t) /\ j \in JobsOf(t) /\ todo[t] \subseteq JobsOf(t)
    BY <1>1, <1>3, <1>4 DEF JobsOf
  <1>6. \A u \in Tasks \ {t} : \A k \in JobsOf(u) : k.sym # j.sym
    BY <1>5, OnlyWorker
  <1>7. \A k \in todo'[t] : k \in todo[t] /\ k.sym # j.sym
    BY <1>3, <1>5 DEF Fit, OneJobEach
  <1>8. OneJobEach'
    <2>1. \A u \in Tasks : JobsOf(u)' \subseteq JobsOf(u)
      BY <1>3, <1>5 DEF JobsOf, SameTask
    <2>2. \A u \in Tasks : cur'[u] \notin todo'[u]
      BY <1>1, <1>3 DEF Fit, OneJobEach, SameTask
    <2>3. QED
      BY <2>1, <2>2, FewerJobs DEF Fit
  <1>9. SymbolFits(j.sym) /\ Held(j.sym) /\ j.qty = positions[j.sym].amt
    BY <1>4 DEF Fit, Locked
  <1>10. CurFits(t)'
    <2>1. CASE cur'[t] = NoJob
      BY <1>1, <2>1 DEF CurFits
    <2>2. CASE cur'[t] = j /\ pc'[t] = "cancelAll"
      <3>1. Within(exch[j.sym], j.qty)
        BY <1>1, <1>9 DEF SymbolFits
      <3>2. Abs(exch[j.sym]) + 0 <= Abs(j.qty)
        <4>1. exch[j.sym] \in Int /\ j.qty \in Int
          BY <1>4 DEF TypeOK, Jobs
        <4>2. QED
          BY <3>1, <4>1 DEF Within, Abs
      <3>3. Moved(t)' = 0
        BY <1>1, <2>2 DEF Moved
      <3>4. QED
        BY <1>1, <1>4, <2>2, <3>2, <3>3 DEF CurFits, CloseFits, IsClose, Locked, Held
    <2>3. QED
      BY <1>1, <1>2, <2>1, <2>2 DEF TypeOK
  <1>11. OrderFits(t)' /\ NoStrayOrders'
    BY <1>1 DEF OrderFits, Fit, NoStrayOrders
  <1>12. SymbolFits(j.sym)'
    BY <1>1, <1>9 DEF SymbolFits, Held
  <1>13. \A r \in Symbols \ {j.sym} : SameSymbol(r)
    BY <1>1 DEF SameSymbol
  <1>14. QED
    BY <1>1, <1>3, <1>4, <1>6, <1>7, <1>8, <1>10, <1>11, <1>12, <1>13, LocalStep

\* Nothing rests on the symbol of a task that is about to place its order.
LEMMA CancelAllFits ==
    ASSUME TypeOK, TasksConsistent, Fit, NEW t \in Tasks, CancelAll(t)
    PROVE  Fit'
  <1>1. /\ pc[t] = "cancelAll" /\ pc' = [pc EXCEPT ![t] = pc'[t]]
        /\ pc'[t] \in {"limit", "market"}
        /\ UNCHANGED <<exch, positions, todo, cur, oid, got, rpc, boot>>
    BY DEF CancelAll, AfterCancelAll, TypeOK, reconVars, countVars
  <1>2. /\ \A u \in Tasks \ {t} : \A k \in JobsOf(u) : k.sym # cur[t].sym
        /\ oid[t] = NoId
    BY <1>1, Worker DEF TasksConsistent
  <1>3. {o \in OrderIds : Rests(o) /\ orders[o].sym = cur[t].sym} = {}
    <2> SUFFICES ASSUME NEW o \in OrderIds, Rests(o), orders[o].sym = cur[t].sym
                 PROVE  FALSE
      OBVIOUS
    <2>1. PICK u \in Tasks : oid[u] = o /\ pc[u] \in {"cancel", "status"}
      BY OwnedOrder DEF Rests
    <2>2. u # t /\ cur[u].sym = cur[t].sym
      BY <1>1, <2>1, NullsAssumption DEF Fit, OrderFits
    <2>3. cur[u] \in JobsOf(u)
      BY <2>1, Worker
    <2>4. QED
      BY <1>2, <2>2, <2>3
  <1>4. \A o \in OrderIds : orders'[o] = orders[o]
    BY <1>3 DEF CancelAll, CancelledBook
  <1>5. \A u \in Tasks \ {t} : SameTask(u)
    BY <1>1, <1>4 DEF SameTask, TypeOK
  <1>6. OrderFits(t)' /\ NoStrayOrders'
    BY <1>1, <1>2, <1>4 DEF OrderFits, Fit, NoStrayOrders
  <1>7. got[t] = 0
    BY <1>1 DEF Fit, CurFits
  <1>8. Moved(t)' = Moved(t)
    BY <1>1 DEF Moved
  <1>9. QED
    BY <1>1, <1>5, <1>6, <1>7, <1>8, QuietCall

LEMMA PlaceLimitFits ==
    ASSUME TypeOK, TasksConsistent, Calm, Fit, NEW t \in Tasks, PlaceLimit(t)
    PROVE  Fit'
  <1>1. /\ pc[t] = "limit" /\ got[t] = 0 /\ oid[t] = NoId
        /\ UNCHANGED <<exch, positions, todo, cur, got, rpc, boot>>
    BY DEF PlaceLimit, Fit, CurFits, TasksConsistent, reconVars, countVars
  <1>2. CASE UNCHANGED <<orders, oid>> /\ pc' = [pc EXCEPT ![t] = "market"]
    <2>1. pc'[t] = "market" /\ \A u \in Tasks \ {t} : SameTask(u)
      BY <1>1, <1>2 DEF SameTask, TypeOK
    <2>2. OrderFits(t)' /\ NoStrayOrders'
      BY <1>1, <1>2 DEF OrderFits, Fit, NoStrayOrders
    <2>3. Moved(t)' = Moved(t)
      BY <1>1, <2>1 DEF Moved
    <2>4. QED
      BY <1>1, <2>1, <2>2, <2>3, QuietCall
  <1>3. ASSUME NEW o \in OrderIds, Accept(t, o), oid' = [oid EXCEPT ![t] = o],
               pc' = [pc EXCEPT ![t] = "cancel"]
        PROVE  Fit'
    <2>1. pc'[t] = "cancel" /\ oid'[t] = o /\ o # NoId
      BY <1>3, NullsAssumption DEF TypeOK
    <2>2. \A u \in Tasks : oid[u] # o
      BY <1>3, NullsAssumption DEF Accept, TasksConsistent
    <2>3. /\ orders'[o] = RestingOrder(cur[t].sym, Side(cur[t]), Abs(cur[t].qty),
                                       ReduceOnly(cur[t]))
          /\ \A q \in OrderIds : q # o => orders'[q] = orders[q]
      BY <1>3 DEF Accept, TypeOK
    <2>4. \A u \in Tasks \ {t} : SameTask(u)
      BY <1>1, <1>3, <2>2, <2>3 DEF SameTask, TypeOK
    <2>5. Abs(cur[t].qty) \in Nat
      BY <1>1, Worker, SignAbs
    <2>6. OrderFits(t)'
      BY <1>1, <2>1, <2>3, <2>5 DEF OrderFits, RestingOrder, Side, ReduceOnly
    <2>7. NoStrayOrders'
      <3>1. \A q \in OrderIds : q # o /\ orders'[q] # NoOrder => \E u \in Tasks : oid'[u] = q
        BY <1>1, <2>3, <2>4, NullsAssumption DEF Fit, NoStrayOrders, SameTask
      <3>2. QED
        BY <2>1, <3>1 DEF NoStrayOrders
    <2>8. Moved(t)' = Moved(t)
      BY <1>1, <2>1, <2>3 DEF Moved, RestingOrder
    <2>9. QED
      BY <1>1, <2>4, <2>6, <2>7, <2>8, QuietCall
  <1>4. QED
    BY <1>2, <1>3, CalmFaults DEF PlaceLimit

LEMMA CancelLimitFits ==
    ASSUME TypeOK, TasksConsistent, Calm, Fit, NEW t \in Tasks, CancelLimit(t)
    PROVE  Fit'
  <1>1. oid[t] # NoId /\ orders' = CancelledBook({oid[t]})
    BY CalmFaults DEF CancelLimit, TasksConsistent
  <1>2. pc'[t] = "status" /\ \A u \in Tasks \ {t} : pc'[u] = pc[u]
    BY DEF CancelLimit, TypeOK
  <1>3. QED
    BY <1>1, <1>2, CancelFits DEF CancelLimit, reconVars, countVars

LEMMA GetStatusFits ==
    ASSUME TypeOK, TasksConsistent, Calm, Fit, NEW t \in Tasks, GetStatus(t)
    PROVE  Fit'
  <1> DEFINE o == oid[t]
             d == orders[o].done
             q == Abs(cur[t].qty)
  <1>1. /\ pc[t] = "status" /\ o \in OrderIds /\ orders[o] \in Orders
        /\ \A u \in Tasks \ {t} : oid[u] # o
        /\ UNCHANGED <<exch, positions, todo, cur, rpc, boot>>
    BY DEF GetStatus, TypeOK, TasksConsistent, reconVars, countVars
  <1>2. d \in Nat /\ orders[o].rem = 0 /\ d <= q /\ q \in Nat
    <2>1. OrderFits(t) /\ o # NoId /\ q \in Nat
      BY <1>1, Worker, SignAbs DEF Fit, TasksConsistent
    <2>2. QED
      BY <1>1, <2>1 DEF OrderFits, Orders
  <1>3. /\ got'[t] = d /\ oid'[t] = NoId
        /\ pc'[t] = IF d < q THEN "market" ELSE "filled"
        /\ \A u \in Tasks \ {t} : got'[u] = got[u] /\ pc'[u] = pc[u] /\ oid'[u] = oid[u]
    <2>1. /\ got' = [got EXCEPT ![t] = d]
          /\ pc' = [pc EXCEPT ![t] = IF d < q THEN "market" ELSE "filled"]
      BY CalmFaults DEF GetStatus
    <2>2. oid' = [oid EXCEPT ![t] = NoId]
      BY DEF GetStatus
    <2>3. QED
      BY <2>1, <2>2 DEF TypeOK
  <1>4. orders'[o] = NoOrder /\ \A p \in OrderIds : p # o => orders'[p] = orders[p]
    BY <1>1, <1>2 DEF GetStatus, TypeOK
  <1>5. \A u \in Tasks \ {t} : SameTask(u)
    BY <1>1, <1>3, <1>4 DEF SameTask, TypeOK
  <1>6. OrderFits(t)'
    BY <1>3 DEF OrderFits
  <1>7. NoStrayOrders'
    BY <1>1, <1>3, <1>4 DEF Fit, NoStrayOrders
  <1>8. Moved(t)' = Moved(t)
    <2>1. Moved(t) = d
      BY <1>1 DEF Moved
    <2>2. CASE d < q
      BY <1>3, <2>1, <2>2 DEF Moved
    <2>3. CASE ~(d < q)
      <3>1. d = q
        BY <1>2, <2>3
      <3>2. Moved(t)' = q
        BY <1>1, <1>3, <2>3 DEF Moved
      <3>3. QED
        BY <2>1, <3>1, <3>2
    <2>4. QED
      BY <2>2, <2>3
  <1>9. pc'[t] \in {"market", "filled"}
    BY <1>3
  <1> HIDE DEF o, d, q
  <1>10. QED
    BY <1>1, <1>5, <1>6, <1>7, <1>8, <1>9, QuietCall

\* A reduce-only order for at least what is held takes all of it.
LEMMA ReducesAll ==
    ASSUME exch \in [Symbols -> Int], NEW s \in Symbols, NEW side \in {-1, 0, 1},
           NEW q \in Int, Abs(exch[s]) <= q, Fillable(s, side, q, TRUE) > 0
    PROVE  Fillable(s, side, q, TRUE) = Abs(exch[s])
  <1>1. side * exch[s] < 0
    BY ReduceOnlyFill
  <1>2. Reducible(s, side) = Abs(exch[s])
    BY <1>1 DEF Reducible
  <1> DEFINE a == Abs(exch[s])
  <1>3. a \in Int /\ a <= q
    BY SignAbs
  <1>4. Least(q, a) = a
    <2> HIDE DEF a
    <2>1. QED
      BY <1>3 DEF Least
  <1>5. QED
    BY <1>2, <1>4 DEF Fillable

LEMMA PlaceMarketFits ==
    ASSUME TypeOK, TasksConsistent, Calm, Fit, NEW t \in Tasks, PlaceMarket(t)
    PROVE  Fit'
  <1> DEFINE job == cur[t]
             s == job.sym
             e == exch[s]
             q == Abs(job.qty)
             n == Fillable(s, Side(job), Remaining(t), ReduceOnly(job))
  <1>1. /\ pc[t] = "market" /\ oid[t] = NoId
        /\ UNCHANGED <<orders, positions, todo, cur, oid, got, rpc, boot>>
    BY DEF PlaceMarket, TasksConsistent, reconVars, countVars
  <1>2. /\ job \in Jobs /\ s \in Symbols /\ job.qty \in Int
        /\ IF IsClose(t) THEN CloseFits(t) ELSE OpenFits(t)
        /\ e \in Int /\ Moved(t) = got[t] /\ got[t] \in Nat
        /\ cur[t] # NoJob /\ boot = "up"
    BY <1>1, Worker DEF Moved
  <1>3. pc' = [pc EXCEPT ![t] = pc'[t]] /\ pc'[t] \in {"filled", "failed"}
    <2>1. \E v \in {"filled", "failed"} : pc' = [pc EXCEPT ![t] = v]
      BY DEF PlaceMarket
    <2>2. QED
      BY <2>1 DEF TypeOK
  <1>4. \A u \in Tasks \ {t} : SameTask(u)
    BY <1>1, <1>3 DEF SameTask, TypeOK
  <1>5. OrderFits(t)' /\ NoStrayOrders'
    BY <1>1 DEF OrderFits, Fit, NoStrayOrders
  <1>6. CASE UNCHANGED exch /\ pc'[t] = "failed"
    <2>1. Moved(t)' = Moved(t)
      BY <1>1, <1>6 DEF Moved
    <2>2. QED
      BY <1>1, <1>4, <1>5, <1>6, <2>1, QuietCall
  <1>7. CASE /\ n > 0
             /\ exch' = [exch EXCEPT ![s] = @ + Side(job) * n]
             /\ pc'[t] = "filled"
    <2>1. exch'[s] = e + Side(job) * n /\ \A r \in Symbols \ {s} : exch'[r] = exch[r]
      BY <1>2, <1>7 DEF TypeOK
    <2>2. Moved(t)' = q
      BY <1>1, <1>7 DEF Moved
    <2>3. q \in Nat /\ Side(job) \in {-1, 0, 1}
      BY <1>2, SideType
    <2>4. Remaining(t) = q - got[t] /\ Remaining(t) \in Int
      BY <1>2, <2>3 DEF Remaining
    <2>5. n \in Int
      BY <1>2, <2>3, <2>4, FillableBound, SideType DEF TypeOK
    <2>6. CASE IsClose(t)
      <3>1. Within(e, job.qty) /\ Abs(e) + got[t] <= q
        BY <1>2, <2>6, CloserKnows DEF CloseFits
      <3>2. Side(job) = Sign(-job.qty) /\ ReduceOnly(job) = TRUE
        BY <2>6 DEF Side, ReduceOnly, IsClose
      <3>3. Abs(e) \in Nat
        BY <1>2, SignAbs
      <3>4. Abs(e) <= Remaining(t)
        <4> HIDE DEF q, e
        <4>1. QED
          BY <1>2, <2>3, <2>4, <3>1, <3>3
      <3>5. n = Abs(e)
        BY <1>2, <1>7, <2>3, <2>4, <3>2, <3>4, ReducesAll DEF TypeOK
      <3> HIDE DEF n, e, q, s, job
      <3>6. /\ Within(e + Side(job) * n, job.qty)
            /\ Abs(e + Side(job) * n) = Abs(e) - n
        BY <1>2, <2>5, <3>1, <3>2, <3>3, <3>5, CloseMoves
      <3>7. Abs(exch'[s]) + q <= q
        BY <2>1, <2>3, <3>3, <3>5, <3>6
      <3>8. QED
        BY <1>1, <1>3, <1>4, <1>5, <1>7, <2>1, <2>2, <2>6, <3>6, <3>7, CallStep DEF s, job, q
    <2>7. CASE ~IsClose(t)
      <3>1. job.qty \in {Lot, -Lot} /\ Within(e, Sign(job.qty) * got[t]) /\ got[t] <= Lot
        BY <1>2, <2>7 DEF OpenFits
      <3>2. Side(job) = Sign(job.qty) /\ ReduceOnly(job) = FALSE
        BY <1>2, <2>7 DEF Side, ReduceOnly, IsClose, Jobs
      <3>3. n = Remaining(t)
        BY <3>2 DEF Fillable
      <3>4. q = Lot /\ job.qty # 0
        BY <3>1, LotAssumption, PartOfLot
      <3> HIDE DEF n, e, q, s, job
      <3>5. n \in Nat /\ got[t] + n = q
        BY <1>2, <1>7, <2>3, <2>4, <2>5, <3>3
      <3>6. Within(e + Side(job) * n, Sign(job.qty) * q)
        BY <1>2, <3>1, <3>2, <3>4, <3>5, OpenMoves
      <3>7. q <= Lot
        BY <3>4, LotAssumption
      <3>8. QED
        BY <1>1, <1>3, <1>4, <1>5, <1>7, <2>1, <2>2, <2>7, <3>6, <3>7, CallStep DEF s, job, q
    <2>8. QED
      BY <2>6, <2>7
  <1>8. QED
    BY <1>6, <1>7, CalmFaults DEF PlaceMarket, TypeOK

\* A close that went through has sold the whole position.
LEMMA SoldOut ==
    ASSUME TypeOK, TasksConsistent, Fit, NEW t \in Tasks, pc[t] = "filled", IsClose(t)
    PROVE  exch[cur[t].sym] = 0 /\ cur[t].sym \in Symbols /\ boot = "up"
  <1> DEFINE e == exch[cur[t].sym]
             q == Abs(cur[t].qty)
  <1>1. /\ cur[t].sym \in Symbols /\ boot = "up"
        /\ e \in Int /\ cur[t].qty \in Int /\ Abs(e) + q <= q
    BY Worker DEF Moved, CloseFits
  <1>2. q \in Int /\ Abs(e) \in Nat
    BY <1>1, SignAbs
  <1> HIDE DEF q, e
  <1>3. Abs(e) = 0
    BY <1>1, <1>2
  <1>4. QED
    BY <1>1, <1>3 DEF Abs, e

LEMMA FinishCloseFits ==
    ASSUME TypeOK, TasksConsistent, Fit, NEW t \in Tasks, FinishClose(t)
    PROVE  Fit'
  <1>1. /\ pc[t] = "filled" /\ IsClose(t) /\ Return(t) /\ UNCHANGED exchVars
        /\ rpc' = rpc /\ boot' = boot
        /\ positions' = [positions EXCEPT ![cur[t].sym] = NoPosition]
    BY DEF FinishClose, reconVars, countVars
  <1>2. cur[t].sym \in Symbols /\ boot = "up"
    BY <1>1, SoldOut
  <1>3. exch[cur[t].sym] = 0
    BY <1>1, SoldOut
  <1>4. PICK s \in Symbols : s = cur[t].sym
    BY <1>2
  <1>5. SymbolFits(s)'
    BY <1>1, <1>2, <1>3, <1>4 DEF SymbolFits, Held, exchVars, TypeOK
  <1>6. \A r \in Symbols \ {s} : positions'[r] = positions[r]
    BY <1>1, <1>4 DEF TypeOK
  <1>7. QED
    BY <1>1, <1>4, <1>5, <1>6, ReturnStep

LEMMA FailCloseFits ==
    ASSUME TypeOK, TasksConsistent, Fit, NEW t \in Tasks, FailClose(t)
    PROVE  Fit'
  <1>1. /\ pc[t] = "failed" /\ IsClose(t) /\ Return(t) /\ UNCHANGED exchVars
        /\ rpc' = rpc /\ boot' = boot
    BY DEF FailClose, reconVars, countVars
  <1>2. cur[t].sym \in Symbols /\ boot = "up" /\ Held(cur[t].sym)
    BY <1>1, Worker DEF CloseFits, Locked
  <1>3. PICK s \in Symbols : s = cur[t].sym
    BY <1>2
  <1>4. /\ positions[s] \in Positions
        /\ positions' = [positions EXCEPT ![s] = [@ EXCEPT !.closing = FALSE]]
    BY <1>2, <1>3 DEF FailClose, Held, TypeOK
  <1>5. /\ positions'[s] \in Positions /\ positions'[s].amt = positions[s].amt
        /\ \A r \in Symbols \ {s} : positions'[r] = positions[r]
    BY <1>4 DEF TypeOK, Positions
  <1>6. SymbolFits(s)'
    <2>1. SymbolFits(s)
      BY DEF Fit
    <2>2. QED
      BY <1>1, <1>2, <1>3, <1>5, <2>1, NullsAssumption DEF SymbolFits, Held, exchVars
  <1>7. QED
    BY <1>1, <1>3, <1>5, <1>6, ReturnStep

LEMMA NewPositionType ==
    ASSUME NEW a \in Int, NEW own \in BOOLEAN
    PROVE  NewPosition(a, own) \in Positions /\ NewPosition(a, own).amt = a
  BY DEF NewPosition, Positions

\* The record of an opened position says what was bought of it.
LEMMA FinishOpenFits ==
    ASSUME TypeOK, TasksConsistent, Fit, NEW t \in Tasks, FinishOpen(t)
    PROVE  Fit'
  <1> DEFINE q == cur[t].qty
  <1>1. /\ pc[t] \in {"filled", "failed"} /\ ~IsClose(t) /\ Return(t) /\ UNCHANGED exchVars
        /\ rpc' = rpc /\ boot' = boot
        /\ positions' = [positions EXCEPT ![cur[t].sym] = NewPosition(Opened(t), TRUE)]
    BY DEF FinishOpen, reconVars, countVars
  <1>2. /\ cur[t].sym \in Symbols /\ boot = "up"
        /\ q \in {Lot, -Lot} /\ Moved(t) \in Nat /\ Moved(t) <= Lot
        /\ Within(exch[cur[t].sym], Sign(q) * Moved(t))
    BY <1>1, Worker DEF OpenFits
  <1>3. PICK s \in Symbols : s = cur[t].sym
    BY <1>2
  <1>4. Opened(t) = Sign(q) * Moved(t) /\ Opened(t) \in Int
    <2>1. CASE pc[t] = "filled"
      <3>1. Opened(t) = q /\ Moved(t) = Abs(q)
        BY <2>1 DEF Opened, Moved
      <3>2. Sign(q) * Abs(q) = q /\ q \in Int
        BY <1>2, PartOfLot
      <3> HIDE DEF q
      <3>3. QED
        BY <3>1, <3>2
    <2>2. CASE pc[t] = "failed"
      <3>1. Opened(t) = Sign(q) * Moved(t)
        BY <2>2 DEF Opened, Moved
      <3>2. Sign(q) * Moved(t) \in Int
        BY <1>2, PartOfLot
      <3> HIDE DEF q
      <3>3. QED
        BY <3>1, <3>2
    <2>3. QED
      BY <1>1, <2>1, <2>2
  <1>5. /\ positions'[s] = NewPosition(Opened(t), TRUE)
        /\ \A r \in Symbols \ {s} : positions'[r] = positions[r]
    BY <1>1, <1>3 DEF TypeOK
  <1>6. positions'[s] # NoPosition /\ positions'[s].amt = Opened(t)
    BY <1>4, <1>5, NewPositionType, NullsAssumption
  <1>7. /\ Within(exch[s], Opened(t))
        /\ Within(Opened(t), Lot) \/ Within(Opened(t), -Lot)
    BY <1>2, <1>3, <1>4, PartOfLot
  <1>8. SymbolFits(s)'
    BY <1>1, <1>2, <1>6, <1>7 DEF SymbolFits, Held, exchVars
  <1>9. QED
    BY <1>1, <1>3, <1>5, <1>8, ReturnStep

\* An open order given up has bought nothing.
LEMMA GivenUp ==
    ASSUME TypeOK, TasksConsistent, Fit, NEW t \in Tasks, ~IsClose(t), Return(t),
           pc[t] \in {"check", "failed"}, got[t] = 0,
           UNCHANGED <<exchVars, positions, rpc, boot>>
    PROVE  Fit'
  <1>1. /\ cur[t].sym \in Symbols /\ boot = "up"
        /\ cur[t].qty \in {Lot, -Lot} /\ Moved(t) = 0
        /\ Within(exch[cur[t].sym], Sign(cur[t].qty) * Moved(t))
        /\ ~Held(cur[t].sym) /\ exch[cur[t].sym] \in Int
    BY Worker DEF OpenFits, Moved
  <1>2. exch[cur[t].sym] = 0
    <2>1. cur[t].qty \in Int
      BY <1>1, LotAssumption
    <2>2. Sign(cur[t].qty) \in Int
      BY <2>1, SignAbs
    <2>3. Sign(cur[t].qty) * Moved(t) = 0
      BY <1>1, <2>2
    <2>4. QED
      BY <1>1, <2>3 DEF Within
  <1>3. PICK s \in Symbols : s = cur[t].sym
    BY <1>1
  <1>4. SymbolFits(s)'
    BY <1>1, <1>2, <1>3 DEF SymbolFits, Held, exchVars
  <1>5. QED
    BY <1>3, <1>4, ReturnStep

LEMMA ExecutorFits ==
    ASSUME TypeOK, TasksConsistent, Calm, Fit, NEW t \in Tasks, ExecutorStep(t)
    PROVE  Fit'
  <1>1. CASE AbandonOpen(t)
    BY <1>1, GivenUp DEF AbandonOpen, reconVars, countVars
  <1>2. QED
    BY <1>1, StartFits, CancelAllFits, PlaceLimitFits, CancelLimitFits, GetStatusFits,
       PlaceMarketFits, FinishCloseFits, FailCloseFits, FinishOpenFits DEF ExecutorStep

----------------------------------------------------------------------------
(* The loops that give orders *)

\* What is watched and not locked, nobody is at work on.
LEMMA FreeRecord ==
    ASSUME TypeOK, TasksConsistent, Fit, NEW s \in Symbols, Held(s),
           \A u \in Tasks : ~Closing(u, s)
    PROVE  \A u \in Tasks : \A k \in JobsOf(u) : k.sym # s
  <1> SUFFICES ASSUME NEW u \in Tasks, NEW k \in JobsOf(u), k.sym = s
               PROVE  FALSE
    OBVIOUS
  <1>1. k = cur[u] /\ k # NoJob
    BY DEF JobsOf, Closing
  <1>2. ~IsClose(u)
    BY <1>1 DEF Closing, IsClose
  <1>3. OpenFits(u)
    BY <1>1, <1>2 DEF Fit, CurFits
  <1>4. QED
    BY <1>1, <1>3 DEF OpenFits

LEMMA UnlockedIsFree ==
    ASSUME TypeOK, TasksConsistent, Fit, NEW s \in Symbols, Held(s), ~positions[s].closing
    PROVE  \A u \in Tasks : \A k \in JobsOf(u) : k.sym # s
  <1>1. ASSUME NEW u \in Tasks, Closing(u, s) PROVE FALSE
    <2>1. CASE \E j \in todo[u] : j.sym = s
      BY <2>1 DEF Fit, QueueFits, Locked
    <2>2. CASE cur[u] # NoJob /\ cur[u].kind = "close" /\ cur[u].sym = s
      BY <2>2 DEF Fit, CurFits, IsClose, CloseFits, Locked
    <2>3. QED
      BY <1>1, <2>1, <2>2 DEF Closing
  <1>2. QED
    BY <1>1, FreeRecord

LEMMA NewJob ==
    ASSUME OneJobEach, NEW t \in Tasks, NEW job,
           \A u \in Tasks : \A k \in JobsOf(u) : k.sym # job.sym,
           \A u \in Tasks \ {t} : JobsOf(u)' = JobsOf(u),
           JobsOf(t)' = JobsOf(t) \cup {job},
           \A u \in Tasks : cur'[u] \notin todo'[u]
    PROVE  OneJobEach'
  <1>1. ASSUME NEW u \in Tasks, NEW v \in Tasks, NEW j \in JobsOf(u)', NEW k \in JobsOf(v)',
               j.sym = k.sym
        PROVE  u = v /\ j = k
    <2>1. CASE j \in JobsOf(u) /\ k \in JobsOf(v)
      BY <1>1, <2>1 DEF OneJobEach
    <2>2. CASE j \notin JobsOf(u)
      BY <1>1, <2>2
    <2>3. CASE k \notin JobsOf(v)
      BY <1>1, <2>3
    <2>4. QED
      BY <2>1, <2>2, <2>3
  <1>2. QED
    BY <1>1 DEF OneJobEach

\* A task locks a record and queues its close.
LEMMA LockFits ==
    ASSUME TypeOK, TasksConsistent, Fit, NEW t \in Tasks, NEW s \in Symbols,
           boot = "up", pc[t] = "idle", Held(s), ~positions[s].closing,
           positions' = [positions EXCEPT ![s].closing = TRUE],
           NEW reason \in Reasons, NEW job, job = CloseJob(s, reason),
           todo' = [todo EXCEPT ![t] = @ \cup {job}],
           UNCHANGED <<exchVars, pc, cur, oid, got, rpc, boot>>
    PROVE  Fit'
  <1>1. positions[s] \in Positions
    BY DEF Held, TypeOK
  <1>2. /\ positions'[s] \in Positions /\ positions'[s].amt = positions[s].amt
        /\ positions'[s].closing = TRUE
        /\ \A r \in Symbols \ {s} : positions'[r] = positions[r]
    BY <1>1 DEF TypeOK, Positions
  <1>3. job.sym = s /\ job.qty = positions[s].amt
    BY DEF CloseJob
  <1>4. job \in Jobs /\ job # NoJob
    BY <1>1, NullsAssumption DEF CloseJob, Jobs, Positions
  <1>5. cur[t] = NoJob /\ oid[t] = NoId
    BY DEF TasksConsistent
  <1>6. todo'[t] = todo[t] \cup {job} /\ \A u \in Tasks \ {t} : SameTask(u)
    BY DEF SameTask, TypeOK, exchVars
  <1>7. \A u \in Tasks : \A k \in JobsOf(u) : k.sym # s
    BY UnlockedIsFree
  <1>8. OneJobEach'
    <2>1. JobsOf(t)' = JobsOf(t) \cup {job}
      BY <1>5, <1>6 DEF JobsOf
    <2>2. \A u \in Tasks \ {t} : JobsOf(u)' = JobsOf(u)
      BY <1>6 DEF JobsOf, SameTask
    <2>3. \A u \in Tasks : cur'[u] \notin todo'[u]
      BY <1>4, <1>5, <1>6 DEF Fit, OneJobEach, SameTask
    <2>4. QED
      BY <1>3, <1>7, <2>1, <2>2, <2>3, NewJob DEF Fit
  <1>9. positions'[s] # NoPosition
    BY <1>2, NullsAssumption
  <1>10. \A j \in todo'[t] : (j \in todo[t] /\ j.sym # s) \/ Locked(j)'
    <2>1. Locked(job)'
      BY <1>2, <1>3, <1>9 DEF Locked, Held
    <2>2. todo[t] \subseteq JobsOf(t)
      BY DEF JobsOf
    <2>3. QED
      BY <1>6, <1>7, <2>1, <2>2
  <1>11. CurFits(t)' /\ OrderFits(t)' /\ NoStrayOrders'
    BY <1>5 DEF CurFits, OrderFits, NoStrayOrders, Fit, exchVars
  <1>12. SymbolFits(s)'
    <2>1. SymbolFits(s)
      BY DEF Fit
    <2>2. QED
      BY <1>2, <1>9, <2>1 DEF SymbolFits, Held, exchVars
  <1>13. \A r \in Symbols \ {s} : SameSymbol(r)
    BY <1>2 DEF SameSymbol, exchVars
  <1>14. QED
    BY <1>5, <1>6, <1>7, <1>8, <1>10, <1>11, <1>12, <1>13, LocalStep

LEMMA ForceUnlockFits ==
    ASSUME TypeOK, TasksConsistent, Calm, Fit, NEW s \in Symbols, ForceUnlock(s)
    PROVE  Fit'
  <1>1. /\ boot = "up" /\ pc[sentinel] = "idle" /\ Held(s) /\ sentinel \in Tasks
        /\ positions' = [positions EXCEPT ![s].closing = FALSE]
        /\ UNCHANGED <<exchVars, pc, todo, cur, oid, got, rpc, boot>>
    BY DEF ForceUnlock, Tasks, taskVars, reconVars, countVars
  <1>2. positions[s] \in Positions
    BY <1>1 DEF Held, TypeOK
  <1>3. /\ positions'[s] \in Positions /\ positions'[s].amt = positions[s].amt
        /\ \A r \in Symbols \ {s} : positions'[r] = positions[r]
    BY <1>1, <1>2 DEF TypeOK, Positions
  <1>4. \A u \in Tasks : \A k \in JobsOf(u) : k.sym # s
    <2>1. \A u \in Tasks : ~Closing(u, s)
      BY CalmFaults DEF ForceUnlock
    <2>2. QED
      BY <1>1, <2>1, FreeRecord
  <1>5. cur[sentinel] = NoJob /\ oid[sentinel] = NoId
    BY <1>1 DEF TasksConsistent
  <1>6. \A u \in Tasks : SameTask(u)
    BY <1>1 DEF SameTask, exchVars
  <1>7. OneJobEach'
    BY <1>1, SameJobs DEF Fit
  <1>8. \A j \in todo'[sentinel] : j \in todo[sentinel] /\ j.sym # s
    BY <1>1, <1>4 DEF JobsOf
  <1>9. CurFits(sentinel)' /\ OrderFits(sentinel)' /\ NoStrayOrders'
    BY <1>1, <1>5 DEF CurFits, OrderFits, NoStrayOrders, Fit, exchVars
  <1>10. SymbolFits(s)'
    <2>1. SymbolFits(s)
      BY DEF Fit
    <2>2. QED
      BY <1>1, <1>3, <2>1, NullsAssumption DEF SymbolFits, Held, exchVars
  <1>11. \A r \in Symbols \ {s} : SameSymbol(r)
    BY <1>1, <1>3 DEF SameSymbol, exchVars
  <1>12. QED
    BY <1>1, <1>4, <1>5, <1>6, <1>7, <1>8, <1>9, <1>10, <1>11, LocalStep

LEMMA OpenStepFits ==
    ASSUME TypeOK, TasksConsistent, Fit, NEW s \in Symbols, Open(s)
    PROVE  Fit'
  <1>1. /\ boot = "up" /\ pc[main] = "idle" /\ todo[main] = {} /\ ~Held(s) /\ main \in Tasks
        /\ pc' = [pc EXCEPT ![main] = "check"]
        /\ UNCHANGED <<exchVars, positions, todo, oid, got, rpc, boot>>
    BY DEF Open, Ready, SlotFree, Tasks, reconVars
  <1>2. PICK qty \in {Lot, -Lot} :
          cur' = [cur EXCEPT ![main] =
                    [kind |-> "open", sym |-> s, qty |-> qty, reason |-> "exit"]]
    BY DEF Open
  <1> DEFINE job == [kind |-> "open", sym |-> s, qty |-> qty, reason |-> "exit"]
  <1>3. job \in Jobs /\ job # NoJob
    BY LotAssumption, NullsAssumption DEF Jobs, Reasons
  <1>4. job.sym = s /\ job.kind = "open" /\ job.qty = qty
    OBVIOUS
  <1>5. /\ cur'[main] = job /\ pc'[main] = "check" /\ todo'[main] = {}
        /\ \A u \in Tasks \ {main} : SameTask(u)
    BY <1>1, <1>2 DEF SameTask, TypeOK, exchVars
  <1> HIDE DEF job
  <1>6. cur[main] = NoJob /\ oid[main] = NoId /\ got[main] = 0
    BY <1>1 DEF TasksConsistent, Fit, CurFits
  <1>7. \A u \in Tasks : \A k \in JobsOf(u) : k.sym # s
    <2> SUFFICES ASSUME NEW u \in Tasks, NEW k \in JobsOf(u), k.sym = s
                 PROVE  FALSE
      OBVIOUS
    <2>1. CASE k \in todo[u]
      BY <1>1, <2>1 DEF Fit, QueueFits, Locked
    <2>2. CASE k = cur[u] /\ k # NoJob
      <3>1. CASE IsClose(u)
        BY <1>1, <2>2, <3>1 DEF Fit, CurFits, CloseFits, Locked
      <3>2. CASE ~IsClose(u)
        BY <1>6, <2>2, <3>2 DEF Fit, CurFits, OpenFits
      <3>3. QED
        BY <3>1, <3>2
    <2>3. QED
      BY <2>1, <2>2 DEF JobsOf
  <1>8. OneJobEach'
    <2>1. JobsOf(main)' = JobsOf(main) \cup {job}
      BY <1>1, <1>3, <1>5, <1>6 DEF JobsOf
    <2>2. \A u \in Tasks \ {main} : JobsOf(u)' = JobsOf(u)
      BY <1>5 DEF JobsOf, SameTask
    <2>3. \A u \in Tasks : cur'[u] \notin todo'[u]
      BY <1>5 DEF Fit, OneJobEach, SameTask
    <2>4. QED
      BY <1>1, <1>4, <1>7, <2>1, <2>2, <2>3, NewJob DEF Fit
  <1>9. exch[s] = 0
    <2>1. SymbolFits(s)
      BY DEF Fit
    <2>2. ~\E u \in Tasks : cur[u] # NoJob /\ cur[u].sym = s
      BY <1>7 DEF JobsOf
    <2>3. QED
      BY <1>1, <2>1, <2>2 DEF SymbolFits
  <1>10. CurFits(main)'
    <2>1. Moved(main)' = 0
      BY <1>1, <1>5, <1>6 DEF Moved
    <2>2. Within(exch[s], Sign(qty) * 0)
      <3>1. qty \in Int
        BY LotAssumption
      <3>2. Sign(qty) \in Int
        BY <3>1, SignAbs
      <3>3. QED
        BY <1>9, <3>2 DEF Within
    <2>3. QED
      BY <1>1, <1>3, <1>4, <1>5, <1>6, <2>1, <2>2, LotAssumption
         DEF CurFits, IsClose, OpenFits, Held, exchVars
  <1>11. OrderFits(main)' /\ NoStrayOrders'
    BY <1>1, <1>6 DEF OrderFits, NoStrayOrders, Fit, exchVars
  <1>12. SymbolFits(s)'
    BY <1>1, <1>9 DEF SymbolFits, Held, exchVars
  <1>13. \A r \in Symbols \ {s} : SameSymbol(r)
    BY <1>1 DEF SameSymbol, exchVars
  <1>14. QED
    BY <1>1, <1>5, <1>6, <1>7, <1>8, <1>10, <1>11, <1>12, <1>13, LocalStep

LEMMA CheckOpenFits ==
    ASSUME TypeOK, TasksConsistent, Fit, CheckOpen
    PROVE  Fit'
  <1>1. /\ pc[main] = "check" /\ main \in Tasks /\ got[main] = 0 /\ oid[main] = NoId
        /\ ~IsClose(main)
        /\ UNCHANGED <<exchVars, positions, rpc, boot>>
    BY DEF CheckOpen, Tasks, Fit, CurFits, TasksConsistent, IsClose, reconVars, countVars
  <1>2. CASE Return(main)
    BY <1>1, <1>2, GivenUp
  <1>3. CASE /\ pc' = [pc EXCEPT ![main] = pc'[main]] /\ pc'[main] \in {"limit", "market"}
             /\ UNCHANGED <<todo, cur, oid, got>>
    <2>1. \A u \in Tasks \ {main} : SameTask(u)
      BY <1>1, <1>3 DEF SameTask, TypeOK, exchVars
    <2>2. OrderFits(main)' /\ NoStrayOrders'
      BY <1>1, <1>3 DEF OrderFits, NoStrayOrders, Fit, exchVars
    <2>3. Moved(main)' = Moved(main)
      BY <1>1, <1>3 DEF Moved
    <2>4. QED
      BY <1>1, <1>3, <2>1, <2>2, <2>3, QuietCall DEF exchVars
  <1>4. ASSUME NEW next \in {"limit", "market"}, pc' = [pc EXCEPT ![main] = next]
        PROVE  pc' = [pc EXCEPT ![main] = pc'[main]] /\ pc'[main] \in {"limit", "market"}
    BY <1>1, <1>4 DEF TypeOK
  <1>5. QED
    BY <1>2, <1>3, <1>4 DEF CheckOpen

----------------------------------------------------------------------------
(* Start-up *)

\* While the program starts no task has an order.
LEMMA NoJobsYet ==
    ASSUME TypeOK, TasksConsistent, Fit, boot # "up"
    PROVE  /\ \A t \in Tasks : cur[t] = NoJob /\ oid[t] = NoId /\ todo[t] = {}
           /\ \A o \in OrderIds : orders[o] = NoOrder
  <1>1. \A t \in Tasks : cur[t] = NoJob /\ oid[t] = NoId /\ todo[t] = {}
    BY DEF Fit, Starting, TasksConsistent
  <1>2. QED
    BY <1>1, NullsAssumption DEF Fit, NoStrayOrders

LEMMA BootSyncFits ==
    ASSUME TypeOK, TasksConsistent, Calm, Fit, BootSync
    PROVE  Fit'
  <1>1. /\ boot = "sync" /\ boot' = "cancel" /\ positions' = Adopted
        /\ UNCHANGED <<exch, orders, pc, todo, cur, oid, got, rpc>>
    BY CalmFaults DEF BootSync, exchVars, taskVars, reconVars
  <1>2. \A t \in Tasks : cur[t] = NoJob /\ oid[t] = NoId /\ todo[t] = {}
    BY <1>1, NoJobsYet
  <1>3. OneJobEach'
    BY <1>1, SameJobs DEF Fit
  <1>4. \A t \in Tasks : QueueFits(t)' /\ CurFits(t)' /\ OrderFits(t)'
    BY <1>1, <1>2 DEF Fit, QueueFits, CurFits, OrderFits
  <1>5. ASSUME NEW s \in Symbols PROVE SymbolFits(s)'
    <2>1. exch[s] \in {0, Lot}
      BY <1>1 DEF Fit, SymbolFits
    <2>2. CASE exch[s] = 0
      BY <1>1, <2>2 DEF SymbolFits, Adopted, Held
    <2>3. CASE exch[s] = Lot /\ exch[s] # 0
      <3>1. positions'[s] = NewPosition(Lot, FALSE)
        BY <1>1, <2>3 DEF Adopted
      <3>2. NewPosition(Lot, FALSE) \in Positions /\ NewPosition(Lot, FALSE).amt = Lot
        BY LotAssumption DEF NewPosition, Positions
      <3>3. Within(Lot, Lot)
        BY LotAssumption DEF Within
      <3>4. QED
        BY <1>1, <2>3, <3>1, <3>2, <3>3, NullsAssumption DEF SymbolFits, Held
    <2>4. QED
      BY <2>1, <2>2, <2>3
  <1>6. QED
    BY <1>1, <1>3, <1>4, <1>5 DEF Fit, NoStrayOrders, Starting

LEMMA BootCancelFits ==
    ASSUME TypeOK, TasksConsistent, Fit, BootCancel
    PROVE  Fit'
  <1>1. /\ boot = "cancel" /\ boot' = "up"
        /\ UNCHANGED <<exch, positions, pc, todo, cur, oid, got, rpc>>
    BY DEF BootCancel, taskVars, reconVars
  <1>2. /\ \A t \in Tasks : cur[t] = NoJob /\ oid[t] = NoId /\ todo[t] = {}
        /\ \A o \in OrderIds : orders[o] = NoOrder
    BY <1>1, NoJobsYet
  <1>3. \A o \in OrderIds : orders'[o] = NoOrder
    BY <1>2 DEF BootCancel, CancelledBook, Rests
  <1>4. OneJobEach'
    BY <1>1, SameJobs DEF Fit
  <1>5. \A t \in Tasks : QueueFits(t)' /\ CurFits(t)' /\ OrderFits(t)'
    BY <1>1, <1>2 DEF Fit, QueueFits, CurFits, OrderFits
  <1>6. \A s \in Symbols : SymbolFits(s)'
    BY <1>1 DEF Fit, SymbolFits, Held
  <1>7. QED
    BY <1>1, <1>3, <1>4, <1>5, <1>6 DEF Fit, NoStrayOrders, Starting

----------------------------------------------------------------------------
(* Theorems *)

LEMMA CalmInit == Init => CalmInv
  <1> SUFFICES ASSUME Init
               PROVE  Fit
    BY DEF CalmInv
  <1>1. \A t \in Tasks : cur[t] = NoJob /\ todo[t] = {} /\ oid[t] = NoId /\ got[t] = 0
    BY DEF Init, OnTasks
  <1>2. OneJobEach
    BY <1>1 DEF OneJobEach, JobsOf
  <1>3. \A t \in Tasks : QueueFits(t) /\ CurFits(t) /\ OrderFits(t)
    BY <1>1 DEF QueueFits, CurFits, OrderFits
  <1>4. \A s \in Symbols : SymbolFits(s)
    BY DEF Init, SymbolFits, Held, OnSymbols
  <1>5. QED
    BY <1>2, <1>3, <1>4 DEF Fit, Init, NoStrayOrders, Starting, OnTasks

LEMMA CalmStep ==
    ASSUME TypeOK, TasksConsistent, CalmInv, [Next]_vars
    PROVE  CalmInv'
  <1> SUFFICES ASSUME Calm
               PROVE  Fit'
    BY ModeStep DEF CalmInv, Calm
  <1>0. Fit
    BY DEF CalmInv
  <1>1. CASE ExchangeStep
    BY <1>0, <1>1, FillFits, ExpireFits, LiquidateFits DEF ExchangeStep
  <1>2. CASE \E t \in Tasks : ExecutorStep(t)
    BY <1>0, <1>2, ExecutorFits
  <1>3. CASE MonitorStep
    <2>1. ASSUME NEW s \in Symbols, NEW t \in {risk, sentinel}, LockForClose(t, s)
          PROVE  Fit'
      <3>1. PICK reason \in Reasons : todo' = [todo EXCEPT ![t] = @ \cup {CloseJob(s, reason)}]
        BY <2>1, ReasonsAssumption DEF LockForClose, ReasonsOf, Reasons
      <3>2. t \in Tasks
        BY DEF Tasks
      <3>3. QED
        BY <1>0, <2>1, <3>1, <3>2, LockFits DEF LockForClose, reconVars, countVars
    <2>2. QED
      BY <1>0, <1>3, <2>1, ForceUnlockFits DEF MonitorStep
  <1>4. CASE SignalStep
    <2>1. ASSUME NEW s \in Symbols, Reverse(s) PROVE Fit'
      <3>1. main \in Tasks /\ "exit" \in Reasons
        BY DEF Tasks, Reasons
      <3>2. todo' = [todo EXCEPT ![main] = @ \cup {CloseJob(s, "exit")}]
        BY <2>1 DEF Reverse, Ready
      <3>3. /\ boot = "up" /\ pc[main] = "idle" /\ Held(s) /\ ~positions[s].closing
            /\ positions' = [positions EXCEPT ![s].closing = TRUE]
            /\ UNCHANGED <<exchVars, pc, cur, oid, got, rpc, boot>>
        BY <2>1 DEF Reverse, Ready, reconVars, countVars
      <3> DEFINE reason == "exit"
      <3>4. reason \in Reasons
        BY <3>1
      <3>5. todo' = [todo EXCEPT ![main] = @ \cup {CloseJob(s, reason)}]
        BY <3>2
      <3> HIDE DEF reason
      <3>6. QED
        BY <1>0, <3>1, <3>3, <3>4, <3>5, LockFits
    <2>2. QED
      BY <1>0, <1>4, <2>1, CheckOpenFits, OpenStepFits DEF SignalStep
  <1>5. CASE ReconcilerStep
    BY <1>0, <1>5, CalmFaults
       DEF Fit, ReconcilerStep, Snapshot, Apply, Correct, FindGhost, AdoptGhost, Prune,
          ListLocal, Rest
  <1>6. CASE BootSync \/ BootCancel
    BY <1>0, <1>6, BootSyncFits, BootCancelFits
  <1>7. CASE Crash
    BY <1>7, CalmFaults DEF Crash
  <1>8. CASE UNCHANGED vars
    <2>1. UNCHANGED <<exch, orders, positions, pc, todo, cur, oid, got, rpc, boot>>
      BY <1>8 DEF vars, exchVars, taskVars, reconVars, countVars
    <2>2. \A t \in Tasks : QueueFits(t)' /\ CurFits(t)' /\ OrderFits(t)'
      <3>1. \A u \in Tasks : SameTask(u) /\ \A j \in JobsOf(u) : SameSymbol(j.sym)
        BY <2>1 DEF SameTask, SameSymbol
      <3>2. QED
        BY <1>0, <3>1, OthersFit
    <2>3. OneJobEach'
      BY <1>0, <2>1, SameJobs DEF Fit
    <2>4. \A s \in Symbols : SymbolFits(s)'
      BY <1>0, <2>1 DEF Fit, SymbolFits, Held
    <2>5. QED
      BY <1>0, <2>1, <2>2, <2>3, <2>4 DEF Fit, NoStrayOrders, Starting
  <1>9. QED
    BY <1>1, <1>2, <1>3, <1>4, <1>5, <1>6, <1>7, <1>8 DEF Next

LEMMA CalmAlways == Spec => [](TypeOK /\ TasksConsistent /\ CalmInv)
<1>1. TypeOK /\ TasksConsistent /\ CalmInv /\ [Next]_vars => CalmInv'
  BY CalmStep
<1>2. QED
  BY <1>1, CalmInit, TypeCorrect, PTL DEF Spec

\* While no call fails, whatever the account holds has a record of the same direction,
\* or a task is at work on it.
THEOREM EverythingWatched == Spec => []NoBlindExposure
<1>1. TypeOK /\ CalmInv => NoBlindExposure
  <2> SUFFICES ASSUME TypeOK, Fit, boot = "up", NEW s \in Symbols, exch[s] # 0, ~Working(s)
               PROVE  Held(s) /\ Sign(positions[s].amt) = Sign(exch[s])
    BY DEF CalmInv, NoBlindExposure
  <2>1. SymbolFits(s) /\ ~\E t \in Tasks : cur[t] # NoJob /\ cur[t].sym = s
    BY DEF Fit, Working
  <2>2. Held(s) /\ Within(exch[s], positions[s].amt)
    BY <2>1 DEF SymbolFits
  <2>3. exch[s] \in Int /\ positions[s].amt \in Int
    BY <2>2 DEF TypeOK, Held, Positions
  <2>4. QED
    BY <2>2, <2>3 DEF Within, Sign
<1>2. QED
  BY <1>1, CalmAlways, PTL

\* While no call fails, opening in two parts never buys more than the quantity decided
\* on, whichever part fills and when.
THEOREM OpensAreExact == Spec => []OpenIsExact
<1>1. TypeOK /\ TasksConsistent /\ CalmInv => OpenIsExact
  <2> SUFFICES ASSUME TypeOK, TasksConsistent, Fit, NEW s \in Symbols
               PROVE  Abs(exch[s]) <= Lot
    BY DEF CalmInv, OpenIsExact, OpenNeverOverfills
  <2>1. SymbolFits(s) /\ exch[s] \in Int
    BY DEF Fit, TypeOK
  <2>2. CASE exch[s] \in {0, Lot}
    BY <2>2, LotAssumption DEF Abs
  <2>3. CASE boot # "sync" /\ Held(s)
    <3>1. positions[s].amt \in Int
      BY <2>3 DEF TypeOK, Held, Positions
    <3>2. /\ Within(exch[s], positions[s].amt)
          /\ Within(positions[s].amt, Lot) \/ Within(positions[s].amt, -Lot)
      BY <2>1, <2>3 DEF SymbolFits
    <3>3. QED
      BY <2>1, <3>1, <3>2, LotAssumption DEF Within, Abs
  <2>4. ASSUME NEW t \in Tasks, cur[t] # NoJob, cur[t].sym = s, ~Held(s)
        PROVE  Abs(exch[s]) <= Lot
    <3>1. OpenFits(t)
      BY <2>4 DEF Fit, CurFits, CloseFits, Locked
    <3>2. Moved(t) \in Nat
      BY <2>4, Worker DEF TasksConsistent
    <3>3. QED
      BY <2>1, <2>4, <3>1, <3>2, PartOfLot DEF OpenFits
  <2>5. QED
    BY <2>1, <2>2, <2>3, <2>4 DEF SymbolFits
<1>2. QED
  BY <1>1, CalmAlways, PTL

\* While no call fails, a record is forgotten only when the account holds nothing of its
\* position any more: neither a maker order filled in part nor a quantity out of date
\* makes the program take a close for done that left a part of the position behind.
THEOREM ForgetsOnlyTheFlat == Spec => ForgottenOnlyWhenFlat
<1>1. ASSUME TypeOK, TasksConsistent, Fit, Calm, Next,
             NEW s \in Symbols, Held(s), positions'[s] = NoPosition
      PROVE  exch[s] = 0
  <2>1. ASSUME NEW t \in Tasks, ExecutorStep(t) PROVE exch[s] = 0
    <3>1. CASE FinishClose(t)
      BY <1>1, <3>1, SoldOut DEF FinishClose, Held, TypeOK
    <3>2. CASE FailClose(t)
      <4> DEFINE r == cur[t].sym
                 Unlocked(p) == IF p = NoPosition THEN p ELSE [p EXCEPT !.closing = FALSE]
      <4>1. positions' = [positions EXCEPT ![r] = Unlocked(@)]
        BY <3>2 DEF FailClose
      <4>2. \A p \in Positions : Unlocked(p) # NoPosition
        BY LockType, NullsAssumption
      <4> HIDE DEF Unlocked, r
      <4>3. QED
        BY <1>1, <4>1, <4>2 DEF Held, TypeOK
    <3>3. CASE FinishOpen(t)
      <4>1. cur[t] \in Jobs
        BY <1>1, <3>3 DEF FinishOpen, TypeOK, TasksConsistent
      <4>2. Opened(t) \in Int
        <5>1. cur[t].qty \in Int /\ got[t] \in Int
          BY <1>1, <4>1 DEF Jobs, TypeOK
        <5>2. 0 + Sign(cur[t].qty) * got[t] \in Int /\ Sign(cur[t].qty) * got[t] \in Int
          BY <5>1, SignAbs, SignedSum
        <5>3. QED
          BY <5>1, <5>2 DEF Opened
      <4>3. NewPosition(Opened(t), TRUE) # NoPosition
        BY <4>2, NewPositionType, NullsAssumption
      <4>4. QED
        BY <1>1, <3>3, <4>3 DEF FinishOpen, Held, TypeOK
    <3>4. QED
      BY <1>1, <2>1, <3>1, <3>2, <3>3
         DEF ExecutorStep, Start, CancelAll, PlaceLimit, CancelLimit, GetStatus, PlaceMarket,
             AbandonOpen, Held
  <2>2. ASSUME NEW r \in Symbols, NEW b \in BOOLEAN, Held(r),
               positions' = [positions EXCEPT ![r].closing = b]
        PROVE  FALSE
    <3>1. positions[r] \in Positions
      BY <1>1, <2>2 DEF Held, TypeOK
    <3>2. [positions[r] EXCEPT !.closing = b] # NoPosition
      BY <3>1, LockType, NullsAssumption
    <3>3. QED
      BY <1>1, <2>2, <3>2 DEF Held, TypeOK
  <2>3. ~MonitorStep
    BY <2>2 DEF MonitorStep, LockForClose, ForceUnlock
  <2>4. ~(\E r \in Symbols : Reverse(r))
    BY <2>2 DEF Reverse
  <2>5. CASE UNCHANGED positions
    BY <1>1, <2>5 DEF Held
  <2>6. ~BootSync /\ ~Crash
    BY <1>1, CalmFaults DEF BootSync, Crash, Fit, SymbolFits
  <2>7. ReconcilerStep => UNCHANGED positions
    BY <1>1 DEF ReconcilerStep, Snapshot, Apply, Correct, FindGhost, AdoptGhost, Prune,
       ListLocal, Rest, Fit
  <2>8. ExchangeStep \/ BootCancel => UNCHANGED positions
    BY DEF ExchangeStep, Fill, Expire, Liquidate, BootCancel
  <2>9. SignalStep => UNCHANGED positions
    BY <2>4 DEF SignalStep, CheckOpen, Open
  <2>10. QED
    BY <1>1, <2>1, <2>3, <2>5, <2>6, <2>7, <2>8, <2>9 DEF Next
<1>2. TypeOK /\ TasksConsistent /\ CalmInv /\ [Next]_vars
        => [Calm => \A s \in Symbols :
              (Held(s) /\ positions'[s] = NoPosition) => exch[s] = 0]_vars
  <2> SUFFICES ASSUME TypeOK, TasksConsistent, CalmInv, Next, Calm,
                      NEW s \in Symbols, Held(s), positions'[s] = NoPosition
               PROVE  exch[s] = 0
    OBVIOUS
  <2>1. QED
    BY <1>1 DEF CalmInv
<1>3. QED
  BY <1>2, CalmAlways, PTL DEF Spec, ForgottenOnlyWhenFlat

=============================================================================
