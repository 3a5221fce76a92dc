--------------------------- MODULE TradingOrderProofs ---------------------------
(****************************************************************************)
(* What holds of the orders the program gives, for any number of symbols    *)
(* and orders, any quantities and any combination of faults: a dry run      *)
(* gives none, max_positions is never exceeded by positions the program     *)
(* opened itself, and while no call fails no order is left in the book      *)
(* without a task that comes back to it, not even by a crash.  The lock of  *)
(* each record implements a lease, and while no close outlasts its time-out *)
(* and the reconciler rests, a position has one close at a time.            *)
(****************************************************************************)
EXTENDS TradingProofs, FiniteSetTheorems

----------------------------------------------------------------------------
(* Dry runs *)

\* In a dry run no task ever has an order, and nothing is in the book.
DryIdle ==
    DryRun => /\ \A t \in Tasks : cur[t] = NoJob
              /\ \A o \in OrderIds : orders[o] = NoOrder

LEMMA DryStep ==
    ASSUME TypeOK, TasksConsistent, DryIdle, [Next]_vars
    PROVE  DryIdle'
  <1> SUFFICES ASSUME DryRun'
               PROVE  /\ \A t \in Tasks : cur'[t] = NoJob
                      /\ \A o \in OrderIds : orders'[o] = NoOrder
    BY DEF DryIdle
  <1>1. DryRun
    BY ModeStep DEF DryRun
  <1>2. /\ \A t \in Tasks : cur[t] = NoJob /\ pc[t] \in {"idle", "drain"}
        /\ \A o \in OrderIds : orders[o] = NoOrder /\ ~Rests(o)
    BY <1>1 DEF DryIdle, TasksConsistent, Rests
  <1>3. \A O : CancelledBook(O) = [o \in OrderIds |-> orders[o]]
    BY <1>2 DEF CancelledBook
  <1> USE DEF exchVars, taskVars
  <1>4. CASE ExchangeStep
    BY <1>2, <1>4 DEF ExchangeStep, Fill, Expire, Liquidate
  <1>5. ASSUME NEW t \in Tasks, ExecutorStep(t)
        PROVE  UNCHANGED <<cur, orders>>
    <2>1. Start(t)
      BY <1>2, <1>5 DEF ExecutorStep, CancelAll, PlaceLimit, CancelLimit, GetStatus,
         PlaceMarket, FinishClose, FailClose, FinishOpen, AbandonOpen
    <2>2. QED
      BY <1>1, <2>1 DEF Start
  <1>6. CASE MonitorStep
    BY <1>2, <1>6 DEF MonitorStep, LockForClose, ForceUnlock
  <1>7. CASE SignalStep
    <2>1. main \in Tasks
      BY DEF Tasks
    <2>2. QED
      BY <1>1, <1>2, <1>7, <2>1 DEF SignalStep, CheckOpen, Reverse, Open
  <1>8. CASE ReconcilerStep
    BY <1>2, <1>8 DEF ReconcilerStep, Snapshot, Apply, Correct, FindGhost, AdoptGhost, Prune,
       ListLocal, Rest
  <1>9. CASE BootSync \/ BootCancel
    BY <1>2, <1>3, <1>9 DEF BootSync, BootCancel
  <1>10. CASE Crash
    BY <1>2, <1>10 DEF Crash, OnTasks
  <1>11. CASE UNCHANGED vars
    BY <1>2, <1>11 DEF vars
  <1>12. QED
    BY <1>2, <1>4, <1>5, <1>6, <1>7, <1>8, <1>9, <1>10, <1>11 DEF Next

\* A dry run never moves the account, whatever closes the monitors decide on, and
\* whatever crashes and failing calls it meets.
THEOREM DryRunsAreDry == Spec => DryRunPlacesNothing
<1>1. Init => DryIdle
  BY DEF Init, DryIdle, OnTasks
<1>2. TypeOK /\ TasksConsistent /\ DryIdle /\ [Next]_vars => DryIdle'
  BY DryStep
<1>3. TypeOK /\ TasksConsistent /\ DryIdle /\ [Next]_vars
        => [DryRun => UNCHANGED exch \/ \E s \in Symbols : Liquidate(s)]_vars
  <2> SUFFICES ASSUME TypeOK, TasksConsistent, DryIdle, Next, DryRun
               PROVE  UNCHANGED exch \/ \E s \in Symbols : Liquidate(s)
    OBVIOUS
  <2>1. /\ \A t \in Tasks : pc[t] # "market"
        /\ \A o \in OrderIds : ~Rests(o)
    BY DEF DryIdle, TasksConsistent, Rests
  <2>2. QED
    BY <2>1 DEF Next, exchVars, ExchangeStep, Fill, Expire,
       ExecutorStep, Start, CancelAll, PlaceLimit, CancelLimit, GetStatus, PlaceMarket,
       FinishClose, FailClose, FinishOpen, AbandonOpen,
       MonitorStep, LockForClose, ForceUnlock, SignalStep, CheckOpen, Reverse, Open,
       ReconcilerStep, Snapshot, Apply, Correct, FindGhost, AdoptGhost, Prune,
          ListLocal, Rest,
       BootSync, BootCancel, Crash
<1>4. QED
  BY <1>1, <1>2, <1>3, TypeCorrect, PTL DEF Spec, DryRunPlacesNothing

----------------------------------------------------------------------------
(* max_positions *)

\* The symbols of the records this run of the program stored itself.
Own == {s \in HeldSymbols : positions[s].own}

\* While the main loop opens a position its slot is still free: only the main loop
\* opens, and it opens one position at a time.
SlotKept ==
    /\ Cardinality(Own) <= MaxPositions
    /\ \A t \in Tasks : cur[t] # NoJob /\ cur[t].kind = "open"
         => t = main /\ Cardinality(Own) < MaxPositions

LEMMA OwnFinite == IsFiniteSet(Own) /\ Own \subseteq Symbols /\ Cardinality(Own) \in Nat
  <1>1. Own \subseteq Symbols
    BY DEF Own, HeldSymbols
  <1>2. QED
    BY <1>1, SymbolsAssumption, FS_Subset, FS_CardinalityType

\* A step that gives no task an open order and adds no record of the program's own
\* keeps the slot.
LEMMA NoNewOwn ==
    ASSUME SlotKept, Own' \subseteq Own,
           \A t \in Tasks : cur'[t] # NoJob /\ cur'[t].kind = "open" => cur'[t] = cur[t]
    PROVE  SlotKept'
  <1>1. Cardinality(Own') <= Cardinality(Own) /\ Cardinality(Own') \in Nat /\ Cardinality(Own) \in Nat
    BY OwnFinite, FS_Subset, FS_CardinalityType
  <1>2. QED
    BY <1>1, BoundsAssumption DEF SlotKept

\* Records that are left alone, taken away or changed without a new one of the
\* program's own.
LEMMA OwnShrinks ==
    ASSUME \A s \in Symbols : positions'[s] # NoPosition /\ positions'[s].own
             => positions[s] # NoPosition /\ positions[s].own
    PROVE  Own' \subseteq Own
  BY DEF Own, HeldSymbols, Held

LEMMA SlotStep ==
    ASSUME TypeOK, TasksConsistent, SlotKept, [Next]_vars
    PROVE  SlotKept'
  <1> USE DEF exchVars, taskVars
  <1>0. main \in Tasks /\ \A b \in BOOLEAN : \A p \in Positions : [p EXCEPT !.closing = b].own = p.own
    BY DEF Tasks, Positions
  <1>1. CASE ExchangeStep
    BY <1>1, NoNewOwn, OwnShrinks DEF ExchangeStep, Fill, Expire, Liquidate
  <1>2. ASSUME NEW t \in Tasks, ExecutorStep(t) PROVE SlotKept'
    <2>1. CASE Start(t)
      <3>1. PICK j \in todo[t] : cur' = cur \/ cur' = [cur EXCEPT ![t] = j]
        BY <2>1 DEF Start
      <3>2. j.kind = "close"
        BY <3>1 DEF TasksConsistent
      <3>3. QED
        BY <2>1, <3>1, <3>2, NoNewOwn, OwnShrinks DEF Start, TypeOK
    <2>2. CASE CancelAll(t) \/ PlaceLimit(t) \/ CancelLimit(t) \/ GetStatus(t) \/ PlaceMarket(t)
      BY <2>2, NoNewOwn, OwnShrinks
         DEF CancelAll, PlaceLimit, CancelLimit, GetStatus, PlaceMarket
    <2>3. ASSUME Return(t), Own' \subseteq Own PROVE SlotKept'
      BY <2>3, NoNewOwn DEF Return, TypeOK
    <2>4. CASE FinishClose(t)
      BY <2>3, <2>4, OwnShrinks DEF FinishClose, TypeOK
    <2>5. CASE FailClose(t)
      <3> DEFINE r == cur[t].sym
                 Unlocked(p) == IF p = NoPosition THEN p ELSE [p EXCEPT !.closing = FALSE]
      <3>1. positions' = [positions EXCEPT ![r] = Unlocked(@)]
        BY <2>5 DEF FailClose
      <3>2. \A p \in Positions \cup {NoPosition} :
              Unlocked(p) # NoPosition /\ Unlocked(p).own => p # NoPosition /\ p.own
        BY <1>0
      <3> HIDE DEF Unlocked, r
      <3>3. Own' \subseteq Own
        BY <3>1, <3>2, OwnShrinks DEF TypeOK
      <3>4. QED
        BY <2>3, <2>5, <3>3 DEF FailClose
    <2>6. CASE FinishOpen(t)
      <3> DEFINE r == cur[t].sym
      <3>1. cur[t] \in Jobs /\ cur[t].kind = "open"
        <4>1. cur[t] \in Jobs
          BY <2>6 DEF FinishOpen, TypeOK, TasksConsistent
        <4>2. QED
          BY <2>6, <4>1 DEF FinishOpen, IsClose, Jobs
      <3>2. Cardinality(Own) < MaxPositions
        BY <3>1, NullsAssumption DEF SlotKept
      <3>3. Own' \subseteq Own \cup {r}
        BY <2>6 DEF FinishOpen, Own, HeldSymbols, Held, TypeOK
      <3>4. Cardinality(Own') <= Cardinality(Own \cup {r}) /\ Cardinality(Own \cup {r}) <= Cardinality(Own) + 1
        <4>1. IsFiniteSet(Own \cup {r}) /\ Cardinality(Own \cup {r}) <= Cardinality(Own) + 1
          BY OwnFinite, FS_AddElement
        <4>2. QED
          BY <3>3, <4>1, FS_Subset
      <3>5. Cardinality(Own') <= MaxPositions
        <4>1. Cardinality(Own') \in Nat /\ Cardinality(Own \cup {r}) \in Nat
          BY OwnFinite, FS_AddElement, FS_CardinalityType, FS_Subset, <3>3
        <4>2. QED
          BY <3>2, <3>4, <4>1, OwnFinite, BoundsAssumption
      <3>6. \A u \in Tasks : ~(cur'[u] # NoJob /\ cur'[u].kind = "open")
        BY <2>6, <3>1, NullsAssumption DEF FinishOpen, Return, SlotKept, TypeOK
      <3>7. QED
        BY <3>5, <3>6 DEF SlotKept
    <2>7. CASE AbandonOpen(t)
      BY <2>3, <2>7, OwnShrinks DEF AbandonOpen
    <2>8. QED
      BY <1>2, <2>1, <2>2, <2>4, <2>5, <2>6, <2>7 DEF ExecutorStep
  <1>3. ASSUME NEW s \in Symbols, NEW b \in BOOLEAN, Held(s),
               positions' = [positions EXCEPT ![s].closing = b], UNCHANGED cur
        PROVE  SlotKept'
    <2>1. positions[s] \in Positions
      BY <1>3 DEF Held, TypeOK
    <2>2. positions'[s].own = positions[s].own
      BY <1>0, <1>3, <2>1 DEF TypeOK
    <2>3. Own' \subseteq Own
      BY <1>3, <2>2, OwnShrinks DEF Held, TypeOK
    <2>4. QED
      BY <1>3, <2>3, NoNewOwn
  <1>4. CASE MonitorStep
    BY <1>3, <1>4 DEF MonitorStep, LockForClose, ForceUnlock
  <1>5. CASE SignalStep
    <2>1. CASE CheckOpen
      BY <1>0, <2>1, NoNewOwn, OwnShrinks DEF CheckOpen, Return, TypeOK
    <2>2. ASSUME NEW s \in Symbols, Reverse(s) PROVE SlotKept'
      BY <1>3, <2>2 DEF Reverse
    <2>3. ASSUME NEW s \in Symbols, Open(s) PROVE SlotKept'
      <3>1. Cardinality(HeldSymbols) < MaxPositions /\ UNCHANGED positions
        BY <2>3 DEF Open, SlotFree
      <3>2. IsFiniteSet(HeldSymbols) /\ Cardinality(HeldSymbols) \in Nat
        BY SymbolsAssumption, FS_Subset, FS_CardinalityType DEF HeldSymbols
      <3>3. Cardinality(Own) <= Cardinality(HeldSymbols)
        BY <3>2, FS_Subset DEF Own
      <3>4. Cardinality(Own) < MaxPositions
        BY <3>1, <3>2, <3>3, OwnFinite, BoundsAssumption
      <3>5. Own' = Own
        BY <3>1 DEF Own, HeldSymbols, Held
      <3>6. \A u \in Tasks : u # main => cur'[u] = cur[u]
        BY <2>3 DEF Open, TypeOK
      <3>7. QED
        BY <3>4, <3>5, <3>6 DEF SlotKept
    <2>4. QED
      BY <1>5, <2>1, <2>2, <2>3 DEF SignalStep
  <1>6. CASE ReconcilerStep
    <2>1. ASSUME NEW s \in Symbols, Apply(s) PROVE SlotKept'
      <3>1. Own' \subseteq Own
        <4>1. CASE Correct(s)
          <5>1. positions' = [positions EXCEPT ![s] = [@ EXCEPT !.amt = snap[s]]]
            BY <4>1 DEF Correct
          <5>2. Held(s) /\ [positions[s] EXCEPT !.amt = snap[s]].own = positions[s].own
            BY <4>1 DEF Correct, Held, Positions, TypeOK
          <5>3. QED
            BY <5>1, <5>2, OwnShrinks DEF Held, TypeOK
        <4>2. CASE FindGhost(s)
          BY <4>2, OwnShrinks DEF FindGhost
        <4>3. CASE AdoptGhost(s)
          BY <4>3, OwnShrinks DEF AdoptGhost, NewPosition, Held, TypeOK
        <4>4. QED
          BY <2>1, <4>1, <4>2, <4>3 DEF Apply
      <3>2. UNCHANGED cur
        BY <2>1 DEF Apply, Correct, FindGhost, AdoptGhost
      <3>3. QED
        BY <3>1, <3>2, NoNewOwn
    <2>2. ASSUME NEW s \in Symbols, Prune(s) PROVE SlotKept'
      BY <2>2, NoNewOwn, OwnShrinks DEF Prune, TypeOK
    <2>3. CASE Snapshot \/ ListLocal \/ Rest
      BY <2>3, NoNewOwn, OwnShrinks DEF Snapshot, ListLocal, Rest
    <2>4. QED
      BY <1>6, <2>1, <2>2, <2>3 DEF ReconcilerStep
  <1>7. CASE BootSync
    BY <1>7, NoNewOwn, OwnShrinks DEF BootSync, Adopted, NewPosition
  <1>8. CASE BootCancel
    BY <1>8, NoNewOwn, OwnShrinks DEF BootCancel
  <1>9. CASE Crash
    BY <1>9, NoNewOwn, OwnShrinks DEF Crash, OnSymbols, OnTasks
  <1>10. CASE UNCHANGED vars
    BY <1>10, NoNewOwn, OwnShrinks DEF vars
  <1>11. QED
    BY <1>1, <1>2, <1>4, <1>5, <1>6, <1>7, <1>8, <1>9, <1>10 DEF Next

LEMMA SlotInit == Init => SlotKept
  <1> SUFFICES ASSUME Init PROVE SlotKept
    OBVIOUS
  <1>1. Own = {}
    BY DEF Init, Own, HeldSymbols, Held, OnSymbols
  <1>2. Cardinality(Own) = 0
    BY <1>1, FS_EmptySet
  <1>3. QED
    BY <1>2, BoundsAssumption DEF Init, SlotKept, OnTasks

\* The program never has more positions of its own making than max_positions, though it
\* counts them before it awaits the balance and up to three order calls.
THEOREM LimitKept == Spec => []OpenedWithinLimit
<1>1. Init => SlotKept
  BY SlotInit
<1>2. TypeOK /\ TasksConsistent /\ SlotKept /\ [Next]_vars => SlotKept'
  BY SlotStep
<1>3. SlotKept => OpenedWithinLimit
  BY DEF SlotKept, OpenedWithinLimit, Own
<1>4. QED
  BY <1>1, <1>2, <1>3, TypeCorrect, PTL DEF Spec

----------------------------------------------------------------------------
(* Orphan orders *)

NoCallFails == mode \cap {"lostReply", "cancelFail", "restFail"} = {}

\* Once started, every resting order has a task that waits for it and comes back to
\* cancel it, and one that asks for the fill has cancelled it.  Until then there may
\* be orders of the process before, but no task gives any.
OrdersTended ==
    NoCallFails =>
        /\ boot = "up" => \A o \in OrderIds : Rests(o) => \E t \in Tasks : oid[t] = o
        /\ \A t \in Tasks : pc[t] = "status" => ~Rests(oid[t])
        /\ boot # "up" => \A t \in Tasks : pc[t] = "idle"

\* What a cancel leaves in the book.
LEMMA CancelledRests ==
    ASSUME TypeOK, NEW O, orders' = CancelledBook(O), NEW o \in OrderIds
    PROVE  Rests(o)' <=> Rests(o) /\ o \notin O
  <1>1. CASE o \in O /\ Rests(o)
    <2> DEFINE left == [orders[o] EXCEPT !.rem = 0]
    <2>1. orders[o] \in Orders
      BY <1>1 DEF TypeOK, Rests
    <2>2. left.rem = 0
      BY <2>1 DEF Orders
    <2>3. orders'[o] = Settled(o, left)
      BY <1>1 DEF CancelledBook
    <2> HIDE DEF left
    <2>4. orders'[o] = NoOrder \/ orders'[o].rem = 0
      BY <2>2, <2>3 DEF Settled
    <2>5. QED
      BY <1>1, <2>4 DEF Rests
  <1>2. CASE ~(o \in O /\ Rests(o))
    BY <1>2 DEF CancelledBook, Rests
  <1>3. QED
    BY <1>1, <1>2

\* A step that puts no order into the book and takes no task to "status".
LEMMA NothingPlaced ==
    ASSUME OrdersTended, NoCallFails, boot' = boot, oid' = oid,
           \A o \in OrderIds : Rests(o)' => Rests(o),
           \A t \in Tasks : oid[t] # NoId => oid[t] \in OrderIds,
           \A t \in Tasks : pc[t] \in {"cancel", "status"} <=> oid[t] # NoId,
           \A t \in Tasks : pc'[t] = "status" => pc[t] = "status",
           boot # "up" => pc' = pc
    PROVE  OrdersTended'
  BY DEF OrdersTended

LEMMA TendedStep ==
    ASSUME TypeOK, TasksConsistent, OrdersTended, [Next]_vars
    PROVE  OrdersTended'
  <1> SUFFICES ASSUME NoCallFails
               PROVE  OrdersTended'
    BY ModeStep DEF OrdersTended, NoCallFails
  <1> USE DEF exchVars, taskVars, countVars
  <1>0. /\ \A t \in Tasks : oid[t] # NoId => oid[t] \in OrderIds /\ orders[oid[t]] \in Orders
        /\ \A t \in Tasks : pc[t] \in {"cancel", "status"} <=> oid[t] # NoId
        /\ ~Fault("lostReply") /\ ~Fault("cancelFail") /\ ~Fault("restFail")
    BY DEF TypeOK, TasksConsistent, NoCallFails, Fault
  <1>1. ASSUME NEW t \in Tasks, pc[t] # "idle" PROVE boot = "up"
    BY <1>1 DEF OrdersTended
  <1>2. ASSUME UNCHANGED <<orders, oid, boot>>,
               \A t \in Tasks : pc'[t] = "status" => pc[t] = "status",
               boot # "up" => pc' = pc
        PROVE  OrdersTended'
    BY <1>0, <1>2, NothingPlaced DEF Rests
  <1>3. CASE ExchangeStep
    <2>1. ASSUME NEW o \in OrderIds, Fill(o) PROVE OrdersTended'
      <3>1. \A q \in OrderIds : Rests(q)' => Rests(q)
        BY <2>1 DEF Fill, Rests
      <3>2. QED
        BY <1>0, <2>1, <3>1, NothingPlaced DEF Fill
    <2>2. ASSUME NEW o \in OrderIds, Expire(o) PROVE OrdersTended'
      BY <1>0, <2>2, CancelledRests, NothingPlaced DEF Expire
    <2>3. ASSUME NEW s \in Symbols, Liquidate(s) PROVE OrdersTended'
      BY <1>2, <2>3 DEF Liquidate
    <2>4. QED
      BY <1>3, <2>1, <2>2, <2>3 DEF ExchangeStep
  <1>4. ASSUME NEW t \in Tasks, ExecutorStep(t) PROVE OrdersTended'
    <2>1. CASE Start(t)
      BY <1>2, <2>1 DEF Start, TypeOK
    <2>2. CASE CancelAll(t)
      <3>1. boot = "up"
        BY <1>1, <2>2 DEF CancelAll
      <3>2. pc'[t] # "status" /\ \A u \in Tasks : u # t => pc'[u] = pc[u]
        BY <2>2 DEF CancelAll, AfterCancelAll, TypeOK
      <3>3. QED
        BY <1>0, <2>2, <3>1, <3>2, CancelledRests, NothingPlaced DEF CancelAll
    <2>3. CASE PlaceLimit(t)
      <3>1. boot = "up" /\ boot' = "up" /\ oid[t] = NoId
        BY <1>0, <1>1, <2>3 DEF PlaceLimit
      <3>2. pc'[t] # "status" /\ \A u \in Tasks : u # t => pc'[u] = pc[u]
        BY <2>3 DEF PlaceLimit, TypeOK
      <3>3. CASE UNCHANGED <<orders, oid>>
        BY <1>2, <2>3, <3>1, <3>2, <3>3 DEF PlaceLimit
      <3>4. ASSUME NEW o \in OrderIds, Accept(t, o), oid' = [oid EXCEPT ![t] = o]
            PROVE  OrdersTended'
        <4>1. /\ oid'[t] = o
              /\ \A u \in Tasks : u # t => oid'[u] = oid[u]
          BY <3>4 DEF TypeOK
        <4>2. \A q \in OrderIds : q # o => orders'[q] = orders[q]
          BY <3>4 DEF Accept, TypeOK
        <4>3. \A u \in Tasks : oid[u] # o
          BY <3>4, NullsAssumption DEF Accept, TasksConsistent
        <4>4. \A q \in OrderIds : Rests(q)' => \E u \in Tasks : oid'[u] = q
          <5>1. ASSUME NEW q \in OrderIds, Rests(q)', q # o
                PROVE  \E u \in Tasks : oid'[u] = q
            <6>1. Rests(q)
              BY <4>2, <5>1 DEF Rests
            <6>2. PICK u \in Tasks : oid[u] = q
              BY <3>1, <6>1 DEF OrdersTended
            <6>3. u # t
              BY <3>1, <6>2, NullsAssumption
            <6>4. QED
              BY <4>1, <6>2, <6>3
          <5>2. QED
            BY <4>1, <5>1
        <4>5. \A u \in Tasks : pc'[u] = "status" => ~Rests(oid[u])' /\ oid'[u] = oid[u]
          <5>1. SUFFICES ASSUME NEW u \in Tasks, pc'[u] = "status"
                         PROVE  ~(orders'[oid[u]] # NoOrder /\ orders'[oid[u]].rem > 0)
                                /\ oid'[u] = oid[u]
            BY <4>1, <3>2 DEF Rests
          <5>2. u # t /\ pc[u] = "status" /\ oid[u] \in OrderIds
            BY <1>0, <3>2, <5>1
          <5>3. ~Rests(oid[u])
            BY <5>2 DEF OrdersTended
          <5>4. QED
            BY <4>1, <4>2, <4>3, <5>2, <5>3 DEF Rests
        <4>6. QED
          BY <3>1, <4>4, <4>5 DEF OrdersTended
      <3>5. QED
        BY <1>0, <2>3, <3>3, <3>4 DEF PlaceLimit
    <2>4. CASE CancelLimit(t)
      <3>1. boot = "up" /\ boot' = "up" /\ oid' = oid /\ orders' = CancelledBook({oid[t]})
        BY <1>0, <1>1, <2>4 DEF CancelLimit
      <3>2. \A o \in OrderIds : Rests(o)' <=> Rests(o) /\ o # oid[t]
        BY <3>1, CancelledRests
      <3>3. \A u \in Tasks : pc'[u] = "status" => u = t \/ pc[u] = "status"
        BY <2>4 DEF CancelLimit, TypeOK
      <3>4. \A u \in Tasks : pc'[u] = "status" => ~Rests(oid[u])'
        <4>1. SUFFICES ASSUME NEW u \in Tasks, pc'[u] = "status"
                       PROVE  ~Rests(oid[u])'
          OBVIOUS
        <4>2. oid[u] \in OrderIds /\ oid'[u] = oid[u]
          BY <1>0, <2>4, <3>1, <3>3, <4>1 DEF CancelLimit
        <4>3. u = t \/ ~Rests(oid[u])
          BY <3>3, <4>1 DEF OrdersTended
        <4>4. QED
          BY <3>2, <4>2, <4>3 DEF Rests
      <3>5. QED
        BY <3>1, <3>2, <3>4 DEF OrdersTended
    <2>5. CASE GetStatus(t)
      <3>1. boot = "up" /\ boot' = "up" /\ oid[t] \in OrderIds /\ ~Rests(oid[t])
        BY <1>0, <1>1, <2>5 DEF GetStatus, OrdersTended
      <3>2. /\ pc'[t] # "status" /\ \A u \in Tasks : u # t => pc'[u] = pc[u]
            /\ \A u \in Tasks : u # t => oid'[u] = oid[u]
        BY <2>5 DEF GetStatus, TypeOK
      <3>3. \A o \in OrderIds : Rests(o)' => Rests(o)
        BY <2>5, <3>1 DEF GetStatus, Rests, TypeOK
      <3>4. \A o \in OrderIds : Rests(o)' => \E u \in Tasks : oid'[u] = o
        BY <3>1, <3>2, <3>3 DEF OrdersTended
      <3>5. \A u \in Tasks : pc'[u] = "status" => ~Rests(oid[u])' /\ oid'[u] = oid[u]
        BY <1>0, <3>2, <3>3 DEF OrdersTended
      <3>6. QED
        BY <3>1, <3>4, <3>5 DEF OrdersTended
    <2>6. CASE PlaceMarket(t)
      BY <1>1, <1>2, <2>6 DEF PlaceMarket, TypeOK
    <2>7. CASE FinishClose(t) \/ FailClose(t) \/ FinishOpen(t) \/ AbandonOpen(t)
      BY <1>1, <1>2, <2>7 DEF FinishClose, FailClose, FinishOpen, AbandonOpen, Return, TypeOK
    <2>8. QED
      BY <1>4, <2>1, <2>2, <2>3, <2>4, <2>5, <2>6, <2>7 DEF ExecutorStep
  <1>5. CASE MonitorStep
    BY <1>2, <1>5 DEF MonitorStep, LockForClose, ForceUnlock
  <1>6. CASE SignalStep
    <2>1. CASE CheckOpen
      BY <1>1, <1>2, <2>1 DEF CheckOpen, Return, TypeOK, Tasks
    <2>2. ASSUME NEW s \in Symbols, Reverse(s) \/ Open(s) PROVE OrdersTended'
      BY <1>2, <2>2 DEF Reverse, Open, Ready, TypeOK, Tasks
    <2>3. QED
      BY <1>6, <2>1, <2>2 DEF SignalStep
  <1>7. CASE ReconcilerStep
    BY <1>2, <1>7 DEF ReconcilerStep, Snapshot, Apply, Correct, FindGhost, AdoptGhost, Prune,
       ListLocal, Rest
  <1>8. CASE BootSync
    BY <1>8 DEF BootSync, OrdersTended, Rests
  <1>9. CASE BootCancel
    <2>1. orders' = CancelledBook({o \in OrderIds : Rests(o) /\ orders[o].sym \in Symbols})
      BY <1>0, <1>9 DEF BootCancel
    <2>2. \A o \in OrderIds : ~Rests(o)'
      <3>1. \A o \in OrderIds : Rests(o) => orders[o].sym \in Symbols
        BY DEF TypeOK, Rests, Orders
      <3>2. QED
        BY <2>1, <3>1, CancelledRests
    <2>3. pc' = pc /\ \A t \in Tasks : pc[t] = "idle"
      BY <1>9 DEF BootCancel, OrdersTended
    <2>4. QED
      BY <1>9, <2>2, <2>3 DEF BootCancel, OrdersTended
  <1>10. CASE Crash
    BY <1>10 DEF Crash, OrdersTended, OnTasks
  <1>11. CASE UNCHANGED vars
    BY <1>2, <1>11 DEF vars
  <1>12. QED
    BY <1>3, <1>4, <1>5, <1>6, <1>7, <1>8, <1>9, <1>10, <1>11 DEF Next

\* As long as no call fails and no reply is lost, no order rests in the book that no
\* task will come back to, whatever crashes: start-up cancels what is left.
THEOREM NoOrphans == Spec => []NoOrphanOrders
<1>1. Init => OrdersTended
  BY DEF Init, OrdersTended, OnTasks
<1>2. TypeOK /\ TasksConsistent /\ OrdersTended /\ [Next]_vars => OrdersTended'
  BY TendedStep
<1>3. OrdersTended => NoOrphanOrders
  BY DEF OrdersTended, NoOrphanOrders, NoCallFails
<1>4. QED
  BY <1>1, <1>2, <1>3, TypeCorrect, PTL DEF Spec

----------------------------------------------------------------------------
(* The orders of a task *)

\* A task has at most one order for a symbol, queued or being executed.
OneOrderPerSymbol ==
    \A t \in Tasks :
        /\ \A j, k \in todo[t] : j.sym = k.sym => j = k
        /\ cur[t] # NoJob => \A j \in todo[t] : j.sym # cur[t].sym

\* While the program starts nothing works yet, and at first there are no records.
NothingWorksYet ==
    /\ boot # "up" => rpc = "idle" /\ \A t \in Tasks : pc[t] = "idle" /\ todo[t] = {}
    /\ boot = "sync" => \A s \in Symbols : ~Held(s)

OrdersInv == OneOrderPerSymbol /\ NothingWorksYet

LEMMA OrdersInit == Init => OrdersInv
  BY DEF Init, OrdersInv, OneOrderPerSymbol, NothingWorksYet, OnTasks, OnSymbols, Held

\* A step that gives no task a new order and takes none up.
LEMMA NoNewOrder ==
    ASSUME OneOrderPerSymbol,
           \A t \in Tasks : todo'[t] \subseteq todo[t] /\ cur'[t] \in {cur[t], NoJob}
    PROVE  OneOrderPerSymbol'
  BY DEF OneOrderPerSymbol

LEMMA OneOrderStep ==
    ASSUME TypeOK, TasksConsistent, OneOrderPerSymbol, [Next]_vars
    PROVE  OneOrderPerSymbol'
  <1> USE DEF exchVars, taskVars
  <1>1. ASSUME UNCHANGED <<todo, cur>> PROVE OneOrderPerSymbol'
    BY <1>1, NoNewOrder
  <1>2. CASE ExchangeStep
    BY <1>1, <1>2 DEF ExchangeStep, Fill, Expire, Liquidate
  <1>3. ASSUME NEW t \in Tasks, ExecutorStep(t) PROVE OneOrderPerSymbol'
    <2>1. CASE Start(t)
      <3>1. PICK j \in todo[t] :
              /\ todo' = [todo EXCEPT ![t] = @ \ {j}]
              /\ cur' = cur \/ cur' = [cur EXCEPT ![t] = j]
        BY <2>1 DEF Start
      <3>2. todo'[t] = todo[t] \ {j} /\ cur'[t] \in {cur[t], j}
        BY <3>1 DEF TypeOK
      <3>3. \A u \in Tasks : u # t => todo'[u] = todo[u] /\ cur'[u] = cur[u]
        BY <3>1 DEF TypeOK
      <3>4. QED
        BY <3>2, <3>3 DEF OneOrderPerSymbol
    <2>2. CASE CancelAll(t) \/ PlaceLimit(t) \/ CancelLimit(t) \/ GetStatus(t) \/ PlaceMarket(t)
      BY <1>1, <2>2 DEF CancelAll, PlaceLimit, CancelLimit, GetStatus, PlaceMarket
    <2>3. CASE Return(t)
      BY <2>3, NoNewOrder DEF Return, TypeOK
    <2>4. QED
      BY <1>3, <2>1, <2>2, <2>3 DEF ExecutorStep, FinishClose, FailClose, FinishOpen, AbandonOpen
  <1>4. ASSUME NEW t \in Tasks, NEW s \in Symbols, NEW j, j.sym = s, cur[t] = NoJob,
               ~Scanned(t, s), UNCHANGED cur, todo' = [todo EXCEPT ![t] = @ \cup {j}]
        PROVE  OneOrderPerSymbol'
    <2>1. todo'[t] = todo[t] \cup {j} /\ \A u \in Tasks : u # t => todo'[u] = todo[u]
      BY <1>4 DEF TypeOK
    <2>2. QED
      BY <1>4, <2>1 DEF OneOrderPerSymbol, Scanned
  <1>5. ASSUME NEW s \in Symbols, NEW reason PROVE CloseJob(s, reason).sym = s
    BY DEF CloseJob
  <1>6. CASE MonitorStep
    <2>1. ASSUME NEW s \in Symbols, NEW t \in {risk, sentinel}, LockForClose(t, s)
          PROVE  OneOrderPerSymbol'
      <3>1. t \in Tasks /\ cur[t] = NoJob /\ ~Scanned(t, s) /\ UNCHANGED cur
        BY <2>1 DEF LockForClose, TasksConsistent, Tasks
      <3>2. PICK reason : todo' = [todo EXCEPT ![t] = @ \cup {CloseJob(s, reason)}]
        BY <2>1 DEF LockForClose
      <3> DEFINE job == CloseJob(s, reason)
      <3>3. job.sym = s
        BY <1>5
      <3> HIDE DEF job
      <3>4. QED
        BY <1>4, <3>1, <3>2, <3>3 DEF job
    <2>2. QED
      BY <1>1, <1>6, <2>1 DEF MonitorStep, ForceUnlock
  <1>7. CASE SignalStep
    <2> main \in Tasks
      BY DEF Tasks
    <2>1. ASSUME NEW s \in Symbols, Reverse(s) PROVE OneOrderPerSymbol'
      <3>1. /\ cur[main] = NoJob /\ todo[main] = {} /\ UNCHANGED cur
            /\ todo' = [todo EXCEPT ![main] = {CloseJob(s, "exit")}]
        BY <2>1 DEF Reverse, Ready, TasksConsistent
      <3>2. QED
        BY <3>1 DEF OneOrderPerSymbol, TypeOK
    <2>2. ASSUME NEW s \in Symbols, Open(s) PROVE OneOrderPerSymbol'
      BY <2>2 DEF Open, Ready, OneOrderPerSymbol, TypeOK
    <2>3. CASE CheckOpen
      BY <1>1, <2>3, NoNewOrder DEF CheckOpen, Return, TypeOK
    <2>4. QED
      BY <1>7, <2>1, <2>2, <2>3 DEF SignalStep
  <1>8. CASE ReconcilerStep \/ BootSync \/ BootCancel \/ UNCHANGED vars
    BY <1>1, <1>8 DEF ReconcilerStep, Snapshot, Apply, Correct, FindGhost, AdoptGhost, Prune,
       ListLocal, Rest,
       BootSync, BootCancel, vars
  <1>9. CASE Crash
    BY <1>9 DEF Crash, OnTasks, OneOrderPerSymbol
  <1>10. QED
    BY <1>2, <1>3, <1>6, <1>7, <1>8, <1>9 DEF Next

LEMMA NothingWorksStep ==
    ASSUME TypeOK, TasksConsistent, NothingWorksYet, [Next]_vars
    PROVE  NothingWorksYet'
  <1> USE DEF exchVars, taskVars, countVars, NothingWorksYet
  <1>1. CASE ExchangeStep
    BY <1>1 DEF ExchangeStep, Fill, Expire, Liquidate, reconVars, Held
  <1>2. ASSUME NEW t \in Tasks, ExecutorStep(t) PROVE boot = "up" /\ boot' = "up"
    BY <1>2 DEF ExecutorStep, Start, CancelAll, PlaceLimit, CancelLimit, GetStatus, PlaceMarket,
       FinishClose, FailClose, FinishOpen, AbandonOpen
  <1>3. CASE MonitorStep \/ SignalStep
    <2>1. main \in Tasks
      BY DEF Tasks
    <2>2. boot = "up" /\ boot' = "up"
      BY <1>3, <2>1 DEF MonitorStep, LockForClose, ForceUnlock, SignalStep, CheckOpen, Reverse,
         Open, Ready
    <2>3. QED
      BY <2>2
  <1>4. CASE ReconcilerStep
    BY <1>4 DEF ReconcilerStep, Snapshot, Apply, Correct, FindGhost, AdoptGhost, Prune,
       ListLocal, Rest
  <1>5. CASE BootSync \/ BootCancel
    BY <1>5 DEF BootSync, BootCancel, reconVars
  <1>6. CASE Crash
    BY <1>6 DEF Crash, OnTasks, OnSymbols, Held
  <1>7. CASE UNCHANGED vars
    BY <1>7 DEF vars, reconVars, Held
  <1>8. QED
    BY <1>1, <1>2, <1>3, <1>4, <1>5, <1>6, <1>7 DEF Next

LEMMA OrdersAlways == Spec => [](TypeOK /\ TasksConsistent /\ OrdersInv)
<1>1. TypeOK /\ TasksConsistent /\ OrdersInv /\ [Next]_vars => OrdersInv'
  BY OneOrderStep, NothingWorksStep DEF OrdersInv
<1>2. QED
  BY <1>1, OrdersInit, TypeCorrect, PTL DEF Spec

----------------------------------------------------------------------------
(* The lock of a position is a lease *)

Leased(s) == Held(s) /\ positions[s].closing

\* A step that takes or drops no close order of s and leaves its lock alone.
LEMMA LeaseStays ==
    ASSUME NEW s \in Symbols, Leased(s)' <=> Leased(s),
           \A t \in Tasks : Closing(t, s)' <=> Closing(t, s)
    PROVE  LeaseMove(s)
  <1>1. Closers(s)' = Closers(s)
    BY DEF Closers
  <1>2. QED
    BY <1>1 DEF LeaseMove, LeaseOf!leaseVars, Leased

LEMMA LeaseLocked ==
    ASSUME TypeOK, NEW s \in Symbols, NEW r \in Symbols, NEW t \in Tasks, NEW j,
           Held(r), ~positions[r].closing, positions' = [positions EXCEPT ![r].closing = TRUE],
           j.sym = r, todo' = [todo EXCEPT ![t] = @ \cup {j}], UNCHANGED cur,
           ~Closing(t, r)
    PROVE  LeaseMove(s)
  <1>1. todo'[t] = todo[t] \cup {j} /\ \A u \in Tasks : u # t => todo'[u] = todo[u]
    BY DEF TypeOK
  <1>2. positions'[r] \in Positions /\ positions'[r].closing
    BY DEF TypeOK, Held, Positions
  <1>3. Closing(t, r)' /\ \A u \in Tasks : u # t => (Closing(u, s)' <=> Closing(u, s))
    BY <1>1 DEF Closing
  <1>4. CASE s = r
    <2>1. Closers(s)' = Closers(s) \cup {t} /\ t \notin Closers(s)
      BY <1>3, <1>4 DEF Closers
    <2>2. Leased(s)' /\ ~Leased(s)
      BY <1>2, <1>4, NullsAssumption DEF Leased, Held
    <2>3. LeaseOf(s)!Grant(t)
      BY <2>1, <2>2 DEF LeaseOf!Grant, Leased
    <2>4. QED
      BY <2>3 DEF LeaseMove
  <1>5. CASE s # r
    <2>1. Closing(t, s)' <=> Closing(t, s)
      BY <1>1, <1>5 DEF Closing
    <2>2. positions'[s] = positions[s]
      BY <1>5 DEF TypeOK
    <2>3. QED
      BY <1>3, <2>1, <2>2, LeaseStays DEF Leased, Held
  <1>6. QED
    BY <1>4, <1>5

\* Task t ends its close of r, and with it the lock.
LEMMA LeaseEnded ==
    ASSUME TypeOK, TasksConsistent, OneOrderPerSymbol, NEW s \in Symbols, NEW t \in Tasks,
           FinishClose(t) \/ FailClose(t)
    PROVE  LeaseMove(s)
  <1> DEFINE r == cur[t].sym
  <1>1. cur[t] \in Jobs /\ cur[t] # NoJob /\ cur[t].kind = "close" /\ Return(t) /\ r \in Symbols
    BY DEF FinishClose, FailClose, IsClose, TypeOK, TasksConsistent, Jobs
  <1>2. cur'[t] = NoJob /\ todo' = todo /\ \A u \in Tasks : u # t => cur'[u] = cur[u]
    BY <1>1 DEF Return, TypeOK
  <1>3. /\ Closing(t, r)
        /\ \A u \in Tasks : Closing(u, s)' <=> Closing(u, s) /\ ~(u = t /\ s = r)
    BY <1>1, <1>2 DEF Closing, OneOrderPerSymbol
  <1>4. positions'[r] = NoPosition \/ ~positions'[r].closing
    <2>1. CASE FinishClose(t)
      BY <1>1, <2>1 DEF FinishClose, TypeOK
    <2>2. CASE FailClose(t)
      <3> DEFINE Unlocked(p) == IF p = NoPosition THEN p ELSE [p EXCEPT !.closing = FALSE]
      <3>1. positions'[r] = Unlocked(positions[r])
        BY <1>1, <2>2 DEF FailClose, TypeOK
      <3>2. positions[r] \in Positions \cup {NoPosition}
        BY <1>1 DEF TypeOK
      <3>3. QED
        BY <3>1, <3>2 DEF Positions
    <2>3. QED
      BY <2>1, <2>2
  <1>5. CASE s = r
    <2>1. t \in Closers(s) /\ Closers(s)' = Closers(s) \ {t}
      BY <1>3, <1>5 DEF Closers
    <2>2. ~Leased(s)'
      BY <1>4, <1>5 DEF Leased, Held
    <2>3. LeaseOf(s)!Return(t)
      BY <2>1, <2>2 DEF LeaseOf!Return, Leased
    <2>4. QED
      BY <2>3 DEF LeaseMove
  <1>6. CASE s # r
    <2>1. positions'[s] = positions[s]
      BY <1>6 DEF FinishClose, FailClose, TypeOK
    <2>2. QED
      BY <1>3, <1>6, <2>1, LeaseStays DEF Leased, Held
  <1>7. QED
    BY <1>5, <1>6

LEMMA LeaseExecutor ==
    ASSUME TypeOK, TasksConsistent, OrdersInv, SlotKept, NEW s \in Symbols,
           NEW t \in Tasks, ExecutorStep(t)
    PROVE  LeaseMove(s)
  <1>1. CASE Start(t)
    <2>1. PICK j \in todo[t] :
            /\ todo' = [todo EXCEPT ![t] = @ \ {j}]
            /\ (DryRun /\ cur' = cur) \/ cur' = [cur EXCEPT ![t] = j]
      BY <1>1 DEF Start
    <2>2. cur[t] = NoJob /\ j \in Jobs /\ j.kind = "close" /\ UNCHANGED positions
      BY <1>1 DEF Start, TypeOK, TasksConsistent
    <2>3. /\ todo'[t] = todo[t] \ {j}
          /\ \A u \in Tasks : u # t => todo'[u] = todo[u] /\ cur'[u] = cur[u]
      BY <2>1 DEF TypeOK
    <2>4. \A u \in Tasks : u # t => (Closing(u, s)' <=> Closing(u, s))
      BY <2>3 DEF Closing
    <2>5. CASE cur'[t] = j
      <3>1. Closing(t, s)' <=> Closing(t, s)
        BY <2>2, <2>3, <2>5, NullsAssumption DEF Closing
      <3>2. QED
        BY <2>2, <2>4, <3>1, LeaseStays DEF Leased, Held
    <2>6. CASE DryRun /\ cur' = cur /\ j.sym = s
      <3>1. Closing(t, s) /\ ~Closing(t, s)'
        BY <2>2, <2>3, <2>6 DEF Closing, OrdersInv, OneOrderPerSymbol
      <3>2. t \in Closers(s) /\ Closers(s)' = Closers(s) \ {t}
        BY <2>4, <3>1 DEF Closers
      <3>3. LeaseOf(s)!Abandon(t)
        BY <2>2, <3>2 DEF LeaseOf!Abandon, Held
      <3>4. QED
        BY <2>6, <3>3 DEF LeaseMove
    <2>7. CASE cur' = cur /\ j.sym # s
      <3>1. Closing(t, s)' <=> Closing(t, s)
        BY <2>3, <2>7 DEF Closing
      <3>2. QED
        BY <2>2, <2>4, <3>1, LeaseStays DEF Leased, Held
    <2>8. QED
      BY <2>1, <2>5, <2>6, <2>7 DEF TypeOK
  <1>2. CASE CancelAll(t) \/ PlaceLimit(t) \/ CancelLimit(t) \/ GetStatus(t) \/ PlaceMarket(t)
    BY <1>2, LeaseStays DEF CancelAll, PlaceLimit, CancelLimit, GetStatus, PlaceMarket,
       Leased, Held, Closing
  <1>3. CASE FinishClose(t) \/ FailClose(t)
    BY <1>3, LeaseEnded DEF OrdersInv
  <1>4. ASSUME FinishOpen(t) \/ AbandonOpen(t)
        PROVE  /\ \A u \in Tasks : Closing(u, s)' <=> Closing(u, s)
               /\ cur[t] \in Jobs /\ t = main
    <2>1. cur[t] \in Jobs /\ cur[t] # NoJob /\ cur[t].kind = "open" /\ Return(t)
      BY <1>4 DEF FinishOpen, AbandonOpen, IsClose, TypeOK, TasksConsistent, Jobs
    <2>2. cur'[t] = NoJob /\ todo' = todo /\ \A u \in Tasks : u # t => cur'[u] = cur[u]
      BY <2>1 DEF Return, TypeOK
    <2>3. QED
      BY <2>1, <2>2 DEF Closing, SlotKept
  <1>5. CASE AbandonOpen(t)
    BY <1>4, <1>5, LeaseStays DEF AbandonOpen, Leased, Held
  <1>6. CASE FinishOpen(t) /\ cur[t].sym = s
    <2>1. positions'[s] = NewPosition(Opened(t), TRUE)
      BY <1>6 DEF FinishOpen, TypeOK
    <2>2. ~Leased(s)'
      BY <2>1 DEF Leased, NewPosition
    <2>3. Closers(s)' = Closers(s)
      BY <1>4, <1>6 DEF Closers
    <2>4. LeaseOf(s)!Break
      BY <2>2, <2>3 DEF LeaseOf!Break, Leased
    <2>5. QED
      BY <1>4, <1>6, <2>4 DEF LeaseMove, Breaks
  <1>7. CASE FinishOpen(t) /\ cur[t].sym # s
    <2>1. positions'[s] = positions[s]
      BY <1>7 DEF FinishOpen, TypeOK
    <2>2. QED
      BY <1>4, <1>7, <2>1, LeaseStays DEF Leased, Held
  <1>8. QED
    BY <1>1, <1>2, <1>3, <1>5, <1>6, <1>7 DEF ExecutorStep

LEMMA LeaseStep ==
    ASSUME TypeOK, TasksConsistent, OrdersInv, SlotKept, Next, NEW s \in Symbols
    PROVE  LeaseMove(s)
  <1> USE DEF exchVars, taskVars
  <1>1. ASSUME UNCHANGED <<positions, todo, cur>> PROVE LeaseMove(s)
    BY <1>1, LeaseStays DEF Leased, Held, Closing
  <1>2. CASE ExchangeStep
    BY <1>1, <1>2 DEF ExchangeStep, Fill, Expire, Liquidate
  <1>3. ASSUME NEW t \in Tasks, ExecutorStep(t) PROVE LeaseMove(s)
    BY <1>3, LeaseExecutor
  <1>4. CASE MonitorStep
    <2>1. ASSUME NEW r \in Symbols, NEW t \in {risk, sentinel}, LockForClose(t, r)
          PROVE  LeaseMove(s)
      <3>1. t \in Tasks /\ cur[t] = NoJob /\ ~Scanned(t, r) /\ UNCHANGED cur
        BY <2>1 DEF LockForClose, TasksConsistent, Tasks
      <3>2. ~Closing(t, r)
        BY <3>1 DEF Closing, Scanned
      <3>3. PICK reason : todo' = [todo EXCEPT ![t] = @ \cup {CloseJob(r, reason)}]
        BY <2>1 DEF LockForClose
      <3> DEFINE job == CloseJob(r, reason)
      <3>4. job.sym = r
        BY DEF CloseJob
      <3> HIDE DEF job
      <3>5. QED
        BY <2>1, <3>1, <3>2, <3>3, <3>4, LeaseLocked DEF LockForClose, job
    <2>2. ASSUME NEW r \in Symbols, ForceUnlock(r) PROVE LeaseMove(s)
      <3>1. positions'[r] \in Positions /\ ~positions'[r].closing
        BY <2>2 DEF ForceUnlock, Held, TypeOK, Positions
      <3>2. \A u \in Tasks : Closing(u, s)' <=> Closing(u, s)
        BY <2>2 DEF ForceUnlock, Closing
      <3>3. CASE s = r
        <4>1. Closers(s)' = Closers(s) /\ ~Leased(s)'
          BY <3>1, <3>2, <3>3 DEF Closers, Leased
        <4>2. LeaseOf(s)!Break
          BY <4>1 DEF LeaseOf!Break, Leased
        <4>3. QED
          BY <2>2, <3>3, <4>2 DEF LeaseMove, Breaks
      <3>4. CASE s # r
        <4>1. positions'[s] = positions[s]
          BY <2>2, <3>4 DEF ForceUnlock, TypeOK
        <4>2. QED
          BY <3>2, <4>1, LeaseStays DEF Leased, Held
      <3>5. QED
        BY <3>3, <3>4
    <2>3. QED
      BY <1>4, <2>1, <2>2 DEF MonitorStep
  <1>5. CASE SignalStep
    <2> main \in Tasks
      BY DEF Tasks
    <2>1. ASSUME NEW r \in Symbols, Reverse(r) PROVE LeaseMove(s)
      <3>1. cur[main] = NoJob /\ todo[main] = {} /\ UNCHANGED cur
        BY <2>1 DEF Reverse, Ready, TasksConsistent
      <3> DEFINE job == CloseJob(r, "exit")
      <3>2. job.sym = r
        BY DEF CloseJob
      <3> HIDE DEF job
      <3>3. todo' = [todo EXCEPT ![main] = @ \cup {job}]
        BY <2>1, <3>1 DEF Reverse, job
      <3>4. ~Closing(main, r)
        BY <3>1 DEF Closing
      <3>5. QED
        BY <2>1, <3>1, <3>2, <3>3, <3>4, LeaseLocked DEF Reverse
    <2>2. ASSUME NEW r \in Symbols, Open(r) PROVE LeaseMove(s)
      <3>1. /\ UNCHANGED <<positions, todo>> /\ cur[main] = NoJob
            /\ cur'[main].kind = "open" /\ \A u \in Tasks : u # main => cur'[u] = cur[u]
        BY <2>2 DEF Open, Ready, TypeOK, TasksConsistent
      <3>2. \A u \in Tasks : Closing(u, s)' <=> Closing(u, s)
        BY <3>1 DEF Closing
      <3>3. QED
        BY <3>1, <3>2, LeaseStays DEF Leased, Held
    <2>3. CASE CheckOpen
      <3>1. /\ UNCHANGED <<positions, todo>> /\ cur[main].kind = "open"
            /\ cur'[main] \in {cur[main], NoJob}
            /\ \A u \in Tasks : u # main => cur'[u] = cur[u]
        BY <2>3 DEF CheckOpen, Return, TypeOK, TasksConsistent
      <3>2. \A u \in Tasks : Closing(u, s)' <=> Closing(u, s)
        BY <3>1 DEF Closing
      <3>3. QED
        BY <3>1, <3>2, LeaseStays DEF Leased, Held
    <2>4. QED
      BY <1>5, <2>1, <2>2, <2>3 DEF SignalStep
  <1>6. CASE ReconcilerStep
    <2>1. ASSUME NEW r \in Symbols, Apply(r) PROVE LeaseMove(s)
      <3>1. /\ \A u \in Tasks : Closing(u, s)' <=> Closing(u, s)
            /\ snap[r] \in Int
        BY <2>1 DEF Apply, Correct, FindGhost, AdoptGhost, Closing, TypeOK
      <3>2. CASE Correct(r)
        <4> DEFINE p == [positions[r] EXCEPT !.amt = snap[r]]
        <4>1. p # NoPosition /\ p.closing = positions[r].closing
          BY <3>1, <3>2, NullsAssumption DEF Correct, Held, TypeOK, Positions
        <4>2. positions' = [positions EXCEPT ![r] = p]
          BY <3>2 DEF Correct
        <4> HIDE DEF p
        <4>3. Leased(s)' <=> Leased(s)
          BY <3>2, <4>1, <4>2 DEF Correct, Leased, Held, TypeOK
        <4>4. QED
          BY <3>1, <4>3, LeaseStays
      <3>3. CASE FindGhost(r)
        BY <1>1, <3>3 DEF FindGhost
      <3>4. CASE AdoptGhost(r) /\ s = r
        <4>1. positions'[s] = NewPosition(snap[s], FALSE)
          BY <3>4 DEF AdoptGhost, TypeOK
        <4>2. Closers(s)' = Closers(s) /\ ~Leased(s)'
          BY <3>1, <4>1 DEF Closers, Leased, NewPosition
        <4>3. LeaseOf(s)!Break \/ ~Leased(s)
          BY <4>2 DEF LeaseOf!Break, Leased
        <4>4. CASE ~Leased(s)
          BY <3>1, <4>2, <4>4, LeaseStays
        <4>5. CASE LeaseOf(s)!Break
          BY <3>4, <4>5 DEF LeaseMove, Breaks
        <4>6. QED
          BY <4>3, <4>4, <4>5
      <3>5. CASE AdoptGhost(r) /\ s # r
        <4>1. positions'[s] = positions[s]
          BY <3>5 DEF AdoptGhost, TypeOK
        <4>2. QED
          BY <3>1, <4>1, LeaseStays DEF Leased, Held
      <3>6. QED
        BY <2>1, <3>2, <3>3, <3>4, <3>5 DEF Apply
    <2>2. ASSUME NEW r \in Symbols, Prune(r) PROVE LeaseMove(s)
      <3>1. \A u \in Tasks : Closing(u, s)' <=> Closing(u, s)
        BY <2>2 DEF Prune, Closing
      <3>2. CASE positions'[s] = positions[s]
        BY <3>1, <3>2, LeaseStays DEF Leased, Held
      <3>3. CASE s = r /\ positions'[s] = NoPosition
        <4>1. Closers(s)' = Closers(s) /\ ~Leased(s)'
          BY <3>1, <3>3 DEF Closers, Leased, Held
        <4>2. LeaseOf(s)!Break
          BY <4>1 DEF LeaseOf!Break, Leased
        <4>3. QED
          BY <2>2, <3>3, <4>2 DEF LeaseMove, Breaks
      <3>4. QED
        BY <2>2, <3>2, <3>3 DEF Prune, TypeOK
    <2>3. CASE Snapshot \/ ListLocal \/ Rest
      BY <1>1, <2>3 DEF Snapshot, ListLocal, Rest
    <2>4. QED
      BY <1>6, <2>1, <2>2, <2>3 DEF ReconcilerStep
  <1>7. CASE BootSync
    <2>1. ~Leased(s)
      BY <1>7 DEF BootSync, OrdersInv, NothingWorksYet, Leased
    <2>2. ~Leased(s)'
      BY <1>7, <2>1 DEF BootSync, Adopted, NewPosition, Leased, Held
    <2>3. QED
      BY <1>7, <2>1, <2>2, LeaseStays DEF BootSync, Closing
  <1>8. CASE BootCancel
    BY <1>1, <1>8 DEF BootCancel
  <1>9. CASE Crash
    <2>1. Closers(s)' = {} /\ ~Leased(s)'
      BY <1>9 DEF Crash, OnTasks, OnSymbols, Closers, Closing, Leased, Held
    <2>2. LeaseOf(s)!Restart
      BY <2>1 DEF LeaseOf!Restart, Leased
    <2>3. QED
      BY <1>9, <2>2 DEF LeaseMove
  <1>10. QED
    BY <1>2, <1>3, <1>4, <1>5, <1>6, <1>7, <1>8, <1>9 DEF Next

\* The lock of each record is a lease on its position: given to a task only while it is
\* free, given back by the end of that task's close, and otherwise only broken by the
\* Sentinel's time-out, by the reconciler, by a new record of the symbol or by a crash.
THEOREM LocksAreLeases == Spec => KeepsLeases
<1>1. Init => \A s \in Symbols : LeaseOf(s)!LeaseInit
  BY DEF Init, LeaseOf!LeaseInit, Closers, Closing, Held, OnTasks, OnSymbols
<1>2. TypeOK /\ TasksConsistent /\ OrdersInv /\ SlotKept /\ [Next]_vars
        => [\A s \in Symbols : LeaseMove(s)]_vars
  BY LeaseStep
<1>3. TypeOK /\ TasksConsistent /\ SlotKept /\ [Next]_vars => SlotKept'
  BY SlotStep
<1>4. Init => SlotKept
  BY SlotInit
<1>5. QED
  BY <1>1, <1>2, <1>3, <1>4, OrdersAlways, PTL DEF Spec, KeepsLeases

----------------------------------------------------------------------------
(* One close per position *)

\* No close outlasts the time-out of its lock, and the reconciler is at rest.
Undisturbed == mode \cap {"slowClose", "reconciler"} = {}

\* The orders task t has to execute or is executing.
JobsOf(t) == todo[t] \cup ({cur[t]} \ {NoJob})

\* Two tasks have no orders for the same symbol; a close order is there only behind the
\* lock of its record, an open order only while there is no record.
JobsExclusive ==
    /\ \A t, u \in Tasks : \A j \in JobsOf(t), k \in JobsOf(u) : j.sym = k.sym => t = u
    /\ \A t \in Tasks : \A j \in JobsOf(t) :
         IF j.kind = "close" THEN Leased(j.sym) ELSE ~Held(j.sym)
    /\ rpc = "idle"

NoJobFor(s) == \A t \in Tasks : \A j \in JobsOf(t) : j.sym # s

LEMMA JobSymbols ==
    ASSUME TypeOK, NEW t \in Tasks, NEW j \in JobsOf(t)
    PROVE  j \in Jobs /\ j.sym \in Symbols
  BY DEF JobsOf, TypeOK, Jobs

\* A step that adds no order and changes no record somebody still has an order for.
LEMMA ExclusiveKept ==
    ASSUME TypeOK, JobsExclusive, rpc' = rpc,
           \A t \in Tasks : JobsOf(t)' \subseteq JobsOf(t),
           \A t \in Tasks : \A j \in JobsOf(t)' : positions'[j.sym] = positions[j.sym]
    PROVE  JobsExclusive'
  BY DEF JobsExclusive, Leased, Held

\* Nobody has an order for a record that is not locked.
LEMMA UnlockedUnused ==
    ASSUME TypeOK, JobsExclusive, NEW s \in Symbols, Held(s), ~positions[s].closing
    PROVE  NoJobFor(s)
  BY DEF JobsExclusive, NoJobFor, Leased

\* A task that is done with its order leaves none for the symbol.
LEMMA DoneJobs ==
    ASSUME TypeOK, OneOrderPerSymbol, JobsExclusive, NEW t \in Tasks, cur[t] # NoJob, Return(t)
    PROVE  /\ \A u \in Tasks : JobsOf(u)' \subseteq JobsOf(u)
           /\ \A u \in Tasks : \A j \in JobsOf(u)' : j.sym # cur[t].sym
  <1>1. cur'[t] = NoJob /\ todo' = todo /\ \A u \in Tasks : u # t => cur'[u] = cur[u]
    BY DEF Return, TypeOK
  <1>2. \A u \in Tasks : JobsOf(u)' \subseteq JobsOf(u)
    BY <1>1 DEF JobsOf
  <1>3. cur[t] \in JobsOf(t)
    BY DEF JobsOf
  <1>4. ASSUME NEW u \in Tasks, NEW j \in JobsOf(u)', j.sym = cur[t].sym PROVE FALSE
    <2>1. u = t
      BY <1>2, <1>3, <1>4 DEF JobsExclusive
    <2>2. j \in todo[t]
      BY <1>1, <1>4, <2>1 DEF JobsOf
    <2>3. QED
      BY <1>4, <2>2 DEF OneOrderPerSymbol
  <1>5. QED
    BY <1>2, <1>4

\* An order for a symbol nobody has an order for.
LEMMA ExclusiveAdded ==
    ASSUME TypeOK, JobsExclusive, NEW s \in Symbols, NoJobFor(s), NEW t \in Tasks, NEW job,
           job.sym = s, JobsOf(t)' = JobsOf(t) \cup {job}, rpc' = rpc,
           \A u \in Tasks : u # t => JobsOf(u)' = JobsOf(u),
           \A r \in Symbols : r # s => positions'[r] = positions[r],
           IF job.kind = "close" THEN Leased(s)' ELSE ~Held(s)'
    PROVE  JobsExclusive'
  <1>1. ASSUME NEW u \in Tasks, NEW v \in Tasks, NEW j \in JobsOf(u)', NEW k \in JobsOf(v)',
               j.sym = k.sym
        PROVE  u = v
    <2>1. CASE j \in JobsOf(u) /\ k \in JobsOf(v)
      BY <1>1, <2>1 DEF JobsExclusive
    <2>2. CASE j \notin JobsOf(u)
      BY <1>1, <2>2 DEF NoJobFor
    <2>3. CASE k \notin JobsOf(v)
      BY <1>1, <2>3 DEF NoJobFor
    <2>4. QED
      BY <2>1, <2>2, <2>3
  <1>2. ASSUME NEW u \in Tasks, NEW j \in JobsOf(u)'
        PROVE  IF j.kind = "close" THEN Leased(j.sym)' ELSE ~Held(j.sym)'
    <2>1. CASE j \in JobsOf(u)
      <3>1. j.sym \in Symbols /\ j.sym # s
        BY <2>1, JobSymbols DEF NoJobFor
      <3>2. positions'[j.sym] = positions[j.sym]
        BY <3>1
      <3>3. QED
        BY <2>1, <3>2 DEF JobsExclusive, Leased, Held
    <2>2. CASE j \notin JobsOf(u)
      <3>1. u = t /\ j = job
        BY <1>2, <2>2
      <3>2. QED
        BY <3>1
    <2>3. QED
      BY <2>1, <2>2
  <1>3. QED
    BY <1>1, <1>2 DEF JobsExclusive

LEMMA ExclusiveLocked ==
    ASSUME TypeOK, TasksConsistent, JobsExclusive, NEW s \in Symbols, NEW t \in Tasks, NEW job,
           cur[t] = NoJob, Held(s), ~positions[s].closing, job.sym = s, job.kind = "close",
           positions' = [positions EXCEPT ![s].closing = TRUE],
           todo' = [todo EXCEPT ![t] = @ \cup {job}], UNCHANGED <<cur, rpc>>
    PROVE  JobsExclusive'
  <1>1. /\ todo'[t] = todo[t] \cup {job} /\ cur'[t] = NoJob
        /\ \A u \in Tasks : u # t => todo'[u] = todo[u] /\ cur'[u] = cur[u]
    BY DEF TypeOK
  <1>2. /\ JobsOf(t)' = JobsOf(t) \cup {job}
        /\ \A u \in Tasks : u # t => JobsOf(u)' = JobsOf(u)
    BY <1>1 DEF JobsOf
  <1>3. positions'[s] \in Positions /\ positions'[s].closing
    BY DEF Held, TypeOK, Positions
  <1>4. Leased(s)'
    BY <1>3, NullsAssumption DEF Leased, Held
  <1>5. \A r \in Symbols : r # s => positions'[r] = positions[r]
    BY DEF TypeOK
  <1>6. QED
    BY <1>2, <1>4, <1>5, UnlockedUnused, ExclusiveAdded

LEMMA ExclusiveExecutor ==
    ASSUME TypeOK, TasksConsistent, OrdersInv, JobsExclusive, NEW t \in Tasks, ExecutorStep(t)
    PROVE  JobsExclusive'
  <1> USE DEF exchVars, reconVars, countVars
  <1>1. CASE Start(t)
    <2>1. PICK j \in todo[t] :
            /\ todo' = [todo EXCEPT ![t] = @ \ {j}]
            /\ cur' = cur \/ cur' = [cur EXCEPT ![t] = j]
      BY <1>1 DEF Start
    <2>2. UNCHANGED <<positions, rpc>>
      BY <1>1 DEF Start
    <2>3. /\ todo'[t] = todo[t] \ {j} /\ cur'[t] \in {cur[t], j}
          /\ \A u \in Tasks : u # t => todo'[u] = todo[u] /\ cur'[u] = cur[u]
      BY <2>1 DEF TypeOK
    <2>4. \A u \in Tasks : JobsOf(u)' \subseteq JobsOf(u)
      BY <2>3 DEF JobsOf
    <2>5. QED
      BY <2>2, <2>4, ExclusiveKept
  <1>2. CASE CancelAll(t) \/ PlaceLimit(t) \/ CancelLimit(t) \/ GetStatus(t) \/ PlaceMarket(t)
    <2>1. UNCHANGED <<positions, rpc, todo, cur>>
      BY <1>2 DEF CancelAll, PlaceLimit, CancelLimit, GetStatus, PlaceMarket
    <2>2. QED
      BY <2>1, ExclusiveKept DEF JobsOf
  <1>3. CASE FinishClose(t) \/ FailClose(t) \/ FinishOpen(t) \/ AbandonOpen(t)
    <2>1. cur[t] # NoJob /\ Return(t) /\ rpc' = rpc
      BY <1>3 DEF FinishClose, FailClose, FinishOpen, AbandonOpen, TasksConsistent
    <2>2. \A r \in Symbols : r # cur[t].sym => positions'[r] = positions[r]
      BY <1>3 DEF FinishClose, FailClose, FinishOpen, AbandonOpen, TypeOK
    <2>3. /\ \A u \in Tasks : JobsOf(u)' \subseteq JobsOf(u)
          /\ \A u \in Tasks : \A j \in JobsOf(u)' : j.sym # cur[t].sym
      BY <2>1, DoneJobs DEF OrdersInv
    <2>4. \A u \in Tasks : \A j \in JobsOf(u)' : positions'[j.sym] = positions[j.sym]
      BY <2>2, <2>3, JobSymbols
    <2>5. QED
      BY <2>1, <2>3, <2>4, ExclusiveKept
  <1>4. QED
    BY <1>1, <1>2, <1>3 DEF ExecutorStep

LEMMA ExclusiveStep ==
    ASSUME TypeOK, TasksConsistent, OrdersInv, SlotKept, Undisturbed, JobsExclusive, [Next]_vars
    PROVE  JobsExclusive'
  <1> USE DEF exchVars, taskVars, reconVars, countVars
  <1>1. ASSUME UNCHANGED <<positions, rpc, todo, cur>> PROVE JobsExclusive'
    BY <1>1, ExclusiveKept DEF JobsOf
  <1>2. CASE ExchangeStep
    BY <1>1, <1>2 DEF ExchangeStep, Fill, Expire, Liquidate
  <1>3. CASE \E t \in Tasks : ExecutorStep(t)
    BY <1>3, ExclusiveExecutor
  <1>4. CASE MonitorStep
    <2>1. ASSUME NEW s \in Symbols, NEW t \in {risk, sentinel}, LockForClose(t, s)
          PROVE  JobsExclusive'
      <3>1. t \in Tasks /\ cur[t] = NoJob /\ UNCHANGED <<cur, rpc>>
        BY <2>1 DEF LockForClose, TasksConsistent, Tasks
      <3>2. PICK reason : todo' = [todo EXCEPT ![t] = @ \cup {CloseJob(s, reason)}]
        BY <2>1 DEF LockForClose
      <3> DEFINE job == CloseJob(s, reason)
      <3>3. job.sym = s /\ job.kind = "close"
        BY DEF CloseJob
      <3> HIDE DEF job
      <3>4. QED
        BY <2>1, <3>1, <3>2, <3>3, ExclusiveLocked DEF LockForClose, job
    <2>2. ASSUME NEW s \in Symbols, ForceUnlock(s) PROVE JobsExclusive'
      <3>1. /\ Held(s) /\ \A t \in Tasks : ~Closing(t, s)
            /\ UNCHANGED <<todo, cur, rpc>>
            /\ \A r \in Symbols : r # s => positions'[r] = positions[r]
        BY <2>2 DEF ForceUnlock, Undisturbed, Fault, TypeOK
      <3>2. NoJobFor(s)
        <4> SUFFICES ASSUME NEW t \in Tasks, NEW j \in JobsOf(t), j.sym = s PROVE FALSE
          BY DEF NoJobFor
        <4>1. j = cur[t] /\ j # NoJob
          BY <3>1 DEF JobsOf, Closing
        <4>2. j.kind # "close"
          BY <3>1, <4>1 DEF Closing
        <4>3. QED
          BY <3>1, <4>2 DEF JobsExclusive
      <3>3. \A t \in Tasks : JobsOf(t)' = JobsOf(t)
        BY <3>1 DEF JobsOf
      <3>4. \A t \in Tasks : \A j \in JobsOf(t) : positions'[j.sym] = positions[j.sym]
        BY <3>1, <3>2, JobSymbols DEF NoJobFor
      <3>5. QED
        BY <3>1, <3>3, <3>4, ExclusiveKept
    <2>3. QED
      BY <1>4, <2>1, <2>2 DEF MonitorStep
  <1>5. CASE SignalStep
    <2> main \in Tasks
      BY DEF Tasks
    <2>1. ASSUME NEW s \in Symbols, Reverse(s) PROVE JobsExclusive'
      <3>1. cur[main] = NoJob /\ todo[main] = {} /\ UNCHANGED <<cur, rpc>>
        BY <2>1 DEF Reverse, Ready, TasksConsistent
      <3> DEFINE job == CloseJob(s, "exit")
      <3>2. job.sym = s /\ job.kind = "close"
        BY DEF CloseJob
      <3> HIDE DEF job
      <3>3. todo' = [todo EXCEPT ![main] = @ \cup {job}]
        BY <2>1, <3>1 DEF Reverse, job
      <3>4. QED
        BY <2>1, <3>1, <3>2, <3>3, ExclusiveLocked DEF Reverse
    <2>2. ASSUME NEW s \in Symbols, Open(s) PROVE JobsExclusive'
      <3>1. /\ cur[main] = NoJob /\ todo[main] = {} /\ ~Held(s)
            /\ UNCHANGED <<positions, todo, rpc>>
        BY <2>2 DEF Open, Ready, SlotFree, TasksConsistent
      <3>2. PICK qty \in {Lot, -Lot} : cur' = [cur EXCEPT ![main] =
                [kind |-> "open", sym |-> s, qty |-> qty, reason |-> "exit"]]
        BY <2>2 DEF Open
      <3> DEFINE job == [kind |-> "open", sym |-> s, qty |-> qty, reason |-> "exit"]
      <3>3. job.sym = s /\ job.kind = "open" /\ job # NoJob
        BY LotAssumption, NullsAssumption DEF Jobs, Reasons
      <3>4. cur'[main] = job /\ \A u \in Tasks : u # main => cur'[u] = cur[u]
        BY <3>2 DEF TypeOK
      <3> HIDE DEF job
      <3>5. /\ JobsOf(main)' = JobsOf(main) \cup {job}
            /\ \A u \in Tasks : u # main => JobsOf(u)' = JobsOf(u)
        BY <3>1, <3>3, <3>4 DEF JobsOf
      <3>6. NoJobFor(s)
        <4> SUFFICES ASSUME NEW t \in Tasks, NEW j \in JobsOf(t), j.sym = s PROVE FALSE
          BY DEF NoJobFor
        <4>1. j \in Jobs /\ j.kind = "open"
          BY <3>1, JobSymbols DEF JobsExclusive, Leased, Jobs
        <4>2. j \notin todo[t]
          BY <4>1 DEF TasksConsistent
        <4>3. t = main
          BY <4>1, <4>2 DEF JobsOf, SlotKept
        <4>4. QED
          BY <3>1, <4>3 DEF JobsOf
      <3>7. QED
        BY <3>1, <3>3, <3>5, <3>6, ExclusiveAdded DEF Held
    <2>3. CASE CheckOpen
      <3>1. /\ UNCHANGED <<positions, todo, rpc>>
            /\ \A u \in Tasks : cur'[u] \in {cur[u], NoJob}
        BY <2>3 DEF CheckOpen, Return, TypeOK
      <3>2. \A u \in Tasks : JobsOf(u)' \subseteq JobsOf(u)
        BY <3>1 DEF JobsOf
      <3>3. QED
        BY <3>1, <3>2, ExclusiveKept
    <2>4. QED
      BY <1>5, <2>1, <2>2, <2>3 DEF SignalStep
  <1>6. CASE ReconcilerStep
    BY <1>6 DEF ReconcilerStep, Snapshot, Apply, Correct, FindGhost, AdoptGhost, Prune,
       ListLocal, Rest, JobsExclusive,
       Undisturbed, Reconciling
  <1>7. CASE BootSync
    <2>1. \A t \in Tasks : JobsOf(t) = {}
      BY <1>7 DEF BootSync, OrdersInv, NothingWorksYet, TasksConsistent, JobsOf
    <2>2. \A t \in Tasks : JobsOf(t)' = {}
      BY <1>7, <2>1 DEF BootSync, JobsOf
    <2>3. QED
      BY <1>7, <2>2 DEF BootSync, JobsExclusive
  <1>8. CASE BootCancel \/ UNCHANGED vars
    BY <1>1, <1>8 DEF BootCancel, vars
  <1>9. CASE Crash
    <2>1. \A t \in Tasks : JobsOf(t)' = {}
      BY <1>9 DEF Crash, OnTasks, JobsOf
    <2>2. QED
      BY <1>9, <2>1 DEF Crash, JobsExclusive
  <1>10. QED
    BY <1>2, <1>3, <1>4, <1>5, <1>6, <1>7, <1>8, <1>9 DEF Next

\* As long as no close outlasts its time-out and the reconciler is at rest, a position has
\* at most one close under way, behind its lock, whatever crashes and whichever calls fail.
THEOREM CloserIsAlone == Spec => []OneClosePerPosition
<1> DEFINE Inv == SlotKept /\ (Undisturbed => JobsExclusive)
<1>1. Init => Inv
  <2>1. Init => JobsExclusive
    BY DEF Init, OnTasks, JobsExclusive, JobsOf
  <2>2. QED
    BY <2>1, SlotInit
<1>2. TypeOK /\ TasksConsistent /\ OrdersInv /\ Inv /\ [Next]_vars => Inv'
  <2> SUFFICES ASSUME TypeOK, TasksConsistent, OrdersInv, Inv, [Next]_vars
               PROVE  Inv'
    OBVIOUS
  <2>1. SlotKept'
    BY SlotStep
  <2>2. Undisturbed' => Undisturbed
    BY ModeStep DEF Undisturbed
  <2>3. QED
    BY <2>1, <2>2, ExclusiveStep
<1>3. TasksConsistent /\ Inv => OneClosePerPosition
  <2> SUFFICES ASSUME TasksConsistent, JobsExclusive, NEW s \in Symbols, NEW t \in Tasks, Closing(t, s)
               PROVE  /\ \A u \in Tasks : Closing(u, s) => u = t
                      /\ Held(s) /\ positions[s].closing
    BY DEF OneClosePerPosition, Undisturbed
  <2>1. ASSUME NEW u \in Tasks, Closing(u, s) PROVE \E j \in JobsOf(u) : j.sym = s
    BY <2>1 DEF Closing, JobsOf
  <2>2. \A u \in Tasks : Closing(u, s) => u = t
    BY <2>1 DEF JobsExclusive
  <2>3. \E j \in JobsOf(t) : j.sym = s /\ j.kind = "close"
    BY DEF Closing, JobsOf, TasksConsistent
  <2>4. Leased(s)
    BY <2>3 DEF JobsExclusive
  <2>5. QED
    BY <2>2, <2>4 DEF Leased
<1> HIDE DEF Inv
<1>4. QED
  BY <1>1, <1>2, <1>3, OrdersAlways, PTL DEF Spec

=============================================================================
