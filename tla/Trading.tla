-------------------------------- MODULE Trading --------------------------------
(****************************************************************************)
(* The trading engine as a whole: the main loop, the RiskGuard, the         *)
(* Sentinel and the reconciler working on one position_map and one account, *)
(* start-up with its synchronisation (main.rs), and crashes of the process. *)
(****************************************************************************)
EXTENDS Monitors, TrendProcessor, Reconciler

OnTasks(v) == [t \in Tasks |-> v]
OnSymbols(v) == [s \in Symbols |-> v]

\* The account is empty, or holds positions of an earlier run.
Init ==
    /\ exch \in [Symbols -> {0, Lot}]
    /\ orders = [o \in OrderIds |-> NoOrder]
    /\ positions = OnSymbols(NoPosition)
    /\ pc = OnTasks("idle") /\ todo = OnTasks({}) /\ cur = OnTasks(NoJob)
    /\ oid = OnTasks(NoId) /\ got = OnTasks(0)
    /\ rpc = "idle" /\ snap = OnSymbols(0) /\ rtodo = {} /\ ghosts = {}
    /\ boot = "sync"
    /\ mode \in Modes
    /\ opens = 0
    /\ crashes = 0

\* The records adopted at start-up.
Adopted ==
    [s \in Symbols |-> IF exch[s] = 0 THEN NoPosition ELSE NewPosition(exch[s], FALSE)]

\* Start-up: get_position_risk; when it fails the program starts without records.
BootSync ==
    /\ boot = "sync"
    /\ \/ positions' = Adopted
       \/ Fault("restFail") /\ UNCHANGED positions
    /\ boot' = "cancel"
    /\ UNCHANGED <<exchVars, taskVars, reconVars, mode, opens, crashes>>

\* Faulty variant: start-up leaves the open orders alone.
BootCancelSkipped ==
    /\ boot = "cancel"
    /\ boot' = "up"
    /\ UNCHANGED <<exchVars, positions, taskVars, reconVars, mode, opens, crashes>>

\* Start-up: the open orders are cancelled symbol by symbol; some of the calls may
\* fail, and in a dry run they are made all the same.
BootCancel ==
    /\ boot = "cancel"
    /\ \E S \in (IF Fault("restFail") THEN SUBSET Symbols ELSE {Symbols}) :
         orders' = CancelledBook({o \in OrderIds : Rests(o) /\ orders[o].sym \in S})
    /\ boot' = "up"
    /\ UNCHANGED <<exch, positions, taskVars, reconVars, mode, opens, crashes>>

\* The process dies and is started again: the exchange keeps what it has.
Crash ==
    /\ Fault("crash")
    /\ crashes < MaxCrashes
    /\ crashes' = crashes + 1
    /\ positions' = OnSymbols(NoPosition)
    /\ pc' = OnTasks("idle") /\ todo' = OnTasks({}) /\ cur' = OnTasks(NoJob)
    /\ oid' = OnTasks(NoId) /\ got' = OnTasks(0)
    /\ rpc' = "idle" /\ snap' = OnSymbols(0) /\ rtodo' = {} /\ ghosts' = {}
    /\ boot' = "sync"
    /\ orders' = [o \in OrderIds |-> IF Rests(o) THEN orders[o] ELSE NoOrder]
    /\ UNCHANGED <<exch, mode, opens>>

Next ==
    \/ ExchangeStep
    \/ \E t \in Tasks : ExecutorStep(t)
    \/ MonitorStep
    \/ SignalStep
    \/ ReconcilerStep
    \/ BootSync \/ BootCancel
    \/ Crash

Spec == Init /\ [][Next]_vars

\* The reconciler's loop goes on and, every so often, its call succeeds; start-up
\* completes.  Nothing is assumed of the orders, of the exchange or of the loops
\* that give orders.
Fairness == WF_vars(ReconcilerStep) /\ WF_vars(BootSync \/ BootCancel)

FairSpec == Spec /\ Fairness

----------------------------------------------------------------------------
(* Safety *)

\* Every variable has its type: each action stores what the code's types allow.
TypeOK ==
    /\ exch \in [Symbols -> Int]
    /\ orders \in [OrderIds -> Orders \cup {NoOrder}]
    /\ positions \in [Symbols -> Positions \cup {NoPosition}]
    /\ pc \in [Tasks -> PCs]
    /\ todo \in [Tasks -> SUBSET Jobs]
    /\ cur \in [Tasks -> Jobs \cup {NoJob}]
    /\ oid \in [Tasks -> OrderIds \cup {NoId}]
    /\ got \in [Tasks -> Nat]
    /\ rpc \in {"idle", "apply", "prune"}
    /\ snap \in [Symbols -> Int]
    /\ rtodo \subseteq Symbols /\ ghosts \subseteq Symbols
    /\ boot \in {"sync", "cancel", "up"}
    /\ mode \in Modes
    /\ opens \in 0 .. MaxOpens
    /\ crashes \in 0 .. MaxCrashes

\* How the locals of a task fit together: it has an order exactly while it executes
\* one, queued orders are close orders, and the limit order it waits for is one the
\* exchange remembers and nobody else waits for.
TasksConsistent ==
    \A t \in Tasks :
        /\ pc[t] \in {"idle", "drain"} <=> cur[t] = NoJob
        /\ pc[t] = "check" => cur[t].kind = "open"
        /\ \A j \in todo[t] : j.kind = "close"
        /\ pc[t] \in {"cancel", "status"} <=> oid[t] # NoId
        /\ oid[t] # NoId => orders[oid[t]] # NoOrder
        /\ \A u \in Tasks : oid[t] = oid[u] /\ oid[t] # NoId => t = u

\* A position locked for close has a close order under way: whoever locked it, or
\* someone after a broken lock, will unlock or remove it.  A lock without an owner
\* would keep every stop loss off the position until closing_timeout_ms.
\* (A dry run suppresses closes without unlocking: there only the timeout helps.)
LocksOwned ==
    \A s \in Symbols : Held(s) /\ positions[s].closing => \E t \in Tasks : Closing(t, s)

LockHasOwner == ~DryRun => LocksOwned

\* Those who believe they are the ones to close s.
Closers(s) == {t \in Tasks : Closing(t, s)}

\* The promise the close lock of each record makes, the one module CloseLock is shown
\* to keep with its two atomics.
LeaseOf(s) ==
    INSTANCE Lease WITH Workers <- Tasks, leased <- Held(s) /\ positions[s].closing,
                        working <- Closers(s)

\* The steps that may take the lock of s from whoever has it: the time-out, the
\* reconciler as it removes a record or inserts one over it, and an open order that was
\* under way when the record appeared.
Breaks(s) ==
    ForceUnlock(s) \/ Prune(s) \/ AdoptGhost(s) \/ (FinishOpen(main) /\ cur[main].sym = s)

\* A lease is given and returned one task at a time, left to its time-out in a dry
\* run only, broken by those steps only, and void after a crash.
LeaseMove(s) ==
    \/ \E t \in Tasks : LeaseOf(s)!Grant(t) \/ LeaseOf(s)!Return(t)
    \/ DryRun /\ \E t \in Tasks : LeaseOf(s)!Abandon(t)
    \/ Breaks(s) /\ LeaseOf(s)!Break
    \/ Crash /\ LeaseOf(s)!Restart
    \/ UNCHANGED LeaseOf(s)!leaseVars

\* The whole engine keeps the lease of every position: whatever the tasks, the
\* exchange and the reconciler do between two awaits, a position is given to a closer
\* only while nobody has it, and a closer lets go of its lock as it ends, however it
\* ends (filled, refused, reply lost).
KeepsLeases ==
    /\ \A s \in Symbols : LeaseOf(s)!LeaseInit
    /\ [][\A s \in Symbols : LeaseMove(s)]_vars

\* Two tasks never work on a close of the same position, and whoever does has the
\* record, locked, until it is done, unless a close outlasts closing_timeout_ms or the
\* reconciler takes the record away.  A crash, a lost reply, a liquidation or a failing
\* call is no exception.
OneClosePerPosition ==
    mode \cap {"slowClose", "reconciler"} = {} =>
        \A s \in Symbols, t \in Tasks : Closing(t, s) =>
            /\ \A u \in Tasks : Closing(u, s) => u = t
            /\ Held(s) /\ positions[s].closing

\* The program never has more positions of its own making than max_positions, though
\* it checks before it awaits the balance and inserts seconds later.
OpenedWithinLimit ==
    Cardinality({s \in HeldSymbols : positions[s].own}) <= MaxPositions

\* A dry run leaves the account alone, whatever the monitors decide: only the exchange,
\* or a person, may close a position.
DryRunPlacesNothing ==
    [][DryRun => UNCHANGED exch \/ \E s \in Symbols : Liquidate(s)]_vars

\* As long as no call fails and no reply is lost, no order rests in the book that no
\* task will come back to, even after a crash in the middle of an order: start-up
\* cancels what the earlier process left.
NoOrphanOrders ==
    (boot = "up" /\ mode \cap {"lostReply", "cancelFail", "restFail"} = {}) =>
        \A o \in OrderIds : Rests(o) => \E t \in Tasks : oid[t] = o

----------------------------------------------------------------------------
(* Safety while no call fails, no close outlasts its lock, the process does   *)
(* not crash and the reconciler is at rest.  Orders may still be refused,     *)
(* expire or be half filled, positions be liquidated, and the run be dry.     *)

Calm == mode \subseteq {"dryRun", "liquidation"}

Working(s) == \E t \in Tasks : Closing(t, s) \/ (cur[t] # NoJob /\ cur[t].sym = s)

\* The engine never has an open position it does not watch: whatever the account
\* holds has a record of the same direction, or a task is at work on it.
NoBlindExposure ==
    (Calm /\ boot = "up") =>
        \A s \in Symbols : exch[s] # 0 =>
            Working(s) \/ (Held(s) /\ Sign(positions[s].amt) = Sign(exch[s]))

OpenNeverOverfills == \A s \in Symbols : Abs(exch[s]) <= Lot

\* Opening in two parts, first as maker then as taker, never buys more than the
\* quantity decided on, whichever part fills and when.
OpenIsExact == Calm => OpenNeverOverfills

\* A record is only forgotten when the account holds nothing any more: the program
\* takes no close for done that left a part of the position behind.
ForgottenOnlyWhenFlat ==
    [][Calm => \A s \in Symbols :
         (Held(s) /\ positions'[s] = NoPosition) => exch[s] = 0]_vars

----------------------------------------------------------------------------
(* Liveness: the reconciler heals *)

\* A position the program does not know of, because a reply was lost, a record was
\* removed too early or a start-up call failed, comes to be watched, or is gone.
GhostTracked ==
    \A s \in Symbols : (exch[s] # 0 /\ ~Held(s)) ~> (exch[s] = 0 \/ Held(s))

\* A record without a position behind it, which would block its slot and its symbol
\* for new positions, is removed, or there is a position again.
ZombieRemoved ==
    \A s \in Symbols : (exch[s] = 0 /\ Held(s)) ~> (exch[s] # 0 \/ ~Held(s))

----------------------------------------------------------------------------
(* What comments and documents say and the code does not keep *)

\* The reconciler removes only records of positions that "[do] not exist remotely"
\* (the warning it logs as it does so, reconciler.rs:76).
ZombieRemovalIsSound ==
    [][\A s \in Symbols : (Prune(s) /\ Held(s) /\ positions'[s] = NoPosition) => exch[s] = 0]_vars

\* The same as OpenIsExact also when a cancel fails: executor.rs:154 says of the cancel
\* between the two parts "If it fails, it might be already fully filled, which is fine".
CancelMayFail == OpenNeverOverfills

=============================================================================
