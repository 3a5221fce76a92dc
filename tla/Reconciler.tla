------------------------------- MODULE Reconciler -------------------------------
(****************************************************************************)
(* Reconciler::reconcile (reconciler.rs): asks the exchange for its         *)
(* positions, brings position_map in line with the answer symbol by symbol, *)
(* then removes the records the answer does not list.  The other tasks run  *)
(* on meanwhile, so the answer may be out of date when it is applied.       *)
(****************************************************************************)
EXTENDS TradingState

\* The exchange answers get_position_risk; the answer is on its way.
Snapshot ==
    /\ Reconciling
    /\ boot = "up"
    /\ rpc = "idle"
    /\ snap' = exch
    /\ rtodo' = {s \in Symbols : exch[s] # 0}
    /\ rpc' = "apply"
    /\ UNCHANGED <<exchVars, positions, taskVars, ghosts, countVars>>

\* The record of a listed symbol takes the amount reported, its lock untouched.
Correct(s) ==
    /\ rpc = "apply" /\ ghosts = {}
    /\ s \in rtodo /\ Held(s)
    /\ positions' = [positions EXCEPT ![s].amt = snap[s]]
    /\ rtodo' = rtodo \ {s}
    /\ UNCHANGED <<exchVars, taskVars, rpc, snap, ghosts, countVars>>

\* A listed symbol has no record: get_mut returns None, and keeps no guard ...
FindGhost(s) ==
    /\ rpc = "apply" /\ ghosts = {}
    /\ s \in rtodo /\ ~Held(s)
    /\ ghosts' = {s}
    /\ rtodo' = rtodo \ {s}
    /\ UNCHANGED <<exchVars, positions, taskVars, rpc, snap, countVars>>

\* Faulty variant: it is only warned of.
AdoptGhostWarned(s) ==
    /\ rpc = "apply" /\ s \in ghosts
    /\ ghosts' = {}
    /\ UNCHANGED <<exchVars, positions, taskVars, rpc, snap, rtodo, countVars>>

\* ... and it is adopted: a fresh record is inserted, over the one that may have been
\* stored, and locked, since.
AdoptGhost(s) ==
    /\ rpc = "apply" /\ s \in ghosts
    /\ positions' = [positions EXCEPT ![s] = NewPosition(snap[s], FALSE)]
    /\ ghosts' = {}
    /\ UNCHANGED <<exchVars, taskVars, rpc, snap, rtodo, countVars>>

Apply(s) == Correct(s) \/ FindGhost(s) \/ AdoptGhost(s)

\* local_symbols: the symbols with a record once all listed ones are applied.
ListLocal ==
    /\ rpc = "apply"
    /\ rtodo = {} /\ ghosts = {}
    /\ rtodo' = HeldSymbols
    /\ rpc' = "prune"
    /\ UNCHANGED <<exchVars, positions, taskVars, snap, ghosts, countVars>>

\* Faulty variant: only adopted records are removed.
ZombieAdopted(s) == snap[s] = 0 /\ Held(s) /\ ~positions[s].own

Zombie(s) == snap[s] = 0

\* A record the answer did not list is removed.
Prune(s) ==
    /\ rpc = "prune"
    /\ s \in rtodo
    /\ positions' = [positions EXCEPT ![s] = IF Zombie(s) THEN NoPosition ELSE @]
    /\ rtodo' = rtodo \ {s}
    /\ UNCHANGED <<exchVars, taskVars, rpc, snap, ghosts, countVars>>

\* Done for the next ten minutes.
Rest ==
    /\ rpc = "prune"
    /\ rtodo = {}
    /\ rpc' = "idle"
    /\ snap' = [s \in Symbols |-> 0]
    /\ UNCHANGED <<exchVars, positions, taskVars, rtodo, ghosts, countVars>>

ReconcilerStep ==
    \/ Snapshot
    \/ \E s \in Symbols : Apply(s) \/ Prune(s)
    \/ ListLocal
    \/ Rest

=============================================================================
