-------------------------------- MODULE Monitors --------------------------------
(****************************************************************************)
(* The two loops that watch open positions: Sentinel::check_positions       *)
(* (sentinel.rs) and RiskGuard::update_roe_cycle (risk_guard.rs).  A cycle  *)
(* scans the records, locks those that meet a stop or exit condition and    *)
(* collects their close orders, then executes these one by one; while it    *)
(* does, it scans nothing.  Which conditions hold is left open.             *)
(*                                                                          *)
(* The lock itself, with its two atomics and its age, is the subject of     *)
(* module CloseLock; here it is taken and broken in one step.               *)
(****************************************************************************)
EXTENDS Executor

\* The RiskGuard's hard stop, its other stops and its profit exits; the Sentinel's
\* ATR stop and its time and funding exits.
ReasonsOf(t) == IF t = risk THEN RiskReasons ELSE SentinelReasons

\* A scan meets each symbol once.
Scanned(t, s) == \E j \in todo[t] : j.sym = s

\* Faulty variant: the lock is taken whoever has it.
LockForCloseAnyway(t, s) ==
    /\ boot = "up"
    /\ pc[t] = "idle"
    /\ ~Scanned(t, s)
    /\ Held(s)
    /\ ~(DryRun /\ t = sentinel)
    /\ positions' = [positions EXCEPT ![s].closing = TRUE]
    /\ \E reason \in ReasonsOf(t) : todo' = [todo EXCEPT ![t] = @ \cup {CloseJob(s, reason)}]
    /\ UNCHANGED <<exchVars, pc, cur, oid, got, reconVars, countVars>>

\* try_lock_for_close on record s succeeds and the close order is collected.  In a
\* dry run the Sentinel unlocks the record again at once; the RiskGuard does not.
LockForClose(t, s) ==
    /\ boot = "up"
    /\ pc[t] = "idle"
    /\ ~Scanned(t, s)
    /\ Held(s) /\ ~positions[s].closing
    /\ ~(DryRun /\ t = sentinel)
    /\ positions' = [positions EXCEPT ![s].closing = TRUE]
    /\ \E reason \in ReasonsOf(t) : todo' = [todo EXCEPT ![t] = @ \cup {CloseJob(s, reason)}]
    /\ UNCHANGED <<exchVars, pc, cur, oid, got, reconVars, countVars>>

\* The Sentinel finds a lock older than closing_timeout_ms and breaks it.  A lock
\* whose close was given up in a dry run grows that old in any case.
ForceUnlock(s) ==
    /\ boot = "up"
    /\ pc[sentinel] = "idle"
    /\ ~Scanned(sentinel, s)
    /\ Held(s) /\ positions[s].closing
    /\ Fault("slowClose") \/ \A t \in Tasks : ~Closing(t, s)
    /\ positions' = [positions EXCEPT ![s].closing = FALSE]
    /\ UNCHANGED <<exchVars, taskVars, reconVars, countVars>>

MonitorStep ==
    \E s \in Symbols :
        \/ \E t \in {risk, sentinel} : LockForClose(t, s)
        \/ ForceUnlock(s)

=============================================================================
