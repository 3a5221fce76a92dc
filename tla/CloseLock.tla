------------------------------- MODULE CloseLock -------------------------------
(****************************************************************************)
(* The close lock of one position record: the pair of atomics is_closing    *)
(* and closing_started_at of MockPosition (models.rs), taken by whoever     *)
(* decides to close the position, cleared again when the close fails, and   *)
(* forced open by the Sentinel when it looks older than closing_timeout_ms. *)
(*                                                                          *)
(* The record lives in a DashMap.  A reader of the map (Sentinel, the main  *)
(* loop, the executor) holds a read guard of the shard while it works on    *)
(* the two atomics one at a time; several readers may do so at once.  The   *)
(* RiskGuard iterates with a write guard, and inserting or removing a       *)
(* record needs one too, so those steps wait until no read guard is held.   *)
(*                                                                          *)
(* Time is kept as the age of the time stamp, which stops growing one past  *)
(* the timeout: no step tells older stamps apart.                           *)
(****************************************************************************)
EXTENDS Integers, FiniteSets

CONSTANTS
    Readers,     \* closers that lock under a read guard: the main loop, ...
    Writers,     \* closers that lock under a write guard: the RiskGuard
    Sentinel,    \* the thread that closes and also breaks old locks
    Timeout,     \* closing_timeout_ms, in ticks
    NoStamp      \* closing_started_at = 0

Closers == Readers \cup Writers \cup {Sentinel}

Age == 0 .. (Timeout + 1)

ASSUME ActorsAssumption ==
    /\ Readers \cap Writers = {}
    /\ Sentinel \notin Readers \cup Writers
ASSUME TimeoutAssumption == Timeout \in Nat
ASSUME StampAssumption == NoStamp \notin Int

VARIABLES
    present,     \* the symbol has a record in position_map
    isClosing,   \* is_closing of that record
    stamp,       \* age of closing_started_at, or NoStamp
    st,          \* what each closer is doing with the record
    seen,        \* age of the stamp the Sentinel has read (its start_ts)
    dryRun,      \* the dry_run flag of the configuration
    overtaken    \* history: the lock was broken, or the record taken away,
                 \* while some closer still worked on its close

vars == <<present, isClosing, stamp, st, seen, dryRun, overtaken>>

\* idle      not working on this record
\* won       the compare_exchange succeeded, the time stamp is not stored yet
\* closing   try_lock_for_close returned true, the close order is queued or runs
\* failing   unlock_close after a failed close: the stamp is stored, the flag not
\* looking   (Sentinel) loaded is_closing = true
\* judging   (Sentinel) also loaded closing_started_at
\* forcing   (Sentinel) unlock_close of an old lock: stamp stored, flag not
States == {"idle", "won", "closing", "failing", "looking", "judging", "forcing"}

\* Those that hold a read guard of the shard in that state.
Guarded(a) == st[a] \in {"won", "failing", "looking", "judging", "forcing"}

NoGuards == \A a \in Closers : ~Guarded(a)

\* Those that believe they are the one closing the position.
Owner(a) == st[a] \in {"won", "closing", "failing"}

Owners == {a \in Closers : Owner(a)}

Older(age) == IF age > Timeout THEN age ELSE age + 1

Init ==
    /\ present = TRUE
    /\ isClosing = FALSE
    /\ stamp = NoStamp
    /\ st = [a \in Closers |-> "idle"]
    /\ seen = NoStamp
    /\ dryRun \in BOOLEAN
    /\ overtaken = FALSE

----------------------------------------------------------------------------
(* Faulty variants: not part of the specification.  Each is a plausible      *)
(* mistake in one of the definitions below; the README says what each breaks. *)

\* The time stamp is forgotten.
StampLockForgotten(a) ==
    /\ st[a] = "won"
    /\ st' = [st EXCEPT ![a] = "closing"]
    /\ UNCHANGED <<present, isClosing, stamp, seen, overtaken, dryRun>>

\* A plain store instead of the compare_exchange.
TryLockByStore(a) ==
    /\ a \notin Writers
    /\ present
    /\ st[a] = "idle"
    /\ isClosing' = TRUE
    /\ st' = [st EXCEPT ![a] = "won"]
    /\ UNCHANGED <<present, stamp, seen, overtaken, dryRun>>

\* The clock of the stamp runs ahead of the Sentinel's.
StampLockAhead(a) ==
    /\ st[a] = "won"
    /\ stamp' = -1
    /\ st' = [st EXCEPT ![a] = "closing"]
    /\ UNCHANGED <<present, isClosing, seen, overtaken, dryRun>>

\* The test `start_ts > 0` is the wrong way round.
TimedOutInverted == seen = NoStamp

----------------------------------------------------------------------------
(* Taking the lock *)

\* try_lock_for_close, first half: the compare_exchange of is_closing.
TryLock(a) ==
    /\ a \notin Writers
    /\ present
    /\ st[a] = "idle"
    /\ ~isClosing
    /\ isClosing' = TRUE
    /\ st' = [st EXCEPT ![a] = "won"]
    /\ UNCHANGED <<present, stamp, seen, overtaken, dryRun>>

\* try_lock_for_close, second half: the time stamp is stored and the guard
\* released.
StampLock(a) ==
    /\ st[a] = "won"
    /\ stamp' = 0
    /\ st' = [st EXCEPT ![a] = "closing"]
    /\ UNCHANGED <<present, isClosing, seen, overtaken, dryRun>>

\* try_lock_for_close under iter_mut: nobody else sees the two halves apart.
ExclusiveLock(a) ==
    /\ a \in Writers
    /\ NoGuards
    /\ present
    /\ st[a] = "idle"
    /\ ~isClosing
    /\ isClosing' = TRUE
    /\ stamp' = 0
    /\ st' = [st EXCEPT ![a] = "closing"]
    /\ UNCHANGED <<present, seen, overtaken, dryRun>>

----------------------------------------------------------------------------
(* The end of a close *)

\* The close order went through: the executor removes whatever record the
\* symbol has by now.
Finish(a) ==
    /\ ~dryRun
    /\ st[a] = "closing"
    /\ NoGuards
    /\ present' = FALSE
    /\ isClosing' = FALSE
    /\ stamp' = NoStamp
    /\ st' = [st EXCEPT ![a] = "idle"]
    /\ UNCHANGED <<seen, overtaken, dryRun>>

\* The final market order failed: unlock_close stores the stamp first ...
Fail(a) ==
    /\ st[a] = "closing"
    /\ ~dryRun \/ a = Sentinel
    /\ IF present
         THEN /\ stamp' = NoStamp
              /\ st' = [st EXCEPT ![a] = "failing"]
         ELSE /\ st' = [st EXCEPT ![a] = "idle"]
              /\ UNCHANGED stamp
    /\ UNCHANGED <<present, isClosing, seen, overtaken, dryRun>>

\* ... and then the flag, on whatever record the symbol has by now.
EndUnlock(a) ==
    /\ st[a] = "failing"
    /\ isClosing' = FALSE
    /\ st' = [st EXCEPT ![a] = "idle"]
    /\ UNCHANGED <<present, stamp, seen, overtaken, dryRun>>

\* In a dry run execute_order returns at once, and only the Sentinel unlocks
\* (by the path of Fail above).
Suppress(a) ==
    /\ dryRun
    /\ a # Sentinel
    /\ st[a] = "closing"
    /\ st' = [st EXCEPT ![a] = "idle"]
    /\ UNCHANGED <<present, isClosing, stamp, seen, overtaken, dryRun>>

----------------------------------------------------------------------------
(* The Sentinel's forced unlock *)

\* check_positions finds is_closing set.
LoadFlag ==
    /\ present
    /\ st[Sentinel] = "idle"
    /\ isClosing
    /\ st' = [st EXCEPT ![Sentinel] = "looking"]
    /\ UNCHANGED <<present, isClosing, stamp, seen, overtaken, dryRun>>

LoadStamp ==
    /\ st[Sentinel] = "looking"
    /\ seen' = stamp
    /\ st' = [st EXCEPT ![Sentinel] = "judging"]
    /\ UNCHANGED <<present, isClosing, stamp, overtaken, dryRun>>

TimedOut == seen # NoStamp /\ seen > Timeout

\* The stamp read is old: unlock_close stores the stamp first.
ForceUnlock ==
    /\ st[Sentinel] = "judging"
    /\ TimedOut
    /\ stamp' = NoStamp
    /\ seen' = NoStamp
    /\ st' = [st EXCEPT ![Sentinel] = "forcing"]
    /\ UNCHANGED <<present, isClosing, overtaken, dryRun>>

\* The stamp read is not old, or not there: `continue`.
Wait ==
    /\ st[Sentinel] = "judging"
    /\ ~TimedOut
    /\ seen' = NoStamp
    /\ st' = [st EXCEPT ![Sentinel] = "idle"]
    /\ UNCHANGED <<present, isClosing, stamp, overtaken, dryRun>>

EndForce ==
    /\ st[Sentinel] = "forcing"
    /\ isClosing' = FALSE
    /\ st' = [st EXCEPT ![Sentinel] = "idle"]
    /\ overtaken' = (overtaken \/ Owners # {})
    /\ UNCHANGED <<present, stamp, seen, dryRun>>

SentinelLook == LoadFlag \/ LoadStamp \/ ForceUnlock \/ Wait \/ EndForce

----------------------------------------------------------------------------
(* The rest of the program, and time *)

\* The reconciler removes a record the exchange's answer did not list.
Prune ==
    /\ present
    /\ NoGuards
    /\ present' = FALSE
    /\ isClosing' = FALSE
    /\ stamp' = NoStamp
    /\ overtaken' = (overtaken \/ Owners # {})
    /\ UNCHANGED <<st, seen, dryRun>>

\* A filled open order, or the reconciler's adoption, stores a fresh record
\* (MockPosition::new); a record already there is replaced, lock and all.
Insert ==
    /\ NoGuards
    /\ present' = TRUE
    /\ isClosing' = FALSE
    /\ stamp' = NoStamp
    /\ overtaken' = (Owners # {})
    /\ UNCHANGED <<st, seen, dryRun>>

Tick ==
    /\ stamp # NoStamp \/ seen # NoStamp
    /\ stamp' = IF stamp = NoStamp THEN NoStamp ELSE Older(stamp)
    /\ seen' = IF seen = NoStamp THEN NoStamp ELSE Older(seen)
    /\ UNCHANGED <<present, isClosing, st, overtaken, dryRun>>

----------------------------------------------------------------------------

Closer(a) ==
    \/ TryLock(a) \/ StampLock(a) \/ ExclusiveLock(a)
    \/ Finish(a) \/ Fail(a) \/ EndUnlock(a) \/ Suppress(a)

Next ==
    \/ \E a \in Closers : Closer(a)
    \/ SentinelLook
    \/ Prune
    \/ Insert
    \/ Tick

Spec == Init /\ [][Next]_vars

\* What the scheduling gives: time passes, the Sentinel's loop goes on (its own
\* close returns, one way or the other), and a thread between two stores, which
\* awaits nothing, runs on.  Nothing is assumed of the close of anyone else.
Fairness ==
    /\ WF_vars(Tick)
    /\ WF_vars(SentinelLook)
    /\ WF_vars(Finish(Sentinel) \/ Fail(Sentinel))
    /\ \A a \in Closers : WF_vars(StampLock(a)) /\ WF_vars(EndUnlock(a))

FairSpec == Spec /\ Fairness

----------------------------------------------------------------------------
(* Properties *)

\* Every variable has its type: each action stores what the code's types allow.
TypeOK ==
    /\ present \in BOOLEAN
    /\ isClosing \in BOOLEAN
    /\ stamp \in Age \cup {NoStamp}
    /\ st \in [Closers -> States]
    /\ seen \in Age \cup {NoStamp}
    /\ dryRun \in BOOLEAN
    /\ overtaken \in BOOLEAN

\* A lock the Sentinel can never break has someone about to complete it: the
\* flag of a record is set without a time stamp (which the Sentinel skips for
\* ever, `start_ts > 0`) only between the two stores of a lock or an unlock
\* that is still under way.
NoStuckLock ==
    (present /\ isClosing /\ stamp = NoStamp) =>
        \E a \in Closers : st[a] \in {"won", "failing", "forcing"}

\* As long as no lock was broken and no record taken away under a closer, at
\* most one closer works on the position: two close orders for one position
\* have no other cause.
SoleCloser ==
    ~overtaken => \A a, b \in Closers : Owner(a) /\ Owner(b) => a = b

\* The two atomics implement a lease: whatever the interleaving of their loads and
\* stores, the lock is given only while it is free and only to one who does not have
\* it, and nobody stops working on a close without having been given it.
Promise ==
    INSTANCE TrackedLease WITH Workers <- Closers, leased <- isClosing,
                               working <- Owners, broken <- overtaken
KeepsLease == Promise!TrackedSpec

\* No close that hangs, is lost or is suppressed keeps a position locked for
\* good: a locked record is unlocked, or gone, in the end.
LockReleased == (present /\ isClosing) ~> ~(present /\ isClosing)

\* The Sentinel breaks only locks that have timed out: it erases no stamp younger
\* than the timeout, and the flag it clears is not that of a lock taken since.
\* (The code warns "close timed out for this symbol, forcing the unlock" each time
\* it does so, sentinel.rs:57.)
ForcedOnlyWhenTimedOut ==
    [][ /\ ForceUnlock => (stamp = NoStamp \/ stamp > Timeout)
        /\ EndForce => (stamp = NoStamp /\ \A a \in Closers : st[a] # "won")
      ]_vars

=============================================================================
