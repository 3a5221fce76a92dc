---------------------------- MODULE CloseLockProofs ----------------------------
(****************************************************************************)
(* What holds of the close lock for any set of closers and any timeout:     *)
(* type correctness, that no record is left locked without either a time    *)
(* stamp or someone about to finish with it, that two closers never work on *)
(* one position unless a lock was broken under one of them, and that the    *)
(* two atomics implement the lease of module TrackedLease.                  *)
(****************************************************************************)
EXTENDS CloseLock, TLAPS

USE ActorsAssumption, TimeoutAssumption, StampAssumption

\* Every step stores values the variables' types allow: the stamp and the Sentinel's
\* copy of it are cleared, set to zero, copied from one another or grow by one tick.
LEMMA TypeStep ==
  ASSUME TypeOK, [Next]_vars
  PROVE  TypeOK'
<1> USE DEF TypeOK, States
<1>stutter. CASE UNCHANGED vars
  BY <1>stutter DEF vars
<1>time. CASE Tick
  BY <1>time DEF Tick, Older, Age
<1>record. CASE Prune \/ Insert
  BY <1>record DEF Prune, Insert
<1>look. CASE SentinelLook
  <2>1. Sentinel \in Closers
    BY DEF Closers
  <2>2. QED
    BY <1>look, <2>1 DEF SentinelLook, LoadFlag, LoadStamp, ForceUnlock, Wait, EndForce
<1>close. ASSUME NEW a \in Closers, Closer(a) PROVE TypeOK'
  <2>0. 0 \in Age
    BY DEF Age
  <2>1. CASE TryLock(a) \/ StampLock(a) \/ ExclusiveLock(a)
    BY <2>0, <2>1 DEF TryLock, StampLock, ExclusiveLock
  <2>2. CASE Finish(a) \/ Suppress(a)
    BY <2>2 DEF Finish, Suppress
  <2>3. CASE Fail(a) \/ EndUnlock(a)
    BY <2>3 DEF Fail, EndUnlock
  <2>4. QED
    BY <1>close, <2>1, <2>2, <2>3 DEF Closer
<1> QED
  BY <1>close, <1>look, <1>record, <1>time, <1>stutter DEF Next

\* The type invariant of the close lock: every variable stays in its range; in
\* particular the stamp's age saturates one past the timeout.
THEOREM TypeCorrect == Spec => []TypeOK
<1>1. Init => TypeOK
  BY DEF Init, TypeOK, States
<1>2. TypeOK /\ [Next]_vars => TypeOK'
  BY TypeStep
<1>3. QED
  BY <1>1, <1>2, PTL DEF Spec

----------------------------------------------------------------------------

\* A flag that is set without a stamp has someone about to store the missing half.
\* It is inductive once the absent record is known to carry no flag and no guard.
CloseLockInv ==
    /\ TypeOK
    /\ NoStuckLock
    /\ ~present => (NoGuards /\ ~isClosing)

\* The invariant is kept by every step.
LEMMA InvStep ==
  ASSUME TypeOK, TypeOK', CloseLockInv, [Next]_vars
  PROVE  CloseLockInv'
<1> SUFFICES NoStuckLock' /\ (~present => NoGuards /\ ~isClosing)'
  BY DEF CloseLockInv
<1> USE DEF TypeOK, CloseLockInv, NoStuckLock, NoGuards, Guarded, Age
<1>1. ASSUME NEW a \in Closers, Closer(a)
      PROVE  NoStuckLock' /\ (~present => NoGuards /\ ~isClosing)'
  <2>1. CASE TryLock(a)
    BY <2>1 DEF TryLock
  <2>2. CASE StampLock(a)
    BY <2>2 DEF StampLock
  <2>3. CASE ExclusiveLock(a)
    BY <2>3 DEF ExclusiveLock
  <2>4. CASE Finish(a)
    BY <2>4 DEF Finish
  <2>5. CASE Fail(a)
    BY <2>5 DEF Fail
  <2>6. CASE EndUnlock(a)
    BY <2>6 DEF EndUnlock
  <2>7. CASE Suppress(a)
    BY <2>7 DEF Suppress
  <2>8. QED
    BY <1>1, <2>1, <2>2, <2>3, <2>4, <2>5, <2>6, <2>7 DEF Closer
<1>2. ASSUME SentinelLook
      PROVE  NoStuckLock' /\ (~present => NoGuards /\ ~isClosing)'
  <2> Sentinel \in Closers
    BY DEF Closers
  <2>1. CASE LoadFlag
    BY <2>1 DEF LoadFlag
  <2>2. CASE LoadStamp
    BY <2>2 DEF LoadStamp
  <2>3. CASE ForceUnlock
    BY <2>3 DEF ForceUnlock
  <2>4. CASE Wait
    BY <2>4 DEF Wait
  <2>5. CASE EndForce
    BY <2>5 DEF EndForce
  <2>6. QED
    BY <1>2, <2>1, <2>2, <2>3, <2>4, <2>5 DEF SentinelLook
<1>3. CASE Prune
  BY <1>3 DEF Prune
<1>4. CASE Insert
  BY <1>4 DEF Insert
<1>5. CASE Tick
  BY <1>5 DEF Tick, Older
<1>6. CASE UNCHANGED vars
  BY <1>6 DEF vars
<1>7. QED
  BY <1>1, <1>2, <1>3, <1>4, <1>5, <1>6 DEF Next

\* No position is locked without a time stamp, which the Sentinel could never
\* break, except between two stores of a lock or an unlock under way.
THEOREM NeverStuck == Spec => []NoStuckLock
<1>1. Init => CloseLockInv
  BY DEF Init, CloseLockInv, TypeOK, NoStuckLock, States
<1>2. TypeOK /\ TypeOK' /\ CloseLockInv /\ [Next]_vars => CloseLockInv'
  BY InvStep
<1>3. CloseLockInv => NoStuckLock
  BY DEF CloseLockInv
<1>4. QED
  BY <1>1, <1>2, <1>3, TypeCorrect, PTL DEF Spec

----------------------------------------------------------------------------

\* The one closer of a lock that was never broken holds the flag of a record that
\* is there: that keeps every other closer out.
SoleInv ==
    ~overtaken =>
        /\ \A a, b \in Closers : Owner(a) /\ Owner(b) => a = b
        /\ \A a \in Closers : Owner(a) => present /\ isClosing

\* Two close orders for one position have no other cause than a lock the Sentinel
\* broke, or a record that was taken away or replaced, while a closer worked on it.
THEOREM OneCloser == Spec => []SoleCloser
<1>1. Init => SoleInv
  BY DEF Init, SoleInv, Owner
<1>2. TypeOK /\ SoleInv /\ [Next]_vars => SoleInv'
  <2> SUFFICES ASSUME TypeOK, SoleInv, [Next]_vars, ~overtaken'
               PROVE  /\ \A a, b \in Closers : (Owner(a) /\ Owner(b))' => a = b
                      /\ \A a \in Closers : Owner(a)' => (present /\ isClosing)'
    BY DEF SoleInv
  <2> DEFINE Goal == /\ \A a, b \in Closers : (Owner(a) /\ Owner(b))' => a = b
                     /\ \A a \in Closers : Owner(a)' => (present /\ isClosing)'
  <2> USE DEF TypeOK, SoleInv, Owner, Owners
  <2>1. ASSUME NEW c \in Closers, Closer(c) PROVE Goal
    <3>1. CASE TryLock(c)
      BY <3>1 DEF TryLock
    <3>2. CASE StampLock(c)
      BY <3>2 DEF StampLock
    <3>3. CASE ExclusiveLock(c)
      BY <3>3 DEF ExclusiveLock
    <3>4. CASE Finish(c)
      BY <3>4 DEF Finish
    <3>5. CASE Fail(c)
      BY <3>5 DEF Fail
    <3>6. CASE EndUnlock(c)
      BY <3>6 DEF EndUnlock
    <3>7. CASE Suppress(c)
      BY <3>7 DEF Suppress
    <3>8. QED
      BY <2>1, <3>1, <3>2, <3>3, <3>4, <3>5, <3>6, <3>7 DEF Closer
  <2>2. ASSUME SentinelLook PROVE Goal
    <3> Sentinel \in Closers
      BY DEF Closers
    <3>1. CASE LoadFlag
      BY <3>1 DEF LoadFlag
    <3>2. CASE LoadStamp
      BY <3>2 DEF LoadStamp
    <3>3. CASE ForceUnlock
      BY <3>3 DEF ForceUnlock
    <3>4. CASE Wait
      BY <3>4 DEF Wait
    <3>5. CASE EndForce
      BY <3>5 DEF EndForce
    <3>6. QED
      BY <2>2, <3>1, <3>2, <3>3, <3>4, <3>5 DEF SentinelLook
  <2>3. CASE Prune
    BY <2>3 DEF Prune
  <2>4. CASE Insert
    BY <2>4 DEF Insert
  <2>5. CASE Tick
    BY <2>5 DEF Tick
  <2>6. CASE UNCHANGED vars
    BY <2>6 DEF vars
  <2>7. QED
    BY <2>1, <2>2, <2>3, <2>4, <2>5, <2>6 DEF Next
<1>3. SoleInv => SoleCloser
  BY DEF SoleInv, SoleCloser
<1>4. QED
  BY <1>1, <1>2, <1>3, TypeCorrect, PTL DEF Spec

----------------------------------------------------------------------------
(* The refinement *)

\* How the set of owners moves, action by action.
LEMMA OwnersMove ==
  ASSUME TypeOK, NEW a \in Closers,
         NEW s \in States, st' = [st EXCEPT ![a] = s]
  PROVE  /\ s \in {"won", "closing", "failing"} => Owners' = Owners \cup {a}
         /\ s \notin {"won", "closing", "failing"} => Owners' = Owners \ {a}
<1>1. \A b \in Closers : Owner(b)' <=> IF b = a THEN s \in {"won", "closing", "failing"}
                                             ELSE Owner(b)
  BY DEF TypeOK, Owner
<1>2. QED
  BY <1>1 DEF Owners

\* A step of a closer grants the lease, returns it, abandons it, or leaves it alone.
LEMMA CloserKeepsLease ==
  ASSUME TypeOK, TypeOK', CloseLockInv, NEW a \in Closers, Closer(a)
  PROVE  Promise!TrackedNext \/ UNCHANGED Promise!trackedVars
<1> USE DEF States
<1>0. Owners \subseteq Closers /\ (a \in Owners <=> Owner(a))
  BY DEF Owners
<1>1. CASE TryLock(a)
  <2>1. Owners' = Owners \cup {a}
    BY <1>1, OwnersMove DEF TryLock
  <2>2. Promise!Grant(a)
    BY <1>0, <1>1, <2>1 DEF TryLock, Owner, Promise!Grant
  <2>3. QED
    BY <1>1, <2>2 DEF TryLock, Promise!TrackedNext
<1>2. CASE StampLock(a)
  <2>1. Owners' = Owners \cup {a}
    BY <1>2, OwnersMove DEF StampLock
  <2>2. Owners' = Owners
    BY <1>0, <1>2, <2>1 DEF StampLock, Owner
  <2>3. QED
    BY <1>2, <2>2 DEF StampLock, Promise!trackedVars, Promise!leaseVars
<1>3. CASE ExclusiveLock(a)
  <2>1. Owners' = Owners \cup {a}
    BY <1>3, OwnersMove DEF ExclusiveLock
  <2>2. Promise!Grant(a)
    BY <1>0, <1>3, <2>1 DEF ExclusiveLock, Owner, Promise!Grant
  <2>3. QED
    BY <1>3, <2>2 DEF ExclusiveLock, Promise!TrackedNext
<1>4. CASE Finish(a)
  <2>1. Owners' = Owners \ {a}
    BY <1>4, OwnersMove DEF Finish
  <2>2. Promise!Return(a)
    BY <1>0, <1>4, <2>1 DEF Finish, Owner, Promise!Return
  <2>3. QED
    BY <1>4, <2>2 DEF Finish, Promise!TrackedNext
<1>5. CASE Fail(a) /\ present
  <2>1. Owners' = Owners \cup {a}
    BY <1>5, OwnersMove DEF Fail
  <2>2. Owners' = Owners
    BY <1>0, <1>5, <2>1 DEF Fail, Owner
  <2>3. QED
    BY <1>5, <2>2 DEF Fail, Promise!trackedVars, Promise!leaseVars
<1>6. CASE Fail(a) /\ ~present
  <2>1. Owners' = Owners \ {a}
    BY <1>6, OwnersMove DEF Fail
  <2>2. Promise!Return(a)
    BY <1>0, <1>6, <2>1 DEF Fail, Owner, CloseLockInv, Promise!Return
  <2>3. QED
    BY <1>6, <2>2 DEF Fail, Promise!TrackedNext
<1>7. CASE EndUnlock(a)
  <2>1. Owners' = Owners \ {a}
    BY <1>7, OwnersMove DEF EndUnlock
  <2>2. Promise!Return(a)
    BY <1>0, <1>7, <2>1 DEF EndUnlock, Owner, Promise!Return
  <2>3. QED
    BY <1>7, <2>2 DEF EndUnlock, Promise!TrackedNext
<1>8. CASE Suppress(a)
  <2>1. Owners' = Owners \ {a}
    BY <1>8, OwnersMove DEF Suppress
  <2>2. Promise!Abandon(a)
    BY <1>0, <1>8, <2>1 DEF Suppress, Owner, Promise!Abandon
  <2>3. QED
    BY <1>8, <2>2 DEF Suppress, Promise!TrackedNext
<1>9. QED
  BY <1>1, <1>2, <1>3, <1>4, <1>5, <1>6, <1>7, <1>8 DEF Closer

\* The Sentinel looks at a lock it does not own; only its forced unlock breaks it.
LEMMA SentinelKeepsLease ==
  ASSUME TypeOK, SentinelLook
  PROVE  Promise!TrackedNext \/ UNCHANGED Promise!trackedVars
<1> Sentinel \in Closers
  BY DEF Closers
<1>1. ~Owner(Sentinel)
  BY DEF SentinelLook, LoadFlag, LoadStamp, ForceUnlock, Wait, EndForce, Owner
<1>2. \E s \in States \ {"won", "closing", "failing"} : st' = [st EXCEPT ![Sentinel] = s]
  BY DEF SentinelLook, LoadFlag, LoadStamp, ForceUnlock, Wait, EndForce, States
<1>3. Owners' = Owners \ {Sentinel}
  BY <1>2, OwnersMove
<1>4. Owners' = Owners
  BY <1>1, <1>3 DEF Owners
<1>5. CASE EndForce
  BY <1>4, <1>5 DEF EndForce, Promise!TrackedNext, Promise!TrackedBreak, Promise!Break
<1>6. CASE LoadFlag \/ LoadStamp \/ ForceUnlock \/ Wait
  BY <1>4, <1>6 DEF LoadFlag, LoadStamp, ForceUnlock, Wait, Promise!trackedVars, Promise!leaseVars
<1>7. QED
  BY <1>5, <1>6 DEF SentinelLook

\* The close lock is the lease it promises to be: every load and store of the two
\* atomics is a step of TrackedLease or changes nothing there.
THEOREM ImplementsLease == Spec => KeepsLease
<1>1. Init => Promise!TrackedInit
  BY DEF Init, Owners, Owner, Promise!TrackedInit, Promise!LeaseInit
<1>2. TypeOK /\ TypeOK' /\ CloseLockInv /\ [Next]_vars
        => [Promise!TrackedNext]_(Promise!trackedVars)
  <2> SUFFICES ASSUME TypeOK, TypeOK', CloseLockInv, [Next]_vars
               PROVE  Promise!TrackedNext \/ UNCHANGED Promise!trackedVars
    OBVIOUS
  <2>1. ASSUME NEW a \in Closers, Closer(a)
        PROVE  Promise!TrackedNext \/ UNCHANGED Promise!trackedVars
    BY <2>1, CloserKeepsLease
  <2>2. CASE SentinelLook
    BY <2>2, SentinelKeepsLease
  <2>3. st' = st => Owners' = Owners
    BY DEF Owners, Owner
  <2>4. CASE Prune \/ Insert
    BY <2>3, <2>4 DEF Prune, Insert, Promise!TrackedNext, Promise!TrackedBreak, Promise!Break
  <2>5. CASE Tick
    BY <2>3, <2>5 DEF Tick, Promise!trackedVars, Promise!leaseVars
  <2>6. CASE UNCHANGED vars
    BY <2>3, <2>6 DEF vars, Promise!trackedVars, Promise!leaseVars
  <2>7. QED
    BY <2>1, <2>2, <2>4, <2>5, <2>6 DEF Next
<1>3. Init => CloseLockInv
  BY DEF Init, CloseLockInv, TypeOK, NoStuckLock, States
<1>4. TypeOK /\ TypeOK' /\ CloseLockInv /\ [Next]_vars => CloseLockInv'
  BY InvStep
<1>5. QED
  BY <1>1, <1>2, <1>3, <1>4, TypeCorrect, PTL DEF Spec, KeepsLease, Promise!TrackedSpec

=============================================================================
