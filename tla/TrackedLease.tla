------------------------------ MODULE TrackedLease ------------------------------
(****************************************************************************)
(* A lease that remembers whether it was broken under somebody at work.     *)
(****************************************************************************)
EXTENDS Lease

VARIABLE broken      \* it was broken while somebody was working

trackedVars == <<leaseVars, broken>>

TrackedInit == LeaseInit /\ broken = FALSE

\* A fresh record starts with a clean slate.
TrackedBreak == Break /\ broken' \in {broken \/ working # {}, working # {}}

TrackedNext ==
    \/ TrackedBreak
    \/ \E w \in Workers : (Grant(w) \/ Return(w) \/ Abandon(w)) /\ UNCHANGED broken

TrackedSpec == TrackedInit /\ [][TrackedNext]_trackedVars

=============================================================================
