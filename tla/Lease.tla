--------------------------------- MODULE Lease ---------------------------------
(****************************************************************************)
(* What the close lock of a record promises: the position is on lease to    *)
(* whoever closes it.  The lease is given only while it is free, and the    *)
(* one who has it gives it back by coming to an end.  It may also be broken,*)
(* by a time-out or because the record goes or is replaced, and a closer    *)
(* that still works on is then no longer alone.                             *)
(****************************************************************************)
CONSTANT Workers     \* those who may close the position

VARIABLES
    leased,      \* somebody was given the lease and it was not taken back
    working      \* those who believe they have it

leaseVars == <<leased, working>>

LeaseInit ==
    /\ leased = FALSE
    /\ working = {}

Grant(w) ==
    /\ ~leased
    /\ w \notin working
    /\ leased' = TRUE
    /\ working' = working \cup {w}

\* The end of a close frees the lease, even when by now it is another one's.
Return(w) ==
    /\ w \in working
    /\ leased' = FALSE
    /\ working' = working \ {w}

\* A close that is not carried out (a dry run) leaves the lease to its time-out.
Abandon(w) ==
    /\ w \in working
    /\ working' = working \ {w}
    /\ UNCHANGED leased

\* The lease ends under whoever has it.
Break ==
    /\ leased' = FALSE
    /\ UNCHANGED working

\* The process starts anew, and nobody works on anything.
Restart ==
    /\ leased' = FALSE
    /\ working' = {}

=============================================================================
