----------------------------- MODULE TrendProcessor -----------------------------
(****************************************************************************)
(* TrendProcessor::process_signal (trend_processor.rs), run by the main     *)
(* loop for one signal at a time: close a position the signal opposes, or   *)
(* open one if the symbol is not held and there is a free slot.  Symbol,    *)
(* direction and confidence of the signal are left open.                    *)
(****************************************************************************)
EXTENDS Executor

Ready ==
    /\ boot = "up"
    /\ pc[main] = "idle"
    /\ todo[main] = {}

\* A confident signal against an open position: lock it and close it.
Reverse(s) ==
    /\ Ready
    /\ Held(s) /\ ~positions[s].closing
    /\ positions' = [positions EXCEPT ![s].closing = TRUE]
    /\ todo' = [todo EXCEPT ![main] = {CloseJob(s, "exit")}]
    /\ UNCHANGED <<exchVars, pc, cur, oid, got, reconVars, countVars>>

\* Faulty variant: one position too many.
SlotFreeOffByOne(s) == ~Held(s) /\ Cardinality(HeldSymbols) <= MaxPositions

\* contains_key and the max_positions check, before the balance is asked for.
SlotFree(s) == ~Held(s) /\ Cardinality(HeldSymbols) < MaxPositions

\* A confident signal for a symbol not held: ask for the balance, to size the order.
\* A dry run returns here.
Open(s) ==
    /\ Ready
    /\ SlotFree(s)
    /\ ~DryRun
    /\ opens < MaxOpens
    /\ opens' = opens + 1
    /\ \E qty \in {Lot, -Lot} :
         cur' = [cur EXCEPT ![main] =
                    [kind |-> "open", sym |-> s, qty |-> qty, reason |-> "exit"]]
    /\ pc' = [pc EXCEPT ![main] = "check"]
    /\ UNCHANGED <<exchVars, positions, todo, oid, got, reconVars, boot, mode, crashes>>

\* execute_order refuses to open what is already held in the same direction.
Duplicate(job) == Held(job.sym) /\ (positions[job.sym].amt > 0) = (job.qty > 0)

\* The checks at the head of execute_order: duplicate, funding, spread.  Margin type
\* and leverage are set next; whether that succeeds is ignored.
CheckOpen ==
    /\ pc[main] = "check"
    /\ \/ Return(main)
       \/ /\ ~Duplicate(cur[main])
          /\ \E next \in {"limit", "market"} : pc' = [pc EXCEPT ![main] = next]
          /\ UNCHANGED <<todo, cur, oid, got>>
    /\ UNCHANGED <<exchVars, positions, reconVars, countVars>>

SignalStep == CheckOpen \/ \E s \in Symbols : Reverse(s) \/ Open(s)

=============================================================================
