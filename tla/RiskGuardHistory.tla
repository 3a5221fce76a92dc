--------------------------- MODULE RiskGuardHistory ---------------------------
(****************************************************************************)
(* RiskGuard with a history variable: the best ROE the RiskGuard has seen   *)
(* since the symbol has had a record without interruption, whichever        *)
(* records have stood in for one another in that time.  It is what          *)
(* max_favorable_excursion of the record stands for as long as no record is *)
(* inserted over another one.                                               *)
(****************************************************************************)
EXTENDS RiskGuard

VARIABLE peak

HistoryInit == Init /\ peak = 0

HistoryNext ==
    /\ Next
    /\ peak' = IF held /\ held' THEN Better(peak, roe') ELSE 0

HistorySpec == HistoryInit /\ [][HistoryNext]_<<vars, peak>>

\* The breakeven phase's comment: a position whose profit was once above 8% may on no
\* account lose money, it is out at +1.5%.  A record inserted over the one that saw
\* the profit - by the reconciler, which looked before an open stored it, or by an
\* open, after the reconciler adopted its position - has forgotten it.
BreakevenKept ==
    [][Judges /\ ~momentum /\ peak' > 80
         => closer' # "none" \/ roe' >= 15]_<<vars, peak>>

=============================================================================
