---------------------------- MODULE MC_RiskGuard ----------------------------
(* RiskGuard with an ROE on each side of every threshold of the phases.        *)
EXTENDS RiskGuard

MCLevels == {-130, -60, 10, 90, 120, 250, 410}
MCStops == {-120, -49}
=============================================================================
