-------------------------- MODULE MC_RiskGuardHistory --------------------------
(* RiskGuardHistory with the ROEs and stops of MC_RiskGuard.                      *)
EXTENDS RiskGuardHistory

MCLevels == {-130, -60, 10, 90, 120, 250, 410}
MCStops == {-120, -49}
=============================================================================
