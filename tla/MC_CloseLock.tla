------------------------------ MODULE MC_CloseLock ------------------------------
(* CloseLock with the three closers of the program: the main loop (reversal   *)
(* exits), the RiskGuard task and the Sentinel.                               *)
EXTENDS CloseLock

CONSTANTS main, risk, sentinel

MCReaders == {main}
MCWriters == {risk}
=============================================================================
