-------------------------------- MODULE MC_WsApi --------------------------------
(* A small instance of WsApi: two callers.                                     *)
EXTENDS WsApi

CONSTANTS c1, c2
=============================================================================
