----------------------------- MODULE MarketStreams -----------------------------
(****************************************************************************)
(* The hot coins and the order flow stream that follows them: the radar     *)
(* writes the list every five minutes (main.rs), BinanceWsDepth             *)
(* (binance_ws.rs) subscribes to the coins on it and reconnects when it     *)
(* changes.                                                                 *)
(****************************************************************************)
EXTENDS Integers, Sequences, FiniteSets

CONSTANTS
    Symbols,
    HotLists     \* the lists the radar may come up with

ASSUME HotListsAssumption == HotLists \subseteq SUBSET Symbols

VARIABLES
    hot,         \* hot_coins
    subs         \* the coins of the connection there is, {} when there is none

streamVars == <<hot, subs>>

StreamInit == hot = {} /\ subs = {}

\* The 24 hour tickers are fetched, filtered, sorted and cut to twenty.
Radar ==
    /\ hot' \in HotLists
    /\ UNCHANGED subs

\* A connection is made for the coins that are hot now, or fails and is tried again; an
\* empty list is waited out.
Dial ==
    /\ subs = {}
    /\ hot # {}
    /\ subs' \in {hot, {}}
    /\ UNCHANGED hot

\* Faulty variant: only the length of the list is compared.
NoticeLength ==
    /\ subs # {}
    /\ Cardinality(hot) # Cardinality(subs)
    /\ subs' = {}
    /\ UNCHANGED hot

\* Before it waits for a message, the loop looks whether the list has changed.
Notice ==
    /\ subs # {}
    /\ hot # subs
    /\ subs' = {}
    /\ UNCHANGED hot

\* The stream ends, or is silent for fifteen seconds.
Lost ==
    /\ subs # {}
    /\ subs' = {}
    /\ UNCHANGED hot

StreamStep == Radar \/ Dial \/ Notice \/ Lost

\* The loop of the stream waits fifteen seconds for a message at most, then looks again.
StreamFairness == WF_streamVars(Notice)

=============================================================================
