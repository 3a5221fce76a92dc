------------------------------- MODULE Inference -------------------------------
(****************************************************************************)
(* start_inference_loop (inference.rs), on a thread of its own: every cycle *)
(* asks the AI about the hot coins, two configured layers and the coins     *)
(* held, one by one.  What it says of a coin held goes to the main loop at  *)
(* once; of the others the best signal of the cycle does, unless the candle *)
(* of the last five minutes forbids it.  The channel to the main loop is    *)
(* bounded: a full one stops the cycle.                                     *)
(*                                                                          *)
(* Probabilities are in percent, prices in any integer unit.                *)
(****************************************************************************)
EXTENDS MarketStreams

CONSTANTS
    Layer2, Layer3,   \* the configured coins of these layers
    Probs,            \* the probabilities the AI may give
    Prices,           \* the prices of a candle
    QueueMax          \* capacity of the signal channel

ASSUME InferenceAssumption ==
    /\ Layer2 \subseteq Symbols /\ Layer3 \subseteq Symbols
    /\ Probs \subseteq Nat
    /\ Prices \subseteq Nat \ {0}
    /\ QueueMax \in Nat \ {0}

Tiers == <<"layer1", "layer2", "layer3", "held_positions">>
TierNames == {"layer1", "layer2", "layer3", "held_positions", "momentum"}

Signal == [sym : Symbols, long : BOOLEAN, prob : Nat, tier : TierNames]
NoSignal == [sym |-> "none"]

VARIABLES
    positions,   \* position_map: "none", "long" or "short"
    cycle,       \* "rest", "list", "scan" or "verify"
    agenda,      \* the coins still to be asked about, per tier
    best,        \* best_signal
    queue        \* the channel; a signal over its capacity is the one the inference
                 \* thread waits to send

inferVars == <<cycle, agenda, best, queue>>

Held(s) == positions[s] # "none"

\* Faulty variant: the thread waits one signal later.
BlockedLate == Len(queue) > QueueMax + 1

\* The thread waits for room in the channel.
Blocked == Len(queue) > QueueMax

Idle == [i \in 1..4 |-> {}]

InferInit ==
    /\ cycle = "rest"
    /\ agenda = Idle
    /\ best = NoSignal
    /\ queue = <<>>

----------------------------------------------------------------------------
(* The cycle *)

\* Faulty variant: the coins held have no tier of their own.
ListsWithoutHeld == <<agenda[1], Layer2, Layer3, {}>>

Lists == <<agenda[1], Layer2, Layer3, {s \in Symbols : Held(s)}>>

\* A cycle starts with a copy of the hot list ...
StartCycle ==
    /\ cycle = "rest"
    /\ agenda' = [Idle EXCEPT ![1] = hot]
    /\ cycle' = "list"
    /\ UNCHANGED <<best, queue>>

\* ... and then copies the coins held.
ListHeld ==
    /\ cycle = "list"
    /\ agenda' = Lists
    /\ cycle' = "scan"
    /\ UNCHANGED <<best, queue>>

\* The next coin is one of the first tier that has coins left.
Turn(i, s) ==
    /\ cycle = "scan"
    /\ s \in agenda[i]
    /\ \A j \in 1..(i - 1) : agenda[j] = {}
    /\ agenda' = [agenda EXCEPT ![i] = @ \ {s}]

\* Too few candles, no connection to the AI, no answer half a second after it was asked,
\* or a spread below 0.20.  Connecting and asking have no timeout of their own.
Pass(i, s) ==
    /\ Turn(i, s)
    /\ UNCHANGED <<cycle, best, queue>>

Candidate(i, s, long, prob) == [sym |-> s, long |-> long, prob |-> prob, tier |-> Tiers[i]]

\* The coin is held by the time the AI has answered: the signal is sent.
Monitor(i, s) ==
    /\ Turn(i, s)
    /\ Held(s)
    /\ \E long \in BOOLEAN, prob \in Probs : queue' = Append(queue, Candidate(i, s, long, prob))
    /\ UNCHANGED <<cycle, best>>

\* The coin is not held: its signal has to beat the best so far.
Compete(i, s) ==
    /\ Turn(i, s)
    /\ ~Held(s)
    /\ \E long \in BOOLEAN, prob \in Probs :
         best' = IF best = NoSignal \/ prob > best.prob
                   THEN Candidate(i, s, long, prob) ELSE best
    /\ UNCHANGED <<cycle, queue>>

EndScan ==
    /\ cycle = "scan"
    /\ \A i \in 1..4 : agenda[i] = {}
    /\ cycle' = IF best = NoSignal THEN "rest" ELSE "verify"
    /\ UNCHANGED <<agenda, best, queue>>

----------------------------------------------------------------------------
(* The candle of the last five minutes *)

Candles == {c \in [open : Prices, high : Prices, low : Prices, close : Prices] :
              c.low <= c.open /\ c.open <= c.high /\ c.low <= c.close /\ c.close <= c.high}

\* The price came back more than 0.8 % from the end of the candle the signal bets on.
PinBar(c, long) ==
    IF long THEN 1000 * (c.high - c.close) > 8 * c.close
            ELSE 1000 * (c.close - c.low) > 8 * c.low

\* The body of the candle runs more than 1.5 % against the signal.
Burst(c, long) ==
    IF long THEN 1000 * (c.close - c.open) < -15 * c.open
            ELSE 1000 * (c.close - c.open) > 15 * c.open

\* The signal turned round.
Flipped(sig) == [sig EXCEPT !.long = ~sig.long, !.prob = 99, !.tier = "momentum"]

\* confirmed: the day's low (high) is less than 2 % away and the order book agrees.
Final(sig, c, confirmed) == IF Burst(c, sig.long) /\ confirmed THEN Flipped(sig) ELSE sig

Send(sig) ==
    /\ cycle = "verify"
    /\ queue' = Append(queue, sig)
    /\ best' = NoSignal
    /\ cycle' = "rest"
    /\ UNCHANGED agenda

\* The signal is not sent.
Veto ==
    /\ cycle = "verify"
    /\ best' = NoSignal
    /\ cycle' = "rest"
    /\ UNCHANGED <<agenda, queue>>

\* The candle is there: it vetoes the signal, or the signal is sent as the candle leaves it.
Judge(c, confirmed) ==
    \/ PinBar(c, best.long) /\ Veto
    \/ ~PinBar(c, best.long) /\ Send(Final(best, c, confirmed))

SendVerified ==
    /\ cycle = "verify"
    /\ \E c \in Candles, confirmed \in BOOLEAN : Judge(c, confirmed)

\* The answer has no candle: the signal is sent as it is.
SendUnverified == Send(best)

\* The request for the candle fails.
VetoUnseen == Veto

InferStep ==
    /\ ~Blocked
    /\ \/ StartCycle \/ ListHeld \/ EndScan
       \/ \E i \in 1..4, s \in Symbols : Pass(i, s) \/ Monitor(i, s) \/ Compete(i, s)
       \/ SendVerified \/ SendUnverified \/ VetoUnseen

=============================================================================
