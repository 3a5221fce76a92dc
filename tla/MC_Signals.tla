------------------------------ MODULE MC_Signals ------------------------------
(* Two coins, one of them hot at a time, a probability that passes the         *)
(* threshold of the first layer only, and prices that make candles with and    *)
(* without a burst, with and without a pin bar.                                *)
EXTENDS Signals

MCHotLists == {{"a"}, {"b"}}
MCProbs == {66}
MCPrices == {1000, 1012, 1030}
MCThreshold == [layer1 |-> 62, layer2 |-> 65, layer3 |-> 70]
=============================================================================
