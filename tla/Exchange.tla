-------------------------------- MODULE Exchange --------------------------------
(****************************************************************************)
(* The futures exchange, as far as the program relies on it: one net        *)
(* position per symbol, resting limit orders, market orders that execute at *)
(* once, and reduce-only orders that never take more than the position.     *)
(* None of this is in the repository: it is modelled from the calls of      *)
(* ws_api.rs and rest_api.rs and from what the executor expects of them.    *)
(****************************************************************************)
EXTENDS TradingState

\* What a reduce-only order of that side can still take from the position.
Reducible(s, side) == IF side * exch[s] < 0 THEN Abs(exch[s]) ELSE 0

\* What an order can fill now.
Fillable(s, side, q, ro) == IF ro THEN Least(q, Reducible(s, side)) ELSE q

Rests(o) == orders[o] # NoOrder /\ orders[o].rem > 0

\* An order that no longer rests is remembered only while a task will ask for it.
Settled(o, order) ==
    IF order.rem = 0 /\ \A t \in Tasks : oid[t] # o THEN NoOrder ELSE order

\* The book once the orders of set O are cancelled.
CancelledBook(O) ==
    [o \in OrderIds |-> IF o \in O /\ Rests(o)
                          THEN Settled(o, [orders[o] EXCEPT !.rem = 0])
                          ELSE orders[o]]

RestingOrder(s, side, q, ro) ==
    [sym |-> s, side |-> side, rem |-> q, done |-> 0, ro |-> ro]

\* A resting order is filled, wholly or in part.
Fill(o) ==
    /\ Rests(o)
    /\ \E n \in 1 .. orders[o].rem :
         /\ n <= Fillable(orders[o].sym, orders[o].side, orders[o].rem, orders[o].ro)
         /\ exch' = [exch EXCEPT ![orders[o].sym] = @ + orders[o].side * n]
         /\ orders' = [orders EXCEPT ![o] =
                Settled(o, [orders[o] EXCEPT !.rem = @ - n, !.done = @ + n])]
    /\ UNCHANGED <<positions, taskVars, reconVars, countVars>>

\* A post-only order that would have matched at once, or a reduce-only order with
\* nothing left to reduce, expires.
Expire(o) ==
    /\ Rests(o)
    /\ orders' = CancelledBook({o})
    /\ UNCHANGED <<exch, positions, taskVars, reconVars, countVars>>

Liquidate(s) ==
    /\ Fault("liquidation")
    /\ exch[s] # 0
    /\ exch' = [exch EXCEPT ![s] = 0]
    /\ UNCHANGED <<orders, positions, taskVars, reconVars, countVars>>

ExchangeStep ==
    \/ \E o \in OrderIds : Fill(o) \/ Expire(o)
    \/ \E s \in Symbols : Liquidate(s)

=============================================================================
