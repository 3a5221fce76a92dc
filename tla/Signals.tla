-------------------------------- MODULE Signals --------------------------------
(****************************************************************************)
(* From the hot list to the decision: the order flow stream (MarketStreams),*)
(* the inference cycle (Inference), the channel between it and the main     *)
(* loop, and process_signal (trend_processor.rs), while other tasks close   *)
(* and adopt positions.  How an order is executed is the subject of         *)
(* Executor; here it is filled or it fails.                                 *)
(****************************************************************************)
EXTENDS Inference

CONSTANTS
    Threshold,      \* prob_threshold, per layer
    MaxPositions,
    Others          \* the positions other tasks may add: a bound

ASSUME SignalsAssumption ==
    /\ Threshold \in [{"layer1", "layer2", "layer3"} -> Nat]
    /\ MaxPositions \in Nat
    /\ Others \in Nat

VARIABLES
    main,           \* the main loop: "idle", "reversing" or "opening"
    order           \* the coin and the side it does that for

NoOrder == [sym |-> "none"]

mainVars == <<main, order>>
vars == <<streamVars, positions, inferVars, mainVars>>

Init ==
    /\ StreamInit /\ InferInit
    /\ positions = [s \in Symbols |-> "none"]
    /\ main = "idle" /\ order = NoOrder

Side(long) == IF long THEN "long" ELSE "short"

HeldSymbols == {s \in Symbols : Held(s)}

\* A tier that is not one of the three layers has the threshold of the third.
Target(sig) == IF sig.tier \in DOMAIN Threshold THEN Threshold[sig.tier] ELSE Threshold["layer3"]

Sure(sig) == sig.prob >= Target(sig)

----------------------------------------------------------------------------
(* The main loop, process_signal *)

\* The next signal is taken from the channel.
Take(sig) ==
    /\ main = "idle"
    /\ queue # <<>>
    /\ sig = Head(queue)
    /\ queue' = Tail(queue)

\* The signal opposes the position: lock it and close it.
Reverse(sig) ==
    /\ Take(sig)
    /\ Held(sig.sym) /\ positions[sig.sym] # Side(sig.long)
    /\ Sure(sig)
    /\ main' = "reversing"
    /\ order' = [sym |-> sig.sym, long |-> sig.long]
    /\ UNCHANGED positions

\* The coin is held (on the same side, or another task closes it), all slots are taken,
\* or the probability is too low.
Ignore(sig) ==
    /\ Take(sig)
    /\ \/ Held(sig.sym)
       \/ Cardinality(HeldSymbols) >= MaxPositions
       \/ ~Sure(sig)
    /\ UNCHANGED <<main, order, positions>>

\* An order is sized and sent.  A trend of the day, strong and close to its extreme,
\* overrides a signal against it, and the threshold as well; a momentum signal it does
\* not touch.
Decide(sig) ==
    /\ Take(sig)
    /\ ~Held(sig.sym)
    /\ Cardinality(HeldSymbols) < MaxPositions
    /\ main' = "opening"
    /\ \/ Sure(sig) /\ order' = [sym |-> sig.sym, long |-> sig.long]
       \/ sig.tier # "momentum" /\ order' = [sym |-> sig.sym, long |-> ~sig.long]
    /\ UNCHANGED positions

Done == main' = "idle" /\ order' = NoOrder

\* The close is executed, or fails; either way the signal opens nothing.
Reversed ==
    /\ main = "reversing"
    /\ Done
    /\ \/ positions' = [positions EXCEPT ![order.sym] = "none"]
       \/ UNCHANGED positions
    /\ UNCHANGED queue

\* Faulty variant: a position adopted meanwhile keeps the order from being stored, and
\* the loop with it.
OpenedIfFree ==
    /\ main = "opening"
    /\ ~Held(order.sym)
    /\ Done
    /\ \/ positions' = [positions EXCEPT ![order.sym] = Side(order.long)]
       \/ UNCHANGED positions
    /\ UNCHANGED queue

\* The order is filled and stored, or it fails, or the run is a dry one.
Opened ==
    /\ main = "opening"
    /\ Done
    /\ \/ positions' = [positions EXCEPT ![order.sym] = Side(order.long)]
       \/ UNCHANGED positions
    /\ UNCHANGED queue

MainStep ==
    \/ Reverse(Head(queue)) \/ Ignore(Head(queue)) \/ Decide(Head(queue))
    \/ Reversed \/ Opened

----------------------------------------------------------------------------
(* Other tasks *)

\* The Sentinel or the RiskGuard closes a position, or the reconciler removes it.
Close(s) ==
    /\ Held(s)
    /\ positions' = [positions EXCEPT ![s] = "none"]

\* The reconciler adopts a position.
Adopt(s) ==
    /\ ~Held(s)
    /\ Cardinality(HeldSymbols) < Others
    /\ \E long \in BOOLEAN : positions' = [positions EXCEPT ![s] = Side(long)]

----------------------------------------------------------------------------

Next ==
    \/ StreamStep /\ UNCHANGED <<positions, inferVars, mainVars>>
    \/ InferStep /\ UNCHANGED <<streamVars, positions, mainVars>>
    \/ MainStep /\ UNCHANGED <<streamVars, cycle, agenda, best>>
    \/ (\E s \in Symbols : Close(s) \/ Adopt(s)) /\ UNCHANGED <<streamVars, inferVars, mainVars>>

Spec == Init /\ [][Next]_vars

\* Every call of the inference thread and of the main loop comes to an end.
Fairness ==
    /\ StreamFairness
    /\ WF_vars(InferStep /\ UNCHANGED <<streamVars, positions, mainVars>>)
    /\ WF_vars(MainStep /\ UNCHANGED <<streamVars, cycle, agenda, best>>)

FairSpec == Spec /\ Fairness

----------------------------------------------------------------------------
(* Properties *)

\* Every variable has its type; the channel holds no more than its capacity and the one
\* signal the inference thread waits to send, and a signal to verify is there.
TypeOK ==
    /\ hot \subseteq Symbols /\ subs \subseteq Symbols
    /\ positions \in [Symbols -> {"none", "long", "short"}]
    /\ cycle \in {"rest", "list", "scan", "verify"}
    /\ agenda \in [1..4 -> SUBSET Symbols]
    /\ best \in Signal \cup {NoSignal}
    /\ cycle = "verify" => best \in Signal
    /\ queue \in Seq(Signal) /\ Len(queue) <= QueueMax + 1
    /\ main \in {"idle", "reversing", "opening"}
    /\ order \in [sym : Symbols, long : BOOLEAN] \cup {NoOrder}

\* What the repository's README.md:9 promises, that a burst which the day's range and the
\* order book confirm "overrides the AI's mean-reversion signals and dynamically flips to
\* momentum trend-following trades", and what inference.rs sets out to do: the signal is
\* turned round and sent.  The veto, looked at first, drops it every time.
FlipSent ==
    [][\A c \in Candles :
         cycle = "verify" /\ Burst(c, best.long) /\ Judge(c, TRUE)
           => queue' = Append(queue, Flipped(best))]_vars

\* A coin that stays held is asked about again and again, on the hot list or not.
Due(s) == \E i \in 1..4 : s \in agenda[i]
HeldWatched == \A s \in Symbols : <>[]Held(s) => []<>Due(s) /\ []<>~Due(s)

\* The inference cycle comes to its end again and again, with nothing left to send,
\* though a full channel stops it and the main loop may be executing an order.
CycleEnds == []<>(cycle = "rest" /\ ~Blocked)

\* Once the hot list stays the same, the order flow stream carries no other coin's.
SubscriptionFollows ==
    \A h \in HotLists \ {{}} : <>[](hot = h) => <>[](subs \subseteq h)

=============================================================================
