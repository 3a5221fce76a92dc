----------------------------- MODULE SignalsProofs -----------------------------
(****************************************************************************)
(* What holds of the signals for any coins, layers, thresholds, prices and  *)
(* capacity of the channel: type correctness, and that the flip of a signal *)
(* against a burst never reaches the main loop.                             *)
(****************************************************************************)
EXTENDS Signals, TLAPS

USE HotListsAssumption, InferenceAssumption, SignalsAssumption

\* A candle whose body runs 1.5 % against a signal is a pin bar for it: the veto comes
\* first, whatever the prices.
LEMMA VetoAbsorbsFlip ==
  ASSUME NEW c \in Candles, NEW long \in BOOLEAN, Burst(c, long)
  PROVE  PinBar(c, long)
<1> DEFINE o == c.open  h == c.high  l == c.low  cl == c.close
<1>1. o \in Nat \ {0} /\ h \in Nat \ {0} /\ l \in Nat \ {0} /\ cl \in Nat \ {0}
  BY DEF Candles
<1>2. l <= o /\ o <= h /\ l <= cl /\ cl <= h
  BY DEF Candles
<1>3. long => 1000 * (cl - o) < -15 * o
  BY DEF Burst
<1>4. ~long => 1000 * (cl - o) > 15 * o
  BY DEF Burst
<1>5. PinBar(c, long) <=> IF long THEN 1000 * (h - cl) > 8 * cl ELSE 1000 * (cl - l) > 8 * l
  BY DEF PinBar
<1> HIDE DEF o, h, l, cl
<1>6. CASE long
  <2>1. 1000 * (h - cl) > 8 * cl
    BY <1>1, <1>2, <1>3, <1>6
  <2>2. QED
    BY <1>5, <1>6, <2>1
<1>7. CASE ~long
  <2>1. 1000 * (cl - l) > 8 * l
    BY <1>1, <1>2, <1>4, <1>7
  <2>2. QED
    BY <1>5, <1>7, <2>1
<1>8. QED
  BY <1>6, <1>7

\* What a candle that passes the veto leaves of a signal is the signal.
LEMMA FinalIsSignal ==
  ASSUME NEW sig \in Signal, NEW c \in Candles, NEW confirmed \in BOOLEAN, ~PinBar(c, sig.long)
  PROVE  Final(sig, c, confirmed) = sig
<1>1. sig.long \in BOOLEAN
  BY DEF Signal
<1>2. ~Burst(c, sig.long)
  BY <1>1, VetoAbsorbsFlip
<1>3. QED
  BY <1>2 DEF Final

\* What the AI says of a coin is a signal of one of the four tiers.
LEMMA CandidateIsSignal ==
  ASSUME NEW i \in 1..4, NEW s \in Symbols, NEW long \in BOOLEAN, NEW prob \in Probs
  PROVE  Candidate(i, s, long, prob) \in Signal /\ Candidate(i, s, long, prob).tier # "momentum"
<1>1. Tiers[i] \in {"layer1", "layer2", "layer3", "held_positions"}
  BY DEF Tiers
<1>2. prob \in Nat
  OBVIOUS
<1>3. QED
  BY <1>1, <1>2 DEF Candidate, Signal, TierNames

\* No signal is marked as turned round, neither the one to verify nor one in the channel.
Straight(q) == \A i \in 1..Len(q) : q[i].tier # "momentum"

FlipInv ==
    /\ TypeOK
    /\ best \in Signal => best.tier # "momentum"
    /\ Straight(queue)

\* A queue that another signal joins, or the first one leaves, remains one of signals.
LEMMA AppendKeeps ==
  ASSUME NEW q \in Seq(Signal), NEW sig \in Signal, Straight(q), sig.tier # "momentum"
  PROVE  Append(q, sig) \in Seq(Signal) /\ Len(Append(q, sig)) = Len(q) + 1 /\ Straight(Append(q, sig))
<1>1. Append(q, sig) \in Seq(Signal) /\ Len(Append(q, sig)) = Len(q) + 1
  OBVIOUS
<1>2. ASSUME NEW i \in 1..Len(Append(q, sig)) PROVE Append(q, sig)[i].tier # "momentum"
  BY <1>1 DEF Straight
<1>3. QED
  BY <1>1, <1>2 DEF Straight

LEMMA TailKeeps ==
  ASSUME NEW q \in Seq(Signal), Straight(q), q # <<>>
  PROVE  /\ Tail(q) \in Seq(Signal) /\ Len(Tail(q)) = Len(q) - 1 /\ Straight(Tail(q))
         /\ Head(q) \in Signal
<1>1. Tail(q) \in Seq(Signal) /\ Len(Tail(q)) = Len(q) - 1 /\ Head(q) \in Signal
  OBVIOUS
<1>2. ASSUME NEW i \in 1..Len(Tail(q)) PROVE Tail(q)[i].tier # "momentum"
  <2>1. Tail(q)[i] = q[i + 1] /\ i + 1 \in 1..Len(q)
    BY <1>1
  <2>2. QED
    BY <2>1 DEF Straight
<1>3. QED
  BY <1>1, <1>2 DEF Straight

----------------------------------------------------------------------------

LEMMA FlipInit == Init => FlipInv
<1> SUFFICES ASSUME Init PROVE FlipInv
  OBVIOUS
<1>1. hot \subseteq Symbols /\ subs \subseteq Symbols
  BY DEF Init, StreamInit
<1>2. positions \in [Symbols -> {"none", "long", "short"}]
  BY DEF Init
<1>3. cycle = "rest" /\ agenda \in [1..4 -> SUBSET Symbols] /\ best = NoSignal
  BY DEF Init, InferInit, Idle
<1>4. best \notin Signal
  BY <1>3 DEF NoSignal, Signal
<1>5. queue = <<>>
  BY DEF Init, InferInit
<1>6. queue \in Seq(Signal) /\ Len(queue) <= QueueMax + 1 /\ Straight(queue)
  BY <1>5 DEF Straight
<1>7. main = "idle" /\ order = NoOrder
  BY DEF Init
<1>8. QED
  BY <1>1, <1>2, <1>3, <1>4, <1>6, <1>7 DEF FlipInv, TypeOK

\* The part of the invariant the inference thread can disturb.
InferOK ==
    /\ cycle \in {"rest", "list", "scan", "verify"}
    /\ agenda \in [1..4 -> SUBSET Symbols]
    /\ best \in Signal \cup {NoSignal}
    /\ cycle = "verify" => best \in Signal
    /\ best \in Signal => best.tier # "momentum"
    /\ queue \in Seq(Signal) /\ Len(queue) <= QueueMax + 1
    /\ Straight(queue)

\* What it sends, it sends while the channel has room.
LEMMA SendKeeps ==
  ASSUME FlipInv, ~Blocked, NEW sig \in Signal, sig.tier # "momentum", Send(sig)
  PROVE  InferOK'
<1>1. queue \in Seq(Signal) /\ Len(queue) <= QueueMax /\ Straight(queue)
  BY DEF FlipInv, TypeOK, Blocked
<1>2. queue' \in Seq(Signal) /\ Len(queue') <= QueueMax + 1 /\ Straight(queue')
  BY <1>1, AppendKeeps DEF Send
<1>3. NoSignal \notin Signal
  BY DEF NoSignal, Signal
<1>4. cycle' = "rest" /\ best' = NoSignal /\ agenda' = agenda
  BY DEF Send
<1>5. QED
  BY <1>2, <1>3, <1>4 DEF InferOK, FlipInv, TypeOK

LEMMA InferKeeps ==
  ASSUME FlipInv, InferStep
  PROVE  InferOK'
<1>1. ~Blocked /\ queue \in Seq(Signal) /\ Len(queue) <= QueueMax /\ Straight(queue)
  BY DEF InferStep, Blocked, FlipInv, TypeOK
<1>2. NoSignal \notin Signal
  BY DEF NoSignal, Signal
<1>3. InferOK
  BY DEF FlipInv, TypeOK, InferOK
<1>4. CASE StartCycle \/ ListHeld
  <2>1. /\ Lists \in [1..4 -> SUBSET Symbols]
        /\ [Idle EXCEPT ![1] = hot] \in [1..4 -> SUBSET Symbols]
    BY DEF Lists, Idle, FlipInv, TypeOK
  <2>2. QED
    BY <1>3, <1>4, <2>1 DEF StartCycle, ListHeld, InferOK
<1>5. CASE EndScan
  BY <1>3, <1>5 DEF EndScan, InferOK
<1>6. ASSUME NEW i \in 1..4, NEW s \in Symbols, Turn(i, s)
      PROVE  cycle = "scan" /\ agenda' \in [1..4 -> SUBSET Symbols]
  BY <1>3, <1>6 DEF Turn, InferOK
<1>7. ASSUME NEW i \in 1..4, NEW s \in Symbols, Pass(i, s) PROVE InferOK'
  BY <1>3, <1>6, <1>7 DEF Pass, InferOK
<1>8. ASSUME NEW i \in 1..4, NEW s \in Symbols, Monitor(i, s) PROVE InferOK'
  <2>1. PICK long \in BOOLEAN, prob \in Probs : queue' = Append(queue, Candidate(i, s, long, prob))
    BY <1>8 DEF Monitor
  <2>2. queue' \in Seq(Signal) /\ Len(queue') <= QueueMax + 1 /\ Straight(queue')
    BY <1>1, <2>1, CandidateIsSignal, AppendKeeps
  <2>3. QED
    BY <1>3, <1>6, <1>8, <2>2 DEF Monitor, InferOK
<1>9. ASSUME NEW i \in 1..4, NEW s \in Symbols, Compete(i, s) PROVE InferOK'
  <2>1. PICK long \in BOOLEAN, prob \in Probs : best' = best \/ best' = Candidate(i, s, long, prob)
    BY <1>9 DEF Compete
  <2>2. best' \in Signal \cup {NoSignal} /\ (best' \in Signal => best'.tier # "momentum")
    BY <1>3, <2>1, CandidateIsSignal DEF InferOK
  <2>3. cycle' = "scan" /\ agenda' \in [1..4 -> SUBSET Symbols] /\ queue' = queue
    BY <1>6, <1>9 DEF Compete
  <2>4. QED
    BY <1>3, <2>2, <2>3 DEF InferOK
<1>10. CASE cycle = "verify"
  <2>1. best \in Signal /\ best.tier # "momentum"
    BY <1>3, <1>10 DEF InferOK
  <2>2. CASE SendUnverified
    BY <1>1, <2>1, <2>2, SendKeeps DEF SendUnverified
  <2>3. CASE SendVerified
    <3>1. PICK c \in Candles, confirmed \in BOOLEAN : Judge(c, confirmed)
      BY <2>3 DEF SendVerified
    <3>2. CASE ~PinBar(c, best.long)
      <4>1. Final(best, c, confirmed) = best
        BY <2>1, <3>2, FinalIsSignal
      <4>2. QED
        BY <1>1, <2>1, <3>1, <3>2, <4>1, SendKeeps DEF Judge
    <3>3. CASE Veto
      BY <1>2, <1>3, <3>3 DEF Veto, InferOK
    <3>4. QED
      BY <3>1, <3>2, <3>3 DEF Judge
  <2>4. CASE VetoUnseen
    BY <1>2, <1>3, <2>4 DEF VetoUnseen, Veto, InferOK
  <2>5. QED
    BY <1>4, <1>5, <1>7, <1>8, <1>9, <2>2, <2>3, <2>4 DEF InferStep
<1>11. QED
  BY <1>4, <1>5, <1>7, <1>8, <1>9, <1>10
  DEF InferStep, SendUnverified, SendVerified, VetoUnseen, Send, Veto

\* The main loop only shortens the queue, and stores a side.
LEMMA MainKeeps ==
  ASSUME FlipInv, MainStep
  PROVE  /\ positions' \in [Symbols -> {"none", "long", "short"}]
         /\ main' \in {"idle", "reversing", "opening"}
         /\ order' \in [sym : Symbols, long : BOOLEAN] \cup {NoOrder}
         /\ queue' \in Seq(Signal) /\ Len(queue') <= QueueMax + 1 /\ Straight(queue')
<1>1. /\ positions \in [Symbols -> {"none", "long", "short"}]
      /\ queue \in Seq(Signal) /\ Len(queue) <= QueueMax + 1 /\ Straight(queue)
      /\ main \in {"idle", "reversing", "opening"}
      /\ order \in [sym : Symbols, long : BOOLEAN] \cup {NoOrder}
  BY DEF FlipInv, TypeOK
<1>2. ASSUME Take(Head(queue))
      PROVE  /\ Head(queue) \in Signal
             /\ queue' \in Seq(Signal) /\ Len(queue') <= QueueMax + 1 /\ Straight(queue')
  BY <1>1, <1>2, TailKeeps DEF Take
<1>3. ASSUME NEW sig \in Signal
      PROVE  /\ [sym |-> sig.sym, long |-> sig.long] \in [sym : Symbols, long : BOOLEAN]
             /\ [sym |-> sig.sym, long |-> ~sig.long] \in [sym : Symbols, long : BOOLEAN]
  BY DEF Signal
<1>4. CASE Reverse(Head(queue))
  BY <1>1, <1>2, <1>3, <1>4 DEF Reverse
<1>5. CASE Ignore(Head(queue))
  BY <1>1, <1>2, <1>5 DEF Ignore
<1>6. CASE Decide(Head(queue))
  <2>1. /\ main' = "opening" /\ positions' = positions
        /\ \/ order' = [sym |-> Head(queue).sym, long |-> Head(queue).long]
           \/ order' = [sym |-> Head(queue).sym, long |-> ~Head(queue).long]
    BY <1>6 DEF Decide
  <2>2. Take(Head(queue))
    BY <1>6 DEF Decide
  <2>3. QED
    BY <1>1, <1>2, <1>3, <2>1, <2>2
<1>7. CASE Reversed \/ Opened
  <2>1. main' = "idle" /\ order' = NoOrder /\ queue' = queue
    BY <1>7 DEF Reversed, Opened, Done
  <2>2. positions' \in [Symbols -> {"none", "long", "short"}]
    BY <1>1, <1>7 DEF Reversed, Opened, Side
  <2>3. QED
    BY <1>1, <2>1, <2>2
<1>8. QED
  BY <1>4, <1>5, <1>6, <1>7 DEF MainStep

LEMMA FlipStep == FlipInv /\ [Next]_vars => FlipInv'
<1> SUFFICES ASSUME FlipInv, [Next]_vars PROVE FlipInv'
  OBVIOUS
<1> USE DEF FlipInv
<1>1. CASE StreamStep /\ UNCHANGED <<positions, inferVars, mainVars>>
  <2>1. hot' \subseteq Symbols /\ subs' \subseteq Symbols
    BY <1>1 DEF StreamStep, Radar, Dial, Notice, Lost, TypeOK
  <2>2. QED
    BY <1>1, <2>1 DEF inferVars, mainVars, TypeOK, Straight
<1>2. CASE InferStep /\ UNCHANGED <<streamVars, positions, mainVars>>
  <2>1. InferOK'
    BY <1>2, InferKeeps
  <2>2. QED
    BY <1>2, <2>1 DEF InferOK, streamVars, mainVars, TypeOK
<1>3. CASE MainStep /\ UNCHANGED <<streamVars, cycle, agenda, best>>
  BY <1>3, MainKeeps DEF streamVars, TypeOK
<1>4. ASSUME NEW s \in Symbols, Close(s) \/ Adopt(s), UNCHANGED <<streamVars, inferVars, mainVars>>
      PROVE  FlipInv'
  <2>1. positions' \in [Symbols -> {"none", "long", "short"}]
    BY <1>4 DEF Close, Adopt, Side, TypeOK
  <2>2. QED
    BY <1>4, <2>1 DEF streamVars, inferVars, mainVars, TypeOK, Straight
<1>5. CASE UNCHANGED vars
  BY <1>5 DEF vars, streamVars, inferVars, mainVars, TypeOK, Straight
<1>6. QED
  BY <1>1, <1>2, <1>3, <1>4, <1>5 DEF Next

\* Every variable keeps its type, and the channel holds one signal over its capacity at
\* most, for any coins, lists, probabilities and prices.
THEOREM TypeCorrect == Spec => []TypeOK
<1>1. FlipInv => TypeOK
  BY DEF FlipInv
<1>2. QED
  BY <1>1, FlipInit, FlipStep, PTL DEF Spec

\* No signal that waits for the main loop has been turned round.
FlipNeverSent == \A i \in 1..Len(queue) : queue[i].tier # "momentum"

\* No signal is ever turned round, whatever the prices: a candle whose body runs 1.5 %
\* against a signal has come back 0.8 % from its end as well, so the momentum flip of the
\* inference cycle (inference.rs:219-245), and with it all the main loop does for the tier
\* of that name, is dead code.
THEOREM NeverFlipped == Spec => []FlipNeverSent
<1>1. FlipInv => FlipNeverSent
  BY DEF FlipInv, Straight, FlipNeverSent
<1>2. QED
  BY <1>1, FlipInit, FlipStep, PTL DEF Spec

=============================================================================
