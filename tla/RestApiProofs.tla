----------------------------- MODULE RestApiProofs -----------------------------
(****************************************************************************)
(* The token bucket of RestApi never admits more, in any stretch of time,   *)
(* than a full bucket and what is refilled meanwhile, and a pause holds     *)
(* back every call that asks for it.                                        *)
(*                                                                          *)
(* The bound is not inductive: it holds because what was spent and what is  *)
(* still there never exceed it together, and what is there counts the       *)
(* refill that the bucket has not been given yet.                           *)
(****************************************************************************)
EXTENDS RestApi, TLAPS

\* The bucket and the history have numbers in them.
LEMMA LimiterNats == TypeOK => tokens \in Nat /\ due \in Nat /\ spent \in Nat /\ age \in Nat
BY BucketAssumption, TimesAssumption DEF TypeOK

\* Sums of a bound and its growth.
LEMMA Sums ==
  ASSUME NEW s \in Nat, NEW a \in Nat, NEW b \in Nat, NEW r \in Nat, NEW x \in Nat,
         s + a <= x, b <= a + r
  PROVE  s + b <= x + r
OBVIOUS

LEMMA RateTimes == \A n \in Nat : Rate * n \in Nat /\ Rate * (n + 1) = Rate * n + Rate /\ Rate * 0 = 0
BY BucketAssumption

\* TypeOK holds throughout.
THEOREM TypeCorrect == Spec => []TypeOK
<1>1. Init => TypeOK
  BY BucketAssumption, TimesAssumption DEF Init, TypeOK
<1>2. TypeOK /\ [Next]_vars => TypeOK'
  <2> SUFFICES ASSUME TypeOK, [Next]_vars
               PROVE  TypeOK'
    OBVIOUS
  <2> USE BucketAssumption, TimesAssumption
  <2>1. Available \in 0 .. Capacity
    BY DEF TypeOK, Available, AtMost
  <2>2. ASSUME NEW c \in Calls, NEW kind \in MeteredKinds, NEW w \in WeightsOf(kind),
               Admit(c, kind, w)
        PROVE  TypeOK'
    <3>1. w \in Nat
      BY <2>2, WeightsAssumption DEF WeightsOf
    <3>2. tokens' \in 0 .. Capacity /\ spent' \in Nat
      BY <2>1, <2>2, <3>1 DEF Admit, TypeOK
    <3>3. call' \in [Calls -> CallKinds \cup {"none"}]
      BY <2>2 DEF Admit, TypeOK, CallKinds
    <3>4. sent' \subseteq {d \in Calls : call'[d] # "none"}
      BY <2>2 DEF Admit, TypeOK, MeteredKinds, HandledKinds, PlainKinds
    <3> QED
      BY <2>2, <3>2, <3>3, <3>4 DEF Admit, TypeOK
  <2>3. ASSUME NEW c \in Calls, NEW kind \in MeteredKinds, NEW w \in WeightsOf(kind),
               Exhausted(c, kind, w)
        PROVE  TypeOK'
    BY <2>1, <2>3 DEF Exhausted, Refill, TypeOK, callVars, historyVars
  <2>4. ASSUME NEW c \in Calls, Respond(c) \/ TooMany(c) \/ Unauthorized(c)
        PROVE  TypeOK'
    <3>1. /\ call' \in [Calls -> CallKinds \cup {"none"}]
          /\ sent' \subseteq {d \in Calls : call'[d] # "none"}
      BY <2>4 DEF Respond, TooMany, Unauthorized, TypeOK
    <3>2. CASE Respond(c)
      BY <3>1, <3>2 DEF Respond, TypeOK, limiterVars, historyVars
    <3>3. CASE TooMany(c)
      BY <3>1, <3>3 DEF TooMany, StartPause, TypeOK, limiterVars, historyVars
    <3>4. CASE Unauthorized(c)
      BY <3>1, <3>4 DEF Unauthorized, TypeOK, limiterVars, historyVars
    <3> QED
      BY <2>4, <3>2, <3>3, <3>4
  <2>5. CASE Tick
    BY <2>5 DEF Tick, AtMost, Paused, TypeOK, callVars
  <2>6. CASE Observe
    BY <2>6 DEF Observe, TypeOK, limiterVars, callVars
  <2>7. CASE UNCHANGED vars
    BY <2>7 DEF vars, TypeOK, limiterVars, callVars, historyVars
  <2>8. ASSUME NEW c \in Calls, Send(c)
        PROVE  TypeOK'
    BY <2>8 DEF Send, TypeOK, limiterVars, historyVars
  <2>9. ASSUME NEW c \in Calls, NEW kind \in FreeKinds, SendFree(c, kind)
        PROVE  TypeOK'
    <3>1. call' \in [Calls -> CallKinds \cup {"none"}]
      BY <2>9 DEF SendFree, TypeOK, CallKinds
    <3>2. sent' \subseteq {d \in Calls : call'[d] # "none"}
      BY <2>9 DEF SendFree, TypeOK, FreeKinds
    <3> QED
      BY <2>9, <3>1, <3>2 DEF SendFree, TypeOK, limiterVars, historyVars
  <2> QED
    BY <2>2, <2>3, <2>4, <2>5, <2>6, <2>7, <2>8, <2>9 DEF Next
<1> QED
  BY <1>1, <1>2, PTL DEF Spec

\* Spent and still available together stay within the budget.
Allowance == Capacity + Rate * age

Budget == spent + Available <= Allowance

LEMMA BudgetStep ==
  ASSUME TypeOK, Budget, [Next]_vars
  PROVE  Budget'
<1> USE BucketAssumption
<1>1. /\ tokens \in Nat /\ due \in Nat /\ spent \in Nat /\ age \in Nat
      /\ Allowance \in Nat
      /\ Available \in 0 .. Capacity
  BY LimiterNats, RateTimes DEF Allowance, Available, AtMost
<1>2. ASSUME NEW c \in Calls, NEW kind \in MeteredKinds, NEW w \in WeightsOf(kind),
             Admit(c, kind, w)
      PROVE  Budget'
  <2>1. w \in Nat
    BY <1>2, WeightsAssumption DEF WeightsOf
  <2>2. Available' = Available - w
    BY <1>1, <1>2, <2>1 DEF Admit, Available, AtMost
  <2>3. spent' = spent + w /\ Allowance' = Allowance
    BY <1>2 DEF Admit, Allowance
  <2> QED
    BY <1>1, <2>1, <2>2, <2>3 DEF Budget
<1>3. ASSUME NEW c \in Calls, NEW kind \in MeteredKinds, NEW w \in WeightsOf(kind),
             Exhausted(c, kind, w)
      PROVE  Budget'
  <2>1. Available' = Available
    BY <1>1, <1>3 DEF Exhausted, Refill, Available, AtMost
  <2> QED
    BY <1>3, <2>1 DEF Exhausted, historyVars, Budget, Allowance
<1>4. ASSUME NEW c \in Calls, NEW kind \in FreeKinds,
             Send(c) \/ SendFree(c, kind) \/ Respond(c) \/ TooMany(c) \/ Unauthorized(c)
      PROVE  Budget'
  BY <1>4 DEF Send, SendFree, Respond, TooMany, Unauthorized, limiterVars, historyVars,
              Budget, Available, Allowance
<1>5. CASE Tick
  <2>1. (Available' \in 0 .. Capacity) /\ (Available' <= Available + Rate)
    BY <1>1, <1>5 DEF Tick, Available, AtMost
  <2>2. CASE age < Window
    <3>1. age' = age + 1 /\ spent' = spent
      BY <1>5, <2>2 DEF Tick
    <3>2. Allowance' = Allowance + Rate
      BY <1>1, <3>1, RateTimes DEF Allowance
    <3>3. Available \in Nat /\ Available' \in Nat /\ spent + Available <= Allowance
      BY <1>1, <2>1 DEF Budget
    <3>4. spent + Available' <= Allowance + Rate
      BY <1>1, <2>1, <3>3, Sums
    <3> QED
      BY <3>1, <3>2, <3>4 DEF Budget
  <2>3. CASE ~(age < Window)
    <3>1. spent' = 0 /\ Allowance' = Capacity
      BY <1>5, <2>3, RateTimes DEF Tick, Allowance
    <3>2. 0 + Available' <= Capacity
      <4> DEFINE avail == Available'
      <4>1. avail \in 0 .. Capacity
        BY <2>1
      <4> HIDE DEF avail
      <4>2. 0 + avail <= Capacity
        BY <4>1
      <4> QED
        BY <4>2 DEF avail
    <3> QED
      BY <3>1, <3>2 DEF Budget
  <2> QED
    BY <2>2, <2>3
<1>6. CASE Observe
  <2>1. spent' = 0 /\ Allowance' = Capacity /\ Available' = Available
    BY <1>6, RateTimes DEF Observe, limiterVars, Available, Allowance
  <2> QED
    BY <1>1, <2>1 DEF Budget
<1>7. CASE UNCHANGED vars
  BY <1>7 DEF vars, limiterVars, historyVars, Budget, Available, Allowance
<1> QED
  BY <1>2, <1>3, <1>4, <1>5, <1>6, <1>7 DEF Next, FreeKinds

\* In no stretch of time does check_limit_and_pause admit more weight than the bucket
\* holds and is given, for every capacity, rate, set of weights and number of calls under
\* way; the calls that do not ask it are not in the account.
THEOREM BudgetKept == Spec => []WindowBound
<1>1. Init => Budget
  BY BucketAssumption, RateTimes DEF Init, Budget, Allowance, Available, AtMost
<1>2. TypeOK /\ Budget /\ [Next]_vars => Budget'
  BY BudgetStep
<1>3. TypeOK /\ Budget => WindowBound
  <2> SUFFICES ASSUME TypeOK, Budget PROVE WindowBound
    OBVIOUS
  <2>1. Available \in Nat /\ spent \in Nat /\ Rate * age \in Nat
    BY BucketAssumption, LimiterNats, RateTimes DEF Available, AtMost
  <2> QED
    BY <2>1, BucketAssumption DEF Budget, Allowance, WindowBound
<1> QED
  BY <1>1, <1>2, <1>3, TypeCorrect, PTL DEF Spec

\* A running pause and the time since the last 429 make up the whole pause.
PauseInv == pause + quiet = PauseTicks

\* check_limit_and_pause admits no call that does not close before the pause after the
\* last 429 given to handle_response is over, for any number of calls under way and any
\* length of the pause.
THEOREM PauseHeld == Spec => PauseKept
<1>1. Init => PauseInv
  BY TimesAssumption DEF Init, PauseInv
<1>2. TypeOK /\ PauseInv /\ [Next]_vars => PauseInv'
  <2> SUFFICES ASSUME TypeOK, PauseInv, [Next]_vars
               PROVE  PauseInv'
    OBVIOUS
  <2> USE TimesAssumption DEF PauseInv
  <2>1. CASE Tick
    BY <2>1 DEF Tick, Paused, AtMost, TypeOK
  <2>2. ASSUME NEW c \in Calls, TooMany(c)
        PROVE  PauseInv'
    BY <2>2 DEF TooMany, StartPause
  <2>3. CASE UNCHANGED <<pause, quiet>>
    BY <2>3
  <2> QED
    BY <2>1, <2>2, <2>3
    DEF Next, vars, Admit, Exhausted, Send, SendFree, Respond, Unauthorized, Observe
<1>3. TypeOK /\ PauseInv /\ [Next]_vars =>
        [\A c \in Calls, kind \in MeteredKinds \ ClosingKinds :
           (\E w \in WeightsOf(kind) : Admit(c, kind, w)) => quiet = PauseTicks]_vars
  BY TimesAssumption DEF Admit, HeldBack, Paused, PauseInv, TypeOK
<1> QED
  BY <1>1, <1>2, <1>3, TypeCorrect, PTL DEF Spec, PauseKept

=============================================================================
