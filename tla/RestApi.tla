-------------------------------- MODULE RestApi --------------------------------
(****************************************************************************)
(* The REST client (rest_api.rs): the local token bucket and the global     *)
(* pause after a 429.  Most calls ask check_limit_and_pause before they are *)
(* sent, and some give their response to handle_response; five calls do     *)
(* neither.  A call is admitted under the locks of both guards, and sent    *)
(* when they are released: other calls and responses come in between.       *)
(*                                                                          *)
(* The bucket is refilled lazily, when a call asks for tokens.  Time passes *)
(* in ticks of Rate tokens; what the time since last_refill is worth never  *)
(* matters beyond a full bucket.                                            *)
(****************************************************************************)
EXTENDS Integers

CONSTANTS
    Calls,       \* calls under way at the same time (bound)
    Capacity,    \* capacity of the bucket
    Rate,        \* tokens per tick
    Weights,     \* the weights of the calls that ask for something
    PauseTicks,  \* the pause after a 429, in ticks
    Window       \* the longest stretch of time observed (bound)

ASSUME BucketAssumption == Capacity \in Nat /\ Rate \in Nat
ASSUME WeightsAssumption == Weights \subseteq Nat
ASSUME TimesAssumption == PauseTicks \in Nat /\ Window \in Nat

VARIABLES
    tokens,      \* tokens as of last_refill
    due,         \* what the time since last_refill is worth in tokens
    pause,       \* ticks to global_pause_until, 0 when over or None
    call,        \* what each call under way is, or "none"
    sent,        \* the calls of them that have been sent
    alive,       \* the process has not exited
    spent,       \* history: weight admitted in the stretch observed
    age,         \* history: length of the stretch observed
    quiet        \* history: ticks since a 429 was last handled, up to PauseTicks

limiterVars == <<tokens, due>>
callVars == <<call, sent>>
historyVars == <<spent, age>>
vars == <<limiterVars, pause, callVars, alive, historyVars, quiet>>

\* query      positions, balance, open orders, cancel_order, get_order, funding, klines,
\*            open interest: every call that asks both guards and whose response is
\*            given to handle_response
\* cancelAll  cancel_all_orders: the same, as a call that closes
\* setting    margin type, leverage, an order of place_order that may open: ask both
\*            guards, but read their response themselves
\* reduce     place_order with reduce_only: the same, as a call that closes
\* free       exchange info, server time, 24 h tickers, mark price, book ticker: ask
\*            nothing and read their response themselves
FreeKinds == {"free"}
HandledKinds == {"query", "cancelAll"}
PlainKinds == {"setting", "reduce"}
ClosingKinds == {"cancelAll", "reduce"}
MeteredKinds == HandledKinds \cup PlainKinds
CallKinds == MeteredKinds \cup FreeKinds

\* Everything but a query weighs 1.
WeightsOf(kind) == IF kind = "query" THEN Weights ELSE {1}

AtMost(a, b) == IF a < b THEN a ELSE b

\* Faulty variant: the refill is not capped.
AvailableUncapped == tokens + due

\* The tokens there are now, once refilled.
Available == AtMost(tokens + due, Capacity)

Paused == pause > 0

Init ==
    /\ tokens = Capacity
    /\ due = 0
    /\ pause = 0
    /\ call = [c \in Calls |-> "none"]
    /\ sent = {}
    /\ alive = TRUE
    /\ spent = 0
    /\ age = 0
    /\ quiet = PauseTicks

----------------------------------------------------------------------------
(* Faulty variants: not part of the specification, see the README. *)

\* last_refill is not brought forward when the call is refused after a refill.
RefillKeepsTime == tokens' = Available /\ UNCHANGED due

\* A pause that runs is not extended.
PauseOnce == pause' = IF Paused THEN pause ELSE PauseTicks

----------------------------------------------------------------------------
(* check_limit_and_pause *)

\* During a pause only calls that close may go on.
HeldBack(kind) == Paused /\ kind \notin ClosingKinds

\* consume, first half: the bucket is refilled for the time since last_refill.
Refill == tokens' = Available /\ due' = 0

\* consume: there are enough tokens, the call may go out.
Admit(c, kind, w) ==
    /\ alive
    /\ call[c] = "none"
    /\ ~HeldBack(kind)
    /\ Available >= w
    /\ tokens' = Available - w
    /\ due' = 0
    /\ call' = [call EXCEPT ![c] = kind]
    /\ spent' = spent + w
    /\ UNCHANGED <<pause, sent, alive, age, quiet>>

\* consume: "Token bucket exhausted locally", for calls that close as for all others.
Exhausted(c, kind, w) ==
    /\ alive
    /\ call[c] = "none"
    /\ ~HeldBack(kind)
    /\ Available < w
    /\ Refill
    /\ UNCHANGED <<pause, callVars, alive, historyVars, quiet>>

\* The call that was admitted is sent; neither guard is asked again.
Send(c) ==
    /\ alive
    /\ call[c] # "none" /\ c \notin sent
    /\ sent' = sent \cup {c}
    /\ UNCHANGED <<limiterVars, pause, call, alive, historyVars, quiet>>

\* A call that asks neither guard is sent.
SendFree(c, kind) ==
    /\ alive
    /\ call[c] = "none"
    /\ call' = [call EXCEPT ![c] = kind]
    /\ sent' = sent \cup {c}
    /\ UNCHANGED <<limiterVars, pause, alive, historyVars, quiet>>

----------------------------------------------------------------------------
(* handle_response *)

\* What a 429 does to the pause.
StartPause == pause' = PauseTicks

\* The call is over: success, no answer, or an error that only its caller learns of.
Respond(c) ==
    /\ c \in sent
    /\ call' = [call EXCEPT ![c] = "none"]
    /\ sent' = sent \ {c}
    /\ UNCHANGED <<limiterVars, pause, alive, historyVars, quiet>>

\* 429 Too Many Requests.
TooMany(c) ==
    /\ c \in sent /\ call[c] \in HandledKinds
    /\ call' = [call EXCEPT ![c] = "none"]
    /\ sent' = sent \ {c}
    /\ StartPause
    /\ quiet' = 0
    /\ UNCHANGED <<limiterVars, alive, historyVars>>

\* 401 Unauthorized: the process exits, in the middle of whatever else it does.
Unauthorized(c) ==
    /\ alive
    /\ c \in sent /\ call[c] \in HandledKinds
    /\ alive' = FALSE
    /\ call' = [d \in Calls |-> "none"]
    /\ sent' = {}
    /\ UNCHANGED <<limiterVars, pause, historyVars, quiet>>

----------------------------------------------------------------------------

\* Time passes; a stretch of full length is observed no further.
Tick ==
    /\ due' = AtMost(due + Rate, Capacity)
    /\ pause' = IF Paused THEN pause - 1 ELSE 0
    /\ quiet' = AtMost(quiet + 1, PauseTicks)
    /\ IF age < Window THEN age' = age + 1 /\ UNCHANGED spent
                       ELSE age' = 0 /\ spent' = 0
    /\ UNCHANGED <<tokens, callVars, alive>>

\* Any moment may be the first of the stretch observed.
Observe ==
    /\ spent' = 0
    /\ age' = 0
    /\ UNCHANGED <<limiterVars, pause, callVars, alive, quiet>>

Next ==
    \/ \E c \in Calls, kind \in MeteredKinds :
         \E w \in WeightsOf(kind) : Admit(c, kind, w) \/ Exhausted(c, kind, w)
    \/ \E c \in Calls, kind \in FreeKinds : SendFree(c, kind)
    \/ \E c \in Calls : Send(c) \/ Respond(c) \/ TooMany(c) \/ Unauthorized(c)
    \/ Tick
    \/ Observe

Spec == Init /\ [][Next]_vars

----------------------------------------------------------------------------
(* Properties *)

\* Every variable has its type.
TypeOK ==
    /\ tokens \in 0 .. Capacity
    /\ due \in 0 .. Capacity
    /\ pause \in 0 .. PauseTicks
    /\ call \in [Calls -> CallKinds \cup {"none"}]
    /\ sent \subseteq {c \in Calls : call[c] # "none"}
    /\ alive \in BOOLEAN
    /\ spent \in Nat
    /\ age \in 0 .. Window
    /\ quiet \in 0 .. PauseTicks

\* The bucket keeps its budget: in any stretch of time, wherever it begins and however
\* the refused calls fall, the calls check_limit_and_pause lets through weigh no more
\* than a full bucket and what is refilled in that time.  The free calls come on top.
WindowBound == spent <= Capacity + Rate * age

\* After a 429 that handle_response was given, check_limit_and_pause lets nothing but
\* closing calls through for the whole pause, also when it answers a call sent long
\* before and a pause is already running.
PauseKept ==
    [][\A c \in Calls, kind \in MeteredKinds \ ClosingKinds :
         (\E w \in WeightsOf(kind) : Admit(c, kind, w)) => quiet = PauseTicks]_vars

=============================================================================
