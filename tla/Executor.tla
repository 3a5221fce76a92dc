-------------------------------- MODULE Executor --------------------------------
(****************************************************************************)
(* Executor::execute_order (executor.rs): the maker-then-taker pipeline by  *)
(* which a task opens or closes a position.  Every call to the exchange is  *)
(* a step of its own, so anything may happen between two of them.           *)
(****************************************************************************)
EXTENDS Exchange

\* The definitions marked "faulty variant" are not part of the specification: each is
\* a plausible mistake in the definition after it, see the README.

IsClose(t) == cur[t].kind = "close"

\* Faulty variant: the quantity is taken for the side.
SideUnsigned(job) == IF job.kind = "open" THEN job.qty ELSE -job.qty

\* The side of the exchange order: with the position to open, against it to close.
Side(job) == IF job.kind = "open" THEN Sign(job.qty) ELSE Sign(-job.qty)

\* Faulty variant: the maker part is not subtracted.
RemainingWhole(t) == Abs(cur[t].qty)

\* remaining_qty
Remaining(t) == Abs(cur[t].qty) - got[t]

\* Every exchange order of a close is reduce-only, none of an open is.
ReduceOnly(job) == job.kind = "close"

\* The maker order is tried unless the close is a hard stop or the spread is wide.
AfterCancelAll(job) == IF job.reason = "hard" THEN {"market"} ELSE {"limit", "market"}

\* execute_order returns: on to the next close order of the scan, if any.
Return(t) ==
    /\ pc' = [pc EXCEPT ![t] = IF todo[t] = {} THEN "idle" ELSE "drain"]
    /\ cur' = [cur EXCEPT ![t] = NoJob]
    /\ got' = [got EXCEPT ![t] = 0]
    /\ UNCHANGED <<todo, oid>>

\* Faulty variant: the dry_run flag is not looked at.
StartAnyway(t) ==
    /\ boot = "up"
    /\ pc[t] \in {"idle", "drain"}
    /\ \E j \in todo[t] :
         /\ todo' = [todo EXCEPT ![t] = @ \ {j}]
         /\ pc' = [pc EXCEPT ![t] = "cancelAll"]
         /\ cur' = [cur EXCEPT ![t] = j]
    /\ UNCHANGED <<exchVars, positions, oid, got, reconVars, countVars>>

\* A close order is taken up; in a dry run execute_order returns at once.
Start(t) ==
    /\ boot = "up"
    /\ pc[t] \in {"idle", "drain"}
    /\ \E j \in todo[t] :
         /\ todo' = [todo EXCEPT ![t] = @ \ {j}]
         /\ IF DryRun
              THEN /\ pc' = [pc EXCEPT ![t] = IF todo[t] = {j} THEN "idle" ELSE "drain"]
                   /\ UNCHANGED cur
              ELSE /\ pc' = [pc EXCEPT ![t] = "cancelAll"]
                   /\ cur' = [cur EXCEPT ![t] = j]
    /\ UNCHANGED <<exchVars, positions, oid, got, reconVars, countVars>>

\* cancel_all_orders; whether it succeeded is ignored.
CancelAll(t) ==
    /\ pc[t] = "cancelAll"
    /\ \/ orders' = CancelledBook({o \in OrderIds : Rests(o) /\ orders[o].sym = cur[t].sym})
       \/ Fault("restFail") /\ UNCHANGED orders
    /\ \E next \in AfterCancelAll(cur[t]) : pc' = [pc EXCEPT ![t] = next]
    /\ UNCHANGED <<exch, positions, todo, cur, oid, got, reconVars, countVars>>

\* The exchange takes the post-only limit order as order o.
Accept(t, o) ==
    /\ orders[o] = NoOrder
    /\ LET job == cur[t] IN
         /\ Fillable(job.sym, Side(job), Abs(job.qty), ReduceOnly(job)) > 0
         /\ orders' = [orders EXCEPT ![o] =
                RestingOrder(job.sym, Side(job), Abs(job.qty), ReduceOnly(job))]

\* ws.place_order of the maker order.  When it fails, or its reply does not come
\* within the request timeout, the whole quantity goes to the market.
PlaceLimit(t) ==
    /\ pc[t] = "limit"
    /\ \/ \E o \in OrderIds :
            /\ Accept(t, o)
            /\ \/ /\ oid' = [oid EXCEPT ![t] = o]
                  /\ pc' = [pc EXCEPT ![t] = "cancel"]
               \/ /\ Fault("lostReply")
                  /\ pc' = [pc EXCEPT ![t] = "market"]
                  /\ UNCHANGED oid
       \/ /\ pc' = [pc EXCEPT ![t] = "market"]
          /\ UNCHANGED <<orders, oid>>
    /\ UNCHANGED <<exch, positions, todo, cur, got, reconVars, countVars>>

\* ws.cancel_order, 3.5 s later; whether it succeeded is ignored.
CancelLimit(t) ==
    /\ pc[t] = "cancel"
    /\ \/ orders' = CancelledBook({oid[t]})
       \/ Fault("cancelFail") /\ UNCHANGED orders
    /\ pc' = [pc EXCEPT ![t] = "status"]
    /\ UNCHANGED <<exch, positions, todo, cur, oid, got, reconVars, countVars>>

\* Faulty variant: a maker order filled in part is taken for filled.
GetStatusAnyFill(t) ==
    /\ pc[t] = "status"
    /\ got' = [got EXCEPT ![t] = orders[oid[t]].done]
    /\ pc' = [pc EXCEPT ![t] = IF orders[oid[t]].done = 0 THEN "market" ELSE "filled"]
    /\ oid' = [oid EXCEPT ![t] = NoId]
    /\ orders' = [orders EXCEPT ![oid[t]] = IF @.rem = 0 THEN NoOrder ELSE @]
    /\ UNCHANGED <<exch, positions, todo, cur, reconVars, countVars>>

\* api.get_order: how much of the maker order was filled; unknown counts as nothing.
GetStatus(t) ==
    /\ pc[t] = "status"
    /\ \E filled \in {orders[oid[t]].done} \cup (IF Fault("restFail") THEN {0} ELSE {}) :
         /\ got' = [got EXCEPT ![t] = filled]
         /\ pc' = [pc EXCEPT ![t] = IF filled < Abs(cur[t].qty) THEN "market" ELSE "filled"]
    /\ oid' = [oid EXCEPT ![t] = NoId]
    /\ orders' = [orders EXCEPT ![oid[t]] = IF @.rem = 0 THEN NoOrder ELSE @]
    /\ UNCHANGED <<exch, positions, todo, cur, reconVars, countVars>>

\* ws.place_order of the market order for the rest: executed, executed with the
\* reply lost, or refused (no margin, nothing to reduce, no connection).
PlaceMarket(t) ==
    /\ pc[t] = "market"
    /\ LET job == cur[t]
           n == Fillable(job.sym, Side(job), Remaining(t), ReduceOnly(job))
       IN \/ /\ n > 0
             /\ exch' = [exch EXCEPT ![job.sym] = @ + Side(job) * n]
             /\ \/ pc' = [pc EXCEPT ![t] = "filled"]
                \/ Fault("lostReply") /\ pc' = [pc EXCEPT ![t] = "failed"]
          \/ /\ pc' = [pc EXCEPT ![t] = "failed"]
             /\ UNCHANGED exch
    /\ UNCHANGED <<orders, positions, todo, cur, oid, got, reconVars, countVars>>

----------------------------------------------------------------------------
(* The outcome is written to position_map *)

\* A close that went through removes the record the symbol has by now.
FinishClose(t) ==
    /\ pc[t] = "filled"
    /\ IsClose(t)
    /\ positions' = [positions EXCEPT ![cur[t].sym] = NoPosition]
    /\ Return(t)
    /\ UNCHANGED <<exchVars, reconVars, countVars>>

\* Faulty variant: the record stays locked.
FailCloseStaysLocked(t) ==
    /\ pc[t] = "failed"
    /\ IsClose(t)
    /\ Return(t)
    /\ UNCHANGED <<exchVars, positions, reconVars, countVars>>

\* A close whose market order failed unlocks the record the symbol has by now.
FailClose(t) ==
    /\ pc[t] = "failed"
    /\ IsClose(t)
    /\ positions' = [positions EXCEPT ![cur[t].sym] =
            IF @ = NoPosition THEN @ ELSE [@ EXCEPT !.closing = FALSE]]
    /\ Return(t)
    /\ UNCHANGED <<exchVars, reconVars, countVars>>

\* The quantity an open order reports as opened.
Opened(t) == IF pc[t] = "filled" THEN cur[t].qty ELSE Sign(cur[t].qty) * got[t]

\* Faulty variant: what the maker order bought is forgotten when the rest fails.
FinishOpenForgetsPart(t) ==
    /\ pc[t] = "filled" \/ (pc[t] = "failed" /\ got[t] > 0)
    /\ ~IsClose(t)
    /\ positions' = [positions EXCEPT ![cur[t].sym] =
            IF pc[t] = "failed" THEN @ ELSE NewPosition(Opened(t), TRUE)]
    /\ Return(t)
    /\ UNCHANGED <<exchVars, reconVars, countVars>>

\* An open order that went through, or whose maker part did, stores a new record.
FinishOpen(t) ==
    /\ pc[t] = "filled" \/ (pc[t] = "failed" /\ got[t] > 0)
    /\ ~IsClose(t)
    /\ positions' = [positions EXCEPT ![cur[t].sym] = NewPosition(Opened(t), TRUE)]
    /\ Return(t)
    /\ UNCHANGED <<exchVars, reconVars, countVars>>

\* "Entire order failed": nothing is recorded.
AbandonOpen(t) ==
    /\ pc[t] = "failed"
    /\ ~IsClose(t)
    /\ got[t] = 0
    /\ Return(t)
    /\ UNCHANGED <<exchVars, positions, reconVars, countVars>>

ExecutorStep(t) ==
    \/ Start(t)
    \/ CancelAll(t) \/ PlaceLimit(t) \/ CancelLimit(t) \/ GetStatus(t) \/ PlaceMarket(t)
    \/ FinishClose(t) \/ FailClose(t) \/ FinishOpen(t) \/ AbandonOpen(t)

=============================================================================
