--------------------------------- MODULE WsApi ---------------------------------
(****************************************************************************)
(* The WebSocket order channel (ws_api.rs): request() with its table of     *)
(* pending replies, and the connection task with its reader, its writer and *)
(* its reconnect loop.  Callers and connection task meet in the mutex       *)
(* around ws_tx, which a caller keeps until its reply or its timeout.       *)
(*                                                                          *)
(* tokio's mutex serves its waiters in order: it is the sequence of those   *)
(* who asked for it, the first one holding it.  A request is known by its   *)
(* id, the value of req_counter.  The exchange and the network are external *)
(* and modelled as the code relies on them.                                 *)
(****************************************************************************)
EXTENDS Integers, Sequences

CONSTANTS
    Callers,     \* tasks that place and cancel orders
    Link,        \* the connection task
    MaxRequests, \* requests made in a behaviour (bound)
    MaxDrops,    \* connections lost in a behaviour (bound)
    Nobody       \* no sender stored under this id

Requests == 1 .. MaxRequests

ASSUME CallersAssumption == Link \notin Callers /\ Nobody \notin Callers
ASSUME WsBoundsAssumption == MaxRequests \in Nat /\ MaxDrops \in Nat

VARIABLES
    st,          \* what each caller is doing in request()
    id,          \* the id of its request, 0 before the first
    rx,          \* its oneshot receiver: Empty, Closed, or the answer to a request
    counter,     \* req_counter
    pending,     \* pending_requests: whose sender is stored under each id
    mutex,       \* who holds ws_tx and who waits for it, in order
    link,        \* where the connection task is
    tx,          \* ws_tx is Some
    writer,      \* the writer task of that sender is alive
    outbox,      \* requests in the channel to the writer
    wire,        \* requests on the way to the exchange
    stray,       \* the same, written to a connection lost since
    answers,     \* answers on the way back on the connection
    drops,       \* connections lost so far
    status,      \* history: the outcome of each request
    executed,    \* history: the requests the exchange has executed
    rejected     \* history: those it answers with an error, and has not executed

callerVars == <<st, id, rx, counter, pending, status>>
linkVars == <<link, tx, writer, outbox, drops>>
netVars == <<wire, stray, answers, executed, rejected>>
vars == <<callerVars, mutex, linkVars, netVars>>

\* idle        not in request()
\* registered  the sender is stored in pending_requests
\* queued      in ws_tx.lock()
\* sent        holds ws_tx and awaits the reply or the timeout
CallerStates == {"idle", "registered", "queued", "sent"}

\* never       the first connect failed: there is no connection task
\* raising     connected, waits for ws_tx to store the new sender
\* up          reads
\* dropping    the connection is lost, waits for ws_tx to clear it
\* cleaning    ws_tx is None, the rest is still to be cleaned up
\* down        sleeps and tries to reconnect
LinkStates == {"never", "raising", "up", "dropping", "cleaning", "down"}

Empty == 0
Closed == -1

Holds(p) == mutex # <<>> /\ Head(mutex) = p

Init ==
    /\ st = [c \in Callers |-> "idle"]
    /\ id = [c \in Callers |-> 0]
    /\ rx = [c \in Callers |-> Empty]
    /\ counter = 1
    /\ pending = [i \in Requests |-> Nobody]
    /\ \/ link = "raising" /\ mutex = <<Link>>
       \/ link = "never" /\ mutex = <<>>
    /\ tx = FALSE
    /\ writer = FALSE
    /\ outbox = <<>>
    /\ wire = {}
    /\ stray = {}
    /\ answers = {}
    /\ drops = 0
    /\ status = [i \in Requests |-> "new"]
    /\ executed = {}
    /\ rejected = {}

\* request() returns and lets go of ws_tx.
Leave(c, outcome) ==
    /\ st' = [st EXCEPT ![c] = "idle"]
    /\ status' = [status EXCEPT ![id[c]] = outcome]
    /\ mutex' = Tail(mutex)
    /\ UNCHANGED <<id, rx, counter, linkVars, netVars>>

----------------------------------------------------------------------------
(* Faulty variants: not part of the specification, see the README. *)

\* The id is the counter after the increment.
RegisterNext(c) ==
    /\ st[c] = "idle"
    /\ counter <= MaxRequests
    /\ counter' = counter + 1
    /\ id' = [id EXCEPT ![c] = counter + 1]
    /\ rx' = [rx EXCEPT ![c] = Empty]
    /\ pending' = [pending EXCEPT ![counter] = c]
    /\ status' = [status EXCEPT ![counter] = "open"]
    /\ st' = [st EXCEPT ![c] = "registered"]
    /\ UNCHANGED <<mutex, linkVars, netVars>>

\* The reply is awaited without a timeout.
TimeOutNever(c) ==
    /\ st[c] = "sent"
    /\ rx[c] = Closed
    /\ pending' = [pending EXCEPT ![id[c]] = Nobody]
    /\ Leave(c, "failed")

\* After a timeout the sender stays stored.
TimeOutKeepsSender(c) ==
    /\ st[c] = "sent"
    /\ rx[c] <= 0
    /\ UNCHANGED pending
    /\ Leave(c, "failed")

\* A timeout is reported as a refusal.
TimeOutAsRefusal(c) ==
    /\ st[c] = "sent"
    /\ rx[c] <= 0
    /\ pending' = [pending EXCEPT ![id[c]] = Nobody]
    /\ Leave(c, "refused")

\* The reader gives the answer to whoever waits, its id not looked at: only one
\* request is on the way at a time, after all.
ReceiveAnyone(i) ==
    /\ link = "up"
    /\ i \in answers
    /\ answers' = answers \ {i}
    /\ \E c \in Callers :
         /\ st[c] = "sent"
         /\ pending' = [pending EXCEPT ![id[c]] = Nobody]
         /\ rx' = [rx EXCEPT ![c] = i]
    /\ UNCHANGED <<st, id, counter, status, mutex, linkVars, wire, stray, executed, rejected>>

\* The connection task keeps the guard of ws_tx while it cleans up.
ClearTxKeepsGuard ==
    /\ link = "dropping" /\ Holds(Link)
    /\ tx' = FALSE
    /\ link' = "cleaning"
    /\ UNCHANGED <<callerVars, mutex, writer, outbox, drops, netVars>>

----------------------------------------------------------------------------
(* request() *)

\* The next id, and a fresh oneshot whose sender goes to pending_requests.
Register(c) ==
    /\ st[c] = "idle"
    /\ counter <= MaxRequests
    /\ counter' = counter + 1
    /\ id' = [id EXCEPT ![c] = counter]
    /\ rx' = [rx EXCEPT ![c] = Empty]
    /\ pending' = [pending EXCEPT ![counter] = c]
    /\ status' = [status EXCEPT ![counter] = "open"]
    /\ st' = [st EXCEPT ![c] = "registered"]
    /\ UNCHANGED <<mutex, linkVars, netVars>>

Ask(c) ==
    /\ st[c] = "registered"
    /\ mutex' = Append(mutex, c)
    /\ st' = [st EXCEPT ![c] = "queued"]
    /\ UNCHANGED <<id, rx, counter, pending, status, linkVars, netVars>>

\* The request goes to the writer, ws_tx stays locked.
Send(c) ==
    /\ st[c] = "queued" /\ Holds(c)
    /\ tx /\ writer
    /\ outbox' = Append(outbox, id[c])
    /\ st' = [st EXCEPT ![c] = "sent"]
    /\ UNCHANGED <<id, rx, counter, pending, status, mutex, link, tx, writer, drops, netVars>>

\* "WS API not connected", or the writer is gone and the channel closed.
Refuse(c) ==
    /\ st[c] = "queued" /\ Holds(c)
    /\ ~(tx /\ writer)
    /\ pending' = [pending EXCEPT ![id[c]] = Nobody]
    /\ Leave(c, "refused")

\* The reply is there: a result, or an error that is passed on to the caller.
TakeAnswer(c) ==
    /\ st[c] = "sent"
    /\ rx[c] > 0
    /\ UNCHANGED pending
    /\ Leave(c, IF rx[c] \in rejected THEN "rejected" ELSE "answered")

\* Five seconds are over, or the sender was dropped: both are reported as a timeout.
TimeOut(c) ==
    /\ st[c] = "sent"
    /\ rx[c] <= 0
    /\ pending' = [pending EXCEPT ![id[c]] = Nobody]
    /\ Leave(c, "failed")

----------------------------------------------------------------------------
(* The writer, the exchange and the reader *)

\* The writer writes to the socket, which may be that of a lost connection.
Write ==
    /\ writer
    /\ outbox # <<>>
    /\ outbox' = Tail(outbox)
    /\ IF link = "up"
         THEN wire' = wire \cup {Head(outbox)} /\ UNCHANGED stray
         ELSE stray' = stray \cup {Head(outbox)} /\ UNCHANGED wire
    /\ UNCHANGED <<callerVars, mutex, link, tx, writer, drops, answers,
                   executed, rejected>>

\* Writing fails: the writer ends, and with it the channel to it.
WriteError ==
    /\ writer
    /\ outbox # <<>>
    /\ writer' = FALSE
    /\ outbox' = <<>>
    /\ UNCHANGED <<callerVars, mutex, link, tx, drops, netVars>>

\* The exchange works on a request, some time, and executes it or does not; it answers
\* with a result or an error, on the connection the request came by if that still stands.
Process(i) ==
    /\ i \in wire \cup stray
    /\ wire' = wire \ {i}
    /\ stray' = stray \ {i}
    /\ \/ executed' = executed \cup {i} /\ UNCHANGED rejected
       \/ rejected' = rejected \cup {i} /\ UNCHANGED executed
    /\ answers' = IF i \in wire THEN answers \cup {i} ELSE answers
    /\ UNCHANGED <<callerVars, mutex, linkVars>>

\* A request is lost with the connection it was written to.
Lose(i) ==
    /\ i \in stray
    /\ stray' = stray \ {i}
    /\ UNCHANGED <<callerVars, mutex, linkVars, wire, answers, executed, rejected>>

\* The reader hands the answer to the sender stored under its id, if any.
Receive(i) ==
    /\ link = "up"
    /\ i \in answers
    /\ answers' = answers \ {i}
    /\ pending' = [pending EXCEPT ![i] = Nobody]
    /\ rx' = IF pending[i] # Nobody /\ id[pending[i]] = i
               THEN [rx EXCEPT ![pending[i]] = i] ELSE rx
    /\ UNCHANGED <<st, id, counter, status, mutex, linkVars, wire, stray, executed, rejected>>

----------------------------------------------------------------------------
(* The connection task *)

\* The reader ends; to clear ws_tx the task must wait for its turn.
Drop ==
    /\ link = "up"
    /\ drops < MaxDrops
    /\ drops' = drops + 1
    /\ link' = "dropping"
    /\ answers' = {}
    /\ wire' = {}
    /\ stray' = stray \cup wire
    /\ mutex' = Append(mutex, Link)
    /\ UNCHANGED <<callerVars, tx, writer, outbox, executed, rejected>>

ClearTx ==
    /\ link = "dropping" /\ Holds(Link)
    /\ tx' = FALSE
    /\ mutex' = Tail(mutex)
    /\ link' = "cleaning"
    /\ UNCHANGED <<callerVars, writer, outbox, drops, netVars>>

\* The writer is aborted, and every sender still stored is dropped.
CleanUp ==
    /\ link = "cleaning"
    /\ writer' = FALSE
    /\ outbox' = <<>>
    /\ rx' = [c \in Callers |->
                IF id[c] > 0 /\ pending[id[c]] = c THEN Closed ELSE rx[c]]
    /\ pending' = [i \in Requests |-> Nobody]
    /\ link' = "down"
    /\ UNCHANGED <<st, id, counter, status, mutex, tx, drops, netVars>>

\* Reconnected, three seconds later at the earliest.
Reconnect ==
    /\ link = "down"
    /\ link' = "raising"
    /\ mutex' = Append(mutex, Link)
    /\ UNCHANGED <<callerVars, tx, writer, outbox, drops, netVars>>

StoreTx ==
    /\ link = "raising" /\ Holds(Link)
    /\ tx' = TRUE
    /\ writer' = TRUE
    /\ outbox' = <<>>
    /\ mutex' = Tail(mutex)
    /\ link' = "up"
    /\ UNCHANGED <<callerVars, drops, netVars>>

----------------------------------------------------------------------------

Request(c) == Register(c) \/ Ask(c) \/ Send(c) \/ Refuse(c) \/ TakeAnswer(c) \/ TimeOut(c)

LinkStep == ClearTx \/ CleanUp \/ Reconnect \/ StoreTx

Next ==
    \/ \E c \in Callers : Request(c)
    \/ Write \/ WriteError
    \/ \E i \in Requests : Process(i) \/ Lose(i) \/ Receive(i)
    \/ Drop
    \/ LinkStep

Spec == Init /\ [][Next]_vars

\* Callers run on and their timeouts fire; the connection task runs on and, in the
\* end, reconnects.  Nothing is assumed of the writer, the reader or the exchange.
Fairness ==
    /\ \A c \in Callers : WF_vars(Ask(c) \/ Send(c) \/ Refuse(c) \/ TakeAnswer(c) \/ TimeOut(c))
    /\ WF_vars(LinkStep)

FairSpec == Spec /\ Fairness

----------------------------------------------------------------------------
(* Properties *)

\* Every variable has its type: each action stores what the code's types allow.
TypeOK ==
    /\ st \in [Callers -> CallerStates]
    /\ id \in [Callers -> 0 .. MaxRequests]
    /\ rx \in [Callers -> {Empty, Closed} \cup Requests]
    /\ counter \in 1 .. (MaxRequests + 1)
    /\ pending \in [Requests -> Callers \cup {Nobody}]
    /\ mutex \in Seq(Callers \cup {Link})
    /\ link \in LinkStates
    /\ tx \in BOOLEAN
    /\ writer \in BOOLEAN
    /\ outbox \in Seq(Requests)
    /\ wire \subseteq Requests
    /\ stray \subseteq Requests
    /\ answers \subseteq Requests
    /\ drops \in 0 .. MaxDrops
    /\ status \in [Requests -> {"new", "open", "answered", "rejected", "refused", "failed"}]
    /\ executed \subseteq Requests
    /\ rejected \subseteq Requests

\* A caller never takes the answer to one request for the answer to another, however
\* late it comes: not that of its own earlier request which timed out, nor that of
\* a request of somebody else.
AnswerIsOwn == \A c \in Callers : rx[c] > 0 => rx[c] = id[c]

\* Whatever happens to a request, its sender does not stay in pending_requests once
\* request() has returned.
NoPendingLeak ==
    \A i \in Requests : pending[i] # Nobody => st[pending[i]] # "idle" /\ id[pending[i]] = i

\* Those who need ws_tx to go on, or have it locked.
Wants(p) == IF p = Link THEN link \in {"raising", "dropping"} ELSE st[p] \in {"queued", "sent"}

Queued(p) == \E k \in 1 .. Len(mutex) : mutex[k] = p

\* Nobody waits for a turn that does not come: whoever wants ws_tx has its one place
\* in the queue, and whoever has a place, the first one in particular, still wants it
\* and will let go of it.  While a caller awaits its reply the sender it used stays
\* where it is: only a connection task that has its turn stores or clears one.
TurnsTaken ==
    /\ \A p \in Callers \cup {Link} : Wants(p) <=> Queued(p)
    /\ \A j, k \in 1 .. Len(mutex) : mutex[j] = mutex[k] => j = k
    /\ tx <=> link \in {"up", "dropping"}
    /\ \A c \in Callers : st[c] = "sent" => tx /\ Holds(c)

\* The channel keeps its promise to the callers: requests that return a result were
\* executed, those that return an error of the exchange or were refused never are, none
\* is executed twice.
Rpc == INSTANCE OrderRpc
KeepsPromise == Rpc!RpcSpec

\* Every request returns, also when the connection is lost while it holds the very
\* mutex the connection task needs in order to notice.
RequestReturns == \A c \in Callers : st[c] # "idle" ~> st[c] = "idle"

\* A lost connection is replaced, and found by the callers, however many of them
\* wait for ws_tx.
LinkComesBack == link = "dropping" ~> (link = "up" /\ tx)

=============================================================================
