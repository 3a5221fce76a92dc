------------------------------- MODULE WsApiProofs -------------------------------
(****************************************************************************)
(* What holds of the order channel for any number of callers, requests and  *)
(* lost connections: that answers reach their own caller, that no sender is *)
(* left behind, that the queue for ws_tx is one of those who want it, and   *)
(* that the channel implements OrderRpc.                                    *)
(****************************************************************************)
EXTENDS WsApi, SequenceTheorems, TLAPS

USE CallersAssumption, WsBoundsAssumption

----------------------------------------------------------------------------
(* What the properties rest on: the parts of their inductive invariant *)

\* Whoever awaits its reply has ws_tx locked.
SentHolds == \A c \in Callers : st[c] = "sent" => Holds(c)

\* Once something is in a receiver, the sender is gone from the table.
SenderSpent ==
    \A c \in Callers : rx[c] # Empty => id[c] \in Requests /\ pending[id[c]] # c

\* Ids are given out in order, each to one request.
IdsInOrder ==
    /\ \A i \in Requests : status[i] = "new" <=> i >= counter
    /\ \A c \in Callers : id[c] < counter
    /\ \A c, d \in Callers : id[c] = id[d] /\ id[c] # 0 => c = d
    /\ \A c \in Callers : st[c] # "idle" => id[c] # 0 /\ status[id[c]] = "open"

\* The requests that may still reach the exchange.
InOutbox(i) == \E k \in 1 .. Len(outbox) : outbox[k] = i
OnTheWay(i) == InOutbox(i) \/ i \in wire \cup stray

\* A request on its way is there once.
OnceOnTheWay ==
    /\ \A k, m \in 1 .. Len(outbox) : outbox[k] = outbox[m] => k = m
    /\ \A i \in wire \cup stray : ~InOutbox(i)

\* The requests the exchange has worked on.
Decided == executed \cup rejected

\* A request on its way has not been worked on, and its caller has not been told that it
\* was.
OnTheWayIsOpen ==
    \A i \in Requests : OnTheWay(i) => i \notin Decided /\ status[i] \in {"open", "failed"}

\* A request that was not sent yet is not on its way.
UnsentStays ==
    \A c \in Callers : st[c] \in {"registered", "queued"} =>
        ~OnTheWay(id[c]) /\ id[c] \notin Decided

\* Answers are to requests the exchange has worked on, and it works on requests only.
AnswersEarned ==
    /\ answers \subseteq Decided
    /\ \A c \in Callers : rx[c] > 0 => rx[c] \in Decided
    /\ \A i \in Decided : status[i] # "new"

\* A caller at work has a request of its own.
AtWork == \A c \in Callers : st[c] # "idle" => id[c] \in Requests

TableInv == NoPendingLeak /\ AnswerIsOwn /\ SenderSpent

RpcInv == IdsInOrder /\ OnceOnTheWay /\ OnTheWayIsOpen /\ UnsentStays /\ AnswersEarned

OwnInv == TypeOK /\ AtWork /\ SentHolds /\ TableInv

----------------------------------------------------------------------------
(* The mutex, the ids and the types *)

\* Joining the queue for the mutex does not change who holds it.
LEMMA JoinQueue ==
    ASSUME mutex \in Seq(Callers \cup {Link}), NEW p \in Callers \cup {Link},
           mutex' = Append(mutex, p)
    PROVE  /\ mutex' \in Seq(Callers \cup {Link})
           /\ \A q : Holds(q) => Holds(q)'
  BY AppendProperties, HeadTailAppend DEF Holds

\* Letting go of the mutex leaves a queue.
LEMMA LeaveQueue ==
    ASSUME mutex \in Seq(Callers \cup {Link}), NEW p, Holds(p), mutex' = Tail(mutex)
    PROVE  mutex' \in Seq(Callers \cup {Link})
  BY HeadTailProperties DEF Holds

LEMMA OwnInit == Init => OwnInv
  <1> SUFFICES ASSUME Init PROVE OwnInv
    OBVIOUS
  <1>1. mutex \in Seq(Callers \cup {Link})
    <2>1. <<Link>> \in Seq(Callers \cup {Link})
      OBVIOUS
    <2>2. QED
      BY <2>1, EmptySeq DEF Init
  <1>2. outbox \in Seq(Requests)
    BY EmptySeq DEF Init
  <1>3. counter \in 1 .. (MaxRequests + 1) /\ drops \in 0 .. MaxDrops
    BY DEF Init
  <1>4. /\ id \in [Callers -> 0 .. MaxRequests]
        /\ rx \in [Callers -> {Empty, Closed} \cup Requests]
    BY DEF Init
  <1>5. TypeOK
    BY <1>1, <1>2, <1>3, <1>4 DEF Init, TypeOK, CallerStates, LinkStates
  <1>6. AtWork /\ SentHolds /\ TableInv
    BY DEF Init, AtWork, SentHolds, TableInv, NoPendingLeak, AnswerIsOwn, SenderSpent, Empty
  <1>7. QED
    BY <1>5, <1>6 DEF OwnInv

LEMMA RequestType ==
    ASSUME OwnInv, NEW c \in Callers, Request(c)
    PROVE  TypeOK'
  <1> USE DEF OwnInv, TypeOK, linkVars, netVars, CallerStates
  <1>1. CASE Register(c)
    BY <1>1 DEF Register, Empty, Requests
  <1>2. CASE Ask(c)
    BY <1>2, JoinQueue DEF Ask
  <1>3. CASE Send(c)
    <2>1. id[c] \in Requests
      BY <1>3 DEF Send, AtWork
    <2>2. outbox' \in Seq(Requests)
      BY <1>3, <2>1, AppendProperties DEF Send
    <2>3. QED
      BY <1>3, <2>2 DEF Send
  <1>4. CASE Refuse(c)
    BY <1>4, LeaveQueue DEF Refuse, Leave
  <1>5. CASE TakeAnswer(c)
    BY <1>5, LeaveQueue DEF TakeAnswer, Leave, SentHolds
  <1>6. CASE TimeOut(c)
    BY <1>6, LeaveQueue DEF TimeOut, Leave, SentHolds
  <1>7. QED
    BY <1>1, <1>2, <1>3, <1>4, <1>5, <1>6 DEF Request

LEMMA NetworkType ==
    ASSUME OwnInv,
           \/ Write \/ WriteError \/ Drop
           \/ \E i \in Requests : Process(i) \/ Lose(i) \/ Receive(i)
    PROVE  TypeOK'
  <1> USE DEF OwnInv, TypeOK, callerVars, linkVars, netVars, LinkStates
  <1>1. CASE Write
    <2>1. Head(outbox) \in Requests /\ outbox' \in Seq(Requests)
      BY <1>1, HeadTailProperties DEF Write
    <2>2. QED
      BY <1>1, <2>1 DEF Write
  <1>2. CASE WriteError
    BY <1>2, EmptySeq DEF WriteError
  <1>3. CASE Drop
    BY <1>3, JoinQueue DEF Drop
  <1>4. ASSUME NEW i \in Requests, Process(i) PROVE TypeOK'
    BY <1>4 DEF Process
  <1>5. ASSUME NEW i \in Requests, Lose(i) PROVE TypeOK'
    BY <1>5 DEF Lose
  <1>6. ASSUME NEW i \in Requests, Receive(i) PROVE TypeOK'
    BY <1>6 DEF Receive
  <1>7. QED
    BY <1>1, <1>2, <1>3, <1>4, <1>5, <1>6

LEMMA LinkType ==
    ASSUME OwnInv, LinkStep
    PROVE  TypeOK'
  <1> USE DEF OwnInv, TypeOK, callerVars, linkVars, netVars, LinkStates
  <1>1. CASE ClearTx
    BY <1>1, LeaveQueue DEF ClearTx
  <1>2. CASE CleanUp
    BY <1>2, EmptySeq DEF CleanUp
  <1>3. CASE Reconnect
    BY <1>3, JoinQueue DEF Reconnect
  <1>4. CASE StoreTx
    BY <1>4, LeaveQueue, EmptySeq DEF StoreTx
  <1>5. QED
    BY <1>1, <1>2, <1>3, <1>4 DEF LinkStep

----------------------------------------------------------------------------
(* Who holds the mutex, and the table of senders *)

LEMMA AtWorkStep ==
    ASSUME OwnInv, [Next]_vars
    PROVE  AtWork'
  <1> USE DEF OwnInv, AtWork, callerVars
  <1>1. ASSUME NEW c \in Callers, Request(c) PROVE AtWork'
    <2>1. CASE Register(c)
      <3>1. counter \in Requests
        BY <2>1 DEF Register, TypeOK, Requests
      <3>2. QED
        BY <2>1, <3>1 DEF Register, TypeOK
    <2>2. CASE Ask(c) \/ Send(c)
      BY <2>2 DEF Ask, Send, TypeOK
    <2>3. CASE Refuse(c) \/ TakeAnswer(c) \/ TimeOut(c)
      BY <2>3 DEF Refuse, TakeAnswer, TimeOut, Leave, TypeOK
    <2>4. QED
      BY <1>1, <2>1, <2>2, <2>3 DEF Request
  <1>2. CASE UNCHANGED <<st, id>>
    BY <1>2
  <1>3. QED
    BY <1>1, <1>2
    DEF Next, vars, Write, WriteError, Process, Lose, Receive, Drop,
        LinkStep, ClearTx, CleanUp, Reconnect, StoreTx

LEMMA SentHoldsStep ==
    ASSUME OwnInv, [Next]_vars
    PROVE  SentHolds'
  <1> USE DEF OwnInv, SentHolds, callerVars
  <1>0. mutex \in Seq(Callers \cup {Link})
    BY DEF TypeOK
  <1>1. ASSUME NEW c \in Callers, Request(c) PROVE SentHolds'
    <2>1. CASE Register(c)
      BY <2>1 DEF Register, TypeOK, Holds
    <2>2. CASE Ask(c)
      BY <1>0, <2>2, JoinQueue DEF Ask, TypeOK
    <2>3. CASE Send(c)
      BY <2>3 DEF Send, TypeOK, Holds
    <2>4. CASE Refuse(c) \/ TakeAnswer(c) \/ TimeOut(c)
      <3>1. st' = [st EXCEPT ![c] = "idle"] /\ Holds(c)
        BY <2>4 DEF Refuse, TakeAnswer, TimeOut, Leave
      <3>2. \A d \in Callers : st'[d] # "sent"
        BY <3>1 DEF Holds, TypeOK
      <3>3. QED
        BY <3>2
    <2>5. QED
      BY <1>1, <2>1, <2>2, <2>3, <2>4 DEF Request
  <1>2. CASE UNCHANGED <<st, mutex>>
    BY <1>2 DEF Holds
  <1>3. CASE UNCHANGED st /\ mutex' = Append(mutex, Link)
    BY <1>0, <1>3, JoinQueue
  <1>4. CASE ClearTx \/ StoreTx
    <2>1. Holds(Link) /\ UNCHANGED st
      BY <1>4 DEF ClearTx, StoreTx
    <2>2. \A d \in Callers : st[d] # "sent"
      BY <2>1 DEF Holds
    <2>3. QED
      BY <2>1, <2>2
  <1>5. QED
    BY <1>1, <1>2, <1>3, <1>4
    DEF Next, vars, Write, WriteError, Process, Lose, Receive, Drop,
        LinkStep, CleanUp, Reconnect

LEMMA TableStep ==
    ASSUME OwnInv, [Next]_vars
    PROVE  TableInv'
  <1> USE DEF OwnInv, TableInv, NoPendingLeak, AnswerIsOwn, SenderSpent, callerVars
  <1>1. ASSUME NEW c \in Callers, Request(c) PROVE TableInv'
    <2>1. CASE Register(c)
      <3>1. counter \in Requests /\ c # Nobody
        BY <2>1 DEF Register, TypeOK, Requests
      <3>2. \A i \in Requests : pending[i] # c
        BY <2>1 DEF Register
      <3>3. NoPendingLeak'
        BY <2>1, <3>1, <3>2 DEF Register, TypeOK
      <3>4. AnswerIsOwn'
        BY <2>1 DEF Register, TypeOK, Empty
      <3>5. SenderSpent'
        BY <2>1, <3>1 DEF Register, TypeOK
      <3>6. QED
        BY <3>3, <3>4, <3>5
    <2>2. CASE Ask(c) \/ Send(c)
      BY <2>2 DEF Ask, Send, TypeOK
    <2>3. CASE Refuse(c) \/ TimeOut(c)
      <3>1. id[c] \in Requests
        BY <2>3 DEF Refuse, TimeOut, AtWork
      <3>2. /\ st' = [st EXCEPT ![c] = "idle"]
            /\ pending' = [pending EXCEPT ![id[c]] = Nobody]
            /\ UNCHANGED <<id, rx>>
        BY <2>3 DEF Refuse, TimeOut, Leave
      <3>3. NoPendingLeak'
        BY <3>1, <3>2 DEF TypeOK
      <3>4. AnswerIsOwn' /\ SenderSpent'
        BY <3>1, <3>2 DEF TypeOK
      <3>5. QED
        BY <3>3, <3>4
    <2>4. CASE TakeAnswer(c)
      BY <2>4 DEF TakeAnswer, Leave, TypeOK, Empty
    <2>5. QED
      BY <1>1, <2>1, <2>2, <2>3, <2>4 DEF Request
  <1>2. CASE UNCHANGED <<st, id, rx, pending>>
    BY <1>2
  <1>3. ASSUME NEW i \in Requests, Receive(i) PROVE TableInv'
    BY <1>3 DEF Receive, TypeOK
  <1>4. CASE CleanUp
    <2>1. NoPendingLeak'
      BY <1>4 DEF CleanUp
    <2>2. ASSUME NEW c \in Callers
          PROVE  \/ rx'[c] = rx[c]
                 \/ rx'[c] = Closed /\ id[c] \in Requests
      BY <1>4 DEF CleanUp, TypeOK, Requests
    <2>3. UNCHANGED id /\ \A i \in Requests : pending'[i] = Nobody
      BY <1>4 DEF CleanUp
    <2>4. AnswerIsOwn'
      BY <2>2, <2>3 DEF Closed
    <2>5. SenderSpent'
      BY <2>2, <2>3
    <2>6. QED
      BY <2>1, <2>4, <2>5
  <1>5. QED
    BY <1>1, <1>2, <1>3, <1>4
    DEF Next, vars, Write, WriteError, Process, Lose, Drop,
        LinkStep, ClearTx, Reconnect, StoreTx

LEMMA OwnStep == OwnInv /\ [Next]_vars => OwnInv'
  <1> SUFFICES ASSUME OwnInv, [Next]_vars PROVE OwnInv'
    OBVIOUS
  <1>1. TypeOK'
    <2>1. CASE UNCHANGED vars
      BY <2>1 DEF OwnInv, TypeOK, vars, callerVars, linkVars, netVars
    <2>2. QED
      BY <2>1, RequestType, NetworkType, LinkType DEF Next
  <1>2. QED
    BY <1>1, AtWorkStep, SentHoldsStep, TableStep DEF OwnInv

\* The types, and what they rest on.
THEOREM TypeCorrect == Spec => []TypeOK
  BY OwnInit, OwnStep, PTL DEF Spec, OwnInv

\* A late or foreign answer never reaches a receiver, for any number of callers.
THEOREM AnswersReachTheirCaller == Spec => []AnswerIsOwn
  BY OwnInit, OwnStep, PTL DEF Spec, OwnInv, TableInv

\* Once request() has returned its sender is gone, however it returned.
THEOREM NoSenderLeaks == Spec => []NoPendingLeak
  BY OwnInit, OwnStep, PTL DEF Spec, OwnInv, TableInv

----------------------------------------------------------------------------
(* The turns at the mutex *)

\* Nobody is twice in the queue.
Distinct == \A j, k \in 1 .. Len(mutex) : mutex[j] = mutex[k] => j = k

\* One who joins the queue is in it, once, besides those who were.
LEMMA Joined ==
    ASSUME mutex \in Seq(Callers \cup {Link}), Distinct,
           NEW p \in Callers \cup {Link}, ~Queued(p), mutex' = Append(mutex, p)
    PROVE  Distinct' /\ \A q : Queued(q)' <=> Queued(q) \/ q = p
  <1>1. /\ Len(mutex') = Len(mutex) + 1 /\ Len(mutex) \in Nat
        /\ \A k \in 1 .. Len(mutex) : mutex'[k] = mutex[k]
        /\ mutex'[Len(mutex) + 1] = p
    BY AppendProperties, LenProperties
  <1>2. \A k \in 1 .. Len(mutex') : k \in 1 .. Len(mutex) \/ k = Len(mutex) + 1
    BY <1>1
  <1>3. /\ \A k \in 1 .. Len(mutex) : k \in 1 .. Len(mutex')
        /\ Len(mutex) + 1 \in 1 .. Len(mutex')
    BY <1>1
  <1>4. Distinct'
    BY <1>1, <1>2 DEF Distinct, Queued
  <1>5. \A q : Queued(q)' <=> Queued(q) \/ q = p
    BY <1>1, <1>2, <1>3 DEF Queued
  <1>6. QED
    BY <1>4, <1>5

\* The first one leaves, and with it all its places.
LEMMA Left ==
    ASSUME mutex \in Seq(Callers \cup {Link}), Distinct,
           NEW p, Holds(p), mutex' = Tail(mutex)
    PROVE  Distinct' /\ \A q : Queued(q)' <=> Queued(q) /\ q # p
  <1>1. /\ Len(mutex') = Len(mutex) - 1 /\ Len(mutex) \in Nat /\ Len(mutex) > 0
        /\ \A k \in 1 .. Len(mutex') : mutex'[k] = mutex[k + 1]
        /\ mutex[1] = p
    BY HeadTailProperties, LenProperties, EmptySeq DEF Holds
  <1>2. \A k \in 1 .. Len(mutex') : k + 1 \in 1 .. Len(mutex) /\ k + 1 # 1
    BY <1>1
  <1>3. \A k \in 1 .. Len(mutex) : k = 1 \/ k - 1 \in 1 .. Len(mutex')
    BY <1>1
  <1>4. Distinct'
    BY <1>1, <1>2 DEF Distinct
  <1>5. ASSUME NEW q, Queued(q)' PROVE Queued(q) /\ q # p
    <2>1. PICK k \in 1 .. Len(mutex') : mutex'[k] = q
      BY <1>5 DEF Queued
    <2>2. mutex[k + 1] = q /\ k + 1 \in 1 .. Len(mutex) /\ 1 \in 1 .. Len(mutex) /\ k + 1 # 1
      BY <1>1, <1>2, <2>1
    <2>3. QED
      BY <1>1, <2>2 DEF Queued, Distinct
  <1>6. ASSUME NEW q, Queued(q), q # p PROVE Queued(q)'
    <2>1. PICK k \in 1 .. Len(mutex) : mutex[k] = q
      BY <1>6 DEF Queued
    <2>2. k - 1 \in 1 .. Len(mutex') /\ (k - 1) + 1 = k
      BY <1>1, <1>3, <1>6, <2>1
    <2>3. mutex'[k - 1] = q
      BY <1>1, <2>1, <2>2
    <2>4. QED
      BY <2>2, <2>3 DEF Queued
  <1>7. QED
    BY <1>4, <1>5, <1>6

\* Who wants ws_tx and who is in its queue, and that nobody is there twice.
QueueInv == Distinct /\ \A p \in Callers \cup {Link} : Wants(p) <=> Queued(p)

\* The sender is stored from the turn that stores it to the turn that clears it.
TxInv == tx <=> link \in {"up", "dropping"}

\* A caller with a request on its way has sent it through a sender still in place.
SentTx == \A c \in Callers : st[c] = "sent" => tx

LEMMA QueueStep ==
    ASSUME OwnInv, QueueInv, [Next]_vars
    PROVE  QueueInv'
  <1> USE DEF QueueInv
  <1>0. mutex \in Seq(Callers \cup {Link}) /\ st \in [Callers -> CallerStates]
    BY DEF OwnInv, TypeOK
  <1>1. ASSUME UNCHANGED mutex, \A p \in Callers \cup {Link} : Wants(p)' <=> Wants(p)
        PROVE  QueueInv'
    BY <1>1 DEF Distinct, Queued
  <1>2. ASSUME NEW p \in Callers \cup {Link}, mutex' = Append(mutex, p), ~Wants(p),
               \A q \in Callers \cup {Link} : Wants(q)' <=> Wants(q) \/ q = p
        PROVE  QueueInv'
    BY <1>0, <1>2, Joined
  <1>3. ASSUME NEW p \in Callers \cup {Link}, mutex' = Tail(mutex), Holds(p),
               \A q \in Callers \cup {Link} : Wants(q)' <=> Wants(q) /\ q # p
        PROVE  QueueInv'
    BY <1>0, <1>3, Left
  <1>4. ASSUME NEW c \in Callers, Request(c) PROVE QueueInv'
    <2> USE DEF linkVars, Wants
    <2>1. CASE Register(c)
      BY <1>0, <1>1, <2>1 DEF Register
    <2>2. CASE Ask(c)
      BY <1>0, <1>2, <2>2 DEF Ask
    <2>3. CASE Send(c)
      BY <1>0, <1>1, <2>3 DEF Send
    <2>4. CASE Refuse(c) \/ TakeAnswer(c) \/ TimeOut(c)
      <3>1. Holds(c) /\ mutex' = Tail(mutex) /\ UNCHANGED link
            /\ st' = [st EXCEPT ![c] = "idle"]
        BY <2>4 DEF Refuse, TakeAnswer, TimeOut, Leave, OwnInv, SentHolds
      <3>2. QED
        BY <1>0, <1>3, <3>1
    <2>5. QED
      BY <1>4, <2>1, <2>2, <2>3, <2>4 DEF Request
  <1>5. CASE Drop \/ Reconnect
    BY <1>0, <1>2, <1>5 DEF Drop, Reconnect, callerVars, Wants
  <1>6. CASE ClearTx \/ StoreTx
    BY <1>0, <1>3, <1>6 DEF ClearTx, StoreTx, callerVars, Wants
  <1>7. CASE CleanUp
    BY <1>1, <1>7 DEF CleanUp, Wants
  <1>8. CASE UNCHANGED <<st, link, mutex>>
    BY <1>1, <1>8 DEF Wants
  <1>9. QED
    BY <1>4, <1>5, <1>6, <1>7, <1>8
    DEF Next, vars, callerVars, linkVars, Write, WriteError, Process, Lose, Receive, LinkStep

LEMMA TxStep ==
    ASSUME OwnInv, TxInv, SentTx, [Next]_vars
    PROVE  TxInv' /\ SentTx'
  <1> USE DEF TxInv, SentTx
  <1>0. st \in [Callers -> CallerStates] /\ SentHolds
    BY DEF OwnInv, TypeOK
  <1>1. ASSUME NEW c \in Callers, Request(c) PROVE TxInv' /\ SentTx'
    BY <1>0, <1>1 DEF Request, Register, Ask, Send, Refuse, TakeAnswer, TimeOut, Leave, linkVars
  <1>2. CASE ClearTx
    BY <1>0, <1>2 DEF ClearTx, SentHolds, Holds, callerVars
  <1>3. CASE StoreTx \/ CleanUp \/ Reconnect \/ Drop
    BY <1>3 DEF StoreTx, CleanUp, Reconnect, Drop, callerVars
  <1>4. CASE UNCHANGED <<st, tx, link>>
    BY <1>4
  <1>5. QED
    BY <1>1, <1>2, <1>3, <1>4
    DEF Next, vars, callerVars, linkVars, Write, WriteError, Process, Lose, Receive, LinkStep

\* For any number of callers and lost connections: nobody stands in line for ws_tx
\* that does not want it, nobody wants it without a place in the line, and no sender is
\* replaced under a caller that awaits its reply.
THEOREM TurnsComeAround == Spec => []TurnsTaken
<1>1. Init => QueueInv /\ TxInv /\ SentTx
  <2> SUFFICES ASSUME Init PROVE QueueInv /\ TxInv /\ SentTx
    OBVIOUS
  <2>1. TxInv /\ SentTx
    BY DEF Init, TxInv, SentTx
  <2>2. CASE link = "raising" /\ mutex = <<Link>>
    <3>1. Len(mutex) = 1 /\ mutex[1] = Link /\ 1 .. Len(mutex) = {1}
      BY <2>2
    <3>2. Distinct /\ \A p : Queued(p) <=> p = Link
      BY <3>1 DEF Distinct, Queued
    <3>3. \A p \in Callers \cup {Link} : Wants(p) <=> p = Link
      BY <2>2 DEF Init, Wants
    <3>4. QED
      BY <2>1, <3>2, <3>3 DEF QueueInv
  <2>3. CASE link = "never" /\ mutex = <<>>
    <3>1. Len(mutex) = 0 /\ 1 .. Len(mutex) = {}
      BY <2>3
    <3>2. Distinct /\ \A p : ~Queued(p)
      BY <3>1 DEF Distinct, Queued
    <3>3. \A p \in Callers \cup {Link} : ~Wants(p)
      BY <2>3 DEF Init, Wants
    <3>4. QED
      BY <2>1, <3>2, <3>3 DEF QueueInv
  <2>4. QED
    BY <2>1, <2>2, <2>3 DEF Init
<1>2. OwnInv /\ QueueInv /\ TxInv /\ SentTx /\ [Next]_vars => (QueueInv /\ TxInv /\ SentTx)'
  BY QueueStep, TxStep
<1>3. OwnInv /\ QueueInv /\ TxInv /\ SentTx => TurnsTaken
  BY DEF OwnInv, QueueInv, Distinct, TxInv, SentTx, SentHolds, TurnsTaken
<1>4. QED
  BY <1>1, <1>2, <1>3, OwnInit, OwnStep, PTL DEF Spec

----------------------------------------------------------------------------
(* Requests on their way *)

\* Only sending puts a request on its way, and what was executed is off it.
LEMMA Traffic ==
    ASSUME OwnInv, OnceOnTheWay, UnsentStays, [Next]_vars
    PROVE  /\ OnceOnTheWay'
           /\ \A i \in Requests : OnTheWay(i)' =>
                OnTheWay(i) \/ \E c \in Callers : Send(c) /\ i = id[c]
           /\ \A i \in Requests : Process(i) => ~OnTheWay(i)'
  <1> USE DEF OnceOnTheWay, OnTheWay, InOutbox
  <1>0. outbox \in Seq(Requests)
    BY DEF OwnInv, TypeOK
  <1>1. ASSUME NEW c \in Callers, Send(c)
        PROVE  /\ OnceOnTheWay'
               /\ \A i \in Requests : OnTheWay(i)' => OnTheWay(i) \/ i = id[c]
    <2>1. id[c] \in Requests /\ ~OnTheWay(id[c])
      BY <1>1 DEF Send, OwnInv, AtWork, UnsentStays
    <2>2. /\ Len(outbox') = Len(outbox) + 1
          /\ \A k \in 1 .. Len(outbox) : outbox'[k] = outbox[k]
          /\ outbox'[Len(outbox) + 1] = id[c]
          /\ Len(outbox) \in Nat
      BY <1>0, <1>1, <2>1, AppendProperties, LenProperties DEF Send
    <2>3. \A k \in 1 .. Len(outbox') : k \in 1 .. Len(outbox) \/ k = Len(outbox) + 1
      BY <2>2
    <2>4. UNCHANGED <<wire, stray>>
      BY <1>1 DEF Send, netVars
    <2>5. QED
      BY <2>1, <2>2, <2>3, <2>4
  <1>2. ASSUME Write
        PROVE  /\ OnceOnTheWay'
               /\ \A i \in Requests : OnTheWay(i)' => OnTheWay(i)
    <2>1. /\ Len(outbox') = Len(outbox) - 1
          /\ \A k \in 1 .. Len(outbox') : outbox'[k] = outbox[k + 1]
          /\ Len(outbox) \in Nat /\ Len(outbox) > 0
          /\ Head(outbox) = outbox[1]
      BY <1>0, <1>2, HeadTailProperties, LenProperties, EmptySeq DEF Write
    <2>2. \A k \in 1 .. Len(outbox') : k + 1 \in 1 .. Len(outbox) /\ k + 1 # 1
      BY <2>1
    <2>3. wire' \cup stray' = wire \cup stray \cup {outbox[1]}
      BY <1>2, <2>1 DEF Write
    <2>4. 1 \in 1 .. Len(outbox)
      BY <2>1
    <2>5. \A k, m \in 1 .. Len(outbox') : outbox'[k] = outbox'[m] => k = m
      BY <2>1, <2>2
    <2>6. ASSUME NEW i \in wire' \cup stray', NEW k \in 1 .. Len(outbox'), outbox'[k] = i
          PROVE  FALSE
      BY <2>1, <2>2, <2>3, <2>4, <2>6
    <2>7. \A i \in Requests : OnTheWay(i)' => OnTheWay(i)
      BY <2>1, <2>2, <2>3, <2>4
    <2>8. QED
      BY <2>5, <2>6, <2>7
  <1>3. ASSUME outbox' = <<>> \/ outbox' = outbox,
               wire' \cup stray' \subseteq wire \cup stray
        PROVE  /\ OnceOnTheWay'
               /\ \A i \in Requests : OnTheWay(i)' => OnTheWay(i)
    <2>1. CASE outbox' = <<>>
      <3>1. Len(outbox') = 0
        BY <2>1
      <3>2. \A i : ~InOutbox(i)'
        BY <3>1
      <3>3. QED
        BY <1>3, <3>1, <3>2
    <2>2. CASE outbox' = outbox
      BY <1>3, <2>2
    <2>3. QED
      BY <1>3, <2>1, <2>2
  <1>4. ASSUME NEW i \in Requests, Process(i) PROVE ~OnTheWay(i)'
    BY <1>4 DEF Process, linkVars
  <1>5. \/ \E c \in Callers : Send(c)
        \/ Write
        \/ /\ outbox' = <<>> \/ outbox' = outbox
           /\ wire' \cup stray' \subseteq wire \cup stray
    <2>1. ASSUME NEW c \in Callers, Request(c), ~Send(c)
          PROVE  UNCHANGED <<outbox, wire, stray>>
      BY <2>1 DEF Request, Register, Ask, Refuse, TakeAnswer, TimeOut, Leave, linkVars, netVars
    <2>2. ASSUME NEW i \in Requests, Process(i) \/ Lose(i) \/ Receive(i)
          PROVE  outbox' = outbox /\ wire' \cup stray' \subseteq wire \cup stray
      BY <2>2 DEF Process, Lose, Receive, linkVars
    <2>3. ASSUME WriteError \/ Drop \/ LinkStep \/ UNCHANGED vars
          PROVE  /\ outbox' = <<>> \/ outbox' = outbox
                 /\ wire' \cup stray' \subseteq wire \cup stray
      BY <2>3 DEF WriteError, Drop, LinkStep, ClearTx, CleanUp, Reconnect, StoreTx,
                  vars, linkVars, netVars
    <2>4. QED
      BY <2>1, <2>2, <2>3 DEF Next
  <1>6. QED
    BY <1>1, <1>2, <1>3, <1>4, <1>5

LEMMA RpcInvInit == Init => RpcInv
  BY DEF Init, RpcInv, IdsInOrder, OnceOnTheWay, OnTheWayIsOpen, OnTheWay, InOutbox,
         UnsentStays, AnswersEarned, Decided, Requests, Empty

\* What becomes of the requests' outcomes, ids and executions.
LEMMA IdsStep ==
    ASSUME OwnInv, IdsInOrder, [Next]_vars
    PROVE  IdsInOrder'
  <1> USE DEF IdsInOrder, OwnInv
  <1>1. ASSUME NEW c \in Callers, Register(c) PROVE IdsInOrder'
    <2>1. counter \in Requests /\ counter \in Nat /\ counter' = counter + 1
      BY <1>1 DEF Register, TypeOK, Requests
    <2>2. /\ id' = [id EXCEPT ![c] = counter]
          /\ status' = [status EXCEPT ![counter] = "open"]
          /\ st' = [st EXCEPT ![c] = "registered"]
      BY <1>1 DEF Register
    <2>3. \A d \in Callers : id[d] \in Nat
      BY DEF TypeOK
    <2>4. \A i \in Requests : (status[i] = "new" <=> i >= counter)'
      BY <2>1, <2>2 DEF TypeOK, Requests
    <2>5. \A d \in Callers : (id[d] < counter)'
      BY <2>1, <2>2, <2>3 DEF TypeOK
    <2>6. \A d, e \in Callers : (id[d] = id[e] /\ id[d] # 0 => d = e)'
      BY <2>1, <2>2, <2>3 DEF TypeOK
    <2>7. \A d \in Callers : (st[d] # "idle" => id[d] # 0 /\ status[id[d]] = "open")'
      BY <2>1, <2>2, <2>3 DEF TypeOK, AtWork, Requests
    <2>8. QED
      BY <2>4, <2>5, <2>6, <2>7
  <1>2. ASSUME NEW c \in Callers, Ask(c) \/ Send(c) PROVE IdsInOrder'
    BY <1>2 DEF Ask, Send, TypeOK
  <1>3. ASSUME NEW c \in Callers, Refuse(c) \/ TakeAnswer(c) \/ TimeOut(c)
        PROVE  IdsInOrder'
    <2>1. PICK o \in {"answered", "rejected", "refused", "failed"} :
            /\ st' = [st EXCEPT ![c] = "idle"]
            /\ status' = [status EXCEPT ![id[c]] = o]
            /\ UNCHANGED <<id, counter>>
      BY <1>3 DEF Refuse, TakeAnswer, TimeOut, Leave
    <2>2. id[c] \in Requests /\ status[id[c]] = "open"
      BY <1>3 DEF Refuse, TakeAnswer, TimeOut, AtWork
    <2>3. \A i \in Requests : (status[i] = "new" <=> i >= counter)'
      BY <2>1, <2>2 DEF TypeOK
    <2>4. \A d \in Callers : (st[d] # "idle" => id[d] # 0 /\ status[id[d]] = "open")'
      BY <2>1, <2>2 DEF TypeOK, AtWork
    <2>5. QED
      BY <2>1, <2>3, <2>4
  <1>4. CASE UNCHANGED <<st, id, counter, status>>
    BY <1>4
  <1>5. QED
    BY <1>1, <1>2, <1>3, <1>4
    DEF Next, vars, callerVars, Request, Write, WriteError, Process, Lose, Receive, Drop,
        LinkStep, ClearTx, CleanUp, Reconnect, StoreTx

LEMMA OnTheWayStep ==
    ASSUME OwnInv, RpcInv, [Next]_vars
    PROVE  OnTheWayIsOpen'
  <1> USE DEF OnTheWayIsOpen, OwnInv, RpcInv
  <1>1. ASSUME NEW i \in Requests, OnTheWay(i)'
        PROVE  i \notin Decided'
    <2>1. i \notin Decided
      BY <1>1, Traffic DEF UnsentStays, Send
    <2>2. ~Process(i)
      BY <1>1, Traffic
    <2>3. Decided' = Decided \/ \E j \in Requests : Process(j) /\ Decided' = Decided \cup {j}
      BY DEF Decided, Next, vars, netVars, Request, Register, Ask, Send, Refuse, TakeAnswer, TimeOut,
             Leave, Write, WriteError, Process, Lose, Receive, Drop,
             LinkStep, ClearTx, CleanUp, Reconnect, StoreTx
    <2>4. QED
      BY <2>1, <2>2, <2>3
  <1>2. ASSUME NEW i \in Requests, OnTheWay(i)'
        PROVE  status'[i] \in {"open", "failed"}
    <2>1. status[i] \in {"open", "failed"}
      BY <1>2, Traffic DEF IdsInOrder, Send
    <2>2. ASSUME NEW c \in Callers, Refuse(c) PROVE i # id[c]
      <3>1. ~OnTheWay(id[c])
        BY <2>2 DEF Refuse, UnsentStays
      <3>2. \A d \in Callers : ~Send(d)
        BY <2>2 DEF Refuse, Send, Holds, Leave, TypeOK
      <3>3. QED
        BY <1>2, <3>1, <3>2, Traffic
    <2>3. ASSUME NEW c \in Callers, TakeAnswer(c) PROVE i # id[c]
      <3>1. id[c] \in Decided
        BY <2>3 DEF TakeAnswer, TableInv, AnswerIsOwn, AnswersEarned
      <3>2. Decided' = Decided
        BY <2>3 DEF TakeAnswer, Leave, netVars, Decided
      <3>3. QED
        BY <1>1, <1>2, <3>1, <3>2
    <2>4. ASSUME NEW c \in Callers, TimeOut(c) PROVE status'[i] \in {"open", "failed"}
      BY <2>1, <2>4 DEF TimeOut, Leave, TypeOK
    <2>5. ASSUME NEW c \in Callers, Refuse(c) \/ TakeAnswer(c)
          PROVE  status'[i] \in {"open", "failed"}
      BY <2>1, <2>2, <2>3, <2>5 DEF Refuse, TakeAnswer, Leave, TypeOK
    <2>6. ASSUME NEW c \in Callers, Register(c) PROVE status'[i] \in {"open", "failed"}
      BY <2>1, <2>6 DEF Register, TypeOK
    <2>7. CASE UNCHANGED status
      BY <2>1, <2>7
    <2>8. QED
      BY <2>4, <2>5, <2>6, <2>7
      DEF Next, vars, callerVars, Request, Ask, Send, Write, WriteError, Process, Lose,
          Receive, Drop, LinkStep, ClearTx, CleanUp, Reconnect, StoreTx
  <1>3. QED
    BY <1>1, <1>2

LEMMA UnsentStep ==
    ASSUME OwnInv, RpcInv, [Next]_vars
    PROVE  UnsentStays'
  <1> USE DEF UnsentStays, OwnInv, RpcInv
  <1> SUFFICES ASSUME NEW d \in Callers, st'[d] \in {"registered", "queued"}
               PROVE  ~OnTheWay(id[d])' /\ id'[d] \notin Decided'
    OBVIOUS
  <1>1. CASE Register(d)
    <2>1. id'[d] = counter /\ counter \in Requests
      BY <1>1 DEF Register, TypeOK, Requests
    <2>2. status[counter] = "new"
      BY <2>1 DEF IdsInOrder, Requests
    <2>3. ~OnTheWay(counter) /\ counter \notin Decided
      BY <2>1, <2>2 DEF OnTheWayIsOpen, AnswersEarned
    <2>4. OnTheWay(id[d])' <=> OnTheWay(counter)
      BY <1>1, <2>1 DEF Register, OnTheWay, InOutbox, linkVars, netVars
    <2>5. QED
      BY <1>1, <2>1, <2>3, <2>4 DEF Register, netVars, Decided
  <1>2. CASE ~Register(d)
    <2>1. st[d] \in {"registered", "queued"} /\ id'[d] = id[d]
      BY <1>2 DEF TypeOK, Next, vars, callerVars, Request, Register, Ask, Send, Refuse,
         TakeAnswer, TimeOut, Leave, Write, WriteError, Process, Lose, Receive, Drop,
         LinkStep, ClearTx, CleanUp, Reconnect, StoreTx
    <2>2. id[d] \in Requests /\ ~OnTheWay(id[d]) /\ id[d] \notin Decided
      BY <2>1 DEF AtWork
    <2>3. ASSUME NEW c \in Callers, Send(c) PROVE id[c] # id[d]
      <3>1. c # d
        BY <2>3 DEF Send, TypeOK
      <3>2. QED
        BY <2>2, <3>1 DEF IdsInOrder, Requests
    <2>4. \A i \in Requests : i = id[d] => ~OnTheWay(i)'
      BY <2>2, <2>3, Traffic
    <2>5. ASSUME NEW i \in Requests, Process(i) PROVE i # id[d]
      BY <2>2, <2>5 DEF Process, OnTheWay
    <2>6. Decided' = Decided \/ \E j \in Requests : Process(j) /\ Decided' = Decided \cup {j}
      BY DEF Decided, Next, vars, netVars, Request, Register, Ask, Send, Refuse, TakeAnswer, TimeOut,
             Leave, Write, WriteError, Process, Lose, Receive, Drop,
             LinkStep, ClearTx, CleanUp, Reconnect, StoreTx
    <2>7. id[d] \notin Decided'
      BY <2>2, <2>5, <2>6
    <2>8. ~OnTheWay(id[d])'
      BY <2>1, <2>2, <2>4 DEF OnTheWay, InOutbox
    <2>9. QED
      BY <2>1, <2>7, <2>8
  <1>3. QED
    BY <1>1, <1>2

LEMMA EarnedStep ==
    ASSUME OwnInv, RpcInv, [Next]_vars
    PROVE  AnswersEarned'
  <1> USE DEF AnswersEarned, Decided, OwnInv, RpcInv
  <1>1. ASSUME NEW c \in Callers, Register(c) PROVE AnswersEarned'
    BY <1>1 DEF Register, netVars, TypeOK, Empty
  <1>2. ASSUME NEW c \in Callers, Refuse(c) \/ TakeAnswer(c) \/ TimeOut(c)
        PROVE  AnswersEarned'
    BY <1>2 DEF Refuse, TakeAnswer, TimeOut, Leave, netVars, TypeOK
  <1>3. ASSUME NEW i \in Requests, Process(i) PROVE AnswersEarned'
    <2>1. OnTheWay(i)
      BY <1>3 DEF Process, OnTheWay
    <2>2. status[i] # "new"
      BY <2>1 DEF OnTheWayIsOpen
    <2>3. QED
      BY <1>3, <2>2 DEF Process, callerVars
  <1>4. ASSUME NEW i \in Requests, Receive(i) PROVE AnswersEarned'
    BY <1>4 DEF Receive, TypeOK
  <1>5. CASE Drop
    BY <1>5 DEF Drop, callerVars
  <1>6. CASE CleanUp
    BY <1>6 DEF CleanUp, netVars, Closed
  <1>7. CASE UNCHANGED <<rx, answers, executed, rejected, status>>
    BY <1>7
  <1>8. QED
    BY <1>1, <1>2, <1>3, <1>4, <1>5, <1>6, <1>7
    DEF Next, vars, callerVars, netVars, Request, Ask, Send, Write, WriteError, Lose,
        LinkStep, ClearTx, Reconnect, StoreTx

LEMMA RpcStep == OwnInv /\ RpcInv /\ [Next]_vars => RpcInv'
  BY Traffic, IdsStep, OnTheWayStep, UnsentStep, EarnedStep DEF RpcInv

----------------------------------------------------------------------------
(* The channel implements OrderRpc *)

LEMMA Simulates ==
    ASSUME OwnInv, RpcInv, [Next]_vars
    PROVE  [Rpc!RpcNext]_(Rpc!rpcVars)
  <1> USE DEF OwnInv, RpcInv, Rpc!rpcVars, Rpc!RpcNext, Rpc!Moves
  <1>1. ASSUME NEW c \in Callers, Register(c) PROVE Rpc!RpcNext
    <2>1. counter \in Requests /\ status[counter] = "new"
      BY <1>1 DEF Register, TypeOK, IdsInOrder, Requests
    <2>2. Rpc!Call(counter)
      BY <1>1, <2>1 DEF Register, Rpc!Call, netVars
    <2>3. QED
      BY <2>1, <2>2
  <1>2. ASSUME NEW c \in Callers, st[c] # "idle"
        PROVE  id[c] \in Requests /\ status[id[c]] = "open"
    BY <1>2 DEF AtWork, IdsInOrder
  <1>3. ASSUME NEW c \in Callers, Refuse(c) PROVE Rpc!RpcNext
    <2>1. id[c] \in Requests /\ status[id[c]] = "open" /\ id[c] \notin Decided
      BY <1>2, <1>3 DEF Refuse, UnsentStays
    <2>2. Rpc!Refuse(id[c])
      BY <1>3, <2>1 DEF Refuse, Leave, netVars, Decided, Rpc!Refuse, Rpc!Undecided
    <2>3. QED
      BY <2>1, <2>2
  <1>4. ASSUME NEW c \in Callers, TakeAnswer(c) PROVE Rpc!RpcNext
    <2>1. /\ id[c] \in Requests /\ status[id[c]] = "open"
          /\ rx[c] = id[c] /\ id[c] \in Decided
      BY <1>2, <1>4 DEF TakeAnswer, TableInv, AnswerIsOwn, AnswersEarned
    <2>2. CASE id[c] \in rejected
      <3>1. Rpc!Deny(id[c])
        BY <1>4, <2>1, <2>2 DEF TakeAnswer, Leave, netVars, Rpc!Deny
      <3>2. QED
        BY <2>1, <3>1
    <2>3. CASE id[c] \notin rejected
      <3>1. Rpc!Answer(id[c])
        BY <1>4, <2>1, <2>3 DEF TakeAnswer, Leave, netVars, Decided, Rpc!Answer
      <3>2. QED
        BY <2>1, <3>1
    <2>4. QED
      BY <2>2, <2>3
  <1>5. ASSUME NEW c \in Callers, TimeOut(c) PROVE Rpc!RpcNext
    <2>1. id[c] \in Requests /\ status[id[c]] = "open"
      BY <1>2, <1>5 DEF TimeOut
    <2>2. Rpc!GiveUp(id[c])
      BY <1>5, <2>1 DEF TimeOut, Leave, netVars, Rpc!GiveUp
    <2>3. QED
      BY <2>1, <2>2
  <1>6. ASSUME NEW i \in Requests, Process(i) PROVE Rpc!RpcNext
    <2>1. OnTheWay(i)
      BY <1>6 DEF Process, OnTheWay
    <2>2. Rpc!Undecided(i)
      BY <2>1 DEF OnTheWayIsOpen, Decided, Rpc!Undecided
    <2>3. Rpc!Execute(i) \/ Rpc!Reject(i)
      BY <1>6, <2>2 DEF Process, callerVars, Rpc!Execute, Rpc!Reject
    <2>4. QED
      BY <2>3
  <1>7. CASE UNCHANGED <<status, executed, rejected>>
    BY <1>7
  <1>8. QED
    BY <1>1, <1>3, <1>4, <1>5, <1>6, <1>7
    DEF Next, vars, callerVars, netVars, Request, Ask, Send, Write, WriteError, Lose, Receive,
        Drop, LinkStep, ClearTx, CleanUp, Reconnect, StoreTx

\* For any number of callers, requests and lost connections: a result means the order was
\* executed, an error of the exchange or a refusal that it was not and never will be, and
\* no order is executed twice.
THEOREM ImplementsOrderRpc == Spec => KeepsPromise
<1>1. Init => OwnInv /\ RpcInv
  BY OwnInit, RpcInvInit
<1>2. OwnInv /\ RpcInv /\ [Next]_vars => (OwnInv /\ RpcInv)'
  BY OwnStep, RpcStep
<1>3. Init => Rpc!RpcInit
  BY DEF Init, Rpc!RpcInit
<1>4. OwnInv /\ RpcInv /\ [Next]_vars => [Rpc!RpcNext]_(Rpc!rpcVars)
  BY Simulates
<1>5. QED
  BY <1>1, <1>2, <1>3, <1>4, PTL DEF Spec, KeepsPromise, Rpc!RpcSpec

=============================================================================
