-------------------------------- MODULE OrderRpc --------------------------------
(****************************************************************************)
(* What the order channel promises its callers: a request that comes back   *)
(* with a result was executed; one that comes back as rejected, or that was *)
(* refused before it was sent, was not and never will be; of one that       *)
(* failed nothing is known, it may even be executed later.  No request is   *)
(* worked on twice.                                                         *)
(****************************************************************************)
CONSTANT Requests

VARIABLES
    status,      \* how far each request is, as its caller sees it
    executed,    \* the requests the exchange has executed
    rejected     \* the requests the exchange has rejected

rpcVars == <<status, executed, rejected>>

RpcInit ==
    /\ status = [r \in Requests |-> "new"]
    /\ executed = {}
    /\ rejected = {}

Moves(r, from, to) ==
    /\ status[r] = from
    /\ status' = [status EXCEPT ![r] = to]
    /\ UNCHANGED <<executed, rejected>>

Call(r) == Moves(r, "new", "open")

Undecided(r) == status[r] \in {"open", "failed"} /\ r \notin executed \cup rejected

Execute(r) ==
    /\ Undecided(r)
    /\ executed' = executed \cup {r}
    /\ UNCHANGED <<status, rejected>>

Reject(r) ==
    /\ Undecided(r)
    /\ rejected' = rejected \cup {r}
    /\ UNCHANGED <<status, executed>>

Answer(r) == Moves(r, "open", "answered") /\ r \in executed

Deny(r) == Moves(r, "open", "rejected") /\ r \in rejected

Refuse(r) == Moves(r, "open", "refused") /\ Undecided(r)

GiveUp(r) == Moves(r, "open", "failed")

RpcNext ==
    \E r \in Requests :
        \/ Call(r) \/ Answer(r) \/ Deny(r) \/ Refuse(r) \/ GiveUp(r)
        \/ Execute(r) \/ Reject(r)

RpcSpec == RpcInit /\ [][RpcNext]_rpcVars

=============================================================================
