------------------------------- MODULE JsonRpc -------------------------------
(***************************************************************************)
(* The JSON-RPC service (jsonrpc/JsonRpcImpl_2_0.cpp): how a request comes *)
(* to its response.                                                        *)
(*                                                                         *)
(* onRPCRequest runs the method on the thread the request arrived on.  A   *)
(* method asks services of a node, each through a callback.  The callback  *)
(* may run inside the call, on the thread of the request, or later on a    *)
(* thread of the service.  It matters which: what a method throws is       *)
(* answered by onRPCRequest's catch only while onRPCRequest is on the      *)
(* stack, and two methods look up a node and ask again from a callback.    *)
(***************************************************************************)
EXTENDS Naturals, Sequences

CONSTANTS
    Requests,      \* the requests, each received once
    Groups,
    GroupOf,       \* the group each request is for
    Uninitialized  \* the services the node services lack

(***************************************************************************)
(* The methods: the services each asks, one after the other.  A method     *)
(* implemented by way of another one asks that one's services last.        *)
(***************************************************************************)
call == <<"scheduler">>
sendTransaction == <<"txpool">>
getTransaction == <<"ledger">>
getTransactionReceipt == <<"ledger">> \o getTransaction
getBlockByNumber == <<"ledger">>
getBlockByHash == <<"ledger">> \o getBlockByNumber
getBlockHashByNumber == <<"ledger">>
getBlockNumber == <<"ledger">>
getCode == <<"scheduler">>
getSealerList == <<"ledger">>
getObserverList == <<"ledger">>
getPbftView == <<"consensus">>
getPendingTxSize == <<"txpool">>
getSyncStatus == <<"sync">>
getConsensusStatus == <<"consensus">>
getSystemConfigByKey == <<"ledger">>
getTotalTransactionCount == <<"ledger">>
getPeers == <<"gateway">>
getGroupPeers == <<"gateway">>
getGroupList == <<>>
getGroupInfo == <<>>
getGroupInfoList == <<>>
getGroupNodeInfo == <<>>

MethodToFunc == [
    call |-> call, sendTransaction |-> sendTransaction, getTransaction |-> getTransaction,
    getTransactionReceipt |-> getTransactionReceipt, getBlockByHash |-> getBlockByHash,
    getBlockByNumber |-> getBlockByNumber, getBlockHashByNumber |-> getBlockHashByNumber,
    getBlockNumber |-> getBlockNumber, getCode |-> getCode, getSealerList |-> getSealerList,
    getObserverList |-> getObserverList, getPbftView |-> getPbftView,
    getPendingTxSize |-> getPendingTxSize, getSyncStatus |-> getSyncStatus,
    getConsensusStatus |-> getConsensusStatus, getSystemConfigByKey |-> getSystemConfigByKey,
    getTotalTransactionCount |-> getTotalTransactionCount, getPeers |-> getPeers,
    getGroupPeers |-> getGroupPeers, getGroupList |-> getGroupList,
    getGroupInfo |-> getGroupInfo, getGroupInfoList |-> getGroupInfoList,
    getGroupNodeInfo |-> getGroupNodeInfo]

Methods == DOMAIN MethodToFunc

\* The methods that look at none of their parameters.
Parameterless == {"getPeers", "getGroupList", "getGroupInfoList"}

ASSUME RequestsAssumption == GroupOf \in [Requests -> Groups]

\* checkService is called for these; call and getCode use the scheduler as it is.
Checked == {"ledger", "txpool", "sync", "consensus"}

ASSUME UninitializedAssumption == Uninitialized \subseteq Checked

\* The callbacks that hold the JSON-RPC service by a weak pointer only.
HoldsWeakly(m, k) ==
    /\ k = 1
    /\ m \in {"sendTransaction", "getTransactionReceipt", "getBlockByHash"}

\* The callbacks that respond with nullptr for the error they get.
HidesError(m, k) ==
    \/ m = "getBlockHashByNumber"
    \/ m = "getTransactionReceipt" /\ k = 2

VARIABLES
    method,    \* the method each request names, "unknown" if there is none
    alive,     \* the JSON-RPC service has not been destroyed
    started,   \* the groups that have a node: getNodeService succeeds
    received,  \* the requests that arrived
    asked,     \* how many services each request has asked
    waiting,   \* the requests whose last asked service has yet to call back
    onStack,   \* the requests that so far only ran inside onRPCRequest
    sent,      \* what _sender was called with, for each request
    failed     \* history: which of its services answered with an error

vars == <<method, alive, started, received, asked, waiting, onStack, sent, failed>>

TypeOK ==
    /\ method \in [Requests -> Methods \cup {"unknown"}]
    /\ alive \in BOOLEAN
    /\ started \subseteq Groups
    /\ received \subseteq Requests
    /\ asked \in [Requests -> 0..2]
    /\ waiting \subseteq received
    /\ onStack \subseteq received
    /\ sent \in [Requests -> Seq({"result", "error"})]
    /\ failed \in [Requests -> SUBSET {1, 2}]

Init ==
    /\ method \in [Requests -> Methods \cup {"unknown"}]
    /\ alive = TRUE
    /\ started = Groups
    /\ received = {}
    /\ asked = [r \in Requests |-> 0]
    /\ waiting = {}
    /\ onStack = {}
    /\ sent = [r \in Requests |-> <<>>]
    /\ failed = [r \in Requests |-> {}]

Services(r) == MethodToFunc[method[r]]

----------------------------------------------------------------------------
(***************************************************************************)
(* Responses.  stack: the thread at work is the one onRPCRequest is on.    *)
(***************************************************************************)
Respond(r, response) == sent' = [sent EXCEPT ![r] = Append(@, response)]

\* Defect: the exception is answered, and the callback that is waited for answers too.
ThrowStillWaiting(r, stack) ==
    /\ Respond(r, "error")
    /\ waiting' = waiting \cup {r}
    /\ UNCHANGED asked

\* An exception: onRPCRequest responds with the error, if it is there to catch it.
Throw(r, stack) ==
    /\ IF stack THEN Respond(r, "error") ELSE UNCHANGED sent
    /\ waiting' = waiting \ {r}
    /\ UNCHANGED asked

\* getNodeService finds a node and checkService a service.
CanAsk(r, service) ==
    \/ service = "gateway"
    \/ GroupOf[r] \in started /\ service \notin Uninitialized

\* Asks the k-th service of a request.
Ask(r, k, stack) ==
    IF CanAsk(r, Services(r)[k])
      THEN /\ asked' = [asked EXCEPT ![r] = k]
           /\ waiting' = waiting \cup {r}
           /\ UNCHANGED sent
      ELSE Throw(r, stack)

----------------------------------------------------------------------------
(***************************************************************************)
(* onRPCRequest.                                                           *)
(***************************************************************************)
\* Defect: a request is taken without a note that it was, and served again.
ReceiveAgain(r) ==
    /\ alive
    /\ r \notin received
    /\ onStack' = onStack \cup {r}
    /\ UNCHANGED <<method, alive, started, received, failed>>

Receive(r) ==
    /\ alive
    /\ r \notin received
    /\ received' = received \cup {r}
    /\ onStack' = onStack \cup {r}
    /\ UNCHANGED <<method, alive, started, failed>>

\* The body is no JSON, or lacks one of the members of a request.
ParseError(r) == Receive(r) /\ Throw(r, TRUE)

MethodNotFound(r) ==
    /\ method[r] = "unknown"
    /\ Receive(r)
    /\ Throw(r, TRUE)

\* A parameter cannot be read as the type the method asks for.  One that is missing
\* can: it is read as an empty string, as 0 or as false.
InvalidParams(r) ==
    /\ method[r] \in Methods \ Parameterless
    /\ Receive(r)
    /\ Throw(r, TRUE)

RefuseRequest(r) == ParseError(r) \/ MethodNotFound(r) \/ InvalidParams(r)

OnRPCRequest(r) ==
    /\ method[r] # "unknown"
    /\ Receive(r)
    /\ IF Services(r) = <<>>
         THEN Respond(r, "result") /\ UNCHANGED <<asked, waiting>>
         ELSE Ask(r, 1, TRUE)

----------------------------------------------------------------------------
(***************************************************************************)
(* The callbacks of the services.  inside: the callback runs within the    *)
(* call, on the stack of whoever asked.                                    *)
(***************************************************************************)
Callback(r, inside) ==
    /\ r \in waiting
    /\ onStack' = IF inside THEN onStack ELSE onStack \ {r}
    /\ UNCHANGED <<method, alive, started, received>>

\* The service is gone: the callback returns, and nobody responds.
Expired(r) == ~alive /\ HoldsWeakly(method[r], asked[r])

Drop(r) == waiting' = waiting \ {r} /\ UNCHANGED <<asked, sent>>

Finish(r, response) == Respond(r, response) /\ waiting' = waiting \ {r} /\ UNCHANGED asked

\* Defect: the callback of sendTransaction responds only with a receipt.
AfterErrorReceiptOnly(r) ==
    IF method[r] = "sendTransaction" THEN Drop(r)
    ELSE IF HidesError(method[r], asked[r]) THEN Finish(r, "result")
    ELSE Finish(r, "error")

\* Defect: every callback hides the error it gets.
AfterErrorHidden(r) == Finish(r, "result")

AfterError(r) ==
    IF HidesError(method[r], asked[r]) THEN Finish(r, "result") ELSE Finish(r, "error")

\* A weak pointer that has expired matters only if the callback reads it first:
\* getBlockByHash responds with an error without it.
ServiceError(r, inside) ==
    /\ Callback(r, inside)
    /\ failed' = [failed EXCEPT ![r] = @ \cup {asked[r]}]
    /\ IF Expired(r) /\ method[r] # "getBlockByHash" THEN Drop(r) ELSE AfterError(r)

\* The next service is asked from the callback: onRPCRequest is on the stack only if
\* every callback so far ran inside the call.
ServiceResult(r, inside) ==
    /\ Callback(r, inside)
    /\ UNCHANGED failed
    /\ IF Expired(r) THEN Drop(r)
       ELSE IF asked[r] = Len(Services(r)) THEN Finish(r, "result")
       ELSE Ask(r, asked[r] + 1, r \in onStack')

\* The transaction pool reports no error and no receipt: sendTransaction does not
\* respond.
NoReceipt(r, inside) ==
    /\ method[r] = "sendTransaction"
    /\ Callback(r, inside)
    /\ Drop(r)
    /\ UNCHANGED failed

ServiceAnswer(r, inside) ==
    ServiceError(r, inside) \/ ServiceResult(r, inside) \/ NoReceipt(r, inside)

----------------------------------------------------------------------------
(***************************************************************************)
(* The environment: groups whose nodes come and go, and the end.           *)
(***************************************************************************)
GroupChange(g) ==
    /\ started' = IF g \in started THEN started \ {g} ELSE started \cup {g}
    /\ UNCHANGED <<method, alive, received, asked, waiting, onStack, sent, failed>>

\* Nobody holds the service any more, while services of nodes may yet call back.
Destroy ==
    /\ alive
    /\ alive' = FALSE
    /\ UNCHANGED <<method, started, received, asked, waiting, onStack, sent, failed>>

Next ==
    \/ \E r \in Requests : RefuseRequest(r) \/ OnRPCRequest(r)
    \/ \E r \in Requests :
         ServiceAnswer(r, FALSE) \/ (r \in onStack /\ ServiceAnswer(r, TRUE))
    \/ \E g \in Groups : GroupChange(g)
    \/ Destroy

Spec == Init /\ [][Next]_vars

\* The services of the nodes call back, sooner or later.
FairCallback(r) == WF_vars(ServiceAnswer(r, FALSE))

FairSpec == Spec /\ \A r \in Requests : FairCallback(r)

----------------------------------------------------------------------------
(***************************************************************************)
(* Properties.                                                             *)
(***************************************************************************)

\* The service keeps to the life of a request: it responds only to a request that
\* onRPCRequest has just taken, or that some service has yet to call back for, and one
\* that it let go of, answered or not, it never takes up again.
Life == INSTANCE RequestLife WITH
    Requests <- Requests, Forewarned <- {}, taken <- received, held <- waiting,
    replies <- [r \in Requests |-> Len(sent[r])]
ImplementsLife == Life!Spec

\* Whatever throws where, and however callbacks and onRPCRequest nest, _sender is
\* called at most once for a request.
AtMostOneResponse == \A r \in Requests : Len(sent[r]) <= 1

\* The transaction pool had neither an error nor a receipt for it.
Receiptless(r) ==
    method[r] = "sendTransaction" /\ r \in received \ waiting /\ failed[r] = {}

\* Nobody is left to respond to a request only if it is a sendTransaction for which the
\* transaction pool reported neither an error nor a receipt; if no service failed it, but
\* its method could not ask the second one from a callback outside of onRPCRequest; or if
\* the service was destroyed before a callback that holds it weakly.  In particular no
\* error of a service is lost while the JSON-RPC service lives.
UnansweredExplained ==
    \A r \in received \ waiting :
        sent[r] = <<>> =>
            \/ Receiptless(r)
            \/ /\ Len(Services(r)) = 2 /\ asked[r] = 1
               /\ r \notin onStack /\ failed[r] = {}
            \/ ~alive /\ HoldsWeakly(method[r], asked[r])

\* A request of which a service failed is answered with an error, but for the two
\* methods whose callbacks respond with nullptr: getTransactionReceipt does so only
\* for the transaction, never for the receipt.
ErrorsReported ==
    \A r \in Requests :
        sent[r] = <<"result">> /\ failed[r] # {} =>
            \/ method[r] = "getBlockHashByNumber"
            \/ method[r] = "getTransactionReceipt" /\ failed[r] = {2}

\* While the service lives and the groups keep their nodes, every request received
\* is answered, or is a sendTransaction for which there was neither error nor receipt.
EventuallyAnswered ==
    \A r \in Requests :
        [](alive /\ started = Groups) =>
            (r \in received ~> (sent[r] # <<>> \/ Receiptless(r)))
=============================================================================
