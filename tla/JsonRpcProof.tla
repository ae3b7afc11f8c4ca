---------------------------- MODULE JsonRpcProof ----------------------------
(***************************************************************************)
(* Proofs about the JSON-RPC service, for every set of requests and groups:*)
(* it never responds twice to a request, it keeps to the life of a request,*)
(* and it hides no error and leaves no request unanswered but for the      *)
(* reasons the code has.                                                   *)
(***************************************************************************)
EXTENDS JsonRpc, TLAPS

\* The responses are a sequence for every request, and services are waited for only
\* on behalf of requests that arrived.
ResponsesType ==
    /\ sent \in [Requests -> Seq({"result", "error"})]
    /\ waiting \subseteq received
    /\ received \subseteq Requests

\* Nothing was sent for a request that has yet to arrive or to be called back: each
\* response ends its request.
Unanswered == \A r \in Requests : r \notin received \/ r \in waiting => sent[r] = <<>>

\* The inductive invariant.
RInv == ResponsesType /\ Unanswered /\ AtMostOneResponse

LEMMA RInvInit == Init => RInv
BY DEF Init, RInv, ResponsesType, Unanswered, AtMostOneResponse

\* One more step of a request of which nothing was sent: a response that ends it, or
\* no response.
LEMMA OneMore ==
    ASSUME RInv, NEW r \in Requests, sent[r] = <<>>, NEW response \in {"result", "error"},
           r \in received', received \subseteq received', received' \subseteq received \cup {r},
           \/ Respond(r, response) /\ waiting' = waiting \ {r}
           \/ UNCHANGED sent /\ waiting' \subseteq waiting \cup {r}
    PROVE  RInv'
<1>. USE DEF RInv, ResponsesType, Unanswered, AtMostOneResponse
<1>1. CASE Respond(r, response) /\ waiting' = waiting \ {r}
  <2>1. sent' = [sent EXCEPT ![r] = <<response>>]
    BY <1>1 DEF Respond
  <2>2. <<response>> \in Seq({"result", "error"}) /\ Len(<<response>>) <= 1
    OBVIOUS
  <2>3. ResponsesType'
    BY <1>1, <2>1, <2>2
  <2>4. Unanswered'
    BY <1>1, <2>1
  <2>5. AtMostOneResponse'
    BY <2>1, <2>2
  <2>. QED BY <2>3, <2>4, <2>5
<1>2. CASE UNCHANGED sent /\ waiting' \subseteq waiting \cup {r}
  BY <1>2
<1>. QED BY <1>1, <1>2

\* An exception, or another service asked, is such a step.
LEMMA AskOneMore ==
    ASSUME RInv, NEW r \in Requests, NEW k, NEW stack, sent[r] = <<>>, r \in received',
           received \subseteq received', received' \subseteq received \cup {r},
           Ask(r, k, stack) \/ Throw(r, stack)
    PROVE  RInv'
<1>1. \/ Respond(r, "error") /\ waiting' = waiting \ {r}
      \/ UNCHANGED sent /\ waiting' \subseteq waiting \cup {r}
  BY DEF Ask, Throw
<1>. QED BY <1>1, OneMore

LEMMA RInvNext == RInv /\ [Next]_vars => RInv'
<1>. SUFFICES ASSUME RInv, [Next]_vars PROVE RInv'
  OBVIOUS
<1>1. ASSUME NEW r \in Requests, Receive(r)
      PROVE  /\ sent[r] = <<>> /\ r \in received'
             /\ received \subseteq received' /\ received' \subseteq received \cup {r}
  BY <1>1 DEF Receive, RInv, Unanswered
<1>2. ASSUME NEW r \in Requests, RefuseRequest(r) PROVE RInv'
  BY <1>1, <1>2, AskOneMore DEF RefuseRequest, ParseError, MethodNotFound, InvalidParams
<1>3. ASSUME NEW r \in Requests, OnRPCRequest(r) PROVE RInv'
  <2>1. CASE Ask(r, 1, TRUE)
    BY <1>1, <1>3, <2>1, AskOneMore DEF OnRPCRequest
  <2>2. CASE Respond(r, "result") /\ UNCHANGED waiting
    <3>1. waiting' = waiting \ {r}
      BY <1>3, <2>2 DEF OnRPCRequest, Receive, RInv, ResponsesType
    <3>. QED BY <1>1, <1>3, <2>2, <3>1, OneMore DEF OnRPCRequest
  <2>. QED BY <1>3, <2>1, <2>2 DEF OnRPCRequest
<1>4. ASSUME NEW r \in Requests, NEW inside \in BOOLEAN, Callback(r, inside)
      PROVE  /\ sent[r] = <<>> /\ r \in received' /\ received' = received
  BY <1>4 DEF Callback, RInv, ResponsesType, Unanswered
<1>5. ASSUME NEW r \in Requests, NEW inside \in BOOLEAN, ServiceAnswer(r, inside) PROVE RInv'
  <2>1. Callback(r, inside)
    BY <1>5 DEF ServiceAnswer, ServiceError, ServiceResult, NoReceipt
  <2>2. CASE Drop(r) \/ Finish(r, "result") \/ Finish(r, "error")
    BY <1>4, <2>1, <2>2, OneMore DEF Drop, Finish
  <2>3. CASE Ask(r, asked[r] + 1, r \in onStack')
    BY <1>4, <2>1, <2>3, AskOneMore
  <2>. QED BY <1>5, <2>2, <2>3
           DEF ServiceAnswer, ServiceError, ServiceResult, NoReceipt, AfterError
<1>6. CASE UNCHANGED <<received, waiting, sent>>
  BY <1>6 DEF RInv, ResponsesType, Unanswered, AtMostOneResponse
<1>7. ASSUME NEW g \in Groups, GroupChange(g) PROVE UNCHANGED <<received, waiting, sent>>
  BY <1>7 DEF GroupChange
<1>8. CASE Destroy \/ UNCHANGED vars
  BY <1>6, <1>8 DEF Destroy, vars
<1>. QED BY <1>2, <1>3, <1>5, <1>6, <1>7, <1>8 DEF Next

\* Whatever the methods, the groups and the threads do, _sender is called at most
\* once for a request.
THEOREM AtMostOneResponseHolds == Spec => []AtMostOneResponse
<1>1. RInv => AtMostOneResponse
  BY DEF RInv
<1>. QED BY <1>1, RInvInit, RInvNext, PTL DEF Spec

----------------------------------------------------------------------------
(***************************************************************************)
(* The life of a request.                                                  *)
(***************************************************************************)
\* A step that asks no more than the invariant allows is a step of RequestLife.
LEMMA LifeStep ==
    ASSUME RInv, NEW r \in Requests, r \notin received \/ r \in waiting,
           NEW response \in {"result", "error"}, received' = received \cup {r},
           \/ Respond(r, response) /\ waiting' = waiting \ {r}
           \/ UNCHANGED sent /\ waiting' = waiting \ {r}
           \/ UNCHANGED sent /\ waiting' = waiting \cup {r}
    PROVE  [Life!Next]_(Life!vars)
<1>1. CASE Respond(r, response) /\ waiting' = waiting \ {r}
  <2>1. sent[r] = <<>>
    BY DEF RInv, Unanswered
  <2>2. sent' = [sent EXCEPT ![r] = <<response>>]
    BY <1>1, <2>1 DEF Respond
  <2>3. Len(sent[r]) = 0 /\ Len(<<response>>) = 1
    BY <2>1
  <2>4. [q \in Requests |-> Len(sent'[q])]
          = [[q \in Requests |-> Len(sent[q])] EXCEPT ![r] = @ + 1]
    <3> DEFINE replies == [q \in Requests |-> Len(sent[q])]
    <3>1. \A q \in Requests : Len(sent'[q]) = IF q = r THEN 1 ELSE Len(sent[q])
      BY <2>2, <2>3 DEF RInv, ResponsesType
    <3>2. [q \in Requests |-> Len(sent'[q])] = [replies EXCEPT ![r] = 1]
      BY <3>1
    <3>3. replies[r] + 1 = 1
      BY <2>3
    <3>. QED BY <3>2, <3>3
  <2>. QED BY <1>1, <2>4 DEF Life!Next, Life!LetGo, Life!Open, Life!OneReply
<1>2. CASE UNCHANGED sent /\ waiting' = waiting \ {r}
  BY <1>2 DEF Life!Next, Life!LetGo, Life!Open
<1>3. CASE UNCHANGED sent /\ waiting' = waiting \cup {r}
  BY <1>3 DEF Life!Next, Life!Take, Life!vars, RInv, ResponsesType
<1>. QED BY <1>1, <1>2, <1>3

LEMMA LifeNext == RInv /\ [Next]_vars => [Life!Next]_(Life!vars)
<1>. SUFFICES ASSUME RInv, [Next]_vars PROVE [Life!Next]_(Life!vars)
  OBVIOUS
<1>1. ASSUME NEW r \in Requests, RefuseRequest(r) \/ OnRPCRequest(r)
      PROVE  [Life!Next]_(Life!vars)
  <2>1. r \notin received /\ received' = received \cup {r} /\ waiting = waiting \ {r}
    BY <1>1 DEF RefuseRequest, ParseError, MethodNotFound, InvalidParams, OnRPCRequest,
                Receive, RInv, ResponsesType
  <2>2. \/ Respond(r, "result") /\ waiting' = waiting
        \/ Respond(r, "error") /\ waiting' = waiting \ {r}
        \/ UNCHANGED sent /\ waiting' = waiting \cup {r}
    BY <1>1 DEF RefuseRequest, ParseError, MethodNotFound, InvalidParams, OnRPCRequest,
                Ask, Throw
  <2>. QED BY <2>1, <2>2, LifeStep
<1>2. ASSUME NEW r \in Requests, NEW inside \in BOOLEAN, ServiceAnswer(r, inside)
      PROVE  [Life!Next]_(Life!vars)
  <2>1. r \in waiting /\ received' = received \cup {r}
    BY <1>2 DEF ServiceAnswer, ServiceError, ServiceResult, NoReceipt, Callback, RInv,
                ResponsesType
  <2>2. \/ Drop(r) \/ Finish(r, "result") \/ Finish(r, "error")
        \/ Ask(r, asked[r] + 1, r \in onStack')
    BY <1>2 DEF ServiceAnswer, ServiceError, ServiceResult, NoReceipt, AfterError
  <2>3. \/ Respond(r, "result") /\ waiting' = waiting \ {r}
        \/ Respond(r, "error") /\ waiting' = waiting \ {r}
        \/ UNCHANGED sent /\ waiting' = waiting \ {r}
        \/ UNCHANGED sent /\ waiting' = waiting \cup {r}
    BY <2>2 DEF Drop, Finish, Ask, Throw
  <2>. QED BY <2>1, <2>3, LifeStep
<1>3. ASSUME UNCHANGED <<received, waiting, sent>> PROVE UNCHANGED Life!vars
  BY <1>3 DEF Life!vars
<1>4. ASSUME NEW g \in Groups, GroupChange(g) PROVE UNCHANGED Life!vars
  BY <1>3, <1>4 DEF GroupChange
<1>5. CASE Destroy \/ UNCHANGED vars
  BY <1>3, <1>5 DEF Destroy, vars
<1>. QED BY <1>1, <1>2, <1>4, <1>5 DEF Next

\* onRPCRequest, the callbacks of the services and the exceptions they meet keep to
\* the life of a request: what was let go of is never taken up again.
THEOREM ImplementsLifeHolds == Spec => ImplementsLife
<1>1. Init => Life!Init
  BY DEF Init, Life!Init
<1>. QED BY <1>1, RInvInit, RInvNext, LifeNext, PTL DEF Spec, ImplementsLife, Life!Spec

----------------------------------------------------------------------------
(***************************************************************************)
(* What is known of a request: which service it has got to, and why it is  *)
(* not answered, or answered with a result, if it is.                      *)
(***************************************************************************)
\* What the proofs need to know of the methods: how many services each asks.
LEMMA MethodLengths ==
    /\ \A m \in Methods : MethodToFunc[m] = <<>> \/ Len(MethodToFunc[m]) \in 1..2
    /\ Len(MethodToFunc["getTransactionReceipt"]) = 2
    /\ Len(MethodToFunc["getBlockByHash"]) = 2
    /\ \A m \in Methods : Len(MethodToFunc[m]) = 2 =>
         m \in {"getTransactionReceipt", "getBlockByHash"}
<1>1. /\ Len(getTransactionReceipt) = 2 /\ Len(getBlockByHash) = 2
  BY DEF getTransactionReceipt, getTransaction, getBlockByHash, getBlockByNumber
<1>2. /\ Len(call) = 1 /\ Len(sendTransaction) = 1 /\ Len(getTransaction) = 1
      /\ Len(getBlockByNumber) = 1 /\ Len(getBlockHashByNumber) = 1
      /\ Len(getBlockNumber) = 1 /\ Len(getCode) = 1 /\ Len(getSealerList) = 1
      /\ Len(getObserverList) = 1 /\ Len(getPbftView) = 1 /\ Len(getPendingTxSize) = 1
      /\ Len(getSyncStatus) = 1 /\ Len(getConsensusStatus) = 1
      /\ Len(getSystemConfigByKey) = 1 /\ Len(getTotalTransactionCount) = 1
      /\ Len(getPeers) = 1 /\ Len(getGroupPeers) = 1
  BY DEF call, sendTransaction, getTransaction, getBlockByNumber, getBlockHashByNumber,
         getBlockNumber, getCode, getSealerList, getObserverList, getPbftView,
         getPendingTxSize, getSyncStatus, getConsensusStatus, getSystemConfigByKey,
         getTotalTransactionCount, getPeers, getGroupPeers
<1>3. /\ getGroupList = <<>> /\ getGroupInfo = <<>>
      /\ getGroupInfoList = <<>> /\ getGroupNodeInfo = <<>> /\ Len(<<>>) = 0
  BY DEF getGroupList, getGroupInfo, getGroupInfoList, getGroupNodeInfo
<1>. QED BY <1>1, <1>2, <1>3 DEF Methods, MethodToFunc

\* A request that waits for its k-th service, none of which has failed so far.
Asking(r) ==
    /\ method[r] \in Methods
    /\ asked[r] \in 1..Len(Services(r))
    /\ failed[r] = {}

Explained(r) ==
    \/ method[r] = "sendTransaction" /\ failed[r] = {}
    \/ Len(Services(r)) = 2 /\ asked[r] = 1 /\ r \notin onStack /\ failed[r] = {}
    \/ ~alive /\ HoldsWeakly(method[r], asked[r])

Reported(r) ==
    \/ failed[r] = {}
    \/ sent[r] # <<"result">>
    \/ method[r] = "getBlockHashByNumber"
    \/ method[r] = "getTransactionReceipt" /\ failed[r] = {2}

RequestOK(r) ==
    /\ r \notin received => asked[r] = 0 /\ failed[r] = {}
    /\ r \in waiting => Asking(r)
    /\ r \in received \ waiting /\ sent[r] = <<>> => Explained(r)
    /\ Reported(r)

\* The inductive invariant.
QInv == TypeOK /\ RInv /\ \A r \in Requests : RequestOK(r)

LEMMA QInvInit == Init => QInv
<1>. USE DEF Init
<1>1. Init => TypeOK /\ RInv
  BY RInvInit DEF TypeOK
<1>2. Init => \A r \in Requests : RequestOK(r)
  BY DEF RequestOK, Reported
<1>. QED BY <1>1, <1>2 DEF QInv

\* What a step leaves to the requests it is not about.
Untouched(q) ==
    /\ asked'[q] = asked[q] /\ failed'[q] = failed[q] /\ sent'[q] = sent[q]
    /\ q \in received' <=> q \in received
    /\ q \in waiting' <=> q \in waiting
    /\ q \in onStack' <=> q \in onStack

LEMMA OneRequest ==
    ASSUME QInv, TypeOK', RInv', NEW r \in Requests, UNCHANGED <<method, alive>>,
           \A q \in Requests \ {r} : Untouched(q), RequestOK(r)'
    PROVE  QInv'
<1>1. ASSUME NEW q \in Requests \ {r} PROVE RequestOK(q)'
  <2>1. Untouched(q) /\ RequestOK(q)
    BY <1>1 DEF QInv
  <2>2. Asking(q)' <=> Asking(q)
    BY <2>1 DEF Untouched, Asking, Services
  <2>3. Explained(q)' <=> Explained(q)
    BY <2>1 DEF Untouched, Explained, HoldsWeakly, Services
  <2>4. Reported(q)' <=> Reported(q)
    BY <2>1 DEF Untouched, Reported
  <2>. QED BY <2>1, <2>2, <2>3, <2>4 DEF Untouched, RequestOK
<1>. QED BY <1>1 DEF QInv

\* A request that onRPCRequest takes.
LEMMA Taken ==
    ASSUME QInv, RInv', NEW r \in Requests, RefuseRequest(r) \/ OnRPCRequest(r)
    PROVE  QInv'
<1>1. /\ r \notin received /\ received' = received \cup {r}
      /\ onStack' = onStack \cup {r}
      /\ UNCHANGED <<method, alive, started, failed>>
  BY DEF RefuseRequest, ParseError, MethodNotFound, InvalidParams, OnRPCRequest, Receive
<1>2. failed[r] = {} /\ asked[r] = 0 /\ sent[r] = <<>>
  BY <1>1 DEF QInv, RequestOK, RInv, Unanswered
<1>3. CASE /\ Respond(r, "error") \/ Respond(r, "result")
           /\ waiting' = waiting \ {r} /\ UNCHANGED asked
  <2>1. PICK response \in {"error", "result"} : sent' = [sent EXCEPT ![r] = <<response>>]
    BY <1>2, <1>3 DEF Respond
  <2>2. TypeOK'
    BY <1>1, <1>3 DEF QInv, TypeOK, RInv, ResponsesType
  <2>3. \A q \in Requests \ {r} : Untouched(q)
    BY <1>1, <1>3, <2>1 DEF QInv, TypeOK, Untouched
  <2>4. RequestOK(r)'
    <3>1. sent'[r] = <<response>> /\ failed'[r] = {} /\ r \in received' /\ r \notin waiting'
      BY <1>1, <1>2, <1>3, <2>1 DEF QInv, TypeOK
    <3>2. <<response>> # <<>>
      OBVIOUS
    <3>. QED BY <3>1, <3>2 DEF RequestOK, Reported
  <2>. QED BY <1>1, <2>2, <2>3, <2>4, OneRequest
<1>4. CASE /\ method[r] \in Methods /\ Services(r) # <<>>
           /\ asked' = [asked EXCEPT ![r] = 1]
           /\ waiting' = waiting \cup {r} /\ UNCHANGED sent
  <2>1. TypeOK'
    BY <1>1, <1>4 DEF QInv, TypeOK
  <2>2. \A q \in Requests \ {r} : Untouched(q)
    BY <1>1, <1>4 DEF QInv, TypeOK, Untouched
  <2>3. Asking(r)'
    <3>1. Len(Services(r)) \in 1..2
      BY <1>4, MethodLengths DEF Services
    <3>2. asked'[r] = 1 /\ Services(r)' = Services(r)
      BY <1>1, <1>4 DEF QInv, TypeOK, Services
    <3>. QED BY <1>1, <1>2, <1>4, <3>1, <3>2 DEF Asking
  <2>4. RequestOK(r)'
    BY <1>1, <1>2, <1>4, <2>3 DEF RequestOK, Reported
  <2>. QED BY <1>1, <2>1, <2>2, <2>4, OneRequest
<1>5. CASE RefuseRequest(r)
  BY <1>3, <1>5 DEF RefuseRequest, ParseError, MethodNotFound, InvalidParams, Throw
<1>6. CASE OnRPCRequest(r)
  <2>1. method[r] \in Methods /\ waiting = waiting \ {r}
    BY <1>1, <1>6 DEF OnRPCRequest, QInv, TypeOK
  <2>. QED BY <1>3, <1>4, <1>6, <2>1 DEF OnRPCRequest, Ask, Throw
<1>. QED BY <1>5, <1>6

\* A request whose service calls back.
LEMMA Answered ==
    ASSUME QInv, RInv', NEW r \in Requests, NEW inside \in BOOLEAN, ServiceAnswer(r, inside)
    PROVE  QInv'
<1>1. /\ r \in waiting /\ r \in received /\ onStack' \in {onStack, onStack \ {r}}
      /\ UNCHANGED <<method, alive, started, received>>
  BY DEF ServiceAnswer, ServiceError, ServiceResult, NoReceipt, Callback, QInv, TypeOK
<1>2. Asking(r) /\ sent[r] = <<>>
  BY <1>1 DEF QInv, RequestOK, RInv, Unanswered
<1>3. Len(Services(r)) \in {1, 2} /\ asked[r] \in 1..Len(Services(r)) /\ asked[r] \in {1, 2}
  <2>1. Services(r) = <<>> \/ Len(Services(r)) \in 1..2
    BY <1>2, MethodLengths DEF Asking, Services
  <2>2. Services(r) = <<>> => Len(Services(r)) = 0
    OBVIOUS
  <2>3. asked[r] \in 1..Len(Services(r))
    BY <1>2 DEF Asking
  <2> DEFINE n == Len(Services(r))
  <2>4. n = 0 \/ n \in {1, 2}
    BY <2>1, <2>2
  <2>5. ~(asked[r] \in 1..0) /\ \A k \in 1..1 \cup 1..2 : k \in {1, 2}
    OBVIOUS
  <2>6. asked[r] \in 1..n
    BY <2>3
  <2>. HIDE DEF n
  <2>7. n \in {1, 2} /\ asked[r] \in {1, 2}
    BY <2>4, <2>5, <2>6
  <2>. QED BY <2>3, <2>7 DEF n
<1>4. ASSUME NEW response \in {"error", "result"}, Finish(r, response),
             UNCHANGED failed \/ failed' = [failed EXCEPT ![r] = @ \cup {asked[r]}],
             response = "result" => UNCHANGED failed \/ HidesError(method[r], asked[r])
      PROVE  QInv'
  <2>1. sent' = [sent EXCEPT ![r] = <<response>>] /\ waiting' = waiting \ {r} /\ UNCHANGED asked
    BY <1>2, <1>4 DEF Finish, Respond
  <2>2. failed'[r] = {} \/ failed'[r] = {asked[r]}
    BY <1>2, <1>4 DEF Asking, QInv, TypeOK
  <2>3. TypeOK'
    <3>1. sent' \in [Requests -> Seq({"result", "error"})]
      BY DEF RInv, ResponsesType
    <3>2. failed' \in [Requests -> SUBSET {1, 2}]
      BY <1>3, <1>4 DEF QInv, TypeOK
    <3>. QED BY <1>1, <2>1, <3>1, <3>2 DEF QInv, TypeOK
  <2>4. \A q \in Requests \ {r} : Untouched(q)
    BY <1>1, <1>4, <2>1 DEF QInv, TypeOK, Untouched
  <2>5. RequestOK(r)'
    <3>1. sent'[r] = <<response>> /\ r \in received' /\ r \notin waiting'
      BY <1>1, <2>1 DEF QInv, TypeOK
    <3>2. <<response>> # <<>> /\ (<<response>> = <<"result">> => response = "result")
      OBVIOUS
    <3>3. Reported(r)'
      BY <1>1, <1>2, <1>4, <2>2, <3>1, <3>2 DEF Reported, HidesError, Asking
    <3>. QED BY <3>1, <3>2, <3>3 DEF RequestOK
  <2>. QED BY <1>1, <2>3, <2>4, <2>5, OneRequest
<1>5. ASSUME UNCHANGED <<sent, asked>>, waiting' = waiting \ {r}, Explained(r)',
             UNCHANGED failed \/ failed' = [failed EXCEPT ![r] = @ \cup {asked[r]}]
      PROVE  QInv'
  <2>1. TypeOK'
    BY <1>1, <1>3, <1>5 DEF QInv, TypeOK
  <2>2. \A q \in Requests \ {r} : Untouched(q)
    BY <1>1, <1>5 DEF QInv, TypeOK, Untouched
  <2>3. RequestOK(r)'
    <3>1. sent'[r] = <<>> /\ <<>> # <<"result">> /\ r \in received' /\ r \notin waiting'
      BY <1>1, <1>2, <1>5
    <3>. QED BY <1>5, <3>1 DEF RequestOK, Reported
  <2>. QED BY <1>1, <2>1, <2>2, <2>3, OneRequest
<1>6. ASSUME Expired(r), Drop(r),
             UNCHANGED failed \/ failed' = [failed EXCEPT ![r] = @ \cup {asked[r]}]
      PROVE  QInv'
  <2>1. Explained(r)'
    BY <1>1, <1>6 DEF Expired, HoldsWeakly, Drop, Explained
  <2>. QED BY <1>5, <1>6, <2>1 DEF Drop
<1>7. CASE ServiceError(r, inside)
  BY <1>4, <1>6, <1>7 DEF ServiceError, AfterError
<1>8. CASE ServiceResult(r, inside)
  <2>1. CASE asked[r] # Len(Services(r)) /\ Ask(r, asked[r] + 1, r \in onStack')
    <3>1. asked[r] = 1 /\ Len(Services(r)) = 2
      <4> DEFINE n == Len(Services(r))
      <4>1. n \in {1, 2} /\ asked[r] \in 1..n /\ asked[r] \in {1, 2} /\ asked[r] # n
        BY <1>3, <2>1
      <4>. HIDE DEF n
      <4>2. asked[r] = 1 /\ n = 2
        BY <4>1
      <4>. QED BY <4>2 DEF n
    <3>2. CASE /\ asked' = [asked EXCEPT ![r] = 2] /\ waiting' = waiting \cup {r}
               /\ UNCHANGED sent
      <4>1. UNCHANGED failed
        BY <1>8 DEF ServiceResult
      <4>2. TypeOK'
        BY <1>1, <3>2, <4>1 DEF QInv, TypeOK
      <4>3. \A q \in Requests \ {r} : Untouched(q)
        BY <1>1, <3>2, <4>1 DEF QInv, TypeOK, Untouched
      <4>4. asked'[r] = 2 /\ Services(r)' = Services(r)
        BY <1>1, <3>2 DEF QInv, TypeOK, Services
      <4>5. Asking(r)'
        <5>1. 2 \in 1..2
          OBVIOUS
        <5>. QED BY <1>1, <1>2, <3>1, <4>1, <4>4, <5>1 DEF Asking
      <4>6. RequestOK(r)'
        BY <1>1, <1>2, <3>2, <4>1, <4>5 DEF RequestOK, Reported, Asking
      <4>. QED BY <1>1, <4>2, <4>3, <4>6, OneRequest
    <3>3. CASE Throw(r, r \in onStack') /\ r \in onStack'
      BY <1>4, <1>8, <3>3 DEF ServiceResult, Throw, Finish
    <3>4. CASE Throw(r, r \in onStack') /\ r \notin onStack'
      <4>1. Explained(r)'
        BY <1>1, <1>2, <1>8, <3>1, <3>4 DEF ServiceResult, Throw, Explained, Services, Asking
      <4>. QED BY <1>5, <1>8, <3>4, <4>1 DEF ServiceResult, Throw
    <3>. QED BY <2>1, <3>1, <3>2, <3>3, <3>4 DEF Ask
  <2>. QED BY <1>4, <1>6, <1>8, <2>1 DEF ServiceResult
<1>9. CASE NoReceipt(r, inside)
  <2>1. Explained(r)' /\ UNCHANGED failed
    BY <1>1, <1>2, <1>9 DEF NoReceipt, Explained, Asking
  <2>. QED BY <1>5, <1>9, <2>1 DEF NoReceipt, Drop
<1>. QED BY <1>7, <1>8, <1>9 DEF ServiceAnswer

LEMMA QInvNext == QInv /\ [Next]_vars => QInv'
<1>. SUFFICES ASSUME QInv, [Next]_vars PROVE QInv'
  OBVIOUS
<1>1. RInv'
  BY RInvNext DEF QInv
<1>2. ASSUME NEW g \in Groups, GroupChange(g) PROVE QInv'
  BY <1>1, <1>2 DEF GroupChange, QInv, TypeOK, RequestOK, Asking, Explained, HoldsWeakly, Reported, Services
<1>3. CASE Destroy
  <2>1. TypeOK'
    BY <1>3 DEF Destroy, QInv, TypeOK
  <2>2. ASSUME NEW r \in Requests PROVE RequestOK(r)'
    BY <1>3 DEF Destroy, QInv, RequestOK, Asking, Explained, HoldsWeakly, Reported, Services
  <2>. QED BY <1>1, <2>1, <2>2 DEF QInv
<1>4. CASE UNCHANGED vars
  BY <1>1, <1>4 DEF vars, QInv, TypeOK, RequestOK, Asking, Explained, HoldsWeakly, Reported, Services
<1>. QED BY <1>1, <1>2, <1>3, <1>4, Taken, Answered DEF Next

LEMMA QInvAlways == Spec => []QInv
BY QInvInit, QInvNext, PTL DEF Spec

\* Type correctness; with it, no method asks for more services than it has
\* (JsonRpcImpl_2_0.cpp:490-1317).
THEOREM TypeCorrect == Spec => []TypeOK
BY QInvAlways, PTL DEF QInv

\* No request stays without a response but for the reasons the code has: the pool has
\* neither an error nor a receipt for a sendTransaction (JsonRpcImpl_2_0.cpp:536-585), no
\* service failed but the second one could not be asked outside of onRPCRequest (709-738),
\* or the service was destroyed before a callback that holds it weakly.
THEOREM UnansweredExplainedHolds == Spec => []UnansweredExplained
<1>1. QInv => UnansweredExplained
  BY DEF QInv, TypeOK, RequestOK, Explained, Receiptless, UnansweredExplained
<1>. QED BY <1>1, QInvAlways, PTL

\* The error of a service is reported, but for getBlockHashByNumber and the transaction
\* of a receipt (JsonRpcImpl_2_0.cpp:721-738, 827-838).
THEOREM ErrorsReportedHolds == Spec => []ErrorsReported
<1>1. QInv => ErrorsReported
  BY DEF QInv, RequestOK, Reported, ErrorsReported
<1>. QED BY <1>1, QInvAlways, PTL

----------------------------------------------------------------------------
(***************************************************************************)
(* Every request is answered, while the service lives and the groups keep  *)
(* their nodes.  A request goes from its first service to its second one,  *)
(* if it has one, and from there to its response.                          *)
(***************************************************************************)
\* A second service is always the one that was asked before.
LEMMA SecondService ==
    ASSUME NEW m \in Methods, Len(MethodToFunc[m]) = 2
    PROVE  MethodToFunc[m][1] = "ledger" /\ MethodToFunc[m][2] = "ledger"
<1>1. m \in {"getTransactionReceipt", "getBlockByHash"}
  BY MethodLengths
<1>2. /\ getTransactionReceipt[1] = "ledger" /\ getTransactionReceipt[2] = "ledger"
      /\ getBlockByHash[1] = "ledger" /\ getBlockByHash[2] = "ledger"
  BY DEF getTransactionReceipt, getTransaction, getBlockByHash, getBlockByNumber
<1>. QED BY <1>1, <1>2 DEF Methods, MethodToFunc

\* The condition of EventuallyAnswered.
Steady == alive /\ started = Groups

\* Nothing more will be done for it.
Over(r) == sent[r] # <<>> \/ Receiptless(r)

\* A request taken is over, or waits for a service; the next one, if there is one, can
\* be asked.
Served(r) ==
    r \in received =>
         \/ Over(r)
         \/ r \in waiting /\ (Len(Services(r)) = 2 => "ledger" \notin Uninitialized)

\* It waits for its k-th service.
At(r, k) == r \in waiting /\ asked[r] = k

\* The callback of a service, while the service lives.
LEMMA CallbackServes ==
    ASSUME QInv, Steady, NEW r \in Requests, Served(r), NEW inside \in BOOLEAN,
           ServiceAnswer(r, inside)
    PROVE  /\ Served(r)'
           /\ Over(r)' \/ (r \in waiting' /\ asked'[r] = asked[r] + 1)
<1>1. /\ r \in waiting /\ r \in received
      /\ UNCHANGED <<method, received>> /\ UNCHANGED Services(r)
  BY DEF ServiceAnswer, ServiceError, ServiceResult, NoReceipt, Callback, QInv, TypeOK,
         Services
<1>2. Asking(r) /\ sent[r] = <<>> /\ ~Expired(r) /\ ~Receiptless(r)
  BY <1>1 DEF QInv, RequestOK, RInv, Unanswered, Steady, Expired, Receiptless
<1>3. /\ sent \in [Requests -> Seq({"result", "error"})] /\ asked \in [Requests -> 0..2]
      /\ Len(Services(r)) \in 1..2 /\ asked[r] \in 1..Len(Services(r))
      /\ asked[r] = Len(Services(r)) \/ (asked[r] = 1 /\ Len(Services(r)) = 2)
  <2>1. Len(Services(r)) \in 1..2 /\ asked[r] \in 1..Len(Services(r))
    BY <1>2, MethodLengths DEF Asking, Services
  <2>2. ASSUME NEW n \in 1..2, asked[r] \in 1..n PROVE asked[r] = n \/ (asked[r] = 1 /\ n = 2)
    BY <2>2
  <2>. QED BY <2>1, <2>2 DEF QInv, TypeOK
<1>4. ASSUME NEW response, Finish(r, response) PROVE Over(r)'
  BY <1>3, <1>4 DEF Finish, Respond, Over
<1>5. CASE Finish(r, "result") \/ Finish(r, "error")
  BY <1>1, <1>4, <1>5 DEF Served
<1>6. CASE asked[r] # Len(Services(r)) /\ Ask(r, asked[r] + 1, r \in onStack')
  <2>1. asked[r] = 1 /\ Len(Services(r)) = 2
    BY <1>3, <1>6
  <2>4. Services(r)[2] = "ledger"
    BY <1>2, <2>1, SecondService DEF Services, Asking
  <2>2. CanAsk(r, Services(r)[2])
    BY <1>1, <1>2, <2>1, <2>4, RequestsAssumption DEF Served, Over, Steady, CanAsk
  <2>3. r \in waiting' /\ asked'[r] = asked[r] + 1
    BY <1>3, <1>6, <2>1, <2>2 DEF Ask
  <2>. QED BY <1>1, <1>2, <2>3 DEF Served, Over
<1>7. CASE NoReceipt(r, inside)
  <2>1. Receiptless(r)'
    BY <1>1, <1>2, <1>7 DEF NoReceipt, Drop, Receiptless, Asking
  <2>. QED BY <2>1 DEF Over, Served
<1>. QED BY <1>2, <1>5, <1>6, <1>7 DEF ServiceAnswer, ServiceError, ServiceResult, NoReceipt, AfterError

\* onRPCRequest responds, or asks the first service.
LEMMA RequestServed ==
    ASSUME QInv, Steady, NEW r \in Requests, Served(r), RefuseRequest(r) \/ OnRPCRequest(r)
    PROVE  Served(r)'
<1>1. UNCHANGED method /\ UNCHANGED Services(r)
  BY DEF RefuseRequest, ParseError, MethodNotFound, InvalidParams, OnRPCRequest, Receive,
         Services
<1>2. sent \in [Requests -> Seq({"result", "error"})]
  BY DEF QInv, TypeOK
<1>3. ASSUME NEW response, Respond(r, response) PROVE Over(r)'
  BY <1>2, <1>3 DEF Respond, Over
<1>4. CASE Respond(r, "error") \/ Respond(r, "result")
  BY <1>1, <1>3, <1>4 DEF Served
<1>5. CASE /\ OnRPCRequest(r) /\ CanAsk(r, Services(r)[1]) /\ r \in waiting'
  <2>1. method[r] \in Methods
    BY <1>5 DEF OnRPCRequest, QInv, TypeOK
  <2>2. Len(Services(r)) = 2 => Services(r)[1] = "ledger"
    BY <2>1, SecondService DEF Services
  <2>3. Len(Services(r)) = 2 => "ledger" \notin Uninitialized
    BY <1>5, <2>2 DEF CanAsk
  <2>. QED BY <1>1, <1>5, <2>3 DEF Served
<1>. QED BY <1>4, <1>5 DEF RefuseRequest, ParseError, MethodNotFound, InvalidParams,
                           OnRPCRequest, Ask, Throw

\* A step leaves a request where it is, or brings it to its next service or to its
\* response.
LEMMA ServedNext ==
    ASSUME QInv, Steady, NEW r \in Requests, Served(r), [Next]_vars
    PROVE  /\ Served(r)'
           /\ r \in waiting =>
                Over(r)' \/ (r \in waiting' /\ asked'[r] \in {asked[r], asked[r] + 1})
<1>1. ASSUME UNCHANGED method, Untouched(r)
      PROVE  /\ Served(r)'
             /\ r \in waiting => r \in waiting' /\ asked'[r] = asked[r]
  BY <1>1 DEF Served, Over, Receiptless, Services, Untouched
<1>2. ASSUME NEW q \in Requests, q # r, RefuseRequest(q) \/ OnRPCRequest(q)
      PROVE  UNCHANGED method /\ Untouched(r)
  BY <1>2 DEF RefuseRequest, ParseError, MethodNotFound, InvalidParams, OnRPCRequest,
              Receive, Ask, Throw, Respond, Untouched, QInv, TypeOK
<1>3. ASSUME NEW q \in Requests, q # r, NEW inside \in BOOLEAN, ServiceAnswer(q, inside)
      PROVE  UNCHANGED method /\ Untouched(r)
  <2>1. /\ UNCHANGED <<method, received>> /\ onStack' \in {onStack, onStack \ {q}}
        /\ failed' = failed \/ failed' = [failed EXCEPT ![q] = @ \cup {asked[q]}]
    BY <1>3 DEF ServiceAnswer, ServiceError, ServiceResult, NoReceipt, Callback
  <2>2. \/ Drop(q) \/ Finish(q, "result") \/ Finish(q, "error")
        \/ Ask(q, asked[q] + 1, q \in onStack')
    BY <1>3 DEF ServiceAnswer, ServiceError, ServiceResult, NoReceipt, AfterError
  <2>. QED BY <1>3, <2>1, <2>2
           DEF Drop, Finish, Ask, Throw, Respond, Untouched, QInv, TypeOK
<1>4. ASSUME RefuseRequest(r) \/ OnRPCRequest(r) PROVE r \notin waiting
  BY <1>4 DEF RefuseRequest, ParseError, MethodNotFound, InvalidParams, OnRPCRequest,
              Receive, QInv, TypeOK
<1>5. CASE RefuseRequest(r) \/ OnRPCRequest(r)
  BY <1>4, <1>5, RequestServed
<1>6. ASSUME NEW inside \in BOOLEAN, ServiceAnswer(r, inside)
      PROVE  /\ Served(r)'
             /\ Over(r)' \/ (r \in waiting' /\ asked'[r] = asked[r] + 1)
  BY <1>6, CallbackServes
<1>7. ASSUME NEW g \in Groups, GroupChange(g) PROVE UNCHANGED method /\ Untouched(r)
  BY <1>7 DEF GroupChange, Untouched
<1>8. CASE Destroy \/ UNCHANGED vars
  BY <1>1, <1>8 DEF Destroy, vars, Untouched
<1>. QED BY <1>1, <1>2, <1>3, <1>5, <1>6, <1>7, <1>8 DEF Next

\* What tlapm, which cannot expand ENABLED, is given: the guard of the callbacks of the
\* services (JsonRpcImpl_2_0.cpp:490-1317).
CallbackPossible ==
    \A r \in waiting : ENABLED <<ServiceAnswer(r, FALSE)>>_vars

LEMMA RequestAnswered ==
    ASSUME NEW r \in Requests
    PROVE  /\ Spec /\ FairCallback(r) /\ []CallbackPossible
           /\ [](alive /\ started = Groups)
           => (r \in received ~> (sent[r] # <<>> \/ Receiptless(r)))
<1>0. Over(r) => sent[r] # <<>> \/ Receiptless(r)
  BY DEF Over
<1>1. Init => Served(r)
  BY DEF Init, Served
<1>2. QInv /\ Steady /\ Served(r) /\ [Next]_vars => Served(r)'
  BY ServedNext
<1>3. QInv /\ Served(r) /\ r \in received => Over(r) \/ At(r, 1) \/ At(r, 2)
  <2>. SUFFICES ASSUME QInv, r \in waiting PROVE asked[r] \in {1, 2}
    BY DEF Served, At
  <2>1. Asking(r) /\ Services(r) # <<>>
    BY DEF QInv, RequestOK, Asking
  <2>2. Len(Services(r)) \in 1..2
    BY <2>1, MethodLengths DEF Asking, Services
  <2>3. ASSUME NEW n \in 1..2, asked[r] \in 1..n PROVE asked[r] \in {1, 2}
    BY <2>3
  <2>. QED BY <2>1, <2>2, <2>3 DEF Asking
<1>4. QInv /\ Steady /\ Served(r) /\ [Next]_vars /\ At(r, 1) =>
        At(r, 1)' \/ At(r, 2)' \/ Over(r)'
  BY ServedNext DEF At
<1>5. QInv /\ Steady /\ Served(r) /\ [Next]_vars /\ At(r, 2) => At(r, 2)' \/ Over(r)'
  <2>1. QInv' => (r \in waiting => asked[r] \in 0..2)'
    BY DEF QInv, TypeOK
  <2>. QED BY <2>1, QInvNext, ServedNext DEF At
<1>6. ASSUME QInv, Steady, Served(r), ServiceAnswer(r, FALSE)
      PROVE  Over(r)' \/ (r \in waiting' /\ asked'[r] = asked[r] + 1)
  BY <1>6, CallbackServes
<1>7. QInv /\ Steady /\ Served(r) /\ At(r, 1) /\ <<ServiceAnswer(r, FALSE)>>_vars =>
        At(r, 2)' \/ Over(r)'
  BY <1>6 DEF At
<1>8. QInv /\ Steady /\ Served(r) /\ [Next]_vars /\ At(r, 2) /\ <<ServiceAnswer(r, FALSE)>>_vars =>
        Over(r)'
  <2>1. QInv' => (asked[r] \in 0..2)'
    BY DEF QInv, TypeOK
  <2>. QED BY <1>6, <2>1, QInvNext DEF At
<1>9. CallbackPossible /\ (At(r, 1) \/ At(r, 2)) => ENABLED <<ServiceAnswer(r, FALSE)>>_vars
  BY DEF CallbackPossible, At
<1>. QED BY <1>0, <1>1, <1>2, <1>3, <1>4, <1>5, <1>7, <1>8, <1>9, QInvAlways, PTL
         DEF Spec, FairCallback, Steady

\* While the service lives and the groups keep their nodes, every request received is
\* answered, but for a sendTransaction without error and receipt, if the services call
\* back: no callback (JsonRpcImpl_2_0.cpp:490-1317) returns without one of a response and
\* another call.  CallbackPossible, which only says ENABLED of the guard of the callbacks,
\* is a hypothesis.
THEOREM EventuallyAnsweredHolds == FairSpec /\ []CallbackPossible => EventuallyAnswered
<1>. SUFFICES ASSUME FairSpec, []CallbackPossible, NEW r \in Requests
              PROVE  [](alive /\ started = Groups) =>
                        (r \in received ~> (sent[r] # <<>> \/ Receiptless(r)))
  BY DEF EventuallyAnswered
<1>1. FairCallback(r) /\ Spec
  BY DEF FairSpec
<1>. QED BY <1>1, RequestAnswered, PTL
=============================================================================
