---------------------------- MODULE EventSubProof ----------------------------
(***************************************************************************)
(* Proofs about EventSub, for any requests, sessions, number of calls in   *)
(* flight, height and number of blocks per loop.                           *)
(***************************************************************************)
EXTENDS EventSub, TLAPS

LEMMA RequestFields ==
    ASSUME NEW r \in Requests
    PROVE  /\ r.id \in Ids /\ r.group \in Groups /\ r.session \in Sessions
           /\ r.from \in Int /\ r.to \in Int
  BY RequestsAssumption

(***************************************************************************)
(* A chain holds no call or a record of Calls; the proofs that need only   *)
(* this keep the two definitions closed.                                   *)
(***************************************************************************)
LEMMA CallTypes ==
    ASSUME NEW r \in Requests, NEW n \in Int, NEW last \in Int, NEW seen \in Int,
           NEW stage \in {"number", "block", "store"}
    PROVE  Call(stage, r, n, last, seen) \in Calls
  BY DEF Call, Calls

LEMMA CallFields ==
    ASSUME TypeOK, NEW c \in Chains, chain[c].stage # "idle"
    PROVE  /\ chain[c].task \in Requests
           /\ chain[c].next \in Int /\ chain[c].last \in Int /\ chain[c].seen \in Int
           /\ current[chain[c].task] \in Int
           /\ pushed[chain[c].task] \in SUBSET Int
  <1>1. chain[c] \in Calls
    BY DEF TypeOK, NoCall
  <1>2. /\ chain[c].task \in Requests
        /\ chain[c].next \in Int /\ chain[c].last \in Int /\ chain[c].seen \in Int
    BY <1>1 DEF Calls
  <1> QED
    BY <1>2 DEF TypeOK

LEMMA ChainUpdate ==
    ASSUME chain \in [Chains -> Calls \cup {NoCall}], NEW c \in Chains,
           NEW call \in Calls \cup {NoCall}
    PROVE  [chain EXCEPT ![c] = call] \in [Chains -> Calls \cup {NoCall}]
  OBVIOUS

(***************************************************************************)
(* Process is shared by BlockNumberReply and NextBlock: what it leaves of  *)
(* the three variables it sets.                                            *)
(***************************************************************************)
LEMMA ProcessTypes ==
    ASSUME TypeOK,
           NEW c \in Chains, NEW r \in Requests, NEW n \in Int, NEW last \in Int,
           NEW busy \in SUBSET Requests, Process(c, r, n, last, busy)
    PROVE  /\ work' \subseteq Requests
           /\ chain' \in [Chains -> Calls \cup {NoCall}]
           /\ cancelTasks' \subseteq Ids
  <1>1. r.id \in Ids
    BY RequestFields
  <1>2. work' \subseteq Requests /\ cancelTasks' \subseteq Ids
    BY <1>1 DEF Process, UnsubscribeEventSub, TypeOK
  <1>3. Call("block", r, n, last, 0) \in Calls
    BY CallTypes
  <1>4. chain \in [Chains -> Calls \cup {NoCall}]
    BY DEF TypeOK
  <1>5. \/ chain' = [chain EXCEPT ![c] = NoCall]
        \/ chain' = [chain EXCEPT ![c] = Call("block", r, n, last, 0)]
    BY DEF Process
  <1>6. chain' \in [Chains -> Calls \cup {NoCall}]
    BY <1>3, <1>4, <1>5
  <1> QED
    BY <1>2, <1>6

\* The blocks a walk begins and ends with are block numbers.
LEMMA WalkBounds ==
    ASSUME TypeOK, NEW r \in Requests, NEW b \in Int
    PROVE  FirstBlock(r, b) \in Int /\ LastBlock(r, b) \in Int
  <1>1. r.from \in Int /\ r.to \in Int /\ current[r] \in Int
    BY RequestFields DEF TypeOK
  <1>2. FirstBlock(r, b) \in Int
    BY <1>1 DEF FirstBlock
  <1>3. MaxBlockProcessPerLoop \in Int
    BY BoundsAssumption
  <1> QED
    BY <1>1, <1>2, <1>3 DEF LastBlock

\* What executeAddTasks registers was queued.
LEMMA RegisteredQueued ==
    ASSUME TypeOK
    PROVE  /\ Registered \subseteq Queued
           /\ Registered \subseteq Requests
  BY DEF Registered, Queued, TypeOK

LEMMA TypeStep ==
    ASSUME TypeOK, [Next]_vars
    PROVE  TypeOK'
  <1> USE RequestsAssumption, BoundsAssumption
       DEF TypeOK, workerVars, queueVars, envVars, historyVars, Answers
  <1>1. CASE Start
    BY <1>1 DEF Start
  <1>2. CASE Stop
    BY <1>2 DEF Stop
  <1>3. CASE ExecuteCancelTasks
    BY <1>3 DEF ExecuteCancelTasks
  <1>4. CASE ExecuteAddTasks
    BY <1>4, RegisteredQueued DEF ExecuteAddTasks
  <1>5. CASE ExecuteEventSubTasksDone
    BY <1>5 DEF ExecuteEventSubTasksDone
  <1>6. CASE Terminate
    BY <1>6 DEF Terminate
  <1>7. ASSUME NEW r \in Requests, ExecuteEventSubTask(r) PROVE TypeOK'
    <2> USE RequestFields DEF Visit, UnsubscribeEventSub
    <2>1. CASE DropDisconnected(r)
      BY <2>1 DEF DropDisconnected
    <2>2. CASE OnTaskComplete(r)
      BY <2>2 DEF OnTaskComplete
    <2>3. CASE WaitForWork(r)
      BY <2>3 DEF WaitForWork
    <2>4. CASE DropGroupless(r)
      BY <2>4 DEF DropGroupless
    <2>5. ASSUME NEW c \in Chains, AskBlockNumber(r, c) PROVE TypeOK'
      <3>1. Call("number", r, 0, 0, 0) \in Calls
        BY CallTypes
      <3> QED
        BY <2>5, <3>1, ChainUpdate DEF AskBlockNumber
    <2> QED
      BY <1>7, <2>1, <2>2, <2>3, <2>4, <2>5 DEF ExecuteEventSubTask
  <1>8. CASE Handlers
    <2>1. ASSUME NEW r \in Requests,
                 \/ RefuseParams(r) \/ RefuseGroup(r)
                 \/ OnRecvSubscribeEvent(r) \/ SendResponse(r)
          PROVE  TypeOK'
      <3>1. answer' \in [Requests -> Answers]
        <4>1. /\ Sent(r, "INVALID_PARAMS") \in Answers
              /\ Sent(r, "GROUP_NOT_EXIST") \in Answers
              /\ Sent(r, "SUCCESS") \in Answers
          BY DEF Sent
        <4>2. PICK status \in {Sent(r, "INVALID_PARAMS"), Sent(r, "GROUP_NOT_EXIST"),
                               "queued", Sent(r, "SUCCESS")} :
                answer' = [answer EXCEPT ![r] = status]
          BY <2>1 DEF RefuseParams, RefuseGroup, OnRecvSubscribeEvent, SendResponse
        <4>3. status \in Answers
          BY <4>1, <4>2
        <4> QED
          BY <4>2, <4>3
      <3>2. addTasks' \in Seq(Requests)
        <4>1. addTasks' = addTasks \/ addTasks' = Append(addTasks, r)
          BY <2>1 DEF RefuseParams, RefuseGroup, OnRecvSubscribeEvent, SendResponse
        <4>2. Append(addTasks, r) \in Seq(Requests)
          OBVIOUS
        <4> QED
          BY <4>1, <4>2
      <3>3. CASE RefuseParams(r)
        BY <3>1, <3>2, <3>3 DEF RefuseParams
      <3>4. CASE RefuseGroup(r)
        BY <3>1, <3>2, <3>4 DEF RefuseGroup
      <3>5. CASE OnRecvSubscribeEvent(r)
        BY <3>1, <3>2, <3>5 DEF OnRecvSubscribeEvent
      <3>6. CASE SendResponse(r)
        BY <3>1, <3>2, <3>6 DEF SendResponse
      <3> QED
        BY <2>1, <3>3, <3>4, <3>5, <3>6
    <2>2. ASSUME NEW id \in Ids, OnRecvUnsubscribeEvent(id) PROVE TypeOK'
      <3>1. tasks \cup Queued \subseteq Requests
        BY DEF Queued
      <3>2. unsubscribed' \subseteq Requests
        BY <2>2, <3>1 DEF OnRecvUnsubscribeEvent
      <3> QED
        BY <2>2, <3>2 DEF OnRecvUnsubscribeEvent
    <2> QED
      BY <1>8, <2>1, <2>2 DEF Handlers
  <1>9. ASSUME NEW c \in Chains, LedgerAnswer(c) PROVE TypeOK'
    <2>1. ASSUME NEW b \in 0..MaxBlock, BlockNumberReply(c, b) PROVE TypeOK'
      <3> DEFINE r == chain[c].task
      <3>1. r \in Requests /\ b \in Int
        BY <2>1, CallFields DEF BlockNumberReply
      <3>2. CASE b < FirstBlock(r, b)
        BY <2>1, <3>1, <3>2 DEF BlockNumberReply
      <3>3. CASE ~(b < FirstBlock(r, b))
        <4>1. Process(c, r, FirstBlock(r, b), LastBlock(r, b), work \cup {r})
          BY <2>1, <3>3 DEF BlockNumberReply
        <4> QED
          <5>1. /\ FirstBlock(r, b) \in Int /\ LastBlock(r, b) \in Int
                /\ work \cup {r} \in SUBSET Requests
            BY <3>1, WalkBounds
          <5>2. /\ work' \subseteq Requests
                /\ chain' \in [Chains -> Calls \cup {NoCall}]
                /\ cancelTasks' \subseteq Ids
            BY <3>1, <4>1, <5>1, ProcessTypes
          <5> QED
            BY <2>1, <5>2 DEF BlockNumberReply
      <3> QED
        BY <3>2, <3>3
    <2>2. CASE BlockNumberError(c)
      BY <2>2 DEF BlockNumberError
    <2>3. CASE BlockReply(c)
      <3> DEFINE r == chain[c].task
      <3>1. /\ r \in Requests /\ chain[c].next \in Int /\ chain[c].last \in Int
            /\ current[r] \in Int
        BY <2>3, CallFields DEF BlockReply
      <3>2. Call("store", r, chain[c].next, chain[c].last, current[r]) \in Calls
        BY <3>1, CallTypes
      <3>3. chain' \in [Chains -> Calls \cup {NoCall}]
        BY <2>3, <3>2 DEF BlockReply
      <3>4. pushed' \in [Requests -> SUBSET Int]
        BY <2>3, <3>1 DEF BlockReply
      <3> QED
        BY <2>3, <3>3, <3>4 DEF BlockReply
    <2>4. CASE NextBlock(c)
      <3> DEFINE r == chain[c].task
      <3>1. r \in Requests /\ chain[c].next + 1 \in Int /\ chain[c].last \in Int
        BY <2>4, CallFields DEF NextBlock
      <3>2. current' \in [Requests -> Int]
        BY <2>4, <3>1 DEF NextBlock
      <3>3. Process(c, r, chain[c].next + 1, chain[c].last, work)
        BY <2>4 DEF NextBlock
      <3> QED
        <4>1. /\ work' \subseteq Requests
              /\ chain' \in [Chains -> Calls \cup {NoCall}]
              /\ cancelTasks' \subseteq Ids
          BY <3>1, <3>3, ProcessTypes
        <4> QED
          BY <2>4, <3>2, <4>1 DEF NextBlock
    <2>5. CASE BlockError(c)
      BY <2>5 DEF BlockError
    <2> QED
      BY <1>9, <2>1, <2>2, <2>3, <2>4, <2>5 DEF LedgerAnswer
  <1>10. CASE Environment
    BY <1>10 DEF Environment, Disconnect, GroupChange
  <1>11. CASE UNCHANGED vars
    BY <1>11 DEF vars
  <1> QED
    BY <1>1, <1>2, <1>3, <1>4, <1>5, <1>6, <1>7, <1>8, <1>9, <1>10, <1>11
    DEF Next, ExecuteWorker

LEMMA TypeInit == Init => TypeOK
  <1> SUFFICES ASSUME Init PROVE TypeOK
    OBVIOUS
  <1>1. chain \in [Chains -> Calls \cup {NoCall}]
    BY DEF Init
  <1>2. addTasks \in Seq(Requests)
    BY DEF Init
  <1>3. /\ answer \in [Requests -> Answers]
        /\ current \in [Requests -> Int]
        /\ completed \in [Requests -> Nat]
    BY DEF Init, Answers
  <1>4. pushed \in [Requests -> SUBSET Int]
    BY DEF Init
  <1> QED
    BY <1>1, <1>2, <1>3, <1>4 DEF Init, TypeOK

\* Every state of EventSub has its type.
THEOREM TypeCorrect == Spec => []TypeOK
  BY TypeInit, TypeStep, PTL DEF Spec

----------------------------------------------------------------------------
(***************************************************************************)
(* The inductive invariant of the stream.  What keeps a subscription       *)
(* without gaps while walks overlap is not the work flag but that every    *)
(* walk starts at the block reached, or at the first one of the range, and *)
(* stops at an error: whatever number it stores next, all the blocks below *)
(* were pushed.                                                            *)
(***************************************************************************)
\* Everything of the range below block n was pushed to a client still connected.
PushedBelow(r, n) == IsConnected(r) => r.from .. (n - 1) \subseteq pushed[r]

ReachedInv ==
    \A r \in Requests : r.from > 0 =>
        \/ current[r] < 0
        \/ r.from <= current[r] /\ PushedBelow(r, current[r])

WalkOK(c, r) ==
    /\ r.from <= chain[c].next
    /\ chain[c].next <= chain[c].last
    /\ r.to > 0 => chain[c].last <= r.to
    /\ PushedBelow(r, chain[c].next)
    /\ chain[c].stage = "store" /\ IsConnected(r) => chain[c].next \in pushed[r]

WalkInv ==
    \A c \in Chains : \A r \in Requests : Walking(c, r) /\ r.from > 0 => WalkOK(c, r)

StreamInv == InRange /\ CompletedMeansAll /\ ReachedInv /\ WalkInv

LEMMA StreamInvNoGap ==
    ASSUME TypeOK, ReachedInv
    PROVE  NoGap
  <1> SUFFICES ASSUME NEW r \in Requests, r.from > 0, IsConnected(r)
               PROVE  r.from .. (current[r] - 1) \subseteq pushed[r]
    BY DEF NoGap
  <1>1. r.from \in Int /\ current[r] \in Int
    BY RequestFields DEF TypeOK
  <1>2. CASE current[r] < 0
    BY <1>1, <1>2
  <1>3. CASE ~(current[r] < 0)
    BY <1>3 DEF ReachedInv, PushedBelow
  <1> QED
    BY <1>2, <1>3

\* What was pushed stays pushed, and a closed session stays closed.
LEMMA PushedBelowKept ==
    ASSUME NEW r \in Requests, NEW n \in Int,
           connected' \subseteq connected, pushed[r] \subseteq pushed'[r]
    PROVE  PushedBelow(r, n) => PushedBelow(r, n)'
  BY DEF PushedBelow, IsConnected

\* A walk that a step leaves alone stays as good as it was.
LEMMA WalkKept ==
    ASSUME TypeOK, WalkInv, NEW c \in Chains, NEW r \in Requests,
           chain'[c] = chain[c], connected' \subseteq connected,
           pushed[r] \subseteq pushed'[r], Walking(c, r)', r.from > 0
    PROVE  WalkOK(c, r)'
  <1>1. Walking(c, r)
    BY DEF Walking
  <1>2. WalkOK(c, r)
    BY <1>1 DEF WalkInv
  <1>3. chain[c].next \in Int
    BY <1>1, CallFields DEF Walking
  <1>4. PushedBelow(r, chain[c].next)'
    BY <1>2, <1>3, PushedBelowKept DEF WalkOK
  <1> QED
    BY <1>2, <1>4 DEF WalkOK, IsConnected

\* Steps of the handlers, the worker and the environment that send nothing and
\* store nothing leave the stream alone.
LEMMA StreamKept ==
    ASSUME TypeOK, StreamInv, UNCHANGED <<pushed, completed, current>>,
           connected' \subseteq connected,
           \A c \in Chains : chain'[c] = chain[c] \/ chain'[c].stage \in {"idle", "number"}
    PROVE  StreamInv'
  <1>1. InRange' /\ CompletedMeansAll'
    BY DEF StreamInv, InRange, CompletedMeansAll, IsConnected
  <1>2. ReachedInv'
    <2> SUFFICES ASSUME NEW r \in Requests, r.from > 0, ~(current[r] < 0)
                 PROVE  r.from <= current[r] /\ PushedBelow(r, current[r])'
      BY DEF ReachedInv
    <2>1. r.from <= current[r] /\ PushedBelow(r, current[r]) /\ current[r] \in Int
      BY DEF StreamInv, ReachedInv, TypeOK
    <2> QED
      BY <2>1, PushedBelowKept
  <1>3. WalkInv'
    <2> SUFFICES ASSUME NEW c \in Chains, NEW r \in Requests, Walking(c, r)', r.from > 0
                 PROVE  WalkOK(c, r)'
      BY DEF WalkInv
    <2>1. chain'[c] = chain[c]
      BY DEF Walking
    <2> QED
      BY <2>1, WalkKept DEF StreamInv
  <1> QED
    BY <1>1, <1>2, <1>3 DEF StreamInv

\* A walk goes on only up to its last block.
LEMMA ProcessChain ==
    ASSUME NEW c \in Chains, NEW r \in Requests, NEW n \in Int, NEW last \in Int,
           NEW busy, Process(c, r, n, last, busy)
    PROVE  \/ chain' = [chain EXCEPT ![c] = NoCall]
           \/ n <= last /\ chain' = [chain EXCEPT ![c] = Call("block", r, n, last, 0)]
  BY DEF Process

\* If the block a walk goes on with is one up to which everything was pushed, the
\* walks are as they should be after Process.
LEMMA ProcessWalkInv ==
    ASSUME TypeOK, WalkInv,
           NEW c \in Chains, NEW r \in Requests, NEW n \in Int, NEW last \in Int,
           NEW busy, Process(c, r, n, last, busy),
           UNCHANGED <<pushed, connected>>,
           r.from > 0 => /\ r.from <= n
                         /\ r.to > 0 => last <= r.to
                         /\ PushedBelow(r, n)
    PROVE  WalkInv'
  <1> SUFFICES ASSUME NEW d \in Chains, NEW q \in Requests, Walking(d, q)', q.from > 0
               PROVE  WalkOK(d, q)'
    BY DEF WalkInv
  <1>1. CASE chain'[d] = chain[d]
    BY <1>1, WalkKept
  <1>2. CASE chain'[d] # chain[d]
    <2>1. d = c /\ chain'[c] # NoCall
      <3>1. d = c
        BY <1>2, ProcessChain DEF TypeOK
      <3>2. NoCall.stage = "idle"
        BY DEF NoCall
      <3> QED
        BY <3>1, <3>2 DEF Walking
    <2>2. n <= last /\ chain'[c] = Call("block", r, n, last, 0)
      BY <2>1, ProcessChain DEF TypeOK
    <2>3. q = r
      BY <2>1, <2>2 DEF Walking, Call
    <2>4. PushedBelow(r, n)'
      BY <2>3, PushedBelowKept
    <2> QED
      BY <2>1, <2>2, <2>3, <2>4 DEF WalkOK, Call
  <1> QED
    BY <1>1, <1>2

LEMMA BlockNumberReplyStream ==
    ASSUME TypeOK, StreamInv, NEW c \in Chains, NEW b \in 0..MaxBlock,
           BlockNumberReply(c, b)
    PROVE  StreamInv'
  <1> DEFINE r == chain[c].task
  <1>1. /\ r \in Requests /\ b \in Int /\ current[r] \in Int
        /\ r.from \in Int /\ r.to \in Int
    BY CallFields, RequestFields DEF BlockNumberReply
  <1>2. UNCHANGED <<pushed, completed, current, connected>>
    BY DEF BlockNumberReply, envVars, historyVars
  <1>3. CASE b < FirstBlock(r, b)
    BY <1>2, <1>3, StreamKept DEF BlockNumberReply, TypeOK, NoCall
  <1>4. CASE ~(b < FirstBlock(r, b))
    <2>1. Process(c, r, FirstBlock(r, b), LastBlock(r, b), work \cup {r})
      BY <1>4 DEF BlockNumberReply
    <2>2. FirstBlock(r, b) \in Int /\ LastBlock(r, b) \in Int
      BY <1>1, WalkBounds
    <2>3. r.from > 0 => r.from <= FirstBlock(r, b) /\ PushedBelow(r, FirstBlock(r, b))
      <3>1. CASE current[r] >= 0
        BY <1>1, <3>1 DEF FirstBlock, StreamInv, ReachedInv
      <3>2. CASE current[r] < 0 /\ r.from > 0
        BY <1>1, <3>2 DEF FirstBlock, PushedBelow
      <3> QED
        BY <1>1, <3>1, <3>2
    <2>4. r.to > 0 => LastBlock(r, b) <= r.to
      <3>1. MaxBlockProcessPerLoop \in Int
        BY BoundsAssumption
      <3> QED
        BY <1>1, <2>2, <3>1 DEF LastBlock
    <2>5. WalkInv'
      BY <1>1, <1>2, <2>1, <2>2, <2>3, <2>4, ProcessWalkInv DEF StreamInv
    <2> QED
      BY <1>2, <2>5 DEF StreamInv, InRange, CompletedMeansAll, ReachedInv, PushedBelow,
                        IsConnected
  <1> QED
    BY <1>3, <1>4

LEMMA BlockReplyStream ==
    ASSUME TypeOK, StreamInv, NEW c \in Chains, BlockReply(c)
    PROVE  StreamInv'
  <1>0. PICK r \in Requests, n \in Int, last \in Int :
          r = chain[c].task /\ n = chain[c].next /\ last = chain[c].last
    BY CallFields DEF BlockReply
  <1>1. r.from \in Int /\ r.to \in Int
    BY RequestFields
  <1>2. UNCHANGED <<completed, current, connected>>
    BY DEF BlockReply, envVars
  <1>3. /\ \A q \in Requests : pushed[q] \subseteq pushed'[q]
        /\ \A q \in Requests : q # r => pushed'[q] = pushed[q]
        /\ pushed'[r] \subseteq pushed[r] \cup {n}
        /\ IsConnected(r) => n \in pushed'[r]
    BY <1>0 DEF BlockReply, TypeOK
  <1>4. r.from > 0 => WalkOK(c, r)
    BY <1>0 DEF BlockReply, StreamInv, WalkInv, Walking
  <1>5. InRange'
    BY <1>0, <1>1, <1>3, <1>4 DEF StreamInv, InRange, WalkOK
  <1>6. CompletedMeansAll'
    BY <1>2, <1>3 DEF StreamInv, CompletedMeansAll, IsConnected
  <1>7. ReachedInv'
    <2> SUFFICES ASSUME NEW q \in Requests, q.from > 0, ~(current[q] < 0)
                 PROVE  q.from <= current[q] /\ PushedBelow(q, current[q])'
      BY <1>2 DEF ReachedInv
    <2>1. q.from <= current[q] /\ PushedBelow(q, current[q]) /\ current[q] \in Int
      BY DEF StreamInv, ReachedInv, TypeOK
    <2> QED
      BY <1>2, <1>3, <2>1, PushedBelowKept
  <1>8. WalkInv'
    <2> SUFFICES ASSUME NEW d \in Chains, NEW q \in Requests, Walking(d, q)', q.from > 0
                 PROVE  WalkOK(d, q)'
      BY DEF WalkInv
    <2>1. CASE d # c
      <3>1. chain'[d] = chain[d]
        BY <2>1 DEF BlockReply, TypeOK
      <3> QED
        BY <1>2, <1>3, <3>1, WalkKept DEF StreamInv
    <2>2. CASE d = c
      <3>1. chain'[c] = Call("store", r, n, last, current[r])
        BY <1>0 DEF BlockReply, TypeOK
      <3>2. q = r
        BY <2>2, <3>1 DEF Walking, Call
      <3>3. PushedBelow(r, n)'
        BY <1>0, <1>2, <1>3, <1>4, <3>2, PushedBelowKept DEF WalkOK
      <3>4. chain'[c].next = n /\ chain'[c].last = last
        BY <3>1 DEF Call
      <3> QED
        BY <1>0, <1>2, <1>3, <1>4, <2>2, <3>2, <3>3, <3>4 DEF WalkOK, IsConnected
    <2> QED
      BY <2>1, <2>2
  <1> QED
    BY <1>5, <1>6, <1>7, <1>8 DEF StreamInv

LEMMA NextBlockStream ==
    ASSUME TypeOK, StreamInv, NEW c \in Chains, NextBlock(c)
    PROVE  StreamInv'
  <1>0. PICK r \in Requests, n \in Int, last \in Int :
          r = chain[c].task /\ n = chain[c].next /\ last = chain[c].last
    BY CallFields DEF NextBlock
  <1>1. r.from \in Int /\ r.to \in Int
    BY RequestFields
  <1>2. UNCHANGED <<pushed, completed, connected>>
    BY DEF NextBlock, envVars, historyVars
  <1>3. Process(c, r, n + 1, last, work)
    BY <1>0 DEF NextBlock
  <1>4. r.from > 0 => /\ r.from <= n + 1
                      /\ r.to > 0 => last <= r.to
                      /\ PushedBelow(r, n + 1)
    <2> SUFFICES ASSUME r.from > 0
                 PROVE  /\ r.from <= n + 1
                        /\ r.to > 0 => last <= r.to
                        /\ PushedBelow(r, n + 1)
      OBVIOUS
    <2>1. WalkOK(c, r) /\ (IsConnected(r) => n \in pushed[r])
      BY <1>0 DEF NextBlock, StreamInv, WalkInv, Walking, WalkOK
    <2> QED
      BY <1>0, <1>1, <2>1 DEF WalkOK, PushedBelow
  <1>5. WalkInv'
    BY <1>1, <1>2, <1>3, <1>4, ProcessWalkInv DEF StreamInv
  <1>6. ReachedInv'
    <2>1. \A q \in Requests : current'[q] = current[q] \/ (q = r /\ current'[q] = n + 1)
      BY <1>0 DEF NextBlock, TypeOK
    <2> SUFFICES ASSUME NEW q \in Requests, q.from > 0, ~(current'[q] < 0)
                 PROVE  q.from <= current'[q] /\ PushedBelow(q, current[q])'
      BY DEF ReachedInv
    <2>2. CASE current'[q] = current[q]
      BY <1>2, <2>2 DEF StreamInv, ReachedInv, PushedBelow, IsConnected
    <2>3. CASE q = r /\ current'[q] = n + 1
      <3>1. PushedBelow(r, n + 1)'
        BY <1>2, <1>4, <2>3 DEF PushedBelow, IsConnected
      <3> QED
        BY <1>4, <2>3, <3>1 DEF PushedBelow, IsConnected
    <2> QED
      BY <2>1, <2>2, <2>3
  <1> QED
    BY <1>2, <1>5, <1>6 DEF StreamInv, InRange, CompletedMeansAll, IsConnected

LEMMA OnTaskCompleteStream ==
    ASSUME TypeOK, StreamInv, NEW r \in Requests, OnTaskComplete(r)
    PROVE  StreamInv'
  <1>1. UNCHANGED <<pushed, current, chain, connected>>
    BY DEF OnTaskComplete, Visit, envVars
  <1>2. r.from > 0 => r.from .. r.to \subseteq pushed[r]
    <2>1. r.from \in Int /\ r.to \in Int /\ current[r] \in Int
      BY RequestFields DEF TypeOK
    <2>2. r.from > 0 => PushedBelow(r, current[r])
      BY <2>1 DEF OnTaskComplete, IsCompleted, StreamInv, ReachedInv
    <2> QED
      BY <2>1, <2>2 DEF OnTaskComplete, IsCompleted, PushedBelow
  <1>3. \A q \in Requests : q # r => completed'[q] = completed[q]
    BY DEF OnTaskComplete, TypeOK
  <1>4. CompletedMeansAll'
    BY <1>1, <1>2, <1>3 DEF StreamInv, CompletedMeansAll, IsConnected
  <1> QED
    BY <1>1, <1>4 DEF StreamInv, InRange, ReachedInv, WalkInv, WalkOK, Walking, PushedBelow,
                      IsConnected

LEMMA StreamStep ==
    ASSUME TypeOK, StreamInv, [Next]_vars
    PROVE  StreamInv'
  <1> USE DEF workerVars, queueVars, envVars, historyVars
  <1>1. CASE Start \/ Stop \/ ExecuteCancelTasks \/ ExecuteAddTasks
             \/ ExecuteEventSubTasksDone \/ Terminate
    BY <1>1, StreamKept
    DEF Start, Stop, ExecuteCancelTasks, ExecuteAddTasks, ExecuteEventSubTasksDone, Terminate
  <1>2. ASSUME NEW r \in Requests, ExecuteEventSubTask(r) PROVE StreamInv'
    <2> USE DEF Visit
    <2>1. CASE DropDisconnected(r) \/ WaitForWork(r) \/ DropGroupless(r)
      BY <2>1, StreamKept DEF DropDisconnected, WaitForWork, DropGroupless
    <2>2. CASE OnTaskComplete(r)
      BY <2>2, OnTaskCompleteStream
    <2>3. ASSUME NEW c \in Chains, AskBlockNumber(r, c) PROVE StreamInv'
      <3>1. \A d \in Chains : chain'[d] = chain[d] \/ chain'[d].stage \in {"idle", "number"}
        BY <2>3 DEF AskBlockNumber, Call, TypeOK
      <3> QED
        BY <2>3, <3>1, StreamKept DEF AskBlockNumber
    <2> QED
      BY <1>2, <2>1, <2>2, <2>3 DEF ExecuteEventSubTask
  <1>3. CASE Handlers
    BY <1>3, StreamKept
    DEF Handlers, RefuseParams, RefuseGroup, OnRecvSubscribeEvent, SendResponse,
      OnRecvUnsubscribeEvent
  <1>4. ASSUME NEW c \in Chains, LedgerAnswer(c) PROVE StreamInv'
    <2>1. CASE BlockNumberError(c) \/ BlockError(c)
      <3>1. \A d \in Chains : chain'[d] = chain[d] \/ chain'[d].stage \in {"idle", "number"}
        BY <2>1 DEF BlockNumberError, BlockError, NoCall, TypeOK
      <3> QED
        BY <2>1, <3>1, StreamKept DEF BlockNumberError, BlockError
    <2> QED
      BY <1>4, <2>1, BlockNumberReplyStream, BlockReplyStream, NextBlockStream
      DEF LedgerAnswer
  <1>5. CASE Environment
    BY <1>5, StreamKept DEF Environment, Disconnect, GroupChange
  <1>6. CASE UNCHANGED vars
    BY <1>6, StreamKept DEF vars
  <1> QED
    BY <1>1, <1>2, <1>3, <1>4, <1>5, <1>6 DEF Next, ExecuteWorker

LEMMA StreamInit == Init => StreamInv
  BY DEF Init, StreamInv, InRange, CompletedMeansAll, ReachedInv, WalkInv, Walking, NoCall

THEOREM StreamInvariant == Spec => [](TypeOK /\ StreamInv)
  <1>1. Init => TypeOK
    BY TypeInit
  <1>2. TypeOK /\ StreamInv /\ [Next]_vars => (TypeOK /\ StreamInv)'
    BY TypeStep, StreamStep
  <1> QED
    BY <1>1, <1>2, StreamInit, PTL DEF Spec

\* No block of a range is missing below the one its task has reached.
THEOREM NoGapHolds == Spec => []NoGap
  BY StreamInvariant, StreamInvNoGap, PTL DEF StreamInv

\* No block outside a range with both bounds is pushed.
THEOREM InRangeHolds == Spec => []InRange
  BY StreamInvariant, PTL DEF StreamInv

\* PUSH_COMPLETED is only sent when the whole range was pushed.
THEOREM CompletedMeansAllHolds == Spec => []CompletedMeansAll
  BY StreamInvariant, PTL DEF StreamInv
=============================================================================
