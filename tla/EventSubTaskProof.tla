-------------------------- MODULE EventSubTaskProof --------------------------
(***************************************************************************)
(* Proofs about the life of a task: that none is left waiting for a walk   *)
(* that is over, that none is completed twice, and that the service keeps  *)
(* the promise of EventStream.                                             *)
(***************************************************************************)
EXTENDS EventSubProof

\* A request is queued, then registered, then has walks; never again queued.
NotStarted(r) ==
    /\ r \notin tasks
    /\ r \notin work
    /\ completed[r] = 0
    /\ \A c \in Chains : chain[c].stage # "idle" => chain[c].task # r

QueueInv ==
    /\ \A r \in Requests : answer[r] = "new" => r \notin Queued /\ NotStarted(r)
    /\ \A r \in Queued : NotStarted(r)
    /\ todo \subseteq tasks
    /\ worker # "scan" => todo = {}

\* A completed task that is still registered is removed before its next visit.
CompletedInv ==
    \A r \in tasks : completed[r] > 0 =>
        r.id \in cancelTasks /\ r \notin todo /\ worker # "add"

TaskInv == QueueInv /\ CompletedInv /\ NoStuckWork

----------------------------------------------------------------------------
\* Steps that leave the tasks, their walks and the queue of new tasks alone.
LEMMA TaskKept ==
    ASSUME TypeOK, TaskInv,
           UNCHANGED <<addTasks, tasks, completed, work, chain>>,
           \A r \in Requests : answer'[r] = "new" => answer[r] = "new",
           cancelTasks \subseteq cancelTasks', todo' \subseteq todo,
           worker' = "add" => worker = "add",
           worker' # "scan" => worker # "scan" \/ todo' = {}
    PROVE  TaskInv'
  <1>1. QueueInv'
    BY DEF TaskInv, QueueInv, Queued, NotStarted
  <1>2. CompletedInv'
    BY DEF TaskInv, CompletedInv
  <1>3. NoStuckWork'
    BY DEF TaskInv, NoStuckWork, Walking
  <1> QED
    BY <1>1, <1>2, <1>3 DEF TaskInv

\* Answers of the ledger: the chain that gets one goes on walking for its task, or
\* releases it, or has it cancelled, or had not begun to walk.
LEMMA AnswerKept ==
    ASSUME TypeOK, TaskInv,
           UNCHANGED <<addTasks, tasks, completed, answer, todo, worker>>,
           cancelTasks \subseteq cancelTasks',
           NEW c \in Chains, NEW r \in Requests, NEW call,
           chain[c].stage # "idle", chain[c].task = r,
           chain' = [chain EXCEPT ![c] = call],
           call.stage # "idle" => call.task = r,
           work' \subseteq work \cup {r},
           \/ call.stage \in {"block", "store"}
           \/ r \notin work'
           \/ r.id \in cancelTasks'
           \/ work' = work /\ ~Walking(c, r)
    PROVE  TaskInv'
  <1>1. \A d \in Chains : d # c => chain'[d] = chain[d]
    BY DEF TypeOK
  <1>2. chain'[c] = call
    BY DEF TypeOK
  <1>3. answer[r] # "new" /\ r \notin Queued
    BY DEF TaskInv, QueueInv, NotStarted
  <1>4. QueueInv'
    <2>1. ASSUME NEW q \in Requests, q # r, NotStarted(q) PROVE NotStarted(q)'
      BY <1>1, <1>2, <2>1 DEF NotStarted
    <2>2. Queued' = Queued
      BY DEF Queued
    <2>3. Queued \subseteq Requests
      BY DEF Queued, TypeOK
    <2> QED
      BY <1>3, <2>1, <2>2, <2>3 DEF TaskInv, QueueInv
  <1>5. CompletedInv'
    BY DEF TaskInv, CompletedInv
  <1>6. NoStuckWork'
    <2> SUFFICES ASSUME NEW q \in tasks, q \in work', q.id \notin cancelTasks'
                 PROVE  \E d \in Chains : Walking(d, q)'
      BY DEF NoStuckWork
    <2>1. CASE call.stage \in {"block", "store"} /\ q = r
      BY <1>2, <2>1 DEF Walking
    <2>2. CASE ~(call.stage \in {"block", "store"} /\ q = r)
      <3>1. q \in work /\ q.id \notin cancelTasks
        BY <2>2
      <3>2. PICK d \in Chains : Walking(d, q)
        BY <3>1 DEF TaskInv, NoStuckWork
      <3>3. d # c
        BY <2>2, <3>2 DEF Walking
      <3> QED
        BY <1>1, <3>2, <3>3 DEF Walking
    <2> QED
      BY <2>1, <2>2
  <1> QED
    BY <1>4, <1>5, <1>6 DEF TaskInv

LEMMA LedgerAnswerTask ==
    ASSUME TypeOK, TaskInv, NEW c \in Chains, LedgerAnswer(c)
    PROVE  TaskInv'
  <1> USE DEF workerVars, queueVars, envVars, historyVars
  <1>1. PICK r \in Requests : r = chain[c].task
    BY CallFields
    DEF LedgerAnswer, BlockNumberReply, BlockNumberError, BlockReply, BlockError, NextBlock
  \* Process goes on walking, releases the task or has it cancelled.
  <1>2. ASSUME NEW n, NEW last, NEW busy \in SUBSET Requests,
               busy \subseteq work \cup {r},
               Process(c, r, n, last, busy), chain[c].stage # "idle",
               UNCHANGED <<addTasks, tasks, completed, answer, todo, worker>>
        PROVE  TaskInv'
    <2>1. CASE n > last
      BY <1>1, <1>2, <2>1, AnswerKept DEF Process, NoCall
    <2>2. CASE ~(n > last) /\ HasNodeService(r.group)
      BY <1>1, <1>2, <2>2, AnswerKept DEF Process, Call
    <2>3. CASE ~(n > last) /\ ~HasNodeService(r.group)
      BY <1>1, <1>2, <2>3, AnswerKept DEF Process, NoCall, UnsubscribeEventSub
    <2> QED
      BY <2>1, <2>2, <2>3
  <1>3. ASSUME NEW b \in 0..MaxBlock, BlockNumberReply(c, b) PROVE TaskInv'
    <2>1. CASE b < FirstBlock(r, b)
      BY <1>1, <1>3, <2>1, AnswerKept DEF BlockNumberReply, NoCall, Walking
    <2>2. CASE ~(b < FirstBlock(r, b))
      <3>1. Process(c, r, FirstBlock(r, b), LastBlock(r, b), work \cup {r})
        BY <1>1, <1>3, <2>2 DEF BlockNumberReply
      <3>2. work \cup {r} \in SUBSET Requests
        BY DEF TypeOK
      <3> QED
        BY <1>2, <1>3, <3>1, <3>2 DEF BlockNumberReply
    <2> QED
      BY <2>1, <2>2
  <1>4. CASE BlockNumberError(c)
    BY <1>1, <1>4, AnswerKept DEF BlockNumberError, NoCall, Walking
  <1>5. CASE BlockReply(c)
    <2>1. PICK call : /\ call.stage = "store" /\ call.task = r
                      /\ chain' = [chain EXCEPT ![c] = call]
      BY <1>1, <1>5 DEF BlockReply, Call
    <2> QED
      BY <1>1, <1>5, <2>1, AnswerKept DEF BlockReply
  <1>6. CASE BlockError(c)
    BY <1>1, <1>6, AnswerKept DEF BlockError, NoCall
  <1>7. CASE NextBlock(c)
    BY <1>1, <1>2, <1>7 DEF NextBlock, TypeOK
  <1> QED
    BY <1>3, <1>4, <1>5, <1>6, <1>7 DEF LedgerAnswer

LEMMA WorkerTask ==
    ASSUME TypeOK, TaskInv, NEW r \in Requests, ExecuteEventSubTask(r)
    PROVE  TaskInv'
  <1> USE DEF Visit, UnsubscribeEventSub
  <1>1. CASE DropDisconnected(r) \/ WaitForWork(r) \/ DropGroupless(r)
    BY <1>1, TaskKept DEF DropDisconnected, WaitForWork, DropGroupless, historyVars
  <1>2. CASE OnTaskComplete(r)
    <2>1. r \in tasks /\ r \in todo /\ worker = "scan"
      BY <1>2 DEF OnTaskComplete, TaskInv, QueueInv
    <2>2. QueueInv'
      <3>1. r \notin Queued /\ answer[r] # "new"
        BY <2>1 DEF TaskInv, QueueInv, NotStarted
      <3>2. \A q \in Requests : q # r => completed'[q] = completed[q]
        BY <1>2 DEF OnTaskComplete, TypeOK
      <3>3. Queued \subseteq Requests /\ Queued' = Queued
        BY <1>2 DEF Queued, TypeOK, OnTaskComplete
      <3> QED
        BY <1>2, <3>1, <3>2, <3>3 DEF OnTaskComplete, TaskInv, QueueInv, NotStarted
    <2>3. CompletedInv'
      <3> SUFFICES ASSUME NEW q \in tasks, completed'[q] > 0
                   PROVE  q.id \in cancelTasks' /\ q \notin todo' /\ worker' # "add"
        BY <1>2 DEF CompletedInv, OnTaskComplete
      <3>1. CASE q = r
        BY <1>2, <2>1, <3>1 DEF OnTaskComplete
      <3>2. CASE q # r
        BY <1>2, <3>2 DEF OnTaskComplete, TaskInv, CompletedInv, TypeOK
      <3> QED
        BY <3>1, <3>2
    <2>4. NoStuckWork'
      BY <1>2 DEF OnTaskComplete, TaskInv, NoStuckWork, Walking
    <2> QED
      BY <2>2, <2>3, <2>4 DEF TaskInv
  <1>3. ASSUME NEW c \in Chains, AskBlockNumber(r, c) PROVE TaskInv'
    <2>1. r \in tasks /\ worker = "scan"
      BY <1>3 DEF AskBlockNumber, TaskInv, QueueInv
    <2>2. /\ \A d \in Chains : d # c => chain'[d] = chain[d]
          /\ chain'[c].task = r /\ chain'[c].stage = "number"
      BY <1>3 DEF AskBlockNumber, TypeOK, Call
    <2>3. QueueInv'
      <3>1. r \notin Queued /\ answer[r] # "new"
        BY <2>1 DEF TaskInv, QueueInv, NotStarted
      <3>2. \A q \in Requests : q # r /\ NotStarted(q) => NotStarted(q)'
        BY <1>3, <2>2 DEF NotStarted, AskBlockNumber, historyVars
      <3>3. Queued \subseteq Requests /\ Queued' = Queued
        BY <1>3 DEF Queued, TypeOK, AskBlockNumber
      <3> QED
        BY <1>3, <3>1, <3>2, <3>3 DEF AskBlockNumber, TaskInv, QueueInv
    <2>4. CompletedInv'
      BY <1>3 DEF AskBlockNumber, TaskInv, CompletedInv, historyVars
    <2>5. NoStuckWork'
      <3> SUFFICES ASSUME NEW q \in tasks, q \in work, q.id \notin cancelTasks
                   PROVE  \E d \in Chains : Walking(d, q)'
        BY <1>3 DEF NoStuckWork, AskBlockNumber
      <3>1. PICK d \in Chains : Walking(d, q)
        BY DEF TaskInv, NoStuckWork
      <3>2. d # c
        BY <1>3, <3>1 DEF AskBlockNumber, Walking
      <3> QED
        BY <2>2, <3>1, <3>2 DEF Walking
    <2> QED
      BY <2>3, <2>4, <2>5 DEF TaskInv
  <1> QED
    BY <1>1, <1>2, <1>3 DEF ExecuteEventSubTask

\* A cancelled task leaves with its walks; the others are not to be cancelled.
LEMMA CancelTask ==
    ASSUME TypeOK, TaskInv, ExecuteCancelTasks
    PROVE  TaskInv'
  <1> USE DEF ExecuteCancelTasks, historyVars
  <1>1. QueueInv'
    BY DEF TaskInv, QueueInv, Queued, NotStarted
  <1>2. CompletedInv'
    BY DEF TaskInv, CompletedInv
  <1>3. NoStuckWork'
    BY DEF TaskInv, NoStuckWork, Walking
  <1> QED
    BY <1>1, <1>2, <1>3 DEF TaskInv

\* A newly registered task has neither walks nor a completion.
LEMMA AddTask ==
    ASSUME TypeOK, TaskInv, ExecuteAddTasks
    PROVE  TaskInv'
  <1> USE DEF ExecuteAddTasks, historyVars
  <1>1. Registered \subseteq Queued
    BY RegisteredQueued DEF Queued
  <1>2. \A r \in Registered : r \notin work /\ completed[r] = 0
    BY <1>1 DEF TaskInv, QueueInv, NotStarted
  <1>3. Queued' = {}
    BY DEF Queued
  <1>4. \A r \in Requests : answer[r] = "new" => r \notin tasks'
    BY <1>1 DEF TaskInv, QueueInv, NotStarted
  <1>5. QueueInv'
    BY <1>3, <1>4 DEF TaskInv, QueueInv, NotStarted
  <1>6. CompletedInv'
    BY <1>2 DEF TaskInv, CompletedInv
  <1>7. NoStuckWork'
    BY <1>2 DEF TaskInv, NoStuckWork, Walking
  <1> QED
    BY <1>5, <1>6, <1>7 DEF TaskInv

LEMMA SubscribeTask ==
    ASSUME TypeOK, TaskInv, NEW r \in Requests, OnRecvSubscribeEvent(r)
    PROVE  TaskInv'
  <1> USE DEF OnRecvSubscribeEvent, workerVars, envVars, historyVars
  <1>1. Queued' \subseteq Queued \cup {r}
    BY DEF Queued, TypeOK
  <1>2. NotStarted(r)
    BY DEF TaskInv, QueueInv
  <1>3. \A q \in Requests : answer'[q] = "new" => answer[q] = "new" /\ q # r
    BY DEF TypeOK
  <1>4. QueueInv'
    BY <1>1, <1>2, <1>3 DEF TaskInv, QueueInv, NotStarted
  <1>5. CompletedInv' /\ NoStuckWork'
    BY DEF TaskInv, CompletedInv, NoStuckWork, Walking
  <1> QED
    BY <1>4, <1>5 DEF TaskInv

LEMMA TaskStep ==
    ASSUME TypeOK, TaskInv, [Next]_vars
    PROVE  TaskInv'
  <1> USE DEF workerVars, queueVars, envVars, historyVars
  <1>1. CASE Start \/ Stop \/ ExecuteEventSubTasksDone \/ Terminate
    BY <1>1, TaskKept DEF Start, Stop, ExecuteEventSubTasksDone, Terminate
  <1>2. CASE Handlers
    <2>1. ASSUME NEW r \in Requests, RefuseParams(r) \/ RefuseGroup(r) \/ SendResponse(r)
          PROVE  TaskInv'
      <3>1. \A q \in Requests : answer'[q] = "new" => answer[q] = "new"
        BY <2>1 DEF RefuseParams, RefuseGroup, SendResponse, Sent, TypeOK
      <3> QED
        BY <2>1, <3>1, TaskKept DEF RefuseParams, RefuseGroup, SendResponse
    <2>2. ASSUME NEW id \in Ids, OnRecvUnsubscribeEvent(id) PROVE TaskInv'
      BY <2>2, TaskKept DEF OnRecvUnsubscribeEvent
    <2> QED
      BY <1>2, <2>1, <2>2, SubscribeTask DEF Handlers
  <1>3. CASE Environment
    BY <1>3, TaskKept DEF Environment, Disconnect, GroupChange
  <1>4. CASE UNCHANGED vars
    BY <1>4, TaskKept DEF vars
  <1> QED
    BY <1>1, <1>2, <1>3, <1>4, WorkerTask, LedgerAnswerTask, CancelTask, AddTask
    DEF Next, ExecuteWorker

LEMMA TaskInit == Init => TaskInv
  BY DEF Init, TaskInv, QueueInv, Queued, NotStarted, CompletedInv, NoStuckWork, NoCall

THEOREM TaskInvariant == Spec => [](TypeOK /\ TaskInv)
  <1>1. TypeOK /\ TaskInv /\ [Next]_vars => (TypeOK /\ TaskInv)'
    BY TypeStep, TaskStep
  <1> QED
    BY <1>1, TypeInit, TaskInit, PTL DEF Spec

\* A registered task that is working has a walk that will release it, or is about
\* to be removed.
THEOREM NoStuckWorkHolds == Spec => []NoStuckWork
  BY TaskInvariant, PTL DEF TaskInv

----------------------------------------------------------------------------
\* Only onTaskComplete sends PUSH_COMPLETED, and only for a task it visits.
LEMMA CompletedChange ==
    ASSUME TypeOK, TaskInv, [Next]_vars, NEW r \in Requests, completed'[r] # completed[r]
    PROVE  OnTaskComplete(r) /\ completed[r] = 0
  <1>1. PICK q \in Requests : OnTaskComplete(q)
    BY DEF Next, vars, historyVars, Start, Stop, Terminate, ExecuteCancelTasks, ExecuteAddTasks,
      ExecuteEventSubTasksDone, ExecuteWorker, ExecuteEventSubTask, DropDisconnected,
      WaitForWork, DropGroupless, AskBlockNumber, Handlers, RefuseParams, RefuseGroup,
      OnRecvSubscribeEvent, SendResponse, OnRecvUnsubscribeEvent, LedgerAnswer,
      BlockNumberReply, BlockNumberError, BlockReply, BlockError, NextBlock,
      Environment, Disconnect, GroupChange
  <1>2. q = r
    BY <1>1 DEF OnTaskComplete, TypeOK
  <1>3. r \in todo /\ r \in tasks
    BY <1>1, <1>2 DEF OnTaskComplete, Visit, TaskInv, QueueInv
  <1>4. completed[r] = 0
    BY <1>3 DEF TaskInv, CompletedInv, TypeOK
  <1> QED
    BY <1>1, <1>2, <1>4

\* PUSH_COMPLETED is sent at most once for a subscription.
THEOREM CompletedOnceHolds == Spec => CompletedOnce
  <1>1. TypeOK /\ TaskInv /\ [Next]_vars
          => [\A r \in Requests : completed'[r] # completed[r] => completed[r] = 0]_vars
    BY CompletedChange
  <1> QED
    BY <1>1, TaskInvariant, PTL DEF Spec, CompletedOnce

----------------------------------------------------------------------------
(***************************************************************************)
(* EventSub implements EventStream.  An answer with a block is a push, the *)
(* visit of a completed task is its completion, a lost session closes, and *)
(* every other step is a stutter.                                          *)
(***************************************************************************)
LEMMA BlockReplyImplements ==
    ASSUME TypeOK, StreamInv, NEW c \in Chains, BlockReply(c)
    PROVE  [Stream!Next]_(Stream!vars)
  <1>1. PICK r \in Requests, n \in Int : r = chain[c].task /\ n = chain[c].next
    BY CallFields DEF BlockReply
  <1>2. CASE ~IsConnected(r)
    BY <1>1, <1>2 DEF BlockReply, Stream!vars, envVars
  <1>3. CASE IsConnected(r)
    <2>1. r.from > 0 => WalkOK(c, r)
      BY <1>1 DEF BlockReply, StreamInv, WalkInv, Walking
    <2>2. chain[c].last \in Int /\ r.from \in Int /\ r.to \in Int
      BY CallFields, RequestFields DEF BlockReply
    <2>3. Stream!Asked(r, n)
      BY <1>1, <2>1, <2>2 DEF Stream!Asked, WalkOK
    <2>4. n \in pushed'[r]
      BY <1>1, <1>3 DEF BlockReply, TypeOK
    <2>5. Stream!Push(r, n)
      BY <1>1, <1>3, <2>3 DEF BlockReply, Stream!Push, IsConnected, envVars
    <2> QED
      BY <2>4, <2>5 DEF Stream!Next
  <1> QED
    BY <1>2, <1>3

LEMMA OnTaskCompleteImplements ==
    ASSUME TypeOK, StreamInv, TaskInv, NEW r \in Requests, OnTaskComplete(r)
    PROVE  Stream!Next
  <1>1. completed[r] = 0
    BY DEF OnTaskComplete, Visit, TaskInv, QueueInv, CompletedInv, TypeOK
  <1>2. r.from > 0 => r.from .. r.to \subseteq pushed[r]
    <2>1. r.from \in Int /\ r.to \in Int /\ current[r] \in Int
      BY RequestFields DEF TypeOK
    <2>2. r.from > 0 => PushedBelow(r, current[r])
      BY <2>1 DEF OnTaskComplete, IsCompleted, StreamInv, ReachedInv
    <2> QED
      BY <2>1, <2>2 DEF OnTaskComplete, IsCompleted, PushedBelow
  <1>3. Stream!Complete(r)
    BY <1>1, <1>2 DEF OnTaskComplete, Visit, Stream!Complete, IsConnected, envVars
  <1> QED
    BY <1>3 DEF Stream!Next

LEMMA StepImplements ==
    ASSUME TypeOK, StreamInv, TaskInv, [Next]_vars
    PROVE  [Stream!Next]_(Stream!vars)
  <1> USE DEF envVars, historyVars, Stream!vars
  <1>1. CASE UNCHANGED vars \/ Start \/ Stop \/ ExecuteCancelTasks \/ ExecuteAddTasks
             \/ ExecuteEventSubTasksDone \/ Terminate \/ Handlers
    BY <1>1 DEF vars, Start, Stop, ExecuteCancelTasks, ExecuteAddTasks,
      ExecuteEventSubTasksDone, Terminate, Handlers, RefuseParams, RefuseGroup,
      OnRecvSubscribeEvent, SendResponse, OnRecvUnsubscribeEvent
  <1>2. ASSUME NEW r \in Requests, ExecuteEventSubTask(r)
        PROVE  [Stream!Next]_(Stream!vars)
    BY <1>2, OnTaskCompleteImplements
    DEF ExecuteEventSubTask, Visit, DropDisconnected, WaitForWork, DropGroupless,
      AskBlockNumber
  <1>3. ASSUME NEW c \in Chains, LedgerAnswer(c) PROVE [Stream!Next]_(Stream!vars)
    BY <1>3, BlockReplyImplements
    DEF LedgerAnswer, BlockNumberReply, BlockNumberError, BlockError, NextBlock
  <1>4. CASE Environment
    <2>1. ASSUME NEW s \in Sessions, Disconnect(s) PROVE Stream!Next
      BY <2>1 DEF Disconnect, Stream!Next, Stream!Close
    <2>2. ASSUME NEW g \in Groups, GroupChange(g) PROVE UNCHANGED Stream!vars
      BY <2>2 DEF GroupChange
    <2> QED
      BY <1>4, <2>1, <2>2 DEF Environment
  <1> QED
    BY <1>1, <1>2, <1>3, <1>4 DEF Next, ExecuteWorker

\* The service keeps the promise EventStream makes to its clients.
THEOREM ImplementsStreamHolds == Spec => ImplementsStream
  <1>1. Init => Stream!Init
    BY DEF Init, Stream!Init
  <1>2. TypeOK /\ StreamInv /\ TaskInv /\ [Next]_vars => [Stream!Next]_(Stream!vars)
    BY StepImplements
  <1> QED
    BY <1>1, <1>2, StreamInvariant, TaskInvariant, PTL
    DEF Spec, ImplementsStream, Stream!Spec

----------------------------------------------------------------------------
(***************************************************************************)
(* Cancelled tasks, and those of closed sessions, are removed.  Only       *)
(* executeCancelTasks takes a task or an id away; between two calls of it  *)
(* every task that was registered before the first is visited, and a visit *)
(* of a task whose session is closed queues its id.  How long a scan takes *)
(* does not matter as long as the worker keeps looping.                    *)
(***************************************************************************)
Gone(r) == r \notin tasks
Cancelled(r) == r \in tasks /\ r.id \in cancelTasks
Abandoned(r) == r \in tasks /\ ~IsConnected(r)
ToScan(r) == Abandoned(r) /\ worker = "add"
ToVisit(r) == Abandoned(r) /\ worker = "scan" /\ r \in todo

LEMMA OnlyCancelRemoves ==
    ASSUME [Next]_vars, ~ExecuteCancelTasks
    PROVE  tasks \subseteq tasks' /\ cancelTasks \subseteq cancelTasks'
  <1> USE DEF workerVars, queueVars, envVars, historyVars
  <1>1. ASSUME NEW c, NEW r, NEW n, NEW last, NEW busy, Process(c, r, n, last, busy)
        PROVE  cancelTasks \subseteq cancelTasks'
    BY <1>1 DEF Process, UnsubscribeEventSub
  <1>2. ASSUME NEW c \in Chains, LedgerAnswer(c)
        PROVE  tasks' = tasks /\ cancelTasks \subseteq cancelTasks'
    BY <1>1, <1>2 DEF LedgerAnswer, BlockNumberReply, BlockNumberError, BlockReply, BlockError,
      NextBlock
  <1>3. ASSUME NEW r \in Requests, ExecuteEventSubTask(r)
        PROVE  tasks' = tasks /\ cancelTasks \subseteq cancelTasks'
    BY <1>3 DEF ExecuteEventSubTask, Visit, DropDisconnected, OnTaskComplete, WaitForWork,
      DropGroupless, AskBlockNumber, UnsubscribeEventSub
  <1>4. CASE Handlers \/ Environment
    BY <1>4 DEF Handlers, RefuseParams, RefuseGroup, OnRecvSubscribeEvent, SendResponse,
      OnRecvUnsubscribeEvent, Environment, Disconnect, GroupChange
  <1>5. CASE Start \/ Stop \/ Terminate \/ ExecuteAddTasks \/ ExecuteEventSubTasksDone
    BY <1>5 DEF Start, Stop, Terminate, ExecuteAddTasks, ExecuteEventSubTasksDone
  <1>6. CASE UNCHANGED vars
    BY <1>6 DEF vars
  <1> QED
    BY <1>2, <1>3, <1>4, <1>5, <1>6 DEF Next, ExecuteWorker

\* What is unsubscribed from is registered or queued before, and stays in line for
\* removal until executeCancelTasks serves the unsubscribe.
UnsubscribedInv ==
    /\ \A r \in unsubscribed : answer[r] # "new"
    /\ \A r \in (tasks \cup Queued) \cap unsubscribed : r.id \in cancelTasks

\* Only the handlers of the clients and the worker's two queues matter to it.
LEMMA UnsubscribedUnchanged ==
    ASSUME TypeOK, [Next]_vars, ~ExecuteCancelTasks, ~ExecuteAddTasks,
           ~(\E r \in Requests : OnRecvSubscribeEvent(r)),
           ~(\E id \in Ids : OnRecvUnsubscribeEvent(id))
    PROVE  /\ UNCHANGED <<tasks, addTasks, unsubscribed>>
           /\ \A r \in Requests : answer'[r] = "new" => answer[r] = "new"
  <1> USE DEF workerVars, queueVars, envVars, historyVars
  <1>1. ASSUME NEW c \in Chains, LedgerAnswer(c)
        PROVE  UNCHANGED <<tasks, addTasks, unsubscribed, answer>>
    BY <1>1 DEF LedgerAnswer, BlockNumberReply, BlockNumberError, BlockReply, BlockError,
      NextBlock
  <1>2. ASSUME NEW r \in Requests, ExecuteEventSubTask(r)
        PROVE  UNCHANGED <<tasks, addTasks, unsubscribed, answer>>
    BY <1>2 DEF ExecuteEventSubTask, Visit, DropDisconnected, OnTaskComplete, WaitForWork,
      DropGroupless, AskBlockNumber
  <1>3. ASSUME NEW r \in Requests, RefuseParams(r) \/ RefuseGroup(r) \/ SendResponse(r)
        PROVE  /\ UNCHANGED <<tasks, addTasks, unsubscribed>>
               /\ \A q \in Requests : answer'[q] = "new" => answer[q] = "new"
    BY <1>3 DEF RefuseParams, RefuseGroup, SendResponse, Sent, TypeOK
  <1>4. CASE Start \/ Stop \/ Terminate \/ ExecuteEventSubTasksDone \/ Environment
    BY <1>4 DEF Start, Stop, Terminate, ExecuteEventSubTasksDone, Environment, Disconnect,
      GroupChange
  <1>5. CASE UNCHANGED vars
    BY <1>5 DEF vars
  <1> QED
    BY <1>1, <1>2, <1>3, <1>4, <1>5 DEF Next, ExecuteWorker, Handlers

LEMMA UnsubscribedNext ==
    ASSUME TypeOK, TaskInv, UnsubscribedInv, [Next]_vars
    PROVE  UnsubscribedInv'
  <1> USE DEF UnsubscribedInv, workerVars, queueVars, envVars, historyVars
  <1>1. CASE ExecuteCancelTasks
    BY <1>1 DEF ExecuteCancelTasks, Queued
  <1>2. CASE ExecuteAddTasks
    BY <1>2, RegisteredQueued DEF ExecuteAddTasks, Queued
  \* A request that is only now queued was not unsubscribed from before.
  <1>3. ASSUME NEW r \in Requests, OnRecvSubscribeEvent(r) PROVE UnsubscribedInv'
    <2>1. Queued' \subseteq Queued \cup {r}
      BY <1>3 DEF OnRecvSubscribeEvent, Queued, TypeOK
    <2>2. r \notin unsubscribed
      BY <1>3 DEF OnRecvSubscribeEvent
    <2>3. \A q \in Requests : answer'[q] = "new" => answer[q] = "new"
      BY <1>3 DEF OnRecvSubscribeEvent, TypeOK
    <2>4. UNCHANGED <<tasks, cancelTasks, unsubscribed>>
      BY <1>3 DEF OnRecvSubscribeEvent
    <2> QED
      BY <2>1, <2>2, <2>3, <2>4 DEF TypeOK
  <1>4. ASSUME NEW id \in Ids, OnRecvUnsubscribeEvent(id) PROVE UnsubscribedInv'
    <2>1. Queued' = Queued
      BY <1>4 DEF OnRecvUnsubscribeEvent, Queued
    <2>2. \A r \in tasks \cup Queued : r \in Requests /\ answer[r] # "new"
      BY DEF TaskInv, QueueInv, NotStarted, Queued, TypeOK
    <2> QED
      BY <1>4, <2>1, <2>2 DEF OnRecvUnsubscribeEvent
  <1>5. CASE ~(\/ ExecuteCancelTasks
               \/ ExecuteAddTasks
               \/ \E r \in Requests : OnRecvSubscribeEvent(r)
               \/ \E id \in Ids : OnRecvUnsubscribeEvent(id))
    <2>1. cancelTasks \subseteq cancelTasks'
      BY <1>5, OnlyCancelRemoves
    <2> QED
      BY <1>5, <2>1, UnsubscribedUnchanged DEF Queued, TypeOK
  <1> QED
    BY <1>1, <1>2, <1>3, <1>4, <1>5

\* A registered task that a client unsubscribed from is in line for removal, for any
\* number of subscriptions that share an id (EventSub.cpp:117-136, 236-325).
THEOREM UnsubscribeKeptHolds == Spec => []UnsubscribeKept
  <1>1. Init => UnsubscribedInv
    BY DEF Init, UnsubscribedInv
  <1>2. UnsubscribedInv => UnsubscribeKept
    BY DEF UnsubscribedInv, UnsubscribeKept
  <1> QED
    BY <1>1, <1>2, UnsubscribedNext, TypeInit, TypeStep, TaskInit, TaskStep, PTL DEF Spec

\* Only the worker goes on to its next function, and no session comes back.
LEMMA WorkerSteps ==
    ASSUME [Next]_vars
    PROVE  /\ connected' \subseteq connected
           /\ \/ UNCHANGED <<worker, todo>>
              \/ Start \/ ExecuteWorker
  <1> USE DEF workerVars, envVars
  <1>1. ASSUME NEW c \in Chains, LedgerAnswer(c)
        PROVE  UNCHANGED <<worker, todo, connected>>
    BY <1>1 DEF LedgerAnswer, BlockNumberReply, BlockNumberError, BlockReply, BlockError,
      NextBlock
  <1>2. CASE ExecuteWorker
    BY <1>2 DEF ExecuteWorker, ExecuteEventSubTask, Visit, DropDisconnected, OnTaskComplete,
      WaitForWork, DropGroupless, AskBlockNumber, Terminate, ExecuteCancelTasks,
      ExecuteAddTasks, ExecuteEventSubTasksDone
  <1>3. CASE Handlers
    BY <1>3 DEF Handlers, RefuseParams, RefuseGroup, OnRecvSubscribeEvent, SendResponse,
      OnRecvUnsubscribeEvent
  <1>4. CASE Start \/ Stop \/ Environment \/ UNCHANGED vars
    BY <1>4 DEF Start, Stop, Environment, Disconnect, GroupChange, vars
  <1> QED
    BY <1>1, <1>2, <1>3, <1>4 DEF Next

\* A cancelled task stays cancelled until executeCancelTasks removes it.
LEMMA CancelledNext ==
    ASSUME NEW r \in Requests, Cancelled(r), [Next]_vars
    PROVE  /\ Cancelled(r)' \/ Gone(r)'
           /\ ExecuteCancelTasks => Gone(r)'
  BY OnlyCancelRemoves DEF Cancelled, Gone, ExecuteCancelTasks

\* A task whose session is closed waits for the next scan, is then visited, and cancelled.
LEMMA AbandonedNext ==
    ASSUME NEW r \in Requests, Abandoned(r), [Next]_vars
    PROVE  /\ Abandoned(r)' \/ Gone(r)'
           /\ ExecuteCancelTasks => ToScan(r)' \/ Gone(r)'
           /\ ToScan(r) => ~ExecuteCancelTasks /\ (ToScan(r)' \/ ToVisit(r)')
           /\ ToVisit(r) => ~ExecuteCancelTasks /\ (ToVisit(r)' \/ Cancelled(r)')
  <1>1. Abandoned(r)' \/ Gone(r)'
    BY WorkerSteps DEF Abandoned, Gone, IsConnected
  <1>2. ExecuteCancelTasks => worker = "cancel" /\ worker' = "add"
    BY DEF ExecuteCancelTasks
  <1>3. ASSUME worker # "cancel" PROVE r \in tasks'
    BY <1>2, <1>3, OnlyCancelRemoves DEF Abandoned
  <1>4. ASSUME ToScan(r) PROVE ToScan(r)' \/ ToVisit(r)'
    <2>1. worker = "add" /\ Abandoned(r)'
      BY <1>1, <1>3, <1>4 DEF ToScan, Gone
    <2>2. UNCHANGED worker \/ ExecuteAddTasks
      BY <2>1, WorkerSteps DEF Start, ExecuteWorker, ExecuteEventSubTask, Visit,
        DropDisconnected, OnTaskComplete, WaitForWork, DropGroupless, AskBlockNumber,
        Terminate, ExecuteCancelTasks, ExecuteEventSubTasksDone
    <2> QED
      BY <2>1, <2>2, <1>3 DEF ToScan, ToVisit, ExecuteAddTasks
  <1>5. ASSUME ToVisit(r) PROVE ToVisit(r)' \/ Cancelled(r)'
    <2>1. worker = "scan" /\ r \in todo /\ ~IsConnected(r) /\ r \in tasks' /\ Abandoned(r)'
      BY <1>1, <1>3, <1>5 DEF ToVisit, Abandoned, Gone
    <2>2. UNCHANGED <<worker, todo>> \/ \E q \in Requests : ExecuteEventSubTask(q)
      BY <2>1, WorkerSteps DEF Start, ExecuteWorker, Terminate, ExecuteCancelTasks,
        ExecuteAddTasks, ExecuteEventSubTasksDone
    <2>3. ASSUME NEW q \in Requests, ExecuteEventSubTask(q), q # r
          PROVE  r \in todo' /\ worker' = worker
      BY <2>1, <2>3 DEF ExecuteEventSubTask, Visit, DropDisconnected, OnTaskComplete,
        WaitForWork, DropGroupless, AskBlockNumber
    <2>4. ASSUME ExecuteEventSubTask(r) PROVE r.id \in cancelTasks'
      BY <2>1, <2>4 DEF ExecuteEventSubTask, DropDisconnected, OnTaskComplete, WaitForWork,
        DropGroupless, AskBlockNumber, UnsubscribeEventSub
    <2> QED
      BY <2>1, <2>2, <2>3, <2>4 DEF ToVisit, Cancelled
  <1> QED
    BY <1>1, <1>2, <1>4, <1>5 DEF ToScan, ToVisit, Gone

\* A cancelled task is removed, also while walks of it are under way, if the worker
\* keeps looping until it ends (EventSub.cpp:244-250, 298-325).  That it keeps looping is what
\* TLC checks of FairSpec.
THEOREM CancelEffectiveHolds == Spec /\ KeepsLooping => CancelEffective
  <1>1. ASSUME NEW r \in Requests
        PROVE  Spec /\ KeepsLooping =>
                 ((r \in tasks /\ r.id \in cancelTasks) ~> (r \notin tasks \/ ~Serving))
    <2>1. Cancelled(r) /\ [Next]_vars => Cancelled(r)' \/ Gone(r)'
      BY CancelledNext
    <2>2. Cancelled(r) /\ [Next]_vars /\ <<ExecuteCancelTasks>>_vars => Gone(r)'
      BY CancelledNext
    <2>3. (r \in tasks /\ r.id \in cancelTasks) => Cancelled(r)
      BY DEF Cancelled
    <2>4. Gone(r) => (r \notin tasks \/ ~Serving)
      BY DEF Gone
    <2> QED
      BY <2>1, <2>2, <2>3, <2>4, PTL DEF Spec, KeepsLooping
  <1> QED
    BY <1>1 DEF CancelEffective

\* A client that unsubscribes from a registered task, or from one that is registered
\* before the unsubscribe is served, is rid of it, if the worker keeps looping until it
\* ends (EventSub.cpp:117-136, 298-325).
THEOREM UnsubscribeEffectiveHolds == Spec /\ KeepsLooping => UnsubscribeEffective
  <1>1. ASSUME NEW r \in Requests
        PROVE  Spec /\ KeepsLooping =>
                 ((r \in tasks /\ r \in unsubscribed) ~> (r \notin tasks \/ ~Serving))
    <2>1. Spec /\ KeepsLooping =>
            ((r \in tasks /\ r.id \in cancelTasks) ~> (r \notin tasks \/ ~Serving))
      BY CancelEffectiveHolds DEF CancelEffective
    <2>2. UnsubscribeKept => (r \in tasks /\ r \in unsubscribed => r.id \in cancelTasks)
      BY DEF UnsubscribeKept
    <2> QED
      BY <2>1, <2>2, UnsubscribeKeptHolds, PTL
  <1> QED
    BY <1>1 DEF UnsubscribeEffective

\* A task whose session is gone is removed although nobody unsubscribes it, if the
\* worker keeps looping until it ends (EventSub.cpp:298-325, 429-437).  That it keeps looping is
\* what TLC checks of FairSpec.
THEOREM DisconnectedRemovedHolds == Spec /\ KeepsLooping => DisconnectedRemoved
  <1>1. ASSUME NEW r \in Requests
        PROVE  Spec /\ KeepsLooping =>
                 ((r \in tasks /\ ~IsConnected(r)) ~> (r \notin tasks \/ ~Serving))
    <2>1. Cancelled(r) /\ [Next]_vars => Cancelled(r)' \/ Gone(r)'
      BY CancelledNext
    <2>2. Cancelled(r) /\ [Next]_vars /\ <<ExecuteCancelTasks>>_vars => Gone(r)'
      BY CancelledNext
    <2>3. Abandoned(r) /\ [Next]_vars => Abandoned(r)' \/ Gone(r)'
      BY AbandonedNext
    <2>4. Abandoned(r) /\ [Next]_vars /\ <<ExecuteCancelTasks>>_vars => ToScan(r)' \/ Gone(r)'
      BY AbandonedNext
    <2>5. ToScan(r) /\ [Next]_vars =>
            ~<<ExecuteCancelTasks>>_vars /\ (ToScan(r)' \/ ToVisit(r)')
      BY AbandonedNext DEF ToScan
    <2>6. ToVisit(r) /\ [Next]_vars =>
            ~<<ExecuteCancelTasks>>_vars /\ (ToVisit(r)' \/ Cancelled(r)')
      BY AbandonedNext DEF ToVisit
    <2>7. (r \in tasks /\ ~IsConnected(r)) => Abandoned(r)
      BY DEF Abandoned
    <2>8. Gone(r) => (r \notin tasks \/ ~Serving)
      BY DEF Gone
    <2> QED
      BY <2>1, <2>2, <2>3, <2>4, <2>5, <2>6, <2>7, <2>8, PTL DEF Spec, KeepsLooping
  <1> QED
    BY <1>1 DEF DisconnectedRemoved
=============================================================================
