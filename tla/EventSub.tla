------------------------------ MODULE EventSub ------------------------------
(***************************************************************************)
(* The event subscription service of bcos-rpc (event/EventSub.cpp and      *)
(* event/EventSubTask.h).                                                  *)
(*                                                                         *)
(* Clients subscribe, over a websocket session, to the event logs of a     *)
(* range of blocks.  The handlers of the websocket threads only append to  *)
(* two queues, m_addTasks and m_cancelTasks.  One worker thread drains     *)
(* them and, for each registered task, asks a ledger for the block height  *)
(* and then walks up to m_maxBlockProcessPerLoop blocks.  The ledger       *)
(* answers on threads of its own: each answer is an action of one of the   *)
(* call chains in flight, interleaved with the worker and the handlers.    *)
(***************************************************************************)
EXTENDS Integers, Sequences

CONSTANTS
    Requests,                \* subscribe requests, each made at most once
    Ids, Groups, Sessions,
    NoTask,                  \* the task of a call chain that is not in use
    Chains,                  \* bounds the calls of the ledger in flight
    MaxBlock,                \* bounds the block numbers a ledger reports
    MaxBlockProcessPerLoop,  \* m_maxBlockProcessPerLoop
    Unsubscribable,          \* the ids clients may send an unsubscribe for
    Unstable                 \* the groups that may lose and regain their nodes

ASSUME RequestsAssumption ==
    /\ Requests \subseteq [id : Ids, group : Groups, session : Sessions,
                           from : Int, to : Int]
    /\ NoTask \notin Requests

ASSUME BoundsAssumption ==
    /\ MaxBlock \in Nat
    /\ MaxBlockProcessPerLoop \in Nat \ {0}
    /\ Unsubscribable \subseteq Ids
    /\ Unstable \subseteq Groups

VARIABLES
    running,      \* m_running
    worker,       \* what the worker thread does next
    todo,         \* tasks the current executeEventSubTasks has still to visit
    addTasks,     \* m_addTasks
    cancelTasks,  \* m_cancelTasks; erasing is idempotent and commutes: a set
    tasks,        \* m_tasks, the registered requests
    answer,       \* how far the handler of each subscribe request is
    current,      \* m_state->currentBlockNumber() of each task
    work,         \* the tasks whose m_work is set
    chain,        \* the call chains through the ledger
    connected,    \* sessions for which isConnected() holds
    groups,       \* groups for which getNodeService(group, "") finds a node
    pushed,       \* history: blocks whose matching logs went to the session
    completed,    \* history: how often PUSH_COMPLETED was sent
    unsubscribed  \* history: the queued and registered requests unsubscribed from, but
                  \* for those that were still queued when executeCancelTasks ran

workerVars == <<running, worker, todo>>
queueVars  == <<addTasks, cancelTasks>>
envVars    == <<connected, groups>>
historyVars == <<pushed, completed, unsubscribed>>
vars == <<running, worker, todo, addTasks, cancelTasks, tasks, answer, current,
          work, chain, connected, groups, pushed, completed, unsubscribed>>

\* A chain asks for the height, then for one block after the other.  In "store"
\* it has read the current block number and has yet to compare and store.
NoCall == [stage |-> "idle", task |-> NoTask, next |-> 0, last |-> 0, seen |-> 0]

Call(stage, r, next, last, seen) ==
    [stage |-> stage, task |-> r, next |-> next, last |-> last, seen |-> seen]

Calls == [stage : {"number", "block", "store"}, task : Requests,
          next : Int, last : Int, seen : Int]

\* A handler that has not begun, that has queued the task, or the response sent
\* ("dropped" if the session was closed by then).
Answers == {"new", "queued", "dropped", "SUCCESS", "INVALID_PARAMS", "GROUP_NOT_EXIST"}

TypeOK ==
    /\ running \in BOOLEAN
    /\ worker \in {"new", "cancel", "add", "scan", "terminated"}
    /\ todo \subseteq Requests
    /\ addTasks \in Seq(Requests)
    /\ cancelTasks \subseteq Ids
    /\ tasks \subseteq Requests
    /\ answer \in [Requests -> Answers]
    /\ current \in [Requests -> Int]
    /\ work \subseteq Requests
    /\ chain \in [Chains -> Calls \cup {NoCall}]
    /\ connected \subseteq Sessions
    /\ groups \subseteq Groups
    /\ pushed \in [Requests -> SUBSET Int]
    /\ completed \in [Requests -> Nat]
    /\ unsubscribed \subseteq Requests

Init ==
    /\ running = FALSE
    /\ worker = "new"
    /\ todo = {}
    /\ addTasks = <<>>
    /\ cancelTasks = {}
    /\ tasks = {}
    /\ answer = [r \in Requests |-> "new"]
    /\ current = [r \in Requests |-> -1]
    /\ work = {}
    /\ chain = [c \in Chains |-> NoCall]
    /\ connected = Sessions
    /\ groups = Groups
    /\ pushed = [r \in Requests |-> {}]
    /\ completed = [r \in Requests |-> 0]
    /\ unsubscribed = {}

----------------------------------------------------------------------------
(***************************************************************************)
(* Lifecycle.  Rpc::start starts the service before the websocket service, *)
(* so no request is received earlier; stop() ends the worker at the end of *)
(* a loop, and "will not restart worker".                                  *)
(***************************************************************************)
Start ==
    /\ ~running
    /\ worker = "new"
    /\ running' = TRUE
    /\ worker' = "cancel"
    /\ UNCHANGED <<todo, queueVars, tasks, answer, current, work, chain, envVars, historyVars>>

Stop ==
    /\ running
    /\ running' = FALSE
    /\ UNCHANGED <<worker, todo, queueVars, tasks, answer, current, work, chain,
                   envVars, historyVars>>

\* finishWorker(), stopWorking() and terminate() take effect between two loops.
Terminate ==
    /\ ~running
    /\ worker = "cancel"
    /\ worker' = "terminated"
    /\ UNCHANGED <<running, todo, queueVars, tasks, answer, current, work, chain,
                   envVars, historyVars>>

----------------------------------------------------------------------------
(***************************************************************************)
(* The handlers of the websocket threads.                                  *)
(***************************************************************************)
HasNodeService(g) == g \in groups

IsConnected(r) == r.session \in connected

Sent(r, status) == IF IsConnected(r) THEN status ELSE "dropped"

\* A request that cannot be parsed is refused.
RefuseParams(r) ==
    /\ worker # "new"
    /\ answer[r] = "new"
    /\ answer' = [answer EXCEPT ![r] = Sent(r, "INVALID_PARAMS")]
    /\ UNCHANGED <<workerVars, queueVars, tasks, current, work, chain, envVars, historyVars>>

\* A request for a group without nodes is refused.
RefuseGroup(r) ==
    /\ worker # "new"
    /\ answer[r] = "new"
    /\ ~HasNodeService(r.group)
    /\ answer' = [answer EXCEPT ![r] = Sent(r, "GROUP_NOT_EXIST")]
    /\ UNCHANGED <<workerVars, queueVars, tasks, current, work, chain, envVars, historyVars>>

\* The task is queued first; the response is sent by a later step, so that the
\* worker may already have pushed events when the client reads SUCCESS.
OnRecvSubscribeEvent(r) ==
    /\ worker # "new"
    /\ answer[r] = "new"
    /\ HasNodeService(r.group)
    /\ addTasks' = Append(addTasks, r)
    /\ answer' = [answer EXCEPT ![r] = "queued"]
    /\ UNCHANGED <<workerVars, cancelTasks, tasks, current, work, chain, envVars, historyVars>>

SendResponse(r) ==
    /\ answer[r] = "queued"
    /\ answer' = [answer EXCEPT ![r] = Sent(r, "SUCCESS")]
    /\ UNCHANGED <<workerVars, queueVars, tasks, current, work, chain, envVars, historyVars>>

Queued == {addTasks[i] : i \in DOMAIN addTasks}

\* Any client may name any id: the handler compares neither session nor group.
OnRecvUnsubscribeEvent(id) ==
    /\ worker # "new"
    /\ id \in Unsubscribable
    /\ cancelTasks' = cancelTasks \cup {id}
    /\ unsubscribed' = unsubscribed \cup {r \in tasks \cup Queued : r.id = id}
    /\ UNCHANGED <<workerVars, addTasks, tasks, answer, current, work, chain,
                   envVars, pushed, completed>>

----------------------------------------------------------------------------
(***************************************************************************)
(* The worker thread: executeCancelTasks, executeAddTasks and then one     *)
(* executeEventSubTask for each registered task.                           *)
(***************************************************************************)
\* Defect: a cancelled task is kept while it is working, and its id forgotten.
ExecuteCancelTasksUnlessWorking ==
    /\ running
    /\ worker = "cancel"
    /\ tasks' = {r \in tasks : r.id \notin cancelTasks \/ r \in work}
    /\ cancelTasks' = {}
    /\ worker' = "add"
    /\ unsubscribed' = unsubscribed \cap tasks'
    /\ UNCHANGED <<running, todo, addTasks, answer, current, work, chain, envVars,
                   pushed, completed>>

ExecuteCancelTasks ==
    /\ running
    /\ worker = "cancel"
    /\ tasks' = {r \in tasks : r.id \notin cancelTasks}
    /\ cancelTasks' = {}
    /\ worker' = "add"
    /\ unsubscribed' = unsubscribed \cap tasks'
    /\ UNCHANGED <<running, todo, addTasks, answer, current, work, chain, envVars,
                   pushed, completed>>

\* The queue is registered in order; a task whose id is taken is dropped.
Registered ==
    {addTasks[i] : i \in {j \in DOMAIN addTasks :
        /\ \A r \in tasks : r.id # addTasks[j].id
        /\ \A k \in 1..(j - 1) : addTasks[k].id # addTasks[j].id}}

ExecuteAddTasks ==
    /\ worker = "add"
    /\ tasks' = tasks \cup Registered
    /\ addTasks' = <<>>
    /\ todo' = tasks'
    /\ worker' = "scan"
    /\ UNCHANGED <<running, cancelTasks, answer, current, work, chain, envVars, historyVars>>

ExecuteEventSubTasksDone ==
    /\ worker = "scan"
    /\ todo = {}
    /\ worker' = "cancel"
    /\ UNCHANGED <<running, todo, queueVars, tasks, answer, current, work, chain,
                   envVars, historyVars>>

Visit(r) ==
    /\ worker = "scan"
    /\ r \in todo
    /\ todo' = todo \ {r}
    /\ UNCHANGED <<running, worker, addTasks, tasks, answer, current, work, envVars>>

UnsubscribeEventSub(id) == cancelTasks' = cancelTasks \cup {id}

IsCompleted(r) == r.to >= 0 /\ current[r] > r.to

\* Defect: the task of a closed session is skipped but not cancelled.
SkipDisconnected(r) ==
    /\ Visit(r)
    /\ ~IsConnected(r)
    /\ UNCHANGED <<cancelTasks, chain, historyVars>>

\* Defect: the group is passed to unsubscribeEventSub instead of the id.
DropDisconnectedByGroup(r) ==
    /\ Visit(r)
    /\ ~IsConnected(r)
    /\ UnsubscribeEventSub(r.group)
    /\ UNCHANGED <<chain, historyVars>>

\* The session is gone: the task is cancelled.
DropDisconnected(r) ==
    /\ Visit(r)
    /\ ~IsConnected(r)
    /\ UnsubscribeEventSub(r.id)
    /\ UNCHANGED <<chain, historyVars>>

\* The last block of the range is behind: PUSH_COMPLETED, and the task is cancelled.
OnTaskComplete(r) ==
    /\ Visit(r)
    /\ IsConnected(r)
    /\ IsCompleted(r)
    /\ UnsubscribeEventSub(r.id)
    /\ completed' = [completed EXCEPT ![r] = @ + 1]
    /\ UNCHANGED <<chain, pushed, unsubscribed>>

\* Defect: the worker stays at the task, instead of going on to the next one, until
\* the task is released and can be asked for.
StayAtWork(r) == FALSE

\* "task is working, waiting for done"
WaitForWork(r) ==
    /\ Visit(r)
    /\ IsConnected(r)
    /\ ~IsCompleted(r)
    /\ r \in work
    /\ UNCHANGED <<cancelTasks, chain, historyVars>>

\* No node serves the group any more: the task is cancelled, the client not told.
DropGroupless(r) ==
    /\ Visit(r)
    /\ IsConnected(r)
    /\ ~IsCompleted(r)
    /\ r \notin work
    /\ ~HasNodeService(r.group)
    /\ UnsubscribeEventSub(r.id)
    /\ UNCHANGED <<chain, historyVars>>

\* A call for the height starts.  work is not set before its answer arrives, so
\* the next loop of the worker may start another one for the same task.
AskBlockNumber(r, c) ==
    /\ Visit(r)
    /\ IsConnected(r)
    /\ ~IsCompleted(r)
    /\ r \notin work
    /\ HasNodeService(r.group)
    /\ chain[c].stage = "idle"
    /\ chain' = [chain EXCEPT ![c] = Call("number", r, 0, 0, 0)]
    /\ UNCHANGED <<cancelTasks, historyVars>>

ExecuteEventSubTask(r) ==
    \/ DropDisconnected(r)
    \/ OnTaskComplete(r)
    \/ WaitForWork(r)
    \/ DropGroupless(r)
    \/ \E c \in Chains : AskBlockNumber(r, c)

----------------------------------------------------------------------------
(***************************************************************************)
(* The answers of the ledger.  A chain runs on after its task was          *)
(* cancelled: the callbacks hold the task, not its entry of m_tasks.       *)
(***************************************************************************)
\* Defect: a walk that finds no node for the group ends without a cancellation.
ProcessNoCancel(c, r, n, last, busy) ==
    /\ work' = IF n > last THEN busy \ {r} ELSE busy
    /\ chain' = [chain EXCEPT ![c] =
          IF n <= last /\ HasNodeService(r.group)
          THEN Call("block", r, n, last, 0) ELSE NoCall]
    /\ UNCHANGED cancelTasks

\* RecursiveProcess::process(n) and processNextBlock: the walk is over and releases
\* the task, finds no node for the group (and does not), or asks for block n.
Process(c, r, n, last, busy) ==
    IF n > last
    THEN /\ work' = busy \ {r}
         /\ chain' = [chain EXCEPT ![c] = NoCall]
         /\ UNCHANGED cancelTasks
    ELSE /\ work' = busy
         /\ IF HasNodeService(r.group)
            THEN /\ chain' = [chain EXCEPT ![c] = Call("block", r, n, last, 0)]
                 /\ UNCHANGED cancelTasks
            ELSE /\ chain' = [chain EXCEPT ![c] = NoCall]
                 /\ UnsubscribeEventSub(r.id)

\* The first block of the walk and, for a height of b, the last one.
FirstBlock(r, b) ==
    IF current[r] >= 0 THEN current[r] ELSE IF r.from > 0 THEN r.from ELSE b

\* Defect: the height is not limited to toBlock.
LastBlockUnlimited(r, b) ==
    LET can == b - FirstBlock(r, b) + 1
    IN  FirstBlock(r, b) - 1
          + (IF can > MaxBlockProcessPerLoop THEN MaxBlockProcessPerLoop ELSE can)

LastBlock(r, b) ==
    LET top == IF r.to > 0 /\ r.to < b THEN r.to ELSE b
        can == top - FirstBlock(r, b) + 1
    IN  FirstBlock(r, b) - 1
          + (IF can > MaxBlockProcessPerLoop THEN MaxBlockProcessPerLoop ELSE can)

\* The nodes of a group need not agree on the height: b is any of theirs.
BlockNumberReply(c, b) ==
    LET r == chain[c].task
    IN  /\ chain[c].stage = "number"
        /\ IF b < FirstBlock(r, b)
           THEN /\ chain' = [chain EXCEPT ![c] = NoCall]
                /\ UNCHANGED <<work, cancelTasks>>
           ELSE Process(c, r, FirstBlock(r, b), LastBlock(r, b), work \cup {r})
        /\ UNCHANGED <<workerVars, addTasks, tasks, answer, current, envVars, historyVars>>

BlockNumberError(c) ==
    /\ chain[c].stage = "number"
    /\ chain' = [chain EXCEPT ![c] = NoCall]
    /\ UNCHANGED <<workerVars, queueVars, tasks, answer, current, work, envVars, historyVars>>

\* The block arrives: its matching logs are pushed if the session is connected,
\* and setCurrentBlockNumber reads the current block number.
BlockReply(c) ==
    LET r == chain[c].task
        n == chain[c].next
    IN  /\ chain[c].stage = "block"
        /\ pushed' = IF IsConnected(r)
                     THEN [pushed EXCEPT ![r] = @ \cup {n}] ELSE pushed
        /\ chain' = [chain EXCEPT ![c] = Call("store", r, n, chain[c].last, current[r])]
        /\ UNCHANGED <<workerVars, queueVars, tasks, answer, current, work, envVars,
                       completed, unsubscribed>>

\* The rest of the callback: setCurrentBlockNumber stores a greater number, which
\* may lower what another walk stored in between, and the walk goes on.
NextBlock(c) ==
    LET r == chain[c].task
        n == chain[c].next
    IN  /\ chain[c].stage = "store"
        /\ current' = IF n + 1 > chain[c].seen THEN [current EXCEPT ![r] = n + 1] ELSE current
        /\ Process(c, r, n + 1, chain[c].last, work)
        /\ UNCHANGED <<workerVars, addTasks, tasks, answer, envVars, historyVars>>

\* Defect: the task is not released.
BlockErrorKeepsWork(c) ==
    /\ chain[c].stage = "block"
    /\ chain' = [chain EXCEPT ![c] = NoCall]
    /\ UNCHANGED <<workerVars, queueVars, tasks, answer, current, work, envVars, historyVars>>

\* Defect: the block that could not be read is skipped instead of tried again.
BlockErrorSkipsBlock(c) ==
    /\ chain[c].stage = "block"
    /\ current' = [current EXCEPT ![chain[c].task] = chain[c].next + 1]
    /\ work' = work \ {chain[c].task}
    /\ chain' = [chain EXCEPT ![c] = NoCall]
    /\ UNCHANGED <<workerVars, queueVars, tasks, answer, envVars, historyVars>>

BlockError(c) ==
    /\ chain[c].stage = "block"
    /\ work' = work \ {chain[c].task}
    /\ chain' = [chain EXCEPT ![c] = NoCall]
    /\ UNCHANGED <<workerVars, queueVars, tasks, answer, current, envVars, historyVars>>

----------------------------------------------------------------------------
(***************************************************************************)
(* The environment: sessions close, groups lose and regain their nodes.    *)
(***************************************************************************)
Disconnect(s) ==
    /\ s \in connected
    /\ connected' = connected \ {s}
    /\ UNCHANGED <<workerVars, queueVars, tasks, answer, current, work, chain, groups, historyVars>>

GroupChange(g) ==
    /\ g \in Unstable
    /\ groups' = IF g \in groups THEN groups \ {g} ELSE groups \cup {g}
    /\ UNCHANGED <<workerVars, queueVars, tasks, answer, current, work, chain, connected,
                   historyVars>>

----------------------------------------------------------------------------
ExecuteWorker ==
    \/ ExecuteCancelTasks
    \/ ExecuteAddTasks
    \/ \E r \in Requests : ExecuteEventSubTask(r)
    \/ ExecuteEventSubTasksDone
    \/ Terminate

Handlers ==
    \/ \E r \in Requests : \/ RefuseParams(r)
                          \/ RefuseGroup(r)
                          \/ OnRecvSubscribeEvent(r)
                          \/ SendResponse(r)
    \/ \E id \in Ids : OnRecvUnsubscribeEvent(id)

LedgerAnswer(c) ==
    \/ \E b \in 0..MaxBlock : BlockNumberReply(c, b)
    \/ BlockNumberError(c)
    \/ BlockReply(c)
    \/ BlockError(c)
    \/ NextBlock(c)

Environment ==
    \/ \E s \in Sessions : Disconnect(s)
    \/ \E g \in Groups : GroupChange(g)

Next ==
    \/ Start
    \/ Stop
    \/ ExecuteWorker
    \/ Handlers
    \/ \E c \in Chains : LedgerAnswer(c)
    \/ Environment

Spec == Init /\ [][Next]_vars

----------------------------------------------------------------------------
(***************************************************************************)
(* Properties.                                                             *)
(***************************************************************************)
\* The service keeps the promise of EventStream: every push is of a block asked
\* for, and PUSH_COMPLETED follows, once, the last block that was missing.
Stream == INSTANCE EventStream WITH
    Requests <- Requests, Sessions <- Sessions,
    connected <- connected, pushed <- pushed, completed <- completed
ImplementsStream == Stream!Spec

\* A subscription that names its first block has no gap: a client still connected
\* was sent the logs of every block of its range below the one the task has
\* reached (currentBlockNumber), whatever walks overlapped, failed or repeated.
NoGap ==
    \A r \in Requests :
        r.from > 0 /\ IsConnected(r) => r.from .. (current[r] - 1) \subseteq pushed[r]

\* A subscription with both bounds is only sent blocks inside them, though several
\* walks, started at different heights, may be reading blocks for it.
InRange ==
    \A r \in Requests : r.from > 0 /\ r.to > 0 => pushed[r] \subseteq r.from .. r.to

\* PUSH_COMPLETED tells a client that is still connected the truth: every block of
\* the range it asked for was pushed.
CompletedMeansAll ==
    \A r \in Requests :
        completed[r] > 0 /\ r.from > 0 /\ IsConnected(r) => r.from .. r.to \subseteq pushed[r]

\* onTaskComplete only queues the cancellation of the task; nevertheless no client
\* is sent PUSH_COMPLETED twice for one subscription.
CompletedOnce == [][\A r \in Requests : completed'[r] # completed[r] => completed[r] = 0]_vars

\* A registered task marked as working has a walk under way that will release it,
\* or is about to be removed: no failure of a walk leaves it waiting for ever.
Walking(c, r) == chain[c].stage \in {"block", "store"} /\ chain[c].task = r

NoStuckWork ==
    \A r \in tasks :
        r \in work => r.id \in cancelTasks \/ \E c \in Chains : Walking(c, r)

\* A client that unsubscribed is not served on: the task is in line for removal, also
\* after walks, completions and other cancellations of its id, and when the id is
\* taken by two subscriptions.  Not covered is an unsubscribe that executeCancelTasks
\* serves while the task still waits for executeAddTasks: that one is lost.
UnsubscribeKept == \A r \in tasks \cap unsubscribed : r.id \in cancelTasks

\* What the flag is for ("task is working, waiting for done"): at most one walk
\* reads blocks for a task.  It does not hold: the flag is set by the answer to
\* asyncGetBlockNumber, not when the call is made.
OneWalkPerTask ==
    \A r \in Requests : \A c, d \in Chains : Walking(c, r) /\ Walking(d, r) => c = d

----------------------------------------------------------------------------
(***************************************************************************)
(* Fairness: the worker thread is scheduled until it terminates, a call of *)
(* the ledger is answered, and a callback that has begun goes on.  A node  *)
(* that is asked over and over eventually answers without an error and has *)
(* the blocks up to MaxBlock.                                              *)
(***************************************************************************)
ChainOf(c, r) == chain[c].task = r

Fairness ==
    /\ WF_vars(ExecuteWorker)
    /\ \A r \in Requests : WF_vars(ExecuteEventSubTask(r))
    /\ \A c \in Chains : WF_vars(LedgerAnswer(c))
    /\ \A r \in Requests :
          /\ SF_vars(\E c \in Chains : ChainOf(c, r) /\ BlockNumberReply(c, MaxBlock))
          /\ SF_vars(\E c \in Chains : ChainOf(c, r) /\ BlockReply(c))

FairSpec == Spec /\ Fairness

Serving == worker \notin {"new", "terminated"}

\* The worker comes to executeCancelTasks again and again until it ends: no loop of it
\* is held up by a task, whatever the ledger, the sessions and the groups do.
KeepsLooping == []<>(~Serving) \/ []<><<ExecuteCancelTasks>>_vars

\* A cancelled task is removed, also while walks of it are under way.
CancelEffective ==
    \A r \in Requests :
        (r \in tasks /\ r.id \in cancelTasks) ~> (r \notin tasks \/ ~Serving)

\* A client that unsubscribed is rid of its task, unless the unsubscribe was served
\* before the task was registered.
UnsubscribeEffective ==
    \A r \in Requests : (r \in tasks /\ r \in unsubscribed) ~> (r \notin tasks \/ ~Serving)

\* A task whose session is gone is noticed and removed; nobody unsubscribes it.
DisconnectedRemoved ==
    \A r \in Requests : (r \in tasks /\ ~IsConnected(r)) ~> (r \notin tasks \/ ~Serving)

\* A subscription of a bounded range of blocks that exist is completed, unless its
\* session closes, it is cancelled, or its group has no node at some time: errors of
\* the ledger and overlapping walks only delay PUSH_COMPLETED.
Disturbed(r) == ~IsConnected(r) \/ r.id \in cancelTasks \/ r.group \notin groups

EventuallyCompleted ==
    \A r \in Requests :
        0 < r.from /\ r.from <= r.to /\ r.to <= MaxBlock =>
            r \in tasks ~> (completed[r] > 0 \/ Disturbed(r) \/ ~Serving)
=============================================================================
