# A verification development for bcos-rpc

bcos-rpc is the RPC module of a FISCO-BCOS node or of a separate RPC service. SDKs connect to it by
web socket or HTTP, ask for data and send transactions (JSON-RPC), subscribe to the event logs of blocks,
and exchange messages by topic (AMOP). On the other side it speaks to the nodes of the groups, through
five services a node, and to the gateways.

The modules here model what the code under `bcos-rpc/` does with its state: which steps there are, in
which order, under which lock, on which thread, and what happens on each error path. What a message
contains is abstract wherever no property tells it apart.

## 1. Inventory

### Components, their state and their operations

| Component (files) | State it keeps | Operations |
|---|---|---|
| Event subscription service (`event/EventSub.*`, `EventSubTask.h`) | the queues `m_addTasks`, `m_cancelTasks`; the registered `m_tasks`; for each task the block reached and the flag `m_work` | subscribe and unsubscribe requests, the worker's loop (cancel, add, visit each task), the callbacks of `asyncGetBlockNumber` and `asyncGetBlockDataByNumber`, `start`, `stop` |
| Event requests, parameters, matcher (`event/EventSubRequest.*`, `EventSubParams.h`, `EventSubMatcher.*`) | none | parse a request, normalize addresses and topics, match the logs of a block |
| Group manager (`jsonrpc/groupmgr/GroupManager.*`) | `m_groupInfos`, `m_nodeServiceList` (lock `x_nodeServiceList`); `m_groupBlockInfos`, `m_nodesWithLatestBlockNumber` (lock `x_groupBlockInfos`) | notifications of groups and of blocks, the timer's sweep of unreachable nodes, the lookup of a node service |
| Node service and factory (`groupmgr/NodeService.*`) | five proxies, never changed | `buildNodeService`, `unreachable` |
| Local group manager (`groupmgr/LocalGroupManager.h`) | one node service, never changed | the lookups, compared with one group's name; notifications of blocks are ignored |
| JSON-RPC service (`jsonrpc/JsonRpcImpl_2_0.*`) | none but what each request's callbacks capture | `onRPCRequest` and the 23 methods with their callbacks |
| AMOP client (`amop/AMOPClient.*`) | `m_topicToSessions` (locked), `m_topicInfos` (written without its lock), `m_gatewayActivated` | subscriptions and disconnects of SDKs, requests and broadcasts of SDKs and of gateways with their callbacks, the ping of the gateways |
| Local AMOP client (`amop/LocalAMOPClient.h`) | the same, with one gateway in the process | overrides that ask for no end points |
| Rpc facade (`Rpc.*`) | none of its own: the sessions of the web-socket service, each with what its SDK was last sent | `start`, `stop`, notifications of blocks and groups, pushed to all sessions |
| RpcFactory (`RpcFactory.*`) | none | construction, registration of the message handlers, the handshake of a session |
| JSON-RPC requests and responses, event responses, protocol version | none | JSON of a few fields, error codes |

### Interactions

* The web-socket service calls the message handlers on its threads: `EventSub`, `AMOPClient` and, through
  `RpcFactory`, `JsonRpcImpl_2_0::onRPCRequest`. Sessions close at any time; `isConnected()` is asked
  before a push or a response.
* The nodes (or the gateway) call `Rpc::asyncNotifyBlockNumber` and `asyncNotifyGroupInfo`, which change the
  group manager. The JSON-RPC service and the event service ask it for a node: `getNodeService`.
* All calls of a node's services and of a gateway return at once and call back later, or inside the call.
* Two timers run: the group manager's sweep and the AMOP client's ping; one worker thread serves events.

### What is hard here

* **A call is made in one step and its answer changes state in another.** The event service tests `work()`
  before the call and sets it in the answer; JSON-RPC methods throw from a callback that may or may not have
  `onRPCRequest` on its stack.
* **State under two locks, or changed after a lock was given up.** A lookup chooses a node under one lock and
  reads its service under another; the sweep takes three sections; the AMOP client sends a removal to the
  gateways when its lock is free again.
* **Failure half-way.** The ledger fails in the middle of a walk; the group of a task disappears; a gateway
  fails and a local session has to answer; a call that tells a gateway its topics fails and is not made again; a response
  cannot be decoded; a session or a service is gone when the callback arrives.
* **Order of notifications.** Block numbers arrive late and from many nodes; subscriptions may be handled
  after the disconnect of their session; the answer of a handshake is put together while notifications of the same
  groups go out; the SDKs are told of a block before the group manager is.
* **Two spellings of one number.** What a subscription asks for and what a log holds are compared as texts, and
  each of them is normalized in its own way; entries that are null or past the last topic shift positions.

There is no persistent state, so nothing is recovered after a crash: a restart is a new `Init`.

### What makes each component correct

* Event service: a client that names its first block gets every block of its range, nothing else, and one
  `PUSH_COMPLETED`, after the last one. No task is stuck; a cancelled task, and a task whose session is gone,
  is removed.
* Event requests and matcher: a log is pushed if and only if the request asks for it, at its position in the block.
* Facade: an SDK has the present list of nodes; a block it was told of is known to the group manager too.
* Group manager: the services are those of the listed nodes; the SDKs' picture of the nodes is the present
  one; the number of a group goes back only when its nodes are forgotten; a request goes to a node that is
  not behind, and is refused only if there is none.
* JSON-RPC: a request has at most one response, and one unless a named case says why not; an error of a
  service reaches the client.
* AMOP: topics are bound to living sessions, and the gateways know the topics; a request has one answer.

## 2. Modules

| Module | Models | Extends / uses |
|---|---|---|
| `EventSub` | the event service | - |
| `EventStream` | what it promises a client: the abstract specification | instantiated by `EventSub` |
| `EventFilter` | the addresses and topics of an event request, the matching of a block's logs | - |
| `GroupManager` | the group manager and the lookups of requests | - |
| `Rpc` | the facade, its sessions and their handshakes, with the group manager | `GroupManager` |
| `RequestLife` | what becomes of a request: the abstract specification | instantiated by `JsonRpc` and `Amop` |
| `JsonRpc` | requests, methods, callbacks and responses | `RequestLife` |
| `AmopTopics` | subscriptions, disconnects, ping and gateways | - |
| `Amop` | requests of SDKs and gateways | `AmopTopics`, `RequestLife` |
| `EventSubProof`, `EventSubTaskProof`, `EventFilterProof`, `GroupManagerProof`, `RpcProof`, `JsonRpcProof`, `AmopTopicsProof`, `AmopProof` | theorems and proofs | the module they are about; `RpcProof` also `GroupManagerProof`, `AmopProof` also `AmopTopicsProof` |
| `MCEventSub`, `MCEventFilter`, `MCGroupManager`, `MCRpc`, `MCJsonRpc`, `MCAmopTopics`, `MCAmop` | instances and symmetry for TLC | the module they instantiate |

A definition whose comment begins with "Defect:" is a variant of the definition that follows it, as a
mistake in the code could have it; the specifications do not use it. Each property of a run is violated when
such a variant takes the place of the definition.

### How the code becomes actions

One action is one section of a thread that no other thread can look into: what is done under one lock, or
one callback up to the next asynchronous call. Where the code gives up a lock, calls a service or is called
back, a new action begins. History variables (`pushed`, `completed`, `unsubscribed`, `told`, `toldBlock`, `lacked`, `late`, `lost`, `silent`, `garbled`, and `failed` in
`JsonRpc` and in `AmopTopics`) record what happened and are read by properties only.

**EventSub.** `addTasks` and `cancelTasks` are the two queues, each read and emptied by the worker in a
section of its own (`ExecuteAddTasks`, `ExecuteCancelTasks`). `cancelTasks` is a set of ids: the order of erasures does not
matter. `worker` says where the loop of `executeWorker` is, and `todo` which tasks the current round has yet to
visit; a visit (`ExecuteEventSubTask`) has the five early ends of the code: session gone (`DropDisconnected`), completed
(`OnTaskComplete`), working (`WaitForWork`), no node (`DropGroupless`), or a call (`AskBlockNumber`). `chain` holds the calls of the ledger
in flight: `BlockNumberReply` is the answer that sets `work` and computes the last block of the walk, `BlockReply` one
block's answer, `BlockError` an error. The write of the block reached, `setCurrentBlockNumber`, is a load
and a store, and `NextBlock` separates them, so that two walks of one task can lower it. The matching logs of a block are
one element of `pushed`; that a block without such logs is not sent is not distinguished. `unsubscribed` holds the tasks, queued or
registered, that an unsubscribe was taken for; a task that is not registered yet when the worker serves the unsubscribe leaves it, since the code then forgets
the unsubscribe. `EventStream`, which `EventSub` implements,
knows only what a client sees: blocks pushed in its range, and one `PUSH_COMPLETED` after all of them.

**EventFilter.** A text of a request is abstracted to the number it stands for, its prefix and whether it has capitals: these are
what the comparison with the matcher's text (no prefix, lower case, `Hex`) can stumble over. `ReadAddresses` and `ReadTopic` are the two loops of
`fromJson`, one entry a step, with `AddTopic` as `addTopic` is: it grows the vector to the index and drops entries past the last
topic. `StartBlock`, `MatchLog`, `NextTransaction` are the loops of `matches`. The properties never look at how texts are stored:
`Wants` reads what a request asks for off its numbers.

**GroupManager.** `known`, `groupInfos` and `nodeServices` belong to one lock, `latestNodes` and `groupBlocks`
to the other. `updateGroupStatus` is three actions (`CheckNodeStatus`, `RemoveUnreachableNodeService`,
`RemoveGroupBlockInfo`), `getNodeService` two (a choice, then `QueryNodeService`). The first notification of a group only
records it; a later one builds services (`UpdateNodeServiceWithoutLock`), each of which may fail. Block 0 is treated as the code
treats it: it never becomes a group's number. The group information is an object of another library; adding
and removing its nodes is taken as part of the section that does it. The random choice of a node is any choice.

**Rpc.** The facade's actions are made from the group manager's: a notification of a group is `UpdateGroupInfo` and a push to the
sessions in one step, since both happen under `x_nodeServiceList`; so is the sweep's first section. A notification of a block is two,
`TellBlock` (the sessions and the caller) and `EndNotifyBlock` (the group manager, last line of `asyncNotifyBlockNumber`), and calls overtake each
other between them. A handshake is three: the list of groups under the lock (`ListGroups`), each group's nodes without it (`ReadInfo`),
the answer (`Respond`). `view` is what each session was sent last. Every action of the facade is made from one of the group manager's or leaves its state
alone, so that what is proved of `GroupManager` holds in `Rpc` (lemma `GroupManagerKept`).

**RequestLife.** Somebody takes a request, holds it for a while, and lets go of it with a reply or without one; a request let go of is never
held again. `JsonRpc` and `Amop` name what is taken, held and replied to in them and implement it. Only `Amop` has requests that may be
`Forewarned`: those of an SDK are sent an error when no gateway is active, and go on.

**JsonRpc.** A method is the sequence of services it asks. `waiting` and `asked` say which callback is
due; `onStack` whether everything since `onRPCRequest` ran inside it, in which case an exception is caught and
answered, and is lost otherwise. A request may be refused before any method runs: it does not parse (`ParseError`), names no method
(`MethodNotFound`), or its parameters do not convert (`InvalidParams`), which cannot happen to a method without parameters. `HoldsWeakly` and `HidesError` list the callbacks that return when the service is gone
and those that answer an error with `nullptr`.

**AmopTopics and Amop.** A subscription is three actions: the sessions under the lock (`OnRecvSubTopics`), the topic
infos without it (`RecordTopicInfo`), the gateways (`SendSubscription`). A disconnect is two. Calls of a gateway are elements of `network`
and arrive in any order (`Deliver`), or fail (`CallFails`): the callback then logs the error and nothing else happens, whether the gateway
stays active or not (AMOPClient.cpp:416-425, LocalAMOPClient.h:56-63). A gateway that goes down loses them and its topics. The gateways themselves are in another
repository: a subscription adds topics to what a gateway has, a removal takes them out. `lost` records the recorded topics a gateway was told to remove, or
lost in a restart, and was not told of again, and `failed` the ones a failed call was to tell it, none having been sent since: the three ways in which the code
leaves an active gateway without a topic it should have. Two concurrent writes of `m_topicInfos`,
which is not locked, may lose one of them; a corrupted map is beyond the model. `Amop` adds the requests: with a gateway, with
a local session, done. What a gateway or a session responds to an SDK's request has to be decoded, which may throw: the exception is caught and logged and nothing
is sent (`PassOn`; AMOPClient.cpp:174, 184-188 and 212, 221-225); `garbled` records it. A session that lost its connection may still be chosen, and is one that does not answer. `LocalAMOPClient` is
the instance with one gateway in which `Failing` is empty; calls of it may fail all the same. Broadcasts change no state and have no answer.

## 3. Runs

| Run | Instance | Shows |
|---|---|---|
| `eventsub` | one subscription of blocks 1..2, two calls in flight, heights up to 3, two blocks a walk, unsubscribes, a group that loses its nodes | type, no gap, no stuck task, no unsubscribe lost but one that overtakes its task, and `EventSub` implements `EventStream`: nothing out of range is pushed, and one `PUSH_COMPLETED` comes after the whole range; the worker's loop is held up by no task; cancelled and abandoned tasks are removed, undisturbed ones completed |
| `eventsub_one_walk` | the same, blocks 1..3, heights up to 4 | finding: two walks of one task |
| `event_filter` | requests of up to three topic entries of eight forms, addresses of six, three blocks, two topics that can be asked for | exactly the logs asked for are pushed, as long as the topics are spelt in a form that `fromJson` understands |
| `event_filter_documented` | the same blocks, requests of the form the comment of `generateJson` shows | finding: topics of that form match no log |
| `group_manager_safety` | one group, two nodes, blocks up to 2, one request | types, no orphan services, SDKs informed, numbers backed by nodes and lowered by the sweep alone, choices not behind, no lookup without a preferred node refused while a service stays; an unreachable node's service is removed |
| `group_manager_refusal` | the same, blocks up to 1 | finding: a request refused although a started node exists |
| `rpc` | one group with one node, one session, one lookup, blocks up to 1 | an SDK's list of nodes is old only if its handshake's answer was overtaken; a block told of reaches the group manager |
| `json_rpc_safety` | two requests of any method, one group, one service uninitialized | silence only for a transaction with neither error nor receipt, a second service that could not be asked off the stack, or a weak callback of a destroyed service; errors reported, requests answered, and `JsonRpc` implements `RequestLife`: one response at most |
| `amop_topics_safety` | two sessions, two topics, three subscription messages | no dead session left behind, no topic lost to another's disconnect, also when calls of the gateway fail |
| `amop_topics_outage` | one session and topic, two gateways that fail at any moment | an active gateway lacks a recorded topic only if a removal overtook its subscription, it restarted or the call failed; topics are subscribed again after an outage, unless the call fails as the ping takes the outage for over |
| `amop_topics_recorded` | one message with two topics | finding: only one is recorded |
| `amop` | a request of an SDK and one of a gateway, one session, one failing gateway | type (that of `AmopTopics` included), silence only towards an SDK and only for a silent session, an undecodable response or a destroyed client; the gateway called back, and `Amop` implements `RequestLife`: one answer at most, two when told of an inactive gateway |

### Why the bounds are enough to be of interest

`Chains` bounds the calls in flight: two walks of one task are what the overlap needs, a third brings no new
pair. `MaxBlock` and `MaxBlockProcessPerLoop` let a range be read by one walk of two blocks or, when the first height is low or an error comes
between, by two walks, with a block beyond the range; every safety property of `eventsub` is proved for any range, height and number of blocks a walk. Two nodes are what
"another node" needs in the group manager; the sweep removes one or both. Blocks 0, 1 and 2 are: never a
number, the first number, a newer one. Two sessions on one topic are what a disconnect can take from another;
three subscription messages let one session subscribe, be gone and subscribe late while another subscribes.
Two gateways distinguish an outage of one from an outage of all. Two requests to the JSON-RPC service do not share state
but for the group, which is why two are enough; the proofs take any number of everything.
In `event_filter` two topics can be asked for and requests have up to three, so that entries past the limit, null entries before others and logs
with fewer and with more topics all occur. In `rpc` one of everything gives 348,236 states: what the two properties need is one session whose
handshake overlaps one notification, and two block numbers in flight at once (0 and 1). A second node takes TLC more than five minutes; both properties of that run are
proved, for any number of groups, nodes, sessions and blocks.

`CHECK_DEADLOCK FALSE` is set where the system really ends: after `stop()` or destruction, or when a request was refused,
nothing has to happen.

### Fairness

* `EventSub`: the worker thread runs until it terminates (weak fairness of its steps, of each visit, of each
  answer). That a node which is asked over and over will sometime answer without an error and has the
  blocks asked for is strong fairness: without it no read could ever be promised.
* `GroupManager`: the timer restarts itself before each sweep (`updateGroupStatus`), and the initial delay ends.
* `JsonRpc`: the services call back. That they do is a promise of the nodes, whose calls have timeouts.
* `AmopTopics`: the ping restarts its timer before anything else, and a call of a gateway is called back, by the gateway or by the
  transport's time-out (`FairCalls`). That a call ever succeeds is not assumed. What is assumed is weak: while a gateway is being told of
  a topic, one of the calls that tell it ends, arrived or failed, not each of them. That a gateway asks for a new subscription when it starts (`asyncNotifySubscribeTopic`) is possible and not assumed.
* `Amop`: gateways call back, and a session answers or its thirty seconds are over.

### Findings

* `OneWalkPerTask` (EventSub.cpp:380, :446). The flag of a working task is set by the answer to
  `asyncGetBlockNumber`, the worker asks again meanwhile, and two walks run. Logs are pushed twice; a subscription from the latest block
  may miss blocks. One that names its first block misses none (theorem `NoGapHolds`).
* `RefusedMeansNoNode` (GroupManager.cpp:88). The node with the latest block is chosen though it has no
  service, and the request is refused with a message about nodes that are not started, until another node notifies the same or a higher block.
* `SubscriptionsRecorded` (AMOPClient.cpp:70). Of a subscription message with several topics only the first
  one is recorded, and gateways are told of recorded topics only.
* `DocumentedRequestMatches` (EventSubRequest.cpp:269). A topic given as a string is stored as it came, prefix included, while one in an
  array is normalized; the matcher's texts have no prefix. The request that the comment of `generateJson` shows (EventSubRequest.cpp:112-127) gets
  no logs. An array's prefix `0X` is compared with `0XC` and stays, with the same effect. `AllWantedPushed` therefore has the condition
  `TopicsUnderstood`; `OnlyWantedPushed` needs none.

## 4. Theorems

Each holds for every value of the constants that meets the named assumptions of its module: finite bounds
where the model has them, identities of the "none" values, sets that are subsets of others. Nothing else is assumed.

| Theorem | States |
|---|---|
| `TypeCorrect`, `GroupTypeCorrect`, `TopicTypeCorrect` | the types of `EventSub`, `GroupManager`, `AmopTopics` |
| `NoGapHolds`, `InRangeHolds`, `CompletedMeansAllHolds` | what is pushed, and when `PUSH_COMPLETED` is |
| `NoStuckWorkHolds`, `CompletedOnceHolds`, `UnsubscribeKeptHolds` | tasks, their flag and their cancellation |
| `ImplementsStreamHolds` | every behaviour of `EventSub` is one of `EventStream` |
| `FilterTypeCorrect`, `OnlyWantedPushedHolds`, `AllWantedPushedHolds`, `RowsInBlockOrderHolds` | the filter of a subscription, for any requests, blocks and number of topics |
| `NoOrphanServiceHolds`, `ClientsInformedHolds`, `NumberHasNodesHolds`, `NumberMonotoneHolds`, `ChosenIsUpToDateHolds`, `RandomRefusedExplainedHolds` | the group manager |
| `RpcTypeCorrect`, `GroupManagerInside` | the types of the facade; the promises of the group manager inside it |
| `StaleOnlyIfOvertakenHolds`, `ToldBlockKnownHolds` | what SDKs were told of groups and of blocks |
| `TypeCorrect`, `AtMostOneResponseHolds`, `UnansweredExplainedHolds`, `ErrorsReportedHolds` | the JSON-RPC service |
| `DeadSessionsForgottenHolds`, `RecordedWhileSubscribedHolds`, `HeldUnlessLostHolds` | the AMOP client's topics |
| `TopicsInside` | the theorems about topics, while requests are passed on and answered |
| `AmopTypeCorrect`, `AtMostOneAnswerHolds`, `UnansweredExplainedHolds` | the AMOP client's requests |
| `ImplementsLifeHolds` (twice) | `JsonRpc` and `Amop` implement `RequestLife` |
| `EventuallyAnsweredHolds`, `UnreachableRemovedHolds`, `ResubscribedAfterOutageHolds`, `GatewayCalledBackHolds` | liveness of the JSON-RPC service, the sweep, the ping and the AMOP requests, from their fairness |
| `CancelEffectiveHolds`, `UnsubscribeEffectiveHolds`, `DisconnectedRemovedHolds` | liveness of the event service's cancellations, from `KeepsLooping` |

The inductive invariants:

* `StreamInv` (EventSubProof). "No gap" is not inductive: a walk that starts behind the block reached, or an overlapping one
  that lowers it, must not be able to leave a gap. The invariant says of each task that everything below the block reached is pushed
  (`ReachedInv`), and of each walk that everything below its next block is (`WalkInv`), so that whatever walk
  stores its number last, the statement stays true.
* `TaskInv` (EventSubTaskProof). A task in the add queue has not started (`QueueInv`), and a completed task that is still registered is
  in the cancel queue and will not be visited before that queue is served (`CompletedInv`). This is
  where the order of the worker's loop, cancel before add before visit, is used.
* `UnsubscribedInv` (EventSubTaskProof). `UnsubscribeKept` is about registered tasks, but an unsubscribe may be taken while its task is queued:
  the invariant says of queued tasks too that the id is in line, and that nothing new was unsubscribed from. `executeCancelTasks` empties the line before
  `executeAddTasks` registers, and requests may share an id (the runs have one request, the theorem any), so that the only unsubscribe that is lost is one served before its task is registered (EventSub.cpp:133, :246).
* `BlockInv`, `ServiceInv`, `LookupInv` (GroupManagerProof). That the chosen node is not behind needs, besides the statement itself,
  that each recorded node has the group's number (`NodesHaveNumber`) and that a lookup chooses at random only
  if there was no number (`RandomUnasked`). `RandomRefusedExplained` follows from `NoOrphanService` at the step that answers (`AnswerSteps`):
  a service that `selectNodeRandomly` did not find is one of an unlisted node, which only the sweep leaves behind, between two of its sections.
* `FInv` (EventFilterProof). `TopicsRead` says of each position what is stored there, whether the vector reaches that far or not, so that skipped
  entries need no case of their own; `RowsVisited` that a row is of a log already passed, so that the next one comes after it.
* `HandshakeInv` (RpcProof). What a session will have when its handshake ends must be known while it is under way: of the groups
  already read what was gathered, of the groups that were not listed what it was notified of (`HandshakeOf`).
  `ToldBlockKnown` is inductive with the types alone.
* `RInv` and `QInv` (JsonRpcProof). A response ends its request: as long as a callback is due nothing was sent (`Unanswered`).
  `RequestOK` says of each request what its silence, or a result after a failed call, must be due to.
* `HeldUnlessLost` (AmopTopicsProof) is inductive with the types: its last disjunct, a subscription that is on its way or about to be sent
  (`Coming`), is what carries it from the recording of a topic to the gateway.
* `AInv` (AmopProof). How many answers a request can have depends on who has it (`AnswersSoFar`).

### Liveness

The prover has the temporal logic and the meaning of `WF_`, but not of `ENABLED`: it takes `ENABLED A` for a formula it knows nothing
about. Four liveness theorems therefore have one hypothesis besides the fair specification, defined beside them, which writes the guards of the steps the argument
waits for next to their `ENABLED`:

| Theorem | Hypothesis | Says |
|---|---|---|
| `EventuallyAnsweredHolds` | `CallbackPossible` | a service asked for a request can call back, also when the JSON-RPC service is gone |
| `UnreachableRemovedHolds` | `SweepPossible` | the next section of the sweep, or the end of the initial delay, can be taken |
| `ResubscribedAfterOutageHolds` | `PingPossible` | the next section of the ping can be taken until it is stopped, and a call on its way can end |
| `GatewayCalledBackHolds` | `CallBackPossible` | a request that a gateway passed on and a session has can be called back |

Each hypothesis only restates guards, so that it is no property of a run: it says nothing of the code that the definitions do not say. (TLC, which evaluates
`ENABLED`, finds all four to hold on the instances of the runs that check the liveness properties.) What the proofs show is
the rest, for any number of requests, groups, nodes, sessions and gateways:

* A service that stays unreachable is found by `CheckNodeStatus`, or the sweep is already past it and will come round, or the initial
  delay has to end first; `found` keeps the node until `RemoveUnreachableNodeService` (`SweepAdvances`, `SweepStays`), in spite of
  notifications and lookups in between.
* After an outage that the ping has seen it goes through `PingSubscribe`, which puts a call for each gateway and recorded topic on the way
  (`PingTells`). From then on the gateway is pending: a call that tells it is on its way, or failed (`StaysPending`). When `PingActivate` has
  run, the end of that call settles the matter, one way or the other (`CallSettles`), as does a failure that came before and after which no other call was made.
* A request waits for its first service, then for its second one, and each answer ends it or moves it on. `PassedOnNext` and
  `SessionCallsBack` are the same for a request with a session.

`CancelEffectiveHolds`, `UnsubscribeEffectiveHolds` and `DisconnectedRemovedHolds` have another hypothesis, `KeepsLooping`: the worker comes to `executeCancelTasks` again
and again until it ends. TLC checks it of `FairSpec`. To derive it from fairness takes an induction over the tasks a round has yet to visit,
which is beyond the prover; from it the theorems follow for any tasks and any ledger. A cancelled id stays in the queue until that section
(`CancelledNext`). A task without a session is cancelled by the visit of the next round, or is not in it because it is cancelled already; a
round visits each registered task before it ends (`WorkerSteps`, `AbandonedNext`).

### What is only model-checked

Every invariant, every action property and every refinement that a passing run checks is proved, and all
liveness properties but two. Left to TLC are `EventuallyCompleted` (an induction over the blocks of the range) and `KeepsLooping`
(an induction over the tasks of a round).

`CompletedMeansAll`, `CompletedOnce`, `AtMostOneResponse`, `AtMostOneAnswer`, `InRange` and `TopicTypeOK` are proved, and no run lists them: they
follow from `ImplementsStream`, `ImplementsLife` or the type of `Amop`, which the runs check. `UnsubscribeEffective` follows from `UnsubscribeKept` and
`CancelEffective`. `RpcTypeOK` and `RowsInBlockOrder` are proved too, and left out of the runs as the least informative of their properties.

## 5. Not modelled

* JSON: the content of JSON-RPC requests and responses (blocks, transactions, receipts), of event responses and of the
  protocol version; hexadecimal digits; logging. None of it keeps state or decides a step.
* `generateJson` of an event request, which nothing in the repository calls. A message of an SDK to the AMOP client that cannot be parsed or decoded: the handler is left before it changes anything.
* `LocalGroupManager`: its state never changes. Its lookups compare a name, its `updateGroupBlockInfo` does nothing. `NodeServiceFactory`: its two
  outcomes are inputs of `GroupManager`.
* `LocalAMOPClient` apart from its instance: its gateway is always active, and its timer is not started.
* The construction of objects from a configuration file, once and before anything else runs.
* The pure reads of the group manager (`getGroupInfo`, `groupList` and the like) outside the handshake: they return a variable.
* What a client may expect of an unsubscribe that overtakes the registration of its task, both queued before one loop (EventSub.cpp:133), is not written anywhere. It is an
  ordinary behaviour of `EventSub`: the unsubscribe is lost and the task runs on. `UnsubscribeKept` says that this is the only way to lose one.
* The web-socket library, tars, the ledger, the nodes and the gateways: their callbacks are actions marked as external.
* Uses of a destroyed object (`getPeers` captures a bare `this`), concurrent corruption of `m_topicInfos`, iteration of a group's
  nodes by other readers while a sweep removes some: undefined behaviour beyond a lost update.

## 6. Plan

Done, in the order of the plan: the event service and the promise it keeps, the group manager, the JSON-RPC service, the AMOP client, their
invariants; the filter of a subscription, the facade over the group manager, the life of a request, the proofs of all of them, and
of liveness what the prover can do. Left:

1. `EventSub` over `GroupManager` instead of a free `groups`: a transient refusal of `getNodeService` ends a subscription
   (`EventSub.cpp:452`). The two state spaces multiply, so that it wants a small abstraction of the group manager (a group that has
   a node, or is refused) first, and the proof that `GroupManager` implements it.
2. The facade with two nodes in TLC, with a coarser handshake.
3. `JsonRpc` over the lookups of `GroupManager`: which of its refusals are the ones of `RefusedMeansNoNode`.
4. The other half of `RandomRefusedExplained`: a request that is refused for a node chosen by its block number (`RefusedMeansNoNode`). What can be said of the
   code as it is, that the node had no service when it was asked for, restates the guard; a property worth having needs the code to fall back to another node.
