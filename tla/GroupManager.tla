---------------------------- MODULE GroupManager ----------------------------
(***************************************************************************)
(* The group manager of bcos-rpc (jsonrpc/groupmgr/GroupManager.cpp, .h):  *)
(* which groups and nodes the RPC knows, for which nodes it holds a        *)
(* service, and which nodes have the latest block of a group.              *)
(*                                                                         *)
(* Two locks split the state: x_nodeServiceList guards m_groupInfos and    *)
(* m_nodeServiceList, x_groupBlockInfos guards m_groupBlockInfos and       *)
(* m_nodesWithLatestBlockNumber.  An action is one section under one lock. *)
(* The timer's sweep (updateGroupStatus) takes three of them and the       *)
(* lookup of a request (getNodeService) two, so both interleave with the   *)
(* notifications the gateway and the nodes send.                           *)
(***************************************************************************)
EXTENDS Integers

CONSTANTS
    Groups, Nodes,
    NoNode,    \* the node of a lookup that found none
    Clients,   \* the requests being served at a time
    MaxBlock   \* bounds the block numbers

ASSUME NodesAssumption == NoNode \notin Nodes

ASSUME BlockAssumption == MaxBlock \in Nat

VARIABLES
    known,         \* the keys of m_groupInfos
    groupInfos,    \* m_groupInfos: the nodes listed in each group's info
    nodeServices,  \* m_nodeServiceList: an absent group has no services
    latestNodes,   \* m_nodesWithLatestBlockNumber: an absent group has none
    groupBlocks,   \* m_groupBlockInfos, -1 if absent as getBlockNumberByGroup says
    initializing,  \* c_tarsAdminRefreshInitTime has not elapsed
    sweep,         \* what updateGroupStatus does next
    unreachable,   \* its unreachableNodes
    lookup,        \* the lookups of getNodeService
    lacked,        \* history: clients for whose lookup no node would do at some time
    told,          \* history: the nodes last sent to the SDKs by m_groupInfoNotifier
    reachable,     \* the nodes whose service is not unreachable()
    blocks         \* the height of each node's own chain

serviceVars == <<known, groupInfos, nodeServices, told>>
blockVars   == <<latestNodes, groupBlocks>>
sweepVars   == <<initializing, sweep, unreachable>>
lookupVars  == <<lookup, lacked>>
envVars     == <<reachable, blocks>>
vars == <<known, groupInfos, nodeServices, told, latestNodes, groupBlocks,
          initializing, sweep, unreachable, lookup, lacked, reachable, blocks>>

\* asked: the group's block number known when the node was chosen, -1 if the
\* request names the node itself.
Lookup(stage, g, n, asked) == [stage |-> stage, group |-> g, node |-> n, asked |-> asked]

Lookups == [stage : {"idle", "query", "done"}, group : Groups,
            node : Nodes \cup {NoNode}, asked : Int]

TypeOK ==
    /\ known \subseteq Groups
    /\ groupInfos \in [Groups -> SUBSET Nodes]
    /\ nodeServices \in [Groups -> SUBSET Nodes]
    /\ latestNodes \in [Groups -> SUBSET Nodes]
    /\ groupBlocks \in [Groups -> Nat \cup {-1}]
    /\ initializing \in BOOLEAN
    /\ sweep \in {"idle", "services", "blocks"}
    /\ unreachable \in [Groups -> SUBSET Nodes]
    /\ lookup \in [Clients -> Lookups]
    /\ lacked \subseteq Clients
    /\ told \in [Groups -> SUBSET Nodes]
    /\ reachable \in [Groups -> SUBSET Nodes]
    /\ blocks \in [Groups -> [Nodes -> Nat]]

NoNodes == [g \in Groups |-> {}]

Init ==
    /\ known = {}
    /\ groupInfos = NoNodes
    /\ nodeServices = NoNodes
    /\ latestNodes = NoNodes
    /\ groupBlocks = [g \in Groups |-> -1]
    /\ initializing = TRUE
    /\ sweep = "idle"
    /\ unreachable = NoNodes
    /\ \E g \in Groups : lookup = [c \in Clients |-> Lookup("idle", g, NoNode, -1)]
    /\ lacked = {}
    /\ told = NoNodes
    /\ reachable = [g \in Groups |-> Nodes]
    /\ blocks = [g \in Groups |-> [n \in Nodes |-> 0]]

----------------------------------------------------------------------------
(***************************************************************************)
(* Notifications of the gateway: updateGroupInfo.                          *)
(***************************************************************************)

\* The first information on a group is stored as it is; no service is built.
NewGroup(g, announced) ==
    /\ g \notin known
    /\ known' = known \cup {g}
    /\ groupInfos' = [groupInfos EXCEPT ![g] = announced]
    /\ told' = [told EXCEPT ![g] = announced]
    /\ UNCHANGED nodeServices

\* The nodes updateNodeServiceWithoutLock adds: those without a service so far
\* for which buildNodeService succeeds.
Added(g, buildable) == buildable \ nodeServices[g]

\* Defect: the node is not appended to the group's information.
UpdateNodeServiceUnlisted(g, buildable) ==
    /\ g \in known
    /\ nodeServices' = [nodeServices EXCEPT ![g] = @ \cup Added(g, buildable)]
    /\ UNCHANGED <<known, groupInfos, told>>

UpdateNodeServiceWithoutLock(g, buildable) ==
    /\ g \in known
    /\ nodeServices' = [nodeServices EXCEPT ![g] = @ \cup Added(g, buildable)]
    /\ groupInfos' = [groupInfos EXCEPT ![g] = @ \cup Added(g, buildable)]
    /\ told' = [told EXCEPT ![g] = IF Added(g, buildable) = {} THEN @ ELSE groupInfos'[g]]
    /\ UNCHANGED known

UpdateGroupInfo(g, announced, buildable) ==
    /\ buildable \subseteq announced
    /\ \/ NewGroup(g, announced)
       \/ UpdateNodeServiceWithoutLock(g, buildable)
    /\ UNCHANGED <<blockVars, sweepVars, lookupVars, envVars>>

----------------------------------------------------------------------------
(***************************************************************************)
(* Notifications of the nodes: updateGroupBlockInfo.  A notification may   *)
(* be late or overtaken: it carries any block number up to the node's.     *)
(***************************************************************************)
\* Defect: a notification of an older block is not dropped.
ExpiredNever(g, b) == FALSE

Expired(g, b) == groupBlocks[g] > b

\* Defect: any number a node had is one it has already.
HasAlreadyNode(g, n, b) == n \in latestNodes[g]

HasAlready(g, n, b) == groupBlocks[g] = b /\ n \in latestNodes[g]

OldBlockNumber(g) == IF groupBlocks[g] = -1 THEN 0 ELSE groupBlocks[g]

\* Block number 0 never becomes the number of a group.
SetGroupBlock(g, n, b) ==
    IF OldBlockNumber(g) < b
      THEN /\ groupBlocks' = [groupBlocks EXCEPT ![g] = b]
           /\ latestNodes' = [latestNodes EXCEPT ![g] = {n}]
      ELSE /\ latestNodes' = [latestNodes EXCEPT ![g] = @ \cup {n}]
           /\ UNCHANGED groupBlocks

UpdateGroupBlockInfo(g, n, b) ==
    /\ b <= blocks[g][n]
    /\ ~Expired(g, b)
    /\ ~HasAlready(g, n, b)
    /\ SetGroupBlock(g, n, b)
    /\ UNCHANGED <<serviceVars, sweepVars, lookupVars, envVars>>

----------------------------------------------------------------------------
(***************************************************************************)
(* The sweep of the timer: updateGroupStatus, in the one thread of the     *)
(* timer.  Each of its three functions takes its lock anew.                *)
(***************************************************************************)

\* Defect: the group is inserted instead of the node.
UnreachableGroup(g) == IF groupInfos[g] \subseteq nodeServices[g] THEN {} ELSE {g}

\* Defect: unreachable() is not asked.
UnreachableMissing(g) == groupInfos[g] \ nodeServices[g]

\* The listed nodes without a service or with an unreachable one.
UnreachableNodes(g) == groupInfos[g] \ (nodeServices[g] \cap reachable[g])

\* Defect: the SDKs are not notified of the removed nodes.
NotifyRemovedNever(g) == told[g]

NotifyRemoved(g) ==
    IF UnreachableNodes(g) = {} THEN told[g] ELSE groupInfos[g] \ UnreachableNodes(g)

CheckNodeStatus ==
    /\ sweep = "idle"
    /\ ~initializing
    /\ \E g \in known : UnreachableNodes(g) # {}
    /\ unreachable' = [g \in Groups |-> IF g \in known THEN UnreachableNodes(g) ELSE {}]
    /\ groupInfos' = [g \in Groups |-> groupInfos[g] \ unreachable'[g]]
    /\ told' = [g \in Groups |-> NotifyRemoved(g)]
    /\ sweep' = "services"
    /\ UNCHANGED <<known, nodeServices, blockVars, initializing, lookupVars, envVars>>

\* The clients with a lookup under way in a group that has no service.
Lacking(services) ==
    {c \in Clients : lookup[c].stage = "query" /\ services[lookup[c].group] = {}}

RemoveUnreachableNodeService ==
    /\ sweep = "services"
    /\ nodeServices' = [g \in Groups |-> nodeServices[g] \ unreachable[g]]
    /\ lacked' = lacked \cup Lacking(nodeServices')
    /\ sweep' = "blocks"
    /\ UNCHANGED <<known, groupInfos, told, blockVars, initializing, unreachable,
                   lookup, envVars>>

\* The nodes with the latest block that removeGroupBlockInfo leaves: a group
\* without a block number loses all of them.
Remaining(g) == IF groupBlocks[g] = -1 THEN {} ELSE latestNodes[g] \ unreachable[g]

\* Defect: the group's number survives the last node that has the block.
RemainingBlockStays(g) == groupBlocks[g]

\* Defect: the group's number is dropped with the first node that has the block.
RemainingBlockEager(g) == IF latestNodes[g] \cap unreachable[g] # {} THEN -1 ELSE groupBlocks[g]

RemainingBlock(g) == IF Remaining(g) = {} THEN -1 ELSE groupBlocks[g]

RemoveGroupBlockInfo ==
    /\ sweep = "blocks"
    /\ latestNodes' = [g \in Groups |->
                         IF unreachable[g] = {} THEN latestNodes[g] ELSE Remaining(g)]
    /\ groupBlocks' = [g \in Groups |->
                         IF unreachable[g] = {} THEN groupBlocks[g] ELSE RemainingBlock(g)]
    /\ sweep' = "idle"
    /\ unreachable' = NoNodes
    /\ UNCHANGED <<serviceVars, initializing, lookupVars, envVars>>

UpdateGroupStatus ==
    \/ CheckNodeStatus
    \/ RemoveUnreachableNodeService
    \/ RemoveGroupBlockInfo

----------------------------------------------------------------------------
(***************************************************************************)
(* The lookup of a request: getNodeService(group, node).                   *)
(***************************************************************************)

\* Begins the lookup of c, which one of the nodes would serve.
LookUp(c, stage, g, n, asked, nodes) ==
    /\ lookup' = [lookup EXCEPT ![c] = Lookup(stage, g, n, asked)]
    /\ lacked' = IF nodes \cap nodeServices[g] = {} THEN lacked \cup {c} ELSE lacked \ {c}

Queried(g, n) == IF n \in nodeServices[g] THEN n ELSE NoNode

\* A request that names its node.
GetNamedNodeService(c, g, n) ==
    /\ lookup[c].stage # "query"
    /\ LookUp(c, "done", g, Queried(g, n), -1, {n})
    /\ UNCHANGED <<serviceVars, blockVars, sweepVars, envVars>>

SelectNodeByBlockNumber(c, g) ==
    /\ lookup[c].stage # "query"
    /\ \E n \in latestNodes[g] : LookUp(c, "query", g, n, groupBlocks[g], Nodes)
    /\ UNCHANGED <<serviceVars, blockVars, sweepVars, envVars>>

\* Without nodes that have the latest block: any listed node with a service.  The
\* first lock section, which finds none, and the second one are two steps.
SelectNodeRandomly(c, g) ==
    /\ lookup[c].stage # "query"
    /\ latestNodes[g] = {}
    /\ LookUp(c, "query", g, NoNode, groupBlocks[g], Nodes)
    /\ UNCHANGED <<serviceVars, blockVars, sweepVars, envVars>>

\* What selectNodeRandomly may return: the first listed node with a service.
RandomNodes(g) ==
    IF groupInfos[g] \cap nodeServices[g] = {} THEN {NoNode}
                                               ELSE groupInfos[g] \cap nodeServices[g]

\* The second lock section, of queryNodeService or of selectNodeRandomly.
QueryNodeService(c) ==
    /\ lookup[c].stage = "query"
    /\ \E n \in IF lookup[c].node = NoNode THEN RandomNodes(lookup[c].group)
                ELSE {Queried(lookup[c].group, lookup[c].node)} :
         lookup' = [lookup EXCEPT ![c].stage = "done", ![c].node = n]
    /\ UNCHANGED <<serviceVars, blockVars, sweepVars, lacked, envVars>>

GetNodeService(c) ==
    \/ \E g \in Groups, n \in Nodes : GetNamedNodeService(c, g, n)
    \/ \E g \in Groups : SelectNodeByBlockNumber(c, g) \/ SelectNodeRandomly(c, g)
    \/ QueryNodeService(c)

----------------------------------------------------------------------------
(***************************************************************************)
(* The environment: the clock, the nodes and their chains.                 *)
(***************************************************************************)
EndInitializing ==
    /\ initializing
    /\ initializing' = FALSE
    /\ UNCHANGED <<serviceVars, blockVars, sweep, unreachable, lookupVars, envVars>>

NodeReachability(g, n) ==
    /\ reachable' = [reachable EXCEPT ![g] = IF n \in @ THEN @ \ {n} ELSE @ \cup {n}]
    /\ UNCHANGED <<serviceVars, blockVars, sweepVars, lookupVars, blocks>>

NodeCommit(g, n) ==
    /\ blocks[g][n] < MaxBlock
    /\ blocks' = [blocks EXCEPT ![g][n] = @ + 1]
    /\ UNCHANGED <<serviceVars, blockVars, sweepVars, lookupVars, reachable>>

Next ==
    \/ \E g \in Groups, announced, buildable \in SUBSET Nodes :
         UpdateGroupInfo(g, announced, buildable)
    \/ \E g \in Groups, n \in Nodes, b \in 0..MaxBlock : UpdateGroupBlockInfo(g, n, b)
    \/ UpdateGroupStatus
    \/ \E c \in Clients : GetNodeService(c)
    \/ EndInitializing
    \/ \E g \in Groups, n \in Nodes : NodeReachability(g, n) \/ NodeCommit(g, n)

Spec == Init /\ [][Next]_vars

\* The timer restarts itself before each sweep, and time passes.
FairSpec == Spec /\ WF_vars(UpdateGroupStatus) /\ WF_vars(EndInitializing)

----------------------------------------------------------------------------
(***************************************************************************)
(* Properties.                                                             *)
(***************************************************************************)

\* The sweep visits the nodes of the groups' information only: a service of a node
\* that is not listed there would be asked for by name for ever, reachable or not.
\* Every service belongs to a listed node or is about to be removed by the sweep.
NoOrphanService ==
    \A g \in Groups :
        nodeServices[g] \subseteq
            groupInfos[g] \cup (IF sweep = "services" THEN unreachable[g] ELSE {})

\* m_groupInfoNotifier is called on every change of a group's nodes, by a
\* notification or by the sweep: what the SDKs were sent last is the present list.
ClientsInformed == \A g \in known : told[g] = groupInfos[g]

\* A group has a block number only while some node is recorded to have that block:
\* updateGroupBlockInfo drops lower numbers, so a number without nodes would keep
\* getNodeService from ever preferring a node again.
NumberHasNodes == \A g \in Groups : groupBlocks[g] # -1 => latestNodes[g] # {}

\* The node getNodeService chooses for a request is not behind the block number the
\* group was known to have, whatever order notifications arrive in.
ChosenIsUpToDate ==
    \A c \in Clients :
        LET l == lookup[c]
        IN l.stage # "idle" /\ l.node # NoNode => blocks[l.group][l.node] >= l.asked

\* getBlockNumberByGroup never goes back, but for the sweep that forgets the number
\* when every node that has the block is unreachable.
NumberMonotone ==
    [][\A g \in Groups : groupBlocks'[g] < groupBlocks[g] =>
          /\ groupBlocks'[g] = -1
          /\ latestNodes[g] \subseteq unreachable[g]]_vars

\* The service of a node that stays unreachable is removed by the sweep (and again
\* whenever a notification of the gateway has it rebuilt).
UnreachableRemoved ==
    \A g \in Groups, n \in Nodes :
        <>[](n \notin reachable[g]) => []<>(n \notin nodeServices[g])

\* JsonRpcImpl_2_0::getNodeService refuses a request with "Invalid request for the
\* specified node of doesn't exist or doesn't started!": a request that names no
\* node is refused only if its group had no started node at some time, one that does
\* if that node had not.
RefusedMeansNoNode ==
    \A c \in Clients :
        lookup[c].stage = "done" /\ lookup[c].node = NoNode => c \in lacked

\* selectNodeRandomly gives up in its own lock section: a lookup that prefers no node
\* is refused only if each service the group then has is of a node that the sweep
\* found unreachable, and is about to be removed.
RandomRefusedExplained ==
    [][\A c \in Clients :
          /\ lookup[c].stage = "query" /\ lookup[c].node = NoNode
          /\ lookup'[c].stage = "done" /\ lookup'[c].node = NoNode
          => \A n \in nodeServices[lookup[c].group] :
                sweep = "services" /\ n \in unreachable[lookup[c].group]]_vars
=============================================================================
