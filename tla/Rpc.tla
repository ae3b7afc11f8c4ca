--------------------------------- MODULE Rpc ---------------------------------
(***************************************************************************)
(* The facade (Rpc.cpp) between the gateway, the nodes and the SDKs, with  *)
(* the group manager it holds: each notification goes to the group manager *)
(* and to every connected session, and a session asks once for the whole   *)
(* list of groups, in its handshake (RpcFactory::registerHandlers).        *)
(*                                                                         *)
(* The answer to a handshake is put together while notifications go on: the*)
(* groups are listed under x_nodeServiceList, what each of them holds is   *)
(* read afterwards without it, and the answer is sent at last.             *)
(* A section of the group manager and the notifications it sends are one   *)
(* step: they happen under x_nodeServiceList, and a session told of half a *)
(* change is told of the whole before the lock is given up.                *)
(***************************************************************************)
EXTENDS GroupManager

CONSTANT Sessions

VARIABLES
    running,    \* between Rpc::start and Rpc::stop
    online,     \* m_wsService->sessions() that are connected
    view,       \* what each session was sent last of each group, {} if nothing
    stage,      \* the handshake of each session
    listed,     \* the groups of its answer
    left,       \* those of them not read yet
    infos,      \* what was read
    late,       \* history: groups that changed after the handshake read them
    notifying,  \* the calls of asyncNotifyBlockNumber before their last line
    toldBlock   \* history: the highest block the SDKs were told of, -1 if none
                \* since the sweep forgot the group's number

sessionVars == <<running, online>>
handshakeVars == <<stage, listed, left, infos>>
blockCalls == <<notifying, toldBlock>>
rpcVars == <<sessionVars, view, handshakeVars, late, blockCalls>>
rpcAndGroupVars == <<vars, rpcVars>>

Calls == [group : Groups, node : Nodes, block : 0..MaxBlock]

Infos == [Groups -> SUBSET Nodes]

RpcTypeOK ==
    /\ running \in BOOLEAN
    /\ online \subseteq Sessions
    /\ view \in [Sessions -> Infos]
    /\ stage \in [Sessions -> {"none", "reading", "done"}]
    /\ listed \in [Sessions -> SUBSET Groups]
    /\ left \in [Sessions -> SUBSET Groups]
    /\ infos \in [Sessions -> Infos]
    /\ late \in [Sessions -> SUBSET Groups]
    /\ notifying \subseteq Calls
    /\ toldBlock \in [Groups -> Nat \cup {-1}]
    /\ \A s \in Sessions : s \notin online => stage[s] = "none"
    /\ \A s \in Sessions : left[s] \subseteq listed[s] /\ listed[s] \subseteq known

RpcInit ==
    /\ Init
    /\ running = FALSE
    /\ online = {}
    /\ view = [s \in Sessions |-> NoNodes]
    /\ stage = [s \in Sessions |-> "none"]
    /\ listed = [s \in Sessions |-> {}]
    /\ left = [s \in Sessions |-> {}]
    /\ infos = [s \in Sessions |-> NoNodes]
    /\ late = [s \in Sessions |-> {}]
    /\ notifying = {}
    /\ toldBlock = [g \in Groups |-> -1]

----------------------------------------------------------------------------
(***************************************************************************)
(* The service and its sessions.                                           *)
(***************************************************************************)
Start ==
    /\ ~running
    /\ running' = TRUE
    /\ UNCHANGED <<vars, online, view, handshakeVars, late, blockCalls>>

\* The sessions go on their own, in Disconnect.
Stop ==
    /\ running
    /\ running' = FALSE
    /\ UNCHANGED <<vars, online, view, handshakeVars, late, blockCalls>>

Connect(s) ==
    /\ running
    /\ s \notin online
    /\ online' = online \cup {s}
    /\ view' = [view EXCEPT ![s] = NoNodes]
    /\ UNCHANGED <<vars, running, handshakeVars, late, blockCalls>>

\* What its handshake still sends reaches nobody.
Disconnect(s) ==
    /\ s \in online
    /\ online' = online \ {s}
    /\ stage' = [stage EXCEPT ![s] = "none"]
    /\ listed' = [listed EXCEPT ![s] = {}]
    /\ left' = [left EXCEPT ![s] = {}]
    /\ UNCHANGED <<vars, running, view, infos, late, blockCalls>>

----------------------------------------------------------------------------
(***************************************************************************)
(* The handshake: a session may ask again, once its answer came.           *)
(***************************************************************************)
\* groupInfoList
ListGroups(s) ==
    /\ s \in online
    /\ stage[s] # "reading"
    /\ stage' = [stage EXCEPT ![s] = "reading"]
    /\ listed' = [listed EXCEPT ![s] = known]
    /\ left' = [left EXCEPT ![s] = known]
    /\ late' = [late EXCEPT ![s] = {}]
    /\ UNCHANGED <<vars, sessionVars, view, infos, blockCalls>>

\* groupInfoListToJson, for one group
ReadInfo(s, g) ==
    /\ stage[s] = "reading"
    /\ g \in left[s]
    /\ left' = [left EXCEPT ![s] = @ \ {g}]
    /\ infos' = [infos EXCEPT ![s][g] = groupInfos[g]]
    /\ UNCHANGED <<vars, sessionVars, view, stage, listed, late, blockCalls>>

Respond(s) ==
    /\ stage[s] = "reading"
    /\ left[s] = {}
    /\ view' = [view EXCEPT ![s] =
                  [g \in Groups |-> IF g \in listed[s] THEN infos[s][g] ELSE view[s][g]]]
    /\ stage' = [stage EXCEPT ![s] = "done"]
    /\ UNCHANGED <<vars, sessionVars, listed, left, infos, late, blockCalls>>

Handshake(s) == ListGroups(s) \/ (\E g \in Groups : ReadInfo(s, g)) \/ Respond(s)

----------------------------------------------------------------------------
(***************************************************************************)
(* Notifications of groups.                                                *)
(***************************************************************************)
\* Defect: a session is told only once its handshake was answered.
NotifiedGreeted == {s \in online : stage[s] = "done"}

Notified == online

NotifyGroupInfo(groups) ==
    view' = [s \in Sessions |->
               [g \in Groups |-> IF s \in Notified /\ g \in groups
                                   THEN groupInfos'[g] ELSE view[s][g]]]

Changed == {g \in Groups : groupInfos'[g] # groupInfos[g]}

\* The answer of a handshake that has read what changes now is out of date.
Overtake ==
    late' = [s \in Sessions |->
               IF stage[s] = "reading" THEN late[s] \cup (Changed \cap (listed[s] \ left[s]))
                                       ELSE late[s] \ Changed]

AsyncNotifyGroupInfo(g, nodes, buildable) ==
    /\ UpdateGroupInfo(g, nodes, buildable)
    /\ NotifyGroupInfo(IF g \notin known \/ Added(g, buildable) # {} THEN {g} ELSE {})
    /\ Overtake
    /\ UNCHANGED <<sessionVars, handshakeVars, blockCalls>>

SweepGroupInfo ==
    /\ CheckNodeStatus
    /\ NotifyGroupInfo({g \in known : UnreachableNodes(g) # {}})
    /\ Overtake
    /\ UNCHANGED <<sessionVars, handshakeVars, blockCalls>>

----------------------------------------------------------------------------
(***************************************************************************)
(* Notifications of blocks: asyncNotifyBlockNumber tells the sessions and  *)
(* the caller first, and the group manager afterwards.  Calls that come at *)
(* the same time may get to the group manager in any order.  Two equal     *)
(* calls are not under way at once.                                        *)
(***************************************************************************)
TellBlock(g, n, b) ==
    /\ b <= blocks[g][n]
    /\ [group |-> g, node |-> n, block |-> b] \notin notifying
    /\ notifying' = notifying \cup {[group |-> g, node |-> n, block |-> b]}
    /\ toldBlock' = [toldBlock EXCEPT ![g] = IF @ < b THEN b ELSE @]
    /\ UNCHANGED <<vars, sessionVars, view, handshakeVars, late>>

RecordBlock(c) ==
    \/ /\ Expired(c.group, c.block) \/ HasAlready(c.group, c.node, c.block)
       /\ UNCHANGED vars
    \/ UpdateGroupBlockInfo(c.group, c.node, c.block)

EndNotifyBlock(c) ==
    /\ RecordBlock(c)
    /\ notifying' = notifying \ {c}
    /\ UNCHANGED <<sessionVars, view, handshakeVars, late, toldBlock>>

\* The sweep may forget a group's number.
SweepBlockInfo ==
    /\ RemoveGroupBlockInfo
    /\ toldBlock' = [g \in Groups |->
                       IF groupBlocks'[g] # groupBlocks[g] THEN -1 ELSE toldBlock[g]]
    /\ UNCHANGED <<sessionVars, view, handshakeVars, late, notifying>>

----------------------------------------------------------------------------
\* The steps of the group manager in which no call of the facade takes part.
GroupManagerAlone ==
    /\ \/ RemoveUnreachableNodeService
       \/ \E c \in Clients : GetNodeService(c)
       \/ EndInitializing
       \/ \E g \in Groups, n \in Nodes : NodeReachability(g, n) \/ NodeCommit(g, n)
    /\ UNCHANGED rpcVars

RpcNext ==
    \/ Start \/ Stop
    \/ \E s \in Sessions : Connect(s) \/ Disconnect(s) \/ Handshake(s)
    \/ \E g \in Groups, nodes, buildable \in SUBSET Nodes :
         AsyncNotifyGroupInfo(g, nodes, buildable)
    \/ SweepGroupInfo
    \/ \E g \in Groups, n \in Nodes, b \in 0..MaxBlock : TellBlock(g, n, b)
    \/ \E c \in notifying : EndNotifyBlock(c)
    \/ SweepBlockInfo
    \/ GroupManagerAlone

RpcSpec == RpcInit /\ [][RpcNext]_rpcAndGroupVars

----------------------------------------------------------------------------
(***************************************************************************)
(* Properties.                                                             *)
(***************************************************************************)

\* A session that was answered its handshake (RpcFactory.cpp:142-180) knows the nodes
\* of every group, whatever notifications (Rpc.cpp:110-128) came before, during and
\* after it, except those of a group that changed between the time the answer read it
\* and the time it was sent, and has not changed since: nothing but such an answer
\* leaves an SDK with an old list.
StaleOnlyIfOvertaken ==
    \A s \in online : stage[s] = "done" =>
        \A g \in known \ late[s] : view[s][g] = groupInfos[g]

\* asyncNotifyBlockNumber tells the SDKs of a block before the group manager knows it
\* (Rpc.cpp:69-98): once the call is through, the group manager has that number or a
\* higher one, in whatever order calls overtake each other, but for block 0, which
\* never becomes a number, and for a number the sweep forgets.
ToldBlockKnown ==
    \A g \in Groups :
        \/ toldBlock[g] <= groupBlocks[g]
        \/ toldBlock[g] = 0
        \/ \E c \in notifying : c.group = g /\ c.block = toldBlock[g]
=============================================================================
