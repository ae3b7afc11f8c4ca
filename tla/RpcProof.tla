------------------------------- MODULE RpcProof -------------------------------
(***************************************************************************)
(* Proofs about the facade and its group manager: the group manager does   *)
(* inside the facade what it does alone, so that its theorems carry over,  *)
(* and the two invariants on what the SDKs were told.                      *)
(***************************************************************************)
EXTENDS Rpc, GroupManagerProof

\* What a handshake has gathered, and what its session was sent, of the groups that
\* did not change after they were read.
HandshakeOf(s) ==
    /\ stage[s] = "reading" =>
         /\ \A g \in listed[s] \ (left[s] \cup late[s]) : infos[s][g] = groupInfos[g]
         /\ \A g \in known \ listed[s] : view[s][g] = groupInfos[g]
    /\ stage[s] = "done" => \A g \in known \ late[s] : view[s][g] = groupInfos[g]

HandshakeInv == \A s \in Sessions : HandshakeOf(s)

----------------------------------------------------------------------------
(***************************************************************************)
(* Every step of the facade is a step of the group manager, or leaves it.  *)
(***************************************************************************)
LEMMA CallTypes ==
    ASSUME RpcTypeOK, NEW c \in notifying
    PROVE  c.group \in Groups /\ c.node \in Nodes /\ c.block \in 0..MaxBlock
BY DEF RpcTypeOK, Calls

LEMMA FacadeSteps == RpcTypeOK /\ [RpcNext]_rpcAndGroupVars => [Next]_vars
<1>. SUFFICES ASSUME RpcTypeOK, [RpcNext]_rpcAndGroupVars PROVE [Next]_vars
  OBVIOUS
<1>1. CASE Start \/ Stop
  BY <1>1 DEF Start, Stop
<1>2. ASSUME NEW s \in Sessions, Connect(s) \/ Disconnect(s) \/ Handshake(s)
      PROVE  UNCHANGED vars
  BY <1>2 DEF Connect, Disconnect, Handshake, ListGroups, ReadInfo, Respond
<1>3. ASSUME NEW g \in Groups, NEW nodes \in SUBSET Nodes, NEW buildable \in SUBSET Nodes,
             AsyncNotifyGroupInfo(g, nodes, buildable)
      PROVE  Next
  BY <1>3 DEF AsyncNotifyGroupInfo, Next
<1>4. CASE SweepGroupInfo \/ SweepBlockInfo
  BY <1>4 DEF SweepGroupInfo, SweepBlockInfo, UpdateGroupStatus, Next
<1>5. ASSUME NEW g \in Groups, NEW n \in Nodes, NEW b \in 0..MaxBlock, TellBlock(g, n, b)
      PROVE  UNCHANGED vars
  BY <1>5 DEF TellBlock
<1>6. ASSUME NEW c \in notifying, EndNotifyBlock(c) PROVE [Next]_vars
  BY <1>6, CallTypes DEF EndNotifyBlock, RecordBlock, Next
<1>7. CASE GroupManagerAlone
  BY <1>7 DEF GroupManagerAlone, UpdateGroupStatus, Next
<1>8. CASE UNCHANGED rpcAndGroupVars
  BY <1>8 DEF rpcAndGroupVars
<1>. QED BY <1>1, <1>2, <1>3, <1>4, <1>5, <1>6, <1>7, <1>8 DEF RpcNext

----------------------------------------------------------------------------
(***************************************************************************)
(* Type correctness.                                                       *)
(***************************************************************************)
LEMMA RpcTypeInit == RpcInit => TypeOK /\ RpcTypeOK
BY TypeInit DEF RpcInit, RpcTypeOK, Infos, NoNodes, Calls

\* The steps of sessions and handshakes.
LEMMA SessionTypes ==
    ASSUME TypeOK, RpcTypeOK, NEW s \in Sessions, Connect(s) \/ Disconnect(s) \/ Handshake(s)
    PROVE  RpcTypeOK'
<1>. USE DEF RpcTypeOK, sessionVars, handshakeVars, blockCalls, vars, Infos
<1>1. CASE Connect(s)
  BY <1>1 DEF Connect, NoNodes
<1>2. CASE Disconnect(s)
  BY <1>2 DEF Disconnect
<1>3. CASE ListGroups(s)
  BY <1>3 DEF ListGroups, TypeOK
<1>4. ASSUME NEW g \in Groups, ReadInfo(s, g) PROVE RpcTypeOK'
  <2>1. infos' \in [Sessions -> Infos]
    BY <1>4 DEF ReadInfo, TypeOK
  <2>. QED BY <1>4, <2>1 DEF ReadInfo
<1>5. CASE Respond(s)
  <2>1. view' \in [Sessions -> Infos]
    BY <1>5 DEF Respond
  <2>2. s \in online
    BY <1>5 DEF Respond
  <2>. QED BY <1>5, <2>1, <2>2 DEF Respond
<1>. QED BY <1>1, <1>2, <1>3, <1>4, <1>5 DEF Handshake

\* A notification of a group writes the views and the history only.
LEMMA NotifyTypes ==
    ASSUME TypeOK, TypeOK', RpcTypeOK, NEW groups, NotifyGroupInfo(groups), Overtake,
           UNCHANGED <<sessionVars, handshakeVars, blockCalls>>, known \subseteq known'
    PROVE  RpcTypeOK'
<1>1. view' \in [Sessions -> Infos]
  BY DEF NotifyGroupInfo, RpcTypeOK, Infos, TypeOK
<1>2. late' \in [Sessions -> SUBSET Groups]
  BY DEF Overtake, Changed, RpcTypeOK
<1>. QED BY <1>1, <1>2 DEF RpcTypeOK, sessionVars, handshakeVars, blockCalls

\* The group manager never forgets a group.
LEMMA KnownGrows == [Next]_vars => known \subseteq known'
<1>. SUFFICES ASSUME [Next]_vars PROVE known \subseteq known'
  OBVIOUS
<1>1. ASSUME NEW g \in Groups, NEW nodes \in SUBSET Nodes, NEW buildable \in SUBSET Nodes,
             UpdateGroupInfo(g, nodes, buildable)
      PROVE  known \subseteq known'
  BY <1>1 DEF UpdateGroupInfo, NewGroup, UpdateNodeServiceWithoutLock
<1>2. CASE UpdateGroupStatus
  BY <1>2 DEF UpdateGroupStatus, CheckNodeStatus, RemoveUnreachableNodeService,
              RemoveGroupBlockInfo, serviceVars
<1>3. CASE UNCHANGED <<serviceVars, sweep, unreachable>>
  BY <1>3 DEF serviceVars
<1>. QED BY <1>1, <1>2, <1>3, ServiceSteps

LEMMA RpcTypeNext ==
    TypeOK /\ RpcTypeOK /\ [RpcNext]_rpcAndGroupVars => TypeOK' /\ RpcTypeOK'
<1>. SUFFICES ASSUME TypeOK, RpcTypeOK, [RpcNext]_rpcAndGroupVars PROVE TypeOK' /\ RpcTypeOK'
  OBVIOUS
<1>1. [Next]_vars /\ TypeOK' /\ known \subseteq known'
  BY FacadeSteps, TypeNext, KnownGrows
<1>. USE DEF sessionVars, handshakeVars, blockCalls
<1>2. CASE Start \/ Stop
  BY <1>1, <1>2 DEF Start, Stop, RpcTypeOK, vars
<1>3. ASSUME NEW s \in Sessions, Connect(s) \/ Disconnect(s) \/ Handshake(s) PROVE RpcTypeOK'
  BY <1>3, SessionTypes
<1>4. ASSUME NEW g \in Groups, NEW nodes \in SUBSET Nodes, NEW buildable \in SUBSET Nodes,
             AsyncNotifyGroupInfo(g, nodes, buildable)
      PROVE  RpcTypeOK'
  BY <1>1, <1>4, NotifyTypes DEF AsyncNotifyGroupInfo
<1>5. CASE SweepGroupInfo
  BY <1>1, <1>5, NotifyTypes DEF SweepGroupInfo
<1>6. ASSUME NEW g \in Groups, NEW n \in Nodes, NEW b \in 0..MaxBlock, TellBlock(g, n, b)
      PROVE  RpcTypeOK'
  <2>1. b \in Nat /\ [group |-> g, node |-> n, block |-> b] \in Calls
    BY BlockAssumption DEF Calls
  <2>2. toldBlock' \in [Groups -> Nat \cup {-1}] /\ notifying' \subseteq Calls
    BY <1>6, <2>1 DEF TellBlock, RpcTypeOK
  <2>. QED BY <1>6, <2>2 DEF TellBlock, RpcTypeOK, vars
<1>7. ASSUME NEW c \in notifying, EndNotifyBlock(c) PROVE RpcTypeOK'
  BY <1>1, <1>7 DEF EndNotifyBlock, RpcTypeOK
<1>8. CASE SweepBlockInfo
  BY <1>1, <1>8 DEF SweepBlockInfo, RpcTypeOK
<1>9. CASE GroupManagerAlone
  BY <1>1, <1>9 DEF GroupManagerAlone, rpcVars, RpcTypeOK
<1>10. CASE UNCHANGED rpcAndGroupVars
  BY <1>1, <1>10 DEF rpcAndGroupVars, rpcVars, vars, RpcTypeOK
<1>. QED BY <1>1, <1>2, <1>3, <1>4, <1>5, <1>6, <1>7, <1>8, <1>9, <1>10 DEF RpcNext

\* The facade and what it sent have their types in every state; a handshake lists
\* groups the group manager knows, and belongs to a connected session.
THEOREM RpcTypeCorrect == RpcSpec => []RpcTypeOK
BY RpcTypeInit, RpcTypeNext, PTL DEF RpcSpec

\* The group manager does in the facade what it does alone, so every theorem about
\* Spec holds of RpcSpec as well.
LEMMA GroupManagerKept == RpcSpec => Spec
<1>1. RpcInit => Init
  BY DEF RpcInit
<1>. QED BY <1>1, FacadeSteps, RpcTypeInit, RpcTypeNext, PTL DEF RpcSpec, Spec

\* What is promised of the group manager is kept by it behind the facade's calls
\* (Rpc.cpp:69-110): its services are those of listed nodes, its notifications
\* complete, its numbers backed by nodes, its choices not behind; its numbers go back by the
\* sweep alone, and it refuses at random only what the sweep is about to leave unserved.
THEOREM GroupManagerInside ==
    RpcSpec => /\ [](NoOrphanService /\ ClientsInformed /\ NumberHasNodes /\ ChosenIsUpToDate)
               /\ NumberMonotone /\ RandomRefusedExplained
BY GroupManagerKept, NoOrphanServiceHolds, ClientsInformedHolds, NumberHasNodesHolds,
   ChosenIsUpToDateHolds, NumberMonotoneHolds, RandomRefusedExplainedHolds, PTL

----------------------------------------------------------------------------
(***************************************************************************)
(* Handshakes: HandshakeInv is inductive.  A step of a session concerns    *)
(* that session, a change of a group the sessions that are told of it.     *)
(***************************************************************************)
LEMMA HandshakeInit == RpcInit => HandshakeInv
BY DEF RpcInit, HandshakeInv, HandshakeOf

\* A step that leaves the groups, the views and the handshakes keeps HandshakeInv.
LEMMA HandshakeStutter ==
    ASSUME HandshakeInv,
           UNCHANGED <<known, groupInfos, view, handshakeVars, late>>
    PROVE  HandshakeInv'
BY DEF HandshakeInv, HandshakeOf, handshakeVars

LEMMA SessionHandshakes ==
    ASSUME TypeOK, RpcTypeOK, HandshakeInv, NEW s \in Sessions,
           Connect(s) \/ Disconnect(s) \/ Handshake(s)
    PROVE  HandshakeInv'
<1>. USE DEF RpcTypeOK, sessionVars, handshakeVars, blockCalls, vars, Infos
<1>1. UNCHANGED <<known, groupInfos>>
  BY DEF Connect, Disconnect, Handshake, ListGroups, ReadInfo, Respond
<1>2. ASSUME NEW r \in Sessions \ {s} PROVE HandshakeOf(r)'
  <2>1. /\ stage'[r] = stage[r] /\ listed'[r] = listed[r] /\ left'[r] = left[r]
        /\ infos'[r] = infos[r] /\ view'[r] = view[r] /\ late'[r] = late[r]
    BY DEF Connect, Disconnect, Handshake, ListGroups, ReadInfo, Respond
  <2>. QED BY <1>1, <2>1 DEF HandshakeInv, HandshakeOf
<1>3. CASE Connect(s) \/ Disconnect(s)
  <2>1. stage'[s] = "none"
    BY <1>3 DEF Connect, Disconnect
  <2>. QED BY <1>2, <2>1 DEF HandshakeInv, HandshakeOf
<1>4. CASE ListGroups(s)
  <2>1. stage'[s] = "reading" /\ listed'[s] = known /\ left'[s] = known
    BY <1>4 DEF ListGroups
  <2>2. HandshakeOf(s)'
    BY <1>1, <2>1 DEF HandshakeOf
  <2>. QED BY <1>2, <2>2 DEF HandshakeInv
<1>5. ASSUME NEW g \in Groups, ReadInfo(s, g) PROVE HandshakeInv'
  <2>1. /\ stage[s] = "reading" /\ stage' = stage /\ listed' = listed /\ late' = late
        /\ view' = view /\ left'[s] = left[s] \ {g}
        /\ infos'[s] = [infos[s] EXCEPT ![g] = groupInfos[g]]
    BY <1>5 DEF ReadInfo
  <2>2. \A h \in Groups : infos'[s][h] = IF h = g THEN groupInfos[g] ELSE infos[s][h]
    BY <2>1
  <2>3. listed[s] \subseteq Groups
    OBVIOUS
  <2>4. HandshakeOf(s)'
    BY <1>1, <2>1, <2>2, <2>3 DEF HandshakeOf, HandshakeInv
  <2>. QED BY <1>2, <2>4 DEF HandshakeInv
<1>6. CASE Respond(s)
  <2>1. /\ stage[s] = "reading" /\ stage'[s] = "done" /\ left[s] = {}
        /\ listed' = listed /\ late' = late
        /\ \A g \in Groups : view'[s][g] = IF g \in listed[s] THEN infos[s][g] ELSE view[s][g]
    BY <1>6 DEF Respond
  <2>2. known \subseteq Groups
    BY DEF TypeOK
  <2>3. HandshakeOf(s)'
    BY <1>1, <2>1, <2>2 DEF HandshakeOf, HandshakeInv
  <2>. QED BY <1>2, <2>3 DEF HandshakeInv
<1>. QED BY <1>3, <1>4, <1>5, <1>6 DEF Handshake

\* All groups that change, and new ones, are among those the sessions are told of.
LEMMA NotifyHandshakes ==
    ASSUME TypeOK, TypeOK', RpcTypeOK, HandshakeInv, NEW groups,
           NotifyGroupInfo(groups), Overtake, UNCHANGED <<online, handshakeVars>>,
           known' \subseteq known \cup groups, Changed \subseteq groups
    PROVE  HandshakeInv'
<1>1. SUFFICES ASSUME NEW s \in Sessions PROVE HandshakeOf(s)'
  BY DEF HandshakeInv
<1>2. known' \subseteq Groups /\ listed[s] \subseteq known /\ known \subseteq Groups
  BY DEF RpcTypeOK, TypeOK
<1>3. \A g \in Groups \ groups : groupInfos'[g] = groupInfos[g] /\ view'[s][g] = view[s][g]
  BY DEF NotifyGroupInfo, Changed
<1>4. stage[s] # "none" => \A g \in Groups : g \in groups => view'[s][g] = groupInfos'[g]
  BY DEF NotifyGroupInfo, RpcTypeOK, Notified
<1>5. UNCHANGED <<stage, listed, left, infos>>
  BY DEF handshakeVars
<1>6. CASE stage[s] = "reading"
  <2>1. late'[s] = late[s] \cup (Changed \cap (listed[s] \ left[s]))
    BY <1>6 DEF Overtake
  <2>2. \A g \in listed[s] \ (left[s] \cup late'[s]) : infos[s][g] = groupInfos'[g]
    <3>1. \A g \in listed[s] \ (left[s] \cup late'[s]) :
            /\ g \in Groups /\ g \notin Changed
            /\ infos[s][g] = groupInfos[g]
      BY <1>2, <1>6, <2>1 DEF HandshakeInv, HandshakeOf
    <3>. QED BY <3>1 DEF Changed
  <2>3. \A g \in known' \ listed[s] : view'[s][g] = groupInfos'[g]
    BY <1>2, <1>3, <1>4, <1>6 DEF HandshakeInv, HandshakeOf
  <2>. QED BY <1>5, <1>6, <2>2, <2>3 DEF HandshakeOf
<1>7. CASE stage[s] = "done"
  <2>1. late'[s] = late[s] \ Changed
    BY <1>7 DEF Overtake
  <2>2. \A g \in known' \ late'[s] : view'[s][g] = groupInfos'[g]
    BY <1>2, <1>3, <1>4, <1>7, <2>1 DEF HandshakeInv, HandshakeOf
  <2>. QED BY <1>5, <1>7, <2>2 DEF HandshakeOf
<1>8. CASE stage[s] \notin {"reading", "done"}
  BY <1>5, <1>8 DEF HandshakeOf
<1>. QED BY <1>6, <1>7, <1>8

\* A group's information changes only together with a call of m_groupInfoNotifier.
LEMMA UpdateNotifies ==
    ASSUME TypeOK, NEW g \in Groups, NEW nodes \in SUBSET Nodes, NEW buildable \in SUBSET Nodes,
           UpdateGroupInfo(g, nodes, buildable)
    PROVE  LET groups == IF g \notin known \/ Added(g, buildable) # {} THEN {g} ELSE {}
           IN  known' \subseteq known \cup groups /\ Changed \subseteq groups
<1>1. CASE NewGroup(g, nodes)
  BY <1>1 DEF NewGroup, Changed, TypeOK
<1>2. CASE UpdateNodeServiceWithoutLock(g, buildable)
  <2>1. known' = known /\ \A h \in Groups \ {g} : groupInfos'[h] = groupInfos[h]
    BY <1>2 DEF UpdateNodeServiceWithoutLock, TypeOK
  <2>2. groupInfos'[g] = groupInfos[g] \cup Added(g, buildable)
    BY <1>2 DEF UpdateNodeServiceWithoutLock, TypeOK
  <2>3. Added(g, buildable) = {} => groupInfos'[g] = groupInfos[g]
    BY <2>2
  <2>. QED BY <2>1, <2>3 DEF Changed
<1>. QED BY <1>1, <1>2 DEF UpdateGroupInfo

LEMMA SweepNotifies ==
    ASSUME TypeOK, CheckNodeStatus
    PROVE  known' = known /\ Changed \subseteq {g \in known : UnreachableNodes(g) # {}}
<1>1. \A g \in Groups : groupInfos'[g] =
         groupInfos[g] \ (IF g \in known THEN UnreachableNodes(g) ELSE {})
  BY DEF CheckNodeStatus
<1>2. known' = known
  BY DEF CheckNodeStatus
<1>. QED BY <1>1, <1>2 DEF Changed

LEMMA HandshakeNext ==
    TypeOK /\ RpcTypeOK /\ HandshakeInv /\ [RpcNext]_rpcAndGroupVars => HandshakeInv'
<1>. SUFFICES ASSUME TypeOK, RpcTypeOK, HandshakeInv, [RpcNext]_rpcAndGroupVars
              PROVE  HandshakeInv'
  OBVIOUS
<1>1. TypeOK'
  BY RpcTypeNext
<1>. USE DEF sessionVars, handshakeVars, blockCalls
<1>2. CASE Start \/ Stop
  BY <1>2, HandshakeStutter DEF Start, Stop, vars
<1>3. ASSUME NEW s \in Sessions, Connect(s) \/ Disconnect(s) \/ Handshake(s)
      PROVE  HandshakeInv'
  BY <1>3, SessionHandshakes
<1>4. ASSUME NEW g \in Groups, NEW nodes \in SUBSET Nodes, NEW buildable \in SUBSET Nodes,
             AsyncNotifyGroupInfo(g, nodes, buildable)
      PROVE  HandshakeInv'
  <2>. DEFINE groups == IF g \notin known \/ Added(g, buildable) # {} THEN {g} ELSE {}
  <2>1. NotifyGroupInfo(groups) /\ Overtake /\ UNCHANGED <<online, handshakeVars>>
    BY <1>4 DEF AsyncNotifyGroupInfo
  <2>2. known' \subseteq known \cup groups /\ Changed \subseteq groups
    BY <1>4, UpdateNotifies DEF AsyncNotifyGroupInfo
  <2>. HIDE DEF groups
  <2>. QED BY <1>1, <2>1, <2>2, NotifyHandshakes
<1>5. CASE SweepGroupInfo
  <2>. DEFINE groups == {g \in known : UnreachableNodes(g) # {}}
  <2>1. NotifyGroupInfo(groups) /\ Overtake /\ UNCHANGED <<online, handshakeVars>>
    BY <1>5 DEF SweepGroupInfo
  <2>2. known' \subseteq known \cup groups /\ Changed \subseteq groups
    BY <1>5, SweepNotifies DEF SweepGroupInfo
  <2>. HIDE DEF groups
  <2>. QED BY <1>1, <2>1, <2>2, NotifyHandshakes
<1>6. ASSUME NEW g \in Groups, NEW n \in Nodes, NEW b \in 0..MaxBlock, TellBlock(g, n, b)
      PROVE  HandshakeInv'
  BY <1>6, HandshakeStutter DEF TellBlock, vars
<1>7. ASSUME NEW c \in notifying, EndNotifyBlock(c) PROVE HandshakeInv'
  <2>1. UNCHANGED <<known, groupInfos>>
    BY <1>7 DEF EndNotifyBlock, RecordBlock, UpdateGroupBlockInfo, serviceVars, vars
  <2>. QED BY <1>7, <2>1, HandshakeStutter DEF EndNotifyBlock
<1>8. CASE SweepBlockInfo
  BY <1>8, HandshakeStutter DEF SweepBlockInfo, RemoveGroupBlockInfo, serviceVars
<1>9. CASE GroupManagerAlone
  <2>1. UNCHANGED <<known, groupInfos>>
    BY <1>9 DEF GroupManagerAlone, RemoveUnreachableNodeService, GetNodeService,
                GetNamedNodeService, SelectNodeByBlockNumber, SelectNodeRandomly,
                QueryNodeService, EndInitializing, NodeReachability, NodeCommit, serviceVars
  <2>. QED BY <1>9, <2>1, HandshakeStutter DEF GroupManagerAlone, rpcVars
<1>10. CASE UNCHANGED rpcAndGroupVars
  BY <1>10, HandshakeStutter DEF rpcAndGroupVars, rpcVars, vars
<1>. QED BY <1>2, <1>3, <1>4, <1>5, <1>6, <1>7, <1>8, <1>9, <1>10 DEF RpcNext

\* An answered session knows every group but those that changed between the reading
\* and the sending of its answer (RpcFactory.cpp:149-172, Rpc.cpp:110-128).
THEOREM StaleOnlyIfOvertakenHolds == RpcSpec => []StaleOnlyIfOvertaken
<1>1. RpcTypeOK /\ HandshakeInv => StaleOnlyIfOvertaken
  BY DEF RpcTypeOK, HandshakeInv, HandshakeOf, StaleOnlyIfOvertaken
<1>. QED BY <1>1, HandshakeInit, HandshakeNext, RpcTypeInit, RpcTypeNext, PTL DEF RpcSpec

----------------------------------------------------------------------------
(***************************************************************************)
(* Blocks: ToldBlockKnown is inductive with the types alone.               *)
(***************************************************************************)
LEMMA ToldInit == RpcInit => ToldBlockKnown
<1>. SUFFICES ASSUME RpcInit PROVE ToldBlockKnown
  OBVIOUS
<1>1. toldBlock = [g \in Groups |-> -1] /\ groupBlocks = [g \in Groups |-> -1]
  BY DEF RpcInit, Init
<1>2. \A g \in Groups : toldBlock[g] = -1 /\ groupBlocks[g] = -1
  BY <1>1
<1>3. ASSUME NEW g \in Groups PROVE toldBlock[g] <= groupBlocks[g]
  <2>1. toldBlock[g] = -1 /\ groupBlocks[g] = -1
    BY <1>2
  <2>. QED BY <2>1
<1>. QED BY <1>3 DEF ToldBlockKnown

\* A call that is through: the group manager has its number, or it is block 0.
LEMMA RecordedBlock ==
    ASSUME TypeOK, RpcTypeOK, NEW c \in notifying, RecordBlock(c)
    PROVE  /\ groupBlocks'[c.group] >= c.block \/ c.block = 0
           /\ \A g \in Groups : groupBlocks'[g] >= groupBlocks[g]
<1>1. /\ c.group \in Groups /\ c.node \in Nodes /\ c.block \in 0..MaxBlock /\ c.block \in Nat
      /\ \A g \in Groups : groupBlocks[g] \in Int
  BY CallTypes, BlockAssumption DEF TypeOK
<1>2. CASE UNCHANGED vars /\ (Expired(c.group, c.block) \/ HasAlready(c.group, c.node, c.block))
  <2>1. groupBlocks' = groupBlocks
    BY <1>2 DEF vars
  <2>. QED BY <1>1, <1>2, <2>1 DEF Expired, HasAlready
<1>3. CASE UpdateGroupBlockInfo(c.group, c.node, c.block)
  <2>1. groupBlocks[c.group] <= c.block
    BY <1>1, <1>3, BlockNews
  <2>2. CASE OldBlockNumber(c.group) < c.block
    <3>1. groupBlocks' = [groupBlocks EXCEPT ![c.group] = c.block]
      BY <1>3, <2>2 DEF UpdateGroupBlockInfo, SetGroupBlock
    <3>. QED BY <1>1, <2>1, <3>1 DEF TypeOK
  <2>3. CASE ~(OldBlockNumber(c.group) < c.block)
    <3>1. groupBlocks' = groupBlocks
      BY <1>3, <2>3 DEF UpdateGroupBlockInfo, SetGroupBlock
    <3>2. groupBlocks[c.group] \in Nat \cup {-1}
      BY <1>1 DEF TypeOK
    <3>. QED BY <1>1, <2>1, <2>3, <3>1, <3>2 DEF OldBlockNumber
  <2>. QED BY <2>2, <2>3
<1>. QED BY <1>2, <1>3 DEF RecordBlock

LEMMA ToldNext ==
    TypeOK /\ RpcTypeOK /\ ToldBlockKnown /\ [RpcNext]_rpcAndGroupVars => ToldBlockKnown'
<1>. SUFFICES ASSUME TypeOK, RpcTypeOK, ToldBlockKnown, [RpcNext]_rpcAndGroupVars
              PROVE  ToldBlockKnown'
  OBVIOUS
<1>. USE DEF sessionVars, handshakeVars, blockCalls
<1>1. \A g \in Groups : groupBlocks[g] \in Int /\ toldBlock[g] \in Int
  BY DEF TypeOK, RpcTypeOK
<1>2. ASSUME UNCHANGED <<groupBlocks, notifying, toldBlock>> PROVE ToldBlockKnown'
  BY <1>2 DEF ToldBlockKnown
<1>3. ASSUME NEW g \in Groups, NEW n \in Nodes, NEW b \in 0..MaxBlock, TellBlock(g, n, b)
      PROVE  ToldBlockKnown'
  <2>. DEFINE c == [group |-> g, node |-> n, block |-> b]
  <2>1. /\ notifying' = notifying \cup {c}
        /\ c.group = g /\ c.block = b
        /\ UNCHANGED groupBlocks
    BY <1>3 DEF TellBlock, vars
  <2>2. \A h \in Groups : toldBlock'[h] = toldBlock[h] \/ (h = g /\ toldBlock'[h] = b)
    BY <1>3 DEF TellBlock, RpcTypeOK
  <2>. HIDE DEF c
  <2>. QED BY <2>1, <2>2 DEF ToldBlockKnown
<1>4. ASSUME NEW c \in notifying, EndNotifyBlock(c) PROVE ToldBlockKnown'
  <2>1. notifying' = notifying \ {c} /\ toldBlock' = toldBlock
    BY <1>4 DEF EndNotifyBlock
  <2>2. /\ groupBlocks'[c.group] >= c.block \/ c.block = 0
        /\ \A g \in Groups : groupBlocks'[g] >= groupBlocks[g]
    BY <1>4, RecordedBlock DEF EndNotifyBlock
  <2>3. \A g \in Groups : groupBlocks'[g] \in Int
    BY RpcTypeNext DEF TypeOK
  <2>. QED BY <1>1, <2>1, <2>2, <2>3 DEF ToldBlockKnown
<1>5. CASE SweepBlockInfo
  <2>1. ASSUME NEW g \in Groups
        PROVE  \/ groupBlocks'[g] = groupBlocks[g] /\ toldBlock'[g] = toldBlock[g]
               \/ groupBlocks'[g] = -1 /\ toldBlock'[g] = -1
    BY <1>5, SweptGroup DEF SweepBlockInfo
  <2>2. notifying' = notifying
    BY <1>5 DEF SweepBlockInfo
  <2>. QED BY <1>1, <2>1, <2>2 DEF ToldBlockKnown
<1>6. CASE Start \/ Stop
  BY <1>2, <1>6 DEF Start, Stop, vars
<1>7. ASSUME NEW s \in Sessions, Connect(s) \/ Disconnect(s) \/ Handshake(s)
      PROVE  ToldBlockKnown'
  BY <1>2, <1>7 DEF Connect, Disconnect, Handshake, ListGroups, ReadInfo, Respond, vars
<1>8. ASSUME NEW g \in Groups, NEW nodes, NEW buildable, AsyncNotifyGroupInfo(g, nodes, buildable)
      PROVE  ToldBlockKnown'
  BY <1>2, <1>8 DEF AsyncNotifyGroupInfo, UpdateGroupInfo, blockVars
<1>9. CASE SweepGroupInfo
  BY <1>2, <1>9 DEF SweepGroupInfo, CheckNodeStatus, blockVars
<1>10. CASE GroupManagerAlone
  <2>1. UNCHANGED groupBlocks
    BY <1>10 DEF GroupManagerAlone, RemoveUnreachableNodeService, GetNodeService,
                 GetNamedNodeService, SelectNodeByBlockNumber, SelectNodeRandomly,
                 QueryNodeService, EndInitializing, NodeReachability, NodeCommit, blockVars
  <2>. QED BY <1>2, <1>10, <2>1 DEF GroupManagerAlone, rpcVars
<1>11. CASE UNCHANGED rpcAndGroupVars
  BY <1>2, <1>11 DEF rpcAndGroupVars, rpcVars, vars
<1>. QED BY <1>3, <1>4, <1>5, <1>6, <1>7, <1>8, <1>9, <1>10, <1>11 DEF RpcNext

\* Once a call of asyncNotifyBlockNumber is through, the group manager knows the block
\* the SDKs were told of or a later one, however calls and sweeps interleave
\* (Rpc.cpp:69-98).
THEOREM ToldBlockKnownHolds == RpcSpec => []ToldBlockKnown
BY ToldInit, ToldNext, RpcTypeInit, RpcTypeNext, PTL DEF RpcSpec
=============================================================================
