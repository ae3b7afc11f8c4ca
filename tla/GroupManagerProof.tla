------------------------- MODULE GroupManagerProof -------------------------
(***************************************************************************)
(* Proofs that the group manager keeps its books together for every number *)
(* of groups, nodes and requests: the invariants of GroupManager and the   *)
(* action property NumberMonotone.                                         *)
(***************************************************************************)
EXTENDS GroupManager, TLAPS

\* Every node recorded to have the group's latest block has it.
NodesHaveNumber ==
    \A g \in Groups : \A n \in latestNodes[g] : blocks[g][n] >= groupBlocks[g]

\* A group of which no notification came has neither nodes nor services.
UnknownEmpty ==
    \A g \in Groups \ known : groupInfos[g] = {} /\ nodeServices[g] = {}

\* A lookup chooses among all nodes only if the group had no block number.
RandomUnasked ==
    \A c \in Clients :
        lookup[c].stage = "query" /\ lookup[c].node = NoNode => lookup[c].asked = -1

\* The inductive invariant.  ChosenIsUpToDate is about the nodes chosen; it needs
\* NodesHaveNumber for those chosen by block number, and RandomUnasked, hence
\* NumberHasNodes, for those chosen at random.
BlockInv == NumberHasNodes /\ NodesHaveNumber
ServiceInv == NoOrphanService /\ UnknownEmpty /\ ClientsInformed
LookupInv == RandomUnasked /\ ChosenIsUpToDate

----------------------------------------------------------------------------
(***************************************************************************)
(* Facts about the operators.                                              *)
(***************************************************************************)

\* The record of a lookup has the type of lookups and the fields it is built from.
LEMMA LookupFields ==
    ASSUME NEW stage \in {"idle", "query", "done"}, NEW g \in Groups,
           NEW n \in Nodes \cup {NoNode}, NEW asked \in Int
    PROVE  /\ Lookup(stage, g, n, asked) \in Lookups
           /\ Lookup(stage, g, n, asked).stage = stage
           /\ Lookup(stage, g, n, asked).group = g
           /\ Lookup(stage, g, n, asked).node = n
           /\ Lookup(stage, g, n, asked).asked = asked
BY DEF Lookup, Lookups

\* A lookup under way, or answered, has a group, a node or none, and a number.
LEMMA LookupTypes ==
    ASSUME NEW l \in Lookups
    PROVE  /\ l.stage \in {"idle", "query", "done"}
           /\ l.group \in Groups
           /\ l.node \in Nodes \cup {NoNode}
           /\ l.asked \in Int
BY DEF Lookups

\* The answer of a lookup changes its stage and its node.
LEMMA LookupAnswer ==
    ASSUME NEW l \in Lookups, NEW n \in Nodes \cup {NoNode}
    PROVE  /\ [l EXCEPT !.stage = "done", !.node = n] \in Lookups
           /\ [l EXCEPT !.stage = "done", !.node = n].stage = "done"
           /\ [l EXCEPT !.stage = "done", !.node = n].node = n
           /\ [l EXCEPT !.stage = "done", !.node = n].group = l.group
           /\ [l EXCEPT !.stage = "done", !.node = n].asked = l.asked
BY DEF Lookups

----------------------------------------------------------------------------
(***************************************************************************)
(* Type correctness.                                                       *)
(***************************************************************************)
LEMMA TypeInit == Init => TypeOK
<1>. SUFFICES ASSUME Init PROVE TypeOK
  OBVIOUS
<1>1. lookup \in [Clients -> Lookups]
  <2>1. PICK g \in Groups : lookup = [c \in Clients |-> Lookup("idle", g, NoNode, -1)]
    BY DEF Init
  <2>. QED BY <2>1, LookupFields
<1>. QED BY <1>1 DEF Init, TypeOK, NoNodes

LEMMA QueriedType ==
    ASSUME NEW g \in Groups, NEW n \in Nodes
    PROVE  Queried(g, n) \in Nodes \cup {NoNode}
BY DEF Queried

\* Starting a lookup keeps the types.
LEMMA LookUpType ==
    ASSUME TypeOK, NEW c \in Clients, NEW stage \in {"idle", "query", "done"},
           NEW g \in Groups, NEW n \in Nodes \cup {NoNode}, NEW asked \in Int, NEW nodes,
           LookUp(c, stage, g, n, asked, nodes)
    PROVE  lookup' \in [Clients -> Lookups] /\ lacked' \subseteq Clients
<1>1. Lookup(stage, g, n, asked) \in Lookups
  BY LookupFields
<1>2. lookup' \in [Clients -> Lookups]
  BY <1>1 DEF LookUp, TypeOK
<1>3. lacked \cup {c} \subseteq Clients /\ lacked \ {c} \subseteq Clients
  BY DEF TypeOK
<1>. QED BY <1>2, <1>3 DEF LookUp

\* A notification that is not dropped: a higher number with its first node, or
\* one more node that has the group's number.
LEMMA BlockNews ==
    ASSUME TypeOK, NEW g \in Groups, NEW n \in Nodes, NEW b \in 0..MaxBlock,
           UpdateGroupBlockInfo(g, n, b)
    PROVE  /\ b \in Nat /\ b <= blocks[g][n] /\ groupBlocks[g] <= b
           /\ \/ /\ groupBlocks' = [groupBlocks EXCEPT ![g] = b]
                 /\ latestNodes' = [latestNodes EXCEPT ![g] = {n}]
              \/ /\ groupBlocks' = groupBlocks
                 /\ latestNodes' = [latestNodes EXCEPT ![g] = @ \cup {n}]
<1>1. b \in Nat /\ groupBlocks[g] \in Int
  BY BlockAssumption DEF TypeOK
<1>. QED BY <1>1 DEF UpdateGroupBlockInfo, Expired, SetGroupBlock

LEMMA TypeNext == TypeOK /\ [Next]_vars => TypeOK'
<1>. SUFFICES ASSUME TypeOK, [Next]_vars PROVE TypeOK'
  OBVIOUS
<1>. USE DEF serviceVars, blockVars, sweepVars, lookupVars, envVars
<1>1. ASSUME NEW g \in Groups, NEW announced \in SUBSET Nodes, NEW buildable \in SUBSET Nodes,
             UpdateGroupInfo(g, announced, buildable)
      PROVE TypeOK'
  <2>1. CASE NewGroup(g, announced)
    BY <1>1, <2>1 DEF TypeOK, UpdateGroupInfo, NewGroup
  <2>2. CASE UpdateNodeServiceWithoutLock(g, buildable)
    <3>1. Added(g, buildable) \subseteq Nodes
      BY DEF Added
    <3>. QED BY <1>1, <2>2, <3>1 DEF TypeOK, UpdateGroupInfo, UpdateNodeServiceWithoutLock
  <2>. QED BY <1>1, <2>1, <2>2 DEF UpdateGroupInfo
<1>2. ASSUME NEW g \in Groups, NEW n \in Nodes, NEW b \in 0..MaxBlock,
             UpdateGroupBlockInfo(g, n, b)
      PROVE TypeOK'
  <2>1. CASE /\ groupBlocks' = [groupBlocks EXCEPT ![g] = b]
             /\ latestNodes' = [latestNodes EXCEPT ![g] = {n}]
    BY <1>2, <2>1, BlockAssumption DEF TypeOK, UpdateGroupBlockInfo
  <2>2. CASE /\ groupBlocks' = groupBlocks
             /\ latestNodes' = [latestNodes EXCEPT ![g] = @ \cup {n}]
    BY <1>2, <2>2 DEF TypeOK, UpdateGroupBlockInfo
  <2>. QED BY <1>2, <2>1, <2>2, BlockNews
<1>3. CASE CheckNodeStatus
  <2>1. \A g \in Groups : UnreachableNodes(g) \subseteq Nodes /\ NotifyRemoved(g) \subseteq Nodes
    BY DEF TypeOK, UnreachableNodes, NotifyRemoved
  <2>2. unreachable' \in [Groups -> SUBSET Nodes] /\ told' \in [Groups -> SUBSET Nodes]
    BY <1>3, <2>1 DEF CheckNodeStatus
  <2>. QED BY <1>3, <2>2 DEF TypeOK, CheckNodeStatus
<1>4. CASE RemoveUnreachableNodeService
  <2>1. lacked' \subseteq Clients
    BY <1>4 DEF TypeOK, RemoveUnreachableNodeService, Lacking
  <2>. QED BY <1>4, <2>1 DEF TypeOK, RemoveUnreachableNodeService
<1>5. CASE RemoveGroupBlockInfo
  <2>1. \A g \in Groups : Remaining(g) \subseteq Nodes /\ RemainingBlock(g) \in Nat \cup {-1}
    BY DEF TypeOK, Remaining, RemainingBlock
  <2>2. latestNodes' \in [Groups -> SUBSET Nodes] /\ groupBlocks' \in [Groups -> Nat \cup {-1}]
    BY <1>5, <2>1 DEF TypeOK, RemoveGroupBlockInfo
  <2>. QED BY <1>5, <2>2 DEF TypeOK, RemoveGroupBlockInfo, NoNodes
<1>6. ASSUME NEW c \in Clients, GetNodeService(c) PROVE TypeOK'
  <2>1. ASSUME NEW g \in Groups, NEW n \in Nodes, GetNamedNodeService(c, g, n) PROVE TypeOK'
    <3>1. LookUp(c, "done", g, Queried(g, n), -1, {n})
      BY <2>1 DEF GetNamedNodeService
    <3>2. lookup' \in [Clients -> Lookups] /\ lacked' \subseteq Clients
      BY <3>1, LookUpType, QueriedType
    <3>. QED BY <2>1, <3>2 DEF TypeOK, GetNamedNodeService
  <2>2. ASSUME NEW g \in Groups, SelectNodeByBlockNumber(c, g) PROVE TypeOK'
    <3>1. PICK n \in latestNodes[g] : LookUp(c, "query", g, n, groupBlocks[g], Nodes)
      BY <2>2 DEF SelectNodeByBlockNumber
    <3>2. n \in Nodes /\ groupBlocks[g] \in Int
      BY DEF TypeOK
    <3>. QED BY <2>2, <3>1, <3>2, LookUpType DEF TypeOK, SelectNodeByBlockNumber
  <2>3. ASSUME NEW g \in Groups, SelectNodeRandomly(c, g) PROVE TypeOK'
    <3>1. groupBlocks[g] \in Int
      BY DEF TypeOK
    <3>. QED BY <2>3, <3>1, LookUpType DEF TypeOK, SelectNodeRandomly
  <2>4. CASE QueryNodeService(c)
    <3>1. PICK n \in Nodes \cup {NoNode} :
            lookup' = [lookup EXCEPT ![c].stage = "done", ![c].node = n]
      BY <2>4, LookupTypes, QueriedType DEF TypeOK, QueryNodeService, RandomNodes
    <3>2. lookup' \in [Clients -> Lookups]
      BY <3>1, LookupAnswer DEF TypeOK
    <3>. QED BY <2>4, <3>2 DEF TypeOK, QueryNodeService
  <2>. QED BY <1>6, <2>1, <2>2, <2>3, <2>4 DEF GetNodeService
<1>7. CASE EndInitializing
  BY <1>7 DEF TypeOK, EndInitializing
<1>8. ASSUME NEW g \in Groups, NEW n \in Nodes, NodeReachability(g, n) PROVE TypeOK'
  BY <1>8 DEF TypeOK, NodeReachability
<1>9. ASSUME NEW g \in Groups, NEW n \in Nodes, NodeCommit(g, n) PROVE TypeOK'
  BY <1>9 DEF TypeOK, NodeCommit
<1>10. CASE UNCHANGED vars
  BY <1>10 DEF TypeOK, vars
<1>. QED BY <1>1, <1>2, <1>3, <1>4, <1>5, <1>6, <1>7, <1>8, <1>9, <1>10
         DEF Next, UpdateGroupStatus

\* Every state of the group manager has the types TypeOK states.
THEOREM GroupTypeCorrect == Spec => []TypeOK
BY TypeInit, TypeNext, PTL DEF Spec

----------------------------------------------------------------------------
(***************************************************************************)
(* The block numbers: NumberHasNodes and NodesHaveNumber are inductive     *)
(* together.  A step changes them by a notification, by the sweep or by a  *)
(* commit of a node.                                                       *)
(***************************************************************************)
LEMMA BlockInit == Init => BlockInv
BY DEF Init, BlockInv, NumberHasNodes, NodesHaveNumber, NoNodes

\* What the sweep leaves of a group's block number and nodes.
LEMMA SweptGroup ==
    ASSUME RemoveGroupBlockInfo, NEW g \in Groups
    PROVE  \/ latestNodes'[g] = latestNodes[g] /\ groupBlocks'[g] = groupBlocks[g]
           \/ latestNodes'[g] = {} /\ groupBlocks'[g] = -1
              /\ (groupBlocks[g] # -1 => latestNodes[g] \subseteq unreachable[g])
           \/ latestNodes'[g] = latestNodes[g] \ unreachable[g] /\ latestNodes'[g] # {}
              /\ groupBlocks'[g] = groupBlocks[g]
BY DEF RemoveGroupBlockInfo, Remaining, RemainingBlock

\* The steps that write the block numbers, under x_groupBlockInfos, are two.
LEMMA BlockSteps ==
    ASSUME [Next]_vars
    PROVE  \/ \E g \in Groups, n \in Nodes, b \in 0..MaxBlock : UpdateGroupBlockInfo(g, n, b)
           \/ RemoveGroupBlockInfo
           \/ UNCHANGED blockVars /\ \E g \in Groups, n \in Nodes : NodeCommit(g, n)
           \/ UNCHANGED <<blockVars, blocks>>
<1>. USE DEF envVars, lookupVars
<1>1. ASSUME NEW g \in Groups, NEW announced, NEW buildable,
             UpdateGroupInfo(g, announced, buildable)
      PROVE UNCHANGED <<blockVars, blocks>>
  BY <1>1 DEF UpdateGroupInfo
<1>2. CASE CheckNodeStatus \/ RemoveUnreachableNodeService \/ EndInitializing
  BY <1>2 DEF CheckNodeStatus, RemoveUnreachableNodeService, EndInitializing
<1>3. ASSUME NEW c \in Clients, GetNodeService(c) PROVE UNCHANGED <<blockVars, blocks>>
  BY <1>3 DEF GetNodeService, GetNamedNodeService, SelectNodeByBlockNumber,
              SelectNodeRandomly, QueryNodeService
<1>4. ASSUME NEW g \in Groups, NEW n \in Nodes, NodeReachability(g, n)
      PROVE UNCHANGED <<blockVars, blocks>>
  BY <1>4 DEF NodeReachability
<1>5. ASSUME NEW g \in Groups, NEW n \in Nodes, NodeCommit(g, n) PROVE UNCHANGED blockVars
  BY <1>5 DEF NodeCommit
<1>6. CASE UNCHANGED vars
  BY <1>6 DEF vars, blockVars
<1>. QED BY <1>1, <1>2, <1>3, <1>4, <1>5, <1>6 DEF Next, UpdateGroupStatus

LEMMA BlockNext == TypeOK /\ BlockInv /\ [Next]_vars => BlockInv'
<1>. SUFFICES ASSUME TypeOK, BlockInv, [Next]_vars PROVE BlockInv'
  OBVIOUS
<1>. USE DEF serviceVars, blockVars, sweepVars, lookupVars, envVars
<1>. USE DEF BlockInv, NumberHasNodes, NodesHaveNumber
<1>1. ASSUME NEW g \in Groups, NEW n \in Nodes, NEW b \in 0..MaxBlock,
             UpdateGroupBlockInfo(g, n, b)
      PROVE BlockInv'
  <2>1. blocks' = blocks /\ b \in Nat /\ b <= blocks[g][n] /\ groupBlocks[g] <= b
    BY <1>1, BlockNews DEF UpdateGroupBlockInfo
  <2>2. CASE /\ groupBlocks' = [groupBlocks EXCEPT ![g] = b]
             /\ latestNodes' = [latestNodes EXCEPT ![g] = {n}]
    BY <2>1, <2>2 DEF TypeOK
  <2>3. CASE /\ groupBlocks' = groupBlocks
             /\ latestNodes' = [latestNodes EXCEPT ![g] = @ \cup {n}]
    <3>1. groupBlocks[g] <= blocks[g][n]
      BY <2>1 DEF TypeOK
    <3>. QED BY <2>1, <2>3, <3>1 DEF TypeOK
  <2>. QED BY <1>1, <2>2, <2>3, BlockNews
<1>2. CASE RemoveGroupBlockInfo
  <2>1. ASSUME NEW g \in Groups
        PROVE  /\ groupBlocks'[g] # -1 => latestNodes'[g] # {}
               /\ \A n \in latestNodes'[g] : blocks'[g][n] >= groupBlocks'[g]
    BY <1>2, SweptGroup DEF RemoveGroupBlockInfo
  <2>. QED BY <2>1
<1>3. ASSUME NEW g \in Groups, NEW n \in Nodes, NodeCommit(g, n) PROVE BlockInv'
  <2>1. \A h \in Groups, m \in Nodes :
           blocks'[h][m] >= blocks[h][m] /\ blocks[h][m] \in Nat /\ blocks'[h][m] \in Nat
    BY <1>3 DEF NodeCommit, TypeOK
  <2>2. ASSUME NEW h \in Groups, NEW m \in latestNodes[h]
        PROVE blocks'[h][m] >= groupBlocks[h]
    <3>1. m \in Nodes /\ groupBlocks[h] \in Int /\ blocks[h][m] >= groupBlocks[h]
      BY DEF TypeOK
    <3>. QED BY <2>1, <3>1
  <2>. QED BY <1>3, <2>2 DEF NodeCommit
<1>4. CASE UNCHANGED <<latestNodes, groupBlocks, blocks>>
  BY <1>4
<1>. QED BY <1>1, <1>2, <1>3, <1>4, BlockSteps

\* A group has a number only while some node is recorded to have the block, for
\* every number of groups and nodes.
THEOREM NumberHasNodesHolds == Spec => []NumberHasNodes
<1>1. BlockInv => NumberHasNodes
  BY DEF BlockInv
<1>. QED BY <1>1, BlockInit, BlockNext, TypeInit, TypeNext, PTL DEF Spec

\* A group's number only grows, but for the sweep that forgets it.
LEMMA MonotoneStep ==
    ASSUME TypeOK, [Next]_vars, NEW g \in Groups, groupBlocks'[g] < groupBlocks[g]
    PROVE  groupBlocks'[g] = -1 /\ latestNodes[g] \subseteq unreachable[g]
<1>1. ASSUME NEW h \in Groups, NEW n \in Nodes, NEW b \in 0..MaxBlock,
             UpdateGroupBlockInfo(h, n, b)
      PROVE  FALSE
  <2>1. groupBlocks[g] \in Int /\ groupBlocks[h] \in Int /\ b \in Int /\ groupBlocks[h] <= b
    BY <1>1, BlockNews DEF TypeOK
  <2>2. CASE groupBlocks' = [groupBlocks EXCEPT ![h] = b]
    BY <2>1, <2>2 DEF TypeOK
  <2>3. CASE groupBlocks' = groupBlocks
    BY <2>1, <2>3
  <2>. QED BY <1>1, <2>2, <2>3, BlockNews
<1>2. CASE RemoveGroupBlockInfo
  <2>1. groupBlocks[g] \in Int
    BY DEF TypeOK
  <2>. QED BY <1>2, <2>1, SweptGroup
<1>3. CASE UNCHANGED groupBlocks
  BY <1>3 DEF TypeOK
<1>. QED BY <1>1, <1>2, <1>3, BlockSteps DEF blockVars

\* getBlockNumberByGroup never goes back, but for the sweep that forgets the number
\* when every node that has the block is unreachable.
THEOREM NumberMonotoneHolds == Spec => NumberMonotone
<1>1. TypeOK /\ [Next]_vars =>
        [\A g \in Groups : groupBlocks'[g] < groupBlocks[g] =>
            /\ groupBlocks'[g] = -1
            /\ latestNodes[g] \subseteq unreachable[g]]_vars
  BY MonotoneStep
<1>. QED BY <1>1, TypeInit, TypeNext, PTL DEF Spec, NumberMonotone

----------------------------------------------------------------------------
(***************************************************************************)
(* The services: no orphans, and the SDKs know the groups' nodes.          *)
(***************************************************************************)
LEMMA ServiceInit == Init => ServiceInv
BY DEF Init, ServiceInv, NoOrphanService, UnknownEmpty, ClientsInformed, NoNodes

\* The steps that write the services or what the sweep found are four.
LEMMA ServiceSteps ==
    ASSUME [Next]_vars
    PROVE  \/ \E g \in Groups, announced, buildable \in SUBSET Nodes :
                UpdateGroupInfo(g, announced, buildable)
           \/ UpdateGroupStatus
           \/ UNCHANGED <<serviceVars, sweep, unreachable>>
<1>. USE DEF serviceVars, sweepVars
<1>1. ASSUME NEW g \in Groups, NEW n \in Nodes, NEW b \in 0..MaxBlock,
             UpdateGroupBlockInfo(g, n, b)
      PROVE UNCHANGED <<serviceVars, sweep, unreachable>>
  BY <1>1 DEF UpdateGroupBlockInfo
<1>2. ASSUME NEW c \in Clients, GetNodeService(c)
      PROVE UNCHANGED <<serviceVars, sweep, unreachable>>
  BY <1>2 DEF GetNodeService, GetNamedNodeService, SelectNodeByBlockNumber,
              SelectNodeRandomly, QueryNodeService
<1>3. ASSUME NEW g \in Groups, NEW n \in Nodes, NodeReachability(g, n) \/ NodeCommit(g, n)
      PROVE UNCHANGED <<serviceVars, sweep, unreachable>>
  BY <1>3 DEF NodeReachability, NodeCommit
<1>4. CASE EndInitializing \/ UNCHANGED vars
  BY <1>4 DEF EndInitializing, vars
<1>. QED BY <1>1, <1>2, <1>3, <1>4 DEF Next

LEMMA ServiceNext == TypeOK /\ ServiceInv /\ [Next]_vars => ServiceInv'
<1>. SUFFICES ASSUME TypeOK, ServiceInv, [Next]_vars PROVE ServiceInv'
  OBVIOUS
<1>. USE DEF serviceVars, sweepVars
<1>. USE DEF ServiceInv, NoOrphanService, UnknownEmpty, ClientsInformed
<1>1. ASSUME NEW g \in Groups, NEW announced \in SUBSET Nodes, NEW buildable \in SUBSET Nodes,
             UpdateGroupInfo(g, announced, buildable)
      PROVE ServiceInv'
  <2>1. CASE NewGroup(g, announced)
    <3>1. known' \subseteq Groups /\ sweep' = sweep /\ unreachable' = unreachable
      BY <1>1, <2>1 DEF UpdateGroupInfo, NewGroup, TypeOK
    <3>. QED BY <2>1, <3>1 DEF NewGroup, TypeOK
  <2>2. CASE UpdateNodeServiceWithoutLock(g, buildable)
    <3>1. sweep' = sweep /\ unreachable' = unreachable /\ known' = known /\ g \in known
      BY <1>1, <2>2 DEF UpdateGroupInfo, UpdateNodeServiceWithoutLock
    <3>2. NoOrphanService'
      BY <2>2, <3>1 DEF UpdateNodeServiceWithoutLock, TypeOK
    <3>3. UnknownEmpty'
      BY <2>2, <3>1 DEF UpdateNodeServiceWithoutLock, TypeOK
    <3>4. ClientsInformed'
      BY <2>2, <3>1 DEF UpdateNodeServiceWithoutLock, TypeOK
    <3>. QED BY <3>2, <3>3, <3>4
  <2>. QED BY <1>1, <2>1, <2>2 DEF UpdateGroupInfo
<1>2. CASE CheckNodeStatus
  <2>1. \A g \in Groups : g \notin known => UnreachableNodes(g) = {}
    BY DEF UnreachableNodes
  <2>. QED BY <1>2, <2>1 DEF CheckNodeStatus, NotifyRemoved, TypeOK
<1>3. CASE RemoveUnreachableNodeService
  BY <1>3 DEF RemoveUnreachableNodeService, TypeOK
<1>4. CASE RemoveGroupBlockInfo
  BY <1>4 DEF RemoveGroupBlockInfo
<1>5. CASE UNCHANGED <<serviceVars, sweep, unreachable>>
  BY <1>5
<1>. QED BY <1>1, <1>2, <1>3, <1>4, <1>5, ServiceSteps DEF UpdateGroupStatus

\* Every service belongs to a listed node or is about to be removed by the sweep.
THEOREM NoOrphanServiceHolds == Spec => []NoOrphanService
<1>1. ServiceInv => NoOrphanService
  BY DEF ServiceInv
<1>. QED BY <1>1, ServiceInit, ServiceNext, TypeInit, TypeNext, PTL DEF Spec

\* What the SDKs were sent last on a group is the present list of its nodes.
THEOREM ClientsInformedHolds == Spec => []ClientsInformed
<1>1. ServiceInv => ClientsInformed
  BY DEF ServiceInv
<1>. QED BY <1>1, ServiceInit, ServiceNext, TypeInit, TypeNext, PTL DEF Spec

----------------------------------------------------------------------------
(***************************************************************************)
(* The lookups: a chosen node is not behind the number it was chosen for.  *)
(***************************************************************************)
LEMMA LookupInit == Init => LookupInv
<1>. SUFFICES ASSUME Init PROVE LookupInv
  OBVIOUS
<1>1. PICK g \in Groups : lookup = [c \in Clients |-> Lookup("idle", g, NoNode, -1)]
  BY DEF Init
<1>2. \A c \in Clients : lookup[c].stage = "idle" /\ lookup[c].node = NoNode
  BY <1>1, LookupFields
<1>. QED BY <1>2 DEF LookupInv, RandomUnasked, ChosenIsUpToDate

\* What the two parts of LookupInv say of one lookup.
Sound(l) ==
    /\ l.stage = "query" /\ l.node = NoNode => l.asked = -1
    /\ l.stage # "idle" /\ l.node # NoNode => blocks[l.group][l.node] >= l.asked

LEMMA LookupInvSound == LookupInv <=> \A c \in Clients : Sound(lookup[c])
BY DEF LookupInv, RandomUnasked, ChosenIsUpToDate, Sound

\* A lookup that starts as it should leaves every lookup sound.
LEMMA LookUpSound ==
    ASSUME TypeOK, LookupInv, NEW c \in Clients, NEW stage \in {"idle", "query", "done"},
           NEW g \in Groups, NEW n \in Nodes \cup {NoNode}, NEW asked \in Int, NEW nodes,
           LookUp(c, stage, g, n, asked, nodes), UNCHANGED blocks,
           n = NoNode => asked = -1, n # NoNode => blocks[g][n] >= asked
    PROVE  LookupInv'
<1>1. Sound(lookup[c])'
  <2>1. lookup'[c] = Lookup(stage, g, n, asked)
    BY DEF LookUp, TypeOK
  <2>2. /\ lookup'[c].group = g /\ lookup'[c].node = n
        /\ lookup'[c].asked = asked
    BY <2>1, LookupFields
  <2>. QED BY <2>2 DEF Sound
<1>2. \A d \in Clients \ {c} : lookup'[d] = lookup[d]
  BY DEF LookUp, TypeOK
<1>3. \A d \in Clients \ {c} : Sound(lookup[d])'
  BY <1>2, LookupInvSound DEF Sound
<1>4. \A d \in Clients : Sound(lookup[d])'
  BY <1>1, <1>3
<1>. QED BY <1>4 DEF LookupInv, RandomUnasked, ChosenIsUpToDate, Sound

\* The steps that write the lookups or the nodes' chains.
LEMMA LookupSteps ==
    ASSUME [Next]_vars
    PROVE  \/ \E c \in Clients, g \in Groups, n \in Nodes : GetNamedNodeService(c, g, n)
           \/ \E c \in Clients, g \in Groups : SelectNodeByBlockNumber(c, g)
           \/ \E c \in Clients, g \in Groups : SelectNodeRandomly(c, g)
           \/ \E c \in Clients : QueryNodeService(c)
           \/ \E g \in Groups, n \in Nodes : NodeCommit(g, n)
           \/ UNCHANGED <<lookup, blocks>>
<1>. USE DEF lookupVars, envVars
<1>1. ASSUME NEW g \in Groups, NEW announced, NEW buildable,
             UpdateGroupInfo(g, announced, buildable)
      PROVE UNCHANGED <<lookup, blocks>>
  BY <1>1 DEF UpdateGroupInfo
<1>2. ASSUME NEW g \in Groups, NEW n \in Nodes, NEW b, UpdateGroupBlockInfo(g, n, b)
      PROVE UNCHANGED <<lookup, blocks>>
  BY <1>2 DEF UpdateGroupBlockInfo
<1>3. CASE UpdateGroupStatus
  BY <1>3 DEF UpdateGroupStatus, CheckNodeStatus, RemoveUnreachableNodeService,
              RemoveGroupBlockInfo
<1>4. ASSUME NEW g \in Groups, NEW n \in Nodes, NodeReachability(g, n)
      PROVE UNCHANGED <<lookup, blocks>>
  BY <1>4 DEF NodeReachability
<1>5. CASE EndInitializing \/ UNCHANGED vars
  BY <1>5 DEF EndInitializing, vars
<1>. QED BY <1>1, <1>2, <1>3, <1>4, <1>5 DEF Next, GetNodeService

LEMMA LookupNext == TypeOK /\ BlockInv /\ LookupInv /\ [Next]_vars => LookupInv'
<1>. SUFFICES ASSUME TypeOK, BlockInv, LookupInv, [Next]_vars PROVE LookupInv'
  OBVIOUS
<1>. USE DEF lookupVars, envVars
<1>1. ASSUME NEW c \in Clients, NEW g \in Groups, NEW n \in Nodes, GetNamedNodeService(c, g, n)
      PROVE LookupInv'
  <2>1. LookUp(c, "done", g, Queried(g, n), -1, {n}) /\ UNCHANGED blocks
    BY <1>1 DEF GetNamedNodeService
  <2>2. Queried(g, n) # NoNode => blocks[g][Queried(g, n)] >= -1
    BY DEF Queried, TypeOK
  <2>. QED BY <2>1, <2>2, QueriedType, LookUpSound
<1>2. ASSUME NEW c \in Clients, NEW g \in Groups, SelectNodeByBlockNumber(c, g)
      PROVE LookupInv'
  <2>1. PICK n \in latestNodes[g] : LookUp(c, "query", g, n, groupBlocks[g], Nodes)
    BY <1>2 DEF SelectNodeByBlockNumber
  <2>2. n \in Nodes /\ n # NoNode /\ groupBlocks[g] \in Int /\ UNCHANGED blocks
    BY <1>2, NodesAssumption DEF TypeOK, SelectNodeByBlockNumber
  <2>3. blocks[g][n] >= groupBlocks[g]
    BY DEF BlockInv, NodesHaveNumber
  <2>. QED BY <2>1, <2>2, <2>3, LookUpSound
<1>3. ASSUME NEW c \in Clients, NEW g \in Groups, SelectNodeRandomly(c, g)
      PROVE LookupInv'
  <2>1. LookUp(c, "query", g, NoNode, groupBlocks[g], Nodes) /\ UNCHANGED blocks
    BY <1>3 DEF SelectNodeRandomly
  <2>2. groupBlocks[g] = -1
    BY <1>3 DEF SelectNodeRandomly, BlockInv, NumberHasNodes
  <2>. QED BY <2>1, <2>2, LookUpSound
<1>4. ASSUME NEW c \in Clients, QueryNodeService(c) PROVE LookupInv'
  <2>. DEFINE l == lookup[c]
  <2>1. l \in Lookups /\ l.stage = "query" /\ Sound(l) /\ UNCHANGED blocks
    BY <1>4, LookupInvSound DEF TypeOK, QueryNodeService
  <2>2. PICK n \in IF l.node = NoNode THEN RandomNodes(l.group) ELSE {Queried(l.group, l.node)} :
          lookup' = [lookup EXCEPT ![c].stage = "done", ![c].node = n]
    BY <1>4 DEF QueryNodeService
  <2>3. n \in Nodes \cup {NoNode} /\ (l.node = NoNode \/ n \in {l.node, NoNode})
    BY <2>1, LookupTypes, QueriedType DEF TypeOK, RandomNodes, Queried
  <2>4. n # NoNode => blocks[l.group][n] >= l.asked
    <3>1. CASE l.node = NoNode
      BY <2>1, <2>3, <3>1, LookupTypes DEF Sound, TypeOK
    <3>2. CASE l.node # NoNode
      BY <2>1, <2>3, <3>2 DEF Sound
    <3>. QED BY <3>1, <3>2
  <2>5. lookup'[c] = [l EXCEPT !.stage = "done", !.node = n]
    BY <2>2 DEF TypeOK
  <2>6. Sound(lookup[c])'
    <3>1. /\ lookup'[c].stage = "done" /\ lookup'[c].node = n
          /\ lookup'[c].group = l.group /\ lookup'[c].asked = l.asked
      <4>. DEFINE k == [l EXCEPT !.stage = "done", !.node = n]
      <4>1. l \in Lookups /\ n \in Nodes \cup {NoNode}
        BY <2>1, <2>3
      <4>2. k.stage = "done" /\ k.node = n /\ k.group = l.group /\ k.asked = l.asked
        BY <4>1, LookupAnswer
      <4>3. lookup'[c] = k
        BY <2>5
      <4>. HIDE DEF k
      <4>. QED BY <4>2, <4>3
    <3>. QED BY <2>1, <2>4, <3>1 DEF Sound
  <2>7. \A d \in Clients \ {c} : lookup'[d] = lookup[d]
    BY <2>2 DEF TypeOK
  <2>8. \A d \in Clients : Sound(lookup[d])'
    BY <2>1, <2>6, <2>7, LookupInvSound DEF Sound
  <2>. QED BY <2>8 DEF LookupInv, RandomUnasked, ChosenIsUpToDate, Sound
<1>5. ASSUME UNCHANGED lookup,
             \A g \in Groups, n \in Nodes :
                blocks'[g][n] \in Int /\ blocks'[g][n] >= blocks[g][n]
      PROVE LookupInv'
  <2>1. ASSUME NEW c \in Clients PROVE Sound(lookup[c])'
    <3>1. lookup[c] \in Lookups /\ Sound(lookup[c])
      BY LookupInvSound DEF TypeOK
    <3>2. lookup'[c] = lookup[c]
      BY <1>5
    <3>3. CASE lookup[c].stage # "idle" /\ lookup[c].node # NoNode
      <4>1. /\ lookup[c].group \in Groups /\ lookup[c].node \in Nodes /\ lookup[c].asked \in Int
            /\ blocks[lookup[c].group][lookup[c].node] \in Int
        BY <3>1, <3>3, LookupTypes DEF TypeOK
      <4>. QED BY <1>5, <3>1, <3>2, <3>3, <4>1 DEF Sound
    <3>. QED BY <3>1, <3>2, <3>3 DEF Sound
  <2>. QED BY <2>1 DEF LookupInv, RandomUnasked, ChosenIsUpToDate, Sound
<1>6. ASSUME NEW g \in Groups, NEW n \in Nodes, NodeCommit(g, n) PROVE LookupInv'
  <2>1. \A h \in Groups, m \in Nodes :
           blocks'[h][m] \in Int /\ blocks'[h][m] >= blocks[h][m]
    BY <1>6 DEF NodeCommit, TypeOK
  <2>. QED BY <1>5, <1>6, <2>1 DEF NodeCommit
<1>7. CASE UNCHANGED <<lookup, blocks>>
  BY <1>5, <1>7 DEF TypeOK
<1>. QED BY <1>1, <1>2, <1>3, <1>4, <1>6, <1>7, LookupSteps

\* The node getNodeService chooses is not behind the number the group was known to
\* have, in whatever order notifications, sweeps and lookups interleave.
THEOREM ChosenIsUpToDateHolds == Spec => []ChosenIsUpToDate
<1>1. LookupInv => ChosenIsUpToDate
  BY DEF LookupInv
<1>. QED BY <1>1, LookupInit, LookupNext, BlockInit, BlockNext, TypeInit, TypeNext, PTL DEF Spec

\* A lookup is answered by its second lock section, or at once if it names its node.
LEMMA AnswerSteps ==
    ASSUME TypeOK, [Next]_vars, NEW c \in Clients,
           lookup[c].stage = "query", lookup'[c].stage = "done"
    PROVE  QueryNodeService(c)
<1>1. lookup[c] \in Lookups
  BY DEF TypeOK
<1>2. ASSUME NEW d \in Clients, NEW g \in Groups, NEW n \in Nodes \cup {NoNode},
             NEW stage, NEW asked, NEW nodes, LookUp(d, stage, g, n, asked, nodes),
             lookup[d].stage # "query"
      PROVE  FALSE
  <2>1. d # c
    BY <1>2
  <2>2. lookup'[c] = lookup[c]
    BY <1>2, <2>1 DEF LookUp, TypeOK
  <2>. QED BY <2>2
<1>3. ASSUME NEW d \in Clients, NEW g \in Groups, NEW n \in Nodes, GetNamedNodeService(d, g, n)
      PROVE  FALSE
  BY <1>2, <1>3, QueriedType DEF GetNamedNodeService
<1>4. ASSUME NEW d \in Clients, NEW g \in Groups, SelectNodeByBlockNumber(d, g) PROVE FALSE
  <2>1. PICK n \in latestNodes[g] : LookUp(d, "query", g, n, groupBlocks[g], Nodes)
    BY <1>4 DEF SelectNodeByBlockNumber
  <2>2. n \in Nodes
    BY DEF TypeOK
  <2>. QED BY <1>2, <1>4, <2>1, <2>2 DEF SelectNodeByBlockNumber
<1>5. ASSUME NEW d \in Clients, NEW g \in Groups, SelectNodeRandomly(d, g) PROVE FALSE
  BY <1>2, <1>5 DEF SelectNodeRandomly
<1>6. ASSUME NEW d \in Clients, QueryNodeService(d), d # c PROVE FALSE
  <2>1. PICK n : lookup' = [lookup EXCEPT ![d].stage = "done", ![d].node = n]
    BY <1>6 DEF QueryNodeService
  <2>2. lookup'[c] = lookup[c]
    BY <1>6, <2>1 DEF TypeOK
  <2>. QED BY <2>2
<1>7. ASSUME NEW g \in Groups, NEW n \in Nodes, NodeCommit(g, n) PROVE lookup' = lookup
  BY <1>7 DEF NodeCommit, lookupVars
<1>. QED BY <1>3, <1>4, <1>5, <1>6, <1>7, LookupSteps

\* selectNodeRandomly finds none only if no listed node has a service.
LEMMA RandomFindsNone ==
    ASSUME TypeOK, NEW g \in Groups, NoNode \in RandomNodes(g)
    PROVE  groupInfos[g] \cap nodeServices[g] = {}
BY NodesAssumption DEF RandomNodes, TypeOK

LEMMA RandomRefusedStep ==
    ASSUME TypeOK, ServiceInv, [Next]_vars, NEW c \in Clients,
           lookup[c].stage = "query", lookup[c].node = NoNode,
           lookup'[c].stage = "done", lookup'[c].node = NoNode,
           NEW n \in nodeServices[lookup[c].group]
    PROVE  sweep = "services" /\ n \in unreachable[lookup[c].group]
<1>. DEFINE l == lookup[c]
<1>1. l \in Lookups /\ l.group \in Groups
  BY LookupTypes DEF TypeOK
<1>2. PICK m \in RandomNodes(l.group) :
        lookup' = [lookup EXCEPT ![c].stage = "done", ![c].node = m]
  BY AnswerSteps DEF QueryNodeService
<1>3. m \in Nodes \cup {NoNode}
  BY <1>1 DEF RandomNodes, TypeOK
<1>4. lookup'[c] = [l EXCEPT !.stage = "done", !.node = m]
  BY <1>2 DEF TypeOK
<1>5. lookup'[c].node = m
  <2>. DEFINE k == [l EXCEPT !.stage = "done", !.node = m]
  <2>1. k.node = m
    BY <1>1, <1>3, LookupAnswer
  <2>2. lookup'[c] = k
    BY <1>4
  <2>. HIDE DEF k
  <2>. QED BY <2>1, <2>2
<1>6. groupInfos[l.group] \cap nodeServices[l.group] = {}
  BY <1>1, <1>2, <1>5, RandomFindsNone
<1>. QED BY <1>1, <1>6 DEF ServiceInv, NoOrphanService

\* A request that prefers no node is refused only when the sweep is about to remove
\* every service the group has, however notifications and sweeps interleave with it.
THEOREM RandomRefusedExplainedHolds == Spec => RandomRefusedExplained
<1>1. TypeOK /\ ServiceInv /\ [Next]_vars =>
        [\A c \in Clients :
            /\ lookup[c].stage = "query" /\ lookup[c].node = NoNode
            /\ lookup'[c].stage = "done" /\ lookup'[c].node = NoNode
            => \A n \in nodeServices[lookup[c].group] :
                  sweep = "services" /\ n \in unreachable[lookup[c].group]]_vars
  BY RandomRefusedStep
<1>. QED BY <1>1, ServiceInit, ServiceNext, TypeInit, TypeNext, PTL
         DEF Spec, RandomRefusedExplained

----------------------------------------------------------------------------
(***************************************************************************)
(* The service of a node that stays unreachable is removed.  Were it never *)
(* removed again, the sweep would come to its start with the node listed   *)
(* and unreachable, find it, and remove it in its next section.            *)
(***************************************************************************)

\* What the sweep is about to do: look for unreachable nodes, or remove those found,
\* n of g among them or not.
AtSweep(stage) == sweep = stage
Found(g, n) == sweep = "services" /\ n \in unreachable[g]
Missed(g, n) == sweep = "services" /\ n \notin unreachable[g]

\* The service of n is there, and n is unreachable.
Lingers(g, n) == n \notin reachable[g] /\ n \in nodeServices[g]

\* A node with a service and without a sweep about to remove it is found by the next one.
LEMMA LingeringFound ==
    ASSUME TypeOK, ServiceInv, NEW g \in Groups, NEW n \in Nodes, Lingers(g, n), sweep = "idle"
    PROVE  g \in known /\ n \in UnreachableNodes(g)
BY DEF ServiceInv, NoOrphanService, UnknownEmpty, Lingers, UnreachableNodes, TypeOK

\* A section of the sweep brings it one stage further.
LEMMA SweepAdvances ==
    ASSUME TypeOK, ServiceInv, NEW g \in Groups, NEW n \in Nodes, Lingers(g, n),
           UpdateGroupStatus, Lingers(g, n)'
    PROVE  /\ ~Found(g, n)
           /\ AtSweep("idle") => Found(g, n)'
           /\ AtSweep("blocks") => AtSweep("idle")'
           /\ Missed(g, n) => AtSweep("blocks")'
<1>1. CASE CheckNodeStatus
  <2>1. unreachable'[g] = UnreachableNodes(g)
    BY <1>1, LingeringFound DEF CheckNodeStatus
  <2>. QED BY <1>1, <2>1, LingeringFound DEF CheckNodeStatus, Found, Missed, AtSweep
<1>2. CASE RemoveUnreachableNodeService
  BY <1>2 DEF RemoveUnreachableNodeService, Found, Missed, AtSweep, Lingers
<1>3. CASE RemoveGroupBlockInfo
  BY <1>3 DEF RemoveGroupBlockInfo, Found, Missed, AtSweep
<1>. QED BY <1>1, <1>2, <1>3 DEF UpdateGroupStatus

\* Only its own sections change the stage of the sweep.
LEMMA SweepStays ==
    ASSUME [Next]_vars, ~UpdateGroupStatus
    PROVE  UNCHANGED <<sweep, unreachable>>
BY ServiceSteps DEF UpdateGroupInfo, sweepVars

\* The time of initialisation ends once.
LEMMA InitializingEnds ==
    ASSUME [Next]_vars, ~initializing
    PROVE  ~initializing'
<1>. USE DEF sweepVars
<1>1. ASSUME NEW g \in Groups, NEW announced, NEW buildable,
             UpdateGroupInfo(g, announced, buildable)
      PROVE UNCHANGED initializing
  BY <1>1 DEF UpdateGroupInfo
<1>2. ASSUME NEW g \in Groups, NEW n \in Nodes, NEW b, UpdateGroupBlockInfo(g, n, b)
      PROVE UNCHANGED initializing
  BY <1>2 DEF UpdateGroupBlockInfo
<1>3. CASE UpdateGroupStatus
  BY <1>3 DEF UpdateGroupStatus, CheckNodeStatus, RemoveUnreachableNodeService,
              RemoveGroupBlockInfo
<1>4. ASSUME NEW c \in Clients, GetNodeService(c) PROVE UNCHANGED initializing
  BY <1>4 DEF GetNodeService, GetNamedNodeService, SelectNodeByBlockNumber,
              SelectNodeRandomly, QueryNodeService
<1>5. ASSUME NEW g \in Groups, NEW n \in Nodes, NodeReachability(g, n) \/ NodeCommit(g, n)
      PROVE UNCHANGED initializing
  BY <1>5 DEF NodeReachability, NodeCommit
<1>6. CASE EndInitializing \/ UNCHANGED vars
  BY <1>6 DEF EndInitializing, vars
<1>. QED BY <1>1, <1>2, <1>3, <1>4, <1>5, <1>6 DEF Next

\* What tlapm, which cannot expand ENABLED, is given: the guards of the start-up delay's
\* end and of the sweep's sections say when these can be taken.
SweepPossible ==
    /\ initializing => ENABLED <<EndInitializing>>_vars
    /\ sweep # "idle" \/ (~initializing /\ \E g \in known : UnreachableNodes(g) # {}) =>
         ENABLED <<UpdateGroupStatus>>_vars

LEMMA LingeringRemoved ==
    ASSUME NEW g \in Groups, NEW n \in Nodes
    PROVE  FairSpec /\ []SweepPossible =>
             (<>[](n \notin reachable[g]) => []<>(n \notin nodeServices[g]))
<1>. DEFINE SInv == TypeOK /\ ServiceInv
<1>1. Spec => []SInv
  BY ServiceInit, ServiceNext, TypeInit, TypeNext, PTL DEF Spec
<1>2. ~initializing /\ [Next]_vars => ~initializing'
  BY InitializingEnds
<1>3. initializing /\ <<EndInitializing>>_vars => ~initializing'
  BY DEF EndInitializing
<1>4. SweepPossible /\ initializing => ENABLED <<EndInitializing>>_vars
  BY DEF SweepPossible
<1>5. SInv => AtSweep("idle") \/ AtSweep("blocks") \/ Found(g, n) \/ Missed(g, n)
  BY DEF TypeOK, AtSweep, Found, Missed
<1>6. SInv /\ SweepPossible /\ Lingers(g, n) /\ ~initializing => ENABLED <<UpdateGroupStatus>>_vars
  BY LingeringFound DEF SweepPossible
<1>7. ASSUME SInv, Lingers(g, n), UpdateGroupStatus, Lingers(g, n)'
      PROVE  /\ ~Found(g, n)
             /\ AtSweep("idle") => Found(g, n)'
             /\ AtSweep("blocks") => AtSweep("idle")'
             /\ Missed(g, n) => AtSweep("blocks")'
  BY <1>7, SweepAdvances
<1>8. SInv /\ Lingers(g, n) /\ <<UpdateGroupStatus>>_vars /\ Lingers(g, n)' =>
        /\ ~Found(g, n)
        /\ AtSweep("idle") => Found(g, n)'
        /\ AtSweep("blocks") => AtSweep("idle")'
        /\ Missed(g, n) => AtSweep("blocks")'
  BY <1>7
<1>9. SInv /\ Lingers(g, n) /\ [Next]_vars /\ Lingers(g, n)' =>
        /\ Found(g, n) => Found(g, n)'
        /\ AtSweep("idle") => AtSweep("idle")' \/ Found(g, n)'
        /\ AtSweep("blocks") => AtSweep("blocks")' \/ AtSweep("idle")'
        /\ Missed(g, n) => Missed(g, n)' \/ AtSweep("blocks")'
  <2>1. ASSUME UNCHANGED <<sweep, unreachable>>
        PROVE  /\ Found(g, n) => Found(g, n)'
               /\ Missed(g, n) => Missed(g, n)'
               /\ \A stage \in {"idle", "blocks"} : AtSweep(stage) => AtSweep(stage)'
    BY <2>1 DEF Found, Missed, AtSweep
  <2>. QED BY <1>7, <2>1, SweepStays
<1>10. n \notin reachable[g] => Lingers(g, n) \/ n \notin nodeServices[g]
  BY DEF Lingers
<1>. HIDE DEF SInv
<1>. QED BY <1>1, <1>2, <1>3, <1>4, <1>5, <1>6, <1>8, <1>9, <1>10, PTL DEF FairSpec, Spec

\* The service of a node that stays unreachable is removed again and again, whatever
\* notifications interleave with the sections of updateGroupStatus, if the timer goes
\* on and the start-up time passes.  SweepPossible, which only says ENABLED of the guards
\* of the delay's end and of the sections, is a hypothesis.
THEOREM UnreachableRemovedHolds == FairSpec /\ []SweepPossible => UnreachableRemoved
BY LingeringRemoved DEF UnreachableRemoved
=============================================================================
