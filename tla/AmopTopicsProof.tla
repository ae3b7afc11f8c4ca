--------------------------- MODULE AmopTopicsProof ---------------------------
(***************************************************************************)
(* Proofs about the topics of the AMOP client, for any number of topics,   *)
(* sessions and gateways.                                                  *)
(***************************************************************************)
EXTENDS AmopTopics, TLAPS

USE DEF sessionVars, pingVars, gatewayVars, callVars, Tells

\* The records of the variables below, so that no step has to open them again.
LEMMA AtFields ==
    ASSUME NEW stage, NEW ts
    PROVE  At(stage, ts).stage = stage /\ At(stage, ts).topics = ts
BY DEF At

LEMMA SendIsRemoval ==
    ASSUME NEW ts, ts \subseteq Topics, ts # {}
    PROVE  At("send", ts) \in Removals
<1>1. ts \in (SUBSET Topics) \ {{}}
  OBVIOUS
<1>2. At("send", ts) \in {At("send", x) : x \in (SUBSET Topics) \ {{}}}
  BY <1>1, Zenon
<1>q. QED
  BY <1>2 DEF Removals

LEMMA TopicTypeInit == TopicInit => TopicTypeOK
BY SubscriptionsAssumption DEF TopicInit, TopicTypeOK, At, Removals

LEMMA TopicTypeNext == TopicTypeOK /\ [TopicNext]_topicVars => TopicTypeOK'
<1> SUFFICES ASSUME TopicTypeOK, [TopicNext]_topicVars PROVE TopicTypeOK'
  OBVIOUS
<1> USE DEF TopicTypeOK
<1>1. ASSUME NEW s \in Sessions, NEW ts \in SUBSET Topics, OnRecvSubTopics(s, ts)
      PROVE  TopicTypeOK'
  BY <1>1, SubscriptionsAssumption DEF OnRecvSubTopics, At
<1>2. ASSUME NEW s \in Sessions, RecordTopicInfo(s) PROVE TopicTypeOK'
  <2>1. topicInfos' \subseteq Topics
    <3>1. subscribing[s].topics \subseteq Topics
      OBVIOUS
    <3>q. QED
      BY <1>2, <3>1 DEF RecordTopicInfo
  <2>2. subscribing' \in
          [Sessions -> [stage : {"idle", "record", "send"}, topics : SUBSET Topics]]
    BY <1>2 DEF RecordTopicInfo
  <2>q. QED
    BY <1>2, <2>1, <2>2 DEF RecordTopicInfo
<1>3. ASSUME NEW s \in Sessions, SendSubscription(s) PROVE TopicTypeOK'
  <2>1. ToActive("subscribe", topicInfos) \subseteq Messages
    BY DEF ToActive, Messages
  <2>q. QED
    BY <1>3, <2>1 DEF SendSubscription, SubscribeTopicToAllNodes, At
<1>4. ASSUME NEW s \in Sessions, Disconnect(s) PROVE TopicTypeOK'
  BY <1>4 DEF Disconnect
<1>5. ASSUME NEW s \in Sessions, OnClientDisconnect(s) PROVE TopicTypeOK'
  <2> DEFINE gone == {t \in SubscribedBy(s) : topicToSessions[t] = {s}}
  <2>1. gone \subseteq Topics
    BY DEF SubscribedBy
  <2>2. At(IF gone = {} THEN "done" ELSE "send", gone) \in Removals
    <3>1. CASE gone = {}
      BY <3>1 DEF Removals
    <3>2. CASE gone # {}
      <4>1. At("send", gone) \in Removals
        BY <2>1, <3>2, SendIsRemoval
      <4>q. QED
        BY <3>2, <4>1
    <3>q. QED
      BY <3>1, <3>2
  <2>3. removing' = [removing EXCEPT ![s] = At(IF gone = {} THEN "done" ELSE "send", gone)]
    BY <1>5 DEF OnClientDisconnect
  <2>q. QED
    BY <1>5, <2>2, <2>3 DEF OnClientDisconnect
<1>6. ASSUME NEW s \in Sessions, SendRemoval(s) PROVE TopicTypeOK'
  <2>1. removing[s].topics \in (SUBSET Topics) \ {{}}
    <3>1. removing[s] \in Removals /\ removing[s].stage = "send"
      BY <1>6 DEF SendRemoval
    <3>q. QED
      BY <3>1, AtFields DEF Removals
  <2>2. ToActive("remove", removing[s].topics) \subseteq Messages
    BY <2>1 DEF ToActive, Messages
  <2>3. At("done", {}) \in Removals
    BY DEF Removals
  <2>4. removing' = [removing EXCEPT ![s] = At("done", {})]
    BY <1>6 DEF SendRemoval
  <2>q. QED
    BY <1>6, <2>2, <2>3, <2>4 DEF SendRemoval, RemoveTopicFromAllNodes
<1>7. ASSUME PingStep \/ Stop \/ AsyncNotifySubscribeTopic PROVE TopicTypeOK'
  <2>1. ToActive("subscribe", topicInfos) \subseteq Messages
    BY DEF ToActive, Messages
  <2>q. QED
    BY <1>7, <2>1 DEF PingStep, PingGateway, PingSubscribe, PingActivate, Stop,
       AsyncNotifySubscribeTopic, SubscribeTopicToAllNodes
<1>8. ASSUME NEW m \in network, Deliver(m) PROVE TopicTypeOK'
  <2>1. m.topics \subseteq Topics /\ network \ {m} \subseteq Messages
    BY DEF Messages
  <2>2. subscribed' \in [Gateways -> SUBSET Topics]
    BY <1>8, <2>1 DEF Deliver
  <2>3. failed' \in [Gateways -> SUBSET Topics]
    BY <1>8, <2>1 DEF Deliver
  <2>q. QED
    BY <1>8, <2>1, <2>2, <2>3 DEF Deliver
<1>9. ASSUME NEW m \in network, CallFails(m) PROVE TopicTypeOK'
  <2>1. m.topics \subseteq Topics /\ network \ {m} \subseteq Messages
    BY DEF Messages
  <2>2. failed' \in [Gateways -> SUBSET Topics]
    BY <1>9, <2>1 DEF CallFails
  <2>q. QED
    BY <1>9, <2>1, <2>2 DEF CallFails
<1>10. ASSUME NEW g \in Failing, GatewayDown(g) \/ GatewayUp(g) PROVE TopicTypeOK'
  BY <1>10, GatewaysAssumption DEF GatewayDown, GatewayUp
<1>11. CASE UNCHANGED topicVars
  BY <1>11 DEF topicVars
<1>q. QED
  BY <1>1, <1>2, <1>3, <1>4, <1>5, <1>6, <1>7, <1>8, <1>9, <1>10, <1>11
     DEF TopicNext, SessionStep

\* Type correctness (AMOPClient.h:215-228): each handler is at one of its stages, and
\* what is sent names known gateways and topics.
THEOREM TopicTypeCorrect == TopicSpec => []TopicTypeOK
BY TopicTypeInit, TopicTypeNext, PTL DEF TopicSpec

\* The steps that neither subscribe a session nor handle its disconnect leave the
\* sessions of the topics as they are.
Otherwise ==
    /\ UNCHANGED <<topicToSessions, late>>
    /\ \A s \in Sessions : (removing'[s].stage = "none") = (removing[s].stage = "none")

LEMMA SessionsSteps ==
    ASSUME TopicTypeOK, [TopicNext]_topicVars
    PROVE  \/ \E s \in Sessions, ts \in SUBSET Topics : OnRecvSubTopics(s, ts)
           \/ \E s \in Sessions : OnClientDisconnect(s)
           \/ Otherwise
<1>1. ASSUME NEW s \in Sessions, SendRemoval(s) PROVE Otherwise
  BY <1>1 DEF SendRemoval, Otherwise, TopicTypeOK, At
<1>2. ASSUME UNCHANGED <<topicToSessions, late, removing>> PROVE Otherwise
  BY <1>2 DEF Otherwise
<1>q. QED
  BY <1>1, <1>2 DEF TopicNext, SessionStep, PingStep, PingGateway, PingSubscribe,
       PingActivate, Stop, AsyncNotifySubscribeTopic, Deliver, CallFails, GatewayDown, GatewayUp,
       RecordTopicInfo, SendSubscription, Disconnect, topicVars

\* Once its disconnect is handled a session is in no topic, for any number of sessions
\* and topics, or it subscribed afterwards (AMOPClient.cpp:58-64, 366-388).
THEOREM DeadSessionsForgottenHolds == TopicSpec => []DeadSessionsForgotten
<1>1. TopicInit => DeadSessionsForgotten
  BY DEF TopicInit, DeadSessionsForgotten
<1>2. TopicTypeOK /\ DeadSessionsForgotten /\ [TopicNext]_topicVars
        => DeadSessionsForgotten'
  <2> SUFFICES ASSUME TopicTypeOK, DeadSessionsForgotten, [TopicNext]_topicVars,
                      NEW t \in Topics, NEW s \in topicToSessions'[t]
               PROVE  removing'[s].stage = "none" \/ s \in late'
    BY DEF DeadSessionsForgotten
  <2>1. topicToSessions \in [Topics -> SUBSET Sessions]
    BY DEF TopicTypeOK
  <2>2. ASSUME NEW c \in Sessions, NEW ts \in SUBSET Topics, OnRecvSubTopics(c, ts)
        PROVE  removing'[s].stage = "none" \/ s \in late'
    <3>1. s = c \/ s \in topicToSessions[t]
      BY <2>1, <2>2 DEF OnRecvSubTopics
    <3>2. removing' = removing /\ late \subseteq late'
          /\ (removing[c].stage = "none" \/ c \in late')
      BY <2>2 DEF OnRecvSubTopics
    <3>q. QED
      BY <3>1, <3>2 DEF DeadSessionsForgotten
  <2>3. ASSUME NEW c \in Sessions, OnClientDisconnect(c)
        PROVE  removing'[s].stage = "none" \/ s \in late'
    <3>1. s # c /\ s \in topicToSessions[t] /\ s \in Sessions
      BY <2>1, <2>3 DEF OnClientDisconnect
    <3>2. removing'[s] = removing[s] /\ late' = late
      BY <2>3, <3>1 DEF OnClientDisconnect, TopicTypeOK
    <3>q. QED
      BY <3>1, <3>2 DEF DeadSessionsForgotten
  <2>4. CASE Otherwise
    BY <2>1, <2>4 DEF Otherwise, DeadSessionsForgotten
  <2>q. QED
    BY <2>2, <2>3, <2>4, SessionsSteps
<1>q. QED
  BY <1>1, <1>2, TopicTypeCorrect, PTL DEF TopicSpec

\* A recorded topic stays recorded while a session subscribes to it: only the
\* disconnect of its last session takes it away (AMOPClient.cpp:366-388).
THEOREM RecordedWhileSubscribedHolds == TopicSpec => RecordedWhileSubscribed
<1>1. TopicTypeOK /\ [TopicNext]_topicVars
        => [\A t \in topicInfos : topicToSessions'[t] # {} => t \in topicInfos']_topicVars
  <2> SUFFICES ASSUME TopicTypeOK, TopicNext, NEW t \in topicInfos,
                      topicToSessions'[t] # {}
               PROVE  t \in topicInfos'
    BY DEF topicVars
  <2>1. ASSUME NEW s \in Sessions, OnClientDisconnect(s) PROVE t \in topicInfos'
    <3>1. t \in Topics /\ topicToSessions'[t] = topicToSessions[t] \ {s}
      BY <2>1 DEF OnClientDisconnect, TopicTypeOK
    <3>2. topicToSessions[t] # {s}
      BY <3>1
    <3>q. QED
      BY <2>1, <3>2 DEF OnClientDisconnect
  <2>q. QED
    BY <2>1 DEF TopicNext, SessionStep, PingStep, PingGateway, PingSubscribe,
       PingActivate, Stop, AsyncNotifySubscribeTopic, Deliver, CallFails, GatewayDown, GatewayUp,
       OnRecvSubTopics, RecordTopicInfo, SendSubscription, Disconnect, SendRemoval
<1>q. QED
  BY <1>1, TopicTypeCorrect, PTL DEF TopicSpec, RecordedWhileSubscribed

----------------------------------------------------------------------------
(***************************************************************************)
(* What the gateways hold.  The invariant is inductive as it stands.       *)
(***************************************************************************)
LEMMA HeldNext ==
    TopicTypeOK /\ HeldUnlessLost /\ [TopicNext]_topicVars => HeldUnlessLost'
<1>. SUFFICES ASSUME TopicTypeOK, HeldUnlessLost, [TopicNext]_topicVars,
                     NEW t \in topicInfos', NEW g \in active'
              PROVE  t \in subscribed'[g] \/ t \in lost'[g] \/ t \in failed'[g] \/ Coming(t, g)'
  BY DEF HeldUnlessLost
<1> DEFINE Kept == /\ t \in topicInfos /\ g \in active
                   /\ subscribed'[g] = subscribed[g] /\ lost'[g] = lost[g]
                   /\ failed'[g] = failed[g] /\ network \subseteq network'
                   /\ \A s \in Sessions :
                        subscribing[s].stage = "send" => subscribing'[s].stage = "send"
<1>1. CASE Kept
  BY <1>1 DEF HeldUnlessLost, Coming
<1>2. ASSUME NEW s \in Sessions, RecordTopicInfo(s) PROVE Coming(t, g)'
  <2>1. subscribing'[s].stage = "send"
    BY <1>2 DEF RecordTopicInfo, TopicTypeOK
  <2>. QED BY <2>1 DEF Coming
<1>3. ASSUME SubscribeTopicToAllNodes, UNCHANGED <<topicInfos, active>> PROVE Coming(t, g)'
  <2> DEFINE m == [kind |-> "subscribe", to |-> g, topics |-> topicInfos]
  <2>1. m \in network'
    BY <1>3 DEF SubscribeTopicToAllNodes, ToActive
  <2>. QED BY <1>3, <2>1 DEF Coming
<1>4. ASSUME NEW s \in Sessions, SessionStep(s) PROVE Kept \/ Coming(t, g)'
  <2>1. ASSUME NEW ts \in SUBSET Topics, OnRecvSubTopics(s, ts) PROVE Kept
    BY <2>1 DEF OnRecvSubTopics, TopicTypeOK
  <2>2. CASE SendSubscription(s)
    BY <1>3, <2>2 DEF SendSubscription
  <2>3. CASE Disconnect(s) \/ OnClientDisconnect(s) \/ SendRemoval(s)
    BY <2>3 DEF Disconnect, OnClientDisconnect, SendRemoval, RemoveTopicFromAllNodes
  <2>. QED BY <1>2, <1>4, <2>1, <2>2, <2>3 DEF SessionStep
<1>5. CASE PingStep \/ Stop \/ AsyncNotifySubscribeTopic
  BY <1>1, <1>3, <1>5 DEF PingStep, PingGateway, PingSubscribe, PingActivate, Stop,
     AsyncNotifySubscribeTopic
<1>6. ASSUME NEW m \in network, Deliver(m)
      PROVE  t \in subscribed'[g] \/ t \in lost'[g] \/ t \in failed'[g] \/ Coming(t, g)'
  <2>1. /\ t \in topicInfos /\ g \in active /\ subscribing' = subscribing
        /\ network' = network \ {m} /\ m.kind \in {"subscribe", "remove"}
    BY <1>6 DEF Deliver, TopicTypeOK, Messages
  <2>2. CASE m.to # g
    <3>1. subscribed'[g] = subscribed[g] /\ lost'[g] = lost[g] /\ failed'[g] = failed[g]
      BY <1>6, <2>1, <2>2 DEF Deliver, TopicTypeOK
    <3>. QED BY <2>1, <2>2, <3>1 DEF HeldUnlessLost, Coming
  <2>3. CASE m.to = g /\ m.kind = "subscribe"
    <3>1. /\ subscribed'[g] = subscribed[g] \cup m.topics
          /\ lost'[g] = lost[g] \ m.topics /\ failed'[g] = failed[g] \ m.topics
      BY <1>6, <2>1, <2>3 DEF Deliver, TopicTypeOK
    <3>. QED BY <2>1, <3>1 DEF HeldUnlessLost, Coming
  <2>4. CASE m.to = g /\ m.kind = "remove"
    <3>1. /\ subscribed'[g] = subscribed[g] \ m.topics
          /\ lost'[g] = lost[g] \cup (m.topics \cap topicInfos) /\ failed'[g] = failed[g]
      BY <1>6, <2>1, <2>4 DEF Deliver, TopicTypeOK
    <3>. QED BY <2>1, <2>4, <3>1 DEF HeldUnlessLost, Coming
  <2>. QED BY <2>1, <2>2, <2>3, <2>4
<1>7. ASSUME NEW h \in Failing, GatewayDown(h) \/ GatewayUp(h)
      PROVE  t \in subscribed'[g] \/ t \in lost'[g] \/ t \in failed'[g] \/ Coming(t, g)'
  <2>1. t \in topicInfos /\ subscribing' = subscribing
    BY <1>7 DEF GatewayDown, GatewayUp
  <2>2. CASE GatewayDown(h)
    <3>1. /\ g # h /\ g \in active /\ subscribed'[g] = subscribed[g] /\ lost'[g] = lost[g]
          /\ failed'[g] = failed[g]
          /\ \A m \in network : m.to = g => m \in network'
      BY <2>2 DEF GatewayDown, TopicTypeOK
    <3>. QED BY <2>1, <3>1 DEF HeldUnlessLost, Coming
  <2>3. CASE GatewayUp(h) /\ g = h
    BY <2>1, <2>3, GatewaysAssumption DEF GatewayUp, TopicTypeOK
  <2>4. CASE GatewayUp(h) /\ g # h
    BY <1>1, <2>1, <2>4 DEF GatewayUp, TopicTypeOK
  <2>. QED BY <1>7, <2>2, <2>3, <2>4
<1>8. ASSUME NEW m \in network, CallFails(m)
      PROVE  t \in subscribed'[g] \/ t \in lost'[g] \/ t \in failed'[g] \/ Coming(t, g)'
  <2>1. /\ t \in topicInfos /\ g \in active /\ UNCHANGED <<subscribing, subscribed, lost>>
        /\ network' = network \ {m} /\ failed[g] \subseteq failed'[g]
    BY <1>8 DEF CallFails, TopicTypeOK
  <2>2. CASE Tells(m, g, t)
    <3>1. failed'[g] = failed[g] \cup (m.topics \ subscribed[g])
      BY <1>8, <2>1, <2>2 DEF CallFails, TopicTypeOK
    <3>. QED BY <2>1, <2>2, <3>1
  <2>3. CASE ~Tells(m, g, t)
    BY <2>1, <2>3 DEF HeldUnlessLost, Coming
  <2>. QED BY <2>2, <2>3
<1>9. CASE UNCHANGED topicVars
  BY <1>1, <1>9 DEF topicVars
<1>. QED BY <1>1, <1>4, <1>5, <1>6, <1>7, <1>8, <1>9 DEF TopicNext

\* An active gateway holds every recorded topic, or is about to be told of it, unless a
\* removal overtook, it restarted or the latest call to it failed (AMOPClient.cpp:83-101,
\* 366-394, 405-529), for any number of gateways, sessions and topics.
THEOREM HeldUnlessLostHolds == TopicSpec => []HeldUnlessLost
<1>1. TopicInit => HeldUnlessLost
  BY DEF TopicInit, HeldUnlessLost
<1>. QED BY <1>1, HeldNext, TopicTypeInit, TopicTypeNext, PTL DEF TopicSpec

----------------------------------------------------------------------------
(***************************************************************************)
(* A gateway gets the recorded topics after an outage, or a call fails.    *)
(* While it stays up, the topic stays recorded and the client is not       *)
(* stopped, the ping goes from its next round to the subscription, which   *)
(* puts a call to the gateway under way, and sets m_gatewayActivated.  From *)
(* the subscription on the gateway is pending: a call is under way, or the *)
(* latest has failed.                                                      *)
(***************************************************************************)
Outage == ping = "idle" /\ ~activated
Telling == ping = "subscribe"
OnItsWay(g, t) == \E m \in network : Tells(m, g, t)
Pending(g, t) == OnItsWay(g, t) \/ t \in failed[g]
Activating(g, t) == ping = "activate" /\ Pending(g, t)
Told(g, t) == activated /\ Pending(g, t)

\* The gateway holds the topic, or need not, or the call failed for good.
Settled(g, t) ==
    \/ t \in subscribed[g]
    \/ activated /\ t \in failed[g]
    \/ t \notin topicInfos \/ g \notin active \/ ping = "stopped"

\* What tlapm, which cannot expand ENABLED, is given: the guards of the ping's steps and
\* of the end of a call (AMOPClient.cpp:448-476).
PingPossible ==
    /\ ping \in {"subscribe", "activate"} \/ (ping = "idle" /\ ~activated /\ active # {}) =>
         ENABLED <<PingStep>>_topicVars
    /\ \A g \in Gateways, t \in Topics :
         OnItsWay(g, t) => ENABLED <<SubscriptionOver(g, t)>>_topicVars

\* The ping subscribes to every active gateway whatever is recorded.
LEMMA PingTells ==
    ASSUME TopicTypeOK, NEW g \in Gateways, NEW t \in Topics, ~Settled(g, t), PingStep
    PROVE  /\ Outage => Telling'
           /\ Telling => Activating(g, t)'
           /\ Activating(g, t) => Told(g, t)'
<1>1. ASSUME PingSubscribe PROVE Activating(g, t)'
  <2> DEFINE m == [kind |-> "subscribe", to |-> g, topics |-> topicInfos]
  <2>1. m \in network' /\ Tells(m, g, t)
    BY <1>1 DEF PingSubscribe, SubscribeTopicToAllNodes, ToActive, Settled
  <2>. QED BY <1>1, <2>1 DEF OnItsWay, Pending, Activating, PingSubscribe
<1>2. ASSUME PingActivate PROVE Activating(g, t) => Told(g, t)'
  BY <1>2 DEF PingActivate, Activating, Told, Pending, OnItsWay
<1>. QED BY <1>1, <1>2 DEF PingStep, PingGateway, PingSubscribe, PingActivate, Outage, Telling,
                           Activating, Settled

\* Nothing but its own steps moves the ping, unless it is stopped.
LEMMA PingWaits ==
    ASSUME [TopicNext]_topicVars, ~PingStep, ping' # "stopped"
    PROVE  UNCHANGED <<ping, activated>>
BY DEF TopicNext, SessionStep, OnRecvSubTopics, RecordTopicInfo, SendSubscription, Disconnect,
       OnClientDisconnect, SendRemoval, Stop, AsyncNotifySubscribeTopic, Deliver, CallFails,
       GatewayDown, GatewayUp, topicVars

\* Once the outage is over it is not seen again while the gateway is active.
LEMMA ActivatedStays ==
    ASSUME activated, NEW g \in active, [TopicNext]_topicVars
    PROVE  activated'
BY DEF TopicNext, SessionStep, OnRecvSubTopics, RecordTopicInfo, SendSubscription, Disconnect,
       OnClientDisconnect, SendRemoval, Stop, AsyncNotifySubscribeTopic, Deliver, CallFails,
       GatewayDown, GatewayUp, PingStep, PingGateway, PingSubscribe, PingActivate, topicVars

\* A subscription to the gateway puts a call under way and forgets of failed ones only
\* what it sends again.
LEMMA SubscriptionPends ==
    ASSUME TopicTypeOK, NEW g \in active, NEW t \in topicInfos, g \in Gateways,
           SubscribeTopicToAllNodes
    PROVE  Pending(g, t)'
<1> DEFINE m == [kind |-> "subscribe", to |-> g, topics |-> topicInfos]
<1>1. m \in network' /\ Tells(m, g, t)
  BY DEF SubscribeTopicToAllNodes, ToActive
<1>. QED BY <1>1 DEF OnItsWay, Pending

\* A pending gateway stays so until it is told or goes down: a call that fails leaves the
\* failure, and a failure is forgotten for a new call.
LEMMA StaysPending ==
    ASSUME TopicTypeOK, NEW g \in Gateways, NEW t \in Topics, Pending(g, t),
           ~Settled(g, t), [TopicNext]_topicVars, ~Settled(g, t)'
    PROVE  Pending(g, t)'
<1>1. g \in active /\ t \in topicInfos /\ g \in active' /\ t \notin subscribed'[g]
  BY DEF Settled
<1>2. ASSUME UNCHANGED failed, network \subseteq network' PROVE Pending(g, t)'
  BY <1>2 DEF Pending, OnItsWay
<1>3. ASSUME SubscribeTopicToAllNodes PROVE Pending(g, t)'
  BY <1>1, <1>3, SubscriptionPends
<1>4. ASSUME NEW k \in network, Deliver(k) PROVE Pending(g, t)'
  <2>1. ~Tells(k, g, t) /\ network' = network \ {k}
    BY <1>1, <1>4 DEF Deliver, TopicTypeOK
  <2>2. t \in failed[g] => t \in failed'[g]
    BY <1>4, <2>1 DEF Deliver, TopicTypeOK
  <2>. QED BY <2>1, <2>2 DEF Pending, OnItsWay
<1>5. ASSUME NEW k \in network, CallFails(k) PROVE Pending(g, t)'
  <2>1. network' = network \ {k} /\ t \notin subscribed[g]
    BY <1>5, <1>1 DEF CallFails
  <2>2. t \in failed[g] \/ Tells(k, g, t) => t \in failed'[g]
    BY <1>5, <2>1 DEF CallFails, TopicTypeOK
  <2>. QED BY <2>1, <2>2 DEF Pending, OnItsWay
<1>6. ASSUME NEW h \in Failing, GatewayDown(h) PROVE Pending(g, t)'
  <2>1. h # g
    BY <1>1, <1>6 DEF GatewayDown
  <2>2. failed'[g] = failed[g]
    BY <1>6, <2>1 DEF GatewayDown, TopicTypeOK
  <2>. QED BY <1>6, <2>1, <2>2 DEF GatewayDown, Pending, OnItsWay
<1>7. ASSUME NEW s \in Sessions, SessionStep(s) PROVE Pending(g, t)'
  BY <1>2, <1>3, <1>7 DEF SessionStep, OnRecvSubTopics, RecordTopicInfo, SendSubscription,
     Disconnect, OnClientDisconnect, SendRemoval, RemoveTopicFromAllNodes
<1>8. CASE PingStep \/ Stop \/ AsyncNotifySubscribeTopic
  BY <1>2, <1>3, <1>8 DEF PingStep, PingGateway, PingSubscribe, PingActivate, Stop,
     AsyncNotifySubscribeTopic
<1>9. ASSUME NEW h \in Failing, GatewayUp(h) PROVE Pending(g, t)'
  BY <1>2, <1>9 DEF GatewayUp
<1>10. CASE UNCHANGED topicVars
  BY <1>2, <1>10 DEF topicVars
<1>. QED BY <1>4, <1>5, <1>6, <1>7, <1>8, <1>9, <1>10 DEF TopicNext

\* When a call that tells the topic is over once the outage is, the matter is settled.
LEMMA CallSettles ==
    ASSUME TopicTypeOK, NEW g \in Gateways, NEW t \in Topics, activated,
           SubscriptionOver(g, t)
    PROVE  Settled(g, t)'
<1>1. PICK m \in network : Tells(m, g, t) /\ (Deliver(m) \/ CallFails(m))
  BY DEF SubscriptionOver
<1>2. CASE Deliver(m)
  BY <1>1, <1>2 DEF Deliver, TopicTypeOK, Settled
<1>3. CASE CallFails(m)
  <2>1. failed'[g] = failed[g] \cup (m.topics \ subscribed[g])
    BY <1>1, <1>3 DEF CallFails, TopicTypeOK
  <2>. QED BY <1>1, <1>3, <2>1 DEF CallFails, Settled
<1>. QED BY <1>1, <1>2, <1>3

LEMMA OutageEnds ==
    ASSUME NEW g \in Gateways, NEW t \in Topics
    PROVE  TopicSpec /\ FairPing /\ FairCalls(g, t) /\ []PingPossible =>
             ((~activated /\ ping = "idle" /\ g \in active /\ t \in topicInfos)
                ~> (t \in subscribed[g] \/ (activated /\ t \in failed[g])
                    \/ t \notin topicInfos \/ g \notin active \/ ping = "stopped"))
<1>1. (~activated /\ ping = "idle" /\ g \in active /\ t \in topicInfos) => Outage
  BY DEF Outage
<1>2. Settled(g, t) => (t \in subscribed[g] \/ (activated /\ t \in failed[g])
                          \/ t \notin topicInfos \/ g \notin active \/ ping = "stopped")
  BY DEF Settled
<1>3. TopicTypeOK /\ ~Settled(g, t) /\ <<PingStep>>_topicVars =>
        /\ Outage => Telling'
        /\ Telling => Activating(g, t)'
        /\ Activating(g, t) => Told(g, t)'
  BY PingTells
<1>4. TopicTypeOK /\ ~Settled(g, t) /\ [TopicNext]_topicVars /\ ~Settled(g, t)' =>
        /\ Outage => Outage' \/ Telling'
        /\ Telling => Telling' \/ Activating(g, t)'
        /\ Activating(g, t) => Activating(g, t)' \/ Told(g, t)'
  <2>1. ASSUME UNCHANGED <<ping, activated>>
        PROVE  /\ Outage => Outage'
               /\ Telling => Telling'
               /\ Activating(g, t) /\ Pending(g, t)' => Activating(g, t)'
    BY <2>1 DEF Outage, Telling, Activating
  <2>2. ~Settled(g, t)' => ping' # "stopped"
    BY DEF Settled
  <2>3. Activating(g, t) => Pending(g, t)
    BY DEF Activating
  <2>. QED BY <2>1, <2>2, <2>3, PingTells, PingWaits, StaysPending
<1>5. TopicTypeOK /\ ~Settled(g, t) /\ Told(g, t) /\ [TopicNext]_topicVars /\ ~Settled(g, t)'
        => Told(g, t)'
  <2>1. ~Settled(g, t) => g \in active
    BY DEF Settled
  <2>. QED BY <2>1, ActivatedStays, StaysPending DEF Told
<1>6. TopicTypeOK /\ Told(g, t) /\ <<SubscriptionOver(g, t)>>_topicVars => Settled(g, t)'
  BY CallSettles DEF Told
<1>7. PingPossible /\ ~Settled(g, t) /\ (Outage \/ Telling \/ Activating(g, t))
        => ENABLED <<PingStep>>_topicVars
  BY DEF PingPossible, Settled, Outage, Telling, Activating
<1>8. PingPossible /\ ~Settled(g, t) /\ Told(g, t) => ENABLED <<SubscriptionOver(g, t)>>_topicVars
  BY DEF PingPossible, Told, Pending, Settled
<1>. QED BY <1>1, <1>2, <1>3, <1>4, <1>5, <1>6, <1>7, <1>8, TopicTypeCorrect, PTL
         DEF TopicSpec, FairPing, FairCalls

\* After an outage of all gateways that the ping has seen, a gateway that stays up gets
\* every topic that stays recorded, or the call that was to tell it failed
\* (AMOPClient.cpp:405-427, 448-476), in whatever order sessions subscribe and disconnect
\* meanwhile, if the timer goes on and calls are called back.  PingPossible, which only
\* says ENABLED of the guards of the ping and of a call's end, is a hypothesis.
THEOREM ResubscribedAfterOutageHolds ==
    FairTopicSpec /\ []PingPossible => ResubscribedAfterOutage
<1>. SUFFICES ASSUME FairTopicSpec, []PingPossible, NEW t \in Topics, NEW g \in Gateways
              PROVE  (~activated /\ ping = "idle" /\ g \in active /\ t \in topicInfos)
                       ~> (t \in subscribed[g] \/ (activated /\ t \in failed[g])
                           \/ t \notin topicInfos \/ g \notin active \/ ping = "stopped")
  BY DEF ResubscribedAfterOutage
<1>1. TopicSpec /\ FairPing /\ FairCalls(g, t)
  BY DEF FairTopicSpec
<1>. QED BY <1>1, OutageEnds, PTL
=============================================================================
