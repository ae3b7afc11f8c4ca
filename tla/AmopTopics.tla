----------------------------- MODULE AmopTopics -----------------------------
(***************************************************************************)
(* The topics of the AMOP client (amop/AMOPClient.cpp, .h): which sessions *)
(* of SDKs subscribe to which topic, which topics the client tells the     *)
(* gateways of, and which topics a gateway was told.                       *)
(*                                                                         *)
(* Subscriptions and disconnects are handled on the threads of the         *)
(* web-socket service, the gateways are watched by a timer, and what a     *)
(* gateway is sent arrives later, in any order, or fails.                  *)
(* LocalAMOPClient.h is the instance with one gateway that stays up.       *)
(***************************************************************************)
EXTENDS Naturals, FiniteSets

CONSTANTS
    Topics,
    Sessions,          \* each subscribes through one handler at a time
    Gateways,
    Failing,           \* the gateways that may go down and come up again
    MaxSubscriptions   \* bounds the subscription messages

ASSUME GatewaysAssumption == Failing \subseteq Gateways

ASSUME SubscriptionsAssumption == MaxSubscriptions \in Nat

VARIABLES
    connected,        \* the sessions that are connected
    topicToSessions,  \* m_topicToSessions: an absent topic has no sessions
    topicInfos,       \* the keys of m_topicInfos
    subscribing,      \* where onRecvSubTopics is, for each session
    removing,         \* where onClientDisconnect is, for each session
    activated,        \* m_gatewayActivated
    ping,             \* where pingGatewayAndNotifyTopics is
    active,           \* the gateways with an active end point
    network,          \* what the gateways were sent and have yet to receive
    subscribed,       \* the topics each gateway holds for this client
    subscriptions,    \* the subscription messages so far
    late,             \* history: sessions that subscribed after their disconnect
    lost,             \* history: the recorded topics each gateway was told to remove, or
                      \* forgot in a restart, and has not been told again
    failed            \* history: the topics each gateway lacks since a subscription
                      \* failed, none having been sent or received since

sessionVars == <<topicToSessions, topicInfos, subscribing, removing, subscriptions, late>>
pingVars    == <<activated, ping>>
gatewayVars == <<active, subscribed, lost>>
callVars    == <<network, failed>>
topicVars == <<connected, topicToSessions, topicInfos, subscribing, removing, activated,
               ping, active, network, subscribed, subscriptions, late, lost, failed>>

At(stage, ts) == [stage |-> stage, topics |-> ts]

\* A gateway may be told of no topic at all, but is asked to remove at least one.
Messages ==
    [kind : {"subscribe"}, to : Gateways, topics : SUBSET Topics]
        \cup [kind : {"remove"}, to : Gateways, topics : (SUBSET Topics) \ {{}}]

Removals ==
    {At("none", {}), At("done", {})} \cup {At("send", ts) : ts \in (SUBSET Topics) \ {{}}}

TopicTypeOK ==
    /\ connected \subseteq Sessions
    /\ topicToSessions \in [Topics -> SUBSET Sessions]
    /\ topicInfos \subseteq Topics
    /\ subscribing \in
         [Sessions -> [stage : {"idle", "record", "send"}, topics : SUBSET Topics]]
    /\ removing \in [Sessions -> Removals]
    /\ activated \in BOOLEAN
    /\ ping \in {"idle", "subscribe", "activate", "stopped"}
    /\ active \subseteq Gateways
    /\ network \subseteq Messages
    /\ subscribed \in [Gateways -> SUBSET Topics]
    /\ subscriptions \in 0..MaxSubscriptions
    /\ late \subseteq Sessions
    /\ lost \in [Gateways -> SUBSET Topics]
    /\ failed \in [Gateways -> SUBSET Topics]

\* start() has looked whether a gateway is active.
TopicInit ==
    /\ connected = Sessions
    /\ topicToSessions = [t \in Topics |-> {}]
    /\ topicInfos = {}
    /\ subscribing = [s \in Sessions |-> At("idle", {})]
    /\ removing = [s \in Sessions |-> At("none", {})]
    /\ active \in {Gateways \ down : down \in SUBSET Failing}
    /\ activated = (active # {})
    /\ ping = "idle"
    /\ network = {}
    /\ subscribed = [g \in Gateways |-> {}]
    /\ subscriptions = 0
    /\ late = {}
    /\ lost = [g \in Gateways |-> {}]
    /\ failed = [g \in Gateways |-> {}]

----------------------------------------------------------------------------
(***************************************************************************)
(* What is sent to the gateways.  A call to a gateway returns at once; it  *)
(* arrives later, or fails, by a time-out of the transport for instance,   *)
(* though the gateway stays active: the callback logs the error, and       *)
(* nothing is sent again for it.  A call that arrives and whose answer is  *)
(* late is one that arrives.  Equal calls on their way to a gateway arrive *)
(* or fail together.                                                       *)
(***************************************************************************)
ToActive(kind, ts) == {[kind |-> kind, to |-> g, topics |-> ts] : g \in active}

SubscribeTopicToAllNodes ==
    /\ network' = network \cup ToActive("subscribe", topicInfos)
    /\ failed' = [g \in Gateways |-> failed[g] \ (IF g \in active THEN topicInfos ELSE {})]

RemoveTopicFromAllNodes(ts) ==
    /\ network' = network \cup ToActive("remove", ts)
    /\ UNCHANGED failed

Deliver(m) ==
    /\ m \in network
    /\ network' = network \ {m}
    /\ subscribed' = [subscribed EXCEPT ![m.to] =
                        IF m.kind = "subscribe" THEN @ \cup m.topics ELSE @ \ m.topics]
    /\ lost' = [lost EXCEPT ![m.to] =
                  IF m.kind = "subscribe" THEN @ \ m.topics
                                          ELSE @ \cup (m.topics \cap topicInfos)]
    /\ failed' = [failed EXCEPT ![m.to] = IF m.kind = "subscribe" THEN @ \ m.topics ELSE @]
    /\ UNCHANGED <<connected, sessionVars, pingVars, active>>

CallFails(m) ==
    /\ m \in network
    /\ network' = network \ {m}
    /\ failed' = [failed EXCEPT ![m.to] =
                    IF m.kind = "subscribe" THEN @ \cup (m.topics \ subscribed[m.to]) ELSE @]
    /\ UNCHANGED <<connected, sessionVars, pingVars, gatewayVars>>

----------------------------------------------------------------------------
(***************************************************************************)
(* onRecvSubTopics: the sessions under the lock, then the topic infos      *)
(* without one, then the gateways.  A message may be handled after the     *)
(* disconnect of the session it came from.                                 *)
(***************************************************************************)
OnRecvSubTopics(s, ts) ==
    /\ subscribing[s].stage = "idle"
    /\ subscriptions < MaxSubscriptions
    /\ subscriptions' = subscriptions + 1
    /\ topicToSessions' = [t \in Topics |->
                            IF t \in ts THEN topicToSessions[t] \cup {s} ELSE topicToSessions[t]]
    /\ subscribing' = [subscribing EXCEPT ![s] = At("record", ts)]
    /\ late' = IF removing[s].stage = "none" THEN late ELSE late \cup {s}
    /\ UNCHANGED <<connected, topicInfos, removing, pingVars, gatewayVars, callVars>>

\* Only the first topic of the message is recorded; which one is first is up to the
\* container of the parser.  m_topicInfos is written without its lock: of two
\* writes at a time one may be lost.
RecordTopicInfo(s) ==
    /\ subscribing[s].stage = "record"
    /\ \/ \E first \in subscribing[s].topics : topicInfos' = topicInfos \cup {first}
       \/ /\ \/ subscribing[s].topics = {}
             \/ \E other \in Sessions \ {s} : subscribing[other].stage = "record"
          /\ UNCHANGED topicInfos
    /\ subscribing' = [subscribing EXCEPT ![s].stage = "send"]
    /\ UNCHANGED <<connected, topicToSessions, removing, pingVars, gatewayVars, callVars,
                   subscriptions, late>>

\* Defect: the gateways are not told while the ping believes them inactive.
SendSubscriptionIfActivated(s) ==
    /\ subscribing[s].stage = "send"
    /\ IF activated THEN SubscribeTopicToAllNodes ELSE UNCHANGED callVars
    /\ subscribing' = [subscribing EXCEPT ![s] = At("idle", {})]
    /\ UNCHANGED <<connected, topicToSessions, topicInfos, removing, pingVars, gatewayVars,
                   subscriptions, late>>

SendSubscription(s) ==
    /\ subscribing[s].stage = "send"
    /\ SubscribeTopicToAllNodes
    /\ subscribing' = [subscribing EXCEPT ![s] = At("idle", {})]
    /\ UNCHANGED <<connected, topicToSessions, topicInfos, removing, pingVars, gatewayVars,
                   subscriptions, late>>

----------------------------------------------------------------------------
(***************************************************************************)
(* onClientDisconnect: the sessions and the topic infos under the lock,    *)
(* then the gateways.                                                      *)
(***************************************************************************)
Disconnect(s) ==
    /\ s \in connected
    /\ connected' = connected \ {s}
    /\ UNCHANGED <<sessionVars, pingVars, gatewayVars, callVars>>

SubscribedBy(s) == {t \in Topics : s \in topicToSessions[t]}

\* Defect: the search stops at the first topic of the session.
OnClientDisconnectFirst(s) ==
    /\ s \notin connected
    /\ removing[s].stage = "none"
    /\ removing' = [removing EXCEPT ![s] = At("done", {})]
    /\ \/ \E t \in SubscribedBy(s) :
            topicToSessions' = [topicToSessions EXCEPT ![t] = @ \ {s}]
       \/ SubscribedBy(s) = {} /\ UNCHANGED topicToSessions
    /\ topicInfos' = topicInfos
    /\ UNCHANGED <<connected, subscribing, pingVars, gatewayVars, callVars, subscriptions, late>>

\* Defect: every topic of the session is given up, whoever else subscribes to it.
OnClientDisconnectAll(s) ==
    /\ s \notin connected
    /\ removing[s].stage = "none"
    /\ topicToSessions' = [t \in Topics |-> topicToSessions[t] \ {s}]
    /\ topicInfos' = topicInfos \ SubscribedBy(s)
    /\ removing' = [removing EXCEPT ![s] = At("send", SubscribedBy(s))]
    /\ UNCHANGED <<connected, subscribing, pingVars, gatewayVars, callVars, subscriptions, late>>

\* Defect: no early return when the session was the last one of no topic.
OnClientDisconnectEmpty(s) ==
    LET topicsToRemove == {t \in SubscribedBy(s) : topicToSessions[t] = {s}}
    IN  /\ s \notin connected
        /\ removing[s].stage = "none"
        /\ topicToSessions' = [t \in Topics |-> topicToSessions[t] \ {s}]
        /\ topicInfos' = topicInfos \ topicsToRemove
        /\ removing' = [removing EXCEPT ![s] = At("send", topicsToRemove)]
        /\ UNCHANGED <<connected, subscribing, pingVars, gatewayVars, callVars,
                       subscriptions, late>>

OnClientDisconnect(s) ==
    LET topicsToRemove == {t \in SubscribedBy(s) : topicToSessions[t] = {s}}
    IN  /\ s \notin connected
        /\ removing[s].stage = "none"
        /\ topicToSessions' = [t \in Topics |-> topicToSessions[t] \ {s}]
        /\ topicInfos' = topicInfos \ topicsToRemove
        /\ removing' = [removing EXCEPT ![s] =
                          At(IF topicsToRemove = {} THEN "done" ELSE "send", topicsToRemove)]
        /\ UNCHANGED <<connected, subscribing, pingVars, gatewayVars, callVars,
                       subscriptions, late>>

SendRemoval(s) ==
    /\ removing[s].stage = "send"
    /\ RemoveTopicFromAllNodes(removing[s].topics)
    /\ removing' = [removing EXCEPT ![s] = At("done", {})]
    /\ UNCHANGED <<connected, topicToSessions, topicInfos, subscribing, pingVars, gatewayVars,
                   subscriptions, late>>

----------------------------------------------------------------------------
(***************************************************************************)
(* pingGatewayAndNotifyTopics, every five seconds, and the request of a    *)
(* gateway to subscribe again.                                             *)
(***************************************************************************)
PingGateway ==
    /\ ping = "idle"
    /\ \/ active = {} /\ activated' = FALSE /\ UNCHANGED ping
       \/ active # {} /\ ~activated /\ ping' = "subscribe" /\ UNCHANGED activated
    /\ UNCHANGED <<connected, sessionVars, gatewayVars, callVars>>

\* Defect: the topics are left to the next subscription of an SDK.
PingSubscribeLater ==
    /\ ping = "subscribe"
    /\ ping' = "activate"
    /\ UNCHANGED <<connected, sessionVars, activated, gatewayVars, callVars>>

PingSubscribe ==
    /\ ping = "subscribe"
    /\ SubscribeTopicToAllNodes
    /\ ping' = "activate"
    /\ UNCHANGED <<connected, sessionVars, activated, gatewayVars>>

PingActivate ==
    /\ ping = "activate"
    /\ activated' = TRUE
    /\ ping' = "idle"
    /\ UNCHANGED <<connected, sessionVars, gatewayVars, callVars>>

Stop ==
    /\ ping = "idle"
    /\ ping' = "stopped"
    /\ UNCHANGED <<connected, sessionVars, activated, gatewayVars, callVars>>

AsyncNotifySubscribeTopic ==
    /\ active # {}
    /\ SubscribeTopicToAllNodes
    /\ UNCHANGED <<connected, sessionVars, pingVars, gatewayVars>>

----------------------------------------------------------------------------
(***************************************************************************)
(* The gateways.  One that goes down loses its topics and what it has not  *)
(* received.                                                               *)
(***************************************************************************)
GatewayDown(g) ==
    /\ g \in active
    /\ active' = active \ {g}
    /\ subscribed' = [subscribed EXCEPT ![g] = {}]
    /\ network' = {m \in network : m.to # g}
    /\ failed' = [failed EXCEPT ![g] = {}]
    /\ UNCHANGED <<connected, sessionVars, pingVars, lost>>

GatewayUp(g) ==
    /\ g \notin active
    /\ active' = active \cup {g}
    /\ lost' = [lost EXCEPT ![g] = topicInfos]
    /\ UNCHANGED <<connected, sessionVars, pingVars, callVars, subscribed>>

SessionStep(s) ==
    \/ \E ts \in SUBSET Topics : OnRecvSubTopics(s, ts)
    \/ RecordTopicInfo(s)
    \/ SendSubscription(s)
    \/ Disconnect(s)
    \/ OnClientDisconnect(s)
    \/ SendRemoval(s)

PingStep == PingGateway \/ PingSubscribe \/ PingActivate

TopicNext ==
    \/ \E s \in Sessions : SessionStep(s)
    \/ PingStep
    \/ Stop
    \/ AsyncNotifySubscribeTopic
    \/ \E m \in network : Deliver(m) \/ CallFails(m)
    \/ \E g \in Failing : GatewayDown(g) \/ GatewayUp(g)

TopicSpec == TopicInit /\ [][TopicNext]_topicVars

Tells(m, g, t) == m.kind = "subscribe" /\ m.to = g /\ t \in m.topics

\* A call that tells a gateway of a topic is over: it has arrived or failed.
SubscriptionOver(g, t) == \E m \in network : Tells(m, g, t) /\ (Deliver(m) \/ CallFails(m))

FairPing == WF_topicVars(PingStep)

FairCalls(g, t) == WF_topicVars(SubscriptionOver(g, t))

\* The timer rings again and again: pingGatewayAndNotifyTopics restarts it before
\* anything else.  A call to a gateway is called back in the end, by the gateway or by
\* the time-out of the transport; that it ever succeeds is not assumed.
FairTopicSpec ==
    /\ TopicSpec
    /\ FairPing
    /\ \A g \in Gateways, t \in Topics : FairCalls(g, t)

----------------------------------------------------------------------------
(***************************************************************************)
(* Properties.                                                             *)
(***************************************************************************)

\* A session whose disconnect was handled (onClientDisconnect) subscribes to no
\* topic any more, so no message is given to it, unless a subscription of its own
\* was handled only afterwards.
DeadSessionsForgotten ==
    \A t \in Topics : \A s \in topicToSessions[t] :
        removing[s].stage = "none" \/ s \in late

\* A topic recorded for the gateways (m_topicInfos) stays recorded while it has a
\* session, whatever other sessions subscribe and disconnect meanwhile.
RecordedWhileSubscribed ==
    [][\A t \in topicInfos : topicToSessions'[t] # {} => t \in topicInfos']_topicVars

\* An active gateway holds every recorded topic once no subscription is on its way,
\* but for three cases: the removal for an earlier subscriber, which onClientDisconnect
\* sends without the lock (AMOPClient.cpp:388-394), arrived after the topic was
\* recorded again; the gateway restarted, unnoticed by the ping while another one was
\* active (AMOPClient.cpp:448-476); or the call of the latest subscription failed, which
\* is only logged (AMOPClient.cpp:416-425).  No other order of subscriptions, disconnects,
\* pings and deliveries keeps a topic from a gateway.
Coming(t, g) ==
    \/ \E s \in Sessions : subscribing[s].stage = "send"
    \/ \E m \in network : Tells(m, g, t)

HeldUnlessLost ==
    \A t \in topicInfos, g \in active :
        t \in subscribed[g] \/ t \in lost[g] \/ t \in failed[g] \/ Coming(t, g)

\* Once pingGatewayAndNotifyTopics has seen an outage of all gateways, a gateway that
\* is active gets every recorded topic, if it stays up and the topic stays recorded, or
\* the call that was to tell it has failed when the ping takes the outage for over:
\* m_gatewayActivated is set whatever becomes of the calls (AMOPClient.cpp:468-475).
ResubscribedAfterOutage ==
    \A t \in Topics, g \in Gateways :
        (~activated /\ ping = "idle" /\ g \in active /\ t \in topicInfos)
          ~> (t \in subscribed[g] \/ (activated /\ t \in failed[g])
              \/ t \notin topicInfos \/ g \notin active \/ ping = "stopped")

\* What AMOPClient.cpp:69 promises of m_topicInfos, from which the gateways are told
\* their topics: when no subscription is being handled, a topic that has a session
\* is recorded.  It is not: only the first topic of each message is.
SubscriptionsRecorded ==
    (\A s \in Sessions : subscribing[s].stage = "idle") =>
        \A t \in Topics : topicToSessions[t] # {} => t \in topicInfos
=============================================================================
