-------------------------------- MODULE Amop --------------------------------
(***************************************************************************)
(* The messages of the AMOP client (amop/AMOPClient.cpp, .h): requests of  *)
(* SDKs, which go to the gateways or, if no gateway will do, to another    *)
(* session of this node, and requests the gateways pass on to a session.   *)
(* Broadcasts change no state of the client and expect no answer.          *)
(***************************************************************************)
EXTENDS AmopTopics, Sequences

CONSTANTS
    Requests,     \* the requests, each received once
    FromGateway   \* those a gateway passes on, the others come from SDKs

ASSUME RequestsAssumption == FromGateway \subseteq Requests

VARIABLES
    alive,    \* the AMOP client has not been destroyed
    stage,    \* who has each request
    topicOf,  \* its topic, once received
    answers,  \* what was sent to the SDK, or the callback was called with
    silent,   \* history: requests the chosen session did not answer
    garbled   \* history: requests of SDKs whose response could not be decoded

requestVars == <<alive, stage, topicOf, answers, silent, garbled>>
vars == <<connected, topicToSessions, topicInfos, subscribing, removing, activated, ping,
          active, network, subscribed, subscriptions, late, lost, failed,
          alive, stage, topicOf, answers, silent, garbled>>

TypeOK ==
    /\ TopicTypeOK
    /\ alive \in BOOLEAN
    /\ stage \in [Requests -> {"new", "gateway", "session", "done", "ignored"}]
    /\ topicOf \in [Requests -> SUBSET Topics]
    /\ answers \in [Requests -> Seq({"result", "error", "inactive", "unmatched"})]
    /\ silent \subseteq Requests
    /\ garbled \subseteq Requests

Init ==
    /\ TopicInit
    /\ alive = TRUE
    /\ stage = [r \in Requests |-> "new"]
    /\ topicOf = [r \in Requests |-> {}]
    /\ answers = [r \in Requests |-> <<>>]
    /\ silent = {}
    /\ garbled = {}

----------------------------------------------------------------------------
(***************************************************************************)
(* randomChooseSession finds none only for a topic without sessions.  The  *)
(* one it finds may have lost its connection, like one that does not       *)
(* answer.                                                                 *)
(***************************************************************************)
Subscribers(t) == topicToSessions[t]

Goes(r, to) == stage' = [stage EXCEPT ![r] = to]

Answer(r, answer) == answers' = [answers EXCEPT ![r] = Append(@, answer)]

Received(r, t) ==
    /\ alive
    /\ stage[r] = "new"
    /\ topicOf' = [topicOf EXCEPT ![r] = {t}]
    /\ UNCHANGED <<alive, silent, garbled>>

\* The SDK is told that no gateway is active, and a session may answer it all the same.
OnRecvAMOPRequest(r, t) ==
    /\ r \notin FromGateway
    /\ Received(r, t)
    /\ IF active = {}
         THEN /\ Answer(r, "inactive")
              /\ Goes(r, IF Subscribers(t) = {} THEN "done" ELSE "session")
         ELSE Goes(r, "gateway") /\ UNCHANGED answers

----------------------------------------------------------------------------
(***************************************************************************)
(* The gateway calls back.                                                 *)
(***************************************************************************)
Continues(r, from) ==
    /\ stage[r] = from
    /\ UNCHANGED <<alive, topicOf>>

\* The response is decoded and sent on, or decode throws: the exception is caught and
\* logged, and nothing is sent.
PassOn(r) ==
    \/ Answer(r, "result") /\ UNCHANGED garbled
    \/ garbled' = garbled \cup {r} /\ UNCHANGED answers

GatewayResult(r) ==
    /\ Continues(r, "gateway")
    /\ Goes(r, "done")
    /\ IF alive THEN PassOn(r) ELSE UNCHANGED <<answers, garbled>>
    /\ UNCHANGED silent

\* Defect: no return after a session was found.
GatewayErrorGoesOn(r) ==
    /\ Continues(r, "gateway")
    /\ Goes(r, IF \E t \in topicOf[r] : Subscribers(t) # {} THEN "session" ELSE "done")
    /\ Answer(r, "error")
    /\ UNCHANGED <<silent, garbled>>

\* Defect: without a session the callback only logs the error of the gateway.
GatewayErrorSilent(r) ==
    /\ Continues(r, "gateway")
    /\ Goes(r, IF \E t \in topicOf[r] : Subscribers(t) # {} THEN "session" ELSE "done")
    /\ UNCHANGED <<answers, silent, garbled>>

GatewayError(r) ==
    /\ Continues(r, "gateway")
    /\ IF ~alive
         THEN Goes(r, "done") /\ UNCHANGED answers
         ELSE \/ /\ \E t \in topicOf[r] : Subscribers(t) # {}
                 /\ Goes(r, "session")
                 /\ UNCHANGED answers
              \/ /\ \A t \in topicOf[r] : Subscribers(t) = {}
                 /\ Goes(r, "done")
                 /\ Answer(r, "error")
    /\ UNCHANGED <<silent, garbled>>

----------------------------------------------------------------------------
(***************************************************************************)
(* A request the gateway passes on, and the session that has a request.    *)
(***************************************************************************)
\* Defect: without a session the callback is not called.
AsyncNotifyAMOPMessageSilent(r, t) ==
    /\ r \in FromGateway
    /\ Received(r, t)
    /\ Goes(r, IF Subscribers(t) = {} THEN "done" ELSE "session")
    /\ UNCHANGED answers

AsyncNotifyAMOPMessage(r, t) ==
    /\ r \in FromGateway
    /\ Received(r, t)
    /\ \/ Subscribers(t) = {} /\ Goes(r, "done") /\ Answer(r, "error")
       \/ Subscribers(t) # {} /\ Goes(r, "session") /\ UNCHANGED answers

\* A message of an unknown type: it is logged, the callback is not called.
IgnoreMessage(r, t) ==
    /\ r \in FromGateway
    /\ Received(r, t)
    /\ Goes(r, "ignored")
    /\ UNCHANGED answers

\* The callback of the gateway is given the response as it is, even if the client is
\* gone; for an SDK it is decoded.
SessionResult(r) ==
    /\ Continues(r, "session")
    /\ Goes(r, "done")
    /\ \/ r \in FromGateway /\ Answer(r, "result") /\ UNCHANGED garbled
       \/ r \notin FromGateway /\ alive /\ PassOn(r)
       \/ r \notin FromGateway /\ ~alive /\ UNCHANGED <<answers, garbled>>
    /\ UNCHANGED silent

\* The session is gone or too slow: the gateway gets the error.  For an SDK an empty
\* response is decoded, which leaves one with a sequence number of its own, or throws.
SessionSilent(r) ==
    /\ Continues(r, "session")
    /\ Goes(r, "done")
    /\ silent' = silent \cup {r}
    /\ UNCHANGED garbled
    /\ \/ r \in FromGateway /\ Answer(r, "error")
       \/ r \notin FromGateway /\ alive /\ Answer(r, "unmatched")
       \/ r \notin FromGateway /\ UNCHANGED answers

Destroy ==
    /\ alive
    /\ alive' = FALSE
    /\ UNCHANGED <<stage, topicOf, answers, silent, garbled>>

CallBack(r) == GatewayResult(r) \/ GatewayError(r) \/ SessionResult(r) \/ SessionSilent(r)

RequestStep(r) ==
    \/ \E t \in Topics :
         OnRecvAMOPRequest(r, t) \/ AsyncNotifyAMOPMessage(r, t) \/ IgnoreMessage(r, t)
    \/ CallBack(r)

RequestNext == (\E r \in Requests : RequestStep(r)) \/ Destroy

Next ==
    \/ TopicNext /\ alive /\ UNCHANGED requestVars
    \/ RequestNext /\ UNCHANGED topicVars

Spec == Init /\ [][Next]_vars

\* The gateways call back, and a session answers or its thirty seconds are over.
CalledBack(r) == CallBack(r) /\ UNCHANGED topicVars

FairCallBack(r) == WF_vars(CalledBack(r))

FairSpec == Spec /\ \A r \in Requests : FairCallBack(r)

----------------------------------------------------------------------------
(***************************************************************************)
(* Properties.                                                             *)
(***************************************************************************)

\* The client keeps to the life of a request: it answers only a request it has just
\* received, or that a gateway or a session has, and one it let go of it never passes
\* on or answers again.  An SDK may be forewarned that no gateway is active.
Life == INSTANCE RequestLife WITH
    Requests <- Requests, Forewarned <- Requests \ FromGateway,
    taken <- {r \in Requests : stage[r] # "new"},
    held <- {r \in Requests : stage[r] \in {"gateway", "session"}},
    replies <- [r \in Requests |-> Len(answers[r])]
ImplementsLife == Life!Spec

\* A request is answered once, however the gateway, the sessions and their
\* disconnects interleave, but for the SDK that was told that no gateway is active
\* (onGatewayInactivated), whom a session may answer as well.
AtMostOneAnswer ==
    \A r \in Requests :
        \/ Len(answers[r]) <= 1
        \/ Len(answers[r]) = 2 /\ answers[r][1] = "inactive"
           /\ answers[r][2] \in {"result", "unmatched"}

\* A request no callback is waited for any more has an answer, unless the session it
\* was given to is silent, the response to an SDK could not be decoded (the catch at
\* AMOPClient.cpp:184-188 and 221-225) or the client was destroyed: an error of the
\* gateway always leads to a session or to an error response.  A gateway whose request is
\* done with is always answered.
UnansweredExplained ==
    \A r \in Requests :
        stage[r] = "done" /\ answers[r] = <<>> =>
            r \notin FromGateway /\ (r \in silent \cup garbled \/ ~alive)

\* A gateway that passes on a request of a known type is called back, whether or not
\* there is a session, and though sessions disconnect and the client may be destroyed.
GatewayCalledBack ==
    \A r \in FromGateway :
        stage[r] # "new" ~> (stage[r] = "ignored" \/ answers[r] # <<>>)
=============================================================================
