------------------------------ MODULE AmopProof ------------------------------
(***************************************************************************)
(* Proofs about the answers of the AMOP client, for any requests, topics,  *)
(* sessions and gateways: they keep to the life of a request, and the      *)
(* topics do beside the requests what AmopTopics says they do alone.       *)
(***************************************************************************)
EXTENDS Amop, AmopTopicsProof, SequenceTheorems

(***************************************************************************)
(* How many answers a request can have depends on who has it: only the SDK *)
(* that was told that no gateway is active has one while a session has the *)
(* request.                                                                *)
(***************************************************************************)
Responses == {"result", "error", "inactive", "unmatched"}

NoAnswer(r) == answers[r] = <<>>
ToldInactive(r) == answers[r] = <<"inactive">> /\ r \notin FromGateway
Last(r) == Len(answers[r]) = 1
Second(r) ==
    /\ Len(answers[r]) = 2
    /\ answers[r][1] = "inactive"
    /\ answers[r][2] \in {"result", "unmatched"}

AnswersSoFar(r) ==
    /\ stage[r] \in {"new", "gateway", "session", "done", "ignored"}
    /\ stage[r] \in {"new", "gateway", "ignored"} => NoAnswer(r)
    /\ stage[r] = "session" => NoAnswer(r) \/ ToldInactive(r)
    /\ stage[r] = "done" => NoAnswer(r) \/ Last(r) \/ Second(r)
    /\ stage[r] = "gateway" => r \notin FromGateway
    /\ stage[r] = "done" /\ NoAnswer(r) =>
         r \notin FromGateway /\ (r \in silent \cup garbled \/ ~alive)

AnswersType ==
    /\ DOMAIN stage = Requests
    /\ DOMAIN answers = Requests

\* The inductive invariant.
AInv == AnswersType /\ \A r \in Requests : AnswersSoFar(r)

LEMMA AInvInit == Init => AInv
BY DEF Init, AInv, AnswersType, AnswersSoFar, NoAnswer

\* A step of one request, for which it is enough to look at that request.
LEMMA OneRequest ==
    ASSUME AInv, NEW r \in Requests, NEW to, NEW answer,
           Goes(r, to),
           Answer(r, answer) \/ UNCHANGED answers,
           UNCHANGED alive, silent \subseteq silent', garbled \subseteq garbled',
           AnswersSoFar(r)'
    PROVE  AInv'
<1>1. AnswersType'
  BY DEF AInv, AnswersType, Goes, Answer
<1>2. ASSUME NEW q \in Requests, q # r PROVE AnswersSoFar(q)'
  <2>1. stage'[q] = stage[q] /\ answers'[q] = answers[q]
    BY <1>2 DEF AInv, AnswersType, Goes, Answer
  <2>q. QED
    BY <2>1 DEF AInv, AnswersSoFar, NoAnswer, ToldInactive, Last, Second
<1>q. QED
  BY <1>1, <1>2 DEF AInv

\* A request goes on without an answer, or gets one and is done.
LEMMA StageAndAnswers ==
    ASSUME AInv, NEW r \in Requests, NEW to, Goes(r, to)
    PROVE  /\ stage'[r] = to
           /\ UNCHANGED answers => answers'[r] = answers[r]
           /\ \A a : Answer(r, a) => answers'[r] = Append(answers[r], a)
BY DEF AInv, AnswersType, Goes, Answer

LEMMA AInvNext == AInv /\ [Next]_vars => AInv'
<1>. SUFFICES ASSUME AInv, [Next]_vars PROVE AInv'
  OBVIOUS
<1>1. ASSUME NEW r \in Requests, NEW t \in Topics, OnRecvAMOPRequest(r, t) PROVE AInv'
  <2>1. NoAnswer(r) /\ r \notin FromGateway /\ UNCHANGED <<alive, silent, garbled>>
    BY <1>1 DEF OnRecvAMOPRequest, Received, AInv, AnswersSoFar
  <2>2. CASE active = {}
    <3>1. PICK to \in {"done", "session"} : Goes(r, to)
      BY <1>1, <2>2 DEF OnRecvAMOPRequest
    <3>2. Answer(r, "inactive")
      BY <1>1, <2>2 DEF OnRecvAMOPRequest
    <3>3. stage'[r] = to /\ answers'[r] = <<"inactive">>
      BY <2>1, <3>1, <3>2, StageAndAnswers DEF NoAnswer
    <3>4. AnswersSoFar(r)'
      BY <2>1, <3>3 DEF AnswersSoFar, NoAnswer, ToldInactive, Last, Responses
    <3>. QED BY <2>1, <3>1, <3>2, <3>4, OneRequest
  <2>3. CASE active # {}
    <3>1. Goes(r, "gateway") /\ UNCHANGED answers
      BY <1>1, <2>3 DEF OnRecvAMOPRequest
    <3>2. AnswersSoFar(r)'
      BY <2>1, <3>1, StageAndAnswers DEF AnswersSoFar, NoAnswer
    <3>. QED BY <2>1, <3>1, <3>2, OneRequest
  <2>. QED BY <2>2, <2>3
<1>2. ASSUME NEW r \in Requests, NEW t \in Topics,
             AsyncNotifyAMOPMessage(r, t) \/ IgnoreMessage(r, t)
      PROVE  AInv'
  <2>1. NoAnswer(r) /\ UNCHANGED <<alive, silent, garbled>>
    BY <1>2 DEF AsyncNotifyAMOPMessage, IgnoreMessage, Received, AInv, AnswersSoFar
  <2>2. CASE Goes(r, "done") /\ Answer(r, "error")
    <3>1. stage'[r] = "done" /\ answers'[r] = <<"error">>
      BY <2>1, <2>2, StageAndAnswers DEF NoAnswer
    <3>2. AnswersSoFar(r)'
      BY <3>1 DEF AnswersSoFar, NoAnswer, Last, Responses
    <3>. QED BY <2>1, <2>2, <3>2, OneRequest
  <2>3. ASSUME NEW to \in {"session", "ignored"}, Goes(r, to), UNCHANGED answers PROVE AInv'
    <3>1. AnswersSoFar(r)'
      BY <2>1, <2>3, StageAndAnswers DEF AnswersSoFar, NoAnswer
    <3>. QED BY <2>1, <2>3, <3>1, OneRequest
  <2>. QED BY <1>2, <2>2, <2>3 DEF AsyncNotifyAMOPMessage, IgnoreMessage
<1>3. ASSUME NEW r \in Requests, GatewayResult(r) \/ GatewayError(r) PROVE AInv'
  <2>1. /\ NoAnswer(r) /\ r \notin FromGateway
        /\ UNCHANGED <<alive, silent>> /\ garbled \subseteq garbled'
    BY <1>3 DEF GatewayResult, GatewayError, PassOn, Continues, AInv, AnswersSoFar
  <2>2. ASSUME NEW a \in {"result", "error"}, Goes(r, "done"), Answer(r, a) PROVE AInv'
    <3>1. stage'[r] = "done" /\ answers'[r] = <<a>>
      BY <2>1, <2>2, StageAndAnswers DEF NoAnswer
    <3>2. AnswersSoFar(r)'
      BY <3>1 DEF AnswersSoFar, NoAnswer, Last, Responses
    <3>. QED BY <2>1, <2>2, <3>2, OneRequest
  <2>3. ASSUME NEW to \in {"done", "session"}, Goes(r, to), UNCHANGED answers,
               to = "done" => r \in garbled' \/ ~alive, r \notin FromGateway
        PROVE  AInv'
    <3>1. AnswersSoFar(r)'
      BY <2>1, <2>3, StageAndAnswers DEF AnswersSoFar, NoAnswer
    <3>. QED BY <2>1, <2>3, <3>1, OneRequest
  <2>4. CASE GatewayResult(r)
    BY <2>1, <2>2, <2>3, <2>4 DEF GatewayResult, PassOn
  <2>5. CASE GatewayError(r)
    BY <2>1, <2>2, <2>3, <2>5 DEF GatewayError
  <2>. QED BY <1>3, <2>4, <2>5
<1>4. ASSUME NEW r \in Requests, SessionResult(r) \/ SessionSilent(r) PROVE AInv'
  <2>1. /\ NoAnswer(r) \/ ToldInactive(r)
        /\ UNCHANGED alive /\ silent \subseteq silent' /\ garbled \subseteq garbled'
        /\ Goes(r, "done")
    BY <1>4 DEF SessionResult, SessionSilent, PassOn, Continues, AInv, AnswersSoFar
  <2>2. ASSUME NEW a \in {"result", "error", "unmatched"}, Answer(r, a),
               a = "error" => r \in FromGateway
        PROVE  AInv'
    <3>1. stage'[r] = "done" /\ answers'[r] = Append(answers[r], a)
      BY <2>1, <2>2, StageAndAnswers
    <3>2. ASSUME NoAnswer(r) PROVE AnswersSoFar(r)'
      BY <3>1, <3>2 DEF AnswersSoFar, NoAnswer, Last, Responses
    <3>3. ASSUME ToldInactive(r) PROVE AnswersSoFar(r)'
      <4>1. a \in {"result", "unmatched"}
        BY <2>2, <3>3 DEF ToldInactive
      <4>2. <<"inactive">> \in Seq(Responses) /\ a \in Responses
        BY DEF Responses
      <4>3. answers'[r] = Append(<<"inactive">>, a)
        BY <3>1, <3>3 DEF ToldInactive
      <4>4. /\ Len(answers'[r]) = 2
            /\ answers'[r][1] = "inactive" /\ answers'[r][2] = a
        BY <4>2, <4>3, AppendProperties
      <4>. QED BY <3>1, <4>1, <4>4 DEF AnswersSoFar, NoAnswer, Second
    <3>4. AnswersSoFar(r)'
      BY <2>1, <3>2, <3>3
    <3>. QED BY <2>1, <2>2, <3>4, OneRequest
  <2>3. ASSUME UNCHANGED answers, r \in silent' \cup garbled' \/ ~alive, r \notin FromGateway
        PROVE  AInv'
    <3>1. stage'[r] = "done" /\ answers'[r] = answers[r]
      BY <2>1, <2>3, StageAndAnswers
    <3>2. AnswersSoFar(r)'
      BY <2>1, <2>3, <3>1 DEF AnswersSoFar, NoAnswer, ToldInactive, Last, Responses
    <3>. QED BY <2>1, <2>3, <3>2, OneRequest
  <2>. QED BY <1>4, <2>2, <2>3 DEF SessionResult, SessionSilent, PassOn
<1>5. CASE Destroy
  BY <1>5 DEF Destroy, AInv, AnswersType, AnswersSoFar, NoAnswer, ToldInactive, Last, Second
<1>6. CASE UNCHANGED requestVars \/ UNCHANGED vars
  BY <1>6 DEF requestVars, vars, AInv, AnswersType, AnswersSoFar, NoAnswer, ToldInactive,
       Last, Second
<1>. QED BY <1>1, <1>2, <1>3, <1>4, <1>5, <1>6
         DEF Next, RequestNext, RequestStep, CallBack

LEMMA AInvAlways == Spec => []AInv
BY AInvInit, AInvNext, PTL DEF Spec

\* A request has one answer at most, but for the SDK that is told first that no gateway
\* is active (AMOPClient.cpp:106-228, 280-306, 478-503).
THEOREM AtMostOneAnswerHolds == Spec => []AtMostOneAnswer
<1>1. AInv => AtMostOneAnswer
  <2> SUFFICES ASSUME AInv, NEW r \in Requests
               PROVE  \/ Len(answers[r]) <= 1
                      \/ Len(answers[r]) = 2 /\ answers[r][1] = "inactive"
                         /\ answers[r][2] \in {"result", "unmatched"}
    BY DEF AtMostOneAnswer
  <2>1. NoAnswer(r) \/ ToldInactive(r) \/ Last(r) \/ Second(r)
    BY DEF AInv, AnswersSoFar
  <2>2. ASSUME NoAnswer(r) \/ ToldInactive(r) \/ Last(r) PROVE Len(answers[r]) <= 1
    <3>1. CASE NoAnswer(r)
      BY <3>1 DEF NoAnswer
    <3>2. CASE ToldInactive(r)
      BY <3>2 DEF ToldInactive
    <3>3. CASE Last(r)
      BY <3>3 DEF Last
    <3>. QED BY <2>2, <3>1, <3>2, <3>3
  <2>. QED BY <2>1, <2>2 DEF Second
<1>. QED BY <1>1, AInvAlways, PTL

\* A request that nobody has any more was answered, unless its session is silent, the
\* response to an SDK could not be decoded or the client is gone (AMOPClient.cpp:134-188,
\* 192-228).
THEOREM UnansweredExplainedHolds == Spec => []UnansweredExplained
<1>1. AInv => UnansweredExplained
  BY DEF AInv, AnswersSoFar, NoAnswer, UnansweredExplained
<1>. QED BY <1>1, AInvAlways, PTL

----------------------------------------------------------------------------
(***************************************************************************)
(* The topics, and type correctness.                                       *)
(***************************************************************************)
\* A step of the client is one of the topics or leaves them alone.
LEMMA TopicsKept == Spec => TopicSpec
<1>1. Init => TopicInit
  BY DEF Init
<1>2. [Next]_vars => [TopicNext]_topicVars
  BY DEF Next, vars, topicVars
<1>. QED BY <1>1, <1>2, PTL DEF Spec, TopicSpec

\* What is promised of the topics is kept while requests are passed on, answered and
\* the client is destroyed, until calls to the gateways fail (AMOPClient.cpp:58-101,
\* 366-529): HeldUnlessLost names what a failed call leaves behind.
THEOREM TopicsInside ==
    Spec => [](DeadSessionsForgotten /\ HeldUnlessLost) /\ RecordedWhileSubscribed
BY TopicsKept, DeadSessionsForgottenHolds, HeldUnlessLostHolds,
   RecordedWhileSubscribedHolds, PTL

Stages == {"new", "gateway", "session", "done", "ignored"}

RequestTypes ==
    /\ alive \in BOOLEAN
    /\ stage \in [Requests -> Stages]
    /\ topicOf \in [Requests -> SUBSET Topics]
    /\ answers \in [Requests -> Seq(Responses)]
    /\ silent \subseteq Requests
    /\ garbled \subseteq Requests

LEMMA RequestTypesStep ==
    ASSUME RequestTypes, RequestNext
    PROVE  RequestTypes'
<1>. USE DEF RequestTypes
<1>1. ASSUME NEW r \in Requests, NEW to \in Stages, NEW answer \in Responses,
             Goes(r, to), Answer(r, answer) \/ UNCHANGED answers
      PROVE  /\ stage' \in [Requests -> Stages]
             /\ answers' \in [Requests -> Seq(Responses)]
  <2>1. Append(answers[r], answer) \in Seq(Responses)
    BY <1>1, AppendProperties
  <2>. QED BY <1>1, <2>1 DEF Goes, Answer
<1>2. ASSUME NEW r \in Requests, NEW t \in Topics,
             OnRecvAMOPRequest(r, t) \/ AsyncNotifyAMOPMessage(r, t) \/ IgnoreMessage(r, t)
      PROVE  RequestTypes'
  <2>1. /\ topicOf' = [topicOf EXCEPT ![r] = {t}]
        /\ UNCHANGED <<alive, silent, garbled>>
    BY <1>2 DEF OnRecvAMOPRequest, AsyncNotifyAMOPMessage, IgnoreMessage, Received
  <2>2. PICK to \in Stages : Goes(r, to)
    BY <1>2 DEF OnRecvAMOPRequest, AsyncNotifyAMOPMessage, IgnoreMessage, Stages
  <2>3. Answer(r, "inactive") \/ Answer(r, "error") \/ UNCHANGED answers
    BY <1>2 DEF OnRecvAMOPRequest, AsyncNotifyAMOPMessage, IgnoreMessage
  <2>4. "inactive" \in Responses /\ "error" \in Responses
    BY DEF Responses
  <2>. QED BY <1>1, <2>1, <2>2, <2>3, <2>4
<1>3. ASSUME NEW r \in Requests, CallBack(r) PROVE RequestTypes'
  <2>1. /\ topicOf' = topicOf /\ alive' = alive
        /\ silent' \subseteq Requests /\ garbled' \subseteq Requests
    BY <1>3 DEF CallBack, GatewayResult, GatewayError, SessionResult, SessionSilent, PassOn,
                Continues
  <2>2. PICK to \in Stages : Goes(r, to)
    BY <1>3 DEF CallBack, GatewayResult, GatewayError, SessionResult, SessionSilent, Stages
  <2>3. Answer(r, "result") \/ Answer(r, "error") \/ Answer(r, "unmatched") \/ UNCHANGED answers
    BY <1>3 DEF CallBack, GatewayResult, GatewayError, SessionResult, SessionSilent, PassOn
  <2>4. "result" \in Responses /\ "error" \in Responses /\ "unmatched" \in Responses
    BY DEF Responses
  <2>. QED BY <1>1, <2>1, <2>2, <2>3, <2>4
<1>4. CASE Destroy
  BY <1>4 DEF Destroy
<1>. QED BY <1>2, <1>3, <1>4 DEF RequestNext, RequestStep

LEMMA RequestTypesInit == Init => RequestTypes
BY DEF Init, RequestTypes, Stages

LEMMA RequestTypesNext == RequestTypes /\ [Next]_vars => RequestTypes'
<1>1. ASSUME RequestTypes, UNCHANGED requestVars \/ UNCHANGED vars PROVE RequestTypes'
  BY <1>1 DEF requestVars, vars, RequestTypes
<1>. QED BY <1>1, RequestTypesStep DEF Next

\* Type correctness of the whole client (AMOPClient.h:196-228).
THEOREM AmopTypeCorrect == Spec => []TypeOK
<1>1. TopicTypeOK /\ RequestTypes => TypeOK
  BY DEF TypeOK, RequestTypes, Stages, Responses
<1>. QED
  BY <1>1, RequestTypesInit, RequestTypesNext, TopicsKept, TopicTypeCorrect, PTL DEF Spec

----------------------------------------------------------------------------
(***************************************************************************)
(* The life of a request.                                                  *)
(***************************************************************************)
Taken == {r \in Requests : stage[r] # "new"}
Held == {r \in Requests : stage[r] \in {"gateway", "session"}}
Replies == [r \in Requests |-> Len(answers[r])]

LEMMA MovesOn ==
    ASSUME RequestTypes, NEW r \in Requests, NEW to \in Stages \ {"new"}, Goes(r, to)
    PROVE  /\ Taken' = Taken \cup {r}
           /\ Held' = IF to \in {"gateway", "session"} THEN Held \cup {r} ELSE Held \ {r}
<1>1. \A q \in Requests : stage'[q] = IF q = r THEN to ELSE stage[q]
  BY DEF RequestTypes, Goes
<1>. QED BY <1>1 DEF Taken, Held, Stages

LEMMA OneAnswer ==
    ASSUME RequestTypes, NEW r \in Requests, NEW answer \in Responses, Answer(r, answer)
    PROVE  Replies' = [Replies EXCEPT ![r] = @ + 1]
<1>1. Len(Append(answers[r], answer)) = Len(answers[r]) + 1
  <2>1. answers[r] \in Seq(Responses)
    BY DEF RequestTypes
  <2>. QED BY <2>1, AppendProperties
<1>2. \A q \in Requests : Len(answers'[q]) = IF q = r THEN Replies[r] + 1 ELSE Replies[q]
  BY <1>1 DEF RequestTypes, Answer, Replies
<1>3. Replies' = [q \in Requests |-> IF q = r THEN Replies[r] + 1 ELSE Replies[q]]
  BY <1>2 DEF Replies
<1>4. DOMAIN Replies = Requests
  BY DEF Replies
<1>. QED BY <1>3, <1>4

\* A request moves on from where it was, with an answer or without one.
LEMMA LifeStep ==
    ASSUME RequestTypes, NEW r \in Requests, r \notin Taken \/ r \in Held,
           NEW to \in Stages \ {"new"}, Goes(r, to), NEW answer \in Responses,
           \/ UNCHANGED answers
           \/ Answer(r, answer) /\ to \notin {"gateway", "session"}
           \/ Answer(r, answer) /\ r \notin Taken /\ r \notin FromGateway
    PROVE  [Life!Next]_(Life!vars)
<1>. USE DEF Life!Next, Life!vars, Life!Take, Life!LetGo, Life!Open, Life!OneReply,
             Taken, Held, Replies
<1>1. /\ Taken' = Taken \cup {r}
      /\ Held' = IF to \in {"gateway", "session"} THEN Held \cup {r} ELSE Held \ {r}
  BY MovesOn
<1>2. Answer(r, answer) => Replies' = [Replies EXCEPT ![r] = @ + 1]
  BY OneAnswer
<1>3. UNCHANGED answers => UNCHANGED Replies
  OBVIOUS
<1>4. r \in Taken => Taken' = Taken
  BY <1>1
<1>5. r \in Held /\ to \in {"gateway", "session"} => Held' = Held
  BY <1>1
<1>. QED BY <1>1, <1>2, <1>3, <1>4, <1>5

LEMMA LifeNext == RequestTypes /\ [Next]_vars => [Life!Next]_(Life!vars)
<1>. SUFFICES ASSUME RequestTypes, [Next]_vars PROVE [Life!Next]_(Life!vars)
  OBVIOUS
<1>1. ASSUME NEW r \in Requests, NEW t \in Topics,
             OnRecvAMOPRequest(r, t) \/ AsyncNotifyAMOPMessage(r, t) \/ IgnoreMessage(r, t)
      PROVE  [Life!Next]_(Life!vars)
  <2>1. r \notin Taken
    BY <1>1 DEF OnRecvAMOPRequest, AsyncNotifyAMOPMessage, IgnoreMessage, Received, Taken
  <2>2. CASE OnRecvAMOPRequest(r, t)
    <3>1. r \notin FromGateway
      BY <2>2 DEF OnRecvAMOPRequest
    <3>2. PICK to \in {"done", "session", "gateway"} :
            Goes(r, to) /\ (Answer(r, "inactive") \/ UNCHANGED answers)
      BY <2>2 DEF OnRecvAMOPRequest
    <3>. QED BY <2>1, <3>1, <3>2, LifeStep DEF Stages, Responses
  <2>3. CASE AsyncNotifyAMOPMessage(r, t) \/ IgnoreMessage(r, t)
    <3>1. \/ Goes(r, "done") /\ Answer(r, "error")
          \/ Goes(r, "session") /\ UNCHANGED answers
          \/ Goes(r, "ignored") /\ UNCHANGED answers
      BY <2>3 DEF AsyncNotifyAMOPMessage, IgnoreMessage
    <3>. QED BY <2>1, <3>1, LifeStep DEF Stages, Responses
  <2>. QED BY <1>1, <2>2, <2>3
<1>2. ASSUME NEW r \in Requests, CallBack(r) PROVE [Life!Next]_(Life!vars)
  <2>1. r \in Held
    BY <1>2 DEF CallBack, GatewayResult, GatewayError, SessionResult, SessionSilent,
                Continues, Held
  <2>2. \/ Goes(r, "session") /\ UNCHANGED answers
        \/ /\ Goes(r, "done")
           /\ \/ UNCHANGED answers
              \/ \E answer \in {"result", "error", "unmatched"} : Answer(r, answer)
    BY <1>2 DEF CallBack, GatewayResult, GatewayError, SessionResult, SessionSilent, PassOn
  <2>. QED BY <2>1, <2>2, LifeStep DEF Stages, Responses
<1>3. CASE UNCHANGED <<stage, answers>>
  BY <1>3 DEF Life!vars
<1>4. CASE Destroy \/ UNCHANGED requestVars \/ UNCHANGED vars
  BY <1>3, <1>4 DEF Destroy, requestVars, vars
<1>. QED BY <1>1, <1>2, <1>4 DEF Next, RequestNext, RequestStep

\* Requests of SDKs and of gateways keep to the life of a request: who has let go of
\* one never answers it or passes it on (AMOPClient.cpp:106-306).
THEOREM ImplementsLifeHolds == Spec => ImplementsLife
<1>1. Init => Life!Init
  BY DEF Init, Life!Init
<1>. QED
  BY <1>1, RequestTypesInit, RequestTypesNext, LifeNext, PTL DEF Spec, ImplementsLife, Life!Spec

----------------------------------------------------------------------------
(***************************************************************************)
(* A gateway that passes on a request is called back.  Such a request      *)
(* never goes back to a gateway: it is with a session, ignored, or         *)
(* answered, so that one callback of the session is enough.                *)
(***************************************************************************)
PassedOn(r) ==
    /\ stage[r] # "gateway"
    /\ stage[r] = "done" => answers[r] # <<>>

LEMMA PassedOnNext ==
    ASSUME AInv, NEW r \in FromGateway, PassedOn(r), [Next]_vars
    PROVE  /\ PassedOn(r)'
           /\ stage[r] = "session" => stage'[r] \in {"session", "done"}
<1>. r \in Requests /\ DOMAIN stage = Requests /\ DOMAIN answers = Requests
  BY RequestsAssumption DEF AInv, AnswersType
<1>1. ASSUME stage'[r] = stage[r], answers'[r] = answers[r]
      PROVE  /\ PassedOn(r)'
             /\ stage[r] = "session" => stage'[r] \in {"session", "done"}
  BY <1>1 DEF PassedOn
<1>2. ASSUME NEW q \in Requests, q # r, RequestStep(q)
      PROVE  stage'[r] = stage[r] /\ answers'[r] = answers[r]
  BY <1>2 DEF RequestStep, OnRecvAMOPRequest, AsyncNotifyAMOPMessage, IgnoreMessage, CallBack,
              GatewayResult, GatewayError, SessionResult, SessionSilent, PassOn, Goes,
              Answer
<1>3. ASSUME NEW answer \in Responses, Answer(r, answer), stage[r] \in {"new", "session"}
      PROVE  answers'[r] # <<>>
  <2>1. answers[r] = <<>>
    BY <1>3 DEF AInv, AnswersSoFar, NoAnswer, ToldInactive
  <2>2. answers'[r] = <<answer>>
    BY <1>3, <2>1 DEF Answer
  <2>. QED BY <2>2
<1>4. ASSUME NEW t \in Topics, AsyncNotifyAMOPMessage(r, t) \/ IgnoreMessage(r, t)
      PROVE  PassedOn(r)' /\ stage[r] = "new"
  BY <1>3, <1>4 DEF AsyncNotifyAMOPMessage, IgnoreMessage, Received, Goes, PassedOn, Responses
<1>5. CASE CallBack(r)
  <2>1. Goes(r, "done") /\ stage[r] = "session"
    BY <1>5 DEF CallBack, GatewayResult, GatewayError, SessionResult, SessionSilent, Continues,
                PassedOn
  <2>2. \E answer \in Responses : Answer(r, answer)
    BY <1>5, <2>1 DEF CallBack, GatewayResult, GatewayError, SessionResult, SessionSilent,
                      Continues, Responses
  <2>. QED BY <1>3, <2>1, <2>2 DEF Goes, PassedOn
<1>6. CASE RequestStep(r)
  BY <1>4, <1>5, <1>6 DEF RequestStep, OnRecvAMOPRequest
<1>7. CASE Destroy \/ UNCHANGED requestVars \/ UNCHANGED vars
  BY <1>1, <1>7 DEF Destroy, requestVars, vars
<1>. QED BY <1>1, <1>2, <1>6, <1>7 DEF Next, RequestNext

\* What tlapm, which cannot expand ENABLED, is given: the guard of the callbacks
\* (AMOPClient.cpp:134-278).
CallBackPossible ==
    \A r \in Requests :
        stage[r] \in {"gateway", "session"} => ENABLED <<CalledBack(r)>>_vars

LEMMA SessionCallsBack ==
    ASSUME NEW r \in FromGateway
    PROVE  Spec /\ FairCallBack(r) /\ []CallBackPossible =>
             (stage[r] # "new" ~> (stage[r] = "ignored" \/ answers[r] # <<>>))
<1>0. r \in Requests
  BY RequestsAssumption
<1>1. Init => PassedOn(r)
  BY <1>0 DEF Init, PassedOn
<1>2. AInv /\ PassedOn(r) /\ [Next]_vars => PassedOn(r)'
  BY PassedOnNext
<1>3. AInv /\ PassedOn(r) /\ stage[r] # "new" =>
        stage[r] = "session" \/ stage[r] = "ignored" \/ answers[r] # <<>>
  BY <1>0 DEF AInv, AnswersSoFar, PassedOn
<1>4. AInv /\ PassedOn(r) /\ [Next]_vars /\ stage[r] = "session" =>
        (stage[r] = "session")' \/ (answers[r] # <<>>)'
  BY PassedOnNext DEF PassedOn
<1>5. AInv /\ stage[r] = "session" /\ <<CalledBack(r)>>_vars => ~(stage[r] = "session")'
  BY <1>0 DEF AInv, AnswersType, CalledBack, CallBack, GatewayResult, GatewayError, SessionResult,
         SessionSilent, Continues, Goes
<1>6. CallBackPossible /\ stage[r] = "session" => ENABLED <<CalledBack(r)>>_vars
  BY <1>0 DEF CallBackPossible
<1>. QED BY <1>1, <1>2, <1>3, <1>4, <1>5, <1>6, AInvAlways, PTL DEF Spec, FairCallBack

\* A gateway that passes on a request of a known type is called back, whatever happens
\* to the session and to the client meanwhile, if sessions answer or run out of time
\* (AMOPClient.cpp:230-306).  CallBackPossible, which only says ENABLED of the guard of
\* the callbacks, is a hypothesis.
THEOREM GatewayCalledBackHolds == FairSpec /\ []CallBackPossible => GatewayCalledBack
<1>. SUFFICES ASSUME FairSpec, []CallBackPossible, NEW r \in FromGateway
              PROVE  stage[r] # "new" ~> (stage[r] = "ignored" \/ answers[r] # <<>>)
  BY DEF GatewayCalledBack
<1>1. r \in Requests
  BY RequestsAssumption
<1>2. FairCallBack(r) /\ Spec
  BY <1>1 DEF FairSpec
<1>. QED BY <1>2, SessionCallsBack, PTL
=============================================================================
