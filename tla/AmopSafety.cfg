\* A request of an SDK and one of a gateway, one topic, a session that subscribes, late
\* or not, and disconnects, a gateway that fails.
CONSTANTS
    s1 = s1
    r1 = r1
    q1 = q1
    Topics = {ta}
    Sessions = {s1}
    Gateways = {g1}
    Failing = {g1}
    MaxSubscriptions = 1
    Requests = {r1, q1}
    FromGateway = {q1}
SPECIFICATION FairSpec
INVARIANTS
    TypeOK
    UnansweredExplained
PROPERTY ImplementsLife
PROPERTY GatewayCalledBack
\* Once the client is destroyed and every request is done nothing has to happen.
CHECK_DEADLOCK FALSE
