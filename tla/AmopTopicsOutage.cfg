\* Two gateways that come and go, one topic, one session.
CONSTANTS
    s1 = s1
    s2 = s2
    Topics = {ta}
    Sessions = {s1}
    Gateways = {g1, g2}
    Failing = {g1, g2}
    MaxSubscriptions = 2
SPECIFICATION FairTopicSpec
INVARIANT HeldUnlessLost
PROPERTY ResubscribedAfterOutage
