\* A subscription to more than one topic.
CONSTANTS
    s1 = s1
    s2 = s2
    Topics = {ta, tb}
    Sessions = {s1}
    Gateways = {g1}
    Failing = {}
    MaxSubscriptions = 1
SPECIFICATION TopicSpec
INVARIANT SubscriptionsRecorded
