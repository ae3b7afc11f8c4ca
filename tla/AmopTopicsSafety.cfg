\* Two sessions that subscribe to two topics, disconnect and subscribe late,
\* and one gateway that stays up.
CONSTANTS
    s1 = s1
    s2 = s2
    Topics = {ta, tb}
    Sessions = {s1, s2}
    Gateways = {g1}
    Failing = {}
    MaxSubscriptions = 3
SYMMETRY SessionSymmetry
SPECIFICATION TopicSpec
INVARIANTS
    DeadSessionsForgotten
PROPERTY RecordedWhileSubscribed
