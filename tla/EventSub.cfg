SPECIFICATION FairSpec
CONSTANTS
    a = a
    g = g
    s = s
    c1 = c1
    c2 = c2
    NoTask = NoTask
    Requests <- ShortOnly
    Ids = {a}
    Groups = {g}
    Sessions = {s}
    Chains = {c1, c2}
    MaxBlock = 3
    MaxBlockProcessPerLoop = 2
    Unsubscribable = {a}
    Unstable = {g}
INVARIANT TypeOK
INVARIANT NoGap
INVARIANT NoStuckWork
INVARIANT UnsubscribeKept
PROPERTY ImplementsStream
PROPERTY KeepsLooping
PROPERTY CancelEffective
PROPERTY DisconnectedRemoved
PROPERTY EventuallyCompleted
\* After stop() the service ends: nothing has to happen any more.
CHECK_DEADLOCK FALSE
