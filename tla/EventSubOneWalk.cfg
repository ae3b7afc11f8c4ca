SPECIFICATION Spec
CONSTANTS
    a = a
    g = g
    s = s
    c1 = c1
    c2 = c2
    NoTask = NoTask
    Requests <- BoundedOnly
    Ids = {a}
    Groups = {g}
    Sessions = {s}
    Chains = {c1, c2}
    MaxBlock = 4
    MaxBlockProcessPerLoop = 2
    Unsubscribable = {a}
    Unstable = {g}
INVARIANT OneWalkPerTask
\* After stop() the service ends: nothing has to happen any more.
CHECK_DEADLOCK FALSE
