SPECIFICATION RpcSpec
CONSTANTS
    g = g
    n = n
    s = s
    c = c
    NoNode = NoNode
    Groups = {g}
    Nodes = {n}
    Clients = {c}
    MaxBlock = 1
    Sessions = {s}
INVARIANTS
    StaleOnlyIfOvertaken
    ToldBlockKnown
