SPECIFICATION FairSpec
CONSTANTS
    g = g
    n1 = n1
    n2 = n2
    NoNode = NoNode
    Groups = {g}
    Nodes = {n1, n2}
    Clients = {c}
    MaxBlock = 2
INVARIANT TypeOK
INVARIANT NoOrphanService
INVARIANT ClientsInformed
INVARIANT NumberHasNodes
INVARIANT ChosenIsUpToDate
PROPERTY NumberMonotone
PROPERTY RandomRefusedExplained
PROPERTY UnreachableRemoved
