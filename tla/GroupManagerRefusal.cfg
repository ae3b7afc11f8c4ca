SPECIFICATION Spec
CONSTANTS
    g = g
    n1 = n1
    n2 = n2
    NoNode = NoNode
    Groups = {g}
    Nodes = {n1, n2}
    Clients = {c}
    MaxBlock = 1
SYMMETRY NodeSymmetry
INVARIANT RefusedMeansNoNode
