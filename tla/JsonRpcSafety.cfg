SPECIFICATION FairSpec
CONSTANTS
    g = g
    Requests = {1, 2}
    Groups = {g}
    GroupOf <- OneGroup
    Uninitialized = {"sync"}
INVARIANT TypeOK
INVARIANT UnansweredExplained
INVARIANT ErrorsReported
PROPERTY ImplementsLife
PROPERTY EventuallyAnswered
