CONSTANTS
    d1 = d1
    d2 = d2
    Digits = {d1, d2}
    EVENT_LOG_TOPICS_MAX_INDEX = 2
    Requests <- SomeRequests
    Blocks <- SomeBlocks
SPECIFICATION Spec
INVARIANTS
    TypeOK
    OnlyWantedPushed
    AllWantedPushed
\* A refused request has no further step.
CHECK_DEADLOCK FALSE
