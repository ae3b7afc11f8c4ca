CONSTANTS
    d1 = d1
    d2 = d2
    Digits = {d1, d2}
    EVENT_LOG_TOPICS_MAX_INDEX = 2
    Requests <- DocumentedRequests
    Blocks <- SomeBlocks
SPECIFICATION Spec
INVARIANT DocumentedRequestMatches
