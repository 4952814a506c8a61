\* One request (requests share nothing but the file), two containers.
CONSTANTS
    Requests = {r1}
    Containers = {c1, c2}
    Console = console
    MaxLines = 3

SPECIFICATION FairSpec
\* Nobody may ask any more, or the one who asked waits until he hangs up.
CHECK_DEADLOCK FALSE

INVARIANTS
    AnsweredInFull
PROPERTIES
    AgentFeedSpec
    RequestsEnd
