\* A connection that breaks and the next one; a follower with a short channel.
CONSTANTS
    Streams = {s1, s2}
    Followers = {f1}
    MaxLines = 2
    LiveBuffer = 1
    WireSize = 1
    MaxFaults = 1
    None = None

SPECIFICATION FairSpec
\* The container may have nothing more to write, or the runtime has died.
CHECK_DEADLOCK FALSE

INVARIANTS
    ExactlyOnce
PROPERTIES
    LogFeedSpec
    LinesArrive
    WriterMovesOn
