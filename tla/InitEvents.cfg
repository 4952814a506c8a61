\* Two subscribers come, and one may leave, while two events are published.
CONSTANTS
    Events = {e1, e2}
    Subscribers = {s1, s2}
    MayLeave = {s1}
    Recorder = Recorder
    None = None

SPECIFICATION FairSpec
\* Init waits for events, is stuck, or has panicked.
CHECK_DEADLOCK FALSE

INVARIANTS
    LiveSendsFindChannelOpen
    NothingFallsBetween
PROPERTIES
    ReachesEverybody
