\* Fairness, one failure around one change of the desired state.
CONSTANTS
    Reconcilers = {r1}
    Listeners = {l1}
    None = None
    InitialDesired = {"running"}
    Requestable = {"terminated"}
    MaxRequests = 1
    MaxFailures = 1
    MaxTicks = 0
    MaxDisturbances = 2
    MaxRestarts = 0
    MaxStaleWrites = 0
    MaxTicksHolding = 0

SPECIFICATION FairSpec
\* A controller with nothing left to do waits for ever.
CHECK_DEADLOCK FALSE

INVARIANTS
    MemoryMatchesRow
    StoppedMeansRecorded
PROPERTIES
    LifeSpec
    EventuallySettled
    MessagesDrain
