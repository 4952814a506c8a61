\* A launch that leaves its hypervisor behind, one that meets it, and the next.
CONSTANTS
    MaxLaunches = 4
    MaxFaults = 2

SPECIFICATION FairSpec
\* The agent may start no further runtime.
CHECK_DEADLOCK FALSE

INVARIANTS
    OneMachine
    GracefulMeansStopped
    FoundNeverRuns
PROPERTIES
    StopEnds
