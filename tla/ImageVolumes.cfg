\* Two machines share an image, two calls fail and the agent dies once.
CONSTANTS
    Machines = {m1, m2}
    None = None
    MaxFailures = 2
    MaxRestarts = 1

SPECIFICATION FairSpec
\* With every machine ready or terminated there is nothing left to do.
CHECK_DEADLOCK FALSE

INVARIANTS
    OnePullAtATime
    SnapshotsAreWhole
    RowKnowsVolume
PROPERTIES
    GetsItsVolume
