\* One machine, two faults: streams that end, failing calls, crashes of the agent.
CONSTANTS
    Machines = {m1}
    Connections = {c1, c2}
    MaxFaults = 2
    None = None

SPECIFICATION FairSpec
\* The control plane may want nothing more.
CHECK_DEADLOCK FALSE

INVARIANTS
    SyncedMissesNothing
    AgreesWhenIdle
PROPERTIES
    EventuallyHeard
    TerminationIsLearned
