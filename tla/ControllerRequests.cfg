\* Two disturbances: changes of the desired state, in any order, or one of them
\* and a crash of the agent.
CONSTANTS
    Reconcilers = {r1, r2}
    Listeners = {l1, l2}
    None = None
    InitialDesired = {"pending", "running"}
    Requestable = {"running", "terminated"}
    MaxRequests = 2
    MaxFailures = 0
    MaxTicks = 0
    MaxDisturbances = 2
    MaxRestarts = 1
    MaxStaleWrites = 0
    MaxTicksHolding = 0

SPECIFICATION Spec
\* A controller with nothing left to do waits for ever.
CHECK_DEADLOCK FALSE
SYMMETRY Symmetry

INVARIANTS
    PointersMatchGoroutines
    ConvergedWhenQuiet
    TerminatedIsClean
