\* Three connections of the listener, enough errors to reach state error; or one,
\* and a SetState that installs an outdated copy.
CONSTANTS
    Reconcilers = {r1, r2, r3}
    Listeners = {l1, l2}
    None = None
    InitialDesired = {"running"}
    Requestable = {"running"}
    MaxRequests = 0
    MaxFailures = 0
    MaxTicks = 3
    MaxDisturbances = 0
    MaxRestarts = 0
    MaxStaleWrites = 1
    MaxTicksHolding = 1

SPECIFICATION Spec
\* A controller with nothing left to do waits for ever.
CHECK_DEADLOCK FALSE
SYMMETRY Symmetry

INVARIANTS
    ObservedWhenQuiet
    OverlapCostsStaleWrites
