\* Two runs: a restart, and the decision against a second one.
CONSTANTS
    MaxRuns = 2
    MaxRetries = 1

SPECIFICATION Spec
\* The guest dies, the container stops, or the bound on runs is reached.
CHECK_DEADLOCK FALSE

INVARIANTS
    ReportedWhenStopped
    ReportedWhenRunning
    RestartsAsConfigured
    ConfinedOnce
