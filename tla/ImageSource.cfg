\* Two machines, no failure: the agent dies once.
CONSTANTS
    Machines = {m1, m2}
    None = None
    MaxFailures = 0
    MaxRestarts = 1

SPECIFICATION Spec
SYMMETRY Symmetry
CHECK_DEADLOCK FALSE

INVARIANTS
    SnapshotOfSource
