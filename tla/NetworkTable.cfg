\* Two interfaces, one failing call and one crash of the agent, under fairness.
CONSTANTS
    Interfaces = {i1, i2}
    None = None
    Size = 4
    networkAddr <- HomeNetwork
    MaxSetups = 2
    MaxFailures = 1
    MaxRestarts = 1

SPECIFICATION FairSpec
\* With every interface released, or given up, there is nothing left to do.
CHECK_DEADLOCK FALSE

INVARIANTS
    SlotsMatchRows
    SetUpStaysUp
    FreeSlotIsClean
PROPERTIES
    ReleaseSucceeds
