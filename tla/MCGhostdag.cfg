CONSTANTS
    Genesis = 2
    GenesisWork = 1
    Candidates <- AllCandidates
    K = 1
    MaxParents = 2
    MaxStray = 1
SPECIFICATION Spec
INVARIANTS
    TypeOK
    ColoringIgnoresArrivalOrder
    WorkGrowsAlongParents
    VirtualTipRanksHighest
    SelectedChainAppliesInOrder
PROPERTY
    DurableColoringNeverChanges
\* A node whose store lacks a parent of a durable block cannot start again.
CHECK_DEADLOCK FALSE
