CONSTANTS
    Genesis = 0
    GenesisWork = 1
    Candidates <- TwoBranches
    K = 1
    MaxParents = 2
    MaxStray = 0
SPECIFICATION Spec
INVARIANT CandidateIsAppliedLast
