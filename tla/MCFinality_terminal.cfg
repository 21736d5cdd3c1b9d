SPECIFICATION Spec
CONSTANTS
    Blocks <- MCBlocks
    Genesis = 0
    Order <- MCOrder
    Score <- MCScore
    Rank <- MCRank
    Sets <- MCSets
    Validators <- MCValidators
    Weight <- MCWeight
    Checkpoints = {1, 2}
    Foreign <- MCForeign
    MinPowDepth = 1
    None = None
PROPERTIES FinalizedIsTerminal
CHECK_DEADLOCK FALSE
