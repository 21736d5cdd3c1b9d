SPECIFICATION Spec
CONSTANTS
    Transfers <- MCTransfers
    Ins <- MCIns
    Outs <- MCOuts
    Premine <- MCPremine
    Blocks <- MCBlocks
    Genesis = 0
    NoBlock = NoBlock
    Worlds <- AllWorlds
    Finalizable = {}
    MaxSupply = 6
    MaxAmount = 15
    InitialReward = 1
    HalvingInterval = 8
    MaxCrashes = 0
    MaxFaults = 0
INVARIANTS EmptyMergeIsValid
CHECK_DEADLOCK FALSE
