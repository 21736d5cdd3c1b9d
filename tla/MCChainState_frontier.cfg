SPECIFICATION Spec
CONSTANTS
    Transfers <- MCTransfers
    Ins <- MCIns
    Outs <- MCOuts
    Premine <- MCPremine
    Blocks <- MCBlocks
    Genesis = 0
    NoBlock = NoBlock
    Worlds <- PlainWorlds
    Finalizable = {1, 2}
    MaxSupply = 6
    MaxAmount = 15
    InitialReward = 1
    HalvingInterval = 8
    MaxCrashes = 0
    MaxFaults = 0
PROPERTIES FinalizedNeverAbandoned
CHECK_DEADLOCK FALSE
