SPECIFICATION FairSpec
CONSTANTS
    Transfers <- MCTransfers
    Ins <- MCIns
    Outs <- MCOuts
    Premine <- MCPremine
    Blocks <- MCBlocks
    Genesis = 0
    NoBlock = NoBlock
    Worlds <- RivalWorlds
    Finalizable = {2}
    MaxSupply = 6
    MaxAmount = 15
    InitialReward = 1
    HalvingInterval = 8
    MaxCrashes = 1
    MaxFaults = 0
PROPERTIES FinalizedNeverAbandoned PendingResolves
CHECK_DEADLOCK FALSE
