SPECIFICATION Spec
CONSTANTS
    Transfers <- MCTransfers
    Ins <- MCIns
    Outs <- MCOuts
    Premine <- MCPremine
    Blocks <- MCBlocks
    Genesis = 0
    NoBlock = NoBlock
    Worlds <- ForkWorlds
    Finalizable = {}
    MaxSupply = 5
    MaxAmount = 15
    InitialReward = 1
    HalvingInterval = 8
    MaxCrashes = 2
    MaxFaults = 1
INVARIANTS LiveUtxoIsVirtualReplay JournalsMatchVirtual TipFollowsBest
PROPERTIES RestoreIsExact
CHECK_DEADLOCK FALSE
