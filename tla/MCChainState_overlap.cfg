SPECIFICATION Spec
CONSTANTS
    Transfers <- MCTransfers
    Ins <- MCIns
    Outs <- MCOuts
    Premine <- MCPremine
    Blocks <- MCBlocks
    Genesis = 0
    NoBlock = NoBlock
    Worlds <- SpendingWorlds
    Finalizable = {}
    MaxSupply = 6
    MaxAmount = 15
    InitialReward = 1
    HalvingInterval = 8
    MaxCrashes = 1
    MaxFaults = 0
INVARIANTS LiveUtxoIsVirtualReplay
CHECK_DEADLOCK FALSE
