SPECIFICATION Spec
CONSTANTS
    Transfers <- MCTransfers
    Ins <- MCIns
    Outs <- MCOuts
    Premine <- MCPremine
    Blocks <- MCBlocks
    Genesis = 0
    NoBlock = NoBlock
    Worlds <- AllWorlds
    Finalizable = {}
    MaxSupply = 5
    MaxAmount = 15
    InitialReward = 1
    HalvingInterval = 8
    MaxCrashes = 0
    MaxFaults = 0
INVARIANTS TypeOK LiveUtxoIsVirtualReplay SupplyNeverExceedsCap ValueIsIssued SpentOnce ReorgNeverFails
CHECK_DEADLOCK FALSE
