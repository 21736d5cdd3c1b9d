SPECIFICATION Spec
CONSTANTS
    Accounts = {"a", "b", "c"}
    Operators = {"a", "b"}
    Delegators = {"c"}
    Terms <- MCTerms
    BondAmounts = {100}
    DelegateAmounts = {100}
    Fees = {7}
    EvidenceKinds = {"DoubleCheckpoint", "InvalidState"}
    InitialLiquid <- MCLiquid
    InitialReserve = 10
    MaxSupply = 530
    MaxValidators = 2
    MinSelfBond = 100
    UnbondingPeriod = 1
    MaxCommission = 5000
    MaxConcentration = 7000
    EpochDrip = 13
    MaxReorg = 1
    MaxOps = 4
    MaxReports = 2
    MaxEpoch = 1
    None = None
INVARIANTS TypeOK ConservedUnlessBreached JailedHasNoPower
PROPERTIES TombstonedForever
CHECK_DEADLOCK FALSE
