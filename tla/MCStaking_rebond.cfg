SPECIFICATION Spec
CONSTANTS
    Accounts = {"a", "b", "c"}
    Operators = {"a", "b"}
    Delegators = {"c"}
    Terms <- MCTerms
    BondAmounts = {100}
    DelegateAmounts = {100}
    Fees = {7}
    EvidenceKinds = {"DoubleCheckpoint", "InvalidState"}
    InitialLiquid <- MCLiquid
    InitialReserve = 20
    MaxSupply = 520
    MaxValidators = 2
    MinSelfBond = 100
    UnbondingPeriod = 1
    MaxCommission = 5000
    MaxConcentration = 7000
    EpochDrip = 13
    MaxReorg = 1
    MaxOps = 4
    MaxReports = 1
    MaxEpoch = 2
    None = None
INVARIANTS StakeIsConserved
CHECK_DEADLOCK FALSE
