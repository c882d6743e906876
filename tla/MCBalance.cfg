SPECIFICATION FairSpec
CONSTANTS
    Keys = {k1, k2}
    Imports = {}
    EnvBrokers = {"questrade"}
    NoRow = NoRow
    AccountOf <- Accounts
    USDCADRate = 73
INVARIANTS
    TypeOK
    ReplyCoversConnected
    TotalIsSumOfStatuses
PROPERTY
    BalanceAnswered
