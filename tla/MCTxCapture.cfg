SPECIFICATION SeededSpec
CONSTANTS
    None = None
    Merchant = {m1}
    Customer = {c1}
    Payment = {p1, p2}
    Key = {k1, k2}
    Client = {a, b, c}
    Amount = {1, 2}
    Currency = {"PLN"}
    RiskLevel = {1}
    HighAmount = 5
    Operation = {"authorize", "capture", "cancel", "refund", "fund"}
    MaxRequests = 4
    MaxRetries = 0
    Deposit = 3
    SeedStatus = "AUTHORIZED"
    SeedAmount = 2
    SeedPayments = {p1, p2}
SYMMETRY Symmetry
CHECK_DEADLOCK FALSE
INVARIANTS
    BalanceReadIsSafe
    FundsStillThere
    RowReadIsCurrent
    BackstopIsSilent
    NoDeadlock
PROPERTIES
    StepsAreSerial
