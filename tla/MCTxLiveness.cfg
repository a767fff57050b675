SPECIFICATION SeededFairSpec
CONSTANTS
    None = None
    Merchant = {m1}
    Customer = {c1}
    Payment = {p1, p2}
    Key = {k1, k2}
    Client = {a, b}
    Amount = {1, 2}
    Currency = {"PLN"}
    RiskLevel = {1}
    HighAmount = 5
    Operation = {"create", "authorize", "capture", "cancel", "refund", "fund"}
    MaxRequests = 3
    MaxRetries = 1
    Deposit = 2
    SeedStatus = "PENDING"
    SeedAmount = 2
    SeedPayments = {p1}

CHECK_DEADLOCK FALSE
PROPERTIES
    RequestsEnd
