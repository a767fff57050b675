SPECIFICATION SeededSpec
CONSTANTS
    None = None
    Merchant = {m1}
    Customer = {c1}
    Payment = {p1}
    Key = {k1}
    Client = {a}
    Amount = {1, 2}
    Currency = {"PLN"}
    RiskLevel = {1}
    HighAmount = 5
    Operation = {"capture", "refund"}
    MaxRequests = 2
    MaxRetries = 1
    Deposit = 2
    SeedStatus = "AUTHORIZED"
    SeedAmount = 2
    SeedPayments = {p1}

CHECK_DEADLOCK FALSE
INVARIANTS
    AppliedAtMostOnce
