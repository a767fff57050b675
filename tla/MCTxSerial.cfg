SPECIFICATION Spec
CONSTANTS
    None = None
    Merchant = {m1}
    Customer = {c1}
    Payment = {p1, p2}
    Key = {k1}
    Client = {a, b}
    Amount = {1, 2}
    Currency = {"PLN"}
    RiskLevel = {1}
    HighAmount = 5
    Operation = {"create", "authorize", "capture", "cancel", "refund", "fund"}
    MaxRequests = 5
    MaxRetries = 1
    Deposit = 0
    SeedStatus = "PENDING"
    SeedAmount = 2
    SeedPayments = {p1, p2}
SYMMETRY Symmetry
CHECK_DEADLOCK FALSE
INVARIANTS
    TypeOK
    DeclineIsJustified
    AnswerMatchesRecord
    OnlyRefundsRepeat
PROPERTIES
    ImplementsSerial
