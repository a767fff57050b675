SPECIFICATION Spec
CONSTANTS
    m1 = m1
    m2 = m2
    c1 = c1
    c2 = c2
    p1 = p1
    p2 = p2
    k1 = k1
    k2 = k2
    None = None
    Merchant = {m1}
    Customer = {c1}
    Payment = {p1}
    Key = {k1}
    Amount = {1, 2}
    Currency = {"PLN", "EUR"}
    RiskLevel = {1, 5}
    HighAmount = 2
CHECK_DEADLOCK FALSE
PROPERTIES
    EveryChangeAudited
