SPECIFICATION Spec
CONSTANTS
    m1 = m1
    m2 = m2
    c1 = c1
    c2 = c2
    p1 = p1
    p2 = p2
    k1 = k1
    k2 = k2
    None = None
    Merchant = {m1, m2}
    Customer = {c1, c2}
    Payment = {p1, p2}
    Key = {k1, k2}
    Amount = {1, 2}
    Currency = {"PLN", "EUR"}
    RiskLevel = {1, 5}
    HighAmount = 2
SYMMETRY Symmetry
CHECK_DEADLOCK FALSE
INVARIANTS
    TypeOK
    AmountsMatchStatus
    NoOverdraft
    SettledInAccountCurrency
    OneKeyOnePayment
    CaptureJournalMatchesStatus
    LedgerMatchesPayments
    EventsReplayToRow
PROPERTIES
    LifecycleRespected
