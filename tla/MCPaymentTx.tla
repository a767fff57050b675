---------------------------- MODULE MCPaymentTx ----------------------------
(***************************************************************************)
(* Instances of PaymentTx for TLC: from an empty database, and from one in *)
(* which a customer may have money and has payments, so that the races     *)
(* between authorizations, captures and refunds come within the bounds.    *)
(***************************************************************************)
EXTENDS PaymentTx, TLC

CONSTANTS
    SeedPayments,  \* the payments of the seeded database
    Deposit,       \* what the customer's account was funded with, if seeded
    SeedStatus,    \* the status of the seeded payments
    SeedAmount     \* and their amount

(* Nothing orders clients, payments or keys. *)
Symmetry ==
    Permutations(Client) \cup Permutations(Payment) \cup Permutations(Key)
SeedSymmetry == Permutations(Client) \cup Permutations(SeedPayments)

(* The seeded database: one merchant, one customer whose account in PLN    *)
(* was funded unless Deposit = 0, and SeedPayments, all of one amount.      *)
Seeded ==
    LET m == CHOOSE x \in Merchant : TRUE
        c == CHOOSE x \in Customer : TRUE
        t == [merchant |-> m, customer |-> c, amount |-> SeedAmount,
              currency |-> "PLN"]
        keyOf == CHOOSE f \in [SeedPayments -> Key] :
                    \A p, q \in SeedPayments : f[p] = f[q] => p = q
        events == IF SeedStatus = "AUTHORIZED"
                  THEN <<Event("payment.created", 0),
                         Event("payment.authorized", SeedAmount)>>
                  ELSE <<Event("payment.created", 0)>> IN
    /\ level = [x \in Merchant |-> CHOOSE l \in RiskLevel : TRUE]
    /\ account = [x \in Customer |-> [merchant |-> m, currency |-> "PLN"]]
    /\ terms = [p \in Payment |-> IF p \in SeedPayments THEN t ELSE None]
    /\ status = [p \in Payment |->
                    IF p \in SeedPayments THEN SeedStatus ELSE Absent]
    /\ captured = [p \in Payment |-> 0]
    /\ refunded = [p \in Payment |-> 0]
    /\ idempotency = {[merchant |-> m, key |-> keyOf[p], fingerprint |-> t,
                       payment |-> p] : p \in SeedPayments}
    /\ debit = [a \in LedgerAccount |-> IF a = Cash(c, "PLN") THEN Deposit ELSE 0]
    /\ credit = [a \in LedgerAccount |->
                    IF a = Funding(m, "PLN") THEN Deposit ELSE 0]
    /\ posted = IF Deposit = 0 THEN {} ELSE {<<"account_funding", c>>}
    /\ outbox = [p \in Payment |-> IF p \in SeedPayments THEN events ELSE <<>>]
    /\ audit = {<<"api_key.created", m>>, <<"customer.created", c>>}
               \cup (IF Deposit = 0 THEN {} ELSE {<<"account.funded", c>>})
               \cup {<<"payment.created", p>> : p \in SeedPayments}
               \cup (IF SeedStatus = "AUTHORIZED"
                     THEN {<<"payment.authorized", p>> : p \in SeedPayments} ELSE {})
    /\ slots = IF Deposit = 0 THEN {} ELSE {Cash(c, "PLN"), Funding(m, "PLN")}
    /\ locks = {}
    /\ tx = [x \in Client |-> Idle]
    /\ sent = 0

SeededSpec == Seeded /\ [][Next]_vars
SeededFairSpec == SeededSpec /\ Fairness
=============================================================================
