---------------------------- MODULE PaymentDomain ----------------------------
(***************************************************************************)
(* The vocabulary of the payment service: its identifiers, the payment     *)
(* lifecycle of app/domain/payment.py, the risk rules of                   *)
(* app/domain/risk.py and the events of libs/events.  Pure definitions,    *)
(* shared by the serial specification (Payments) and the concurrent one    *)
(* (PaymentTx).                                                            *)
(***************************************************************************)
EXTENDS Integers, Sequences

CONSTANTS
    Merchant,      \* merchants.id
    Customer,      \* customers.id; every customer has exactly one account
    Payment,       \* payments.id
    Key,           \* values of the Idempotency-Key header
    Amount,        \* amount_minor values a request may carry
    RiskLevel,     \* merchants.risk_level values a merchant may be given
    HighAmount     \* the HIGH_AMOUNT threshold, 100_000 in the code

CONSTANTS
    Currency,      \* the supported currencies of forgepay_common.money
    None           \* stands for a missing row

(* pydantic: amount_minor is Field(gt=0), risk_level is Field(ge=1, le=5). *)
ASSUME AmountAssumption == Amount \subseteq Nat \ {0}
ASSUME RiskLevelAssumption == RiskLevel \subseteq 1..5
ASSUME HighAmountAssumption == HighAmount \in Nat

-----------------------------------------------------------------------------
(* Payment lifecycle. *)

PaymentStatus == {"CREATED", "PENDING", "AUTHORIZED", "CAPTURED",
                  "PARTIALLY_REFUNDED", "REFUNDED", "FAILED", "CANCELLED"}

Absent == "ABSENT"   \* no row with this id has been committed

AllowedCancelAfterCapture ==
    [s \in PaymentStatus |->
        CASE s = "PENDING"    -> {"AUTHORIZED", "FAILED", "CANCELLED"}
          [] s = "AUTHORIZED" -> {"CAPTURED", "CANCELLED", "FAILED"}
          [] s \in {"CAPTURED", "PARTIALLY_REFUNDED"} -> {"CANCELLED"}
          [] OTHER            -> {}]

Allowed ==
    [s \in PaymentStatus |->
        CASE s = "CREATED"            -> {"PENDING", "CANCELLED", "FAILED"}
          [] s = "PENDING"            -> {"AUTHORIZED", "FAILED", "CANCELLED"}
          [] s = "AUTHORIZED"         -> {"CAPTURED", "CANCELLED", "FAILED"}
          [] s \in {"CAPTURED", "PARTIALLY_REFUNDED"}
                                      -> {"PARTIALLY_REFUNDED", "REFUNDED"}
          [] OTHER                    -> {}]

(* transition(current, target) returns instead of raising. *)
MayBecome(current, target) ==
    current \in PaymentStatus /\ target \in Allowed[current]

(* The statuses refund_payment accepts: a set of its own, not Allowed. *)
Refundable == {"CAPTURED", "PARTIALLY_REFUNDED"}

(* Statuses of a payment whose money has left the customer's cash account. *)
Settled == {"CAPTURED", "PARTIALLY_REFUNDED", "REFUNDED"}

StatusAfterRefund(captured, refunded) ==
    IF refunded = captured THEN "REFUNDED" ELSE "PARTIALLY_REFUNDED"

-----------------------------------------------------------------------------
(* Risk.  Scores are in hundredths: the code adds the floats 0.08, 0.05,   *)
(* 0.35, 0.25 and 0.20 and compares with 0.85 and 0.55.                    *)

Lesser(a, b) == IF a < b THEN a ELSE b

RiskScore(amount, supported, level, velocity, mismatch) ==
    Lesser(100, Lesser(100, 8 * level + 5 * velocity)
                + (IF amount >= HighAmount THEN 35 ELSE 0)
                + (IF supported THEN 0 ELSE 25)
                + (IF mismatch THEN 20 ELSE 0))

RiskDecision(score) ==
    IF score >= 85 THEN "REJECT"
    ELSE IF score >= 55 THEN "REVIEW" ELSE "APPROVE"

(* create_payment passes the amount, the currency and the merchant's level *)
(* and leaves velocity_count and country_mismatch at their defaults.       *)
DecisionAtCreate(amount, currency, level) ==
    RiskDecision(RiskScore(amount, currency \in Currency, level, 0, FALSE))

-----------------------------------------------------------------------------
(* What a create request asks for; equal terms have equal fingerprints.    *)

Terms == [merchant : Merchant, customer : Customer,
          amount : Amount, currency : Currency]

Account == [merchant : Merchant, currency : Currency]

ASSUME NoneAssumption == None \notin Terms \cup Account \cup RiskLevel

(* Ledger accounts are keyed by owner, name and currency.                  *)

Cash(c, cur)       == <<c, "customer_cash", cur>>
Receivable(m, cur) == <<m, "merchant_receivable", cur>>
Funding(m, cur)    == <<m, "simulated_provider_funding", cur>>

LedgerAccount == (Customer \X {"customer_cash"} \X Currency)
    \cup (Merchant \X {"merchant_receivable", "simulated_provider_funding"}
                   \X Currency)

(* The two lines of each kind of journal: app/domain/ledger.py. *)
FundingLines(m, c, cur) == [debit |-> Cash(c, cur), credit |-> Funding(m, cur)]
CaptureLines(t) == [debit  |-> Receivable(t.merchant, t.currency),
                    credit |-> Cash(t.customer, t.currency)]
RefundLinesLikeCapture(t) == CaptureLines(t)
RefundLines(t)  == [debit  |-> Cash(t.customer, t.currency),
                    credit |-> Receivable(t.merchant, t.currency)]

-----------------------------------------------------------------------------
(* An outbox row of one payment, as far as a subscriber can tell: its type *)
(* and the amount_minor of its payload (0 where the payload has none).     *)
EventType == {"payment.created", "payment.authorized", "payment.captured",
              "payment.failed", "payment.cancelled", "payment.refunded"}

Event(type, amount) == [type |-> type, amount |-> amount]
=============================================================================
