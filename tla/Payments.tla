------------------------------ MODULE Payments ------------------------------
(***************************************************************************)
(* What the payment API promises: every request that succeeds is one       *)
(* atomic step on the committed database.  The operations are those of     *)
(* services/payment_service/app/service.py; each handler runs in one       *)
(* transaction (session.begin() in main.py), and a request that ends in a  *)
(* BusinessError changes nothing, except an authorization declined for     *)
(* lack of funds, which is persisted.                                      *)
(*                                                                         *)
(* PaymentTx models the same operations statement by statement and is      *)
(* shown to implement this specification.                                  *)
(***************************************************************************)
EXTENDS PaymentDomain, FiniteSetsExt, SequencesExt

VARIABLES
    level,         \* [Merchant -> risk level, or None]
    account,       \* [Customer -> its merchant and account currency, or None]
    terms,         \* [Payment -> the immutable columns of the row, or None]
    status,        \* [Payment -> status, or Absent]
    captured,      \* [Payment -> captured_amount_minor]
    refunded,      \* [Payment -> refunded_amount_minor]
    idempotency,   \* set of completed idempotency records
    debit, credit, \* [LedgerAccount -> sum of its posted entries that way]
    posted,        \* (reference_type, reference_id) of the posted journals
    outbox,        \* [Payment -> sequence of its outbox events]
    audit          \* set of (action, resource) of the audit log

payment == <<terms, status, captured, refunded>>
ledger  == <<debit, credit, posted>>
vars == <<level, account, payment, idempotency, ledger, outbox, audit>>

-----------------------------------------------------------------------------
(* available_balance *)
AvailableInAnyCurrency(c, cur) ==
    MapThenSumSet(LAMBDA e : debit[Cash(c, e)] - credit[Cash(c, e)], Currency)
Available(c, cur) == debit[Cash(c, cur)] - credit[Cash(c, cur)]

AddEntriesSigned(lines, amount) ==
    /\ debit'  = [debit EXCEPT ![lines.debit] = @ + amount,
                               ![lines.credit] = @ - amount]
    /\ UNCHANGED credit

(* create_journal: a draft, one entry per line, then POSTED. *)
AddEntries(lines, amount) ==
    /\ debit'  = [debit  EXCEPT ![lines.debit] = @ + amount]
    /\ credit' = [credit EXCEPT ![lines.credit] = @ + amount]

(* UNIQUE (reference_type, reference_id): a second journal for the same    *)
(* reference raises IntegrityError and the transaction rolls back.         *)
PostOnce(type, ref) ==
    /\ <<type, ref>> \notin posted
    /\ posted' = posted \cup {<<type, ref>>}

AuditAction == {"api_key.created", "customer.created", "account.funded",
                "payment.created", "payment.authorized", "payment.captured"}

EmitUnlessRepeated(p, type, amount) ==
    outbox' = IF outbox[p] # <<>> /\ Last(outbox[p]).type = type THEN outbox
              ELSE [outbox EXCEPT ![p] = Append(@, Event(type, amount))]
Emit(p, type, amount) ==
    outbox' = [outbox EXCEPT ![p] = Append(@, Event(type, amount))]

Audit(action, resource) == audit' = audit \cup {<<action, resource>>}

SetStatus(p, s) == status' = [status EXCEPT ![p] = s]

Exists(p) == status[p] # Absent

AffordableUnchecked(t) == TRUE
Affordable(t) == Available(t.customer, t.currency) >= t.amount

RemainingIgnoringRefunds(p) == captured[p]
Remaining(p) == captured[p] - refunded[p]

UnclaimedUnchecked(m, k) == TRUE
Unclaimed(m, k) == ~ \E r \in idempotency : r.merchant = m /\ r.key = k

(* fund_account finds the account, it is the merchant's, in this currency. *)
Fundable(m, c, cur) ==
    account[c] # None /\ account[c].merchant = m /\ account[c].currency = cur

-----------------------------------------------------------------------------
Init ==
    /\ level = [m \in Merchant |-> None]
    /\ account = [c \in Customer |-> None]
    /\ terms = [p \in Payment |-> None]
    /\ status = [p \in Payment |-> Absent]
    /\ captured = [p \in Payment |-> 0]
    /\ refunded = [p \in Payment |-> 0]
    /\ idempotency = {}
    /\ debit = [a \in LedgerAccount |-> 0]
    /\ credit = [a \in LedgerAccount |-> 0]
    /\ posted = {}
    /\ outbox = [p \in Payment |-> <<>>]
    /\ audit = {}

CreateMerchant(m, l) ==
    /\ level[m] = None
    /\ level' = [level EXCEPT ![m] = l]
    /\ Audit("api_key.created", m)
    /\ UNCHANGED <<account, payment, idempotency, ledger, outbox>>

CreateCustomer(m, c, cur) ==
    /\ level[m] # None
    /\ account[c] = None
    /\ account' = [account EXCEPT ![c] = [merchant |-> m, currency |-> cur]]
    /\ Audit("customer.created", c)
    /\ UNCHANGED <<level, payment, idempotency, ledger, outbox>>

(* The journal's reference is the account, so an account is funded once.   *)
FundAccount(m, c, cur, amount) ==
    /\ Fundable(m, c, cur)
    /\ AddEntries(FundingLines(m, c, cur), amount)
    /\ PostOnce("account_funding", c)
    /\ Audit("account.funded", c)
    /\ UNCHANGED <<level, account, payment, idempotency, outbox>>

(* The first request under a key.  A later one with the same terms is      *)
(* answered from the record, one with other terms is a conflict: neither   *)
(* changes anything.  The account's currency is not compared with the      *)
(* payment's.                                                              *)
CreatePayment(m, k, p, t) ==
    LET rejected ==
            DecisionAtCreate(t.amount, t.currency, level[m]) = "REJECT" IN
    /\ t.merchant = m
    /\ Unclaimed(m, k)
    /\ account[t.customer] # None
    /\ account[t.customer].merchant = m
    /\ level[m] # None
    /\ status[p] = Absent
    /\ terms' = [terms EXCEPT ![p] = t]
    /\ SetStatus(p, IF rejected THEN "FAILED" ELSE "PENDING")
    /\ Emit(p, IF rejected THEN "payment.failed" ELSE "payment.created", 0)
    /\ idempotency' = idempotency \cup
            {[merchant |-> m, key |-> k, fingerprint |-> t, payment |-> p]}
    /\ Audit("payment.created", p)
    /\ UNCHANGED <<level, account, captured, refunded, ledger>>

(* Nothing is reserved: several authorizations may rely on the same money. *)
Authorize(m, p) ==
    LET t == terms[p] IN
    /\ Exists(p)
    /\ t.merchant = m
    /\ MayBecome(status[p], "AUTHORIZED")
    /\ Affordable(t)
    /\ SetStatus(p, "AUTHORIZED")
    /\ Emit(p, "payment.authorized", t.amount)
    /\ Audit("payment.authorized", p)
    /\ UNCHANGED <<level, account, terms, captured, refunded, idempotency,
                   ledger>>

DeclineBeforeTransition(m, p) ==
    /\ Exists(p)
    /\ terms[p].merchant = m
    /\ SetStatus(p, "FAILED")
    /\ Emit(p, "payment.failed", 0)
    /\ UNCHANGED <<level, account, terms, captured, refunded, idempotency,
                   ledger, audit>>

(* PersistedBusinessError: the FAILED status and its event are committed,  *)
(* and nothing is audited.  The balance that was too low is the one at the *)
(* time the transaction locked the customer: money that arrives before it  *)
(* commits does not count, so the committed balance is no guard here       *)
(* (PaymentTx!DeclineIsJustified says which balance is).                   *)
Decline(m, p) ==
    /\ Exists(p)
    /\ terms[p].merchant = m
    /\ MayBecome(status[p], "AUTHORIZED")
    /\ SetStatus(p, "FAILED")
    /\ Emit(p, "payment.failed", 0)
    /\ UNCHANGED <<level, account, terms, captured, refunded, idempotency,
                   ledger, audit>>

Capture(m, p) ==
    LET t == terms[p] IN
    /\ Exists(p)
    /\ t.merchant = m
    /\ MayBecome(status[p], "CAPTURED")
    /\ Affordable(t)
    /\ AddEntries(CaptureLines(t), t.amount)
    /\ PostOnce("payment_capture", p)
    /\ SetStatus(p, "CAPTURED")
    /\ captured' = [captured EXCEPT ![p] = t.amount]
    /\ Emit(p, "payment.captured", t.amount)
    /\ Audit("payment.captured", p)
    /\ UNCHANGED <<level, account, terms, refunded, idempotency>>

(* The event's payload is {}, and nothing is audited. *)
Cancel(m, p) ==
    /\ Exists(p)
    /\ terms[p].merchant = m
    /\ MayBecome(status[p], "CANCELLED")
    /\ SetStatus(p, "CANCELLED")
    /\ Emit(p, "payment.cancelled", 0)
    /\ UNCHANGED <<level, account, terms, captured, refunded, idempotency,
                   ledger, audit>>

(* The journal's reference is the new refund row, so it is always unique.  *)
Refund(m, p, amount) ==
    LET t == terms[p]
        total == refunded[p] + amount IN
    /\ Exists(p)
    /\ t.merchant = m
    /\ status[p] \in Refundable
    /\ amount <= Remaining(p)
    /\ AddEntries(RefundLines(t), amount)
    /\ refunded' = [refunded EXCEPT ![p] = total]
    /\ SetStatus(p, StatusAfterRefund(captured[p], total))
    /\ Emit(p, "payment.refunded", amount)
    /\ UNCHANGED <<level, account, terms, captured, idempotency, posted,
                   audit>>

Next ==
    \E m \in Merchant :
        \/ \E l \in RiskLevel : CreateMerchant(m, l)
        \/ \E c \in Customer, cur \in Currency :
              \/ CreateCustomer(m, c, cur)
              \/ \E a \in Amount : FundAccount(m, c, cur, a)
        \/ \E p \in Payment :
              \/ \E k \in Key, t \in Terms : CreatePayment(m, k, p, t)
              \/ Authorize(m, p)
              \/ Decline(m, p)
              \/ Capture(m, p)
              \/ Cancel(m, p)
              \/ \E a \in Amount : Refund(m, p, a)

Spec == Init /\ [][Next]_vars

-----------------------------------------------------------------------------
(* Each variable has its type: the columns of app/infra/models.py. *)
TypeOK ==
    /\ level \in [Merchant -> RiskLevel \cup {None}]
    /\ account \in [Customer -> Account \cup {None}]
    /\ terms \in [Payment -> Terms \cup {None}]
    /\ status \in [Payment -> PaymentStatus \cup {Absent}]
    /\ captured \in [Payment -> Nat]
    /\ refunded \in [Payment -> Nat]
    /\ idempotency \subseteq [merchant : Merchant, key : Key,
                              fingerprint : Terms, payment : Payment]
    /\ debit \in [LedgerAccount -> Nat]
    /\ credit \in [LedgerAccount -> Nat]
    /\ posted \subseteq ({"account_funding"} \X Customer)
                         \cup ({"payment_capture"} \X Payment)
    /\ outbox \in [Payment -> Seq([type : EventType, amount : Nat])]
    /\ audit \subseteq AuditAction \X (Merchant \cup Customer \cup Payment)

(* The status of a payment and its two amounts tell the same story: only a *)
(* settled payment has captured or refunded anything, it has captured its  *)
(* whole amount, and the status names exactly how much went back.          *)
AmountsMatchStatus ==
    \A p \in Payment :
        /\ status[p] \in Settled => captured[p] = terms[p].amount
        /\ status[p] \notin Settled => captured[p] = 0 /\ refunded[p] = 0
        /\ status[p] = "CAPTURED" => refunded[p] = 0
        /\ status[p] = "PARTIALLY_REFUNDED" => refunded[p] \in 1..captured[p]-1
        /\ status[p] = "REFUNDED" => refunded[p] = captured[p]

(* No customer's cash account is ever overdrawn, although authorizations   *)
(* reserve nothing and may together exceed the balance.                    *)
NoOverdraft ==
    \A c \in Customer, cur \in Currency : Available(c, cur) >= 0

(* create_payment accepts a currency the customer has no account in.  Such *)
(* a payment never moves money: money is only ever taken in the currency   *)
(* of the account, from a customer of the payment's own merchant.          *)
SettledInAccountCurrency ==
    \A p \in Payment : status[p] \in Settled =>
        account[terms[p].customer] =
            [merchant |-> terms[p].merchant, currency |-> terms[p].currency]

(* Idempotency records and payments correspond one to one: a merchant's    *)
(* key stands for one payment, created with the terms of its fingerprint,  *)
(* and no payment exists without the record of the request that made it.   *)
OneKeyOnePayment ==
    /\ \A r, s \in idempotency :
          \/ r = s
          \/ r.payment # s.payment /\ <<r.merchant, r.key>> # <<s.merchant, s.key>>
    /\ \A r \in idempotency : Exists(r.payment) /\ terms[r.payment] = r.fingerprint
                              /\ r.fingerprint.merchant = r.merchant
    /\ \A p \in Payment : Exists(p) => \E r \in idempotency : r.payment = p

(* The columns of a payment row that exists are filled in, and its         *)
(* customer belongs to its merchant.                                       *)
RowsComplete ==
    \A p \in Payment : Exists(p) =>
        /\ terms[p] \in Terms
        /\ account[terms[p].customer] \in Account
        /\ account[terms[p].customer].merchant = terms[p].merchant

(* Cash is only ever held in the currency of the customer's account. *)
CashInAccountCurrency ==
    \A c \in Customer, cur \in Currency :
        debit[Cash(c, cur)] > 0 =>
            account[c] \in Account /\ account[c].currency = cur

(* A payment has a capture journal exactly when its status says money was  *)
(* taken, so the unique constraint behind PAYMENT_ALREADY_CAPTURED never   *)
(* has to refuse a capture that the lifecycle allows.                      *)
CaptureJournalMatchesStatus ==
    \A p \in Payment :
        <<"payment_capture", p>> \in posted <=> status[p] \in Settled

(* The inductive invariant behind the theorems of PaymentsProofs: fund,    *)
(* authorize, capture, cancel and refund in any order keep payment rows,   *)
(* accounts, ledger balances and idempotency records consistent.           *)
IInv == /\ TypeOK
        /\ RowsComplete
        /\ AmountsMatchStatus
        /\ CashInAccountCurrency
        /\ NoOverdraft
        /\ SettledInAccountCurrency
        /\ CaptureJournalMatchesStatus
        /\ OneKeyOnePayment

(* The ledger and the payments agree: a merchant is owed what its payments *)
(* captured less what they refunded, and every unit ever funded is either  *)
(* still the customers' or owed to the merchant.                           *)
LedgerMatchesPayments ==
    \A m \in Merchant, cur \in Currency :
        LET Balance(a) == debit[a] - credit[a]
            mine == {p \in Payment : Exists(p) /\ terms[p].merchant = m
                                              /\ terms[p].currency = cur}
            customers == {c \in Customer :
                            account[c] # None /\ account[c].merchant = m}
            owed == MapThenSumSet(Remaining, mine)
            held == MapThenSumSet(LAMBDA c : Available(c, cur), customers) IN
        /\ Balance(Receivable(m, cur)) = owed
        /\ held + owed = credit[Funding(m, cur)]

(* What a subscriber makes of one event of a payment. *)
AfterEvent(row, e) ==
    CASE e.type = "payment.captured" ->
            [status |-> "CAPTURED", captured |-> e.amount, refunded |-> 0]
      [] e.type = "payment.refunded" ->
            LET total == row.refunded + e.amount IN
            [row EXCEPT !.refunded = total,
                        !.status = StatusAfterRefund(row.captured, total)]
      [] OTHER -> [row EXCEPT !.status =
            CASE e.type = "payment.created"    -> "PENDING"
              [] e.type = "payment.authorized" -> "AUTHORIZED"
              [] e.type = "payment.failed"     -> "FAILED"
              [] e.type = "payment.cancelled"  -> "CANCELLED"]

(* A subscriber that applies the outbox events of a payment in order ends  *)
(* with the payment's own row: no step forgets its event, emits it twice   *)
(* or emits another one.                                                   *)
EventsReplayToRow ==
    \A p \in Payment :
        FoldLeft(AfterEvent,
                 [status |-> Absent, captured |-> 0, refunded |-> 0], outbox[p])
            = [status |-> status[p], captured |-> captured[p],
               refunded |-> refunded[p]]

(* A payment is born PENDING (no request the API accepts is risky enough   *)
(* to be rejected) and every later status is one _ALLOWED lists after the  *)
(* one before it, also when refund_payment sets it without transition().   *)
LifecycleStep ==
    \A p \in Payment :
        \/ status'[p] = status[p]
        \/ status[p] = Absent /\ status'[p] = "PENDING"
        \/ MayBecome(status[p], status'[p])

LifecycleRespected == [][LifecycleStep]_vars

(* docs/security-threat-model.md:18: "Business operations append audit     *)
(* logs" - every change of a payment's status appends an entry for it.     *)
(* Cancellations, refunds and declined authorizations do not.              *)
EveryChangeAudited ==
    [][\A p \in Payment : status'[p] # status[p] =>
        \E entry \in audit' \ audit : entry[2] = p]_vars
=============================================================================
