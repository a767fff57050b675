----------------------------- MODULE PaymentTx -----------------------------
(***************************************************************************)
(* The payment API as it runs: clients whose requests are handled at the   *)
(* same time, each in one PostgreSQL transaction at READ COMMITTED.  A     *)
(* step is one statement of a handler of app/service.py; it sees what was  *)
(* committed before it, waits for the row locks and the uncommitted unique *)
(* keys of others, and its own writes become visible when it commits.  The *)
(* connection can break at any statement, an answer can be lost, and a     *)
(* client that got none may send the same request again.                   *)
(*                                                                         *)
(* Money endpoints are modelled; webhook registration is not here.         *)
(***************************************************************************)
EXTENDS PaymentDomain, FiniteSets

CONSTANTS
    Client,        \* callers of the API, each with one request in flight
    Operation,     \* the operations they use
    MaxRequests,   \* bound on the requests sent, retries not counted
    MaxRetries     \* bound on the retries of one request

ASSUME BoundsAssumption == MaxRequests \in Nat /\ MaxRetries \in Nat

VARIABLES
    level, account, terms, status, captured, refunded, idempotency,
    debit, credit, posted, outbox, audit,   \* committed, as in Payments
    slots,         \* the ledger accounts whose row is committed
    locks,         \* row locks and uncommitted unique keys, with their holder
    tx,            \* [Client -> its request and transaction]
    sent           \* number of requests sent

payment == <<terms, status, captured, refunded>>
ledger  == <<debit, credit, posted>>
database == <<level, account, payment, idempotency, ledger, outbox, audit,
              slots>>
vars == <<database, locks, tx, sent>>

Serial == INSTANCE Payments

-----------------------------------------------------------------------------
(* Requests.  A field an operation does not use is None.                   *)

Request(op, m, k, p, c, cur, a) ==
    [op |-> op, merchant |-> m, key |-> k, payment |-> p,
     customer |-> c, currency |-> cur, amount |-> a]

(* What a caller with a merchant's API key may ask for: the ids it names    *)
(* need not exist.                                                         *)
Requests ==
    {r \in UNION {
        {Request("create", m, k, None, c, cur, a) :
            k \in Key, c \in Customer, cur \in Currency, a \in Amount}
        \cup {Request("fund", m, None, None, c, cur, a) :
            c \in Customer, cur \in Currency, a \in Amount}
        \cup {Request(op, m, None, p, None, None, None) :
            op \in {"authorize", "capture", "cancel"}, p \in Payment}
        \cup {Request("refund", m, None, p, None, None, a) :
            p \in Payment, a \in Amount}
        : m \in {x \in Merchant : level[x] # None}}
     : r.op \in Operation}

TermsOf(r) == [merchant |-> r.merchant, customer |-> r.customer,
               amount |-> r.amount, currency |-> r.currency]

-----------------------------------------------------------------------------
(* Locks.  FOR UPDATE and an uncommitted insert of a unique key exclude    *)
(* everyone else; a foreign key check (KEY SHARE) excludes FOR UPDATE.     *)

PaymentRow(p)    == <<"payment", p>>
CustomerRow(c)   == <<"customer", c>>
AccountRow(c)    == <<"account", c>>
KeyRow(m, k)     == <<"key", <<m, k>> >>
SlotRow(a)       == <<"ledger account", a>>
JournalRef(ref)  == <<"journal", ref>>

Lock(c, row, mode) == [by |-> c, row |-> row, mode |-> mode]

Holders(c, row, mode) ==
    {d \in Client \ {c} : \E l \in locks :
        l.by = d /\ l.row = row /\ ~ (l.mode = "share" /\ mode = "share")}

Acquire(c, row, mode) ==
    /\ Holders(c, row, mode) = {}
    /\ locks' = locks \cup {Lock(c, row, mode)}

ReleaseAtDisconnect(c) == UNCHANGED locks
Release(c) == locks' = {l \in locks : l.by # c}

-----------------------------------------------------------------------------
(* A client's transaction.                                                 *)

NoRow == [status |-> Absent, captured |-> 0, refunded |-> 0]

Idle == [pc |-> "idle", req |-> None, row |-> NoRow, new |-> None,
         debits |-> 0, atLock |-> 0, verdict |-> "none",
         retries |-> 0, applied |-> 0]

BeginWithoutClaim(op) == CASE op = "create" -> "insert"
                           [] op = "fund"   -> "account"
                           [] OTHER         -> "payment"

Begin(op) == CASE op = "create" -> "claim"
               [] op = "fund"   -> "account"
               [] OTHER         -> "payment"

InTransaction(c) == tx[c].pc \notin {"idle", "answered", "unanswered"}

Becomes(c, t) == tx' = [tx EXCEPT ![c] = t]

Goto(c, label) == Becomes(c, [tx[c] EXCEPT !.pc = label])

RefuseKeepingLocks(c, verdict) ==
    /\ Becomes(c, [tx[c] EXCEPT !.pc = "answered", !.verdict = verdict])
    /\ UNCHANGED <<database, locks, sent>>

(* A BusinessError, or an IntegrityError: session.begin() rolls back and   *)
(* the caller is told so.                                                  *)
Refuse(c, verdict) ==
    /\ Becomes(c, [tx[c] EXCEPT !.pc = "answered", !.verdict = verdict])
    /\ Release(c)
    /\ UNCHANGED <<database, sent>>

(* What the request is about, once its payment or account was found.       *)
Subject(c) ==
    LET r == tx[c].req IN
    IF r.op \in {"create", "fund"} THEN TermsOf(r) ELSE terms[r.payment]

Available(c, cur) == debit[Cash(c, cur)] - credit[Cash(c, cur)]

Init ==
    /\ Serial!Init
    /\ slots = {}
    /\ locks = {}
    /\ tx = [c \in Client |-> Idle]
    /\ sent = 0

(* Registrations touch rows nobody else can name before they commit. *)
Register ==
    /\ \E m \in Merchant : \/ \E l \in RiskLevel : Serial!CreateMerchant(m, l)
                           \/ \E c \in Customer, cur \in Currency :
                                 Serial!CreateCustomer(m, c, cur)
    /\ UNCHANGED <<slots, locks, tx, sent>>

Send(c) ==
    /\ tx[c].pc = "idle"
    /\ sent < MaxRequests
    /\ sent' = sent + 1
    /\ \E r \in Requests :
          Becomes(c, [Idle EXCEPT !.pc = Begin(r.op), !.req = r])
    /\ UNCHANGED <<database, locks>>

-----------------------------------------------------------------------------
(* create_payment *)

RecordedForgotten(r) == {}

Recorded(r) ==
    {i \in idempotency : i.merchant = r.merchant /\ i.key = r.key}

SameRequestUnchecked(i, r) == TRUE
SameRequest(i, r) == i.fingerprint = TermsOf(r)

(* claim_idempotency: the insert waits for an uncommitted claim of the key; *)
(* if the key is taken, SELECT FOR UPDATE waits for its record.            *)
ClaimKey(c) ==
    LET r == tx[c].req IN
    /\ tx[c].pc = "claim"
    /\ \A i \in Recorded(r) : SameRequest(i, r)
    /\ Acquire(c, KeyRow(r.merchant, r.key), "update")
    /\ \/ /\ Recorded(r) = {}
          /\ Goto(c, "insert")
       \/ \E i \in Recorded(r) :
             Becomes(c, [tx[c] EXCEPT !.pc = "commit", !.verdict = "replayed",
                                      !.new = i.payment])
    /\ UNCHANGED <<database, sent>>

KeyConflict(c) ==
    LET r == tx[c].req IN
    /\ tx[c].pc = "claim"
    /\ Holders(c, KeyRow(r.merchant, r.key), "update") = {}
    /\ \E i \in Recorded(r) : ~ SameRequest(i, r)
    /\ Refuse(c, "IDEMPOTENCY_CONFLICT")

CustomerOf(r) ==
    account[r.customer] # None /\ account[r.customer].merchant = r.merchant

(* The new row's foreign key takes KEY SHARE on the customer.              *)
InsertPayment(c) ==
    LET r == tx[c].req IN
    /\ tx[c].pc = "insert"
    /\ CustomerOf(r)
    /\ Acquire(c, CustomerRow(r.customer), "share")
    /\ \E p \in Payment :
          /\ status[p] = Absent
          /\ \A d \in Client : tx[d].new # p
          /\ Becomes(c, [tx[c] EXCEPT !.pc = "commit", !.verdict = "ok",
                                      !.new = p])
    /\ UNCHANGED <<database, sent>>

CustomerNotFound(c) ==
    /\ tx[c].pc = "insert"
    /\ ~ CustomerOf(tx[c].req)
    /\ Refuse(c, "CUSTOMER_NOT_FOUND")

-----------------------------------------------------------------------------
(* authorize_payment, capture_payment, cancel_payment, refund_payment      *)

Found(r) == status[r.payment] # Absent /\ terms[r.payment].merchant = r.merchant

PermittedIgnoringRefunds(r, row) ==
    CASE r.op = "authorize" -> MayBecome(row.status, "AUTHORIZED")
      [] r.op = "capture"   -> MayBecome(row.status, "CAPTURED")
      [] r.op = "cancel"    -> MayBecome(row.status, "CANCELLED")
      [] r.op = "refund"    -> /\ row.status \in Refundable
                               /\ r.amount <= row.captured

Permitted(r, row) ==
    CASE r.op = "authorize" -> MayBecome(row.status, "AUTHORIZED")
      [] r.op = "capture"   -> MayBecome(row.status, "CAPTURED")
      [] r.op = "cancel"    -> MayBecome(row.status, "CANCELLED")
      [] r.op = "refund"    -> /\ row.status \in Refundable
                               /\ r.amount <= row.captured - row.refunded

Row(p) == [status |-> status[p], captured |-> captured[p],
           refunded |-> refunded[p]]

AfterPayment(op) == CASE op \in {"authorize", "capture"} -> "customer"
                      [] op = "cancel" -> "commit"
                      [] op = "refund" -> "cash"

PaymentLockShared == "share"
PaymentLock == "update"

(* payment_for_update, then the checks on the row it returned. *)
LockPayment(c) ==
    LET r == tx[c].req IN
    /\ tx[c].pc = "payment"
    /\ Found(r)
    /\ Permitted(r, Row(r.payment))
    /\ Acquire(c, PaymentRow(r.payment), PaymentLock)
    /\ Becomes(c, [tx[c] EXCEPT !.pc = AfterPayment(r.op),
                                !.row = Row(r.payment), !.verdict = "ok"])
    /\ UNCHANGED <<database, sent>>

NotPermitted(c) ==
    LET r == tx[c].req IN
    /\ tx[c].pc = "payment"
    /\ Found(r) => /\ Holders(c, PaymentRow(r.payment), PaymentLock) = {}
                   /\ ~ Permitted(r, Row(r.payment))
    /\ Refuse(c, "refused")

CustomerLockShared == "share"
CustomerLock == "update"

LockCustomer(c) ==
    LET t == Subject(c) IN
    /\ tx[c].pc = "customer"
    /\ Acquire(c, CustomerRow(t.customer), CustomerLock)
    /\ Becomes(c, [tx[c] EXCEPT !.pc = "accounts",
                                !.atLock = Available(t.customer, t.currency)])
    /\ UNCHANGED <<database, sent>>

EnoughIfMore(c, balance) == balance > Subject(c).amount
EnoughIfAuthorized(c, balance) ==
    tx[c].req.op = "capture" \/ balance >= Subject(c).amount
Enough(c, balance) == balance >= Subject(c).amount

(* What authorize_payment and capture_payment do with the balance.         *)
Judge(c, balance) ==
    LET enough == Enough(c, balance)
        op == tx[c].req.op IN
    \/ /\ enough \/ op = "authorize"
       /\ Becomes(c, [tx[c] EXCEPT
              !.pc = IF op = "capture" THEN "cash" ELSE "commit",
              !.verdict = IF enough THEN "ok" ELSE "declined"])
       /\ UNCHANGED <<database, locks, sent>>
    \/ /\ ~ enough /\ op = "capture"
       /\ Refuse(c, "INSUFFICIENT_FUNDS")

(* available_balance: three queries, each with a snapshot of its own.      *)
FindCashAccount(c) ==
    /\ tx[c].pc = "accounts"
    /\ \/ /\ Cash(Subject(c).customer, Subject(c).currency) \in slots
          /\ Goto(c, "debits")
          /\ UNCHANGED <<database, locks, sent>>
       \/ /\ Cash(Subject(c).customer, Subject(c).currency) \notin slots
          /\ Judge(c, 0)

SumDebits(c) ==
    /\ tx[c].pc = "debits"
    /\ Becomes(c, [tx[c] EXCEPT !.pc = "credits",
          !.debits = debit[Cash(Subject(c).customer, Subject(c).currency)]])
    /\ UNCHANGED <<database, locks, sent>>

SumCredits(c) ==
    /\ tx[c].pc = "credits"
    /\ Judge(c, tx[c].debits
                  - credit[Cash(Subject(c).customer, Subject(c).currency)])

-----------------------------------------------------------------------------
(* fund_account *)

LockAccount(c) ==
    LET r == tx[c].req IN
    /\ tx[c].pc = "account"
    /\ CustomerOf(r)
    /\ account[r.customer].currency = r.currency
    /\ Acquire(c, AccountRow(r.customer), "update")
    /\ Becomes(c, [tx[c] EXCEPT !.pc = "cash", !.verdict = "ok"])
    /\ UNCHANGED <<database, sent>>

NotFundable(c) ==
    LET r == tx[c].req IN
    /\ tx[c].pc = "account"
    /\ account[r.customer] # None =>
          Holders(c, AccountRow(r.customer), "update") = {}
    /\ ~ (CustomerOf(r) /\ account[r.customer].currency = r.currency)
    /\ Refuse(c, "refused")

-----------------------------------------------------------------------------
(* The journals of fund_account, capture_payment and refund_payment.       *)

CashSlot(c) == Cash(Subject(c).customer, Subject(c).currency)

OtherSlot(c) ==
    IF tx[c].req.op = "fund"
    THEN Funding(Subject(c).merchant, Subject(c).currency)
    ELSE Receivable(Subject(c).merchant, Subject(c).currency)

(* ensure_ledger_account: the row if it is there, else INSERT ON CONFLICT, *)
(* which waits for an uncommitted insert of the same account.              *)
Ensure(c, slot, next) ==
    /\ \/ slot \in slots /\ UNCHANGED locks
       \/ slot \notin slots /\ Acquire(c, SlotRow(slot), "update")
    /\ Goto(c, next)
    /\ UNCHANGED <<database, sent>>

EnsureCash(c)  == tx[c].pc = "cash"  /\ Ensure(c, CashSlot(c), "other")
EnsureOther(c) == tx[c].pc = "other" /\ Ensure(c, OtherSlot(c), "journal")

(* The unique (reference_type, reference_id) of the journal; a refund's    *)
(* is its own new row, which nothing else can reference.                   *)
References(c) ==
    LET r == tx[c].req IN
    CASE r.op = "capture" -> {<<"payment_capture", r.payment>>}
      [] r.op = "fund"    -> {<<"account_funding", r.customer>>}
      [] OTHER            -> {}

InsertJournal(c) ==
    /\ tx[c].pc = "journal"
    /\ References(c) \cap posted = {}
    /\ \A j \in References(c) : Holders(c, JournalRef(j), "update") = {}
    /\ locks' = locks \cup {Lock(c, JournalRef(j), "update") : j \in References(c)}
    /\ Goto(c, "commit")
    /\ UNCHANGED <<database, sent>>

(* PAYMENT_ALREADY_CAPTURED, or the IntegrityError of a second funding.    *)
JournalExists(c) ==
    /\ tx[c].pc = "journal"
    /\ References(c) \cap posted # {}
    /\ Refuse(c, "duplicate")

-----------------------------------------------------------------------------
(* Commit: the session's writes, computed from what the transaction read.  *)

Emit(p, type, amount) ==
    outbox' = [outbox EXCEPT ![p] = Append(@, Event(type, amount))]

Audit(action, resource) == audit' = audit \cup {<<action, resource>>}

Ready(c, op, verdict) ==
    /\ tx[c].pc = "commit"
    /\ tx[c].req.op = op
    /\ tx[c].verdict = verdict

(* Locks are released, inserted ledger accounts become visible, and the    *)
(* answer is on its way.                                                   *)
Finish(c, effects) ==
    /\ Becomes(c, [tx[c] EXCEPT !.pc = "answered", !.row = NoRow, !.debits = 0,
                        !.atLock = 0, !.applied = tx[c].applied + effects])
    /\ slots' = slots \cup
            {a \in LedgerAccount : Lock(c, SlotRow(a), "update") \in locks}
    /\ Release(c)
    /\ UNCHANGED <<level, account, sent>>

WriteStatus(c, s) == status' = [status EXCEPT ![tx[c].req.payment] = s]

PostJournalSigned(c, lines, amount) ==
    /\ debit'  = [debit  EXCEPT ![lines.debit] = @ + amount,
                                ![lines.credit] = @ - amount]
    /\ posted' = posted \cup References(c)
    /\ UNCHANGED credit

PostJournal(c, lines, amount) ==
    /\ debit'  = [debit  EXCEPT ![lines.debit] = @ + amount]
    /\ credit' = [credit EXCEPT ![lines.credit] = @ + amount]
    /\ posted' = posted \cup References(c)

CommitCreate(c) ==
    LET r == tx[c].req
        p == tx[c].new
        rejected == DecisionAtCreate(r.amount, r.currency, level[r.merchant])
                        = "REJECT" IN
    /\ Ready(c, "create", "ok")
    /\ terms' = [terms EXCEPT ![p] = TermsOf(r)]
    /\ status' = [status EXCEPT ![p] = IF rejected THEN "FAILED" ELSE "PENDING"]
    /\ Emit(p, IF rejected THEN "payment.failed" ELSE "payment.created", 0)
    /\ Audit("payment.created", p)
    /\ idempotency' = idempotency \cup
            {[merchant |-> r.merchant, key |-> r.key,
              fingerprint |-> TermsOf(r), payment |-> p]}
    /\ Finish(c, 1)
    /\ UNCHANGED <<captured, refunded, ledger>>

CommitReplay(c) ==
    /\ Ready(c, "create", "replayed")
    /\ Finish(c, 0)
    /\ UNCHANGED <<payment, idempotency, ledger, outbox, audit>>

CommitAuthorize(c) ==
    LET p == tx[c].req.payment IN
    /\ Ready(c, "authorize", "ok")
    /\ WriteStatus(c, "AUTHORIZED")
    /\ Emit(p, "payment.authorized", Subject(c).amount)
    /\ Audit("payment.authorized", p)
    /\ Finish(c, 1)
    /\ UNCHANGED <<terms, captured, refunded, idempotency, ledger>>

(* PersistedBusinessError leaves the transaction block without an error.   *)
CommitDecline(c) ==
    /\ Ready(c, "authorize", "declined")
    /\ WriteStatus(c, "FAILED")
    /\ Emit(tx[c].req.payment, "payment.failed", 0)
    /\ Finish(c, 1)
    /\ UNCHANGED <<terms, captured, refunded, idempotency, ledger, audit>>

CommitCapture(c) ==
    LET p == tx[c].req.payment
        t == Subject(c) IN
    /\ Ready(c, "capture", "ok")
    /\ PostJournal(c, CaptureLines(t), t.amount)
    /\ WriteStatus(c, "CAPTURED")
    /\ captured' = [captured EXCEPT ![p] = t.amount]
    /\ Emit(p, "payment.captured", t.amount)
    /\ Audit("payment.captured", p)
    /\ Finish(c, 1)
    /\ UNCHANGED <<terms, refunded, idempotency>>

CommitCancel(c) ==
    /\ Ready(c, "cancel", "ok")
    /\ WriteStatus(c, "CANCELLED")
    /\ Emit(tx[c].req.payment, "payment.cancelled", 0)
    /\ Finish(c, 1)
    /\ UNCHANGED <<terms, captured, refunded, idempotency, ledger, audit>>

CommitRefund(c) ==
    LET r == tx[c].req
        row == tx[c].row
        total == row.refunded + r.amount IN
    /\ Ready(c, "refund", "ok")
    /\ PostJournal(c, RefundLines(Subject(c)), r.amount)
    /\ refunded' = [refunded EXCEPT ![r.payment] = total]
    /\ WriteStatus(c, StatusAfterRefund(row.captured, total))
    /\ Emit(r.payment, "payment.refunded", r.amount)
    /\ Finish(c, 1)
    /\ UNCHANGED <<terms, captured, idempotency, audit>>

CommitFund(c) ==
    LET r == tx[c].req IN
    /\ Ready(c, "fund", "ok")
    /\ PostJournal(c, FundingLines(r.merchant, r.customer, r.currency), r.amount)
    /\ Audit("account.funded", r.customer)
    /\ Finish(c, 1)
    /\ UNCHANGED <<payment, idempotency, outbox>>

Commit(c) ==
    \/ CommitCreate(c) \/ CommitReplay(c)
    \/ CommitAuthorize(c) \/ CommitDecline(c)
    \/ CommitCapture(c) \/ CommitCancel(c)
    \/ CommitRefund(c) \/ CommitFund(c)

-----------------------------------------------------------------------------
(* Failures, answers and retries.                                          *)

Forget(c, label) ==
    Becomes(c, [Idle EXCEPT !.pc = label, !.req = tx[c].req,
                    !.retries = tx[c].retries, !.applied = tx[c].applied])

(* The process or its connection dies: PostgreSQL rolls back.              *)
Abort(c) ==
    /\ InTransaction(c)
    /\ Forget(c, "unanswered")
    /\ Release(c)
    /\ UNCHANGED <<database, sent>>

LoseAnswer(c) ==
    /\ tx[c].pc = "answered"
    /\ Forget(c, "unanswered")
    /\ UNCHANGED <<database, locks, sent>>

Retry(c) ==
    /\ tx[c].pc = "unanswered"
    /\ tx[c].retries < MaxRetries
    /\ Becomes(c, [tx[c] EXCEPT !.pc = Begin(tx[c].req.op),
                                !.retries = tx[c].retries + 1])
    /\ UNCHANGED <<database, locks, sent>>

(* The caller reads its answer, or gives up on getting one. *)
Done(c) ==
    /\ tx[c].pc \in {"answered", "unanswered"}
    /\ Becomes(c, Idle)
    /\ UNCHANGED <<database, locks, sent>>

Statement(c) ==
    \/ ClaimKey(c) \/ KeyConflict(c) \/ InsertPayment(c) \/ CustomerNotFound(c)
    \/ LockPayment(c) \/ NotPermitted(c) \/ LockCustomer(c)
    \/ FindCashAccount(c) \/ SumDebits(c) \/ SumCredits(c)
    \/ LockAccount(c) \/ NotFundable(c)
    \/ EnsureCash(c) \/ EnsureOther(c) \/ InsertJournal(c) \/ JournalExists(c)
    \/ Commit(c)

Next ==
    \/ Register
    \/ \E c \in Client :
          \/ Send(c) \/ Statement(c)
          \/ Abort(c) \/ LoseAnswer(c) \/ Retry(c) \/ Done(c)

Spec == Init /\ [][Next]_vars

(* The server executes the statements of a transaction; with finitely many *)
(* requests, weak fairness also covers the ones that wait for a lock.      *)
Fairness == \A c \in Client : WF_vars(Statement(c)) /\ WF_vars(Done(c))

FairSpec == Spec /\ Fairness

-----------------------------------------------------------------------------
Label == {"idle", "claim", "insert", "payment", "customer", "accounts",
          "debits", "credits", "account", "cash", "other", "journal",
          "commit", "answered", "unanswered"}

Verdict == {"none", "ok", "declined", "replayed", "refused", "duplicate",
            "IDEMPOTENCY_CONFLICT", "CUSTOMER_NOT_FOUND", "INSUFFICIENT_FUNDS"}

AnyRequest ==
    [op : {"create", "fund", "authorize", "capture", "cancel", "refund"},
     merchant : Merchant, key : Key \cup {None}, payment : Payment \cup {None},
     customer : Customer \cup {None}, currency : Currency \cup {None},
     amount : Amount \cup {None}]

Transaction ==
    [pc : Label, req : AnyRequest \cup {None},
     row : [status : PaymentStatus \cup {Absent}, captured : Nat, refunded : Nat],
     new : Payment \cup {None}, debits : Nat, atLock : Int, verdict : Verdict,
     retries : 0..MaxRetries, applied : Nat]

(* Transactions and locks are well formed. *)
TypeOK ==
    /\ Serial!TypeOK
    /\ slots \subseteq LedgerAccount
    /\ \A l \in locks : l.by \in Client /\ l.mode \in {"update", "share"}
    /\ tx \in [Client -> Transaction]
    /\ sent \in 0..MaxRequests

(* Whatever the interleaving of statements, aborts and retries, what       *)
(* commits is a serial execution of the operations in Payments.            *)
ImplementsSerial == Serial!Spec

(* The same from a seeded database: every step is a serial step or none.   *)
StepsAreSerial == [][Serial!Next]_(Serial!vars)

(* available_balance reads the two sums at different times, yet under the  *)
(* customer's lock its result never exceeds the balance: money can only    *)
(* arrive meanwhile.                                                       *)
BalanceReadIsSafe ==
    \A c \in Client : tx[c].pc = "credits" =>
        LET t == Subject(c) IN
        tx[c].debits - credit[CashSlot(c)]
            \in tx[c].atLock..Available(t.customer, t.currency)

(* A transaction about to commit an authorization or a capture still has   *)
(* the money it saw, although others authorize, capture, fund and refund.  *)
FundsStillThere ==
    \A c \in Client :
        /\ tx[c].pc \in {"cash", "other", "journal", "commit"}
        /\ tx[c].req.op \in {"authorize", "capture"}
        /\ tx[c].verdict = "ok"
        => Available(Subject(c).customer, Subject(c).currency) >= Subject(c).amount

(* A payment is declined only if the customer was short of money when the  *)
(* transaction locked the customer: nothing it read later was misread.     *)
DeclineIsJustified ==
    \A c \in Client : Ready(c, "authorize", "declined") =>
        tx[c].atLock < Subject(c).amount

(* The payment row a transaction read stays as it read it until it         *)
(* commits: no lost update of a status or of refunded_amount_minor.        *)
RowReadIsCurrent ==
    \A c \in Client :
        /\ InTransaction(c)
        /\ tx[c].row # NoRow
        => tx[c].row = Row(tx[c].req.payment)

(* The unique key behind PAYMENT_ALREADY_CAPTURED is never what stops a    *)
(* second capture: the lock and the lifecycle stop it first.               *)
BackstopIsSilent ==
    \A c \in Client : tx[c].req # None /\ tx[c].req.op = "capture" =>
        tx[c].verdict # "duplicate"

(* Whom the next statement of c waits for. *)
WaitsFor(c) ==
    LET r == tx[c].req
        slot == IF tx[c].pc = "cash" THEN CashSlot(c) ELSE OtherSlot(c) IN
    CASE tx[c].pc = "claim"    -> Holders(c, KeyRow(r.merchant, r.key), "update")
      [] tx[c].pc = "insert"   -> Holders(c, CustomerRow(r.customer), "share")
      [] tx[c].pc = "payment"  -> Holders(c, PaymentRow(r.payment), "update")
      [] tx[c].pc = "customer" ->
            Holders(c, CustomerRow(Subject(c).customer), "update")
      [] tx[c].pc = "account"  -> Holders(c, AccountRow(r.customer), "update")
      [] tx[c].pc \in {"cash", "other"} /\ slot \notin slots ->
            Holders(c, SlotRow(slot), "update")
      [] tx[c].pc = "journal"  ->
            UNION {Holders(c, JournalRef(j), "update") : j \in References(c)}
      [] OTHER -> {}

(* No set of transactions waits only for one another: the handlers take    *)
(* their locks in one order, and PostgreSQL never has to break a deadlock. *)
NoDeadlock ==
    \A S \in (SUBSET Client) \ {{}} : \E c \in S : WaitsFor(c) \cap S = {}

(* A 201 for a create names the payment the idempotency record of its key  *)
(* names, made with the terms of this very request.                        *)
AnswerMatchesRecord ==
    \A c \in Client :
        /\ tx[c].pc = "answered"
        /\ tx[c].verdict \in {"ok", "replayed"}
        /\ tx[c].req.op = "create"
        => [merchant |-> tx[c].req.merchant, key |-> tx[c].req.key,
            fingerprint |-> TermsOf(tx[c].req), payment |-> tx[c].new]
                \in idempotency

(* docs/security-threat-model.md:13 says money-changing endpoints require  *)
(* idempotency keys: sending a request again never applies it again.       *)
AppliedAtMostOnce == \A c \in Client : tx[c].applied <= 1

(* What the code does ensure: the key of a create, and the lifecycle and    *)
(* the journal references of the others, absorb every retry but a refund's. *)
OnlyRefundsRepeat ==
    \A c \in Client : tx[c].applied > 1 => tx[c].req.op = "refund"

(* Every request is eventually over, answered or given up: no transaction  *)
(* waits for ever.                                                         *)
RequestsEnd == \A c \in Client : tx[c].pc # "idle" ~> tx[c].pc = "idle"
=============================================================================
