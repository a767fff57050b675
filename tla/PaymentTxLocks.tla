--------------------------- MODULE PaymentTxLocks ---------------------------
(***************************************************************************)
(* Proofs about PaymentTx, first part: what each statement does to the     *)
(* transaction that executes it, which locks a transaction holds at which  *)
(* statement, and that lock waits never form a cycle.  For every set of    *)
(* clients and every set of ids, keys and amounts.  The data that the      *)
(* locks protect is the subject of PaymentTxProofs.                        *)
(***************************************************************************)
EXTENDS PaymentTx, WellFoundedInduction, TLAPS

USE AmountAssumption, RiskLevelAssumption, HighAmountAssumption, BoundsAssumption

-----------------------------------------------------------------------------
(* The columns of the committed tables, as Payments types them.            *)
LEMMA Columns ==
    ASSUME Serial!TypeOK
    PROVE  /\ level \in [Merchant -> RiskLevel \cup {None}]
           /\ account \in [Customer -> Account \cup {None}]
           /\ terms \in [Payment -> Terms \cup {None}]
           /\ status \in [Payment -> PaymentStatus \cup {Absent}]
           /\ captured \in [Payment -> Nat] /\ refunded \in [Payment -> Nat]
           /\ idempotency \subseteq [merchant : Merchant, key : Key,
                                     fingerprint : Terms, payment : Payment]
           /\ debit \in [LedgerAccount -> Nat] /\ credit \in [LedgerAccount -> Nat]
  BY DEF Serial!TypeOK, Serial!Account, Account, Serial!Terms, Terms,
         Serial!PaymentStatus, PaymentStatus, Serial!Absent, Absent,
         Serial!LedgerAccount, LedgerAccount

(* A transaction's record is replaced, and nobody else's.                  *)
LEMMA TxBecomes ==
    ASSUME TypeOK, NEW c \in Client, NEW t \in Transaction, Becomes(c, t)
    PROVE  /\ tx' \in [Client -> Transaction] /\ tx'[c] = t
           /\ \A d \in Client \ {c} : tx'[d] = tx[d]
<1> HIDE DEF Transaction
<1> QED
  BY DEF TypeOK, Becomes

(* What a statement leaves alone in the record of its transaction.         *)
Keeps(c, F) ==
    /\ tx'[c].req = tx[c].req /\ tx'[c].retries = tx[c].retries
    /\ "row"     \notin F => tx'[c].row = tx[c].row
    /\ "new"     \notin F => tx'[c].new = tx[c].new
    /\ "debits"  \notin F => tx'[c].debits = tx[c].debits
    /\ "atLock"  \notin F => tx'[c].atLock = tx[c].atLock
    /\ "verdict" \notin F => tx'[c].verdict = tx[c].verdict
    /\ "applied" \notin F => tx'[c].applied = tx[c].applied

Others(c) == /\ tx' \in [Client -> Transaction]
             /\ \A d \in Client \ {c} : tx'[d] = tx[d]

(* The ways a statement changes its transaction's record.                  *)
LEMMA GotoEffect ==
    ASSUME TypeOK, NEW c \in Client, NEW l \in Label, Goto(c, l)
    PROVE  Others(c) /\ tx'[c].pc = l /\ Keeps(c, {})
<1>1. tx[c] \in Transaction
  BY DEF TypeOK
<1>2. PICK t : t = [tx[c] EXCEPT !.pc = l]
  OBVIOUS
<1>3. t \in Transaction
  BY <1>1, <1>2 DEF Transaction
<1>4. tx'[c] = t /\ Others(c)
  BY <1>2, <1>3, TxBecomes DEF Goto, Others
<1> QED
  BY <1>1, <1>2, <1>4 DEF Transaction, Keeps

LEMMA VerdictEffect ==
    ASSUME TypeOK, NEW c \in Client, NEW l \in Label, NEW v \in Verdict,
           Becomes(c, [tx[c] EXCEPT !.pc = l, !.verdict = v])
    PROVE  /\ Others(c) /\ tx'[c].pc = l /\ tx'[c].verdict = v
           /\ Keeps(c, {"verdict"})
<1>1. tx[c] \in Transaction
  BY DEF TypeOK
<1>2. PICK t : t = [tx[c] EXCEPT !.pc = l, !.verdict = v]
  OBVIOUS
<1>3. t = [pc |-> l, req |-> tx[c].req, row |-> tx[c].row, new |-> tx[c].new,
           debits |-> tx[c].debits, atLock |-> tx[c].atLock, verdict |-> v,
           retries |-> tx[c].retries, applied |-> tx[c].applied]
  BY <1>1, <1>2 DEF Transaction
<1>4. t \in Transaction
  BY <1>1, <1>3 DEF Transaction
<1>5. tx'[c] = t /\ Others(c)
  BY <1>2, <1>4, TxBecomes DEF Others
<1> QED
  BY <1>3, <1>5 DEF Keeps

LEMMA PlacedEffect ==
    ASSUME TypeOK, NEW c \in Client, NEW v \in Verdict, NEW p \in Payment \cup {None},
           Becomes(c, [tx[c] EXCEPT !.pc = "commit", !.verdict = v, !.new = p])
    PROVE  /\ Others(c) /\ tx'[c].pc = "commit" /\ tx'[c].verdict = v
           /\ tx'[c].new = p /\ Keeps(c, {"verdict", "new"})
<1>1. tx[c] \in Transaction
  BY DEF TypeOK
<1>2. PICK t : t = [tx[c] EXCEPT !.pc = "commit", !.verdict = v, !.new = p]
  OBVIOUS
<1>3. t = [pc |-> "commit", req |-> tx[c].req, row |-> tx[c].row, new |-> p,
           debits |-> tx[c].debits, atLock |-> tx[c].atLock, verdict |-> v,
           retries |-> tx[c].retries, applied |-> tx[c].applied]
  BY <1>1, <1>2 DEF Transaction
<1>4. t \in Transaction
  BY <1>1, <1>3 DEF Transaction, Label
<1>5. tx'[c] = t /\ Others(c)
  BY <1>2, <1>4, TxBecomes DEF Others
<1> QED
  BY <1>3, <1>5 DEF Keeps

LEMMA FinishEffect ==
    ASSUME TypeOK, NEW c \in Client, NEW n \in Nat, Finish(c, n)
    PROVE  /\ Others(c) /\ tx'[c].pc = "answered" /\ tx'[c].row = NoRow
           /\ tx'[c].applied = tx[c].applied + n
           /\ Keeps(c, {"row", "debits", "atLock", "applied"})
<1>1. tx[c] \in Transaction
  BY DEF TypeOK
<1>2. PICK a \in Nat : a = tx[c].applied + n
  BY <1>1 DEF Transaction
<1>3. PICK t : t = [tx[c] EXCEPT !.pc = "answered", !.row = NoRow, !.debits = 0,
                                 !.atLock = 0, !.applied = a]
  OBVIOUS
<1>4. t = [pc |-> "answered", req |-> tx[c].req, row |-> NoRow, new |-> tx[c].new,
           debits |-> 0, atLock |-> 0, verdict |-> tx[c].verdict,
           retries |-> tx[c].retries, applied |-> a]
  BY <1>1, <1>3 DEF Transaction
<1>5. NoRow \in [status : PaymentStatus \cup {Absent}, captured : Nat, refunded : Nat]
  BY DEF NoRow
<1>6. t \in Transaction
  BY <1>1, <1>4, <1>5 DEF Transaction, Label
<1>7. tx'[c] = t /\ Others(c)
  BY <1>2, <1>3, <1>6, TxBecomes DEF Others, Finish
<1> QED
  BY <1>2, <1>4, <1>7 DEF Keeps

LEMMA LockedEffect ==
    ASSUME TypeOK, NEW c \in Client, NEW l \in Label, NEW p \in Payment,
           Becomes(c, [tx[c] EXCEPT !.pc = l, !.row = Row(p), !.verdict = "ok"])
    PROVE  /\ Others(c) /\ tx'[c].pc = l /\ tx'[c].row = Row(p)
           /\ tx'[c].verdict = "ok" /\ Keeps(c, {"row", "verdict"})
<1>1. tx[c] \in Transaction
  BY DEF TypeOK
<1>2. PICK row : row = Row(p)
  OBVIOUS
<1>3. row \in [status : PaymentStatus \cup {Absent}, captured : Nat, refunded : Nat]
  BY <1>2, Columns DEF TypeOK, Row
<1>4. PICK t : t = [tx[c] EXCEPT !.pc = l, !.row = row, !.verdict = "ok"]
  OBVIOUS
<1>5. t = [pc |-> l, req |-> tx[c].req, row |-> row, new |-> tx[c].new,
           debits |-> tx[c].debits, atLock |-> tx[c].atLock, verdict |-> "ok",
           retries |-> tx[c].retries, applied |-> tx[c].applied]
  BY <1>1, <1>4 DEF Transaction
<1>6. t \in Transaction
  BY <1>1, <1>3, <1>5 DEF Transaction, Verdict
<1>7. tx'[c] = t /\ Others(c)
  BY <1>2, <1>4, <1>6, TxBecomes DEF Others
<1> QED
  BY <1>2, <1>5, <1>7 DEF Keeps

(* The balance a transaction reads, in one statement or in two.            *)
LEMMA BalanceTypes ==
    ASSUME TypeOK, NEW t \in Terms
    PROVE  /\ Cash(t.customer, t.currency) \in LedgerAccount
           /\ debit[Cash(t.customer, t.currency)] \in Nat
           /\ credit[Cash(t.customer, t.currency)] \in Nat
           /\ Available(t.customer, t.currency) \in Int
<1>1. Cash(t.customer, t.currency) \in LedgerAccount
  BY DEF Cash, LedgerAccount, Terms
<1>2. /\ debit[Cash(t.customer, t.currency)] \in Nat
      /\ credit[Cash(t.customer, t.currency)] \in Nat
  BY <1>1, Columns DEF TypeOK
<1> QED
  BY <1>1, <1>2 DEF Available

LEMMA LockCustomerEffect ==
    ASSUME TypeOK, NEW c \in Client, Subject(c) \in Terms, LockCustomer(c)
    PROVE  /\ Others(c) /\ tx'[c].pc = "accounts"
           /\ tx'[c].atLock = Available(Subject(c).customer, Subject(c).currency)
           /\ Keeps(c, {"atLock"})
<1>1. tx[c] \in Transaction
  BY DEF TypeOK
<1>2. PICK a \in Int : a = Available(Subject(c).customer, Subject(c).currency)
  BY BalanceTypes
<1>4. PICK t : t = [tx[c] EXCEPT !.pc = "accounts", !.atLock = a]
  OBVIOUS
<1>5. t = [pc |-> "accounts", req |-> tx[c].req, row |-> tx[c].row, new |-> tx[c].new,
           debits |-> tx[c].debits, atLock |-> a, verdict |-> tx[c].verdict,
           retries |-> tx[c].retries, applied |-> tx[c].applied]
  BY <1>1, <1>4 DEF Transaction
<1>6. t \in Transaction
  BY <1>1, <1>5 DEF Transaction, Label
<1>7. tx'[c] = t /\ Others(c)
  BY <1>2, <1>4, <1>6, TxBecomes DEF Others, LockCustomer
<1> QED
  BY <1>2, <1>5, <1>7 DEF Keeps

LEMMA SumDebitsEffect ==
    ASSUME TypeOK, NEW c \in Client, Subject(c) \in Terms, SumDebits(c)
    PROVE  /\ Others(c) /\ tx'[c].pc = "credits"
           /\ tx'[c].debits = debit[Cash(Subject(c).customer, Subject(c).currency)]
           /\ Keeps(c, {"debits"})
<1>1. tx[c] \in Transaction
  BY DEF TypeOK
<1>2. PICK a \in Nat : a = debit[Cash(Subject(c).customer, Subject(c).currency)]
  BY BalanceTypes
<1>4. PICK t : t = [tx[c] EXCEPT !.pc = "credits", !.debits = a]
  OBVIOUS
<1>5. t = [pc |-> "credits", req |-> tx[c].req, row |-> tx[c].row, new |-> tx[c].new,
           debits |-> a, atLock |-> tx[c].atLock, verdict |-> tx[c].verdict,
           retries |-> tx[c].retries, applied |-> tx[c].applied]
  BY <1>1, <1>4 DEF Transaction
<1>6. t \in Transaction
  BY <1>1, <1>5 DEF Transaction, Label
<1>7. tx'[c] = t /\ Others(c)
  BY <1>2, <1>4, <1>6, TxBecomes DEF Others, SumDebits
<1> QED
  BY <1>2, <1>5, <1>7 DEF Keeps

(* The caller's steps.                                                     *)
LEMMA IdleTyped == Idle \in Transaction
<1>1. NoRow \in [status : PaymentStatus \cup {Absent}, captured : Nat, refunded : Nat]
  BY DEF NoRow
<1>2. 0 \in 0..MaxRetries
  OBVIOUS
<1> QED
  BY <1>1, <1>2 DEF Idle, Transaction, Label, Verdict

LEMMA BeginIsLabel == \A op : Begin(op) \in Label
  BY DEF Begin, Label

LEMMA SendEffect ==
    ASSUME TypeOK, NEW c \in Client, NEW r \in AnyRequest,
           Becomes(c, [Idle EXCEPT !.pc = Begin(r.op), !.req = r])
    PROVE  /\ Others(c)
           /\ tx'[c] = [pc |-> Begin(r.op), req |-> r, row |-> NoRow, new |-> None,
                        debits |-> 0, atLock |-> 0, verdict |-> "none",
                        retries |-> 0, applied |-> 0]
<1>1. PICK l \in Label : l = Begin(r.op)
  BY BeginIsLabel
<1>2. PICK t : t = [Idle EXCEPT !.pc = l, !.req = r]
  OBVIOUS
<1>3. t = [pc |-> l, req |-> r, row |-> NoRow, new |-> None, debits |-> 0,
           atLock |-> 0, verdict |-> "none", retries |-> 0, applied |-> 0]
  BY <1>2 DEF Idle
<1>4. t \in Transaction
  BY <1>3, IdleTyped DEF Idle, Transaction
<1>5. tx'[c] = t /\ Others(c)
  BY <1>1, <1>2, <1>4, TxBecomes DEF Others
<1> QED
  BY <1>1, <1>3, <1>5

LEMMA ForgetEffect ==
    ASSUME TypeOK, NEW c \in Client, Forget(c, "unanswered")
    PROVE  /\ Others(c)
           /\ tx'[c] = [pc |-> "unanswered", req |-> tx[c].req, row |-> NoRow,
                        new |-> None, debits |-> 0, atLock |-> 0,
                        verdict |-> "none", retries |-> tx[c].retries,
                        applied |-> tx[c].applied]
<1>1. tx[c] \in Transaction
  BY DEF TypeOK
<1>2. PICK t : t = [Idle EXCEPT !.pc = "unanswered", !.req = tx[c].req,
                        !.retries = tx[c].retries, !.applied = tx[c].applied]
  OBVIOUS
<1>3. t = [pc |-> "unanswered", req |-> tx[c].req, row |-> NoRow,
           new |-> None, debits |-> 0, atLock |-> 0, verdict |-> "none",
           retries |-> tx[c].retries, applied |-> tx[c].applied]
  BY <1>2 DEF Idle
<1>4. t \in Transaction
  BY <1>1, <1>3, IdleTyped DEF Idle, Transaction, Label
<1>5. tx'[c] = t /\ Others(c)
  BY <1>2, <1>4, TxBecomes DEF Others, Forget
<1> QED
  BY <1>3, <1>5

LEMMA RetryEffect ==
    ASSUME TypeOK, NEW c \in Client, Retry(c)
    PROVE  /\ Others(c) /\ tx'[c].pc = Begin(tx[c].req.op)
           /\ tx'[c].req = tx[c].req /\ tx'[c].row = tx[c].row
           /\ tx'[c].new = tx[c].new /\ tx'[c].verdict = tx[c].verdict
           /\ tx'[c].applied = tx[c].applied
<1>1. tx[c] \in Transaction
  BY DEF TypeOK
<1>2. PICK l \in Label : l = Begin(tx[c].req.op)
  BY BeginIsLabel
<1>3. PICK n \in 0..MaxRetries : n = tx[c].retries + 1
  BY <1>1 DEF Transaction, Retry
<1>4. PICK t : t = [tx[c] EXCEPT !.pc = l, !.retries = n]
  OBVIOUS
<1>5. t = [pc |-> l, req |-> tx[c].req, row |-> tx[c].row, new |-> tx[c].new,
           debits |-> tx[c].debits, atLock |-> tx[c].atLock,
           verdict |-> tx[c].verdict, retries |-> n, applied |-> tx[c].applied]
  BY <1>1, <1>4 DEF Transaction
<1>6. t \in Transaction
  BY <1>1, <1>5 DEF Transaction
<1>7. tx'[c] = t /\ Others(c)
  BY <1>2, <1>3, <1>4, <1>6, TxBecomes DEF Others, Retry
<1> QED
  BY <1>2, <1>5, <1>7

LEMMA DoneEffect ==
    ASSUME TypeOK, NEW c \in Client, Done(c)
    PROVE  Others(c) /\ tx'[c] = Idle
  BY IdleTyped, TxBecomes DEF Done, Others

-----------------------------------------------------------------------------
(* The invariant.  Most of it says of each transaction what it relies on   *)
(* between two of its statements.                                          *)

(* The labels of a transaction from its locked payment to its commit.      *)
Reading  == {"accounts", "debits", "credits"}
Posting  == {"cash", "other", "journal"}
PastLock == {"customer"} \cup Reading \cup Posting \cup {"commit"}

OnPayment == {"authorize", "capture", "cancel", "refund"}
Paying    == {"authorize", "capture"}

Labels(op) ==
    {"answered", "unanswered", "commit"} \cup
    CASE op = "create"    -> {"claim", "insert"}
      [] op = "authorize" -> {"payment", "customer"} \cup Reading
      [] op = "capture"   -> {"payment", "customer"} \cup Reading \cup Posting
      [] op = "cancel"    -> {"payment"}
      [] op = "refund"    -> {"payment"} \cup Posting
      [] op = "fund"      -> {"account"} \cup Posting

(* The fields an operation uses are filled in, and its merchant exists.    *)
RequestOK(r) ==
    /\ r \in AnyRequest /\ level[r.merchant] # None
    /\ r.op \in {"create", "fund"} =>
          r.customer \in Customer /\ r.currency \in Currency /\ r.amount \in Amount
    /\ r.op = "create" => r.key \in Key
    /\ r.op = "refund" => r.amount \in Amount
    /\ r.op \in OnPayment => r.payment \in Payment

InControl(c) ==
    tx[c].pc # "idle" => RequestOK(tx[c].req) /\ tx[c].pc \in Labels(tx[c].req.op)

(* Two transactions hold locks on one row only if both share it.           *)
Exclusive ==
    \A l, k \in locks : l.row = k.row /\ l.by # k.by =>
        l.mode = "share" /\ k.mode = "share"

(* How far a transaction that holds a lock has come.                       *)
Holding(row) ==
    CASE row[1] = "key"      -> {"insert", "commit"}
      [] row[1] = "payment"  -> PastLock
      [] row[1] = "customer" -> PastLock \ {"customer"}
      [] row[1] = "account"  -> Posting \cup {"commit"}
      [] row[1] = "ledger account" ->
            {"journal", "commit"}
            \cup (IF row[2][2] = "customer_cash" THEN {"other"} ELSE {})
      [] row[1] = "journal"  -> {"commit"}
      [] OTHER -> {}

LocksInOrder == \A l \in locks : tx[l.by].pc \in Holding(l.row)

Holds(c, row) == Lock(c, row, "update") \in locks

Ensured(c, slot) == slot \in slots \/ Holds(c, SlotRow(slot))

(* The locks a transaction relies on.                                      *)
LocksKept(c) ==
    LET r == tx[c].req
        pc == tx[c].pc IN
    pc # "idle" =>
    /\ r.op = "create" /\ pc \in {"insert", "commit"} =>
          Holds(c, KeyRow(r.merchant, r.key))
    /\ r.op \in OnPayment /\ pc \in PastLock => Holds(c, PaymentRow(r.payment))
    /\ r.op \in Paying /\ pc \in PastLock \ {"customer"} =>
          Holds(c, CustomerRow(terms[r.payment].customer))
    /\ pc = "commit" => \A j \in References(c) : Holds(c, JournalRef(j))
    /\ r.op \in {"fund", "capture", "refund"} =>
          /\ pc \in {"other", "journal", "commit"} => Ensured(c, CashSlot(c))
          /\ pc \in {"journal", "commit"} => Ensured(c, OtherSlot(c))

(* The payment row a transaction read is still the committed one, and      *)
(* permits what it is about to do.                                         *)
RowCurrent(c) ==
    LET r == tx[c].req IN
    IF tx[c].pc \in PastLock /\ r.op \in OnPayment
    THEN Found(r) /\ tx[c].row = Row(r.payment) /\ Permitted(r, tx[c].row)
    ELSE tx[c].pc # "answered" => tx[c].row = NoRow

Recording(c) ==
    [merchant |-> tx[c].req.merchant, key |-> tx[c].req.key,
     fingerprint |-> TermsOf(tx[c].req), payment |-> tx[c].new]

Creating(c) == Ready(c, "create", "ok")

(* A create that holds its key is the first under it, and its new payment  *)
(* is nobody else's; a replay names the recorded payment.                  *)
CreateOK(c) ==
    LET t == tx[c] IN
    t.pc # "idle" /\ t.req.op = "create" =>
        /\ t.pc = "insert" \/ Creating(c) => Recorded(t.req) = {}
        /\ Creating(c) =>
              /\ t.new \in Payment /\ status[t.new] = Absent
              /\ CustomerOf(t.req)
              /\ \A d \in Client \ {c} : Creating(d) => tx[d].new # t.new
        /\ \/ t.pc = "commit" /\ t.verdict = "replayed"
           \/ t.pc = "answered" /\ t.verdict \in {"ok", "replayed"}
           => Recording(c) \in idempotency

(* What the other operations have checked stays true until they commit.    *)
FundOK(c) ==
    LET r == tx[c].req IN
    tx[c].pc # "idle" =>
    /\ r.op = "fund" /\ tx[c].pc \in Posting \cup {"commit"} =>
          CustomerOf(r) /\ account[r.customer].currency = r.currency
    /\ r.op \in {"fund", "capture"} /\ tx[c].pc = "commit" =>
          References(c) \cap posted = {}

(* Under the customer's lock a balance can only grow.                      *)
BalanceOK(c) ==
    LET t == Subject(c)
        now == Available(t.customer, t.currency) IN
    tx[c].pc # "idle" /\ tx[c].req.op \in Paying =>
        /\ tx[c].pc \in Reading => tx[c].atLock <= now
        /\ tx[c].pc = "credits" =>
              /\ tx[c].debits <= debit[Cash(t.customer, t.currency)]
              /\ tx[c].atLock <= tx[c].debits - credit[Cash(t.customer, t.currency)]
        /\ tx[c].pc \in Posting \cup {"commit"} /\ tx[c].verdict = "ok" =>
              now >= t.amount
        /\ Ready(c, "authorize", "declined") => tx[c].atLock < t.amount

(* An account without a row has no entries.                                *)
EmptyWithoutRow ==
    \A a \in LedgerAccount \ slots : debit[a] = 0 /\ credit[a] = 0

(* What a request that was applied has left behind, so that it cannot be   *)
(* applied again.                                                          *)
Applied(r) ==
    CASE r.op = "create"    -> Recorded(r) # {}
      [] r.op = "fund"      -> <<"account_funding", r.customer>> \in posted
      [] r.op = "authorize" -> status[r.payment] \notin {Absent, "PENDING"}
      [] r.op = "capture"   -> status[r.payment] \in Settled
      [] r.op = "cancel"    -> status[r.payment] = "CANCELLED"
      [] OTHER              -> TRUE

AppliedOnce(c) ==
    IF tx[c].pc = "idle" THEN tx[c].applied = 0
    ELSE tx[c].applied > 0 =>
            /\ Applied(tx[c].req)
            /\ tx[c].req.op # "refund" => tx[c].applied = 1

TxInv ==
    /\ TypeOK /\ Serial!IInv
    /\ Exclusive /\ LocksInOrder /\ EmptyWithoutRow /\ BackstopIsSilent
    /\ \A c \in Client : /\ InControl(c) /\ LocksKept(c) /\ RowCurrent(c)
                         /\ CreateOK(c) /\ FundOK(c) /\ BalanceOK(c)
                         /\ AppliedOnce(c)

-----------------------------------------------------------------------------
(* Requests are well formed when they are sent.                            *)
LEMMA RequestsAreOK ==
    ASSUME TypeOK, NEW r \in Requests
    PROVE  RequestOK(r)
<1>1. PICK m \in {x \in Merchant : level[x] # None} :
         r \in {Request("create", m, k, None, c, cur, a) :
                    k \in Key, c \in Customer, cur \in Currency, a \in Amount}
               \cup {Request("fund", m, None, None, c, cur, a) :
                    c \in Customer, cur \in Currency, a \in Amount}
               \cup {Request(op, m, None, p, None, None, None) :
                    op \in {"authorize", "capture", "cancel"}, p \in Payment}
               \cup {Request("refund", m, None, p, None, None, a) :
                    p \in Payment, a \in Amount}
  BY DEF Requests
<1>2. CASE r \in {Request("create", m, k, None, c, cur, a) :
                    k \in Key, c \in Customer, cur \in Currency, a \in Amount}
  BY <1>2 DEF Request, RequestOK, AnyRequest, OnPayment
<1>3. CASE r \in {Request("fund", m, None, None, c, cur, a) :
                    c \in Customer, cur \in Currency, a \in Amount}
  BY <1>3 DEF Request, RequestOK, AnyRequest, OnPayment
<1>4. CASE r \in {Request(op, m, None, p, None, None, None) :
                    op \in {"authorize", "capture", "cancel"}, p \in Payment}
  BY <1>4 DEF Request, RequestOK, AnyRequest, OnPayment
<1>5. CASE r \in {Request("refund", m, None, p, None, None, a) :
                    p \in Payment, a \in Amount}
  BY <1>5 DEF Request, RequestOK, AnyRequest, OnPayment
<1> QED
  BY <1>1, <1>2, <1>3, <1>4, <1>5

(* The invariant of Payments, in this module's vocabulary, as far as the   *)
(* transactions rely on it.                                                *)
LEMMA SerialFacts ==
    ASSUME Serial!IInv
    PROVE  /\ \A p \in Payment : status[p] # Absent =>
                 /\ terms[p] \in Terms
                 /\ account[terms[p].customer] \in Account
                 /\ account[terms[p].customer].merchant = terms[p].merchant
           /\ \A p \in Payment :
                 <<"payment_capture", p>> \in posted <=> status[p] \in Settled
           /\ \A i \in idempotency : status[i.payment] # Absent
  BY DEF Serial!IInv, Serial!RowsComplete, Serial!Exists, Serial!Absent, Absent,
         Serial!Terms, Terms, Serial!Account, Account, Serial!Settled, Settled,
         Serial!CaptureJournalMatchesStatus, Serial!OneKeyOnePayment

(* What a request is about is known once its payment was found.            *)
LEMMA SubjectKnown ==
    ASSUME TxInv, NEW c \in Client, tx[c].pc # "idle",
           tx[c].req.op \in {"create", "fund"} \/ tx[c].pc \in PastLock
    PROVE  /\ Subject(c) \in Terms
           /\ tx[c].req.op \in OnPayment =>
                 /\ tx[c].req.payment \in Payment
                 /\ status[tx[c].req.payment] # Absent
                 /\ Subject(c) = terms[tx[c].req.payment]
<1>1. RequestOK(tx[c].req) /\ tx[c].req.op \in
          {"create", "fund", "authorize", "capture", "cancel", "refund"}
  BY DEF TxInv, InControl, RequestOK, AnyRequest
<1>2. CASE tx[c].req.op \in {"create", "fund"}
  BY <1>1, <1>2 DEF RequestOK, AnyRequest, TermsOf, Subject, Terms, OnPayment
<1>3. CASE tx[c].req.op \notin {"create", "fund"}
  <2>1. tx[c].req.op \in OnPayment /\ tx[c].pc \in PastLock
    BY <1>1, <1>3 DEF OnPayment
  <2>2. Found(tx[c].req) /\ tx[c].req.payment \in Payment
    BY <1>1, <2>1 DEF TxInv, RowCurrent, RequestOK
  <2> QED
    BY <1>3, <2>1, <2>2, SerialFacts DEF TxInv, Found, Subject
<1> QED
  BY <1>2, <1>3

-----------------------------------------------------------------------------
(* Which steps change the database: registrations and commits.             *)
Calls(c) ==
    \/ Send(c) \/ Abort(c) \/ LoseAnswer(c) \/ Retry(c) \/ Done(c)
    \/ ClaimKey(c) \/ KeyConflict(c) \/ InsertPayment(c) \/ CustomerNotFound(c)
    \/ LockPayment(c) \/ NotPermitted(c) \/ LockCustomer(c)
    \/ FindCashAccount(c) \/ SumDebits(c) \/ SumCredits(c)
    \/ LockAccount(c) \/ NotFundable(c)
    \/ EnsureCash(c) \/ EnsureOther(c) \/ InsertJournal(c) \/ JournalExists(c)

LEMMA StepCases ==
    ASSUME Next
    PROVE  Register \/ \E c \in Client : Calls(c) \/ Commit(c)
  BY DEF Next, Statement, Calls

LEMMA CallsReadOnly ==
    ASSUME NEW c, Calls(c)
    PROVE  UNCHANGED database
<1>1. \A v : Refuse(c, v) => UNCHANGED database
  BY DEF Refuse
<1>2. \A b : Judge(c, b) => UNCHANGED database
  BY <1>1 DEF Judge
<1>3. \A s, n : Ensure(c, s, n) => UNCHANGED database
  BY DEF Ensure
<1>4. CASE Send(c) \/ Abort(c) \/ LoseAnswer(c) \/ Retry(c) \/ Done(c)
           \/ ClaimKey(c) \/ InsertPayment(c) \/ LockPayment(c) \/ LockCustomer(c)
           \/ SumDebits(c) \/ LockAccount(c) \/ InsertJournal(c)
  BY <1>4 DEF Send, Abort, LoseAnswer, Retry, Done, ClaimKey, InsertPayment,
              LockPayment, LockCustomer, SumDebits, LockAccount, InsertJournal
<1>5. CASE KeyConflict(c) \/ CustomerNotFound(c) \/ NotPermitted(c) \/ NotFundable(c)
           \/ JournalExists(c)
  BY <1>1, <1>5 DEF KeyConflict, CustomerNotFound, NotPermitted, NotFundable,
                    JournalExists
<1>6. CASE FindCashAccount(c) \/ SumCredits(c)
  BY <1>2, <1>6 DEF FindCashAccount, SumCredits
<1>7. CASE EnsureCash(c) \/ EnsureOther(c)
  BY <1>3, <1>7 DEF EnsureCash, EnsureOther
<1> QED
  BY <1>4, <1>5, <1>6, <1>7 DEF Calls

(* What a commit does besides the writes of its operation.                 *)
LEMMA CommitFinishes ==
    ASSUME NEW c, Commit(c)
    PROVE  /\ tx[c].pc = "commit"
           /\ \E n \in {0, 1} : Finish(c, n)
           /\ Release(c) /\ UNCHANGED <<level, account, sent>>
           /\ slots \subseteq slots'
<1>1. tx[c].pc = "commit" /\ \E n \in {0, 1} : Finish(c, n)
  BY DEF Commit, CommitCreate, CommitReplay, CommitAuthorize, CommitDecline,
         CommitCapture, CommitCancel, CommitRefund, CommitFund, Ready
<1> QED
  BY <1>1 DEF Finish

(* Rows, records and journals that are committed stay.                     *)
Persists ==
    /\ \A p \in Payment : status[p] # Absent =>
          status'[p] # Absent /\ terms'[p] = terms[p]
    /\ \A m \in Merchant : level[m] # None => level'[m] = level[m]
    /\ \A x \in Customer : account[x] # None => account'[x] = account[x]
    /\ slots \subseteq slots' /\ idempotency \subseteq idempotency'
    /\ posted \subseteq posted'

LEMMA CommitPersists ==
    ASSUME TxInv, NEW c \in Client, Commit(c)
    PROVE  Persists
<1>1. UNCHANGED <<level, account>> /\ slots \subseteq slots' /\ tx[c].pc = "commit"
  BY CommitFinishes
<1>2. /\ status \in [Payment -> PaymentStatus \cup {Absent}]
      /\ terms \in [Payment -> Terms \cup {None}]
  BY Columns DEF TxInv, TypeOK
<1>3. ASSUME NEW s, s # Absent, WriteStatus(c, s), UNCHANGED terms
      PROVE  \A p \in Payment : status[p] # Absent =>
                status'[p] # Absent /\ terms'[p] = terms[p]
  BY <1>2, <1>3 DEF WriteStatus
<1>4. idempotency \subseteq idempotency' /\ posted \subseteq posted'
  BY DEF Commit, CommitCreate, CommitReplay, CommitAuthorize, CommitDecline,
         CommitCapture, CommitCancel, CommitRefund, CommitFund, PostJournal, ledger
<1>5. \A p \in Payment : status[p] # Absent =>
          status'[p] # Absent /\ terms'[p] = terms[p]
  <2>1. CASE CommitCreate(c)
    <3>1. status[tx[c].new] = Absent
      BY <2>1 DEF CommitCreate, Ready, TxInv, CreateOK, Creating
    <3> QED
      BY <1>2, <2>1, <3>1 DEF CommitCreate
  <2>2. CASE CommitReplay(c) \/ CommitFund(c)
    BY <2>2 DEF CommitReplay, CommitFund, payment
  <2>3. CASE CommitAuthorize(c)
    BY <1>3, <2>3 DEF CommitAuthorize, Absent
  <2>4. CASE CommitDecline(c)
    BY <1>3, <2>4 DEF CommitDecline, Absent
  <2>5. CASE CommitCapture(c)
    BY <1>3, <2>5 DEF CommitCapture, Absent
  <2>6. CASE CommitCancel(c)
    BY <1>3, <2>6 DEF CommitCancel, Absent
  <2>7. CASE CommitRefund(c)
    <3>1. \A x, y : StatusAfterRefund(x, y) # Absent
      BY DEF StatusAfterRefund, Absent
    <3> QED
      BY <1>3, <2>7, <3>1 DEF CommitRefund
  <2> QED
    BY <2>1, <2>2, <2>3, <2>4, <2>5, <2>6, <2>7 DEF Commit
<1> QED
  BY <1>1, <1>4, <1>5 DEF Persists

(* A registration adds a merchant or a customer.                           *)
LEMMA RegisterPersists ==
    ASSUME TypeOK, Register
    PROVE  /\ Persists
           /\ UNCHANGED <<terms, status, captured, refunded, idempotency, debit,
                          credit, posted, outbox, slots, locks, tx, sent>>
<1>1. UNCHANGED <<terms, status, captured, refunded, idempotency, debit,
                  credit, posted, outbox, slots, locks, tx, sent>>
  BY DEF Register, Serial!CreateMerchant, Serial!CreateCustomer, Serial!payment,
         Serial!ledger
<1>2. \A m \in Merchant : level[m] # None => level'[m] = level[m]
  BY Columns DEF TypeOK, Register, Serial!CreateMerchant, Serial!CreateCustomer
<1>3. \A x \in Customer : account[x] # None => account'[x] = account[x]
  BY Columns DEF TypeOK, Register, Serial!CreateMerchant, Serial!CreateCustomer
<1> QED
  BY <1>1, <1>2, <1>3 DEF Persists

LEMMA NextPersists ==
    ASSUME TxInv, Next
    PROVE  Persists
<1>1. CASE Register
  BY <1>1, RegisterPersists DEF TxInv
<1>2. ASSUME NEW c \in Client, Calls(c) PROVE Persists
  BY <1>2, CallsReadOnly DEF database, payment, ledger, Persists
<1>3. ASSUME NEW c \in Client, Commit(c) PROVE Persists
  BY <1>3, CommitPersists
<1> QED
  BY <1>1, <1>2, <1>3, StepCases

-----------------------------------------------------------------------------
(* Control flow and locks.                                                 *)
Outside == {"idle", "answered", "unanswered"}

(* The statements follow one another in the order of the handlers.         *)
Forward ==
    {<<"claim", "insert">>, <<"claim", "commit">>, <<"insert", "commit">>,
     <<"payment", "customer">>, <<"payment", "cash">>, <<"payment", "commit">>,
     <<"customer", "accounts">>, <<"accounts", "debits">>, <<"accounts", "cash">>,
     <<"accounts", "commit">>, <<"debits", "credits">>, <<"credits", "cash">>,
     <<"credits", "commit">>, <<"account", "cash">>, <<"cash", "other">>,
     <<"other", "journal">>, <<"journal", "commit">>}

(* A lock a transaction holds does not keep it from going on.              *)
LEMMA HoldingForward ==
    ASSUME NEW f, NEW g, <<f, g>> \in Forward, NEW row, f \in Holding(row)
    PROVE  g \in Holding(row)
<1>1. /\ f \notin {"claim", "payment", "account"}
      /\ f = "insert" => g = "commit"
      /\ f = "insert" \/ (f \in PastLock /\ g \in PastLock \ {"customer"})
      /\ f \in {"cash", "other", "journal", "commit"} => g \in {"other", "journal", "commit"}
      /\ f = "other" => g = "journal"
      /\ f # "commit"
  BY DEF Forward, Holding, PastLock, Posting, Reading
<1> QED
  BY <1>1 DEF Holding, PastLock, Posting, Reading, Forward

(* One statement of a transaction, apart from its commit: it ends it,      *)
(* starts it, or goes on and takes locks that nobody holds.                *)
Ends(c) ==
    /\ tx'[c].pc \in Outside
    /\ Release(c) \/ (tx[c].pc \in Outside /\ UNCHANGED locks)

Starts(c) ==
    /\ tx[c].pc \in {"idle", "unanswered"}
    /\ tx'[c].pc \in {"claim", "payment", "account"}
    /\ UNCHANGED locks

Takes(c, rows, mode) ==
    /\ mode \in {"update", "share"}
    /\ \A row \in rows : Holders(c, row, mode) = {} /\ tx'[c].pc \in Holding(row)
    /\ locks' = locks \cup {Lock(c, row, mode) : row \in rows}

GoesOn(c) ==
    /\ <<tx[c].pc, tx'[c].pc>> \in Forward
    /\ \E rows, mode : Takes(c, rows, mode)

LEMMA TakesNone ==
    ASSUME NEW c, UNCHANGED locks
    PROVE  \E rows, mode : Takes(c, rows, mode)
<1>1. Takes(c, {}, "update")
  BY DEF Takes
<1> QED
  BY <1>1

LEMMA TakesOne ==
    ASSUME NEW c, NEW row, NEW mode \in {"update", "share"},
           Acquire(c, row, mode), tx'[c].pc \in Holding(row)
    PROVE  \E rows, m : Takes(c, rows, m)
<1>1. Takes(c, {row}, mode)
  BY DEF Takes, Acquire
<1> QED
  BY <1>1

(* The labels of an operation, one by one.                                 *)
LEMMA LabelFacts ==
    ASSUME TxInv, NEW c \in Client, tx[c].pc # "idle"
    PROVE  LET r == tx[c].req
               pc == tx[c].pc IN
           /\ r \in AnyRequest /\ RequestOK(r)
           /\ r.op \in {"create", "fund", "authorize", "capture", "cancel", "refund"}
           /\ pc \in {"claim", "insert"} => r.op = "create"
           /\ pc = "payment" => r.op \in OnPayment
           /\ pc \in {"customer"} \cup Reading => r.op \in Paying
           /\ pc = "account" => r.op = "fund"
           /\ pc \in Posting => r.op \in {"capture", "refund", "fund"}
<1>1. RequestOK(tx[c].req) /\ tx[c].pc \in Labels(tx[c].req.op)
  BY DEF TxInv, InControl
<1>2. tx[c].req \in AnyRequest
      /\ tx[c].req.op \in {"create", "fund", "authorize", "capture", "cancel", "refund"}
  BY <1>1 DEF RequestOK, AnyRequest
<1> QED
  BY <1>1, <1>2 DEF Labels, OnPayment, Paying, Reading, Posting

(* One statement other than a commit, as far as control and locks go.      *)
Flow(c) ==
    /\ Others(c)
    /\ Ends(c) \/ Starts(c) \/ GoesOn(c)
    /\ tx'[c].pc # "idle" =>
          RequestOK(tx'[c].req) /\ tx'[c].pc \in Labels(tx'[c].req.op)

LEMMA RefuseFlow ==
    ASSUME TxInv, NEW c \in Client, NEW v \in Verdict, Refuse(c, v),
           tx[c].pc # "idle"
    PROVE  Flow(c) /\ tx'[c].pc = "answered" /\ tx'[c].verdict = v
           /\ Keeps(c, {"verdict"})
<1>1. /\ Others(c) /\ tx'[c].pc = "answered" /\ tx'[c].verdict = v
      /\ Keeps(c, {"verdict"})
  <2>1. "answered" \in Label
    BY DEF Label
  <2>2. TypeOK
    BY DEF TxInv
  <2> QED
    BY <2>1, <2>2, VerdictEffect DEF Refuse
<1>2. Ends(c)
  BY <1>1 DEF Ends, Outside, Refuse
<1> QED
  BY <1>1, <1>2, LabelFacts DEF Flow, Keeps, Labels

LEMMA GotoFlow ==
    ASSUME TxInv, NEW c \in Client, NEW l \in Label, Goto(c, l),
           tx[c].pc # "idle", <<tx[c].pc, l>> \in Forward,
           l \in Labels(tx[c].req.op),
           tx'[c].pc = l => \E rows, m : Takes(c, rows, m)
    PROVE  Flow(c) /\ tx'[c].pc = l /\ Keeps(c, {})
<1>1. Others(c) /\ tx'[c].pc = l /\ Keeps(c, {})
  BY GotoEffect DEF TxInv
<1>2. GoesOn(c)
  BY <1>1 DEF GoesOn
<1>3. RequestOK(tx[c].req)
  BY LabelFacts
<1> QED
  BY <1>1, <1>2, <1>3 DEF Flow, Keeps

-----------------------------------------------------------------------------
(* The statements of create_payment.                                       *)
LEMMA ClaimKeyFlow ==
    ASSUME TxInv, NEW c \in Client, ClaimKey(c)
    PROVE  /\ Flow(c) /\ Keeps(c, {"verdict", "new"})
           /\ tx[c].pc = "claim" /\ tx[c].req.op = "create"
           /\ Lock(c, KeyRow(tx[c].req.merchant, tx[c].req.key), "update") \in locks'
           /\ \/ /\ tx'[c].pc = "insert" /\ Keeps(c, {})
                 /\ Recorded(tx[c].req) = {}
              \/ /\ tx'[c].pc = "commit" /\ tx'[c].verdict = "replayed"
                 /\ \E i \in Recorded(tx[c].req) :
                       tx'[c].new = i.payment /\ SameRequest(i, tx[c].req)
<1> DEFINE r == tx[c].req
<1>1. TypeOK /\ tx[c].pc = "claim" /\ r.op = "create" /\ RequestOK(r)
  BY LabelFacts DEF TxInv, ClaimKey
<1>2. Acquire(c, KeyRow(r.merchant, r.key), "update")
  BY DEF ClaimKey
<1>3. {"insert", "commit"} \subseteq Holding(KeyRow(r.merchant, r.key))
  BY DEF Holding, KeyRow
<1>4. CASE Recorded(r) = {} /\ Goto(c, "insert")
  <2>1. tx'[c].pc = "insert" => \E rows, m : Takes(c, rows, m)
    BY <1>2, <1>3, TakesOne
  <2> QED
    BY <1>1, <1>2, <1>4, <2>1, GotoFlow
       DEF Label, Forward, Labels, Acquire, Keeps
<1>5. ASSUME NEW i \in Recorded(r),
             Becomes(c, [tx[c] EXCEPT !.pc = "commit", !.verdict = "replayed",
                                      !.new = i.payment])
      PROVE  /\ Flow(c) /\ Keeps(c, {"verdict", "new"})
             /\ tx'[c].pc = "commit" /\ tx'[c].verdict = "replayed"
             /\ tx'[c].new = i.payment /\ SameRequest(i, r)
  <2>1. i.payment \in Payment
    BY <1>1, <1>5, Columns DEF TypeOK, Recorded
  <2>2. /\ Others(c) /\ tx'[c].pc = "commit" /\ tx'[c].verdict = "replayed"
        /\ tx'[c].new = i.payment /\ Keeps(c, {"verdict", "new"})
    <3>1. "replayed" \in Verdict
      BY DEF Verdict
    <3> QED
      BY <1>1, <1>5, <2>1, <3>1, PlacedEffect
  <2>3. \E rows, m : Takes(c, rows, m)
    BY <1>2, <1>3, <2>2, TakesOne
  <2>4. GoesOn(c)
    BY <1>1, <2>2, <2>3 DEF GoesOn, Forward
  <2>5. SameRequest(i, r)
    BY <1>5 DEF ClaimKey
  <2> QED
    BY <1>1, <2>2, <2>4, <2>5 DEF Flow, Keeps, Labels
<1>6. (Recorded(r) = {} /\ Goto(c, "insert"))
      \/ \E i \in Recorded(r) :
            Becomes(c, [tx[c] EXCEPT !.pc = "commit", !.verdict = "replayed",
                                     !.new = i.payment])
  BY DEF ClaimKey
<1>7. Lock(c, KeyRow(r.merchant, r.key), "update") \in locks'
  BY <1>2 DEF Acquire
<1> QED
  BY <1>1, <1>4, <1>5, <1>6, <1>7, GotoFlow DEF Keeps

LEMMA InsertPaymentFlow ==
    ASSUME TxInv, NEW c \in Client, InsertPayment(c)
    PROVE  /\ Flow(c) /\ Keeps(c, {"verdict", "new"})
           /\ tx[c].pc = "insert" /\ tx[c].req.op = "create"
           /\ tx'[c].pc = "commit" /\ tx'[c].verdict = "ok"
           /\ tx'[c].new \in Payment /\ status[tx'[c].new] = Absent
           /\ CustomerOf(tx[c].req) /\ \A d \in Client : tx[d].new # tx'[c].new
           /\ locks \subseteq locks'
<1> DEFINE r == tx[c].req
<1>1. TypeOK /\ tx[c].pc = "insert" /\ r.op = "create" /\ RequestOK(r)
  BY LabelFacts DEF TxInv, InsertPayment
<1>2. Acquire(c, CustomerRow(r.customer), "share") /\ CustomerOf(r)
  BY DEF InsertPayment
<1>3. PICK p \in Payment :
         /\ status[p] = Absent /\ \A d \in Client : tx[d].new # p
         /\ Becomes(c, [tx[c] EXCEPT !.pc = "commit", !.verdict = "ok", !.new = p])
  BY DEF InsertPayment
<1>4. /\ Others(c) /\ tx'[c].pc = "commit" /\ tx'[c].verdict = "ok"
      /\ tx'[c].new = p /\ Keeps(c, {"verdict", "new"})
  <2>1. "ok" \in Verdict
    BY DEF Verdict
  <2> QED
    BY <1>1, <1>3, <2>1, PlacedEffect
<1>5. "commit" \in Holding(CustomerRow(r.customer))
  BY DEF Holding, CustomerRow, PastLock
<1>6. GoesOn(c)
  <2>1. \E rows, m : Takes(c, rows, m)
    BY <1>2, <1>4, <1>5, TakesOne
  <2> QED
    BY <1>1, <1>4, <2>1 DEF GoesOn, Forward
<1>7. locks \subseteq locks'
  BY <1>2 DEF Acquire
<1> QED
  BY <1>1, <1>2, <1>3, <1>4, <1>6, <1>7 DEF Flow, Keeps, Labels

-----------------------------------------------------------------------------
(* The statements that lock a payment, its customer and the account.       *)
LEMMA LockPaymentFlow ==
    ASSUME TxInv, NEW c \in Client, LockPayment(c)
    PROVE  /\ Flow(c) /\ Keeps(c, {"row", "verdict"})
           /\ tx[c].pc = "payment" /\ tx[c].req.op \in OnPayment
           /\ tx[c].req.payment \in Payment
           /\ tx'[c].pc = AfterPayment(tx[c].req.op) /\ tx'[c].verdict = "ok"
           /\ tx'[c].row = Row(tx[c].req.payment)
           /\ Found(tx[c].req) /\ Permitted(tx[c].req, tx'[c].row)
           /\ Acquire(c, PaymentRow(tx[c].req.payment), "update")
<1> DEFINE r == tx[c].req
<1>1. /\ TypeOK /\ tx[c].pc = "payment" /\ r.op \in OnPayment /\ RequestOK(r)
      /\ r.payment \in Payment
  BY LabelFacts DEF TxInv, LockPayment, RequestOK
<1>2. /\ Acquire(c, PaymentRow(r.payment), "update")
      /\ Found(r) /\ Permitted(r, Row(r.payment))
      /\ Becomes(c, [tx[c] EXCEPT !.pc = AfterPayment(r.op),
                                  !.row = Row(r.payment), !.verdict = "ok"])
  BY DEF LockPayment, PaymentLock
<1>3. /\ AfterPayment(r.op) \in Label /\ AfterPayment(r.op) \in Labels(r.op)
      /\ AfterPayment(r.op) \in Holding(PaymentRow(r.payment))
      /\ <<"payment", AfterPayment(r.op)>> \in Forward
  BY <1>1 DEF AfterPayment, OnPayment, Label, Labels, Holding, PaymentRow, PastLock,
              Posting, Forward
<1>4. /\ Others(c) /\ tx'[c].pc = AfterPayment(r.op) /\ tx'[c].verdict = "ok"
      /\ tx'[c].row = Row(r.payment) /\ Keeps(c, {"row", "verdict"})
  BY <1>1, <1>2, <1>3, LockedEffect
<1>5. \E rows, m : Takes(c, rows, m)
  BY <1>2, <1>3, <1>4, TakesOne
<1>6. GoesOn(c)
  BY <1>1, <1>3, <1>4, <1>5 DEF GoesOn
<1> QED
  BY <1>1, <1>2, <1>3, <1>4, <1>6 DEF Flow, Keeps

LEMMA LockCustomerFlow ==
    ASSUME TxInv, NEW c \in Client, LockCustomer(c)
    PROVE  /\ Flow(c) /\ Keeps(c, {"atLock"})
           /\ tx[c].pc = "customer" /\ tx[c].req.op \in Paying
           /\ tx'[c].pc = "accounts"
           /\ tx'[c].atLock = Available(Subject(c).customer, Subject(c).currency)
           /\ Acquire(c, CustomerRow(Subject(c).customer), "update")
<1> DEFINE r == tx[c].req
<1>1. TypeOK /\ tx[c].pc = "customer" /\ r.op \in Paying /\ RequestOK(r)
  BY LabelFacts DEF TxInv, LockCustomer
<1>2. Acquire(c, CustomerRow(Subject(c).customer), "update")
  BY DEF LockCustomer, CustomerLock
<1>3. Subject(c) \in Terms
  BY <1>1, SubjectKnown DEF PastLock
<1>4. /\ Others(c) /\ tx'[c].pc = "accounts" /\ Keeps(c, {"atLock"})
      /\ tx'[c].atLock = Available(Subject(c).customer, Subject(c).currency)
  BY <1>1, <1>3, LockCustomerEffect
<1>5. "accounts" \in Holding(CustomerRow(Subject(c).customer))
  BY DEF Holding, CustomerRow, PastLock, Reading
<1>6. \E rows, m : Takes(c, rows, m)
  BY <1>2, <1>4, <1>5, TakesOne
<1>7. GoesOn(c)
  BY <1>1, <1>4, <1>6 DEF GoesOn, Forward
<1>8. "accounts" \in Labels(r.op)
  BY <1>1 DEF Labels, Paying, Reading
<1> QED
  BY <1>1, <1>2, <1>4, <1>7, <1>8 DEF Flow, Keeps

LEMMA LockAccountFlow ==
    ASSUME TxInv, NEW c \in Client, LockAccount(c)
    PROVE  /\ Flow(c) /\ Keeps(c, {"verdict"})
           /\ tx[c].pc = "account" /\ tx[c].req.op = "fund"
           /\ tx'[c].pc = "cash" /\ tx'[c].verdict = "ok"
           /\ CustomerOf(tx[c].req)
           /\ account[tx[c].req.customer].currency = tx[c].req.currency
           /\ locks \subseteq locks'
<1> DEFINE r == tx[c].req
<1>1. TypeOK /\ tx[c].pc = "account" /\ r.op = "fund" /\ RequestOK(r)
  BY LabelFacts DEF TxInv, LockAccount
<1>2. /\ Acquire(c, AccountRow(r.customer), "update") /\ CustomerOf(r)
      /\ account[r.customer].currency = r.currency
      /\ Becomes(c, [tx[c] EXCEPT !.pc = "cash", !.verdict = "ok"])
  BY DEF LockAccount
<1>3. /\ Others(c) /\ tx'[c].pc = "cash" /\ tx'[c].verdict = "ok"
      /\ Keeps(c, {"verdict"})
  <2>1. "cash" \in Label /\ "ok" \in Verdict
    BY DEF Label, Verdict
  <2> QED
    BY <1>1, <1>2, <2>1, VerdictEffect
<1>4. "cash" \in Holding(AccountRow(r.customer))
  BY DEF Holding, AccountRow, Posting
<1>5. \E rows, m : Takes(c, rows, m)
  BY <1>2, <1>3, <1>4, TakesOne
<1>6. GoesOn(c)
  BY <1>1, <1>3, <1>5 DEF GoesOn, Forward
<1>7. locks \subseteq locks'
  BY <1>2 DEF Acquire
<1>8. "cash" \in Labels(r.op)
  BY <1>1 DEF Labels, Posting
<1> QED
  BY <1>1, <1>2, <1>3, <1>6, <1>7, <1>8 DEF Flow, Keeps

-----------------------------------------------------------------------------
(* available_balance and what is done with it.                             *)
LEMMA JudgeFlow ==
    ASSUME TxInv, NEW c \in Client, NEW balance, Judge(c, balance),
           tx[c].pc \in {"accounts", "credits"}
    PROVE  /\ Flow(c) /\ Keeps(c, {"verdict"}) /\ tx[c].req.op \in Paying
           /\ \/ /\ tx[c].req.op = "capture" /\ balance >= Subject(c).amount
                 /\ tx'[c].pc = "cash" /\ tx'[c].verdict = "ok" /\ UNCHANGED locks
              \/ /\ tx[c].req.op = "authorize" /\ balance >= Subject(c).amount
                 /\ tx'[c].pc = "commit" /\ tx'[c].verdict = "ok" /\ UNCHANGED locks
              \/ /\ tx[c].req.op = "authorize" /\ ~ (balance >= Subject(c).amount)
                 /\ tx'[c].pc = "commit" /\ tx'[c].verdict = "declined"
                 /\ UNCHANGED locks
              \/ tx'[c].pc = "answered" /\ Release(c)
                 /\ tx'[c].verdict = "INSUFFICIENT_FUNDS"
<1> DEFINE r == tx[c].req
           enough == Enough(c, balance)
           l == IF r.op = "capture" THEN "cash" ELSE "commit"
           v == IF enough THEN "ok" ELSE "declined"
<1>1. TypeOK /\ r.op \in Paying /\ RequestOK(r)
  BY LabelFacts DEF TxInv, Reading
<1>2. enough <=> balance >= Subject(c).amount
  BY DEF Enough
<1>3. CASE /\ enough \/ r.op = "authorize"
           /\ Becomes(c, [tx[c] EXCEPT !.pc = l, !.verdict = v])
           /\ UNCHANGED <<database, locks, sent>>
  <2>1. l \in Label /\ v \in Verdict
    BY DEF Label, Verdict
  <2>2. /\ Others(c) /\ tx'[c].pc = l /\ tx'[c].verdict = v
        /\ Keeps(c, {"verdict"})
    <3> HIDE DEF l, v
    <3> QED
      BY <1>1, <1>3, <2>1, VerdictEffect
  <2>3. GoesOn(c)
    <3>1. \E rows, m : Takes(c, rows, m)
      BY <1>3, TakesNone
    <3> QED
      BY <2>2, <3>1 DEF GoesOn, Forward
  <2>4. tx'[c].pc \in Labels(r.op)
    BY <1>1, <2>2 DEF Labels, Paying, Posting
  <2>5. Flow(c)
    BY <1>1, <2>2, <2>3, <2>4 DEF Flow, Keeps
  <2> QED
    BY <1>1, <1>2, <1>3, <2>2, <2>5 DEF Paying
<1>4. CASE ~ enough /\ r.op = "capture" /\ Refuse(c, "INSUFFICIENT_FUNDS")
  <2>1. "INSUFFICIENT_FUNDS" \in Verdict
    BY DEF Verdict
  <2> QED
    BY <1>1, <1>4, <2>1, RefuseFlow DEF Refuse
<1> QED
  BY <1>3, <1>4 DEF Judge

LEMMA SumDebitsFlow ==
    ASSUME TxInv, NEW c \in Client, SumDebits(c)
    PROVE  /\ Flow(c) /\ Keeps(c, {"debits"}) /\ tx[c].pc = "debits"
           /\ tx[c].req.op \in Paying /\ tx'[c].pc = "credits" /\ UNCHANGED locks
           /\ tx'[c].debits = debit[Cash(Subject(c).customer, Subject(c).currency)]
<1> DEFINE r == tx[c].req
<1>1. TypeOK /\ tx[c].pc = "debits" /\ r.op \in Paying /\ RequestOK(r)
      /\ UNCHANGED locks
  BY LabelFacts DEF TxInv, SumDebits, Reading
<1>2. Subject(c) \in Terms
  BY <1>1, SubjectKnown DEF PastLock, Reading
<1>3. /\ Others(c) /\ tx'[c].pc = "credits" /\ Keeps(c, {"debits"})
      /\ tx'[c].debits = debit[Cash(Subject(c).customer, Subject(c).currency)]
  BY <1>1, <1>2, SumDebitsEffect
<1>4. GoesOn(c)
  BY <1>1, <1>3, TakesNone DEF GoesOn, Forward
<1>5. "credits" \in Labels(r.op)
  BY <1>1 DEF Labels, Paying, Reading
<1> QED
  BY <1>1, <1>3, <1>4, <1>5 DEF Flow, Keeps

LEMMA FindCashAccountFlow ==
    ASSUME TxInv, NEW c \in Client, FindCashAccount(c)
    PROVE  /\ tx[c].pc = "accounts" /\ tx[c].req.op \in Paying
           /\ \/ /\ Flow(c) /\ Keeps(c, {}) /\ tx'[c].pc = "debits"
                 /\ UNCHANGED locks
              \/ Judge(c, 0) /\ CashSlot(c) \notin slots
<1> DEFINE r == tx[c].req
<1>1. tx[c].pc = "accounts" /\ r.op \in Paying
  BY LabelFacts DEF FindCashAccount, Reading
<1>2. CASE Goto(c, "debits") /\ UNCHANGED locks
  <2>1. "debits" \in Label /\ "debits" \in Labels(r.op)
        /\ <<"accounts", "debits">> \in Forward
    BY <1>1 DEF Label, Labels, Paying, Reading, Forward
  <2>2. \E rows, m : Takes(c, rows, m)
    BY <1>2, TakesNone
  <2> QED
    BY <1>1, <1>2, <2>1, <2>2, GotoFlow
<1> QED
  BY <1>1, <1>2 DEF FindCashAccount, CashSlot

-----------------------------------------------------------------------------
(* The ledger accounts and the journal.                                    *)
LEMMA EnsureFlow ==
    ASSUME TxInv, NEW c \in Client, NEW slot, NEW l \in Label, Ensure(c, slot, l),
           <<tx[c].pc, l>> \in Forward, tx[c].pc \in Posting,
           l \in Posting, l \in Holding(SlotRow(slot))
    PROVE  /\ Flow(c) /\ Keeps(c, {}) /\ tx'[c].pc = l
           /\ locks \subseteq locks'
           /\ slot \in slots \/ Lock(c, SlotRow(slot), "update") \in locks'
<1>1. /\ tx[c].pc # "idle" /\ Goto(c, l)
      /\ UNCHANGED locks \/ Acquire(c, SlotRow(slot), "update")
      /\ slot \in slots \/ Acquire(c, SlotRow(slot), "update")
  BY DEF Ensure, Posting
<1>2. tx'[c].pc = l => \E rows, m : Takes(c, rows, m)
  BY <1>1, TakesNone, TakesOne
<1>3. l \in Labels(tx[c].req.op)
  BY <1>1, LabelFacts DEF Labels
<1>4. Flow(c) /\ tx'[c].pc = l /\ Keeps(c, {})
  BY <1>1, <1>2, <1>3, GotoFlow
<1> QED
  BY <1>1, <1>4 DEF Acquire

LEMMA EnsureCashFlow ==
    ASSUME TxInv, NEW c \in Client, EnsureCash(c)
    PROVE  /\ Flow(c) /\ Keeps(c, {}) /\ tx[c].pc = "cash" /\ tx'[c].pc = "other"
           /\ locks \subseteq locks'
           /\ \/ CashSlot(c) \in slots
              \/ Lock(c, SlotRow(CashSlot(c)), "update") \in locks'
<1>1. "other" \in Holding(SlotRow(CashSlot(c)))
  BY DEF Holding, SlotRow, CashSlot, Cash
<1>2. tx[c].pc = "cash" /\ Ensure(c, CashSlot(c), "other")
  BY DEF EnsureCash
<1>3. <<"cash", "other">> \in Forward /\ "other" \in Label /\ {"cash", "other"} \subseteq Posting
  BY DEF Forward, Label, Posting
<1> QED
  BY <1>1, <1>2, <1>3, EnsureFlow

LEMMA EnsureOtherFlow ==
    ASSUME TxInv, NEW c \in Client, EnsureOther(c)
    PROVE  /\ Flow(c) /\ Keeps(c, {}) /\ tx[c].pc = "other" /\ tx'[c].pc = "journal"
           /\ locks \subseteq locks'
           /\ \/ OtherSlot(c) \in slots
              \/ Lock(c, SlotRow(OtherSlot(c)), "update") \in locks'
<1>1. "journal" \in Holding(SlotRow(OtherSlot(c)))
  BY DEF Holding, SlotRow
<1>2. tx[c].pc = "other" /\ Ensure(c, OtherSlot(c), "journal")
  BY DEF EnsureOther
<1>3. /\ <<"other", "journal">> \in Forward /\ "journal" \in Label
      /\ {"other", "journal"} \subseteq Posting
  BY DEF Forward, Label, Posting
<1> QED
  BY <1>1, <1>2, <1>3, EnsureFlow

LEMMA InsertJournalFlow ==
    ASSUME TxInv, NEW c \in Client, InsertJournal(c)
    PROVE  /\ Flow(c) /\ Keeps(c, {}) /\ tx[c].pc = "journal" /\ tx'[c].pc = "commit"
           /\ locks \subseteq locks' /\ References(c) \cap posted = {}
           /\ \A j \in References(c) : Lock(c, JournalRef(j), "update") \in locks'
<1>1. /\ tx[c].pc = "journal" /\ References(c) \cap posted = {}
      /\ \A j \in References(c) : Holders(c, JournalRef(j), "update") = {}
      /\ locks' = locks \cup {Lock(c, JournalRef(j), "update") : j \in References(c)}
      /\ Goto(c, "commit")
  BY DEF InsertJournal
<1>2. PICK rows : rows = {JournalRef(j) : j \in References(c)}
  OBVIOUS
<1>3. {Lock(c, JournalRef(j), "update") : j \in References(c)}
          = {Lock(c, row, "update") : row \in rows}
  BY <1>2
<1>4. \A row \in rows : "commit" \in Holding(row)
  <2>1. \A j : "commit" \in Holding(JournalRef(j))
    BY DEF Holding, JournalRef
  <2> QED
    BY <1>2, <2>1
<1>5. \A row \in rows : Holders(c, row, "update") = {}
  BY <1>1, <1>2
<1>6. tx'[c].pc = "commit" => Takes(c, rows, "update")
  BY <1>1, <1>3, <1>4, <1>5 DEF Takes
<1>7. <<"journal", "commit">> \in Forward /\ "commit" \in Label
      /\ "commit" \in Labels(tx[c].req.op)
  BY DEF Forward, Label, Labels
<1>8. Flow(c) /\ tx'[c].pc = "commit" /\ Keeps(c, {})
  BY <1>1, <1>6, <1>7, GotoFlow
<1> QED
  BY <1>1, <1>8

-----------------------------------------------------------------------------
(* Refusals, and the caller's steps.                                       *)
Refusals(c) == \/ KeyConflict(c) \/ CustomerNotFound(c) \/ NotPermitted(c)
               \/ NotFundable(c) \/ JournalExists(c)

LEMMA RefusalFlow ==
    ASSUME TxInv, NEW c \in Client, Refusals(c)
    PROVE  /\ Flow(c) /\ tx'[c].pc = "answered" /\ Keeps(c, {"verdict"})
           /\ Release(c) /\ tx[c].pc \notin Outside
           /\ tx'[c].verdict \in {"IDEMPOTENCY_CONFLICT", "CUSTOMER_NOT_FOUND",
                                  "refused", "duplicate"}
           /\ tx'[c].verdict = "duplicate" => JournalExists(c)
<1>1. \E v \in {"IDEMPOTENCY_CONFLICT", "CUSTOMER_NOT_FOUND", "refused", "duplicate"} :
         Refuse(c, v) /\ (v = "duplicate" => JournalExists(c))
  BY DEF Refusals, KeyConflict, CustomerNotFound, NotPermitted, NotFundable,
         JournalExists
<1>2. tx[c].pc \in {"claim", "insert", "payment", "account", "journal"}
  BY DEF Refusals, KeyConflict, CustomerNotFound, NotPermitted, NotFundable,
         JournalExists
<1>3. {"IDEMPOTENCY_CONFLICT", "CUSTOMER_NOT_FOUND", "refused", "duplicate"}
          \subseteq Verdict
  BY DEF Verdict
<1>4. tx[c].pc # "idle" /\ tx[c].pc \notin Outside
  BY <1>2 DEF Outside
<1> QED
  BY <1>1, <1>3, <1>4, RefuseFlow DEF Refuse

LEMMA SendFlow ==
    ASSUME TxInv, NEW c \in Client, Send(c)
    PROVE  /\ Flow(c) /\ UNCHANGED locks /\ tx[c].pc = "idle"
           /\ tx'[c].pc \in {"claim", "payment", "account"}
           /\ tx'[c].row = NoRow /\ tx'[c].applied = 0 /\ tx'[c].verdict = "none"
           /\ tx'[c].new = None
<1>1. PICK r \in Requests : Becomes(c, [Idle EXCEPT !.pc = Begin(r.op), !.req = r])
  BY DEF Send
<1>2. TypeOK /\ RequestOK(r) /\ r \in AnyRequest
  BY RequestsAreOK DEF TxInv, RequestOK
<1>3. /\ Others(c)
      /\ tx'[c] = [pc |-> Begin(r.op), req |-> r, row |-> NoRow, new |-> None,
                   debits |-> 0, atLock |-> 0, verdict |-> "none",
                   retries |-> 0, applied |-> 0]
  BY <1>1, <1>2, SendEffect
<1>4. Begin(r.op) \in {"claim", "payment", "account"} /\ Begin(r.op) \in Labels(r.op)
  BY <1>2 DEF Begin, Labels, AnyRequest
<1>5. UNCHANGED locks /\ tx[c].pc = "idle"
  BY DEF Send
<1> QED
  BY <1>2, <1>3, <1>4, <1>5 DEF Flow, Starts

LEMMA RetryFlow ==
    ASSUME TxInv, NEW c \in Client, Retry(c)
    PROVE  /\ Flow(c) /\ UNCHANGED locks /\ tx[c].pc = "unanswered"
           /\ tx'[c].pc \in {"claim", "payment", "account"}
           /\ tx'[c].req = tx[c].req /\ tx'[c].row = tx[c].row
           /\ tx'[c].new = tx[c].new /\ tx'[c].verdict = tx[c].verdict
           /\ tx'[c].applied = tx[c].applied
<1>1. tx[c].pc = "unanswered" /\ UNCHANGED locks /\ TypeOK
  BY DEF Retry, TxInv
<1>2. tx[c].req \in AnyRequest /\ RequestOK(tx[c].req)
  BY <1>1, LabelFacts
<1>3. /\ Begin(tx[c].req.op) \in {"claim", "payment", "account"}
      /\ Begin(tx[c].req.op) \in Labels(tx[c].req.op)
  BY <1>2 DEF Begin, Labels, AnyRequest
<1> QED
  BY <1>1, <1>2, <1>3, RetryEffect DEF Flow, Starts

LEMMA ForgetFlow ==
    ASSUME TxInv, NEW c \in Client, Abort(c) \/ LoseAnswer(c)
    PROVE  /\ Flow(c) /\ tx'[c].pc = "unanswered" /\ tx[c].pc # "idle"
           /\ tx'[c].req = tx[c].req /\ tx'[c].row = NoRow
           /\ tx'[c].new = None /\ tx'[c].verdict = "none"
           /\ tx'[c].applied = tx[c].applied
<1>1. Forget(c, "unanswered") /\ tx[c].pc # "idle" /\ TypeOK
  BY DEF Abort, LoseAnswer, TxInv, InTransaction
<1>2. /\ Others(c)
      /\ tx'[c] = [pc |-> "unanswered", req |-> tx[c].req, row |-> NoRow,
                   new |-> None, debits |-> 0, atLock |-> 0, verdict |-> "none",
                   retries |-> tx[c].retries, applied |-> tx[c].applied]
  <2> HIDE DEF TypeOK, Forget
  <2> QED
    BY <1>1, ForgetEffect
<1>3. Ends(c)
  BY <1>2 DEF Ends, Outside, Abort, LoseAnswer
<1>4. RequestOK(tx[c].req) /\ "unanswered" \in Labels(tx[c].req.op)
  BY <1>1, LabelFacts DEF Labels
<1> QED
  BY <1>1, <1>2, <1>3, <1>4 DEF Flow

LEMMA DoneFlow ==
    ASSUME TxInv, NEW c \in Client, Done(c)
    PROVE  Flow(c) /\ tx'[c] = Idle /\ UNCHANGED locks
<1>1. Others(c) /\ tx'[c] = Idle
  BY DoneEffect DEF TxInv
<1>2. tx'[c].pc = "idle"
  BY <1>1 DEF Idle
<1>3. Ends(c) /\ UNCHANGED locks
  BY <1>2 DEF Ends, Outside, Done
<1> QED
  BY <1>1, <1>2, <1>3 DEF Flow

(* Whatever the statement, control and locks go as they should.            *)
LEMMA CallsFlow ==
    ASSUME TxInv, NEW c \in Client, Calls(c)
    PROVE  Flow(c)
<1>1. FindCashAccount(c) \/ SumCredits(c) => Flow(c)
  BY FindCashAccountFlow, JudgeFlow DEF SumCredits
<1>2. Send(c) \/ Abort(c) \/ LoseAnswer(c) \/ Retry(c) \/ Done(c) => Flow(c)
  BY SendFlow, ForgetFlow, RetryFlow, DoneFlow
<1>3. ClaimKey(c) \/ InsertPayment(c) \/ LockPayment(c) \/ LockCustomer(c)
      \/ SumDebits(c) \/ LockAccount(c) \/ EnsureCash(c) \/ EnsureOther(c)
      \/ InsertJournal(c) => Flow(c)
  BY ClaimKeyFlow, InsertPaymentFlow, LockPaymentFlow, LockCustomerFlow,
     SumDebitsFlow, LockAccountFlow, EnsureCashFlow, EnsureOtherFlow,
     InsertJournalFlow
<1>4. KeyConflict(c) \/ CustomerNotFound(c) \/ NotPermitted(c) \/ NotFundable(c)
      \/ JournalExists(c) => Flow(c)
  BY RefusalFlow DEF Refusals
<1> QED
  BY <1>1, <1>2, <1>3, <1>4 DEF Calls

-----------------------------------------------------------------------------
(* Control and locks stay in order.                                        *)
LEMMA CommitFlow ==
    ASSUME TxInv, NEW c \in Client, Commit(c)
    PROVE  /\ Others(c) /\ Ends(c) /\ tx[c].pc = "commit" /\ tx'[c].pc = "answered"
           /\ tx'[c].row = NoRow
           /\ \E n \in {0, 1} : tx'[c].applied = tx[c].applied + n
           /\ Keeps(c, {"row", "debits", "atLock", "applied"}) /\ Release(c)
           /\ UNCHANGED <<level, account, sent>> /\ slots \subseteq slots'
<1>1. /\ tx[c].pc = "commit" /\ Release(c) /\ UNCHANGED <<level, account, sent>>
      /\ slots \subseteq slots'
  BY CommitFinishes
<1>2. PICK n \in {0, 1} : Finish(c, n)
  BY CommitFinishes
<1>3. /\ Others(c) /\ tx'[c].pc = "answered" /\ tx'[c].row = NoRow
      /\ tx'[c].applied = tx[c].applied + n
      /\ Keeps(c, {"row", "debits", "atLock", "applied"})
  BY <1>2, FinishEffect DEF TxInv
<1> QED
  BY <1>1, <1>3 DEF Ends, Outside

LEMMA NoLocksOutside ==
    ASSUME TxInv, NEW c \in Client,
           tx[c].pc \in Outside \cup {"claim", "payment", "account"}
    PROVE  \A l \in locks : l.by # c
<1>1. \A row : tx[c].pc \notin Holding(row)
  BY DEF Outside, Holding, PastLock, Posting, Reading
<1> QED
  BY <1>1 DEF TxInv, LocksInOrder

LEMMA LocksFlow ==
    ASSUME TxInv, NEW c \in Client, Others(c), Ends(c) \/ Starts(c) \/ GoesOn(c)
    PROVE  /\ Exclusive' /\ LocksInOrder'
           /\ \A l \in locks' : l.by \in Client /\ l.mode \in {"update", "share"}
           /\ \A l \in locks : l.by # c => l \in locks'
<1>1. /\ \A l \in locks : l.by \in Client /\ l.mode \in {"update", "share"}
      /\ Exclusive /\ LocksInOrder
  BY DEF TxInv, TypeOK
<1>2. CASE Ends(c) \/ Starts(c)
  <2>1. /\ \A l \in locks' : l \in locks /\ l.by # c
        /\ \A l \in locks : l.by # c => l \in locks'
    BY <1>2, NoLocksOutside DEF Ends, Starts, Release, Outside
  <2> QED
    BY <1>1, <2>1 DEF Exclusive, LocksInOrder, Others
<1>3. CASE GoesOn(c)
  <2>1. PICK rows, mode : Takes(c, rows, mode)
    BY <1>3 DEF GoesOn
  <2>2. \A l \in locks' :
           \/ l \in locks
           \/ /\ l.by = c /\ l.mode = mode /\ l.row \in rows
    BY <2>1 DEF Takes, Lock
  <2>3. mode \in {"update", "share"} /\ locks \subseteq locks'
    BY <2>1 DEF Takes
  <2>4. \A l \in locks : l.row \in rows /\ l.by # c =>
            l.mode = "share" /\ mode = "share"
    BY <1>1, <2>1 DEF Takes, Holders
  <2>5. Exclusive'
    BY <1>1, <2>2, <2>4 DEF Exclusive
  <2>6. \A l \in locks : tx'[l.by].pc \in Holding(l.row)
    <3> TAKE l \in locks
    <3>1. CASE l.by = c
      <4>1. tx[c].pc \in Holding(l.row) /\ <<tx[c].pc, tx'[c].pc>> \in Forward
        BY <1>1, <1>3, <3>1 DEF LocksInOrder, GoesOn
      <4> QED
        BY <3>1, <4>1, HoldingForward
    <3>2. CASE l.by # c
      BY <1>1, <3>2 DEF LocksInOrder, Others
    <3> QED
      BY <3>1, <3>2
  <2>7. LocksInOrder'
    BY <2>1, <2>2, <2>6 DEF LocksInOrder, Takes
  <2> QED
    BY <1>1, <2>2, <2>3, <2>5, <2>7
<1> QED
  BY <1>2, <1>3

LEMMA RegisterLocks ==
    ASSUME TxInv, UNCHANGED <<locks, tx>>
    PROVE  /\ Exclusive' /\ LocksInOrder'
           /\ \A l \in locks' : l.by \in Client /\ l.mode \in {"update", "share"}
  BY DEF TxInv, TypeOK, Exclusive, LocksInOrder

(* Requests stay well formed, whoever is registered meanwhile.             *)
LEMMA RequestStays ==
    ASSUME Persists, NEW r, RequestOK(r)
    PROVE  RequestOK(r)'
<1>1. r.merchant \in Merchant
  BY DEF RequestOK, AnyRequest
<1> QED
  BY <1>1 DEF RequestOK, Persists

LEMMA InControlStays ==
    ASSUME TxInv, Persists, NEW d \in Client, tx'[d] = tx[d]
    PROVE  InControl(d)'
<1>1. InControl(d)
  BY DEF TxInv
<1> QED
  BY <1>1, RequestStays DEF InControl

LEMMA FlowInControl ==
    ASSUME Persists, NEW c, Flow(c)
    PROVE  InControl(c)'
  BY RequestStays DEF Flow, InControl

(* What a request is about does not change while it runs.                  *)
LEMMA SubjectStays ==
    ASSUME TxInv, Persists, NEW d \in Client, tx'[d].req = tx[d].req,
           tx[d].pc # "idle",
           tx[d].req.op \in {"create", "fund"} \/ tx[d].pc \in PastLock
    PROVE  /\ Subject(d)' = Subject(d) /\ CashSlot(d)' = CashSlot(d)
           /\ OtherSlot(d)' = OtherSlot(d) /\ References(d)' = References(d)
           /\ tx[d].req.op \in OnPayment =>
                 terms'[tx[d].req.payment] = terms[tx[d].req.payment]
<1>1. tx[d].req.op \in {"create", "fund"} \cup OnPayment
  BY LabelFacts DEF OnPayment
<1>2. tx[d].req.op \in OnPayment =>
          terms'[tx[d].req.payment] = terms[tx[d].req.payment]
  BY SubjectKnown DEF Persists
<1>3. Subject(d)' = Subject(d)
  BY <1>1, <1>2 DEF Subject
<1> QED
  BY <1>2, <1>3 DEF CashSlot, OtherSlot, References

(* A transaction keeps the locks it relies on while others run.            *)
LEMMA LocksKeptStays ==
    ASSUME TxInv, Persists, NEW d \in Client, tx'[d] = tx[d],
           \A l \in locks : l.by = d => l \in locks'
    PROVE  LocksKept(d)'
<1> DEFINE r == tx[d].req
           pc == tx[d].pc
<1> SUFFICES ASSUME pc # "idle" PROVE LocksKept(d)'
  BY DEF LocksKept
<1>1. /\ r.op = "create" /\ pc \in {"insert", "commit"} =>
            Holds(d, KeyRow(r.merchant, r.key))
      /\ r.op \in OnPayment /\ pc \in PastLock => Holds(d, PaymentRow(r.payment))
      /\ r.op \in Paying /\ pc \in PastLock \ {"customer"} =>
            Holds(d, CustomerRow(terms[r.payment].customer))
      /\ pc = "commit" => \A j \in References(d) : Holds(d, JournalRef(j))
      /\ r.op \in {"fund", "capture", "refund"} =>
            /\ pc \in {"other", "journal", "commit"} => Ensured(d, CashSlot(d))
            /\ pc \in {"journal", "commit"} => Ensured(d, OtherSlot(d))
  BY DEF TxInv, LocksKept
<1>2. \A row : Holds(d, row) => Lock(d, row, "update") \in locks'
  BY DEF Holds, Lock
<1>3. \A slot : Ensured(d, slot) =>
          slot \in slots' \/ Lock(d, SlotRow(slot), "update") \in locks'
  BY <1>2 DEF Ensured, Persists
<1>4. r.op \in {"create", "fund"} \/ pc \in PastLock =>
          /\ CashSlot(d)' = CashSlot(d) /\ OtherSlot(d)' = OtherSlot(d)
          /\ References(d)' = References(d)
          /\ r.op \in OnPayment => terms'[r.payment] = terms[r.payment]
  BY SubjectStays
<1>5. /\ {"other", "journal", "commit"} \subseteq PastLock
      /\ \A op \in Paying : op \in OnPayment
      /\ \A l : l \in PastLock \ {"customer"} => l \in PastLock
  BY DEF PastLock, Posting, Paying, OnPayment
<1>6. r.op \in Paying /\ pc \in PastLock \ {"customer"} =>
          Lock(d, CustomerRow(terms'[r.payment].customer), "update") \in locks'
  <2> HAVE r.op \in Paying /\ pc \in PastLock \ {"customer"}
  <2>1. terms'[r.payment] = terms[r.payment]
    BY <1>4, <1>5
  <2> QED
    BY <1>1, <1>2, <2>1
<1>7. pc = "commit" => \A j \in References(d)' : Lock(d, JournalRef(j), "update") \in locks'
  <2> HAVE pc = "commit"
  <2>1. References(d)' = References(d)
    BY <1>4, <1>5
  <2> QED
    BY <1>1, <1>2, <2>1
<1>8. r.op \in {"fund", "capture", "refund"} =>
          /\ pc \in {"other", "journal", "commit"} =>
                \/ CashSlot(d)' \in slots'
                \/ Lock(d, SlotRow(CashSlot(d)'), "update") \in locks'
          /\ pc \in {"journal", "commit"} =>
                \/ OtherSlot(d)' \in slots'
                \/ Lock(d, SlotRow(OtherSlot(d)'), "update") \in locks'
  BY <1>1, <1>3, <1>4, <1>5
<1>9. /\ r.op = "create" /\ pc \in {"insert", "commit"} =>
            Lock(d, KeyRow(r.merchant, r.key), "update") \in locks'
      /\ r.op \in OnPayment /\ pc \in PastLock =>
            Lock(d, PaymentRow(r.payment), "update") \in locks'
  BY <1>1, <1>2
<1> QED
  BY <1>6, <1>7, <1>8, <1>9 DEF LocksKept, Holds, Ensured

(* A statement takes what the later statements of its transaction need.    *)
LEMMA LocksKeptByCall ==
    ASSUME TxInv, NEW c \in Client, Calls(c), Persists
    PROVE  LocksKept(c)'
<1> DEFINE r == tx[c].req
<1>1. Flow(c) /\ LocksKept(c)
  BY CallsFlow DEF TxInv
<1>2. UNCHANGED <<terms, slots>>
  BY CallsReadOnly DEF database, payment
<1>3. CASE tx'[c].pc \in Outside \cup {"claim", "payment", "account"}
  BY <1>3 DEF LocksKept, Outside, PastLock, Posting, Reading
<1>4. ASSUME tx'[c].pc \notin Outside \cup {"claim", "payment", "account"}
      PROVE  LocksKept(c)'
  <2>1. tx'[c].req = r /\ locks \subseteq locks' /\ tx[c].pc # "idle"
        /\ <<tx[c].pc, tx'[c].pc>> \in Forward
    <3>1. GoesOn(c)
      BY <1>1, <1>4 DEF Flow, Ends, Starts
    <3>2. tx'[c].req = r
      BY <1>4, ClaimKeyFlow, InsertPaymentFlow, LockPaymentFlow, LockCustomerFlow,
         LockAccountFlow, FindCashAccountFlow, JudgeFlow, SumDebitsFlow,
         EnsureCashFlow, EnsureOtherFlow, InsertJournalFlow, RefusalFlow,
         SendFlow, RetryFlow, ForgetFlow, DoneFlow
         DEF Calls, Refusals, Keeps, Outside, Idle, SumCredits
    <3>3. locks \subseteq locks'
      BY <3>1 DEF GoesOn, Takes
    <3> QED
      BY <3>1, <3>2, <3>3 DEF GoesOn, Forward
  <2>2. /\ \A row : Holds(c, row) => Lock(c, row, "update") \in locks'
        /\ \A slot : Ensured(c, slot) =>
              slot \in slots' \/ Lock(c, SlotRow(slot), "update") \in locks'
    BY <1>2, <2>1 DEF Holds, Ensured
  <2>3. /\ r.op \in {"create", "fund"} \/ tx[c].pc \in PastLock =>
              CashSlot(c)' = CashSlot(c) /\ OtherSlot(c)' = OtherSlot(c)
        /\ References(c)' = References(c)
        /\ terms'[r.payment] = terms[r.payment]
    BY <1>2, <2>1, SubjectStays DEF References
  <2>4. /\ tx[c].pc \in PastLock /\ r.op \in OnPayment =>
              Lock(c, PaymentRow(r.payment), "update") \in locks'
        /\ tx[c].pc \in PastLock \ {"customer"} /\ r.op \in Paying =>
              Lock(c, CustomerRow(terms'[r.payment].customer), "update") \in locks'
    BY <1>1, <2>1, <2>2, <2>3 DEF LocksKept
  <2>5. CASE ClaimKey(c)
    BY <2>1, <2>3, <2>5, ClaimKeyFlow
       DEF LocksKept, Holds, OnPayment, Paying, References
  <2>6. CASE InsertPayment(c)
    <3>1. Lock(c, KeyRow(r.merchant, r.key), "update") \in locks'
      BY <1>1, <2>1, <2>2, <2>6, InsertPaymentFlow DEF LocksKept
    <3> QED
      BY <2>1, <2>3, <2>6, <3>1, InsertPaymentFlow
         DEF LocksKept, Holds, OnPayment, Paying, References
  <2>7. CASE LockPayment(c)
    <3>1. /\ r.op \in OnPayment /\ tx'[c].pc = AfterPayment(r.op)
          /\ Lock(c, PaymentRow(r.payment), "update") \in locks'
      BY <2>7, LockPaymentFlow DEF Acquire
    <3> QED
      BY <2>1, <2>3, <3>1
         DEF LocksKept, Holds, OnPayment, Paying, References, AfterPayment,
             PastLock, Posting, Reading
  <2>8. CASE LockCustomer(c)
    <3>1. /\ r.op \in Paying /\ tx'[c].pc = "accounts" /\ tx[c].pc = "customer"
          /\ Lock(c, CustomerRow(Subject(c).customer), "update") \in locks'
      BY <2>8, LockCustomerFlow DEF Acquire
    <3>2. Subject(c) = terms'[r.payment]
      BY <2>3, <3>1, SubjectKnown DEF Paying, OnPayment, PastLock
    <3>3. Lock(c, PaymentRow(r.payment), "update") \in locks'
      BY <2>4, <3>1 DEF Paying, OnPayment, PastLock
    <3> QED
      BY <2>1, <3>1, <3>2, <3>3 DEF LocksKept, Holds, Paying
  <2>9. CASE FindCashAccount(c) \/ SumDebits(c) \/ SumCredits(c)
    <3>1. /\ r.op \in Paying /\ tx[c].pc \in Reading
          /\ \/ tx'[c].pc \in {"debits", "credits"}
             \/ tx'[c].pc = "cash" /\ r.op = "capture"
             \/ tx'[c].pc = "commit" /\ r.op = "authorize"
      BY <1>4, <2>9, FindCashAccountFlow, JudgeFlow, SumDebitsFlow
         DEF SumCredits, Reading, Outside
    <3>2. /\ Lock(c, PaymentRow(r.payment), "update") \in locks'
          /\ Lock(c, CustomerRow(terms'[r.payment].customer), "update") \in locks'
      BY <2>4, <3>1 DEF Paying, OnPayment, PastLock, Reading
    <3> QED
      BY <2>1, <2>3, <3>1, <3>2 DEF LocksKept, Holds, References, Paying
  <2>10. CASE LockAccount(c)
    BY <2>1, <2>10, LockAccountFlow DEF LocksKept, OnPayment, Paying
  <2>11. CASE EnsureCash(c) \/ EnsureOther(c) \/ InsertJournal(c)
    <3>1. /\ tx[c].pc \in Posting /\ r.op \in {"fund", "capture", "refund"}
          /\ tx'[c].pc \in {"other", "journal", "commit"}
      BY <2>1, <2>11, EnsureCashFlow, EnsureOtherFlow, InsertJournalFlow, LabelFacts
         DEF Posting
    <3>2. r.op \in {"create", "fund"} \/ tx[c].pc \in PastLock
      BY <3>1 DEF PastLock
    <3>3. \/ CashSlot(c)' \in slots'
          \/ Lock(c, SlotRow(CashSlot(c)'), "update") \in locks'
      BY <1>1, <1>2, <2>1, <2>2, <2>3, <2>11, <3>1, <3>2, EnsureCashFlow,
         EnsureOtherFlow, InsertJournalFlow DEF LocksKept
    <3>4. tx'[c].pc \in {"journal", "commit"} =>
              \/ OtherSlot(c)' \in slots'
              \/ Lock(c, SlotRow(OtherSlot(c)'), "update") \in locks'
      BY <1>1, <1>2, <2>1, <2>2, <2>3, <2>11, <3>1, <3>2, EnsureCashFlow,
         EnsureOtherFlow, InsertJournalFlow DEF LocksKept
    <3>5. tx'[c].pc = "commit" =>
              \A j \in References(c)' : Lock(c, JournalRef(j), "update") \in locks'
      BY <2>3, <2>11, EnsureCashFlow, EnsureOtherFlow, InsertJournalFlow
    <3>6. /\ r.op \in OnPayment => Lock(c, PaymentRow(r.payment), "update") \in locks'
          /\ r.op \in Paying =>
                Lock(c, CustomerRow(terms'[r.payment].customer), "update") \in locks'
      BY <2>4, <3>1 DEF PastLock, Posting
    <3> HIDE DEF References, CashSlot, OtherSlot
    <3> QED
      BY <2>1, <3>1, <3>3, <3>4, <3>5, <3>6 DEF LocksKept, Holds, Ensured
  <2> QED
    BY <1>4, <2>5, <2>6, <2>7, <2>8, <2>9, <2>10, <2>11, RefusalFlow, SendFlow,
       RetryFlow, ForgetFlow, DoneFlow DEF Calls, Refusals, Outside, Idle
<1> QED
  BY <1>3, <1>4

-----------------------------------------------------------------------------
(* Waiting.  The statements are ranked so that whoever holds a lock that a *)
(* statement waits for is at a statement of higher rank.                   *)
Rank(pc) == CASE pc \in {"claim", "payment", "account"} -> 1
              [] pc \in {"insert", "customer"} -> 2
              [] pc \in Reading -> 3
              [] pc = "cash" -> 4
              [] pc = "other" -> 5
              [] pc = "journal" -> 6
              [] OTHER -> 7

LEMMA HoldersAreLater ==
    ASSUME TxInv, NEW c \in Client, NEW row, NEW mode, NEW d \in Holders(c, row, mode)
    PROVE  tx[d].pc \in Holding(row)
  BY DEF TxInv, LocksInOrder, Holders

LEMMA WaitsForLater ==
    ASSUME TxInv, NEW c \in Client, NEW d \in WaitsFor(c)
    PROVE  Rank(tx[c].pc) < Rank(tx[d].pc)
<1> DEFINE r == tx[c].req
<1>1. CASE tx[c].pc = "claim"
  <2>1. tx[d].pc \in Holding(KeyRow(r.merchant, r.key))
    BY <1>1, HoldersAreLater DEF WaitsFor
  <2> QED
    BY <1>1, <2>1 DEF Rank, Holding, KeyRow, Reading
<1>2. CASE tx[c].pc = "insert"
  <2>1. tx[d].pc \in Holding(CustomerRow(r.customer))
    BY <1>2, HoldersAreLater DEF WaitsFor
  <2>2. tx[d].pc \in Reading \cup Posting \cup {"commit"}
    BY <2>1 DEF Holding, CustomerRow, PastLock, Reading, Posting
  <2> QED
    BY <1>2, <2>2 DEF Rank, Reading, Posting
<1>3. CASE tx[c].pc = "payment"
  <2>1. tx[d].pc \in Holding(PaymentRow(r.payment))
    BY <1>3, HoldersAreLater DEF WaitsFor
  <2>2. tx[d].pc \in {"customer", "commit"} \cup Reading \cup Posting
    BY <2>1 DEF Holding, PaymentRow, PastLock
  <2> QED
    BY <1>3, <2>2 DEF Rank, Reading, Posting
<1>4. CASE tx[c].pc = "customer"
  <2>1. tx[d].pc \in Holding(CustomerRow(Subject(c).customer))
    BY <1>4, HoldersAreLater DEF WaitsFor
  <2>2. tx[d].pc \in Reading \cup Posting \cup {"commit"}
    BY <2>1 DEF Holding, CustomerRow, PastLock, Reading, Posting
  <2> QED
    BY <1>4, <2>2 DEF Rank, Reading, Posting
<1>5. CASE tx[c].pc = "account"
  <2>1. tx[d].pc \in Holding(AccountRow(r.customer))
    BY <1>5, HoldersAreLater DEF WaitsFor
  <2>2. tx[d].pc \in Posting \cup {"commit"}
    BY <2>1 DEF Holding, AccountRow
  <2> QED
    BY <1>5, <2>2 DEF Rank, Reading, Posting
<1>6. CASE tx[c].pc = "cash"
  <2>1. tx[d].pc \in Holding(SlotRow(CashSlot(c)))
    BY <1>6, HoldersAreLater DEF WaitsFor
  <2> QED
    BY <1>6, <2>1 DEF Rank, Holding, SlotRow, Reading
<1>7. CASE tx[c].pc = "other"
  <2>1. tx[d].pc \in Holding(SlotRow(OtherSlot(c)))
    BY <1>7, HoldersAreLater DEF WaitsFor
  <2>2. OtherSlot(c)[2] # "customer_cash"
    BY DEF OtherSlot, Funding, Receivable
  <2>3. SlotRow(OtherSlot(c))[1] = "ledger account"
        /\ SlotRow(OtherSlot(c))[2] = OtherSlot(c)
    BY DEF SlotRow
  <2>4. tx[d].pc \in {"journal", "commit"}
    BY <2>1, <2>2, <2>3 DEF Holding
  <2> QED
    BY <1>7, <2>4 DEF Rank, Reading
<1>8. CASE tx[c].pc = "journal"
  <2>1. PICK j \in References(c) : d \in Holders(c, JournalRef(j), "update")
    BY <1>8 DEF WaitsFor
  <2>2. tx[d].pc \in Holding(JournalRef(j))
    BY <2>1, HoldersAreLater
  <2> QED
    BY <1>8, <2>2 DEF Rank, Holding, JournalRef, Reading
<1> QED
  BY <1>1, <1>2, <1>3, <1>4, <1>5, <1>6, <1>7, <1>8 DEF WaitsFor

LEMMA LastExists ==
    ASSUME NEW S, S # {}, NEW rank \in [S -> 1..7]
    PROVE  \E x \in S : \A y \in S : rank[y] <= rank[x]
<1> DEFINE T == {7 - rank[x] : x \in S}
           R == OpToRel(<, Nat)
<1>1. T \in SUBSET Nat /\ T # {}
  OBVIOUS
<1>2. IsWellFoundedOn(R, Nat)
  BY NatLessThanWellFounded
<1>3. \A x, y \in Nat : <<y, x>> \in R <=> y < x
  BY DEF OpToRel
<1> HIDE DEF R, T
<1>4. PICK x \in T : \A y \in T : <<y, x>> \notin R
  BY <1>1, <1>2, WFMin
<1>5. \A y \in T : ~ (y < x)
  BY <1>1, <1>3, <1>4, Zenon
<1>6. PICK a \in S : x = 7 - rank[a]
  BY <1>4 DEF T
<1>7. \A b \in S : ~ (7 - rank[b] < 7 - rank[a])
  BY <1>5, <1>6 DEF T
<1> QED
  BY <1>7

(* Lock waits never form a cycle.                                          *)
LEMMA NoDeadlockHolds ==
    ASSUME TxInv
    PROVE  NoDeadlock
<1> SUFFICES ASSUME NEW S \in SUBSET Client, S # {}
             PROVE  \E c \in S : WaitsFor(c) \cap S = {}
  BY DEF NoDeadlock
<1>1. \A x : Rank(x) \in 1..7
  BY DEF Rank
<1>2. PICK c \in S : \A d \in S : Rank(tx[d].pc) <= Rank(tx[c].pc)
  <2>1. PICK rank : rank = [d \in S |-> Rank(tx[d].pc)]
    OBVIOUS
  <2>2. rank \in [S -> 1..7] /\ \A d \in S : rank[d] = Rank(tx[d].pc)
    BY <1>1, <2>1
  <2> QED
    BY <2>2, LastExists
<1>3. ASSUME NEW d \in WaitsFor(c) \cap S PROVE FALSE
  BY <1>1, <1>2, <1>3, WaitsForLater
<1> QED
  BY <1>3
=============================================================================
