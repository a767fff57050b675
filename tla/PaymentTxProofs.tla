--------------------------- MODULE PaymentTxProofs ---------------------------
(***************************************************************************)
(* Proofs about PaymentTx, second part: the data that the locks protect.   *)
(* Every step of the concurrent handlers is a step of the serial           *)
(* specification or none, so what PaymentsProofs proves of the serial      *)
(* operations holds of the concurrent ones, and the invariant of           *)
(* PaymentTxLocks is inductive.                                            *)
(***************************************************************************)
EXTENDS PaymentTxLocks

USE AmountAssumption, RiskLevelAssumption, HighAmountAssumption, BoundsAssumption

(* The serial specification again, with what is proved of it.              *)
Api == INSTANCE PaymentsProofs

LEMMA SameInvariant == Api!IInv <=> Serial!IInv
<1>1. Api!TypeOK <=> Serial!TypeOK
  BY DEF Api!TypeOK, Serial!TypeOK, Api!Account, Serial!Account, Api!Terms,
         Serial!Terms, Api!PaymentStatus, Serial!PaymentStatus, Api!Absent,
         Serial!Absent, Api!LedgerAccount, Serial!LedgerAccount, Api!EventType,
         Serial!EventType, Api!AuditAction, Serial!AuditAction
<1>2. Api!RowsComplete <=> Serial!RowsComplete
  BY DEF Api!RowsComplete, Serial!RowsComplete, Api!Exists, Serial!Exists,
         Api!Absent, Serial!Absent, Api!Terms, Serial!Terms, Api!Account,
         Serial!Account
<1>3. Api!AmountsMatchStatus <=> Serial!AmountsMatchStatus
  BY DEF Api!AmountsMatchStatus, Serial!AmountsMatchStatus, Api!Settled,
         Serial!Settled
<1>4. Api!CashInAccountCurrency <=> Serial!CashInAccountCurrency
  BY DEF Api!CashInAccountCurrency, Serial!CashInAccountCurrency, Api!Account,
         Serial!Account, Api!Cash, Serial!Cash
<1>5. Api!NoOverdraft <=> Serial!NoOverdraft
  BY DEF Api!NoOverdraft, Serial!NoOverdraft, Api!Available, Serial!Available,
         Api!Cash, Serial!Cash
<1>6. Api!SettledInAccountCurrency <=> Serial!SettledInAccountCurrency
  BY DEF Api!SettledInAccountCurrency, Serial!SettledInAccountCurrency,
         Api!Settled, Serial!Settled
<1>7. Api!CaptureJournalMatchesStatus <=> Serial!CaptureJournalMatchesStatus
  BY DEF Api!CaptureJournalMatchesStatus, Serial!CaptureJournalMatchesStatus,
         Api!Settled, Serial!Settled
<1>8. Api!OneKeyOnePayment <=> Serial!OneKeyOnePayment
  BY DEF Api!OneKeyOnePayment, Serial!OneKeyOnePayment, Api!Exists, Serial!Exists,
         Api!Absent, Serial!Absent
<1> QED
  BY <1>1, <1>2, <1>3, <1>4, <1>5, <1>6, <1>7, <1>8 DEF Api!IInv, Serial!IInv

LEMMA SameInit == Serial!Init => Api!Init
  BY DEF Api!Init, Serial!Init, Api!Absent, Serial!Absent, Api!LedgerAccount,
         Serial!LedgerAccount

LEMMA SameStep == [Serial!Next]_(Serial!vars) => [Api!Next]_(Api!vars)
  BY DEF Api!Next, Serial!Next, Api!vars, Serial!vars, Api!payment, Serial!payment,
         Api!ledger, Serial!ledger,
         Api!CreateMerchant, Serial!CreateMerchant,
         Api!CreateCustomer, Serial!CreateCustomer,
         Api!FundAccount, Serial!FundAccount, Api!CreatePayment, Serial!CreatePayment,
         Api!Authorize, Serial!Authorize, Api!Decline, Serial!Decline,
         Api!Capture, Serial!Capture, Api!Cancel, Serial!Cancel,
         Api!Refund, Serial!Refund, Api!Terms, Serial!Terms,
         Api!Emit, Serial!Emit, Api!Event, Serial!Event, Api!Audit, Serial!Audit,
         Api!SetStatus, Serial!SetStatus, Api!Exists, Serial!Exists,
         Api!Absent, Serial!Absent, Api!Affordable, Serial!Affordable,
         Api!Available, Serial!Available, Api!Cash, Serial!Cash,
         Api!Remaining, Serial!Remaining, Api!Unclaimed, Serial!Unclaimed,
         Api!Fundable, Serial!Fundable, Api!AddEntries, Serial!AddEntries,
         Api!PostOnce, Serial!PostOnce, Api!FundingLines, Serial!FundingLines,
         Api!CaptureLines, Serial!CaptureLines, Api!RefundLines, Serial!RefundLines,
         Api!Funding, Serial!Funding, Api!Receivable, Serial!Receivable,
         Api!MayBecome, Serial!MayBecome, Api!Allowed, Serial!Allowed,
         Api!PaymentStatus, Serial!PaymentStatus, Api!Refundable, Serial!Refundable,
         Api!StatusAfterRefund, Serial!StatusAfterRefund,
         Api!DecisionAtCreate, Serial!DecisionAtCreate, Api!RiskScore,
         Serial!RiskScore, Api!RiskDecision, Serial!RiskDecision,
         Api!Lesser, Serial!Lesser

(* Payments' inductive invariant survives every serial step.               *)
LEMMA SerialStepKeepsIInv ==
    Serial!IInv /\ [Serial!Next]_(Serial!vars) => Serial!IInv'
<1>1. Api!IInv' <=> Serial!IInv'
  BY SameInvariant, PTL
<1> QED
  BY <1>1, SameInvariant, SameStep, Api!IInvStep, NoneAssumption
     DEF Api!Terms, Api!Account, Terms, Account

LEMMA SerialInitHasIInv == Serial!Init => Serial!IInv
  BY SameInit, SameInvariant, Api!InitIInv, NoneAssumption
     DEF Api!Terms, Api!Account, Terms, Account

(* Every serial step keeps the lifecycle.                                  *)
LEMMA SerialStepMoves ==
    Serial!IInv /\ [Serial!Next]_(Serial!vars) => [Serial!LifecycleStep]_(Serial!vars)
<1>1. [Api!LifecycleStep]_(Api!vars) => [Serial!LifecycleStep]_(Serial!vars)
  BY DEF Api!LifecycleStep, Serial!LifecycleStep, Api!Absent, Serial!Absent,
         Api!MayBecome, Serial!MayBecome, Api!Allowed, Serial!Allowed,
         Api!PaymentStatus, Serial!PaymentStatus, Api!vars, Serial!vars,
         Api!payment, Serial!payment, Api!ledger, Serial!ledger
<1> QED
  BY <1>1, SameInvariant, SameStep, Api!StepMoves, NoneAssumption
     DEF Api!Terms, Api!Account, Terms, Account

(* The two properties whose proofs take sums and replays along, under the  *)
(* names of either instance.                                               *)
LEMMA SameLedger == Api!LedgerMatchesPayments <=> Serial!LedgerMatchesPayments
  BY DEF Api!LedgerMatchesPayments, Serial!LedgerMatchesPayments,
         Api!MapThenSumSet, Serial!MapThenSumSet, Api!MapThenFoldSet,
         Serial!MapThenFoldSet, Api!Remaining, Serial!Remaining, Api!Available,
         Serial!Available, Api!Exists, Serial!Exists, Api!Absent, Serial!Absent,
         Api!Cash, Serial!Cash, Api!Receivable, Serial!Receivable, Api!Funding,
         Serial!Funding

LEMMA SameReplay == Api!EventsReplayToRow <=> Serial!EventsReplayToRow
  BY DEF Api!EventsReplayToRow, Serial!EventsReplayToRow, Api!FoldLeft,
         Serial!FoldLeft, Api!MapThenFoldSet, Serial!MapThenFoldSet, Api!Absent,
         Serial!Absent, Api!AfterEvent, Serial!AfterEvent, Api!StatusAfterRefund,
         Serial!StatusAfterRefund, Api!Max, Serial!Max

(* What the serial operations keep beside IInv: the summands of the ledger *)
(* and the replay of the outbox.                                           *)
Carried == Serial!IInv /\ Api!LedgerInv /\ Serial!EventsReplayToRow

LEMMA SerialInitCarries == Serial!Init => Carried
<1>1. Serial!Init => Api!LedgerInv
  BY SameInit, Api!InitLedger, NoneAssumption
     DEF Api!Terms, Api!Account, Terms, Account
<1>2. Serial!Init => Api!EventsReplayToRow
  BY SameInit, Api!InitReplay, NoneAssumption
     DEF Api!Terms, Api!Account, Terms, Account
<1> QED
  BY <1>1, <1>2, SerialInitHasIInv, SameReplay DEF Carried

LEMMA SerialStepCarries ==
    Carried /\ [Serial!Next]_(Serial!vars) => Carried'
<1>1. Api!EventsReplayToRow' <=> Serial!EventsReplayToRow'
  BY SameReplay, PTL
<1>2. Carried /\ [Serial!Next]_(Serial!vars) => Api!LedgerInv'
  BY SameInvariant, SameStep, Api!LedgerStep, NoneAssumption
     DEF Carried, Api!Terms, Api!Account, Terms, Account
<1>3. Carried /\ [Serial!Next]_(Serial!vars) => Api!EventsReplayToRow'
  BY SameInvariant, SameReplay, SameStep, Api!ReplayStep, NoneAssumption
     DEF Carried, Api!Terms, Api!Account, Terms, Account
<1> QED
  BY <1>1, <1>2, <1>3, SerialStepKeepsIInv DEF Carried

LEMMA CarriedAgrees == Carried => Serial!LedgerMatchesPayments
  BY SameInvariant, SameLedger, Api!LedgerFollows, NoneAssumption
     DEF Carried, Api!Terms, Api!Account, Terms, Account

-----------------------------------------------------------------------------
(* What a transaction that is about to commit knows of its payment.        *)
LEMMA ReadyFacts ==
    ASSUME TxInv, NEW c \in Client, tx[c].pc = "commit", tx[c].req.op \in OnPayment
    PROVE  LET r == tx[c].req
               t == terms[r.payment] IN
           /\ RequestOK(r) /\ r.merchant \in Merchant /\ r.payment \in Payment
           /\ status[r.payment] # Absent /\ status[r.payment] \in PaymentStatus
           /\ t \in Terms /\ t.merchant = r.merchant /\ Subject(c) = t
           /\ t.amount \in Nat \ {0}
           /\ tx[c].row = Row(r.payment) /\ Permitted(r, tx[c].row)
<1> DEFINE r == tx[c].req
<1>1. RequestOK(r) /\ r.merchant \in Merchant /\ r.payment \in Payment
  BY LabelFacts DEF RequestOK, AnyRequest
<1>2. Found(r) /\ tx[c].row = Row(r.payment) /\ Permitted(r, tx[c].row)
  BY DEF TxInv, RowCurrent, PastLock
<1>3. status[r.payment] \in PaymentStatus
  BY <1>1, <1>2, Columns DEF TxInv, TypeOK, Found
<1>4. Subject(c) \in Terms /\ Subject(c) = terms[r.payment]
  BY SubjectKnown DEF PastLock
<1> QED
  BY <1>1, <1>2, <1>3, <1>4 DEF Found, Terms

(* The definitions the serial and the concurrent specification share.      *)
LEMMA SameVocabulary ==
    /\ Serial!Terms = Terms /\ Serial!Absent = Absent
    /\ Serial!Refundable = Refundable
    /\ \A s, u : Serial!MayBecome(s, u) <=> MayBecome(s, u)
    /\ \A a, b, l : Serial!DecisionAtCreate(a, b, l) = DecisionAtCreate(a, b, l)
    /\ \A a, b : Serial!StatusAfterRefund(a, b) = StatusAfterRefund(a, b)
    /\ \A a, b : Serial!Event(a, b) = Event(a, b)
    /\ \A t : Serial!CaptureLines(t) = CaptureLines(t)
    /\ \A t : Serial!RefundLines(t) = RefundLines(t)
    /\ \A m, x, cur : Serial!FundingLines(m, x, cur) = FundingLines(m, x, cur)
    /\ \A x, cur : Serial!Available(x, cur) = Available(x, cur)
  BY DEF Serial!Terms, Terms, Serial!Absent, Absent, Serial!Refundable, Refundable,
         Serial!MayBecome, MayBecome, Serial!Allowed, Allowed,
         Serial!PaymentStatus, PaymentStatus,
         Serial!DecisionAtCreate, DecisionAtCreate, Serial!RiskDecision,
         RiskDecision, Serial!RiskScore, RiskScore, Serial!Lesser, Lesser,
         Serial!StatusAfterRefund, StatusAfterRefund, Serial!Event, Event,
         Serial!CaptureLines, CaptureLines, Serial!RefundLines, RefundLines,
         Serial!FundingLines, FundingLines, Serial!Cash, Cash,
         Serial!Receivable, Receivable, Serial!Funding, Funding,
         Serial!Available, Available

-----------------------------------------------------------------------------
(* Each commit is the operation it is named for.                           *)
LEMMA CreateIsSerial ==
    ASSUME TxInv, NEW c \in Client, CommitCreate(c)
    PROVE  Serial!Next
<1> DEFINE r == tx[c].req
           p == tx[c].new
           t == TermsOf(r)
<1>1. Creating(c) /\ tx[c].pc = "commit" /\ r.op = "create"
  BY DEF CommitCreate, Creating, Ready
<1>2. /\ RequestOK(r) /\ r.merchant \in Merchant /\ r.key \in Key
      /\ r.customer \in Customer /\ level[r.merchant] # None
  BY <1>1, LabelFacts DEF RequestOK, AnyRequest
<1>3. /\ Recorded(r) = {} /\ p \in Payment /\ status[p] = Absent
      /\ CustomerOf(r)
  BY <1>1 DEF TxInv, CreateOK
<1>4. /\ t \in Terms /\ t.merchant = r.merchant /\ t.customer = r.customer
      /\ t.amount = r.amount /\ t.currency = r.currency
  BY <1>1, <1>2 DEF TermsOf, Terms, RequestOK
<1>5. Serial!Unclaimed(r.merchant, r.key)
  BY <1>3 DEF Serial!Unclaimed, Recorded
<1>6. UNCHANGED <<level, account, captured, refunded, ledger>>
  BY DEF CommitCreate, Finish
<1>7. Serial!CreatePayment(r.merchant, r.key, p, t)
  BY <1>2, <1>3, <1>4, <1>5, <1>6, SameVocabulary
     DEF CommitCreate, Serial!CreatePayment, CustomerOf, Serial!SetStatus, Emit,
         Serial!Emit, Audit, Serial!Audit, ledger, Serial!ledger
<1> QED
  BY <1>2, <1>3, <1>4, <1>7, SameVocabulary DEF Serial!Next

LEMMA AuthorizeIsSerial ==
    ASSUME TxInv, NEW c \in Client, CommitAuthorize(c)
    PROVE  Serial!Next
<1> DEFINE r == tx[c].req
           p == r.payment
           t == terms[p]
<1>1. tx[c].pc = "commit" /\ r.op = "authorize" /\ tx[c].verdict = "ok"
  BY DEF CommitAuthorize, Ready
<1>2. /\ r.merchant \in Merchant /\ p \in Payment /\ status[p] # Absent
      /\ t \in Terms /\ t.merchant = r.merchant /\ Subject(c) = t
      /\ tx[c].row = Row(p) /\ Permitted(r, tx[c].row)
  BY <1>1, ReadyFacts DEF OnPayment
<1>3. MayBecome(status[p], "AUTHORIZED")
  BY <1>1, <1>2 DEF Permitted, Row
<1>4. Available(t.customer, t.currency) >= t.amount
  BY <1>1, <1>2 DEF TxInv, BalanceOK, Paying
<1>5. Serial!Affordable(t)
  BY <1>4, SameVocabulary DEF Serial!Affordable
<1>6. UNCHANGED <<level, account>>
  BY DEF CommitAuthorize, Finish
<1>7. Serial!Authorize(r.merchant, p)
  BY <1>2, <1>3, <1>5, <1>6, SameVocabulary
     DEF CommitAuthorize, Serial!Authorize, Serial!Exists, Serial!SetStatus,
         WriteStatus, Emit, Serial!Emit, Audit, Serial!Audit, ledger, Serial!ledger
<1> QED
  BY <1>2, <1>7 DEF Serial!Next

LEMMA DeclineIsSerial ==
    ASSUME TxInv, NEW c \in Client, CommitDecline(c)
    PROVE  Serial!Next
<1> DEFINE r == tx[c].req
           p == r.payment
<1>1. tx[c].pc = "commit" /\ r.op = "authorize"
  BY DEF CommitDecline, Ready
<1>2. /\ r.merchant \in Merchant /\ p \in Payment /\ status[p] # Absent
      /\ terms[p].merchant = r.merchant
      /\ tx[c].row = Row(p) /\ Permitted(r, tx[c].row)
  BY <1>1, ReadyFacts DEF OnPayment
<1>3. MayBecome(status[p], "AUTHORIZED")
  BY <1>1, <1>2 DEF Permitted, Row
<1>4. UNCHANGED <<level, account>>
  BY DEF CommitDecline, Finish
<1>5. Serial!Decline(r.merchant, p)
  BY <1>2, <1>3, <1>4, SameVocabulary
     DEF CommitDecline, Serial!Decline, Serial!Exists, Serial!SetStatus,
         WriteStatus, Emit, Serial!Emit, ledger, Serial!ledger
<1> QED
  BY <1>2, <1>5 DEF Serial!Next

LEMMA CaptureIsSerial ==
    ASSUME TxInv, NEW c \in Client, CommitCapture(c)
    PROVE  Serial!Next
<1> DEFINE r == tx[c].req
           p == r.payment
           t == terms[p]
<1>1. tx[c].pc = "commit" /\ r.op = "capture" /\ tx[c].verdict = "ok"
  BY DEF CommitCapture, Ready
<1>2. /\ r.merchant \in Merchant /\ p \in Payment /\ status[p] # Absent
      /\ t \in Terms /\ t.merchant = r.merchant /\ Subject(c) = t
      /\ tx[c].row = Row(p) /\ Permitted(r, tx[c].row)
  BY <1>1, ReadyFacts DEF OnPayment
<1>3. MayBecome(status[p], "CAPTURED")
  BY <1>1, <1>2 DEF Permitted, Row
<1>4. Available(t.customer, t.currency) >= t.amount
  BY <1>1, <1>2 DEF TxInv, BalanceOK, Paying
<1>5. Serial!Affordable(t)
  BY <1>4, SameVocabulary DEF Serial!Affordable
<1>6. References(c) = {<<"payment_capture", p>>} /\ References(c) \cap posted = {}
  BY <1>1 DEF References, TxInv, FundOK
<1>7. PostJournal(c, CaptureLines(t), t.amount) /\ UNCHANGED <<level, account>>
  BY <1>2 DEF CommitCapture, Finish
<1>8. Serial!AddEntries(Serial!CaptureLines(t), t.amount)
      /\ Serial!PostOnce("payment_capture", p)
  BY <1>6, <1>7, SameVocabulary DEF PostJournal, Serial!AddEntries, Serial!PostOnce
<1>9. Serial!Capture(r.merchant, p)
  BY <1>2, <1>3, <1>5, <1>7, <1>8, SameVocabulary
     DEF CommitCapture, Serial!Capture, Serial!Exists, Serial!SetStatus,
         WriteStatus, Emit, Serial!Emit, Audit, Serial!Audit
<1> QED
  BY <1>2, <1>9 DEF Serial!Next

LEMMA CancelIsSerial ==
    ASSUME TxInv, NEW c \in Client, CommitCancel(c)
    PROVE  Serial!Next
<1> DEFINE r == tx[c].req
           p == r.payment
<1>1. tx[c].pc = "commit" /\ r.op = "cancel"
  BY DEF CommitCancel, Ready
<1>2. /\ r.merchant \in Merchant /\ p \in Payment /\ status[p] # Absent
      /\ terms[p].merchant = r.merchant
      /\ tx[c].row = Row(p) /\ Permitted(r, tx[c].row)
  BY <1>1, ReadyFacts DEF OnPayment
<1>3. MayBecome(status[p], "CANCELLED")
  BY <1>1, <1>2 DEF Permitted, Row
<1>4. UNCHANGED <<level, account>>
  BY DEF CommitCancel, Finish
<1>5. Serial!Cancel(r.merchant, p)
  BY <1>2, <1>3, <1>4, SameVocabulary
     DEF CommitCancel, Serial!Cancel, Serial!Exists, Serial!SetStatus,
         WriteStatus, Emit, Serial!Emit, ledger, Serial!ledger
<1> QED
  BY <1>2, <1>5 DEF Serial!Next

LEMMA RefundIsSerial ==
    ASSUME TxInv, NEW c \in Client, CommitRefund(c)
    PROVE  Serial!Next
<1> DEFINE r == tx[c].req
           p == r.payment
           t == terms[p]
<1>1. tx[c].pc = "commit" /\ r.op = "refund"
  BY DEF CommitRefund, Ready
<1>2. /\ r.merchant \in Merchant /\ p \in Payment /\ status[p] # Absent
      /\ t.merchant = r.merchant /\ Subject(c) = t
      /\ tx[c].row = Row(p) /\ Permitted(r, tx[c].row)
  BY <1>1, ReadyFacts DEF OnPayment
<1>3. r.amount \in Amount
  BY <1>1, LabelFacts DEF RequestOK
<1>4. /\ status[p] \in Refundable /\ r.amount <= captured[p] - refunded[p]
      /\ tx[c].row.captured = captured[p] /\ tx[c].row.refunded = refunded[p]
  BY <1>1, <1>2 DEF Permitted, Row
<1>5. PostJournal(c, RefundLines(t), r.amount) /\ References(c) = {}
      /\ UNCHANGED <<level, account>>
  BY <1>1, <1>2 DEF CommitRefund, References, Finish
<1>6. Serial!AddEntries(Serial!RefundLines(t), r.amount) /\ UNCHANGED posted
  BY <1>5, SameVocabulary DEF PostJournal, Serial!AddEntries
<1>7. Serial!Refund(r.merchant, p, r.amount)
  BY <1>2, <1>4, <1>5, <1>6, SameVocabulary
     DEF CommitRefund, Serial!Refund, Serial!Exists, Serial!SetStatus,
         WriteStatus, Emit, Serial!Emit, Serial!Remaining
<1> QED
  BY <1>2, <1>3, <1>7 DEF Serial!Next

LEMMA FundIsSerial ==
    ASSUME TxInv, NEW c \in Client, CommitFund(c)
    PROVE  Serial!Next
<1> DEFINE r == tx[c].req
<1>1. tx[c].pc = "commit" /\ r.op = "fund"
  BY DEF CommitFund, Ready
<1>2. /\ r.merchant \in Merchant /\ r.customer \in Customer
      /\ r.currency \in Currency /\ r.amount \in Amount
  BY <1>1, LabelFacts DEF RequestOK, AnyRequest
<1>3. /\ CustomerOf(r) /\ account[r.customer].currency = r.currency
      /\ References(c) \cap posted = {}
      /\ References(c) = {<<"account_funding", r.customer>>}
  BY <1>1 DEF TxInv, FundOK, References
<1>4. PostJournal(c, FundingLines(r.merchant, r.customer, r.currency), r.amount)
      /\ UNCHANGED <<level, account>>
  BY DEF CommitFund, Finish
<1>5. /\ Serial!AddEntries(Serial!FundingLines(r.merchant, r.customer, r.currency),
                           r.amount)
      /\ Serial!PostOnce("account_funding", r.customer)
  BY <1>3, <1>4, SameVocabulary DEF PostJournal, Serial!AddEntries, Serial!PostOnce
<1>6. Serial!FundAccount(r.merchant, r.customer, r.currency, r.amount)
  BY <1>3, <1>4, <1>5
     DEF CommitFund, Serial!FundAccount, Serial!Fundable, CustomerOf, Audit,
         Serial!Audit, payment, Serial!payment
<1> QED
  BY <1>2, <1>6 DEF Serial!Next

(* So every step is a serial step or none.                                 *)
LEMMA StepIsSerial ==
    ASSUME TxInv, [Next]_vars
    PROVE  [Serial!Next]_(Serial!vars)
<1>1. ASSUME UNCHANGED database PROVE UNCHANGED Serial!vars
  BY <1>1 DEF database, payment, ledger, Serial!vars, Serial!payment, Serial!ledger
<1>2. CASE UNCHANGED vars
  BY <1>1, <1>2 DEF vars
<1>3. CASE Register
  BY <1>3 DEF Register, Serial!Next
<1>4. ASSUME NEW c \in Client, Calls(c) PROVE UNCHANGED Serial!vars
  BY <1>1, <1>4, CallsReadOnly
<1>5. ASSUME NEW c \in Client, Commit(c) PROVE [Serial!Next]_(Serial!vars)
  <2>1. CASE CommitReplay(c)
    BY <1>1, <2>1 DEF CommitReplay, Finish, payment, ledger, Serial!vars,
                      Serial!payment, Serial!ledger
  <2> QED
    BY <1>5, <2>1, CreateIsSerial, AuthorizeIsSerial, DeclineIsSerial,
       CaptureIsSerial, CancelIsSerial, RefundIsSerial, FundIsSerial DEF Commit
<1> QED
  BY <1>2, <1>3, <1>4, <1>5, StepCases

-----------------------------------------------------------------------------
(* The data a transaction relies on, while others only read, or register.  *)
Quiet == /\ Persists
         /\ UNCHANGED <<terms, status, captured, refunded, idempotency, debit,
                        credit, posted, slots>>

(* What is invariant of each transaction's data.                           *)
DataOK(c) == RowCurrent(c) /\ FundOK(c) /\ BalanceOK(c) /\ AppliedOnce(c)

LEMMA CustomerStays ==
    ASSUME Persists, NEW r, CustomerOf(r), r.customer \in Customer
    PROVE  CustomerOf(r)' /\ account'[r.customer] = account[r.customer]
  BY DEF Persists, CustomerOf

LEMMA QuietKeepsData ==
    ASSUME TxInv, Quiet, NEW d \in Client, tx'[d] = tx[d]
    PROVE  DataOK(d)'
<1> DEFINE r == tx[d].req
<1>1. RowCurrent(d)'
  <2>1. RowCurrent(d)
    BY DEF TxInv
  <2> QED
    BY <2>1 DEF Quiet, RowCurrent, Found, Row, Permitted
<1>2. FundOK(d)'
  <2>1. FundOK(d)
    BY DEF TxInv
  <2>2. tx[d].pc # "idle" /\ r.op = "fund" => r.customer \in Customer
    BY LabelFacts DEF RequestOK
  <2>3. tx[d].pc # "idle" /\ r.op = "fund" /\ tx[d].pc \in Posting \cup {"commit"} =>
            CustomerOf(r)' /\ account'[r.customer].currency = r.currency
    BY <2>1, <2>2, CustomerStays DEF Quiet, FundOK
  <2> QED
    BY <2>1, <2>3 DEF Quiet, FundOK, References
<1>3. BalanceOK(d)'
  <2>1. BalanceOK(d)
    BY DEF TxInv
  <2> QED
    BY <2>1 DEF Quiet, BalanceOK, Subject, Available, Ready
<1>4. AppliedOnce(d)'
  <2>1. AppliedOnce(d)
    BY DEF TxInv
  <2> QED
    BY <2>1 DEF Quiet, AppliedOnce, Applied, Recorded
<1> QED
  BY <1>1, <1>2, <1>3, <1>4 DEF DataOK

LEMMA CallsAreQuiet ==
    ASSUME NEW c, Calls(c)
    PROVE  Quiet
  BY CallsReadOnly DEF Quiet, Persists, database, payment, ledger

(* The new payment of a create is told apart from everyone else's.         *)
LEMMA QuietKeepsCreate ==
    ASSUME TxInv, Quiet, NEW d \in Client, tx'[d] = tx[d],
           Creating(d) => \A e \in Client \ {d} :
                             Creating(e)' => tx'[e].new # tx[d].new
    PROVE  CreateOK(d)'
<1> DEFINE r == tx[d].req
<1>1. CreateOK(d)
  BY DEF TxInv
<1>2. tx[d].pc # "idle" /\ r.op = "create" => r.customer \in Customer
  BY LabelFacts DEF RequestOK
<1>3. Creating(d)' <=> Creating(d)
  BY DEF Creating, Ready
<1>4. Creating(d) => tx[d].pc # "idle" /\ r.op = "create"
  BY DEF Creating, Ready
<1>5. Creating(d) => CustomerOf(r)'
  BY <1>1, <1>2, <1>4, CustomerStays DEF Quiet, CreateOK
<1>6. Recorded(r)' = Recorded(r) /\ Recording(d)' = Recording(d)
  BY DEF Quiet, Recorded, Recording, TermsOf
<1> QED
  BY <1>1, <1>3, <1>5, <1>6 DEF Quiet, CreateOK

-----------------------------------------------------------------------------
(* The data a transaction relies on, as its own statements establish it.   *)
LEMMA CallKeepsRequest ==
    ASSUME TxInv, NEW c \in Client, Calls(c), ~ Send(c), ~ Done(c)
    PROVE  /\ tx[c].pc # "idle" /\ tx'[c].pc # "idle"
           /\ tx'[c].req = tx[c].req /\ tx'[c].applied = tx[c].applied
<1>1. CASE FindCashAccount(c) \/ SumCredits(c)
  BY <1>1, FindCashAccountFlow, JudgeFlow DEF Keeps, SumCredits
<1>2. CASE Refusals(c) \/ Abort(c) \/ LoseAnswer(c) \/ Retry(c)
  BY <1>2, RefusalFlow, ForgetFlow, RetryFlow DEF Keeps, Outside
<1>3. CASE ClaimKey(c) \/ InsertPayment(c) \/ LockPayment(c) \/ LockCustomer(c)
           \/ SumDebits(c) \/ LockAccount(c) \/ EnsureCash(c) \/ EnsureOther(c)
           \/ InsertJournal(c)
  BY <1>3, ClaimKeyFlow, InsertPaymentFlow, LockPaymentFlow, LockCustomerFlow,
     SumDebitsFlow, LockAccountFlow, EnsureCashFlow, EnsureOtherFlow,
     InsertJournalFlow DEF Keeps, AfterPayment, OnPayment
<1> QED
  BY <1>1, <1>2, <1>3 DEF Calls, Refusals

LEMMA CallKeepsRow ==
    ASSUME TxInv, NEW c \in Client, Calls(c)
    PROVE  RowCurrent(c)'
<1> DEFINE r == tx[c].req
<1>1. RowCurrent(c) /\ UNCHANGED <<terms, status, captured, refunded>>
  BY CallsReadOnly DEF TxInv, database, payment
<1>2. CASE Send(c) \/ Done(c) \/ Abort(c) \/ LoseAnswer(c)
  BY <1>2, SendFlow, DoneFlow, ForgetFlow
     DEF RowCurrent, Idle, PastLock, Posting, Reading
<1>3. CASE Retry(c)
  BY <1>1, <1>3, RetryFlow DEF RowCurrent, PastLock, Posting, Reading
<1>4. CASE Refusals(c)
  BY <1>4, RefusalFlow DEF RowCurrent, PastLock, Posting, Reading
<1>5. CASE LockPayment(c)
  <2>1. /\ r.op \in OnPayment /\ tx'[c].req = r
        /\ tx'[c].row = Row(r.payment)
        /\ Found(r) /\ Permitted(r, tx'[c].row)
    BY <1>5, LockPaymentFlow DEF Keeps
  <2>2. tx'[c].pc \in PastLock
    BY <1>5, LockPaymentFlow DEF AfterPayment, OnPayment, PastLock, Posting
  <2>3. Found(r)' /\ Row(r.payment)' = Row(r.payment)
    BY <1>1, <2>1 DEF Found, Row
  <2> QED
    BY <2>1, <2>2, <2>3 DEF RowCurrent, Permitted
<1>6. CASE ClaimKey(c) \/ InsertPayment(c) \/ LockAccount(c)
  <2>1. /\ r.op \notin OnPayment /\ tx[c].pc # "answered" /\ tx'[c].req = r
        /\ tx'[c].row = tx[c].row
    BY <1>6, ClaimKeyFlow, InsertPaymentFlow, LockAccountFlow DEF OnPayment, Keeps
  <2> QED
    BY <1>1, <2>1 DEF RowCurrent
<1>7. CASE LockCustomer(c) \/ FindCashAccount(c) \/ SumDebits(c) \/ SumCredits(c)
           \/ EnsureCash(c) \/ EnsureOther(c) \/ InsertJournal(c)
  <2>1. tx'[c].req = r /\ tx'[c].row = tx[c].row /\ tx[c].pc \in PastLock
    BY <1>7, LockCustomerFlow, FindCashAccountFlow, JudgeFlow, SumDebitsFlow,
       EnsureCashFlow, EnsureOtherFlow, InsertJournalFlow
       DEF Keeps, SumCredits, PastLock, Reading, Posting
  <2>2. tx'[c].pc \in PastLock \/ tx'[c].pc = "answered"
    BY <1>7, LockCustomerFlow, FindCashAccountFlow, JudgeFlow, SumDebitsFlow,
       EnsureCashFlow, EnsureOtherFlow, InsertJournalFlow
       DEF SumCredits, PastLock, Reading, Posting
  <2>3. Found(r)' = Found(r) /\ Row(r.payment)' = Row(r.payment)
    BY <1>1, <2>1 DEF Found, Row
  <2>4. Permitted(r, tx[c].row)' = Permitted(r, tx[c].row)
    BY <2>1 DEF Permitted
  <2> QED
    BY <1>1, <2>1, <2>2, <2>3, <2>4 DEF RowCurrent, Permitted, PastLock, Reading,
                                       Posting
<1> QED
  BY <1>2, <1>3, <1>4, <1>5, <1>6, <1>7 DEF Calls, Refusals

LEMMA CallKeepsFund ==
    ASSUME TxInv, NEW c \in Client, Calls(c)
    PROVE  FundOK(c)'
<1> DEFINE r == tx[c].req
<1>1. FundOK(c) /\ UNCHANGED <<account, posted>>
  BY CallsReadOnly DEF TxInv, database, ledger
<1>2. CASE Send(c) \/ Done(c) \/ Abort(c) \/ LoseAnswer(c) \/ Retry(c) \/ Refusals(c)
  BY <1>2, SendFlow, DoneFlow, ForgetFlow, RetryFlow, RefusalFlow
     DEF FundOK, Idle, Posting
<1>3. CASE ClaimKey(c) \/ InsertPayment(c)
  BY <1>3, ClaimKeyFlow, InsertPaymentFlow DEF FundOK, Keeps
<1>4. CASE LockPayment(c)
  BY <1>4, LockPaymentFlow DEF FundOK, Keeps, AfterPayment, OnPayment
<1>5. CASE LockCustomer(c) \/ FindCashAccount(c) \/ SumDebits(c) \/ SumCredits(c)
  <2>1. /\ r.op \in Paying /\ tx'[c].req = r
        /\ tx'[c].pc = "commit" => r.op = "authorize"
    BY <1>5, LockCustomerFlow, FindCashAccountFlow, JudgeFlow, SumDebitsFlow
       DEF Keeps, SumCredits
  <2> QED
    BY <2>1 DEF FundOK, Paying
<1>6. CASE LockAccount(c)
  <2>1. /\ tx'[c].pc = "cash" /\ tx'[c].req = r /\ CustomerOf(r) /\ r.op = "fund"
        /\ account[r.customer].currency = r.currency
    BY <1>6, LockAccountFlow DEF Keeps
  <2> QED
    BY <1>1, <2>1 DEF FundOK, CustomerOf
<1>7. CASE EnsureCash(c) \/ EnsureOther(c) \/ InsertJournal(c)
  <2>1. /\ tx'[c].req = r /\ tx[c].pc \in Posting
        /\ tx'[c].pc = "commit" => References(c) \cap posted = {}
    BY <1>7, EnsureCashFlow, EnsureOtherFlow, InsertJournalFlow DEF Keeps, Posting
  <2>2. r.op = "fund" => CustomerOf(r)' /\ account'[r.customer].currency = r.currency
    BY <1>1, <2>1 DEF FundOK, CustomerOf, Posting
  <2>3. References(c)' = References(c)
    BY <2>1 DEF References
  <2> QED
    BY <1>1, <2>1, <2>2, <2>3 DEF FundOK
<1> QED
  BY <1>2, <1>3, <1>4, <1>5, <1>6, <1>7 DEF Calls, Refusals

LEMMA CallKeepsApplied ==
    ASSUME TxInv, NEW c \in Client, Calls(c)
    PROVE  AppliedOnce(c)'
<1> DEFINE r == tx[c].req
<1>1. AppliedOnce(c) /\ UNCHANGED <<idempotency, posted, status>>
  BY CallsReadOnly DEF TxInv, database, payment, ledger
<1>2. CASE Send(c) \/ Done(c)
  BY <1>2, SendFlow, DoneFlow DEF AppliedOnce, Idle
<1>3. CASE ~ Send(c) /\ ~ Done(c)
  <2>1. /\ tx[c].pc # "idle" /\ tx'[c].pc # "idle"
        /\ tx'[c].req = r /\ tx'[c].applied = tx[c].applied
    BY <1>3, CallKeepsRequest
  <2>2. Applied(r)' = Applied(r)
    BY <1>1, <2>1 DEF Applied, Recorded
  <2> QED
    BY <1>1, <2>1, <2>2 DEF AppliedOnce, Applied, Recorded
<1> QED
  BY <1>2, <1>3

(* The balance a transaction reads never exceeds the one it would read now, *)
(* because it holds the customer's lock between its two sums.              *)
LEMMA CallKeepsBalance ==
    ASSUME TxInv, NEW c \in Client, Calls(c)
    PROVE  BalanceOK(c)'
<1> DEFINE r == tx[c].req
           t == Subject(c)
           now == Available(t.customer, t.currency)
<1>1. BalanceOK(c) /\ EmptyWithoutRow /\ TypeOK
  BY DEF TxInv
<1>2. UNCHANGED <<terms, debit, credit, slots>>
  BY CallsReadOnly DEF database, payment, ledger
<1>3. tx'[c].req = r => Subject(c)' = t
  BY <1>2 DEF Subject
<1>4. \A x, cur : Available(x, cur)' = Available(x, cur)
  BY <1>2 DEF Available
<1>5. tx'[c].pc \notin PastLock => BalanceOK(c)'
  BY DEF BalanceOK, PastLock, Reading, Posting, Ready
<1>6. CASE \/ Send(c) \/ Done(c) \/ Abort(c) \/ LoseAnswer(c) \/ Retry(c)
           \/ Refusals(c) \/ LockPayment(c)
  <2>1. tx'[c].pc \notin PastLock \/ (tx'[c].req = r /\ r.op \notin Paying)
        \/ tx'[c].pc = "customer"
    BY <1>6, SendFlow, DoneFlow, ForgetFlow, RetryFlow, RefusalFlow, LockPaymentFlow
       DEF Idle, PastLock, Reading, Posting, Keeps, AfterPayment, OnPayment, Paying
  <2> QED
    BY <1>5, <2>1 DEF BalanceOK, Reading, Posting, Ready
<1>7. CASE ClaimKey(c) \/ InsertPayment(c) \/ LockAccount(c)
  BY <1>7, ClaimKeyFlow, InsertPaymentFlow, LockAccountFlow
     DEF BalanceOK, Keeps, Paying
<1>8. ASSUME r.op \in Paying, tx[c].pc \in PastLock
      PROVE  /\ t \in Terms /\ t.amount \in Nat \ {0} /\ now \in Int
             /\ debit[Cash(t.customer, t.currency)] \in Nat
             /\ credit[Cash(t.customer, t.currency)] \in Nat
             /\ now = debit[Cash(t.customer, t.currency)]
                        - credit[Cash(t.customer, t.currency)]
             /\ tx[c].atLock \in Int /\ tx[c].debits \in Nat
  <2>1. t \in Terms
    BY <1>8, SubjectKnown DEF PastLock, Reading, Posting
  <2>2. tx[c] \in Transaction
    BY <1>1 DEF TypeOK
  <2> HIDE DEF t
  <2> QED
    BY <1>1, <2>1, <2>2, BalanceTypes DEF Terms, Available, Transaction
<1>9. CASE LockCustomer(c)
  <2>1. /\ tx'[c].pc = "accounts" /\ tx'[c].atLock = now /\ r.op \in Paying
        /\ tx'[c].req = r /\ tx[c].pc \in PastLock
    BY <1>9, LockCustomerFlow DEF Keeps, PastLock
  <2>2. now \in Int
    BY <1>8, <2>1
  <2>3. tx'[c].atLock <= now
    BY <2>1, <2>2
  <2> QED
    BY <1>3, <1>4, <2>1, <2>3 DEF BalanceOK, Reading, Posting, Ready
<1>10. ASSUME NEW balance \in Int, Judge(c, balance), tx[c].pc \in {"accounts", "credits"},
              balance <= now, tx[c].atLock <= balance
       PROVE  BalanceOK(c)'
  <2>1. /\ r.op \in Paying /\ tx'[c].req = r /\ tx'[c].atLock = tx[c].atLock
        /\ tx[c].pc \in PastLock
    BY <1>10, JudgeFlow DEF Keeps, PastLock, Reading
  <2>2. /\ tx'[c].pc \in {"cash", "commit", "answered"}
        /\ tx'[c].pc \in {"cash", "commit"} /\ tx'[c].verdict = "ok" =>
              balance >= t.amount
        /\ tx'[c].pc = "commit" /\ tx'[c].verdict = "declined" =>
              ~ (balance >= t.amount)
    BY <1>10, JudgeFlow
  <2>3. /\ t.amount \in Nat /\ now \in Int /\ tx[c].atLock \in Int
    BY <1>8, <2>1
  <2>4. /\ balance >= t.amount => now >= t.amount
        /\ ~ (balance >= t.amount) => tx[c].atLock < t.amount
    BY <1>10, <2>3
  <2> QED
    BY <1>3, <1>4, <1>5, <2>1, <2>2, <2>4 DEF BalanceOK, Reading, Posting, Ready
<1>11. CASE FindCashAccount(c)
  <2>1. tx[c].pc = "accounts" /\ r.op \in Paying /\ tx[c].pc \in PastLock
    BY <1>11, FindCashAccountFlow DEF PastLock, Reading
  <2>2. tx[c].atLock <= now
    BY <1>1, <2>1 DEF BalanceOK, Reading
  <2>3. CASE Keeps(c, {}) /\ tx'[c].pc = "debits"
    BY <1>3, <1>4, <2>1, <2>2, <2>3 DEF BalanceOK, Keeps, Reading, Posting, Ready
  <2>4. CASE Judge(c, 0) /\ CashSlot(c) \notin slots
    <3>1. CashSlot(c) \in LedgerAccount
      BY <1>1, <1>8, <2>1, BalanceTypes DEF CashSlot
    <3>2. now = 0
      BY <1>1, <1>8, <2>1, <2>4, <3>1 DEF EmptyWithoutRow, CashSlot
    <3>3. 0 \in Int /\ 0 <= now /\ tx[c].atLock <= 0
      BY <2>2, <3>2
    <3> QED
      BY <1>10, <2>1, <2>4, <3>3
  <2> QED
    BY <1>11, <2>3, <2>4, FindCashAccountFlow
<1>12. CASE SumDebits(c)
  <2>1. /\ tx[c].pc = "debits" /\ r.op \in Paying /\ tx'[c].pc = "credits"
        /\ tx[c].pc \in PastLock /\ tx'[c].req = r
        /\ tx'[c].atLock = tx[c].atLock
        /\ tx'[c].debits = debit[Cash(t.customer, t.currency)]
    BY <1>12, SumDebitsFlow DEF Keeps, PastLock, Reading
  <2>2. tx[c].atLock <= now
    BY <1>1, <2>1 DEF BalanceOK, Reading
  <2>3. /\ tx'[c].debits <= debit[Cash(t.customer, t.currency)]
        /\ tx[c].atLock <= tx'[c].debits - credit[Cash(t.customer, t.currency)]
    BY <1>8, <2>1, <2>2
  <2> QED
    BY <1>2, <1>3, <1>4, <2>1, <2>2, <2>3 DEF BalanceOK, Reading, Posting, Ready
<1>13. CASE SumCredits(c)
  <2>1. /\ tx[c].pc = "credits" /\ r.op \in Paying /\ tx[c].pc \in PastLock
        /\ Judge(c, tx[c].debits - credit[Cash(t.customer, t.currency)])
    BY <1>13, LabelFacts DEF SumCredits, PastLock, Reading
  <2>2. /\ tx[c].debits <= debit[Cash(t.customer, t.currency)]
        /\ tx[c].atLock <= tx[c].debits - credit[Cash(t.customer, t.currency)]
    BY <1>1, <2>1 DEF BalanceOK
  <2>3. /\ tx[c].debits - credit[Cash(t.customer, t.currency)] \in Int
        /\ tx[c].debits - credit[Cash(t.customer, t.currency)] <= now
    BY <1>8, <2>1, <2>2
  <2> QED
    BY <1>10, <2>1, <2>2, <2>3
<1>14. CASE EnsureCash(c) \/ EnsureOther(c) \/ InsertJournal(c)
  <2>1. /\ tx[c].pc \in Posting /\ tx'[c].pc \in Posting \cup {"commit"}
        /\ tx'[c].req = r /\ tx'[c].verdict = tx[c].verdict
    BY <1>14, EnsureCashFlow, EnsureOtherFlow, InsertJournalFlow DEF Keeps, Posting
  <2>2. r.op # "authorize"
    BY <2>1, LabelFacts DEF Posting
  <2>3. r.op \in Paying /\ tx[c].verdict = "ok" => now >= t.amount
    BY <1>1, <2>1 DEF BalanceOK, Posting
  <2>4. tx'[c].pc \notin Reading
    BY <2>1 DEF Posting, Reading
  <2> QED
    BY <1>3, <1>4, <2>1, <2>2, <2>3, <2>4 DEF BalanceOK, Reading, Ready
<1> QED
  BY <1>6, <1>7, <1>9, <1>11, <1>12, <1>13, <1>14 DEF Calls, Refusals

(* A create is the first under its key, and picks a payment of its own.    *)
LEMMA OnlyInsertCreates ==
    ASSUME TxInv, NEW c \in Client, Calls(c), Creating(c)'
    PROVE  InsertPayment(c)
<1>1. tx'[c].pc = "commit" /\ tx'[c].verdict = "ok" /\ tx'[c].req.op = "create"
  BY DEF Creating, Ready
<1>2. ~ Send(c) /\ ~ Done(c)
  BY <1>1, SendFlow, DoneFlow DEF Idle
<1>3. tx[c].req.op = "create"
  BY <1>1, <1>2, CallKeepsRequest
<1>4. ~ LockPayment(c) /\ ~ LockAccount(c) /\ ~ SumDebits(c) /\ ~ FindCashAccount(c)
      /\ ~ SumCredits(c) /\ ~ LockCustomer(c)
  BY <1>3, LockPaymentFlow, LockAccountFlow, SumDebitsFlow, FindCashAccountFlow,
     JudgeFlow, LockCustomerFlow DEF OnPayment, Paying, SumCredits
<1>5. ~ EnsureCash(c) /\ ~ EnsureOther(c) /\ ~ InsertJournal(c)
  BY <1>3, LabelFacts, EnsureCashFlow, EnsureOtherFlow, InsertJournalFlow DEF Posting
<1>6. ~ ClaimKey(c) /\ ~ Refusals(c) /\ ~ Abort(c) /\ ~ LoseAnswer(c) /\ ~ Retry(c)
  BY <1>1, ClaimKeyFlow, RefusalFlow, ForgetFlow, RetryFlow
<1> QED
  BY <1>2, <1>4, <1>5, <1>6 DEF Calls, Refusals

LEMMA CallKeepsOthersCreate ==
    ASSUME TxInv, NEW c \in Client, Calls(c), NEW d \in Client \ {c}
    PROVE  CreateOK(d)'
<1>1. Quiet /\ Others(c)
  BY CallsAreQuiet, CallsFlow DEF Flow
<1>2. ASSUME Creating(d), NEW e \in Client \ {d}, Creating(e)'
      PROVE  tx'[e].new # tx[d].new
  <2>1. CASE e = c
    <3>1. InsertPayment(c)
      BY <1>2, <2>1, OnlyInsertCreates
    <3> QED
      BY <2>1, <3>1, InsertPaymentFlow
  <2>2. CASE e # c
    <3>1. tx'[e] = tx[e]
      BY <1>1, <2>2 DEF Others
    <3>2. Creating(e)
      BY <1>2, <3>1 DEF Creating, Ready
    <3>3. CreateOK(d) /\ tx[d].pc # "idle" /\ tx[d].req.op = "create"
      BY <1>2 DEF TxInv, Creating, Ready
    <3> QED
      BY <1>2, <3>1, <3>2, <3>3 DEF CreateOK
  <2> QED
    BY <2>1, <2>2
<1>3. tx'[d] = tx[d]
  BY <1>1 DEF Others
<1> QED
  BY <1>1, <1>2, <1>3, QuietKeepsCreate

LEMMA CallKeepsCreate ==
    ASSUME TxInv, NEW c \in Client, Calls(c)
    PROVE  CreateOK(c)'
<1> DEFINE r == tx[c].req
<1>1. /\ CreateOK(c) /\ UNCHANGED <<account, status, idempotency>> /\ Others(c)
  BY CallsReadOnly, CallsFlow DEF TxInv, database, payment, Flow
<1>2. CASE ClaimKey(c)
  <2>1. r.op = "create" /\ tx'[c].req = r /\ RequestOK(r)
    BY <1>2, ClaimKeyFlow, LabelFacts DEF Keeps
  <2>2. CASE tx'[c].pc = "insert" /\ Recorded(r) = {}
    BY <1>1, <2>1, <2>2 DEF CreateOK, Creating, Ready, Recorded
  <2>3. ASSUME NEW i \in Recorded(r), tx'[c].pc = "commit",
               tx'[c].verdict = "replayed", tx'[c].new = i.payment,
               SameRequest(i, r)
        PROVE  CreateOK(c)'
    <3>1. i \in [merchant : Merchant, key : Key, fingerprint : Terms,
                 payment : Payment] /\ i \in idempotency
          /\ i.merchant = r.merchant /\ i.key = r.key
      BY Columns DEF TxInv, TypeOK, Recorded
    <3>2. i.fingerprint = TermsOf(r)
      BY <2>3 DEF SameRequest
    <3>3. Recording(c)' = i
      BY <2>1, <2>3, <3>1, <3>2 DEF Recording, TermsOf
    <3> QED
      BY <1>1, <2>3, <3>1, <3>3 DEF CreateOK, Creating, Ready
  <2> QED
    BY <1>2, <2>2, <2>3, ClaimKeyFlow
<1>3. CASE InsertPayment(c)
  <2>1. /\ tx'[c].req = r /\ tx'[c].pc = "commit" /\ tx'[c].verdict = "ok"
        /\ tx'[c].new \in Payment /\ status'[tx'[c].new] = Absent
        /\ CustomerOf(r)' /\ \A d \in Client : tx[d].new # tx'[c].new
        /\ tx[c].pc = "insert" /\ r.op = "create"
    BY <1>1, <1>3, InsertPaymentFlow DEF Keeps, CustomerOf
  <2>2. Recorded(r)' = {}
    BY <1>1, <2>1 DEF CreateOK, Recorded
  <2>3. \A d \in Client \ {c} : tx'[d].new # tx'[c].new
    BY <1>1, <2>1 DEF Others
  <2> QED
    BY <2>1, <2>2, <2>3 DEF CreateOK, CustomerOf, Recorded
<1>4. CASE Refusals(c) \/ Send(c) \/ Done(c) \/ Abort(c) \/ LoseAnswer(c) \/ Retry(c)
  BY <1>4, RefusalFlow, SendFlow, DoneFlow, ForgetFlow, RetryFlow
     DEF CreateOK, Creating, Ready, Idle
<1>5. CASE \/ LockPayment(c) \/ LockCustomer(c) \/ FindCashAccount(c)
           \/ SumDebits(c) \/ SumCredits(c) \/ LockAccount(c) \/ EnsureCash(c)
           \/ EnsureOther(c) \/ InsertJournal(c)
  <2>1. r.op # "create"
    BY <1>5, LockPaymentFlow, LockAccountFlow, SumDebitsFlow, FindCashAccountFlow,
       JudgeFlow, LockCustomerFlow, EnsureCashFlow, EnsureOtherFlow,
       InsertJournalFlow, LabelFacts DEF OnPayment, Paying, SumCredits, Posting
  <2>2. tx'[c].req = r
    BY <1>5, LockPaymentFlow, LockAccountFlow, SumDebitsFlow, FindCashAccountFlow,
       JudgeFlow, LockCustomerFlow, EnsureCashFlow, EnsureOtherFlow,
       InsertJournalFlow DEF Keeps, SumCredits
  <2> QED
    BY <2>1, <2>2 DEF CreateOK
<1> QED
  BY <1>2, <1>3, <1>4, <1>5 DEF Calls, Refusals

(* The unique key never has to stop a capture.                             *)
LEMMA CallKeepsBackstop ==
    ASSUME TxInv, NEW c \in Client, Calls(c), tx'[c].req # None,
           tx'[c].req.op = "capture"
    PROVE  tx'[c].verdict # "duplicate"
<1> DEFINE r == tx[c].req
<1>1. CASE Send(c) \/ Done(c) \/ Abort(c) \/ LoseAnswer(c)
  BY <1>1, SendFlow, DoneFlow, ForgetFlow DEF Idle
<1>2. CASE ~ Send(c) /\ ~ Done(c)
  <2>1. tx[c].pc # "idle" /\ tx'[c].req = r /\ r.op = "capture" /\ RequestOK(r)
    BY <1>2, CallKeepsRequest, LabelFacts
  <2>2. tx[c].verdict # "duplicate"
    BY <2>1 DEF TxInv, BackstopIsSilent
  <2>3. ASSUME JournalExists(c) PROVE FALSE
    <3>1. tx[c].pc = "journal" /\ References(c) \cap posted # {}
      BY <2>3 DEF JournalExists
    <3>2. /\ <<"payment_capture", r.payment>> \in posted /\ r.payment \in Payment
      BY <2>1, <3>1 DEF References, RequestOK, OnPayment
    <3>3. status[r.payment] \in Settled
      BY <3>2, SerialFacts DEF TxInv
    <3>4. tx[c].row = Row(r.payment) /\ Permitted(r, tx[c].row)
      BY <2>1, <3>1 DEF TxInv, RowCurrent, PastLock, Posting, OnPayment
    <3>5. MayBecome(status[r.payment], "CAPTURED")
      BY <2>1, <3>4 DEF Permitted, Row
    <3> QED
      BY <3>3, <3>5 DEF Settled, MayBecome, Allowed
  <2>4. CASE Refusals(c) \/ Abort(c) \/ LoseAnswer(c) \/ Retry(c)
    BY <2>2, <2>3, <2>4, RefusalFlow, ForgetFlow, RetryFlow
  <2>5. CASE \/ ClaimKey(c) \/ InsertPayment(c) \/ LockPayment(c) \/ LockCustomer(c)
             \/ SumDebits(c) \/ LockAccount(c) \/ EnsureCash(c) \/ EnsureOther(c)
             \/ InsertJournal(c)
    BY <2>2, <2>5, ClaimKeyFlow, InsertPaymentFlow, LockPaymentFlow,
       LockCustomerFlow, SumDebitsFlow, LockAccountFlow, EnsureCashFlow,
       EnsureOtherFlow, InsertJournalFlow DEF Keeps
  <2>6. CASE FindCashAccount(c) \/ SumCredits(c)
    BY <2>2, <2>6, FindCashAccountFlow, JudgeFlow DEF Keeps, SumCredits
  <2> QED
    BY <1>2, <2>4, <2>5, <2>6 DEF Calls, Refusals
<1> QED
  BY <1>1, <1>2

-----------------------------------------------------------------------------
(* What a commit writes, and why it disturbs nobody.                       *)
LEMMA HeldByOne ==
    ASSUME TxInv, NEW c \in Client, NEW d \in Client, NEW row,
           Holds(c, row), Holds(d, row)
    PROVE  c = d
<1>1. PICK l \in locks : l = Lock(c, row, "update")
  BY DEF Holds
<1>2. PICK k \in locks : k = Lock(d, row, "update")
  BY DEF Holds
<1>3. /\ l.by = c /\ k.by = d /\ l.row = row /\ k.row = row
      /\ l.mode = "update" /\ k.mode = "update"
  BY <1>1, <1>2 DEF Lock
<1> QED
  BY <1>3 DEF TxInv, Exclusive

(* Only the payment a commit is about changes.                             *)
Writes(c, p) == \/ Creating(c) /\ p = tx[c].new
                \/ tx[c].req.op \in OnPayment /\ p = tx[c].req.payment

LEMMA CommitWrites ==
    ASSUME TxInv, NEW c \in Client, Commit(c), NEW p \in Payment, ~ Writes(c, p)
    PROVE  /\ status'[p] = status[p] /\ terms'[p] = terms[p]
           /\ captured'[p] = captured[p] /\ refunded'[p] = refunded[p]
<1>1. /\ status \in [Payment -> PaymentStatus \cup {Absent}]
      /\ terms \in [Payment -> Terms \cup {None}]
      /\ captured \in [Payment -> Nat] /\ refunded \in [Payment -> Nat]
  BY Columns DEF TxInv, TypeOK
<1>2. CASE CommitCreate(c)
  BY <1>1, <1>2 DEF CommitCreate, Creating, Ready, Writes
<1>3. CASE CommitReplay(c) \/ CommitFund(c)
  BY <1>3 DEF CommitReplay, CommitFund, payment
<1>4. CASE CommitAuthorize(c) \/ CommitDecline(c)
  BY <1>1, <1>4 DEF CommitAuthorize, CommitDecline, Ready, Writes, OnPayment,
                    WriteStatus
<1>5. CASE CommitCapture(c) \/ CommitCancel(c) \/ CommitRefund(c)
  BY <1>1, <1>5 DEF CommitCapture, CommitCancel, CommitRefund, Ready, Writes,
                    OnPayment, WriteStatus
<1> QED
  BY <1>2, <1>3, <1>4, <1>5 DEF Commit

(* A transaction with a locked payment is the only one to write it.        *)
LEMMA OthersPaymentUntouched ==
    ASSUME TxInv, NEW c \in Client, Commit(c), NEW d \in Client \ {c},
           tx[d].req.op \in OnPayment, tx[d].pc \in PastLock
    PROVE  /\ tx[d].req.payment \in Payment /\ ~ Writes(c, tx[d].req.payment)
<1> DEFINE p == tx[d].req.payment
<1>1. p \in Payment /\ status[p] # Absent /\ tx[d].pc # "idle"
  BY SubjectKnown DEF PastLock, Reading, Posting
<1>2. Holds(d, PaymentRow(p))
  BY <1>1 DEF TxInv, LocksKept
<1>3. tx[c].pc = "commit"
  BY CommitFinishes
<1>4. ASSUME Creating(c) PROVE tx[c].new # p
  BY <1>1, <1>3, <1>4 DEF TxInv, CreateOK, Creating, Ready
<1>5. ASSUME tx[c].req.op \in OnPayment PROVE tx[c].req.payment # p
  <2>1. Holds(c, PaymentRow(tx[c].req.payment))
    BY <1>3, <1>5 DEF TxInv, LocksKept, PastLock
  <2> QED
    BY <1>2, <2>1, HeldByOne
<1> QED
  BY <1>1, <1>4, <1>5 DEF Writes

LEMMA CommitKeepsOthersRow ==
    ASSUME TxInv, NEW c \in Client, Commit(c), NEW d \in Client \ {c}
    PROVE  RowCurrent(d)'
<1>1. RowCurrent(d) /\ tx'[d] = tx[d]
  BY CommitFlow DEF TxInv, Others
<1>2. CASE tx[d].pc \in PastLock /\ tx[d].req.op \in OnPayment
  <2>1. PICK p : p = tx[d].req.payment
    OBVIOUS
  <2>2. /\ status'[p] = status[p] /\ terms'[p] = terms[p]
        /\ captured'[p] = captured[p] /\ refunded'[p] = refunded[p]
    BY <1>2, <2>1, OthersPaymentUntouched, CommitWrites
  <2>3. Found(tx[d].req) /\ tx[d].row = Row(p) /\ Permitted(tx[d].req, tx[d].row)
    BY <1>1, <1>2, <2>1 DEF RowCurrent
  <2>4. Found(tx[d].req)' /\ Row(tx[d].req.payment)' = Row(p)
    BY <1>1, <2>1, <2>2, <2>3 DEF Found, Row
  <2> QED
    BY <1>1, <1>2, <2>3, <2>4 DEF RowCurrent, Permitted
<1>3. CASE ~ (tx[d].pc \in PastLock /\ tx[d].req.op \in OnPayment)
  BY <1>1, <1>3 DEF RowCurrent
<1> QED
  BY <1>2, <1>3

(* The journal references of two transactions about to commit differ.      *)
LEMMA CommitPosts ==
    ASSUME NEW c, Commit(c)
    PROVE  posted' \subseteq posted \cup References(c)
  BY DEF Commit, CommitCreate, CommitReplay, CommitAuthorize, CommitDecline,
         CommitCapture, CommitCancel, CommitRefund, CommitFund, PostJournal, ledger

LEMMA CommitKeepsOthersFund ==
    ASSUME TxInv, NEW c \in Client, Commit(c), NEW d \in Client \ {c}
    PROVE  FundOK(d)'
<1>1. /\ FundOK(d) /\ tx'[d] = tx[d] /\ UNCHANGED account /\ tx[c].pc = "commit"
  BY CommitFlow DEF TxInv, Others
<1>2. ASSUME tx[d].pc = "commit", NEW j \in References(d)
      PROVE  j \notin References(c)
  <2>1. Holds(d, JournalRef(j))
    BY <1>2 DEF TxInv, LocksKept
  <2>2. ASSUME j \in References(c) PROVE FALSE
    <3>1. Holds(c, JournalRef(j))
      BY <1>1, <2>2 DEF TxInv, LocksKept
    <3> QED
      BY <2>1, <3>1, HeldByOne
  <2> QED
    BY <2>2
<1>3. tx[d].pc = "commit" /\ References(d) \cap posted = {} =>
          References(d) \cap posted' = {}
  BY <1>2, CommitPosts
<1>4. References(d)' = References(d)
  BY <1>1 DEF References
<1> QED
  BY <1>1, <1>3, <1>4 DEF FundOK, CustomerOf

(* A commit moves money between the two accounts its transaction ensured,  *)
(* and only a capture takes it from the customer.                          *)
LEMMA CommitJournal ==
    ASSUME TxInv, NEW c \in Client, Commit(c)
    PROVE  \/ UNCHANGED <<debit, credit>>
           \/ /\ tx[c].req.op \in {"fund", "capture", "refund"}
              /\ CashSlot(c) \in LedgerAccount /\ OtherSlot(c) \in LedgerAccount
              /\ CashSlot(c) # OtherSlot(c) /\ OtherSlot(c)[2] # "customer_cash"
              /\ \E n \in Nat :
                    \/ /\ tx[c].req.op = "capture"
                       /\ debit'  = [debit  EXCEPT ![OtherSlot(c)] = @ + n]
                       /\ credit' = [credit EXCEPT ![CashSlot(c)] = @ + n]
                    \/ /\ debit'  = [debit  EXCEPT ![CashSlot(c)] = @ + n]
                       /\ credit' = [credit EXCEPT ![OtherSlot(c)] = @ + n]
<1> DEFINE r == tx[c].req
           t == Subject(c)
<1>1. tx[c].pc = "commit" /\ tx[c].pc # "idle"
  BY CommitFinishes
<1>2. ASSUME r.op \in {"fund", "capture", "refund"}
      PROVE  /\ t \in Terms
             /\ CashSlot(c) \in LedgerAccount /\ OtherSlot(c) \in LedgerAccount
             /\ CashSlot(c) # OtherSlot(c) /\ OtherSlot(c)[2] # "customer_cash"
  <2>1. t \in Terms
    BY <1>1, <1>2, SubjectKnown DEF PastLock, OnPayment
  <2>2. t.customer \in Customer /\ t.merchant \in Merchant /\ t.currency \in Currency
    BY <2>1 DEF Terms
  <2> HIDE DEF t
  <2>3. CashSlot(c) = Cash(t.customer, t.currency)
    BY DEF CashSlot, t
  <2>4. \/ OtherSlot(c) = Funding(t.merchant, t.currency)
        \/ OtherSlot(c) = Receivable(t.merchant, t.currency)
    BY DEF OtherSlot, t
  <2> QED
    BY <2>1, <2>2, <2>3, <2>4 DEF Cash, Funding, Receivable, LedgerAccount
<1>3. CASE CommitCapture(c)
  <2>1. r.op = "capture" /\ PostJournal(c, CaptureLines(t), t.amount)
    BY <1>3 DEF CommitCapture, Ready
  <2>2. /\ CaptureLines(t).debit = OtherSlot(c) /\ CaptureLines(t).credit = CashSlot(c)
    BY <2>1 DEF CaptureLines, OtherSlot, CashSlot
  <2>3. t.amount \in Nat
    BY <1>2, <2>1 DEF Terms
  <2> QED
    BY <1>2, <2>1, <2>2, <2>3 DEF PostJournal
<1>4. CASE CommitRefund(c)
  <2>1. r.op = "refund" /\ PostJournal(c, RefundLines(t), r.amount)
    BY <1>4 DEF CommitRefund, Ready
  <2>2. /\ RefundLines(t).debit = CashSlot(c) /\ RefundLines(t).credit = OtherSlot(c)
    BY <2>1 DEF RefundLines, OtherSlot, CashSlot
  <2>3. r.amount \in Nat
    BY <1>1, <2>1, LabelFacts DEF RequestOK
  <2> QED
    BY <1>2, <2>1, <2>2, <2>3 DEF PostJournal
<1>5. CASE CommitFund(c)
  <2>1. /\ r.op = "fund"
        /\ PostJournal(c, FundingLines(r.merchant, r.customer, r.currency), r.amount)
    BY <1>5 DEF CommitFund, Ready
  <2>2. /\ FundingLines(r.merchant, r.customer, r.currency).debit = CashSlot(c)
        /\ FundingLines(r.merchant, r.customer, r.currency).credit = OtherSlot(c)
    BY <2>1 DEF FundingLines, OtherSlot, CashSlot, Subject, TermsOf
  <2>3. r.amount \in Nat
    BY <1>1, <2>1, LabelFacts DEF RequestOK
  <2> QED
    BY <1>2, <2>1, <2>2, <2>3 DEF PostJournal
<1>6. CASE CommitCreate(c) \/ CommitReplay(c) \/ CommitAuthorize(c)
           \/ CommitDecline(c) \/ CommitCancel(c)
  BY <1>6 DEF CommitCreate, CommitReplay, CommitAuthorize, CommitDecline,
              CommitCancel, ledger
<1> QED
  BY <1>3, <1>4, <1>5, <1>6 DEF Commit

(* While a transaction holds a customer, the customer's cash only grows.   *)
LEMMA MoneyOnlyArrives ==
    ASSUME TxInv, NEW c \in Client, Commit(c), NEW d \in Client \ {c},
           tx[d].req.op \in Paying, tx[d].pc \in PastLock \ {"customer"}
    PROVE  /\ credit'[CashSlot(d)] = credit[CashSlot(d)]
           /\ debit[CashSlot(d)] <= debit'[CashSlot(d)]
           /\ debit'[CashSlot(d)] \in Nat
<1> DEFINE p == tx[d].req.payment
<1>1. /\ Subject(d) \in Terms /\ Subject(d) = terms[p] /\ tx[d].pc # "idle"
  BY SubjectKnown DEF PastLock, Reading, Posting, Paying, OnPayment
<1>2. Holds(d, CustomerRow(Subject(d).customer))
  BY <1>1 DEF TxInv, LocksKept
<1>3. CashSlot(d) = Cash(Subject(d).customer, Subject(d).currency)
  BY DEF CashSlot
<1>4. /\ CashSlot(d) \in LedgerAccount /\ CashSlot(d)[2] = "customer_cash"
      /\ CashSlot(d)[1] = Subject(d).customer
      /\ debit[CashSlot(d)] \in Nat
  BY <1>1, <1>3, BalanceTypes DEF TxInv, Cash
<1>5. debit \in [LedgerAccount -> Nat] /\ credit \in [LedgerAccount -> Nat]
  BY Columns DEF TxInv, TypeOK
<1>6. ASSUME tx[c].req.op = "capture" PROVE CashSlot(c) # CashSlot(d)
  <2>1. tx[c].pc = "commit" /\ tx[c].pc # "idle"
    BY CommitFinishes
  <2>2. Subject(c) = terms[tx[c].req.payment] /\ CashSlot(c)[1] = Subject(c).customer
    BY <1>6, <2>1, SubjectKnown DEF PastLock, OnPayment, CashSlot, Cash
  <2>3. Holds(c, CustomerRow(Subject(c).customer))
    BY <1>6, <2>1, <2>2 DEF TxInv, LocksKept, Paying, PastLock
  <2> QED
    BY <1>2, <1>4, <2>2, <2>3, HeldByOne
<1> HIDE DEF p
<1>7. CASE UNCHANGED <<debit, credit>>
  BY <1>4, <1>7
<1>8. ASSUME NEW n \in Nat, OtherSlot(c) \in LedgerAccount,
             OtherSlot(c)[2] # "customer_cash",
             tx[c].req.op = "capture",
             debit'  = [debit  EXCEPT ![OtherSlot(c)] = @ + n],
             credit' = [credit EXCEPT ![CashSlot(c)] = @ + n]
      PROVE  /\ credit'[CashSlot(d)] = credit[CashSlot(d)]
             /\ debit'[CashSlot(d)] = debit[CashSlot(d)]
  BY <1>4, <1>5, <1>6, <1>8
<1>9. ASSUME NEW n \in Nat, CashSlot(c) \in LedgerAccount,
             OtherSlot(c)[2] # "customer_cash",
             debit'  = [debit  EXCEPT ![CashSlot(c)] = @ + n],
             credit' = [credit EXCEPT ![OtherSlot(c)] = @ + n]
      PROVE  /\ credit'[CashSlot(d)] = credit[CashSlot(d)]
             /\ debit'[CashSlot(d)] \in {debit[CashSlot(d)], debit[CashSlot(d)] + n}
  BY <1>4, <1>5, <1>9
<1>10. \A x, n \in Nat : x <= x /\ x <= x + n /\ x + n \in Nat
  OBVIOUS
<1> QED
  BY <1>4, <1>7, <1>8, <1>9, <1>10, CommitJournal

LEMMA CommitKeepsOthersBalance ==
    ASSUME TxInv, NEW c \in Client, Commit(c), NEW d \in Client \ {c}
    PROVE  BalanceOK(d)'
<1> DEFINE r == tx[d].req
           t == Subject(d)
           now == Available(t.customer, t.currency)
<1>1. BalanceOK(d) /\ tx'[d] = tx[d] /\ TypeOK
  BY CommitFlow DEF TxInv, Others
<1>2. CASE r.op \in Paying /\ tx[d].pc \in PastLock \ {"customer"}
  <2>1. /\ t \in Terms /\ tx[d].pc # "idle" /\ Subject(d)' = t
    BY <1>1, <1>2, SubjectKnown, SubjectStays, CommitPersists
       DEF PastLock, Reading, Posting
  <2>2. PICK a : a = Cash(t.customer, t.currency)
    OBVIOUS
  <2>3. /\ debit[a] \in Nat /\ credit[a] \in Nat /\ debit'[a] \in Nat
        /\ credit'[a] = credit[a] /\ debit[a] <= debit'[a]
        /\ now = debit[a] - credit[a] /\ now' = debit'[a] - credit'[a]
    <3>1. CashSlot(d) = a
      BY <2>2 DEF CashSlot
    <3>2. now' = debit'[a] - credit'[a]
      BY <2>1, <2>2 DEF Available
    <3>3. now = debit[a] - credit[a]
      BY <2>2 DEF Available
    <3> HIDE DEF now, t
    <3>4. debit[a] \in Nat /\ credit[a] \in Nat
      BY <1>1, <2>1, <2>2, BalanceTypes
    <3> QED
      BY <1>2, <3>1, <3>2, <3>3, <3>4, MoneyOnlyArrives
  <2>4. tx[d].atLock \in Int /\ tx[d].debits \in Nat /\ t.amount \in Nat
    <3>1. tx[d] \in Transaction
      BY <1>1 DEF TypeOK
    <3> QED
      BY <2>1, <3>1 DEF Transaction, Terms
  <2>5. /\ tx[d].pc \in Reading => tx[d].atLock <= now
        /\ tx[d].pc = "credits" =>
              /\ tx[d].debits <= debit[a]
              /\ tx[d].atLock <= tx[d].debits - credit[a]
        /\ tx[d].pc \in Posting \cup {"commit"} /\ tx[d].verdict = "ok" =>
              now >= t.amount
        /\ Ready(d, "authorize", "declined") => tx[d].atLock < t.amount
    BY <1>1, <1>2, <2>1, <2>2 DEF BalanceOK
  <2>6. /\ tx[d].atLock <= now => tx[d].atLock <= now'
        /\ tx[d].debits <= debit[a] => tx[d].debits <= debit'[a]
        /\ now >= t.amount => now' >= t.amount
    <3> HIDE DEF now, t
    <3> QED
      BY <2>3, <2>4
  <2>7. /\ tx[d].pc \in Reading => tx[d].atLock <= now'
        /\ tx[d].pc = "credits" =>
              /\ tx[d].debits <= debit'[a]
              /\ tx[d].atLock <= tx[d].debits - credit'[a]
        /\ tx[d].pc \in Posting \cup {"commit"} /\ tx[d].verdict = "ok" =>
              now' >= t.amount
    <3> HIDE DEF now, t
    <3> QED
      BY <2>3, <2>5, <2>6
  <2> QED
    BY <1>1, <2>1, <2>2, <2>5, <2>7 DEF BalanceOK, Ready
<1>3. CASE ~ (r.op \in Paying /\ tx[d].pc \in PastLock \ {"customer"})
  BY <1>1, <1>3 DEF BalanceOK, PastLock, Reading, Posting, Ready
<1> QED
  BY <1>2, <1>3

(* Only a create records a key, and it holds the key.                      *)
LEMMA CommitRecords ==
    ASSUME NEW c, Commit(c)
    PROVE  \/ UNCHANGED idempotency
           \/ Creating(c) /\ idempotency' = idempotency \cup {Recording(c)}
  BY DEF Commit, CommitCreate, CommitReplay, CommitAuthorize, CommitDecline,
         CommitCapture, CommitCancel, CommitRefund, CommitFund, Creating, Ready,
         Recording

LEMMA CommitKeepsOthersCreate ==
    ASSUME TxInv, NEW c \in Client, Commit(c), NEW d \in Client \ {c}
    PROVE  CreateOK(d)'
<1> DEFINE r == tx[d].req
<1>1. /\ CreateOK(d) /\ CreateOK(c) /\ LocksKept(c) /\ LocksKept(d)
      /\ tx[c].pc = "commit" /\ tx'[c].pc = "answered"
      /\ Others(c) /\ tx'[d] = tx[d] /\ UNCHANGED account
  BY CommitFlow DEF TxInv, Others
<1>2. ASSUME tx[d].pc # "idle", r.op = "create", tx[d].pc \in {"insert", "commit"},
             Recorded(r) = {}
      PROVE  Recorded(r)' = {}
  <2>1. Holds(d, KeyRow(r.merchant, r.key))
    BY <1>1, <1>2 DEF LocksKept
  <2>2. ASSUME Creating(c), Recording(c).merchant = r.merchant,
               Recording(c).key = r.key
        PROVE  FALSE
    <3>1. Holds(c, KeyRow(tx[c].req.merchant, tx[c].req.key))
      BY <1>1, <2>2 DEF LocksKept, Creating, Ready
    <3>2. tx[c].req.merchant = r.merchant /\ tx[c].req.key = r.key
      BY <2>2 DEF Recording
    <3> QED
      BY <2>1, <3>1, <3>2, HeldByOne
  <2> QED
    BY <1>1, <1>2, <2>2, CommitRecords DEF Recorded
<1>3. ASSUME Creating(d)
      PROVE  /\ status'[tx[d].new] = Absent
             /\ \A e \in Client \ {d} : Creating(e)' => tx'[e].new # tx[d].new
  <2>1. /\ tx[d].pc # "idle" /\ r.op = "create" /\ tx[d].new \in Payment
        /\ status[tx[d].new] = Absent
        /\ \A e \in Client \ {d} : Creating(e) => tx[e].new # tx[d].new
    BY <1>1, <1>3 DEF CreateOK, Creating, Ready
  <2>2. ~ Writes(c, tx[d].new)
    BY <1>1, <2>1, ReadyFacts DEF Writes
  <2>3. \A e \in Client \ {c} : Creating(e)' => Creating(e) /\ tx'[e].new = tx[e].new
    BY <1>1 DEF Others, Creating, Ready
  <2>4. ~ Creating(c)'
    BY <1>1 DEF Creating, Ready
  <2> QED
    BY <2>1, <2>2, <2>3, <2>4, CommitWrites
<1>4. Recording(d)' = Recording(d) /\ idempotency \subseteq idempotency'
  BY <1>1, CommitPersists DEF Recording, TermsOf, Persists
<1>5. Creating(d)' <=> Creating(d)
  BY <1>1 DEF Creating, Ready
<1>6. CASE tx[d].pc # "idle" /\ r.op = "create"
  <2>1. tx[d].pc = "insert" \/ Creating(d) => Recorded(r)' = {}
    BY <1>1, <1>2, <1>6 DEF CreateOK, Creating, Ready
  <2>2. Creating(d) => CustomerOf(r)'
    BY <1>1, <1>6 DEF CreateOK, CustomerOf
  <2>3. \/ tx[d].pc = "commit" /\ tx[d].verdict = "replayed"
        \/ tx[d].pc = "answered" /\ tx[d].verdict \in {"ok", "replayed"}
        => Recording(d)' \in idempotency'
    BY <1>1, <1>4, <1>6 DEF CreateOK
  <2>4. tx[d].new \in Payment \/ ~ Creating(d)
    BY <1>1, <1>6 DEF CreateOK
  <2> QED
    BY <1>1, <1>3, <1>5, <2>1, <2>2, <2>3, <2>4 DEF CreateOK
<1>7. CASE ~ (tx[d].pc # "idle" /\ r.op = "create")
  BY <1>1, <1>7 DEF CreateOK
<1> QED
  BY <1>6, <1>7

(* What was applied stays applied: the lifecycle never goes back.          *)
LEMMA StatusesAdvance ==
    ASSUME TxInv, NEW c \in Client, Commit(c), NEW p \in Payment
    PROVE  /\ status[p] \notin {Absent, "PENDING"} => status'[p] \notin {Absent, "PENDING"}
           /\ status[p] \in Settled => status'[p] \in Settled
           /\ status[p] = "CANCELLED" => status'[p] = "CANCELLED"
<1> DEFINE r == tx[c].req
<1>1. CASE ~ Writes(c, p)
  BY <1>1, CommitWrites
<1>2. CASE Creating(c) /\ p = tx[c].new
  <2>1. status[p] = Absent
    BY <1>2 DEF TxInv, CreateOK, Creating, Ready
  <2> QED
    BY <2>1 DEF Absent, Settled
<1>3. CASE r.op \in OnPayment /\ p = r.payment
  <2>1. tx[c].pc = "commit"
    BY CommitFinishes
  <2>2. /\ tx[c].row.status = status[p] /\ Permitted(r, tx[c].row)
    <3>1. tx[c].row = Row(p) /\ Permitted(r, tx[c].row)
      BY <1>3, <2>1, ReadyFacts
    <3> QED
      BY <3>1 DEF Row
  <2>3. status \in [Payment -> PaymentStatus \cup {Absent}]
    BY Columns DEF TxInv, TypeOK
  <2>4. \A s : WriteStatus(c, s) => status'[p] = s
    BY <1>3, <2>3 DEF WriteStatus
  <2>5. CASE CommitAuthorize(c) \/ CommitDecline(c)
    <3>1. status'[p] \in {"AUTHORIZED", "FAILED"} /\ r.op = "authorize"
      BY <2>4, <2>5 DEF CommitAuthorize, CommitDecline, Ready
    <3>2. MayBecome(status[p], "AUTHORIZED")
      BY <2>2, <3>1 DEF Permitted
    <3> QED
      BY <3>1, <3>2 DEF MayBecome, Allowed, Settled, Absent
  <2>6. CASE CommitCapture(c)
    <3>1. status'[p] = "CAPTURED" /\ r.op = "capture"
      BY <2>4, <2>6 DEF CommitCapture, Ready
    <3>2. MayBecome(status[p], "CAPTURED")
      BY <2>2, <3>1 DEF Permitted
    <3> QED
      BY <3>1, <3>2 DEF MayBecome, Allowed, Settled, Absent
  <2>7. CASE CommitCancel(c)
    <3>1. status'[p] = "CANCELLED" /\ r.op = "cancel"
      BY <2>4, <2>7 DEF CommitCancel, Ready
    <3>2. MayBecome(status[p], "CANCELLED")
      BY <2>2, <3>1 DEF Permitted
    <3> QED
      BY <3>1, <3>2 DEF MayBecome, Allowed, Settled, Absent
  <2>8. CASE CommitRefund(c)
    <3>1. status'[p] \in {"REFUNDED", "PARTIALLY_REFUNDED"} /\ r.op = "refund"
      BY <2>4, <2>8 DEF CommitRefund, Ready, StatusAfterRefund
    <3>2. status[p] \in Refundable
      BY <2>2, <3>1 DEF Permitted
    <3> QED
      BY <3>1, <3>2 DEF Refundable, Settled, Absent
  <2>9. ~ CommitCreate(c) /\ ~ CommitReplay(c) /\ ~ CommitFund(c)
    BY <1>3 DEF CommitCreate, CommitReplay, CommitFund, Ready, OnPayment
  <2> QED
    BY <2>5, <2>6, <2>7, <2>8, <2>9 DEF Commit
<1> QED
  BY <1>1, <1>2, <1>3 DEF Writes

LEMMA AppliedStays ==
    ASSUME TxInv, NEW c \in Client, Commit(c), NEW r, RequestOK(r), Applied(r)
    PROVE  /\ r.op = "create" => Recorded(r)' # {}
           /\ r.op = "fund" => <<"account_funding", r.customer>> \in posted'
           /\ r.op = "authorize" => status'[r.payment] \notin {Absent, "PENDING"}
           /\ r.op = "capture" => status'[r.payment] \in Settled
           /\ r.op = "cancel" => status'[r.payment] = "CANCELLED"
<1>1. idempotency \subseteq idempotency' /\ posted \subseteq posted'
  BY CommitPersists DEF Persists
<1>2. r.op \in OnPayment => r.payment \in Payment
  BY DEF RequestOK
<1>3. /\ r.op = "create" => Recorded(r) # {}
      /\ r.op = "fund" => <<"account_funding", r.customer>> \in posted
      /\ r.op = "authorize" => status[r.payment] \notin {Absent, "PENDING"}
      /\ r.op = "capture" => status[r.payment] \in Settled
      /\ r.op = "cancel" => status[r.payment] = "CANCELLED"
  BY DEF Applied
<1>4. Recorded(r) \subseteq Recorded(r)'
  BY <1>1 DEF Recorded
<1> QED
  BY <1>1, <1>2, <1>3, <1>4, StatusesAdvance DEF OnPayment

LEMMA CommitKeepsOthersApplied ==
    ASSUME TxInv, NEW c \in Client, Commit(c), NEW d \in Client \ {c}
    PROVE  AppliedOnce(d)'
<1>1. AppliedOnce(d) /\ tx'[d] = tx[d]
  BY CommitFlow DEF TxInv, Others
<1>2. CASE tx[d].pc # "idle" /\ tx[d].applied > 0
  <2>1. RequestOK(tx[d].req) /\ Applied(tx[d].req)
    BY <1>1, <1>2, LabelFacts DEF AppliedOnce
  <2>2. Applied(tx[d].req)'
    BY <1>1, <2>1, AppliedStays DEF Applied, Recorded
  <2> QED
    BY <1>1, <1>2, <2>2 DEF AppliedOnce
<1>3. CASE ~ (tx[d].pc # "idle" /\ tx[d].applied > 0)
  BY <1>1, <1>3 DEF AppliedOnce
<1> QED
  BY <1>2, <1>3

-----------------------------------------------------------------------------
(* What its own commit leaves a transaction with.                          *)
LEMMA CommitKeepsOwnCreate ==
    ASSUME TxInv, NEW c \in Client, Commit(c)
    PROVE  CreateOK(c)'
<1> DEFINE r == tx[c].req
<1>1. /\ CreateOK(c) /\ tx[c].pc = "commit" /\ tx'[c].pc = "answered"
      /\ tx'[c].req = r /\ tx'[c].new = tx[c].new /\ tx'[c].verdict = tx[c].verdict
  BY CommitFlow DEF TxInv, Keeps
<1>2. Recording(c)' = Recording(c)
  BY <1>1 DEF Recording, TermsOf
<1>3. CASE r.op = "create" /\ tx[c].verdict = "ok"
  <2>1. CommitCreate(c)
    BY <1>3 DEF Commit, CommitCreate, CommitReplay, CommitAuthorize, CommitDecline,
                CommitCapture, CommitCancel, CommitRefund, CommitFund, Ready
  <2>2. Recording(c) \in idempotency'
    BY <2>1 DEF CommitCreate, Recording
  <2> QED
    BY <1>1, <1>2, <2>2 DEF CreateOK, Creating, Ready
<1>4. CASE r.op = "create" /\ tx[c].verdict = "replayed"
  <2>1. Recording(c) \in idempotency /\ idempotency \subseteq idempotency'
    BY <1>1, <1>4, CommitPersists DEF CreateOK, Persists
  <2> QED
    BY <1>1, <1>2, <2>1 DEF CreateOK, Creating, Ready
<1>5. CASE ~ (r.op = "create" /\ tx[c].verdict \in {"ok", "replayed"})
  BY <1>1, <1>5 DEF CreateOK, Creating, Ready
<1> QED
  BY <1>3, <1>4, <1>5

LEMMA CommitKeepsOwnApplied ==
    ASSUME TxInv, NEW c \in Client, Commit(c)
    PROVE  AppliedOnce(c)'
<1> DEFINE r == tx[c].req
<1>1. /\ AppliedOnce(c) /\ tx[c].pc = "commit" /\ tx[c].pc # "idle"
      /\ tx'[c].pc = "answered" /\ tx'[c].req = r
      /\ \E n \in {0, 1} : tx'[c].applied = tx[c].applied + n
  BY CommitFlow DEF TxInv, Keeps
<1>2. tx[c].applied \in Nat
  BY DEF TxInv, TypeOK, Transaction
<1>3. tx[c].applied > 0 => Applied(r) /\ (r.op # "refund" => tx[c].applied = 1)
  BY <1>1 DEF AppliedOnce
<1>4. RequestOK(r) /\ r.op \in {"create", "fund", "authorize", "capture", "cancel", "refund"}
  BY <1>1, LabelFacts
<1>5. r.op \in OnPayment =>
          /\ r.payment \in Payment /\ tx[c].row.status = status[r.payment]
          /\ Permitted(r, tx[c].row)
  <2> HAVE r.op \in OnPayment
  <2>1. r.payment \in Payment /\ tx[c].row = Row(r.payment) /\ Permitted(r, tx[c].row)
    BY <1>1, ReadyFacts
  <2> QED
    BY <2>1 DEF Row
<1>6. status \in [Payment -> PaymentStatus \cup {Absent}]
  BY Columns DEF TxInv, TypeOK
<1>7. CASE CommitReplay(c)
  <2>1. tx'[c].applied = tx[c].applied /\ r.op = "create"
    <3>1. Finish(c, 0) /\ r.op = "create"
      BY <1>7 DEF CommitReplay, Ready
    <3>2. tx'[c].applied = tx[c].applied + 0
      BY <3>1, FinishEffect DEF TxInv
    <3> QED
      BY <1>2, <3>1, <3>2
  <2>2. Applied(r) => Applied(r)'
    BY <1>1, <1>4, AppliedStays DEF Applied, Recorded
  <2> QED
    BY <1>1, <1>3, <2>1, <2>2 DEF AppliedOnce
<1>8. ASSUME ~ CommitReplay(c), r.op # "refund"
      PROVE  ~ Applied(r) /\ Applied(r)'
  <2>1. CASE CommitCreate(c)
    <3>1. r.op = "create" /\ Creating(c) /\ Recorded(r) = {}
      BY <1>1, <2>1 DEF CommitCreate, Creating, Ready, TxInv, CreateOK
    <3>2. Recording(c) \in idempotency'
      BY <2>1 DEF CommitCreate, Recording
    <3>3. Recording(c).merchant = r.merchant /\ Recording(c).key = r.key
      BY DEF Recording
    <3>4. Recorded(r)' # {}
      BY <1>1, <3>2, <3>3 DEF Recorded
    <3> QED
      BY <1>1, <3>1, <3>4 DEF Applied, Recorded
  <2>2. CASE CommitFund(c)
    <3>1. /\ r.op = "fund" /\ References(c) = {<<"account_funding", r.customer>>}
          /\ References(c) \cap posted = {} /\ posted' = posted \cup References(c)
      BY <1>1, <2>2 DEF CommitFund, Ready, TxInv, FundOK, References, PostJournal
    <3> QED
      BY <1>1, <3>1 DEF Applied
  <2>3. CASE CommitAuthorize(c) \/ CommitDecline(c)
    <3>1. /\ r.op = "authorize" /\ r.payment \in Payment
          /\ MayBecome(status[r.payment], "AUTHORIZED")
          /\ status'[r.payment] \in {"AUTHORIZED", "FAILED"}
      BY <1>5, <1>6, <2>3 DEF CommitAuthorize, CommitDecline, Ready, OnPayment,
                              Permitted, WriteStatus
    <3> QED
      BY <1>1, <3>1 DEF Applied, MayBecome, Allowed, Absent
  <2>4. CASE CommitCapture(c)
    <3>1. /\ r.op = "capture" /\ r.payment \in Payment
          /\ MayBecome(status[r.payment], "CAPTURED")
          /\ status'[r.payment] = "CAPTURED"
      BY <1>5, <1>6, <2>4 DEF CommitCapture, Ready, OnPayment, Permitted, WriteStatus
    <3> QED
      BY <1>1, <3>1 DEF Applied, MayBecome, Allowed, Settled
  <2>5. CASE CommitCancel(c)
    <3>1. /\ r.op = "cancel" /\ r.payment \in Payment
          /\ MayBecome(status[r.payment], "CANCELLED")
          /\ status'[r.payment] = "CANCELLED"
      BY <1>5, <1>6, <2>5 DEF CommitCancel, Ready, OnPayment, Permitted, WriteStatus
    <3> QED
      BY <1>1, <3>1 DEF Applied, MayBecome, Allowed
  <2>6. ~ CommitRefund(c)
    BY <1>8 DEF CommitRefund, Ready
  <2> QED
    BY <1>8, <2>1, <2>2, <2>3, <2>4, <2>5, <2>6 DEF Commit
<1>9. CASE ~ CommitReplay(c) /\ r.op # "refund"
  <2>1. ~ Applied(r) /\ Applied(r)'
    BY <1>8, <1>9
  <2>2. tx[c].applied = 0
    BY <1>2, <1>3, <2>1
  <2>3. tx'[c].applied \in {0, 1}
    BY <1>1, <2>2
  <2>4. tx'[c].applied > 0 => tx'[c].applied = 1
    BY <2>3
  <2> HIDE DEF r
  <2> QED
    BY <1>1, <2>1, <2>4 DEF AppliedOnce, r
<1>10. CASE r.op = "refund"
  BY <1>1, <1>10 DEF AppliedOnce, Applied
<1> QED
  BY <1>7, <1>9, <1>10

(* An account with entries has its row: the commit ensured both.           *)
LEMMA CommitKeepsSlots ==
    ASSUME TxInv, NEW c \in Client, Commit(c)
    PROVE  EmptyWithoutRow' /\ slots' \subseteq LedgerAccount
<1>1. PICK n \in {0, 1} : Finish(c, n)
  BY CommitFinishes
<1>2. /\ slots' = slots \cup
             {a \in LedgerAccount : Lock(c, SlotRow(a), "update") \in locks}
      /\ slots \subseteq LedgerAccount /\ EmptyWithoutRow /\ tx[c].pc = "commit"
      /\ LocksKept(c)
  BY <1>1, CommitFinishes DEF Finish, TxInv, TypeOK
<1>3. debit \in [LedgerAccount -> Nat] /\ credit \in [LedgerAccount -> Nat]
  BY Columns DEF TxInv, TypeOK
<1>4. CASE UNCHANGED <<debit, credit>>
  BY <1>2, <1>4 DEF EmptyWithoutRow
<1>5. CASE ~ UNCHANGED <<debit, credit>>
  <2>1. /\ tx[c].req.op \in {"fund", "capture", "refund"}
        /\ CashSlot(c) \in LedgerAccount /\ OtherSlot(c) \in LedgerAccount
    BY <1>5, CommitJournal
  <2>2. CashSlot(c) \in slots' /\ OtherSlot(c) \in slots'
    BY <1>2, <2>1 DEF LocksKept, Ensured, Holds
  <2>3. \A a \in LedgerAccount \ {CashSlot(c), OtherSlot(c)} :
           debit'[a] = debit[a] /\ credit'[a] = credit[a]
    BY <1>3, <1>5, CommitJournal
  <2> QED
    BY <1>2, <2>2, <2>3 DEF EmptyWithoutRow
<1> QED
  BY <1>2, <1>4, <1>5

-----------------------------------------------------------------------------
(* The invariant is inductive.                                             *)
LEMMA SentStays ==
    ASSUME TypeOK, NEW c, Calls(c)
    PROVE  sent' \in 0..MaxRequests
<1>1. sent \in 0..MaxRequests
  BY DEF TypeOK
<1>2. \A v : Refuse(c, v) => UNCHANGED sent
  BY DEF Refuse
<1>3. \A b : Judge(c, b) => UNCHANGED sent
  BY <1>2 DEF Judge
<1>4. \A s, n : Ensure(c, s, n) => UNCHANGED sent
  BY DEF Ensure
<1>5. CASE Send(c)
  BY <1>1, <1>5 DEF Send
<1>6. CASE Abort(c) \/ LoseAnswer(c) \/ Retry(c) \/ Done(c)
           \/ ClaimKey(c) \/ InsertPayment(c) \/ LockPayment(c) \/ LockCustomer(c)
           \/ SumDebits(c) \/ LockAccount(c) \/ InsertJournal(c)
  BY <1>1, <1>6 DEF Abort, LoseAnswer, Retry, Done, ClaimKey, InsertPayment,
                    LockPayment, LockCustomer, SumDebits, LockAccount, InsertJournal
<1>7. CASE KeyConflict(c) \/ CustomerNotFound(c) \/ NotPermitted(c) \/ NotFundable(c)
           \/ JournalExists(c)
  BY <1>1, <1>2, <1>7 DEF KeyConflict, CustomerNotFound, NotPermitted, NotFundable,
                          JournalExists
<1>8. CASE FindCashAccount(c) \/ SumCredits(c)
  BY <1>1, <1>3, <1>8 DEF FindCashAccount, SumCredits
<1>9. CASE EnsureCash(c) \/ EnsureOther(c)
  BY <1>1, <1>4, <1>9 DEF EnsureCash, EnsureOther
<1> QED
  BY <1>5, <1>6, <1>7, <1>8, <1>9 DEF Calls

LEMMA CallKeepsTxInv ==
    ASSUME TxInv, NEW c \in Client, Calls(c), Serial!IInv'
    PROVE  TxInv'
<1>1. Flow(c) /\ Others(c) /\ (Ends(c) \/ Starts(c) \/ GoesOn(c))
  BY CallsFlow DEF Flow
<1>2. Quiet /\ Persists
  BY CallsAreQuiet DEF Quiet
<1>3. /\ Exclusive' /\ LocksInOrder'
      /\ \A l \in locks' : l.by \in Client /\ l.mode \in {"update", "share"}
      /\ \A l \in locks : l.by # c => l \in locks'
  BY <1>1, LocksFlow
<1>4. TypeOK'
  <2>1. Serial!TypeOK'
    BY DEF Serial!IInv
  <2>2. slots' \subseteq LedgerAccount
    BY <1>2 DEF Quiet, TxInv, TypeOK
  <2>3. sent' \in 0..MaxRequests
    BY SentStays DEF TxInv
  <2> QED
    BY <1>1, <1>3, <2>1, <2>2, <2>3 DEF TypeOK, Others, LedgerAccount, Transaction,
       AnyRequest
<1>5. EmptyWithoutRow'
  BY <1>2 DEF Quiet, TxInv, EmptyWithoutRow
<1>6. BackstopIsSilent'
  <2> SUFFICES ASSUME NEW d \in Client, tx'[d].req # None,
                      tx'[d].req.op = "capture"
               PROVE  tx'[d].verdict # "duplicate"
    BY DEF BackstopIsSilent
  <2> QED
    BY <1>1, CallKeepsBackstop DEF Others, TxInv, BackstopIsSilent
<1>7. ASSUME NEW d \in Client \ {c}
      PROVE  /\ InControl(d)' /\ LocksKept(d)' /\ CreateOK(d)' /\ DataOK(d)'
  <2>1. tx'[d] = tx[d]
    BY <1>1 DEF Others
  <2>2. \A l \in locks : l.by = d => l \in locks'
    BY <1>3
  <2>3. InControl(d)' /\ LocksKept(d)'
    BY <1>2, <2>1, <2>2, InControlStays, LocksKeptStays
  <2>4. CreateOK(d)'
    BY CallKeepsOthersCreate
  <2>5. DataOK(d)'
    BY <1>2, <2>1, QuietKeepsData
  <2> QED
    BY <2>3, <2>4, <2>5
<1>8. InControl(c)' /\ LocksKept(c)' /\ CreateOK(c)' /\ DataOK(c)'
  <2>1. InControl(c)' /\ LocksKept(c)'
    BY <1>1, <1>2, FlowInControl, LocksKeptByCall
  <2>2. CreateOK(c)'
    BY CallKeepsCreate
  <2>3. DataOK(c)'
    BY CallKeepsRow, CallKeepsFund, CallKeepsBalance, CallKeepsApplied DEF DataOK
  <2> QED
    BY <2>1, <2>2, <2>3
<1> QED
  BY <1>3, <1>4, <1>5, <1>6, <1>7, <1>8 DEF TxInv, DataOK

LEMMA CommitKeepsTxInv ==
    ASSUME TxInv, NEW c \in Client, Commit(c), Serial!IInv'
    PROVE  TxInv'
<1>1. /\ Others(c) /\ Ends(c) /\ tx'[c].pc = "answered" /\ UNCHANGED sent
      /\ Keeps(c, {"row", "debits", "atLock", "applied"}) /\ tx[c].pc # "idle"
  BY CommitFlow
<1>2. Persists
  BY CommitPersists
<1>3. /\ Exclusive' /\ LocksInOrder'
      /\ \A l \in locks' : l.by \in Client /\ l.mode \in {"update", "share"}
      /\ \A l \in locks : l.by # c => l \in locks'
  BY <1>1, LocksFlow
<1>4. EmptyWithoutRow' /\ slots' \subseteq LedgerAccount
  BY CommitKeepsSlots
<1>5. TypeOK'
  <2>1. Serial!TypeOK'
    BY DEF Serial!IInv
  <2>2. sent' \in 0..MaxRequests
    BY <1>1 DEF TxInv, TypeOK
  <2> QED
    BY <1>1, <1>3, <1>4, <2>1, <2>2 DEF TypeOK, Others, LedgerAccount, Transaction,
       AnyRequest
<1>6. BackstopIsSilent'
  BY <1>1 DEF Others, Keeps, TxInv, BackstopIsSilent
<1>7. ASSUME NEW d \in Client \ {c}
      PROVE  /\ InControl(d)' /\ LocksKept(d)' /\ CreateOK(d)' /\ RowCurrent(d)'
             /\ FundOK(d)' /\ BalanceOK(d)' /\ AppliedOnce(d)'
  <2>1. tx'[d] = tx[d]
    BY <1>1 DEF Others
  <2>2. \A l \in locks : l.by = d => l \in locks'
    BY <1>3
  <2>3. InControl(d)' /\ LocksKept(d)'
    BY <1>2, <2>1, <2>2, InControlStays, LocksKeptStays
  <2>4. CreateOK(d)'
    BY CommitKeepsOthersCreate
  <2>5. RowCurrent(d)' /\ FundOK(d)' /\ BalanceOK(d)' /\ AppliedOnce(d)'
    BY CommitKeepsOthersRow, CommitKeepsOthersFund, CommitKeepsOthersBalance,
       CommitKeepsOthersApplied
  <2> QED
    BY <2>3, <2>4, <2>5
<1>8. /\ InControl(c)' /\ LocksKept(c)' /\ CreateOK(c)' /\ RowCurrent(c)'
      /\ FundOK(c)' /\ BalanceOK(c)' /\ AppliedOnce(c)'
  <2>1. RequestOK(tx[c].req)
    BY <1>1, LabelFacts
  <2>2. RequestOK(tx[c].req)'
    BY <1>1, <1>2, <2>1, RequestStays DEF Keeps
  <2>3. InControl(c)'
    BY <1>1, <2>2 DEF InControl, Labels
  <2>4. LocksKept(c)' /\ FundOK(c)' /\ BalanceOK(c)' /\ RowCurrent(c)'
    BY <1>1 DEF LocksKept, FundOK, BalanceOK, RowCurrent, PastLock, Reading, Posting,
                Ready
  <2>5. CreateOK(c)' /\ AppliedOnce(c)'
    BY CommitKeepsOwnCreate, CommitKeepsOwnApplied
  <2> QED
    BY <2>3, <2>4, <2>5
<1> QED
  BY <1>3, <1>4, <1>5, <1>6, <1>7, <1>8 DEF TxInv

LEMMA QuietKeepsTxInv ==
    ASSUME TxInv, Quiet, UNCHANGED <<locks, tx, sent>>, Serial!IInv'
    PROVE  TxInv'
<1>1. Exclusive' /\ LocksInOrder'
      /\ \A l \in locks' : l.by \in Client /\ l.mode \in {"update", "share"}
  BY RegisterLocks
<1>2. TypeOK'
  <2>1. Serial!TypeOK'
    BY DEF Serial!IInv
  <2> QED
    BY <1>1, <2>1 DEF TxInv, TypeOK, Quiet, LedgerAccount, Transaction, AnyRequest
<1>3. EmptyWithoutRow' /\ BackstopIsSilent'
  BY DEF TxInv, EmptyWithoutRow, BackstopIsSilent, Quiet
<1>4. ASSUME NEW d \in Client
      PROVE  InControl(d)' /\ LocksKept(d)' /\ CreateOK(d)' /\ DataOK(d)'
  <2>1. InControl(d)' /\ LocksKept(d)' /\ DataOK(d)'
    BY InControlStays, LocksKeptStays, QuietKeepsData DEF Quiet
  <2>2. Creating(d) => \A e \in Client \ {d} : Creating(e)' => tx'[e].new # tx[d].new
    BY DEF TxInv, CreateOK, Creating, Ready
  <2> QED
    BY <2>1, <2>2, QuietKeepsCreate
<1> QED
  BY <1>1, <1>2, <1>3, <1>4 DEF TxInv, DataOK

LEMMA TxInvStep == TxInv /\ [Next]_vars => TxInv'
<1> SUFFICES ASSUME TxInv, [Next]_vars PROVE TxInv'
  OBVIOUS
<1>1. Serial!IInv'
  BY StepIsSerial, SerialStepKeepsIInv DEF TxInv
<1>2. CASE UNCHANGED vars
  <2>1. Quiet /\ UNCHANGED <<locks, tx, sent>>
    BY <1>2 DEF vars, database, payment, ledger, Quiet, Persists
  <2> QED
    BY <1>1, <2>1, QuietKeepsTxInv
<1>3. CASE Register
  <2>1. Quiet /\ UNCHANGED <<locks, tx, sent>>
    BY <1>3, RegisterPersists DEF TxInv, Quiet
  <2> QED
    BY <1>1, <2>1, QuietKeepsTxInv
<1> QED
  BY <1>1, <1>2, <1>3, StepCases, CallKeepsTxInv, CommitKeepsTxInv

LEMMA TxInvInit == Init => TxInv
<1> SUFFICES ASSUME Init PROVE TxInv
  OBVIOUS
<1>1. /\ Serial!IInv /\ slots = {} /\ locks = {} /\ sent = 0
      /\ tx = [c \in Client |-> Idle]
  BY SerialInitHasIInv DEF Init
<1>2. TypeOK
  BY <1>1, IdleTyped DEF TypeOK, Serial!IInv
<1>3. debit = [a \in LedgerAccount |-> 0] /\ credit = [a \in LedgerAccount |-> 0]
  BY DEF Init, Serial!Init, Serial!LedgerAccount, LedgerAccount
<1>4. /\ Exclusive /\ LocksInOrder /\ EmptyWithoutRow
  BY <1>1, <1>3 DEF Exclusive, LocksInOrder, EmptyWithoutRow
<1>5. ASSUME NEW c \in Client
      PROVE  /\ tx[c].pc = "idle" /\ tx[c].row = NoRow /\ tx[c].applied = 0
             /\ tx[c].verdict = "none"
  BY <1>1 DEF Idle
<1>6. BackstopIsSilent
  BY <1>5 DEF BackstopIsSilent
<1>7. ASSUME NEW c \in Client
      PROVE  /\ InControl(c) /\ LocksKept(c) /\ RowCurrent(c) /\ CreateOK(c)
             /\ FundOK(c) /\ BalanceOK(c) /\ AppliedOnce(c)
  BY <1>5 DEF InControl, LocksKept, RowCurrent, CreateOK, FundOK, BalanceOK,
              AppliedOnce, PastLock, Reading, Posting
<1> QED
  BY <1>1, <1>2, <1>4, <1>6, <1>7 DEF TxInv

THEOREM TxInvariant == Spec => []TxInv
  BY TxInvInit, TxInvStep, PTL DEF Spec

-----------------------------------------------------------------------------
(* What the runs check of the concurrent handlers, for every set of        *)
(* clients, ids, keys and amounts and every bound on requests and retries. *)

(* Transactions and locks stay well formed.                                *)
THEOREM TxTypes == Spec => []TypeOK
<1>1. TxInv => TypeOK
  BY DEF TxInv
<1> QED
  BY <1>1, TxInvariant, PTL

(* Every step of the concurrent handlers is a serial operation or none.    *)
THEOREM StepsSerial == Spec => StepsAreSerial
<1>1. TxInv /\ [Next]_vars => [Serial!Next]_(Serial!vars)
  BY StepIsSerial
<1> QED
  BY <1>1, TxInvariant, PTL DEF Spec, StepsAreSerial

(* Whatever the interleaving, the aborts and the retries, what the         *)
(* handlers commit is a serial execution of the operations of Payments.    *)
THEOREM HandlersAreSerial == Spec => ImplementsSerial
<1>1. Init => Serial!Init
  BY DEF Init
<1>2. TxInv /\ [Next]_vars => [Serial!Next]_(Serial!vars)
  BY StepIsSerial
<1> QED
  BY <1>1, <1>2, TxInvariant, PTL DEF Spec, ImplementsSerial, Serial!Spec

(* Concurrent captures, refunds and retries never overdraw a customer.     *)
THEOREM NeverOverdrawnConcurrently == Spec => []Serial!NoOverdraft
<1>1. TxInv => Serial!NoOverdraft
  BY DEF TxInv, Serial!IInv
<1> QED
  BY <1>1, TxInvariant, PTL

(* Concurrent partial refunds never return more than was captured: none    *)
(* overwrites another's refunded_amount_minor.                             *)
THEOREM RefundsAddUp == Spec => []Serial!AmountsMatchStatus
<1>1. TxInv => Serial!AmountsMatchStatus
  BY DEF TxInv, Serial!IInv
<1> QED
  BY <1>1, TxInvariant, PTL

(* Concurrent creates under one key, and retries of them, make one payment. *)
THEOREM OnePaymentPerKey == Spec => []Serial!OneKeyOnePayment
<1>1. TxInv => Serial!OneKeyOnePayment
  BY DEF TxInv, Serial!IInv
<1> QED
  BY <1>1, TxInvariant, PTL

(* However the handlers interleave, a payment is settled only in the       *)
(* currency of its customer's account.                                     *)
THEOREM SettledInCurrencyConcurrently == Spec => []Serial!SettledInAccountCurrency
<1>1. TxInv => Serial!SettledInAccountCurrency
  BY DEF TxInv, Serial!IInv
<1> QED
  BY <1>1, TxInvariant, PTL

(* However the handlers interleave, a payment has a capture journal        *)
(* exactly when it is settled.                                             *)
THEOREM CapturedOnceConcurrently == Spec => []Serial!CaptureJournalMatchesStatus
<1>1. TxInv => Serial!CaptureJournalMatchesStatus
  BY DEF TxInv, Serial!IInv
<1> QED
  BY <1>1, TxInvariant, PTL

(* However the handlers interleave, every payment is born PENDING and only *)
(* moves along _ALLOWED.                                                   *)
THEOREM LifecycleRespectedConcurrently == Spec => Serial!LifecycleRespected
<1>1. TxInv /\ [Next]_vars => [Serial!LifecycleStep]_(Serial!vars)
  BY StepIsSerial, SerialStepMoves DEF TxInv
<1> QED
  BY <1>1, TxInvariant, PTL DEF Spec, Serial!LifecycleRespected

(* Whatever the interleaving of captures, refunds and retries, the ledger  *)
(* and the payments tell the same story: what merchants are owed is what   *)
(* payments have captured and not refunded, and no funded unit is lost.    *)
THEOREM LedgerAgreesConcurrently == Spec => []Serial!LedgerMatchesPayments
<1>1. Init => Carried
  BY SerialInitCarries DEF Init
<1>2. TxInv /\ Carried /\ [Next]_vars => Carried'
  BY StepIsSerial, SerialStepCarries
<1> QED
  BY <1>1, <1>2, TxInvariant, CarriedAgrees, PTL DEF Spec

(* However the handlers interleave, the events of a payment, replayed in   *)
(* the order of the outbox, rebuild the row they were written beside.      *)
THEOREM EventsReplayConcurrently == Spec => []Serial!EventsReplayToRow
<1>1. Init => Carried
  BY SerialInitCarries DEF Init
<1>2. TxInv /\ Carried /\ [Next]_vars => Carried'
  BY StepIsSerial, SerialStepCarries
<1>3. Carried => Serial!EventsReplayToRow
  BY DEF Carried
<1> QED
  BY <1>1, <1>2, <1>3, TxInvariant, PTL DEF Spec

(* The row payment_for_update returned is the committed one until the      *)
(* transaction commits: the FOR UPDATE lock prevents lost updates.         *)
THEOREM NoLostUpdate == Spec => []RowReadIsCurrent
<1>1. ASSUME TxInv, NEW c \in Client, InTransaction(c), tx[c].row # NoRow
      PROVE  tx[c].row = Row(tx[c].req.payment)
  BY <1>1 DEF TxInv, RowCurrent, InTransaction
<1>2. TxInv => RowReadIsCurrent
  BY <1>1 DEF RowReadIsCurrent
<1> QED
  BY <1>2, TxInvariant, PTL

(* The two sums of available_balance, read at different times, lie between *)
(* the balance at the lock and the present one.                            *)
THEOREM BalanceReads == Spec => []BalanceReadIsSafe
<1>1. ASSUME TxInv, NEW c \in Client, tx[c].pc = "credits"
      PROVE  tx[c].debits - credit[CashSlot(c)]
                \in tx[c].atLock..Available(Subject(c).customer, Subject(c).currency)
  <2> DEFINE cash == Cash(Subject(c).customer, Subject(c).currency)
  <2>1. tx[c].pc \in Reading /\ tx[c].pc \in PastLock /\ tx[c].pc # "idle"
    BY <1>1 DEF Reading, PastLock
  <2>2. tx[c].req.op \in Paying
    BY <2>1, LabelFacts, <1>1
  <2>3. Subject(c) \in Terms
    BY <2>1, <1>1, SubjectKnown
  <2>4. debit[cash] \in Nat /\ credit[cash] \in Nat
    BY <2>3, <1>1, BalanceTypes DEF TxInv
  <2>5. tx[c].debits \in Nat /\ tx[c].atLock \in Int
    BY <1>1 DEF TxInv, TypeOK, Transaction
  <2>6. /\ tx[c].debits <= debit[cash]
        /\ tx[c].atLock <= tx[c].debits - credit[cash]
    BY <2>1, <2>2, <1>1 DEF TxInv, BalanceOK
  <2>7. Available(Subject(c).customer, Subject(c).currency) = debit[cash] - credit[cash]
    BY DEF Available
  <2>8. CashSlot(c) = cash
    BY DEF CashSlot
  <2> HIDE DEF cash
  <2> QED
    BY <2>4, <2>5, <2>6, <2>7, <2>8
<1>2. TxInv => BalanceReadIsSafe
  BY <1>1 DEF BalanceReadIsSafe
<1> QED
  BY <1>2, TxInvariant, PTL

(* From the balance check to the commit of an authorization or a capture,  *)
(* nobody can take the money the transaction saw.                          *)
THEOREM FundsStay == Spec => []FundsStillThere
<1>1. ASSUME TxInv, NEW c \in Client,
             tx[c].pc \in {"cash", "other", "journal", "commit"},
             tx[c].req.op \in {"authorize", "capture"}, tx[c].verdict = "ok"
      PROVE  Available(Subject(c).customer, Subject(c).currency) >= Subject(c).amount
  BY <1>1 DEF TxInv, BalanceOK, Paying, Posting
<1>2. TxInv => FundsStillThere
  BY <1>1 DEF FundsStillThere
<1> QED
  BY <1>2, TxInvariant, PTL

(* authorize_payment declines only a customer who was short of money when  *)
(* the transaction locked the customer's row.                              *)
THEOREM DeclinesAreJustified == Spec => []DeclineIsJustified
<1>1. ASSUME TxInv, NEW c \in Client, Ready(c, "authorize", "declined")
      PROVE  tx[c].atLock < Subject(c).amount
  BY <1>1 DEF TxInv, BalanceOK, Paying, Ready
<1>2. TxInv => DeclineIsJustified
  BY <1>1 DEF DeclineIsJustified
<1> QED
  BY <1>2, TxInvariant, PTL

(* PAYMENT_ALREADY_CAPTURED is never reached through the unique key of the *)
(* journal: the payment's lock and status stop a second capture first.     *)
THEOREM BackstopStaysSilent == Spec => []BackstopIsSilent
<1>1. TxInv => BackstopIsSilent
  BY DEF TxInv
<1> QED
  BY <1>1, TxInvariant, PTL

(* An answer of create_payment names the payment recorded under the        *)
(* request's own key, with the request's own terms, also after a replay.   *)
THEOREM AnswersMatchRecords == Spec => []AnswerMatchesRecord
<1>1. ASSUME TxInv, NEW c \in Client, tx[c].pc = "answered",
             tx[c].verdict \in {"ok", "replayed"}, tx[c].req.op = "create"
      PROVE  [merchant |-> tx[c].req.merchant, key |-> tx[c].req.key,
              fingerprint |-> TermsOf(tx[c].req), payment |-> tx[c].new]
                \in idempotency
  BY <1>1 DEF TxInv, CreateOK, Recording
<1>2. TxInv => AnswerMatchesRecord
  BY <1>1 DEF AnswerMatchesRecord
<1> QED
  BY <1>2, TxInvariant, PTL

(* However often a client retries a create, a funding, an authorization, a *)
(* capture or a cancellation, it takes effect at most once.                *)
THEOREM RetriesAreAbsorbed == Spec => []OnlyRefundsRepeat
<1>1. ASSUME TxInv, NEW c \in Client, tx[c].applied > 1
      PROVE  tx[c].req.op = "refund"
  <2>1. AppliedOnce(c) /\ tx[c].applied \in Nat
    BY <1>1 DEF TxInv, TypeOK, Transaction
  <2> QED
    BY <1>1, <2>1 DEF AppliedOnce
<1>2. TxInv => OnlyRefundsRepeat
  BY <1>1 DEF OnlyRefundsRepeat
<1> QED
  BY <1>2, TxInvariant, PTL

(* The handlers never lock each other out: in every set of clients there   *)
(* is one that waits for none of the others.                               *)
THEOREM LocksNeverCycle == Spec => []NoDeadlock
  BY NoDeadlockHolds, TxInvariant, PTL

-----------------------------------------------------------------------------
(* What liveness rests on beside NoDeadlock: statements come to an end.    *)

Stage(pc) == CASE pc \in {"claim", "payment", "account"} -> 1
               [] pc \in {"insert", "customer"} -> 2
               [] pc = "accounts" -> 3
               [] pc = "debits" -> 4
               [] pc = "credits" -> 5
               [] pc = "cash" -> 6
               [] pc = "other" -> 7
               [] pc = "journal" -> 8
               [] OTHER -> 9

(* No handler loops: each statement either ends its transaction or takes   *)
(* it to a later stage, of nine.                                           *)
StatementsAdvance ==
    [][\A c \in Client : InTransaction(c) /\ tx'[c] # tx[c] =>
          \/ tx'[c].pc \in Outside
          \/ Stage(tx'[c].pc) > Stage(tx[c].pc)]_vars

(* Row locks are kept to the end of the transaction: nobody gives one back *)
(* before, and nobody keeps one after.                                     *)
LockUntilTheEnd ==
    [][\A l \in locks : l \in locks' \/ tx'[l.by].pc \in Outside]_vars

LEMMA StepFlows ==
    ASSUME TxInv, NEW c \in Client, Calls(c) \/ Commit(c)
    PROVE  Others(c) /\ (Ends(c) \/ Starts(c) \/ GoesOn(c))
  BY CallsFlow, CommitFlow DEF Flow

LEMMA ForwardIsLater ==
    ASSUME NEW f, NEW g, <<f, g>> \in Forward
    PROVE  Stage(g) > Stage(f)
  BY DEF Forward, Stage

(* A handler executes at most nine statements per attempt.                 *)
THEOREM StatementsComeToAnEnd == Spec => StatementsAdvance
<1>1. ASSUME TxInv, [Next]_vars, NEW c \in Client, InTransaction(c), tx'[c] # tx[c]
      PROVE  tx'[c].pc \in Outside \/ Stage(tx'[c].pc) > Stage(tx[c].pc)
  <2>1. PICK d \in Client : Calls(d) \/ Commit(d)
    BY <1>1, StepCases DEF vars, Register
  <2>2. d = c /\ (Ends(c) \/ Starts(c) \/ GoesOn(c))
    BY <1>1, <2>1, StepFlows DEF Others
  <2>3. ~ Starts(c)
    BY <1>1 DEF Starts, InTransaction
  <2> QED
    BY <2>2, <2>3, ForwardIsLater DEF Ends, GoesOn
<1>2. TxInv /\ [Next]_vars
      => [\A c \in Client : InTransaction(c) /\ tx'[c] # tx[c] =>
             \/ tx'[c].pc \in Outside
             \/ Stage(tx'[c].pc) > Stage(tx[c].pc)]_vars
  BY <1>1
<1> QED
  BY <1>2, TxInvariant, PTL DEF Spec, StatementsAdvance

(* The handlers' row locks are taken and given back in two phases, the     *)
(* second of which is the end of the transaction.                          *)
THEOREM LocksAreTwoPhase ==
    Spec => /\ LockUntilTheEnd
            /\ [](\A l \in locks : tx[l.by].pc \notin Outside)
<1>1. ASSUME TxInv, [Next]_vars, NEW l \in locks
      PROVE  l \in locks' \/ tx'[l.by].pc \in Outside
  <2>1. CASE UNCHANGED locks
    BY <1>1, <2>1
  <2>2. CASE ~ UNCHANGED locks
    <3>1. PICK d \in Client : Calls(d) \/ Commit(d)
      BY <1>1, <2>2, StepCases DEF vars, Register
    <3>2. Others(d) /\ (Ends(d) \/ Starts(d) \/ GoesOn(d))
      BY <1>1, <3>1, StepFlows
    <3>3. CASE l.by # d
      BY <1>1, <3>2, <3>3, LocksFlow
    <3>4. CASE l.by = d
      BY <1>1, <2>2, <3>2, <3>4 DEF Ends, Starts, GoesOn, Takes
    <3> QED
      BY <3>3, <3>4
  <2> QED
    BY <2>1, <2>2
<1>2. ASSUME TxInv, NEW l \in locks PROVE tx[l.by].pc \notin Outside
  <2>1. l.by \in Client
    BY <1>2 DEF TxInv, TypeOK
  <2> QED
    BY <1>2, <2>1, NoLocksOutside
<1>3. /\ TxInv => \A l \in locks : tx[l.by].pc \notin Outside
      /\ TxInv /\ [Next]_vars
         => [\A l \in locks : l \in locks' \/ tx'[l.by].pc \in Outside]_vars
  BY <1>1, <1>2
<1> QED
  BY <1>3, TxInvariant, PTL DEF Spec, LockUntilTheEnd
=============================================================================
