--------------------------- MODULE PaymentsProofs ---------------------------
(***************************************************************************)
(* Proofs about Payments, for every set of merchants, customers, payments, *)
(* keys and amounts, every set of currencies, and every HighAmount.        *)
(***************************************************************************)
EXTENDS Payments, FoldProofs, TLAPS

(* The assumptions about the constants, cited together. *)
USE AmountAssumption, RiskLevelAssumption, HighAmountAssumption

-----------------------------------------------------------------------------
(* evaluate_risk never rejects what create_payment asks it about: five     *)
(* levels at 0.08, a high amount at 0.35 and nothing else stay at 0.75.    *)
LEMMA CreateIsNeverRejected ==
    ASSUME NEW a \in Amount, NEW cur \in Currency, NEW l \in RiskLevel
    PROVE  DecisionAtCreate(a, cur, l) # "REJECT"
<1> DEFINE score == RiskScore(a, cur \in Currency, l, 0, FALSE)
<1>1. l \in 1..5 /\ a \in Nat
  OBVIOUS
<1>2. score \in Int /\ score <= 75
  BY <1>1 DEF RiskScore, Lesser
<1>3. DecisionAtCreate(a, cur, l) = RiskDecision(score)
  BY DEF DecisionAtCreate
<1> HIDE DEF score
<1> QED
  BY <1>2, <1>3 DEF RiskDecision

(* The ledger accounts the handlers name exist and are distinct. *)
LEMMA LedgerAccounts ==
    ASSUME NEW c \in Customer, NEW m \in Merchant, NEW cur \in Currency
    PROVE  /\ Cash(c, cur) \in LedgerAccount
           /\ Receivable(m, cur) \in LedgerAccount
           /\ Funding(m, cur) \in LedgerAccount
           /\ \A d \in Customer, e \in Currency :
                 /\ Cash(d, e) # Receivable(m, cur)
                 /\ Cash(d, e) # Funding(m, cur)
                 /\ Cash(d, e) = Cash(c, cur) => d = c /\ e = cur
  BY DEF Cash, Receivable, Funding, LedgerAccount

(* The lines of every journal name accounts of the ledger. *)
LEMMA LinesAreAccounts ==
    /\ \A m \in Merchant, c \in Customer, cur \in Currency :
          /\ FundingLines(m, c, cur).debit \in LedgerAccount
          /\ FundingLines(m, c, cur).credit \in LedgerAccount
    /\ \A t \in Terms :
          /\ CaptureLines(t).debit \in LedgerAccount
          /\ CaptureLines(t).credit \in LedgerAccount
          /\ RefundLines(t).debit \in LedgerAccount
          /\ RefundLines(t).credit \in LedgerAccount
  BY LedgerAccounts DEF FundingLines, CaptureLines, RefundLines, Terms

(* A journal adds its amount to one account on each side. *)
LEMMA EntriesAdded ==
    ASSUME debit \in [LedgerAccount -> Nat], credit \in [LedgerAccount -> Nat],
           NEW lines, lines.debit \in LedgerAccount,
           lines.credit \in LedgerAccount, NEW n \in Nat, AddEntries(lines, n)
    PROVE  /\ debit' \in [LedgerAccount -> Nat]
           /\ credit' \in [LedgerAccount -> Nat]
           /\ \A a \in LedgerAccount :
                 /\ debit'[a] =
                        IF a = lines.debit THEN debit[a] + n ELSE debit[a]
                 /\ credit'[a] =
                        IF a = lines.credit THEN credit[a] + n ELSE credit[a]
  BY DEF AddEntries

-----------------------------------------------------------------------------
(* Of the lines of a journal, the cash accounts they name. *)
LEMMA CashLines ==
    ASSUME NEW d \in Customer, NEW e \in Currency
    PROVE  /\ \A m \in Merchant, c \in Customer, cur \in Currency :
                 /\ Cash(d, e) = FundingLines(m, c, cur).debit <=> d = c /\ e = cur
                 /\ Cash(d, e) # FundingLines(m, c, cur).credit
           /\ \A t \in Terms :
                 /\ Cash(d, e) # CaptureLines(t).debit
                 /\ Cash(d, e) = CaptureLines(t).credit
                        <=> d = t.customer /\ e = t.currency
                 /\ Cash(d, e) = RefundLines(t).debit
                        <=> d = t.customer /\ e = t.currency
                 /\ Cash(d, e) # RefundLines(t).credit
  BY DEF FundingLines, CaptureLines, RefundLines, Cash, Funding, Receivable, Terms

(* The sums of a cash account, and how a journal changes them. *)
LEMMA CashSums ==
    ASSUME TypeOK, NEW d \in Customer, NEW e \in Currency
    PROVE  debit[Cash(d, e)] \in Nat /\ credit[Cash(d, e)] \in Nat
<1>1. Cash(d, e) \in LedgerAccount
  BY DEF Cash, LedgerAccount
<1> QED
  BY <1>1 DEF TypeOK

(* A journal changes the two sums of a cash account by the amount of its   *)
(* lines that name it, and by nothing else.                                *)
LEMMA CashEntriesAdded ==
    ASSUME TypeOK, NEW lines, lines.debit \in LedgerAccount,
           lines.credit \in LedgerAccount, NEW n \in Nat, AddEntries(lines, n),
           NEW d \in Customer, NEW e \in Currency
    PROVE  /\ debit'[Cash(d, e)] = IF Cash(d, e) = lines.debit
                                   THEN debit[Cash(d, e)] + n
                                   ELSE debit[Cash(d, e)]
           /\ credit'[Cash(d, e)] = IF Cash(d, e) = lines.credit
                                    THEN credit[Cash(d, e)] + n
                                    ELSE credit[Cash(d, e)]
<1>1. Cash(d, e) \in LedgerAccount
  BY DEF Cash, LedgerAccount
<1>2. debit \in [LedgerAccount -> Nat] /\ credit \in [LedgerAccount -> Nat]
  BY DEF TypeOK
<1> QED
  BY <1>1, <1>2, EntriesAdded

(* What every action that touches payment p needs to know of its row. *)
LEMMA RowFacts ==
    ASSUME TypeOK, RowsComplete, NEW p \in Payment, Exists(p)
    PROVE  /\ terms[p] \in Terms
           /\ terms[p].merchant \in Merchant /\ terms[p].customer \in Customer
           /\ terms[p].amount \in Nat \ {0} /\ terms[p].currency \in Currency
           /\ status[p] \in PaymentStatus
           /\ captured[p] \in Nat /\ refunded[p] \in Nat
  BY DEF TypeOK, RowsComplete, Terms, Exists

(* An empty database has its types.                                        *)
LEMMA TypeInit == Init => TypeOK
  BY DEF Init, TypeOK, PaymentStatus, Absent

(* No operation takes a variable out of its type. *)
LEMMA TypeStep ==
    ASSUME TypeOK, RowsComplete, AmountsMatchStatus, [Next]_vars
    PROVE  TypeOK'
<1> USE DEF TypeOK, AuditAction, Audit, Event, EventType
<1>1. CASE UNCHANGED vars
  BY <1>1 DEF vars, payment, ledger
<1>2. ASSUME NEW m \in Merchant, NEW l \in RiskLevel, CreateMerchant(m, l)
      PROVE  TypeOK'
  BY <1>2 DEF CreateMerchant, payment, ledger
<1>3. ASSUME NEW m \in Merchant, NEW c \in Customer, NEW cur \in Currency,
             CreateCustomer(m, c, cur)
      PROVE  TypeOK'
  BY <1>3 DEF CreateCustomer, payment, ledger, Account
<1>4. ASSUME NEW m \in Merchant, NEW c \in Customer, NEW cur \in Currency,
             NEW a \in Amount, FundAccount(m, c, cur, a)
      PROVE  TypeOK'
  <2>1. debit' \in [LedgerAccount -> Nat] /\ credit' \in [LedgerAccount -> Nat]
    BY <1>4, LinesAreAccounts, EntriesAdded DEF FundAccount
  <2> QED
    BY <1>4, <2>1 DEF FundAccount, payment, PostOnce
<1>5. ASSUME NEW m \in Merchant, NEW k \in Key, NEW p \in Payment,
             NEW t \in Terms, CreatePayment(m, k, p, t)
      PROVE  TypeOK'
  BY <1>5 DEF CreatePayment, ledger, SetStatus, Emit, PaymentStatus
<1>6. ASSUME NEW m \in Merchant, NEW p \in Payment, Authorize(m, p)
      PROVE  TypeOK'
  BY <1>6, RowFacts DEF Authorize, ledger, SetStatus, Emit, PaymentStatus
<1>7. ASSUME NEW m \in Merchant, NEW p \in Payment, Decline(m, p)
      PROVE  TypeOK'
  BY <1>7 DEF Decline, ledger, SetStatus, Emit, PaymentStatus
<1>8. ASSUME NEW m \in Merchant, NEW p \in Payment, Capture(m, p)
      PROVE  TypeOK'
  <2>1. terms[p] \in Terms /\ terms[p].amount \in Nat
    BY <1>8, RowFacts DEF Capture
  <2>2. debit' \in [LedgerAccount -> Nat] /\ credit' \in [LedgerAccount -> Nat]
    BY <1>8, <2>1, LinesAreAccounts, EntriesAdded DEF Capture
  <2> QED
    BY <1>8, <2>1, <2>2 DEF Capture, SetStatus, Emit, PostOnce, PaymentStatus
<1>9. ASSUME NEW m \in Merchant, NEW p \in Payment, Cancel(m, p)
      PROVE  TypeOK'
  BY <1>9 DEF Cancel, ledger, SetStatus, Emit, PaymentStatus
<1>10. ASSUME NEW m \in Merchant, NEW p \in Payment, NEW a \in Amount,
              Refund(m, p, a)
       PROVE  TypeOK'
  <2>1. terms[p] \in Terms
    BY <1>10, RowFacts DEF Refund
  <2>2. debit' \in [LedgerAccount -> Nat] /\ credit' \in [LedgerAccount -> Nat]
    <3>1. AddEntries(RefundLines(terms[p]), a)
      BY <1>10 DEF Refund
    <3> QED
      BY <2>1, <3>1, LinesAreAccounts, EntriesAdded
  <2> QED
    BY <1>10, <2>2 DEF Refund, SetStatus, Emit, StatusAfterRefund, PaymentStatus
<1> QED
  BY <1>1, <1>2, <1>3, <1>4, <1>5, <1>6, <1>7, <1>8, <1>9, <1>10 DEF Next

(* Only CreatePayment fills in a row, and no account is ever replaced. *)
LEMMA RowsStep ==
    ASSUME TypeOK, RowsComplete, [Next]_vars
    PROVE  RowsComplete'
<1> USE DEF TypeOK, RowsComplete, Exists
<1>1. CASE UNCHANGED vars
  BY <1>1 DEF vars, payment, ledger
<1>2. ASSUME NEW m \in Merchant, NEW l \in RiskLevel, CreateMerchant(m, l)
      PROVE  RowsComplete'
  BY <1>2 DEF CreateMerchant, payment, ledger
<1>3. ASSUME NEW m \in Merchant, NEW c \in Customer, NEW cur \in Currency,
             CreateCustomer(m, c, cur)
      PROVE  RowsComplete'
  BY <1>3, NoneAssumption DEF CreateCustomer, payment
<1>4. ASSUME NEW m \in Merchant, NEW c \in Customer, NEW cur \in Currency,
             NEW a \in Amount, FundAccount(m, c, cur, a)
      PROVE  RowsComplete'
  BY <1>4 DEF FundAccount, payment, ledger
<1>5. ASSUME NEW m \in Merchant, NEW k \in Key, NEW p \in Payment,
             NEW t \in Terms, CreatePayment(m, k, p, t)
      PROVE  RowsComplete'
  BY <1>5 DEF CreatePayment, SetStatus, Terms
<1>6. ASSUME NEW m \in Merchant, NEW p \in Payment, Authorize(m, p)
      PROVE  RowsComplete'
  BY <1>6 DEF Authorize, SetStatus
<1>7. ASSUME NEW m \in Merchant, NEW p \in Payment, Decline(m, p)
      PROVE  RowsComplete'
  BY <1>7 DEF Decline, SetStatus
<1>8. ASSUME NEW m \in Merchant, NEW p \in Payment, Capture(m, p)
      PROVE  RowsComplete'
  BY <1>8 DEF Capture, SetStatus
<1>9. ASSUME NEW m \in Merchant, NEW p \in Payment, Cancel(m, p)
      PROVE  RowsComplete'
  BY <1>9 DEF Cancel, SetStatus
<1>10. ASSUME NEW m \in Merchant, NEW p \in Payment, NEW a \in Amount,
              Refund(m, p, a)
       PROVE  RowsComplete'
  BY <1>10 DEF Refund, SetStatus
<1> QED
  BY <1>1, <1>2, <1>3, <1>4, <1>5, <1>6, <1>7, <1>8, <1>9, <1>10 DEF Next

(* What is captured and refunded always agrees with the status: a refund    *)
(* checks against the row it is about to write.                             *)
LEMMA AmountsStep ==
    ASSUME TypeOK, RowsComplete, AmountsMatchStatus, [Next]_vars
    PROVE  AmountsMatchStatus'
<1> USE DEF TypeOK, AmountsMatchStatus, Settled
<1>1. CASE UNCHANGED vars
  BY <1>1 DEF vars, payment, ledger
<1>2. ASSUME NEW m \in Merchant, NEW l \in RiskLevel, CreateMerchant(m, l)
      PROVE  AmountsMatchStatus'
  BY <1>2 DEF CreateMerchant, payment, ledger
<1>3. ASSUME NEW m \in Merchant, NEW c \in Customer, NEW cur \in Currency,
             CreateCustomer(m, c, cur)
      PROVE  AmountsMatchStatus'
  BY <1>3 DEF CreateCustomer, payment, ledger
<1>4. ASSUME NEW m \in Merchant, NEW c \in Customer, NEW cur \in Currency,
             NEW a \in Amount, FundAccount(m, c, cur, a)
      PROVE  AmountsMatchStatus'
  BY <1>4 DEF FundAccount, payment, ledger
<1>5. ASSUME NEW m \in Merchant, NEW k \in Key, NEW p \in Payment,
             NEW t \in Terms, CreatePayment(m, k, p, t)
      PROVE  AmountsMatchStatus'
  BY <1>5 DEF CreatePayment, SetStatus, Absent
<1>6. ASSUME NEW m \in Merchant, NEW p \in Payment, Authorize(m, p)
      PROVE  AmountsMatchStatus'
  BY <1>6 DEF Authorize, SetStatus, MayBecome, Allowed, PaymentStatus
<1>7. ASSUME NEW m \in Merchant, NEW p \in Payment, Decline(m, p)
      PROVE  AmountsMatchStatus'
  BY <1>7 DEF Decline, SetStatus, MayBecome, Allowed, PaymentStatus
<1>8. ASSUME NEW m \in Merchant, NEW p \in Payment, Capture(m, p)
      PROVE  AmountsMatchStatus'
  BY <1>8, RowFacts DEF Capture, SetStatus, MayBecome, Allowed, PaymentStatus
<1>9. ASSUME NEW m \in Merchant, NEW p \in Payment, Cancel(m, p)
      PROVE  AmountsMatchStatus'
  BY <1>9 DEF Cancel, SetStatus, MayBecome, Allowed, PaymentStatus
<1>10. ASSUME NEW m \in Merchant, NEW p \in Payment, NEW a \in Amount,
              Refund(m, p, a)
       PROVE  AmountsMatchStatus'
  BY <1>10, RowFacts DEF Refund, SetStatus, Refundable, Remaining, StatusAfterRefund
<1> QED
  BY <1>1, <1>2, <1>3, <1>4, <1>5, <1>6, <1>7, <1>8, <1>9, <1>10 DEF Next

(* A capture journal is posted by the one action that leaves AUTHORIZED     *)
(* for CAPTURED, and no settled payment becomes unsettled.                  *)
LEMMA CaptureJournalStep ==
    ASSUME TypeOK, CaptureJournalMatchesStatus, [Next]_vars
    PROVE  CaptureJournalMatchesStatus'
<1> USE DEF TypeOK, CaptureJournalMatchesStatus, Settled, PostOnce
<1>1. CASE UNCHANGED vars
  BY <1>1 DEF vars, payment, ledger
<1>2. ASSUME NEW m \in Merchant, NEW l \in RiskLevel, CreateMerchant(m, l)
      PROVE  CaptureJournalMatchesStatus'
  BY <1>2 DEF CreateMerchant, payment, ledger
<1>3. ASSUME NEW m \in Merchant, NEW c \in Customer, NEW cur \in Currency,
             CreateCustomer(m, c, cur)
      PROVE  CaptureJournalMatchesStatus'
  BY <1>3 DEF CreateCustomer, payment, ledger
<1>4. ASSUME NEW m \in Merchant, NEW c \in Customer, NEW cur \in Currency,
             NEW a \in Amount, FundAccount(m, c, cur, a)
      PROVE  CaptureJournalMatchesStatus'
  BY <1>4 DEF FundAccount, payment
<1>5. ASSUME NEW m \in Merchant, NEW k \in Key, NEW p \in Payment,
             NEW t \in Terms, CreatePayment(m, k, p, t)
      PROVE  CaptureJournalMatchesStatus'
  BY <1>5 DEF CreatePayment, SetStatus, Absent, ledger
<1>6. ASSUME NEW m \in Merchant, NEW p \in Payment, Authorize(m, p)
      PROVE  CaptureJournalMatchesStatus'
  BY <1>6 DEF Authorize, SetStatus, MayBecome, Allowed, PaymentStatus, ledger
<1>7. ASSUME NEW m \in Merchant, NEW p \in Payment, Decline(m, p)
      PROVE  CaptureJournalMatchesStatus'
  BY <1>7 DEF Decline, SetStatus, MayBecome, Allowed, PaymentStatus, ledger
<1>8. ASSUME NEW m \in Merchant, NEW p \in Payment, Capture(m, p)
      PROVE  CaptureJournalMatchesStatus'
  BY <1>8 DEF Capture, SetStatus
<1>9. ASSUME NEW m \in Merchant, NEW p \in Payment, Cancel(m, p)
      PROVE  CaptureJournalMatchesStatus'
  BY <1>9 DEF Cancel, SetStatus, MayBecome, Allowed, PaymentStatus, ledger
<1>10. ASSUME NEW m \in Merchant, NEW p \in Payment, NEW a \in Amount,
              Refund(m, p, a)
       PROVE  CaptureJournalMatchesStatus'
  BY <1>10 DEF Refund, SetStatus, Refundable, StatusAfterRefund
<1> QED
  BY <1>1, <1>2, <1>3, <1>4, <1>5, <1>6, <1>7, <1>8, <1>9, <1>10 DEF Next

(* Only CreatePayment adds a record, for an unclaimed key and a fresh row.  *)
LEMMA OneKeyStep ==
    ASSUME TypeOK, RowsComplete, OneKeyOnePayment, [Next]_vars
    PROVE  OneKeyOnePayment'
<1> USE DEF TypeOK, OneKeyOnePayment, Exists
<1>1. CASE UNCHANGED vars
  BY <1>1 DEF vars, payment, ledger
<1>2. ASSUME NEW m \in Merchant, NEW l \in RiskLevel, CreateMerchant(m, l)
      PROVE  OneKeyOnePayment'
  BY <1>2 DEF CreateMerchant, payment, ledger
<1>3. ASSUME NEW m \in Merchant, NEW c \in Customer, NEW cur \in Currency,
             CreateCustomer(m, c, cur)
      PROVE  OneKeyOnePayment'
  BY <1>3 DEF CreateCustomer, payment, ledger
<1>4. ASSUME NEW m \in Merchant, NEW c \in Customer, NEW cur \in Currency,
             NEW a \in Amount, FundAccount(m, c, cur, a)
      PROVE  OneKeyOnePayment'
  BY <1>4 DEF FundAccount, payment, ledger
<1>5. ASSUME NEW m \in Merchant, NEW k \in Key, NEW p \in Payment,
             NEW t \in Terms, CreatePayment(m, k, p, t)
      PROVE  OneKeyOnePayment'
  <2> DEFINE new == [merchant |-> m, key |-> k, fingerprint |-> t, payment |-> p]
  <2>1. idempotency' = idempotency \cup {new} /\ t.merchant = m
    BY <1>5 DEF CreatePayment
  <2>2. \A r \in idempotency :
            r.payment # p /\ <<r.merchant, r.key>> # <<m, k>>
    BY <1>5 DEF CreatePayment, Unclaimed
  <2>3. \A q \in Payment :
            /\ (status'[q] # Absent) <=> (status[q] # Absent \/ q = p)
            /\ terms'[q] = IF q = p THEN t ELSE terms[q]
    BY <1>5 DEF CreatePayment, SetStatus, Absent
  <2>4. \A r, s \in idempotency' :
            \/ r = s
            \/ /\ r.payment # s.payment
               /\ <<r.merchant, r.key>> # <<s.merchant, s.key>>
    BY <2>1, <2>2
  <2>5. \A r \in idempotency' :
            /\ status'[r.payment] # Absent
            /\ terms'[r.payment] = r.fingerprint
            /\ r.fingerprint.merchant = r.merchant
    BY <2>1, <2>2, <2>3
  <2>6. \A q \in Payment :
            status'[q] # Absent => \E r \in idempotency' : r.payment = q
    <3>1. new \in idempotency' /\ new.payment = p
      BY <2>1
    <3>2. \A q \in Payment : q # p /\ status[q] # Absent =>
                \E r \in idempotency : r.payment = q
      OBVIOUS
    <3> QED
      BY <2>1, <2>3, <3>1, <3>2
  <2> QED
    BY <2>4, <2>5, <2>6
<1>6. ASSUME NEW m \in Merchant, NEW p \in Payment, Authorize(m, p)
      PROVE  OneKeyOnePayment'
  BY <1>6 DEF Authorize, SetStatus, Absent
<1>7. ASSUME NEW m \in Merchant, NEW p \in Payment, Decline(m, p)
      PROVE  OneKeyOnePayment'
  BY <1>7 DEF Decline, SetStatus, Absent
<1>8. ASSUME NEW m \in Merchant, NEW p \in Payment, Capture(m, p)
      PROVE  OneKeyOnePayment'
  BY <1>8 DEF Capture, SetStatus, Absent
<1>9. ASSUME NEW m \in Merchant, NEW p \in Payment, Cancel(m, p)
      PROVE  OneKeyOnePayment'
  BY <1>9 DEF Cancel, SetStatus, Absent
<1>10. ASSUME NEW m \in Merchant, NEW p \in Payment, NEW a \in Amount,
              Refund(m, p, a)
       PROVE  OneKeyOnePayment'
  BY <1>10 DEF Refund, SetStatus, StatusAfterRefund, Absent
<1> QED
  BY <1>1, <1>2, <1>3, <1>4, <1>5, <1>6, <1>7, <1>8, <1>9, <1>10 DEF Next

(* The sums of a cash account move only with its customer's funding,       *)
(* captures and refunds.                                                   *)
LEMMA CashStep ==
    ASSUME IInv, [Next]_vars
    PROVE  CashInAccountCurrency' /\ NoOverdraft' /\ SettledInAccountCurrency'
<1> DEFINE Goal ==
        CashInAccountCurrency /\ NoOverdraft /\ SettledInAccountCurrency
<1> USE DEF IInv
<1>1. ASSUME UNCHANGED <<account, terms, ledger>>,
             \A p \in Payment : status'[p] \in Settled => status[p] \in Settled
      PROVE  Goal'
  BY <1>1 DEF CashInAccountCurrency, NoOverdraft, SettledInAccountCurrency,
              Available, ledger
<1>2. CASE UNCHANGED vars
  BY <1>1, <1>2 DEF vars, payment
<1>3. ASSUME NEW m \in Merchant, NEW l \in RiskLevel, CreateMerchant(m, l)
      PROVE  Goal'
  BY <1>1, <1>3 DEF CreateMerchant, payment
<1>4. ASSUME NEW m \in Merchant, NEW c \in Customer, NEW cur \in Currency,
             CreateCustomer(m, c, cur)
      PROVE  Goal'
  <2>1. account[c] = None /\ account[c] \notin Account
    BY <1>4, NoneAssumption DEF CreateCustomer
  <2>2. \A d \in Customer : d # c => account'[d] = account[d]
    BY <1>4 DEF CreateCustomer, TypeOK
  <2>3. UNCHANGED <<payment, ledger>>
    BY <1>4 DEF CreateCustomer
  <2>4. CashInAccountCurrency'
    BY <2>1, <2>2, <2>3 DEF CashInAccountCurrency, ledger
  <2>5. NoOverdraft'
    BY <2>3 DEF NoOverdraft, Available, ledger
  <2>6. ASSUME NEW p \in Payment, status[p] \in Settled
        PROVE  terms[p].customer \in Customer /\ terms[p].customer # c
    BY <2>1, <2>6, RowFacts DEF RowsComplete, Exists, Settled, Absent
  <2>7. SettledInAccountCurrency'
    BY <2>2, <2>3, <2>6 DEF SettledInAccountCurrency, payment
  <2> QED
    BY <2>4, <2>5, <2>7
<1>5. ASSUME NEW m \in Merchant, NEW c \in Customer, NEW cur \in Currency,
             NEW a \in Amount, FundAccount(m, c, cur, a)
      PROVE  Goal'
  <2>1. /\ a \in Nat
        /\ account[c] \in Account /\ account[c].currency = cur
        /\ UNCHANGED <<account, payment>>
    BY <1>5 DEF FundAccount, Fundable, TypeOK
  <2>2. AddEntries(FundingLines(m, c, cur), a)
    BY <1>5 DEF FundAccount
  <2>3. \A d \in Customer, e \in Currency :
            /\ debit'[Cash(d, e)] = IF d = c /\ e = cur
                                    THEN debit[Cash(d, e)] + a
                                    ELSE debit[Cash(d, e)]
            /\ credit'[Cash(d, e)] = credit[Cash(d, e)]
    BY <2>1, <2>2, LinesAreAccounts, CashLines, CashEntriesAdded
  <2>4. CashInAccountCurrency'
    BY <2>1, <2>3 DEF CashInAccountCurrency
  <2>5. NoOverdraft'
    BY <2>1, <2>3, CashSums DEF NoOverdraft, Available
  <2> QED
    BY <2>1, <2>4, <2>5 DEF SettledInAccountCurrency, payment
<1>6. ASSUME NEW m \in Merchant, NEW k \in Key, NEW p \in Payment,
             NEW t \in Terms, CreatePayment(m, k, p, t)
      PROVE  Goal'
  <2>1. UNCHANGED <<account, ledger>> /\ status[p] = Absent
    BY <1>6 DEF CreatePayment
  <2>2. \A q \in Payment : status'[q] \in Settled =>
            q # p /\ status[q] \in Settled /\ terms'[q] = terms[q]
    BY <1>6 DEF CreatePayment, SetStatus, Settled, TypeOK
  <2> QED
    BY <2>1, <2>2 DEF CashInAccountCurrency, NoOverdraft, Available, ledger,
                      SettledInAccountCurrency
<1>7. ASSUME NEW m \in Merchant, NEW p \in Payment, Authorize(m, p)
      PROVE  Goal'
  BY <1>1, <1>7 DEF Authorize, SetStatus, Settled, TypeOK
<1>8. ASSUME NEW m \in Merchant, NEW p \in Payment, Decline(m, p)
      PROVE  Goal'
  BY <1>1, <1>8 DEF Decline, SetStatus, Settled, TypeOK
<1>9. ASSUME NEW m \in Merchant, NEW p \in Payment, Capture(m, p)
      PROVE  Goal'
  <2> DEFINE t == terms[p]
             cash == Cash(t.customer, t.currency)
  <2>1. /\ t \in Terms /\ t.customer \in Customer /\ t.currency \in Currency
        /\ t.amount \in Nat \ {0} /\ t.merchant = m
        /\ account[t.customer].merchant = m
    BY <1>9, RowFacts DEF Capture, RowsComplete
  <2>2. /\ debit[cash] \in Nat /\ credit[cash] \in Nat
        /\ debit[cash] - credit[cash] >= t.amount
    BY <1>9, <2>1, LedgerAccounts
       DEF Capture, Affordable, Available, TypeOK
  <2>3. /\ account[t.customer] \in Account
        /\ account[t.customer].currency = t.currency
    BY <2>1, <2>2 DEF CashInAccountCurrency
  <2>4. AddEntries(CaptureLines(t), t.amount) /\ UNCHANGED <<account, terms>>
    BY <1>9 DEF Capture
  <2>5. \A d \in Customer, e \in Currency :
            /\ debit'[Cash(d, e)] = debit[Cash(d, e)]
            /\ credit'[Cash(d, e)] = IF d = t.customer /\ e = t.currency
                                     THEN credit[Cash(d, e)] + t.amount
                                     ELSE credit[Cash(d, e)]
    BY <2>1, <2>4, LinesAreAccounts, CashLines, CashEntriesAdded
  <2>6. CashInAccountCurrency'
    BY <2>4, <2>5 DEF CashInAccountCurrency
  <2>7. NoOverdraft'
    BY <2>1, <2>2, <2>5, CashSums DEF NoOverdraft, Available
  <2>8. account[t.customer] = [merchant |-> t.merchant, currency |-> t.currency]
    BY <2>1, <2>3 DEF Account
  <2>9. \A q \in Payment : q # p => status'[q] = status[q]
    BY <1>9 DEF Capture, SetStatus, TypeOK
  <2>10. SettledInAccountCurrency'
    BY <2>4, <2>8, <2>9 DEF SettledInAccountCurrency
  <2> QED
    BY <2>6, <2>7, <2>10
<1>10. ASSUME NEW m \in Merchant, NEW p \in Payment, Cancel(m, p)
       PROVE  Goal'
  BY <1>1, <1>10 DEF Cancel, SetStatus, Settled, TypeOK
<1>11. ASSUME NEW m \in Merchant, NEW p \in Payment, NEW a \in Amount,
              Refund(m, p, a)
       PROVE  Goal'
  <2> DEFINE t == terms[p]
  <2>1. /\ t \in Terms /\ t.customer \in Customer /\ t.currency \in Currency
        /\ a \in Nat /\ status[p] \in Settled /\ UNCHANGED <<account, terms>>
    BY <1>11, RowFacts DEF Refund, Refundable, Settled
  <2>2. account[t.customer] = [merchant |-> t.merchant, currency |-> t.currency]
    BY <2>1 DEF SettledInAccountCurrency
  <2>3. account[t.customer] \in Account /\ account[t.customer].currency = t.currency
    BY <2>1, <2>2 DEF Account, Terms
  <2>4. AddEntries(RefundLines(t), a)
    BY <1>11 DEF Refund
  <2>5. \A d \in Customer, e \in Currency :
            /\ debit'[Cash(d, e)] = IF d = t.customer /\ e = t.currency
                                    THEN debit[Cash(d, e)] + a
                                    ELSE debit[Cash(d, e)]
            /\ credit'[Cash(d, e)] = credit[Cash(d, e)]
    BY <2>1, <2>4, LinesAreAccounts, CashLines, CashEntriesAdded
  <2>6. CashInAccountCurrency'
    BY <2>1, <2>3, <2>5 DEF CashInAccountCurrency
  <2>7. NoOverdraft'
    BY <2>1, <2>5, CashSums DEF NoOverdraft, Available
  <2>8. \A q \in Payment : status'[q] \in Settled => status[q] \in Settled
    BY <1>11, <2>1 DEF Refund, SetStatus, TypeOK
  <2>9. SettledInAccountCurrency'
    BY <2>1, <2>8 DEF SettledInAccountCurrency
  <2> QED
    BY <2>6, <2>7, <2>9
<1> QED
  BY <1>2, <1>3, <1>4, <1>5, <1>6, <1>7, <1>8, <1>9, <1>10, <1>11 DEF Next

-----------------------------------------------------------------------------
(* The conjuncts of IInv hold of an empty database, and survive every      *)
(* operation together.                                                     *)
LEMMA InitIInv == Init => IInv
<1> SUFFICES ASSUME Init PROVE IInv
  OBVIOUS
<1> USE DEF Init
<1>1. TypeOK
  BY TypeInit
<1>2. RowsComplete /\ AmountsMatchStatus /\ SettledInAccountCurrency
      /\ CaptureJournalMatchesStatus /\ OneKeyOnePayment
  BY DEF RowsComplete, AmountsMatchStatus, SettledInAccountCurrency, Exists,
         CaptureJournalMatchesStatus, OneKeyOnePayment, Settled, Absent
<1>3. CashInAccountCurrency /\ NoOverdraft
  <2>1. \A c \in Customer, cur \in Currency : Cash(c, cur) \in LedgerAccount
    BY DEF Cash, LedgerAccount
  <2> QED
    BY <2>1 DEF CashInAccountCurrency, NoOverdraft, Available
<1> QED
  BY <1>1, <1>2, <1>3 DEF IInv

LEMMA IInvStep == IInv /\ [Next]_vars => IInv'
  BY TypeStep, RowsStep, AmountsStep, CaptureJournalStep, OneKeyStep, CashStep
     DEF IInv

THEOREM InvariantHolds == Spec => []IInv
  BY InitIInv, IInvStep, PTL DEF Spec

(* The sums and columns keep their types in every reachable state.         *)
THEOREM TypeCorrect == Spec => []TypeOK
<1>1. IInv => TypeOK
  BY DEF IInv
<1> QED
  BY <1>1, InvariantHolds, PTL

(* A customer's cash account is never overdrawn, whatever was authorized.  *)
THEOREM NeverOverdrawn == Spec => []NoOverdraft
<1>1. IInv => NoOverdraft
  BY DEF IInv
<1> QED
  BY <1>1, InvariantHolds, PTL

(* Refunds never exceed the capture, and the status says what was refunded. *)
THEOREM AmountsAgree == Spec => []AmountsMatchStatus
<1>1. IInv => AmountsMatchStatus
  BY DEF IInv
<1> QED
  BY <1>1, InvariantHolds, PTL

(* Money is only taken in the currency of the customer's account, from a   *)
(* customer of the payment's merchant.                                     *)
THEOREM SettlementStaysInCurrency == Spec => []SettledInAccountCurrency
<1>1. IInv => SettledInAccountCurrency
  BY DEF IInv
<1> QED
  BY <1>1, InvariantHolds, PTL

(* A merchant's idempotency key stands for exactly one payment.            *)
THEOREM KeysIdentifyPayments == Spec => []OneKeyOnePayment
<1>1. IInv => OneKeyOnePayment
  BY DEF IInv
<1> QED
  BY <1>1, InvariantHolds, PTL

(* A payment has a capture journal exactly when it is settled.             *)
THEOREM CapturedOnce == Spec => []CaptureJournalMatchesStatus
<1>1. IInv => CaptureJournalMatchesStatus
  BY DEF IInv
<1> QED
  BY <1>1, InvariantHolds, PTL

(* No operation moves a payment but along _ALLOWED, also when            *)
(* refund_payment sets the status without asking transition().             *)
LEMMA StepMoves == IInv /\ [Next]_vars => [LifecycleStep]_vars
<1> SUFFICES ASSUME IInv, Next PROVE LifecycleStep
  OBVIOUS
<1> USE DEF LifecycleStep
<1>1. TypeOK /\ RowsComplete /\ AmountsMatchStatus
  BY DEF IInv
<1>2. ASSUME UNCHANGED status PROVE LifecycleStep
  BY <1>2
<1>3. ASSUME NEW m \in Merchant, NEW k \in Key, NEW p \in Payment,
             NEW t \in Terms, CreatePayment(m, k, p, t)
      PROVE  LifecycleStep
  <2>1. /\ t.amount \in Amount /\ t.currency \in Currency
        /\ level[m] \in RiskLevel
    BY <1>1, <1>3 DEF CreatePayment, Terms, TypeOK
  <2>2. DecisionAtCreate(t.amount, t.currency, level[m]) # "REJECT"
    BY <2>1, CreateIsNeverRejected
  <2> QED
    BY <1>1, <1>3, <2>2 DEF CreatePayment, SetStatus, TypeOK
<1>4. ASSUME NEW m \in Merchant, NEW p \in Payment,
             Authorize(m, p) \/ Decline(m, p) \/ Capture(m, p) \/ Cancel(m, p)
      PROVE  LifecycleStep
  BY <1>1, <1>4 DEF Authorize, Decline, Capture, Cancel, SetStatus, TypeOK,
                    MayBecome, Allowed, PaymentStatus
<1>5. ASSUME NEW m \in Merchant, NEW p \in Payment, NEW a \in Amount,
             Refund(m, p, a)
      PROVE  LifecycleStep
  <2>1. status[p] \in {"CAPTURED", "PARTIALLY_REFUNDED"}
    BY <1>5 DEF Refund, Refundable
  <2>2. \A q \in Payment : status'[q] = IF q = p
              THEN StatusAfterRefund(captured[p], refunded[p] + a)
              ELSE status[q]
    BY <1>1, <1>5 DEF Refund, SetStatus, TypeOK
  <2> QED
    BY <2>1, <2>2 DEF StatusAfterRefund, MayBecome, Allowed, PaymentStatus
<1> QED
  BY <1>2, <1>3, <1>4, <1>5
     DEF Next, CreateMerchant, CreateCustomer, FundAccount, payment

(* Every payment is born PENDING and only ever moves along _ALLOWED.       *)
THEOREM LifecycleIsRespected == Spec => LifecycleRespected
  BY StepMoves, InvariantHolds, PTL DEF Spec, LifecycleRespected

-----------------------------------------------------------------------------
(* The ledger and the payments agree.  The two sums of                     *)
(* LedgerMatchesPayments are SumOver of the functions Left and Held, which *)
(* an operation changes in at most one place.                              *)

PaymentsOf(m, cur) == {p \in Payment : Exists(p) /\ terms[p].merchant = m
                                                 /\ terms[p].currency = cur}

CustomersOf(m) == {c \in Customer : account[c] # None /\ account[c].merchant = m}

Left(m, cur) == [p \in PaymentsOf(m, cur) |-> Remaining(p)]
Held(m, cur) == [c \in CustomersOf(m) |-> Available(c, cur)]

Owed(m, cur) == debit[Receivable(m, cur)] - credit[Receivable(m, cur)]
Funded(m, cur) == credit[Funding(m, cur)]

LedgerAt(m, cur) ==
    /\ IsFiniteSet(PaymentsOf(m, cur)) /\ IsFiniteSet(CustomersOf(m))
    /\ Owed(m, cur) = SumOver(Left(m, cur))
    /\ SumOver(Held(m, cur)) + SumOver(Left(m, cur)) = Funded(m, cur)

LedgerInv == \A m \in Merchant, cur \in Currency : LedgerAt(m, cur)

LEMMA SummandTypes ==
    ASSUME TypeOK, NEW m \in Merchant, NEW cur \in Currency
    PROVE  /\ Left(m, cur) \in [PaymentsOf(m, cur) -> Int]
           /\ Held(m, cur) \in [CustomersOf(m) -> Int]
           /\ Owed(m, cur) \in Int /\ Funded(m, cur) \in Int
<1>1. \A p \in Payment : Remaining(p) \in Int
  BY DEF TypeOK, Remaining
<1>2. \A c \in Customer : Available(c, cur) \in Int
  <2> SUFFICES ASSUME NEW c \in Customer PROVE Available(c, cur) \in Int
    OBVIOUS
  <2> QED
    BY CashSums DEF Available
<1>3. Owed(m, cur) \in Int /\ Funded(m, cur) \in Int
  <2>1. Receivable(m, cur) \in LedgerAccount /\ Funding(m, cur) \in LedgerAccount
    BY DEF Receivable, Funding, LedgerAccount
  <2> QED
    BY <2>1 DEF TypeOK, Owed, Funded
<1> QED
  BY <1>1, <1>2, <1>3 DEF Left, Held, PaymentsOf, CustomersOf

(* What an operation has to show: how the two sums and the two accounts of *)
(* the ledger move.                                                        *)
LEMMA LedgerMoves ==
    ASSUME TypeOK, NEW m \in Merchant, NEW cur \in Currency, LedgerAt(m, cur),
           NEW x \in Int, NEW y \in Int,
           IsFiniteSet(PaymentsOf(m, cur)'), IsFiniteSet(CustomersOf(m)'),
           SumOver(Left(m, cur)') = SumOver(Left(m, cur)) + x,
           SumOver(Held(m, cur)') = SumOver(Held(m, cur)) + y,
           Owed(m, cur)' = Owed(m, cur) + x,
           Funded(m, cur)' = Funded(m, cur) + x + y
    PROVE  LedgerAt(m, cur)'
<1>1. SumOver(Left(m, cur)) \in Int /\ SumOver(Held(m, cur)) \in Int
  BY SummandTypes, SumType DEF LedgerAt
<1> QED
  BY <1>1 DEF LedgerAt

LEMMA LedgerStays ==
    ASSUME TypeOK, NEW m \in Merchant, NEW cur \in Currency, LedgerAt(m, cur),
           UNCHANGED <<PaymentsOf(m, cur), CustomersOf(m), Left(m, cur), Held(m, cur),
                       Owed(m, cur), Funded(m, cur)>>
    PROVE  LedgerAt(m, cur)'
<1>1. SumOver(Left(m, cur)) \in Int /\ SumOver(Held(m, cur)) \in Int
  BY SummandTypes, SumType DEF LedgerAt
<1>2. Owed(m, cur) \in Int /\ Funded(m, cur) \in Int
  BY SummandTypes
<1> QED
  BY <1>1, <1>2 DEF LedgerAt

(* Of the lines of a journal, the merchants' accounts they name. *)
LEMMA MerchantLines ==
    ASSUME NEW m \in Merchant, NEW cur \in Currency
    PROVE  /\ \A n \in Merchant, c \in Customer, e \in Currency :
                 /\ Receivable(m, cur) # FundingLines(n, c, e).debit
                 /\ Receivable(m, cur) # FundingLines(n, c, e).credit
                 /\ Funding(m, cur) = FundingLines(n, c, e).credit <=> n = m /\ e = cur
           /\ \A t \in Terms :
                 /\ Receivable(m, cur) = CaptureLines(t).debit
                        <=> t.merchant = m /\ t.currency = cur
                 /\ Receivable(m, cur) # CaptureLines(t).credit
                 /\ Funding(m, cur) # CaptureLines(t).credit
                 /\ Receivable(m, cur) # RefundLines(t).debit
                 /\ Receivable(m, cur) = RefundLines(t).credit
                        <=> t.merchant = m /\ t.currency = cur
                 /\ Funding(m, cur) # RefundLines(t).credit
<1>1. \A c \in Customer, e \in Currency, n \in Merchant :
          /\ Receivable(m, cur) # Cash(c, e)
          /\ Funding(m, cur) # Cash(c, e)
          /\ Receivable(m, cur) # Funding(n, e)
          /\ Funding(m, cur) # Receivable(n, e)
          /\ Funding(m, cur) = Funding(n, e) <=> n = m /\ e = cur
          /\ Receivable(m, cur) = Receivable(n, e) <=> n = m /\ e = cur
  BY DEF Cash, Receivable, Funding
<1> QED
  BY <1>1 DEF FundingLines, CaptureLines, RefundLines, Terms

(* A journal moves what a merchant is owed and was funded by the amount of *)
(* its lines that name the merchant's accounts.                            *)
LEMMA MerchantEntriesAdded ==
    ASSUME TypeOK, NEW lines, lines.debit \in LedgerAccount,
           lines.credit \in LedgerAccount, NEW n \in Nat, AddEntries(lines, n),
           NEW m \in Merchant, NEW cur \in Currency
    PROVE  /\ Owed(m, cur)' = Owed(m, cur)
                  + (IF Receivable(m, cur) = lines.debit THEN n ELSE 0)
                  - (IF Receivable(m, cur) = lines.credit THEN n ELSE 0)
           /\ Funded(m, cur)' = Funded(m, cur)
                  + (IF Funding(m, cur) = lines.credit THEN n ELSE 0)
<1>1. Receivable(m, cur) \in LedgerAccount /\ Funding(m, cur) \in LedgerAccount
  BY DEF Receivable, Funding, LedgerAccount
<1>2. debit \in [LedgerAccount -> Nat] /\ credit \in [LedgerAccount -> Nat]
  BY DEF TypeOK
<1>3. \A a \in LedgerAccount :
          /\ debit'[a] = IF a = lines.debit THEN debit[a] + n ELSE debit[a]
          /\ credit'[a] = IF a = lines.credit THEN credit[a] + n ELSE credit[a]
          /\ debit[a] \in Nat /\ credit[a] \in Nat
  BY <1>2, EntriesAdded
<1>4. /\ debit'[Receivable(m, cur)] = debit[Receivable(m, cur)]
              + (IF Receivable(m, cur) = lines.debit THEN n ELSE 0)
      /\ credit'[Receivable(m, cur)] = credit[Receivable(m, cur)]
              + (IF Receivable(m, cur) = lines.credit THEN n ELSE 0)
      /\ credit'[Funding(m, cur)] = credit[Funding(m, cur)]
              + (IF Funding(m, cur) = lines.credit THEN n ELSE 0)
      /\ debit[Receivable(m, cur)] \in Nat /\ credit[Receivable(m, cur)] \in Nat
  BY <1>1, <1>3
<1>5. Owed(m, cur)' = debit'[Receivable(m, cur)] - credit'[Receivable(m, cur)]
  BY DEF Owed
<1>6. Funded(m, cur)' = credit'[Funding(m, cur)]
  BY DEF Funded
<1> QED
  BY <1>4, <1>5, <1>6 DEF Owed, Funded

LEMMA HeldStays ==
    ASSUME UNCHANGED <<account, debit, credit>>, NEW m, NEW cur
    PROVE  UNCHANGED <<CustomersOf(m), Held(m, cur), Owed(m, cur), Funded(m, cur)>>
  BY DEF CustomersOf, Held, Available, Owed, Funded

LEMMA LeftStays ==
    ASSUME UNCHANGED <<terms, captured, refunded>>, NEW m, NEW cur,
           \A p \in Payment : status'[p] = Absent <=> status[p] = Absent
    PROVE  UNCHANGED <<PaymentsOf(m, cur), Left(m, cur)>>
  BY DEF PaymentsOf, Left, Remaining, Exists

(* Operations that move no money. *)
LEMMA LedgerUnmoved ==
    ASSUME TypeOK, LedgerInv, UNCHANGED <<account, debit, credit, terms, captured, refunded>>,
           \A p \in Payment : status'[p] = Absent <=> status[p] = Absent
    PROVE  LedgerInv'
<1> SUFFICES ASSUME NEW m \in Merchant, NEW cur \in Currency PROVE LedgerAt(m, cur)'
  BY DEF LedgerInv
<1>1. LedgerAt(m, cur)
  BY DEF LedgerInv
<1> QED
  BY <1>1, HeldStays, LeftStays, LedgerStays

(* A new customer holds no cash: there is none before the account exists.  *)
LEMMA LedgerCustomer ==
    ASSUME IInv, LedgerInv, TypeOK', NEW n \in Merchant, NEW c \in Customer,
           NEW e \in Currency, CreateCustomer(n, c, e)
    PROVE  LedgerInv'
<1>1. TypeOK /\ CashInAccountCurrency /\ NoOverdraft
  BY DEF IInv
<1>2. /\ account[c] = None
      /\ account' = [account EXCEPT ![c] = [merchant |-> n, currency |-> e]]
      /\ UNCHANGED <<terms, status, captured, refunded, debit, credit>>
  BY DEF CreateCustomer, payment, ledger
<1>3. [merchant |-> n, currency |-> e] \in Account /\ None \notin Account
  BY NoneAssumption DEF Account
<1>4. \A d \in Customer : account'[d] = IF d = c THEN [merchant |-> n, currency |-> e]
                                        ELSE account[d]
  BY <1>1, <1>2 DEF TypeOK
<1> SUFFICES ASSUME NEW m \in Merchant, NEW cur \in Currency PROVE LedgerAt(m, cur)'
  BY DEF LedgerInv
<1>5. LedgerAt(m, cur)
  BY DEF LedgerInv
<1>6. Available(c, cur) = 0
  <2>1. ~ (debit[Cash(c, cur)] > 0)
    BY <1>2, <1>3 , <1>1 DEF CashInAccountCurrency
  <2>2. debit[Cash(c, cur)] \in Nat /\ credit[Cash(c, cur)] \in Nat
    BY <1>1, CashSums
  <2>3. Available(c, cur) >= 0
    BY <1>1 DEF NoOverdraft
  <2> QED
    BY <2>1, <2>2, <2>3 DEF Available
<1>7. /\ UNCHANGED <<PaymentsOf(m, cur), Left(m, cur), Owed(m, cur), Funded(m, cur)>>
      /\ \A d : Available(d, cur)' = Available(d, cur)
  BY <1>2, LeftStays DEF Owed, Funded, Available
<1>8. CASE m = n
  <2>1. CustomersOf(m)' = CustomersOf(m) \cup {c} /\ c \notin CustomersOf(m)
    BY <1>2, <1>3, <1>4, <1>8 DEF CustomersOf
  <2>2. /\ Held(m, cur)' = [d \in CustomersOf(m) \cup {c} |-> Available(d, cur)]
        /\ \A d \in CustomersOf(m) : Held(m, cur)[d] = Available(d, cur)
    BY <1>7, <2>1 DEF Held
  <2>3. Held(m, cur) \in [CustomersOf(m) -> Int] /\ IsFiniteSet(CustomersOf(m))
    BY <1>1, <1>5, SummandTypes DEF LedgerAt
  <2>4. Held(m, cur)' \in [CustomersOf(m) \cup {c} -> Int]
    BY <1>6, <2>2, <2>3
  <2>5. SumOver(Held(m, cur)') = SumOver(Held(m, cur)) + 0
    <3>1. Held(m, cur)'[c] = 0 /\ \A d \in CustomersOf(m) : Held(m, cur)'[d] = Held(m, cur)[d]
      BY <1>6, <2>2
    <3> QED
      BY <2>1, <2>3, <2>4, <3>1, SumAdd
  <2>6. IsFiniteSet(CustomersOf(m)')
    BY <2>1, <2>3, FS_AddElement
  <2>7. SumOver(Left(m, cur)) \in Int /\ Owed(m, cur) \in Int /\ Funded(m, cur) \in Int
    BY <1>1, <1>5, SummandTypes, SumType DEF LedgerAt
  <2>8. IsFiniteSet(PaymentsOf(m, cur)')
    BY <1>5, <1>7 DEF LedgerAt
  <2>9. /\ SumOver(Left(m, cur)') = SumOver(Left(m, cur)) + 0
        /\ Owed(m, cur)' = Owed(m, cur) + 0
        /\ Funded(m, cur)' = Funded(m, cur) + 0 + 0
    BY <1>7, <2>7
  <2> QED
    BY <1>1, <1>5, <2>5, <2>6, <2>8, <2>9, LedgerMoves
<1>9. CASE m # n
  <2>1. CustomersOf(m)' = CustomersOf(m)
    BY <1>2, <1>4, <1>9 DEF CustomersOf
  <2>2. Held(m, cur)' = Held(m, cur)
    BY <1>7, <2>1 DEF Held
  <2> QED
    BY <1>1, <1>5, <1>7, <2>1, <2>2, LedgerStays
<1> QED
  BY <1>8, <1>9

(* A new payment has nothing left to refund. *)
LEMMA LedgerPayment ==
    ASSUME IInv, LedgerInv, NEW n \in Merchant, NEW k \in Key,
           NEW p \in Payment, NEW t \in Terms, CreatePayment(n, k, p, t)
    PROVE  LedgerInv'
<1>1. TypeOK /\ AmountsMatchStatus
  BY DEF IInv
<1>2. /\ status[p] = Absent
      /\ status' = [status EXCEPT ![p] = status'[p]] /\ status'[p] # Absent
      /\ terms' = [terms EXCEPT ![p] = t]
      /\ UNCHANGED <<account, captured, refunded, debit, credit>>
  BY <1>1 DEF CreatePayment, SetStatus, ledger, Absent, TypeOK
<1>3. \A q \in Payment : /\ terms'[q] = IF q = p THEN t ELSE terms[q]
                         /\ q # p => status'[q] = status[q]
  BY <1>1, <1>2 DEF TypeOK
<1>4. \A q : Remaining(q)' = Remaining(q)
  BY <1>2 DEF Remaining
<1>5. Remaining(p) = 0
  BY <1>1, <1>2 DEF AmountsMatchStatus, Settled, Absent, Remaining
<1> SUFFICES ASSUME NEW m \in Merchant, NEW cur \in Currency PROVE LedgerAt(m, cur)'
  BY DEF LedgerInv
<1>6. LedgerAt(m, cur)
  BY DEF LedgerInv
<1>7. UNCHANGED <<CustomersOf(m), Held(m, cur), Owed(m, cur), Funded(m, cur)>>
  BY <1>2, HeldStays
<1>8. p \notin PaymentsOf(m, cur)
  BY <1>2 DEF PaymentsOf, Exists
<1>9. CASE t.merchant = m /\ t.currency = cur
  <2>1. PaymentsOf(m, cur)' = PaymentsOf(m, cur) \cup {p}
    BY <1>2, <1>3, <1>9 DEF PaymentsOf, Exists
  <2>2. /\ Left(m, cur)' = [q \in PaymentsOf(m, cur) \cup {p} |-> Remaining(q)]
        /\ \A q \in PaymentsOf(m, cur) : Left(m, cur)[q] = Remaining(q)
    BY <1>4, <2>1 DEF Left
  <2>3. Left(m, cur) \in [PaymentsOf(m, cur) -> Int] /\ IsFiniteSet(PaymentsOf(m, cur))
    BY <1>1, <1>6, SummandTypes DEF LedgerAt
  <2>4. Left(m, cur)' \in [PaymentsOf(m, cur) \cup {p} -> Int]
    BY <1>5, <2>2, <2>3
  <2>5. SumOver(Left(m, cur)') = SumOver(Left(m, cur)) + 0
    <3>1. /\ Left(m, cur)'[p] = 0
          /\ \A q \in PaymentsOf(m, cur) : Left(m, cur)'[q] = Left(m, cur)[q]
      BY <1>5, <2>2
    <3> QED
      BY <1>8, <2>3, <2>4, <3>1, SumAdd
  <2>6. IsFiniteSet(PaymentsOf(m, cur)') /\ IsFiniteSet(CustomersOf(m)')
    BY <1>6, <1>7, <2>1, <2>3, FS_AddElement DEF LedgerAt
  <2>7. SumOver(Held(m, cur)) \in Int /\ Owed(m, cur) \in Int /\ Funded(m, cur) \in Int
    BY <1>1, <1>6, SummandTypes, SumType DEF LedgerAt
  <2>8. /\ SumOver(Held(m, cur)') = SumOver(Held(m, cur)) + 0
        /\ Owed(m, cur)' = Owed(m, cur) + 0
        /\ Funded(m, cur)' = Funded(m, cur) + 0 + 0
    BY <1>7, <2>7
  <2> QED
    BY <1>1, <1>6, <2>5, <2>6, <2>8, LedgerMoves
<1>10. CASE ~ (t.merchant = m /\ t.currency = cur)
  <2>1. PaymentsOf(m, cur)' = PaymentsOf(m, cur)
    BY <1>2, <1>3, <1>10 DEF PaymentsOf, Exists
  <2>2. Left(m, cur)' = Left(m, cur)
    BY <1>4, <2>1 DEF Left
  <2> QED
    BY <1>1, <1>6, <1>7, <2>1, <2>2, LedgerStays
<1> QED
  BY <1>9, <1>10

(* The money of one customer, or what is left of one payment, changes.     *)
HeldChange(c, e, y) ==
    \A d \in Customer, f \in Currency :
        Available(d, f)' = IF d = c /\ f = e THEN Available(d, f) + y ELSE Available(d, f)

LeftChange(p, x) ==
    \A q \in Payment : Remaining(q)' = IF q = p THEN Remaining(q) + x ELSE Remaining(q)

LEMMA HeldMoves ==
    ASSUME TypeOK, NEW m \in Merchant, NEW cur \in Currency, LedgerAt(m, cur),
           NEW c \in Customer, NEW e \in Currency, NEW y \in Int,
           account' = account, HeldChange(c, e, y)
    PROVE  /\ IsFiniteSet(CustomersOf(m)')
           /\ SumOver(Held(m, cur)') = SumOver(Held(m, cur))
                  + (IF c \in CustomersOf(m) /\ e = cur THEN y ELSE 0)
<1>1. CustomersOf(m)' = CustomersOf(m) /\ CustomersOf(m) \subseteq Customer
  BY DEF CustomersOf
<1>2. Held(m, cur) \in [CustomersOf(m) -> Int] /\ IsFiniteSet(CustomersOf(m))
  BY SummandTypes DEF LedgerAt
<1>3. SumOver(Held(m, cur)) \in Int
  BY <1>2, SumType
<1>4. /\ Held(m, cur)' = [d \in CustomersOf(m) |-> Available(d, cur)']
      /\ Held(m, cur) = [d \in CustomersOf(m) |-> Available(d, cur)]
  BY <1>1 DEF Held
<1>5. CASE c \in CustomersOf(m) /\ e = cur
  <2>1. /\ Held(m, cur)'[c] = Held(m, cur)[c] + y
        /\ \A d \in CustomersOf(m) \ {c} : Held(m, cur)'[d] = Held(m, cur)[d]
    BY <1>1, <1>4, <1>5 DEF HeldChange
  <2>2. Held(m, cur)' \in [CustomersOf(m) -> Int]
    BY <1>2, <1>4, <2>1
  <2>3. SumOver(Held(m, cur)') = SumOver(Held(m, cur)) + Held(m, cur)'[c] - Held(m, cur)[c]
    BY <1>2, <1>5, <2>1, <2>2, SumChange
  <2>4. Held(m, cur)[c] \in Int
    BY <1>2, <1>5
  <2> QED
    BY <1>1, <1>2, <1>3, <1>5, <2>1, <2>3, <2>4
<1>6. CASE ~ (c \in CustomersOf(m) /\ e = cur)
  <2>1. Held(m, cur)' = Held(m, cur)
    BY <1>1, <1>4, <1>6 DEF HeldChange
  <2> QED
    BY <1>1, <1>2, <1>3, <1>6, <2>1
<1> QED
  BY <1>5, <1>6

LEMMA LeftMoves ==
    ASSUME TypeOK, NEW m \in Merchant, NEW cur \in Currency, LedgerAt(m, cur),
           NEW p \in Payment, NEW x \in Int, terms' = terms,
           \A q \in Payment : status'[q] = Absent <=> status[q] = Absent,
           LeftChange(p, x)
    PROVE  /\ IsFiniteSet(PaymentsOf(m, cur)')
           /\ SumOver(Left(m, cur)') = SumOver(Left(m, cur))
                  + (IF p \in PaymentsOf(m, cur) THEN x ELSE 0)
<1>1. PaymentsOf(m, cur)' = PaymentsOf(m, cur) /\ PaymentsOf(m, cur) \subseteq Payment
  BY DEF PaymentsOf, Exists
<1>2. Left(m, cur) \in [PaymentsOf(m, cur) -> Int] /\ IsFiniteSet(PaymentsOf(m, cur))
  BY SummandTypes DEF LedgerAt
<1>3. SumOver(Left(m, cur)) \in Int
  BY <1>2, SumType
<1>4. /\ Left(m, cur)' = [q \in PaymentsOf(m, cur) |-> Remaining(q)']
      /\ Left(m, cur) = [q \in PaymentsOf(m, cur) |-> Remaining(q)]
  BY <1>1 DEF Left
<1>5. CASE p \in PaymentsOf(m, cur)
  <2>1. /\ Left(m, cur)'[p] = Left(m, cur)[p] + x
        /\ \A q \in PaymentsOf(m, cur) \ {p} : Left(m, cur)'[q] = Left(m, cur)[q]
    BY <1>1, <1>4, <1>5 DEF LeftChange
  <2>2. Left(m, cur)' \in [PaymentsOf(m, cur) -> Int]
    BY <1>2, <1>4, <2>1
  <2>3. SumOver(Left(m, cur)') = SumOver(Left(m, cur)) + Left(m, cur)'[p] - Left(m, cur)[p]
    BY <1>2, <1>5, <2>1, <2>2, SumChange
  <2>4. Left(m, cur)[p] \in Int
    BY <1>2, <1>5
  <2> QED
    BY <1>1, <1>2, <1>3, <1>5, <2>1, <2>3, <2>4
<1>6. CASE p \notin PaymentsOf(m, cur)
  <2>1. Left(m, cur)' = Left(m, cur)
    BY <1>1, <1>4, <1>6 DEF LeftChange
  <2> QED
    BY <1>1, <1>2, <1>3, <1>6, <2>1
<1> QED
  BY <1>5, <1>6

(* Funding: the customer's cash and the merchant's funding grow together.  *)
LEMMA LedgerFund ==
    ASSUME IInv, LedgerInv, NEW n \in Merchant, NEW c \in Customer,
           NEW e \in Currency, NEW a \in Amount, FundAccount(n, c, e, a)
    PROVE  LedgerInv'
<1>1. TypeOK /\ a \in Nat
  BY DEF IInv
<1>2. /\ account[c] # None /\ account[c].merchant = n
      /\ AddEntries(FundingLines(n, c, e), a)
      /\ UNCHANGED <<account, terms, status, captured, refunded>>
  BY DEF FundAccount, Fundable, payment
<1>3. HeldChange(c, e, a)
  <2> SUFFICES ASSUME NEW d \in Customer, NEW f \in Currency
               PROVE  Available(d, f)' = IF d = c /\ f = e THEN Available(d, f) + a
                                                           ELSE Available(d, f)
    BY DEF HeldChange
  <2>1. /\ debit'[Cash(d, f)] = IF d = c /\ f = e THEN debit[Cash(d, f)] + a
                                                   ELSE debit[Cash(d, f)]
        /\ credit'[Cash(d, f)] = credit[Cash(d, f)]
    BY <1>1, <1>2, LinesAreAccounts, CashLines, CashEntriesAdded
  <2>2. Available(d, f)' = debit'[Cash(d, f)] - credit'[Cash(d, f)]
    BY DEF Available
  <2> QED
    BY <1>1, <2>1, <2>2, CashSums DEF Available
<1> SUFFICES ASSUME NEW m \in Merchant, NEW cur \in Currency PROVE LedgerAt(m, cur)'
  BY DEF LedgerInv
<1>4. LedgerAt(m, cur) /\ Owed(m, cur) \in Int /\ Funded(m, cur) \in Int
  BY <1>1, SummandTypes DEF LedgerInv
<1> DEFINE y == IF n = m /\ e = cur THEN a ELSE 0
<1>5. Owed(m, cur)' = Owed(m, cur) + 0 /\ Funded(m, cur)' = Funded(m, cur) + 0 + y
  BY <1>1, <1>2, <1>4, LinesAreAccounts, MerchantLines, MerchantEntriesAdded
<1>6. IsFiniteSet(CustomersOf(m)') /\ SumOver(Held(m, cur)') = SumOver(Held(m, cur)) + y
  <2>1. c \in CustomersOf(m) <=> n = m
    BY <1>2 DEF CustomersOf
  <2> QED
    BY <1>1, <1>2, <1>3, <1>4, <2>1, HeldMoves
<1>7. /\ IsFiniteSet(PaymentsOf(m, cur)')
      /\ SumOver(Left(m, cur)') = SumOver(Left(m, cur)) + 0
  <2>1. SumOver(Left(m, cur)) \in Int
    BY <1>1, <1>4, SummandTypes, SumType DEF LedgerAt
  <2> QED
    BY <1>2, <1>4, <2>1, LeftStays DEF LedgerAt
<1>8. y \in Int
  BY <1>1
<1> HIDE DEF y
<1> QED
  BY <1>1, <1>4, <1>5, <1>6, <1>7, <1>8, LedgerMoves

(* A capture or a refund: what a payment has left, what its merchant is    *)
(* owed and what its customer holds move by the same amount.               *)
LEMMA LedgerSettle ==
    ASSUME IInv, LedgerInv, NEW p \in Payment, Exists(p), NEW x \in Int,
           UNCHANGED <<account, terms>>,
           \A q \in Payment : status'[q] = Absent <=> status[q] = Absent,
           LeftChange(p, x),
           NEW w \in Int, x + w = 0,
           HeldChange(terms[p].customer, terms[p].currency, w),
           \A m \in Merchant, cur \in Currency :
               /\ Owed(m, cur)' = IF m = terms[p].merchant /\ cur = terms[p].currency
                                  THEN Owed(m, cur) + x ELSE Owed(m, cur)
               /\ Funded(m, cur)' = Funded(m, cur)
    PROVE  LedgerInv'
<1> DEFINE t == terms[p]
<1>1. TypeOK /\ RowsComplete
  BY DEF IInv
<1>2. /\ t.customer \in Customer /\ t.currency \in Currency
      /\ account[t.customer] # None /\ account[t.customer].merchant = t.merchant
  BY <1>1, RowFacts, NoneAssumption DEF RowsComplete
<1> SUFFICES ASSUME NEW m \in Merchant, NEW cur \in Currency PROVE LedgerAt(m, cur)'
  BY DEF LedgerInv
<1> DEFINE z == IF t.merchant = m /\ t.currency = cur THEN x ELSE 0
           y == IF t.merchant = m /\ t.currency = cur THEN w ELSE 0
<1>3. LedgerAt(m, cur) /\ Owed(m, cur) \in Int /\ Funded(m, cur) \in Int
  BY <1>1, SummandTypes DEF LedgerInv
<1>4. IsFiniteSet(PaymentsOf(m, cur)') /\ SumOver(Left(m, cur)') = SumOver(Left(m, cur)) + z
  <2>1. p \in PaymentsOf(m, cur) <=> t.merchant = m /\ t.currency = cur
    BY DEF PaymentsOf
  <2> QED
    BY <1>1, <1>3, <2>1, LeftMoves
<1>5. IsFiniteSet(CustomersOf(m)') /\ SumOver(Held(m, cur)') = SumOver(Held(m, cur)) + y
  <2>1. t.customer \in CustomersOf(m) <=> t.merchant = m
    BY <1>2 DEF CustomersOf
  <2> QED
    BY <1>1, <1>2, <1>3, <2>1, HeldMoves
<1>6. Owed(m, cur)' = Owed(m, cur) + z /\ Funded(m, cur)' = Funded(m, cur) + z + y
  BY <1>3
<1>7. z \in Int /\ y \in Int
  OBVIOUS
<1> HIDE DEF y, z
<1> QED
  BY <1>1, <1>3, <1>4, <1>5, <1>6, <1>7, LedgerMoves

LEMMA LedgerCapture ==
    ASSUME IInv, LedgerInv, NEW n \in Merchant, NEW p \in Payment, Capture(n, p)
    PROVE  LedgerInv'
<1> DEFINE t == terms[p]
<1>1. /\ TypeOK /\ RowsComplete /\ AmountsMatchStatus /\ Exists(p)
      /\ status[p] \notin Settled
  BY DEF IInv, Capture, MayBecome, Allowed, PaymentStatus, Settled
<1>2. t \in Terms /\ t.amount \in Int /\ t.amount \in Nat
  BY <1>1, RowFacts
<1>3. /\ AddEntries(CaptureLines(t), t.amount)
      /\ status' = [status EXCEPT ![p] = "CAPTURED"]
      /\ captured' = [captured EXCEPT ![p] = t.amount]
      /\ UNCHANGED <<account, terms, refunded>>
  BY DEF Capture, SetStatus
<1>4. \A q \in Payment : status'[q] = Absent <=> status[q] = Absent
  BY <1>1, <1>3 DEF TypeOK, Exists, Absent
<1>5. LeftChange(p, t.amount)
  BY <1>1, <1>2, <1>3 DEF TypeOK, AmountsMatchStatus, Remaining, LeftChange
<1> DEFINE w == 0 - t.amount
<1>6. HeldChange(t.customer, t.currency, w)
  <2> SUFFICES ASSUME NEW d \in Customer, NEW f \in Currency
               PROVE  Available(d, f)' = IF d = t.customer /\ f = t.currency
                                         THEN Available(d, f) + w ELSE Available(d, f)
    BY DEF HeldChange
  <2>1. /\ debit'[Cash(d, f)] = debit[Cash(d, f)]
        /\ credit'[Cash(d, f)] = IF d = t.customer /\ f = t.currency
                                 THEN credit[Cash(d, f)] + t.amount
                                 ELSE credit[Cash(d, f)]
    BY <1>1, <1>2, <1>3, LinesAreAccounts, CashLines, CashEntriesAdded
  <2>2. Available(d, f)' = debit'[Cash(d, f)] - credit'[Cash(d, f)]
    BY DEF Available
  <2> QED
    BY <1>1, <1>2, <2>1, <2>2, CashSums DEF Available
<1>7. \A m \in Merchant, cur \in Currency :
          /\ Owed(m, cur)' = IF m = t.merchant /\ cur = t.currency
                             THEN Owed(m, cur) + t.amount ELSE Owed(m, cur)
          /\ Funded(m, cur)' = Funded(m, cur)
  <2> SUFFICES ASSUME NEW m \in Merchant, NEW cur \in Currency
               PROVE  /\ Owed(m, cur)' = IF m = t.merchant /\ cur = t.currency
                                         THEN Owed(m, cur) + t.amount ELSE Owed(m, cur)
                      /\ Funded(m, cur)' = Funded(m, cur)
    OBVIOUS
  <2>1. Owed(m, cur) \in Int /\ Funded(m, cur) \in Int
    BY <1>1, SummandTypes
  <2>2. /\ Owed(m, cur)' = Owed(m, cur)
               + (IF Receivable(m, cur) = CaptureLines(t).debit THEN t.amount ELSE 0)
               - (IF Receivable(m, cur) = CaptureLines(t).credit THEN t.amount ELSE 0)
        /\ Funded(m, cur)' = Funded(m, cur)
               + (IF Funding(m, cur) = CaptureLines(t).credit THEN t.amount ELSE 0)
    BY <1>1, <1>2, <1>3, LinesAreAccounts, MerchantEntriesAdded
  <2> QED
    BY <1>2, <2>1, <2>2, MerchantLines
<1>8. w \in Int /\ t.amount + w = 0
  BY <1>2
<1> HIDE DEF w
<1> QED
  BY <1>1, <1>2, <1>3, <1>4, <1>5, <1>6, <1>7, <1>8, LedgerSettle

LEMMA LedgerRefund ==
    ASSUME IInv, LedgerInv, NEW n \in Merchant, NEW p \in Payment, NEW a \in Amount,
           Refund(n, p, a)
    PROVE  LedgerInv'
<1> DEFINE t == terms[p]
<1>1. TypeOK /\ RowsComplete /\ Exists(p) /\ a \in Nat
  BY DEF IInv, Refund
<1>2. t \in Terms
  BY <1>1, RowFacts
<1>3. /\ AddEntries(RefundLines(t), a)
      /\ SetStatus(p, StatusAfterRefund(captured[p], refunded[p] + a))
      /\ refunded' = [refunded EXCEPT ![p] = refunded[p] + a]
      /\ UNCHANGED <<account, terms, captured>>
  BY DEF Refund
<1>4. \A q \in Payment : status'[q] = Absent <=> status[q] = Absent
  BY <1>1, <1>3 DEF TypeOK, Exists, Absent, SetStatus, StatusAfterRefund
<1> DEFINE x == 0 - a
<1>5. LeftChange(p, x)
  BY <1>1, <1>3 DEF TypeOK, Remaining, LeftChange
<1>6. HeldChange(t.customer, t.currency, a)
  <2> SUFFICES ASSUME NEW d \in Customer, NEW f \in Currency
               PROVE  Available(d, f)' = IF d = t.customer /\ f = t.currency
                                         THEN Available(d, f) + a ELSE Available(d, f)
    BY DEF HeldChange
  <2>1. /\ debit'[Cash(d, f)] = IF d = t.customer /\ f = t.currency
                                THEN debit[Cash(d, f)] + a ELSE debit[Cash(d, f)]
        /\ credit'[Cash(d, f)] = credit[Cash(d, f)]
    BY <1>1, <1>2, <1>3, LinesAreAccounts, CashLines, CashEntriesAdded
  <2>2. Available(d, f)' = debit'[Cash(d, f)] - credit'[Cash(d, f)]
    BY DEF Available
  <2> QED
    BY <1>1, <2>1, <2>2, CashSums DEF Available
<1>7. \A m \in Merchant, cur \in Currency :
          /\ Owed(m, cur)' = IF m = t.merchant /\ cur = t.currency
                             THEN Owed(m, cur) + x ELSE Owed(m, cur)
          /\ Funded(m, cur)' = Funded(m, cur)
  <2> SUFFICES ASSUME NEW m \in Merchant, NEW cur \in Currency
               PROVE  /\ Owed(m, cur)' = IF m = t.merchant /\ cur = t.currency
                                         THEN Owed(m, cur) + x ELSE Owed(m, cur)
                      /\ Funded(m, cur)' = Funded(m, cur)
    OBVIOUS
  <2>1. Owed(m, cur) \in Int /\ Funded(m, cur) \in Int
    BY <1>1, SummandTypes
  <2>2. /\ Owed(m, cur)' = Owed(m, cur)
               + (IF Receivable(m, cur) = RefundLines(t).debit THEN a ELSE 0)
               - (IF Receivable(m, cur) = RefundLines(t).credit THEN a ELSE 0)
        /\ Funded(m, cur)' = Funded(m, cur)
               + (IF Funding(m, cur) = RefundLines(t).credit THEN a ELSE 0)
    BY <1>1, <1>2, <1>3, LinesAreAccounts, MerchantEntriesAdded
  <2> QED
    BY <1>1, <1>2, <2>1, <2>2, MerchantLines
<1>8. x \in Int /\ x + a = 0 /\ a \in Int
  BY <1>1
<1> HIDE DEF x
<1> QED
  BY <1>1, <1>3, <1>4, <1>5, <1>6, <1>7, <1>8, LedgerSettle

LEMMA InitLedger == Init => LedgerInv
<1> SUFFICES ASSUME Init, NEW m \in Merchant, NEW cur \in Currency PROVE LedgerAt(m, cur)
  BY DEF LedgerInv
<1>1. PaymentsOf(m, cur) = {} /\ CustomersOf(m) = {}
  BY DEF Init, PaymentsOf, CustomersOf, Exists
<1>2. Left(m, cur) \in [{} -> Int] /\ Held(m, cur) \in [{} -> Int]
  BY <1>1 DEF Left, Held
<1>3. SumOver(Left(m, cur)) = 0 /\ SumOver(Held(m, cur)) = 0
  BY <1>2, SumEmpty
<1>4. Owed(m, cur) = 0 /\ Funded(m, cur) = 0
  <2>1. Receivable(m, cur) \in LedgerAccount /\ Funding(m, cur) \in LedgerAccount
    BY DEF Receivable, Funding, LedgerAccount
  <2> QED
    BY <2>1 DEF Init, Owed, Funded
<1> QED
  BY <1>1, <1>3, <1>4, FS_EmptySet DEF LedgerAt

LEMMA LedgerStep == IInv /\ LedgerInv /\ [Next]_vars => LedgerInv'
<1> SUFFICES ASSUME IInv, LedgerInv, [Next]_vars PROVE LedgerInv'
  OBVIOUS
<1>1. TypeOK /\ TypeOK'
  BY IInvStep DEF IInv
<1>2. CASE UNCHANGED vars
  BY <1>1, <1>2, LedgerUnmoved DEF vars, payment, ledger
<1>3. ASSUME NEW m \in Merchant, NEW l, CreateMerchant(m, l) PROVE LedgerInv'
  BY <1>1, <1>3, LedgerUnmoved DEF CreateMerchant, payment, ledger
<1>4. ASSUME NEW m \in Merchant, NEW p \in Payment,
             Authorize(m, p) \/ Decline(m, p) \/ Cancel(m, p)
      PROVE  LedgerInv'
  <2>1. UNCHANGED <<account, debit, credit, terms, captured, refunded>> /\ Exists(p)
    BY <1>4 DEF Authorize, Decline, Cancel, ledger
  <2>2. PICK s \in {"AUTHORIZED", "FAILED", "CANCELLED"} : status' = [status EXCEPT ![p] = s]
    BY <1>4 DEF Authorize, Decline, Cancel, SetStatus
  <2>3. \A q \in Payment : status'[q] = Absent <=> status[q] = Absent
    BY <1>1, <2>1, <2>2 DEF TypeOK, Exists, Absent
  <2> QED
    BY <1>1, <2>1, <2>3, LedgerUnmoved
<1> QED
  BY <1>1, <1>2, <1>3, <1>4, LedgerCustomer, LedgerFund, LedgerPayment,
     LedgerCapture, LedgerRefund DEF Next

(* The sums of LedgerMatchesPayments are those of Left and Held: the       *)
(* functions that compute them are the same.                               *)
LEMMA SumOfLeft ==
    ASSUME TypeOK, NEW m \in Merchant, NEW cur \in Currency,
           IsFiniteSet(PaymentsOf(m, cur))
    PROVE  MapThenSumSet(Remaining, PaymentsOf(m, cur)) = SumOver(Left(m, cur))
<1> DEFINE S == PaymentsOf(m, cur)
           Iter(x) == x = [s \in SUBSET S |->
                             IF s = {} THEN 0
                             ELSE Remaining(CHOOSE y \in s : TRUE)
                                      + x[s \ {CHOOSE y \in s : TRUE}]]
<1>1. PICK it : it = (CHOOSE x : Iter(x)) /\ MapThenSumSet(Remaining, S) = it[S]
  BY DEF MapThenSumSet, MapThenFoldSet
<1>2. \A s \in SUBSET S : s # {} => (CHOOSE y \in s : TRUE) \in s
  OBVIOUS
<1>3. \A x : Sums(x, Left(m, cur), S) <=> Iter(x)
  BY <1>2 DEF Sums, Pick, Left
<1>4. Left(m, cur) \in [S -> Int]
  BY SummandTypes
<1> HIDE DEF S, Iter
<1>5. \E x : Sums(x, Left(m, cur), S)
  BY <1>4, SumsExist DEF S
<1>6. Sums(it, Left(m, cur), S)
  BY <1>1, <1>3, <1>5
<1>7. SumOver(Left(m, cur)) = it[S]
  BY <1>4, <1>6, SumOverIs DEF S
<1> QED
  BY <1>1, <1>7 DEF S

LEMMA SumOfHeld ==
    ASSUME TypeOK, NEW m \in Merchant, NEW cur \in Currency, IsFiniteSet(CustomersOf(m))
    PROVE  MapThenSumSet(LAMBDA c : Available(c, cur), CustomersOf(m))
               = SumOver(Held(m, cur))
<1> DEFINE S == CustomersOf(m)
           Iter(x) == x = [s \in SUBSET S |->
                             IF s = {} THEN 0
                             ELSE Available(CHOOSE y \in s : TRUE, cur)
                                      + x[s \ {CHOOSE y \in s : TRUE}]]
<1>1. PICK it : /\ it = (CHOOSE x : Iter(x))
                /\ MapThenSumSet(LAMBDA c : Available(c, cur), S) = it[S]
  BY DEF MapThenSumSet, MapThenFoldSet
<1>2. \A s \in SUBSET S : s # {} => (CHOOSE y \in s : TRUE) \in s
  OBVIOUS
<1>3. \A x : Sums(x, Held(m, cur), S) <=> Iter(x)
  BY <1>2 DEF Sums, Pick, Held
<1>4. Held(m, cur) \in [S -> Int]
  BY SummandTypes
<1> HIDE DEF S, Iter
<1>5. \E x : Sums(x, Held(m, cur), S)
  BY <1>4, SumsExist DEF S
<1>6. Sums(it, Held(m, cur), S)
  BY <1>1, <1>3, <1>5
<1>7. SumOver(Held(m, cur)) = it[S]
  BY <1>4, <1>6, SumOverIs DEF S
<1> QED
  BY <1>1, <1>7 DEF S

LEMMA LedgerFollows == IInv /\ LedgerInv => LedgerMatchesPayments
<1> SUFFICES ASSUME IInv, LedgerInv, NEW m \in Merchant, NEW cur \in Currency
             PROVE  /\ Owed(m, cur) = MapThenSumSet(Remaining, PaymentsOf(m, cur))
                    /\ MapThenSumSet(LAMBDA c : Available(c, cur), CustomersOf(m))
                          + MapThenSumSet(Remaining, PaymentsOf(m, cur)) = Funded(m, cur)
  BY DEF LedgerMatchesPayments, Owed, Funded, PaymentsOf, CustomersOf
<1>1. LedgerAt(m, cur) /\ TypeOK
  BY DEF LedgerInv, IInv
<1>2. MapThenSumSet(Remaining, PaymentsOf(m, cur)) = SumOver(Left(m, cur))
  BY <1>1, SumOfLeft DEF LedgerAt
<1>3. MapThenSumSet(LAMBDA c : Available(c, cur), CustomersOf(m)) = SumOver(Held(m, cur))
  BY <1>1, SumOfHeld DEF LedgerAt
<1> QED
  BY <1>1, <1>2, <1>3 DEF LedgerAt

(* service.py and domain/ledger.py: however much is funded, captured and   *)
(* refunded, and in any order, a merchant is owed what its payments have   *)
(* left, and no money appears or disappears.                               *)
THEOREM LedgerAgrees == Spec => []LedgerMatchesPayments
<1>1. Init => IInv /\ LedgerInv
  BY InitIInv, InitLedger
<1>2. IInv /\ LedgerInv /\ [Next]_vars => (IInv /\ LedgerInv)'
  BY IInvStep, LedgerStep
<1> QED
  BY <1>1, <1>2, LedgerFollows, PTL DEF Spec

-----------------------------------------------------------------------------
(* Replaying events.  FoldLeft applies the events of a sequence in order,  *)
(* so that one more event acts on what those before it led to.             *)

NoRow == [status |-> Absent, captured |-> 0, refunded |-> 0]
RowOf(p) == [status |-> status[p], captured |-> captured[p], refunded |-> refunded[p]]

PaymentRow == [status : PaymentStatus \cup {Absent}, captured : Nat, refunded : Nat]
OutboxEvent == [type : EventType, amount : Nat]

Replayed(q) == FoldLeft(AfterEvent, NoRow, q)

(* g is the function FoldLeft computes with, on sets of positions. *)
Replays(g, q) ==
    g = [s \in SUBSET DOMAIN q |->
            IF s = {} THEN NoRow ELSE AfterEvent(g[s \ {Max(s)}], q[Max(s)])]

LEMMA RowAfterEvent ==
    ASSUME NEW row \in PaymentRow, NEW e \in OutboxEvent
    PROVE  AfterEvent(row, e) \in PaymentRow
<1>1. row.captured \in Nat /\ row.refunded + e.amount \in Nat
  BY DEF PaymentRow, OutboxEvent
<1>2. CASE e.type = "payment.captured"
  BY <1>2 DEF AfterEvent, PaymentRow, OutboxEvent, PaymentStatus
<1>3. CASE e.type = "payment.refunded"
  <2> DEFINE total == row.refunded + e.amount
             s == StatusAfterRefund(row.captured, total)
  <2>1. s \in PaymentStatus
    BY DEF StatusAfterRefund, PaymentStatus
  <2>2. AfterEvent(row, e) = [row EXCEPT !.refunded = total, !.status = s]
    BY <1>3 DEF AfterEvent
  <2> HIDE DEF s, total
  <2>3. total \in Nat
    BY <1>1 DEF total
  <2> QED
    BY <2>1, <2>2, <2>3 DEF PaymentRow
<1>4. CASE e.type \in EventType \ {"payment.captured", "payment.refunded"}
  <2>1. PICK s \in PaymentStatus : AfterEvent(row, e) = [row EXCEPT !.status = s]
    BY <1>4 DEF AfterEvent, EventType, PaymentStatus
  <2> QED
    BY <2>1 DEF PaymentRow
<1> QED
  BY <1>2, <1>3, <1>4 DEF OutboxEvent

LEMMA LastPosition ==
    ASSUME NEW n \in Nat, NEW s \in SUBSET (1..n), s # {}
    PROVE  Max(s) \in s /\ \A i \in s : Max(s) >= i
<1> DEFINE T == {n - i : i \in s}
<1>1. T \in SUBSET Nat /\ T # {}
  <2>1. PICK i \in s : TRUE
    OBVIOUS
  <2>2. n - i \in T
    OBVIOUS
  <2>3. \A j \in s : n - j \in Nat
    OBVIOUS
  <2> QED
    BY <2>2, <2>3
<1>2. PICK k \in T : \A j \in T : k <= j
  <2> HIDE DEF T
  <2> QED
    BY <1>1, LeastNumber
<1>3. PICK i \in s : k = n - i
  BY <1>2
<1>4. \A j \in s : i >= j
  <2> SUFFICES ASSUME NEW j \in s PROVE i >= j
    OBVIOUS
  <2>1. n - j \in T
    OBVIOUS
  <2>2. k <= n - j
    BY <1>2, <2>1
  <2> QED
    BY <1>3, <2>2
<1> QED
  BY <1>4 DEF Max

LEMMA ReplayExists ==
    ASSUME NEW q \in Seq(OutboxEvent)
    PROVE  \E g : Replays(g, q)
<1> DEFINE n == Len(q)
           S == 1..n
           pick == [s \in SUBSET S |-> Max(s)]
           step == [sv \in (SUBSET S) \X PaymentRow |->
                       IF sv[1] = {} THEN NoRow ELSE AfterEvent(sv[2], q[Max(sv[1])])]
<1>1. n \in Nat /\ DOMAIN q = S /\ IsFiniteSet(S)
  BY FS_Interval
<1>2. \A s \in SUBSET S : s # {} => Max(s) \in s
  BY <1>1, LastPosition
<1>3. Picks(pick, S)
  BY <1>2 DEF Picks
<1>4. NoRow \in PaymentRow
  BY DEF NoRow, PaymentRow
<1>5. step \in [(SUBSET S) \X PaymentRow -> PaymentRow]
  <2> SUFFICES ASSUME NEW s \in SUBSET S, NEW row \in PaymentRow, s # {}
               PROVE  AfterEvent(row, q[Max(s)]) \in PaymentRow
    BY <1>4
  <2>1. q[Max(s)] \in OutboxEvent
    <3>1. Max(s) \in DOMAIN q
      BY <1>1, <1>2
    <3> QED
      BY <3>1
  <2> QED
    BY <2>1, RowAfterEvent
<1>6. PICK g \in [SUBSET S -> PaymentRow] : FoldsOn(g, NoRow, step, pick, S)
  <2> HIDE DEF step, pick, S
  <2> QED
    BY <1>1, <1>3, <1>4, <1>5, FoldExists
<1>7. ASSUME NEW s \in SUBSET S
      PROVE  g[s] = IF s = {} THEN NoRow ELSE AfterEvent(g[s \ {Max(s)}], q[Max(s)])
  <2>1. g[s] = IF s = {} THEN NoRow ELSE step[<<s, g[s \ {pick[s]}]>>]
    <3> HIDE DEF step, pick, S
    <3> QED
      BY <1>6, <1>7 DEF FoldsOn
  <2>2. s \ {Max(s)} \in SUBSET S
    OBVIOUS
  <2>3. <<s, g[s \ {Max(s)}]>> \in (SUBSET S) \X PaymentRow
    BY <1>6, <2>2
  <2> QED
    BY <2>1, <2>3
<1> HIDE DEF S, pick, step
<1> QED
  BY <1>1, <1>6, <1>7 DEF Replays

LEMMA ReplayedIs ==
    ASSUME NEW q \in Seq(OutboxEvent)
    PROVE  \E g : Replays(g, q) /\ Replayed(q) = g[DOMAIN q]
<1> DEFINE Iter(x) == x = [s \in SUBSET DOMAIN q |->
                             IF s = {} THEN NoRow
                             ELSE AfterEvent(x[s \ {Max(s)}], q[Max(s)])]
<1>1. PICK it : it = (CHOOSE x : Iter(x)) /\ Replayed(q) = it[DOMAIN q]
  BY DEF Replayed, FoldLeft, MapThenFoldSet
<1>2. \A x : Replays(x, q) <=> Iter(x)
  BY DEF Replays
<1>3. \E x : Replays(x, q)
  BY ReplayExists
<1> HIDE DEF Iter
<1> QED
  BY <1>1, <1>2, <1>3

(* Only the prefixes of the sequence matter. *)
LEMMA ReplayPrefix ==
    ASSUME NEW q \in Seq(OutboxEvent), NEW g, Replays(g, q)
    PROVE  /\ g[1..0] = NoRow
           /\ \A k \in 1..Len(q) : g[1..k] = AfterEvent(g[1..(k - 1)], q[k])
<1>1. DOMAIN q = 1..Len(q) /\ Len(q) \in Nat
  OBVIOUS
<1>2. \A s \in SUBSET (1..Len(q)) :
          g[s] = IF s = {} THEN NoRow ELSE AfterEvent(g[s \ {Max(s)}], q[Max(s)])
  BY <1>1 DEF Replays
<1>3. 1..0 = {}
  OBVIOUS
<1>4. ASSUME NEW k \in 1..Len(q)
      PROVE  g[1..k] = AfterEvent(g[1..(k - 1)], q[k])
  <2>1. 1..k \in SUBSET (1..Len(q)) /\ 1..k # {} /\ k \in Nat
    <3>1. k \in 1..k /\ k \in Nat /\ k <= Len(q)
      BY <1>1
    <3>2. \A i \in 1..k : i \in 1..Len(q)
      BY <1>1, <3>1
    <3> QED
      BY <3>1, <3>2
  <2>2. Max(1..k) \in 1..k /\ \A i \in 1..k : Max(1..k) >= i
    BY <1>1, <2>1, LastPosition
  <2>3. Max(1..k) = k
    BY <2>1, <2>2
  <2>4. (1..k) \ {k} = 1..(k - 1)
    BY <2>1
  <2> QED
    BY <1>2, <2>1, <2>3, <2>4
<1> QED
  BY <1>2, <1>3, <1>4

LEMMA ReplayEmpty == Replayed(<<>>) = NoRow
<1>1. <<>> \in Seq(OutboxEvent) /\ DOMAIN <<>> = 1..0
  OBVIOUS
<1> DEFINE q == <<>>
<1>2. PICK g : Replays(g, q) /\ Replayed(q) = g[DOMAIN q]
  BY <1>1, ReplayedIs
<1>3. g[1..0] = NoRow
  BY <1>1, <1>2, ReplayPrefix
<1> QED
  BY <1>1, <1>2, <1>3

LEMMA ReplayAppend ==
    ASSUME NEW q \in Seq(OutboxEvent), NEW e \in OutboxEvent
    PROVE  Replayed(Append(q, e)) = AfterEvent(Replayed(q), e)
<1> DEFINE r == Append(q, e)
           n == Len(q)
<1>1. /\ r \in Seq(OutboxEvent) /\ Len(r) = n + 1 /\ r[n + 1] = e /\ n \in Nat
      /\ \A i \in 1..n : r[i] = q[i]
      /\ DOMAIN q = 1..n /\ DOMAIN r = 1..(n + 1)
  OBVIOUS
<1>2. PICK g : Replays(g, q) /\ Replayed(q) = g[1..n]
  BY <1>1, ReplayedIs
<1> HIDE DEF r
<1>3. PICK h : Replays(h, r) /\ Replayed(r) = h[1..(n + 1)]
  BY <1>1, ReplayedIs
<1>4. g[1..n] = h[1..n]
  <2> DEFINE T == {k \in 0..n : g[1..k] # h[1..k]}
  <2> SUFFICES T = {}
    BY <1>1
  <2> SUFFICES ASSUME T # {} PROVE FALSE
    OBVIOUS
  <2>1. T \in SUBSET Nat
    BY <1>1
  <2>2. PICK k \in T : \A j \in T : k <= j
    <3> HIDE DEF T
    <3> QED
      BY <2>1, LeastNumber
  <2>3. g[1..0] = h[1..0]
    BY <1>1, <1>2, <1>3, ReplayPrefix
  <2>4. k \in 1..n /\ k \in 1..(n + 1)
    BY <1>1, <2>2, <2>3
  <2>5. k - 1 \in 0..n /\ k - 1 \notin T
    BY <1>1, <2>2, <2>4
  <2>6. g[1..(k - 1)] = h[1..(k - 1)]
    BY <2>5
  <2>7. g[1..k] = AfterEvent(g[1..(k - 1)], q[k])
    BY <1>2, <2>4, ReplayPrefix
  <2>8. h[1..k] = AfterEvent(h[1..(k - 1)], r[k])
    BY <1>1, <1>3, <2>4, ReplayPrefix
  <2>9. r[k] = q[k]
    BY <1>1, <2>4
  <2> QED
    BY <2>2, <2>6, <2>7, <2>8, <2>9
<1>5. h[1..(n + 1)] = AfterEvent(h[1..n], e)
  <2>1. n + 1 \in 1..Len(r) /\ (n + 1) - 1 = n
    BY <1>1
  <2>2. h[1..(n + 1)] = AfterEvent(h[1..((n + 1) - 1)], r[n + 1])
    BY <1>1, <1>3, <2>1, ReplayPrefix
  <2> QED
    BY <1>1, <2>1, <2>2
<1>6. Replayed(r) = AfterEvent(Replayed(q), e)
  BY <1>2, <1>3, <1>4, <1>5
<1> QED
  BY <1>6 DEF r

LEMMA ReplayOfOutbox ==
    EventsReplayToRow <=> \A p \in Payment : Replayed(outbox[p]) = RowOf(p)
  BY DEF EventsReplayToRow, Replayed, NoRow, RowOf

(* An operation that emits one event, which says what became of the row.   *)
LEMMA EmitReplay ==
    ASSUME TypeOK, EventsReplayToRow, NEW p \in Payment, NEW type \in EventType,
           NEW a \in Nat, Emit(p, type, a),
           RowOf(p)' = AfterEvent(RowOf(p), Event(type, a)),
           \A q \in Payment \ {p} : RowOf(q)' = RowOf(q)
    PROVE  EventsReplayToRow'
<1> DEFINE e == Event(type, a)
<1>1. e \in OutboxEvent
  BY DEF Event, OutboxEvent
<1>2. \A q \in Payment : outbox[q] \in Seq(OutboxEvent)
  BY DEF TypeOK, OutboxEvent
<1>3. \A q \in Payment : outbox'[q] = IF q = p THEN Append(outbox[p], e) ELSE outbox[q]
  BY DEF Emit, TypeOK
<1> HIDE DEF e
<1>4. \A q \in Payment : Replayed(outbox[q]) = RowOf(q)
  BY ReplayOfOutbox
<1>5. Replayed(outbox'[p]) = AfterEvent(RowOf(p), e)
  BY <1>1, <1>2, <1>3, <1>4, ReplayAppend
<1>6. \A q \in Payment : Replayed(outbox'[q]) = RowOf(q)'
  BY <1>3, <1>4, <1>5 DEF e
<1> QED
  BY <1>6 DEF EventsReplayToRow, Replayed, NoRow, RowOf

LEMMA OutboxUnchanged ==
    ASSUME EventsReplayToRow, UNCHANGED <<status, captured, refunded, outbox>>
    PROVE  EventsReplayToRow'
  BY DEF EventsReplayToRow

LEMMA InitReplay == Init => EventsReplayToRow
<1> SUFFICES ASSUME Init, NEW p \in Payment PROVE Replayed(outbox[p]) = RowOf(p)
  BY ReplayOfOutbox
<1> QED
  BY ReplayEmpty DEF Init, RowOf, NoRow

LEMMA ReplayStep == IInv /\ EventsReplayToRow /\ [Next]_vars => EventsReplayToRow'
<1> SUFFICES ASSUME IInv, EventsReplayToRow, [Next]_vars PROVE EventsReplayToRow'
  OBVIOUS
<1>1. TypeOK /\ RowsComplete /\ AmountsMatchStatus
  BY DEF IInv
<1>2. CASE UNCHANGED vars
  BY <1>2, OutboxUnchanged DEF vars, payment
<1>3. ASSUME NEW m \in Merchant, NEW l, CreateMerchant(m, l) PROVE EventsReplayToRow'
  BY <1>3, OutboxUnchanged DEF CreateMerchant, payment
<1>4. ASSUME NEW m \in Merchant, NEW c \in Customer, NEW e \in Currency,
             \/ CreateCustomer(m, c, e)
             \/ \E a \in Amount : FundAccount(m, c, e, a)
      PROVE  EventsReplayToRow'
  BY <1>4, OutboxUnchanged DEF CreateCustomer, FundAccount, payment
<1>5. ASSUME NEW p \in Payment, NEW type \in EventType \ {"payment.captured", "payment.refunded"},
             NEW a \in Nat, NEW s, Emit(p, type, a), SetStatus(p, s),
             \A row : AfterEvent(row, Event(type, a)) = [row EXCEPT !.status = s],
             UNCHANGED <<captured, refunded>>
      PROVE  EventsReplayToRow'
  <2>1. RowOf(p)' = AfterEvent(RowOf(p), Event(type, a))
    <3>1. AfterEvent(RowOf(p), Event(type, a)) = [RowOf(p) EXCEPT !.status = s]
      BY <1>5
    <3>2. status'[p] = s
      BY <1>1, <1>5 DEF SetStatus, TypeOK
    <3> QED
      BY <1>5, <3>1, <3>2 DEF RowOf
  <2>2. \A q \in Payment \ {p} : RowOf(q)' = RowOf(q)
    BY <1>1, <1>5 DEF RowOf, SetStatus, TypeOK
  <2> QED
    BY <1>1, <1>5, <2>1, <2>2, EmitReplay
<1>6. \A row, a :
          /\ AfterEvent(row, Event("payment.created", a)) = [row EXCEPT !.status = "PENDING"]
          /\ AfterEvent(row, Event("payment.authorized", a)) = [row EXCEPT !.status = "AUTHORIZED"]
          /\ AfterEvent(row, Event("payment.failed", a)) = [row EXCEPT !.status = "FAILED"]
          /\ AfterEvent(row, Event("payment.cancelled", a)) = [row EXCEPT !.status = "CANCELLED"]
  BY DEF AfterEvent, Event
<1>7. ASSUME NEW m \in Merchant, NEW k \in Key, NEW p \in Payment, NEW t \in Terms,
             CreatePayment(m, k, p, t)
      PROVE  EventsReplayToRow'
  <2>1. DecisionAtCreate(t.amount, t.currency, level[m]) # "REJECT"
    <3>1. level[m] \in RiskLevel /\ t.amount \in Amount /\ t.currency \in Currency
      BY <1>1, <1>7 DEF CreatePayment, TypeOK, Terms
    <3> QED
      BY <3>1, CreateIsNeverRejected
  <2>2. /\ Emit(p, "payment.created", 0) /\ SetStatus(p, "PENDING")
        /\ UNCHANGED <<captured, refunded>>
    BY <1>7, <2>1 DEF CreatePayment
  <2>3. "payment.created" \in EventType \ {"payment.captured", "payment.refunded"} /\ 0 \in Nat
    BY DEF EventType
  <2> QED
    BY <1>5, <1>6, <2>2, <2>3
<1>8. ASSUME NEW m \in Merchant, NEW p \in Payment,
             Authorize(m, p) \/ Decline(m, p) \/ Cancel(m, p)
      PROVE  EventsReplayToRow'
  <2>1. UNCHANGED <<captured, refunded>>
    BY <1>8 DEF Authorize, Decline, Cancel
  <2>2. CASE Authorize(m, p)
    <3>1. terms[p].amount \in Nat /\ "payment.authorized" \in EventType
      BY <1>1, <2>2, RowFacts DEF Authorize, EventType
    <3>2. Emit(p, "payment.authorized", terms[p].amount) /\ SetStatus(p, "AUTHORIZED")
      BY <2>2 DEF Authorize
    <3> QED
      BY <1>5, <1>6, <2>1, <3>1, <3>2
  <2>3. CASE Decline(m, p)
    <3>1. Emit(p, "payment.failed", 0) /\ SetStatus(p, "FAILED") /\ "payment.failed" \in EventType
      BY <2>3 DEF Decline, EventType
    <3> QED
      BY <1>5, <1>6, <2>1, <3>1
  <2>4. CASE Cancel(m, p)
    <3>1. /\ Emit(p, "payment.cancelled", 0) /\ SetStatus(p, "CANCELLED")
          /\ "payment.cancelled" \in EventType
      BY <2>4 DEF Cancel, EventType
    <3> QED
      BY <1>5, <1>6, <2>1, <3>1
  <2> QED
    BY <1>8, <2>2, <2>3, <2>4
<1>9. ASSUME NEW m \in Merchant, NEW p \in Payment, Capture(m, p) PROVE EventsReplayToRow'
  <2> DEFINE a == terms[p].amount
  <2>1. a \in Nat /\ refunded[p] = 0
    BY <1>1, <1>9, RowFacts
       DEF Capture, AmountsMatchStatus, MayBecome, Allowed, PaymentStatus, Settled
  <2>2. /\ Emit(p, "payment.captured", a) /\ "payment.captured" \in EventType
        /\ status' = [status EXCEPT ![p] = "CAPTURED"]
        /\ captured' = [captured EXCEPT ![p] = a] /\ refunded' = refunded
    BY <1>9 DEF Capture, SetStatus, EventType
  <2> HIDE DEF a
  <2>3. AfterEvent(RowOf(p), Event("payment.captured", a))
            = [status |-> "CAPTURED", captured |-> a, refunded |-> 0]
    BY DEF AfterEvent, Event
  <2>4. RowOf(p)' = AfterEvent(RowOf(p), Event("payment.captured", a))
    BY <1>1, <2>1, <2>2, <2>3 DEF RowOf, TypeOK
  <2>5. \A q \in Payment \ {p} : RowOf(q)' = RowOf(q)
    BY <1>1, <2>2 DEF RowOf, TypeOK
  <2> QED
    BY <1>1, <2>1, <2>2, <2>4, <2>5, EmitReplay
<1>10. ASSUME NEW m \in Merchant, NEW p \in Payment, NEW a \in Amount, Refund(m, p, a)
       PROVE  EventsReplayToRow'
  <2> DEFINE total == refunded[p] + a
             s == StatusAfterRefund(captured[p], total)
  <2>1. /\ Emit(p, "payment.refunded", a) /\ "payment.refunded" \in EventType /\ a \in Nat
        /\ status' = [status EXCEPT ![p] = s]
        /\ refunded' = [refunded EXCEPT ![p] = total] /\ captured' = captured
    BY <1>10 DEF Refund, SetStatus, EventType
  <2>2. AfterEvent(RowOf(p), Event("payment.refunded", a))
            = [status |-> s, captured |-> captured[p], refunded |-> total]
    BY DEF AfterEvent, Event, RowOf
  <2> HIDE DEF s, total
  <2>3. RowOf(p)' = AfterEvent(RowOf(p), Event("payment.refunded", a))
    BY <1>1, <2>1, <2>2 DEF RowOf, TypeOK
  <2>4. \A q \in Payment \ {p} : RowOf(q)' = RowOf(q)
    BY <1>1, <2>1 DEF RowOf, TypeOK
  <2> QED
    BY <1>1, <2>1, <2>3, <2>4, EmitReplay
<1> QED
  BY <1>1, <1>2, <1>3, <1>4, <1>7, <1>8, <1>9, <1>10 DEF Next

(* service.py, append_outbox: whoever applies a payment's outbox events in *)
(* order ends with the payment's row, after any operations.                *)
THEOREM EventsReplay == Spec => []EventsReplayToRow
<1>1. Init => IInv /\ EventsReplayToRow
  BY InitIInv, InitReplay
<1>2. IInv /\ EventsReplayToRow /\ [Next]_vars => (IInv /\ EventsReplayToRow)'
  BY IInvStep, ReplayStep
<1> QED
  BY <1>1, <1>2, PTL DEF Spec
=============================================================================
