---------------------------- MODULE JournalGuard ----------------------------
(***************************************************************************)
(* What PostgreSQL itself guards of the ledger: the check constraints of   *)
(* journal_entries and the triggers of alembic/versions/0002_harden_...py, *)
(* which hold sessions of INSERT, UPDATE and DELETE statements to the      *)
(* rules of posted journals while the service captures and refunds, and    *)
(* the reconciliation report (app/workers/reconciliation.py) reads what    *)
(* they leave.                                                             *)
(*                                                                         *)
(* A session is one transaction at READ COMMITTED: it sees what was        *)
(* committed before its statement and its own writes.  The service's own   *)
(* transactions are PaymentTx; none of their rows is visible before the    *)
(* commit, so that they are one step here.  A journal has one currency     *)
(* throughout.  The triggers are row-level: TRUNCATE, which fires none of  *)
(* them, is no statement of a session.                                     *)
(***************************************************************************)
EXTENDS Integers, FiniteSets, FiniteSetsExt

CONSTANTS
    Payment,       \* payments, authorized to begin with
    Authorized,    \* and the amount of each
    Manual,        \* journals only SQL sessions write
    Entry,         \* ids of journal_entries rows
    Session,       \* SQL sessions
    MaxAmount,     \* bound on amounts
    MaxWrites,     \* bound on the entries one session's transaction writes
    MovePosted,    \* whether sessions update journal_id of posted entries
    None           \* no row

VARIABLES
    payment,       \* [Payment -> status and captured amount]
    journal,       \* [Journal -> status, or None]
    entry,         \* [Entry -> its row, or None]
    session,       \* [Session -> its uncommitted writes]
    report         \* the reconciliation report

vars == <<payment, journal, entry, session, report>>

Amount == 1..MaxAmount

(* reference_type and reference_id identify a journal.                     *)
CaptureJournal(p) == <<"payment_capture", p>>
RefundJournal(p)  == <<"payment_refund", p>>
Posting == {CaptureJournal(p) : p \in Payment} \cup {RefundJournal(p) : p \in Payment}
Journal == Posting \cup Manual

ASSUME GuardAssumption ==
    /\ MaxAmount \in Nat /\ Authorized \in 1..MaxAmount /\ MaxWrites \in Nat
    /\ MovePosted \in BOOLEAN
    /\ Manual \cap Posting = {}
    /\ None \notin {"DRAFT", "POSTED"}

(* f where it is defined, and g elsewhere (@@, which the provers lack).    *)
Over(f, g) == [x \in DOMAIN f \cup DOMAIN g |-> IF x \in DOMAIN f THEN f[x] ELSE g[x]]
At(x, y) == [z \in {x} |-> y]

Line(j, d, n) == [journal |-> j, direction |-> d, amount |-> n]
Row == [journal : Journal, direction : {"DEBIT", "CREDIT"}, amount : Amount]

ASSUME RowAssumption == None \notin Row

Idle == [journals |-> [j \in {} |-> None], entries |-> [e \in {} |-> None]]
NoReport == [pc |-> "idle", seen |-> <<>>, findings |-> {}]

Init ==
    /\ payment \in [Payment -> [status : {"AUTHORIZED"}, captured : {0}]]
    /\ journal = [j \in Journal |-> None]
    /\ entry = [e \in Entry |-> None]
    /\ session = [s \in Session |-> Idle]
    /\ report = NoReport

-----------------------------------------------------------------------------
(* The service's transactions.                                             *)

Written(s) == DOMAIN session[s].entries

Unused == {e \in Entry : entry[e] = None /\ \A s \in Session : e \notin Written(s)}

(* create_journal: two lines, one of each direction, and POSTED.  Payments *)
(* are captured whole, as in the code, and here refunded whole.            *)
CreateJournal(j, n) ==
    \E d, c \in Unused :
        /\ d # c
        /\ entry' = [entry EXCEPT ![d] = Line(j, "DEBIT", n), ![c] = Line(j, "CREDIT", n)]
        /\ journal' = [journal EXCEPT ![j] = "POSTED"]

Capture(p) ==
    /\ payment[p].status = "AUTHORIZED"
    /\ CreateJournal(CaptureJournal(p), Authorized)
    /\ payment' = [payment EXCEPT ![p] = [status |-> "CAPTURED", captured |-> Authorized]]
    /\ UNCHANGED <<session, report>>

Refund(p) ==
    /\ payment[p].status = "CAPTURED"
    /\ CreateJournal(RefundJournal(p), payment[p].captured)
    /\ payment' = [payment EXCEPT ![p] =
           [status |-> "REFUNDED", captured |-> payment[p].captured]]
    /\ UNCHANGED <<session, report>>

-----------------------------------------------------------------------------
(* SQL sessions, of DML.  A statement a constraint or trigger refuses ends *)
(* the transaction with nothing written: RolledBack.  A row another        *)
(* session has written is waited for.                                      *)

Journals(s) == Over(session[s].journals, journal)
Entries(s)  == Over(session[s].entries, entry)

JournalFree(s, j) == \A t \in Session \ {s} : j \notin DOMAIN session[t].journals
EntryFree(s, e) ==
    /\ \A t \in Session \ {s} : e \notin Written(t)
    /\ e \in Written(s) \/ Cardinality(Written(s)) < MaxWrites

WriteJournal(s, j, status) ==
    /\ session' = [session EXCEPT ![s] =
           [journals |-> Over(At(j, status), session[s].journals),
            entries  |-> session[s].entries]]
    /\ UNCHANGED <<payment, journal, entry, report>>

WriteEntry(s, e, r) ==
    /\ session' = [session EXCEPT ![s] =
           [journals |-> session[s].journals,
            entries  |-> Over(At(e, r), session[s].entries)]]
    /\ UNCHANGED <<payment, journal, entry, report>>

RolledBack(s) ==
    /\ session' = [session EXCEPT ![s] = Idle]
    /\ UNCHANGED <<payment, journal, entry, report>>

(* A new journal, DRAFT or POSTED, which nobody has. *)
InsertJournal(s, j, status) ==
    /\ Journals(s)[j] = None
    /\ JournalFree(s, j)
    /\ WriteJournal(s, j, status)

(* prevent_posted_journal_mutation on journals, for an update of status.   *)
(* A DELETE changes nothing in any case: the trigger raises for a POSTED   *)
(* journal and answers NEW, which is NULL, for a DRAFT one.                *)
UpdateStatus(s, j, status) ==
    /\ Journals(s)[j] \notin {None, status}
    /\ JournalFree(s, j)
    /\ IF Journals(s)[j] = "POSTED" THEN RolledBack(s)
                                    ELSE WriteJournal(s, j, status)

PositiveOrZero(n) == n >= 0
Positive(n) == n > 0

(* prevent_posted_journal_mutation on journal_entries, with the status the *)
(* session sees of the journal the trigger looks at: NEW's for an insert   *)
(* or an update, OLD's for a delete.                                       *)
Open(s, j) == Journals(s)[j] = "DRAFT"
ErasableAlways(s, r) == TRUE
Erasable(s, r) == Open(s, r.journal)

InsertEntry(s, e, r) ==
    /\ e \in Unused /\ EntryFree(s, e)
    /\ Journals(s)[r.journal] # None
    /\ IF Open(s, r.journal) /\ Positive(r.amount) THEN WriteEntry(s, e, r)
                                                   ELSE RolledBack(s)

UpdateLine(s, e, d, n) ==
    LET r == Entries(s)[e] IN
    /\ r # None /\ EntryFree(s, e)
    /\ Line(r.journal, d, n) # r
    /\ IF Open(s, r.journal) /\ Positive(n)
       THEN WriteEntry(s, e, Line(r.journal, d, n)) ELSE RolledBack(s)

UpdateJournalId(s, e, j) ==
    LET r == Entries(s)[e] IN
    /\ r # None /\ EntryFree(s, e)
    /\ MovePosted \/ Open(s, r.journal)
    /\ j # r.journal /\ Journals(s)[j] # None
    /\ IF Open(s, j) THEN WriteEntry(s, e, Line(j, r.direction, r.amount))
                     ELSE RolledBack(s)

DeleteEntry(s, e) ==
    LET r == Entries(s)[e] IN
    /\ r # None /\ EntryFree(s, e)
    /\ IF Erasable(s, r) THEN WriteEntry(s, e, None) ELSE RolledBack(s)

Total(rows, j, direction) ==
    LET of == {e \in Entry : rows[e] # None /\ rows[e].journal = j
                                /\ rows[e].direction = direction} IN
    MapThenSumSet(LAMBDA e : rows[e].amount, of)

(* enforce_posted_journal_balances, at the commit of a transaction that    *)
(* made j POSTED.                                                          *)
Balances(rows, j) ==
    /\ Total(rows, j, "DEBIT") = Total(rows, j, "CREDIT")
    /\ Total(rows, j, "DEBIT") # 0

Commit(s) ==
    /\ session[s] # Idle
    /\ IF \A j \in DOMAIN session[s].journals :
             session[s].journals[j] = "POSTED" => Balances(Entries(s), j)
       THEN /\ journal' = Journals(s)
            /\ entry' = Entries(s)
            /\ session' = [session EXCEPT ![s] = Idle]
            /\ UNCHANGED <<payment, report>>
       ELSE RolledBack(s)

Rollback(s) == session[s] # Idle /\ RolledBack(s)

-----------------------------------------------------------------------------
(* reconcile_once.                                                         *)

TotalOfBoth(rows, j) == Total(rows, j, "CREDIT") + Total(rows, j, "DEBIT")
CreditTotal(rows, j) == Total(rows, j, "CREDIT")

(* All payments in one statement,                                          *)
StartReport ==
    /\ report.pc = "idle"
    /\ report' = [pc |-> "reading", seen |-> payment, findings |-> {}]
    /\ UNCHANGED <<payment, journal, entry, session>>

(* then for each a statement that sums its capture journal's credits.      *)
CheckPayment(p) ==
    /\ report.pc = "reading"
    /\ p \in DOMAIN report.seen
    /\ LET row == report.seen[p]
           mismatch == /\ row.status = "CAPTURED"
                       /\ CreditTotal(entry, CaptureJournal(p)) # row.captured IN
       report' = [report EXCEPT
           !.seen = [q \in DOMAIN @ \ {p} |-> @[q]],
           !.findings = IF mismatch THEN @ \cup {p} ELSE @]
    /\ UNCHANGED <<payment, journal, entry, session>>

(* The file is written and the program ends.                               *)
FinishReport ==
    /\ report.pc = "reading"
    /\ DOMAIN report.seen = {}
    /\ report' = [report EXCEPT !.pc = "idle", !.seen = <<>>]
    /\ UNCHANGED <<payment, journal, entry, session>>

-----------------------------------------------------------------------------
Statement(s) ==
    \/ \E j \in Manual, status \in {"DRAFT", "POSTED"} : InsertJournal(s, j, status)
    \/ \E j \in Journal, status \in {"DRAFT", "POSTED"} : UpdateStatus(s, j, status)
    \/ \E e \in Entry :
          \/ \E d \in {"DEBIT", "CREDIT"}, n \in 0..MaxAmount :
                \/ \E j \in Journal : InsertEntry(s, e, Line(j, d, n))
                \/ UpdateLine(s, e, d, n)
          \/ \E j \in Journal : UpdateJournalId(s, e, j)
          \/ DeleteEntry(s, e)

Next ==
    \/ \E p \in Payment : Capture(p) \/ Refund(p) \/ CheckPayment(p)
    \/ \E s \in Session : Statement(s) \/ Commit(s) \/ Rollback(s)
    \/ StartReport \/ FinishReport

Spec == Init /\ [][Next]_vars

-----------------------------------------------------------------------------
(* Rows have their types, and the check constraints of journal_entries     *)
(* hold of every version of every row.                                     *)
TypeOK ==
    /\ payment \in [Payment -> [status : {"AUTHORIZED", "CAPTURED", "REFUNDED"},
                                captured : 0..MaxAmount]]
    /\ journal \in [Journal -> {None, "DRAFT", "POSTED"}]
    /\ \A e \in Entry : entry[e] = None \/ entry[e] \in Row
    /\ \A s \in Session :
          /\ DOMAIN session[s].journals \subseteq Journal
          /\ \A e \in Written(s) :
                session[s].entries[e] = None \/ session[s].entries[e] \in Row
    /\ report.pc \in {"idle", "reading"}
    /\ DOMAIN report.seen \subseteq Payment /\ report.findings \subseteq Payment

EntriesOf(j) == {e \in Entry : entry[e] # None /\ entry[e].journal = j}

(* docs/architecture/ledger.md:11: "Posted entries are immutable."  What   *)
(* the service posted stays as it was posted, line by line, whatever       *)
(* INSERT, UPDATE and DELETE other sessions run and whenever they commit.  *)
PostedStays ==
    [][\A j \in Posting : journal[j] = "POSTED" =>
          /\ journal'[j] = "POSTED"
          /\ EntriesOf(j)' = EntriesOf(j)
          /\ \A e \in EntriesOf(j) : entry'[e] = entry[e]]_vars

(* The report reads payments and journals in different statements while    *)
(* payments are captured and refunded, and reports none of them.           *)
NoFalseAlarm == report.findings = {}
=============================================================================
