------------------------- MODULE JournalGuardProofs -------------------------
(***************************************************************************)
(* Proof that sessions of DML which move no posted journal's entry change  *)
(* nothing of what the service posted, for every set of payments,          *)
(* journals, entries and sessions.                                         *)
(***************************************************************************)
EXTENDS JournalGuard, FoldProofs

USE GuardAssumption

(* A row that is no line of a journal of the service. *)
Foreign(r) == r = None \/ r.journal \notin Posting

GuardType ==
    /\ payment \in [Payment -> [status : {"AUTHORIZED", "CAPTURED", "REFUNDED"},
                                captured : {0, Authorized}]]
    /\ journal = [j \in Journal |-> journal[j]]
    /\ entry = [e \in Entry |-> entry[e]]
    /\ session = [s \in Session |-> session[s]]

(* A payment's journals exist exactly as far as it has come. *)
ServiceJournals ==
    \A p \in Payment :
        /\ journal[CaptureJournal(p)] = IF payment[p].status = "AUTHORIZED"
                                        THEN None ELSE "POSTED"
        /\ journal[RefundJournal(p)] = IF payment[p].status = "REFUNDED"
                                       THEN "POSTED" ELSE None

(* No uncommitted write is to one of these journals or to a line of one.   *)
WritesForeign ==
    \A s \in Session :
        /\ DOMAIN session[s].journals \cap Posting = {}
        /\ DOMAIN session[s].journals \subseteq Journal
        /\ Written(s) \subseteq Entry
        /\ \A e \in Written(s) : Foreign(entry[e]) /\ Foreign(session[s].entries[e])

GuardInv == GuardType /\ ServiceJournals /\ WritesForeign

(* What a step may do to the journals and their lines. *)
Keeps ==
    /\ \A j \in Posting : journal[j] = "POSTED" => journal'[j] = "POSTED"
    /\ \A e \in Entry :
          \/ entry'[e] = entry[e]
          \/ /\ Foreign(entry[e])
             /\ entry'[e] # None => \A j \in Posting :
                    entry'[e].journal = j => journal[j] # "POSTED"

LEMMA JournalIds ==
    /\ \A p \in Payment : CaptureJournal(p) \in Posting /\ RefundJournal(p) \in Posting
    /\ \A p, q \in Payment : CaptureJournal(p) = CaptureJournal(q) => p = q
    /\ \A p, q \in Payment : RefundJournal(p) = RefundJournal(q) => p = q
    /\ \A p, q \in Payment : CaptureJournal(p) # RefundJournal(q)
  BY DEF Posting, CaptureJournal, RefundJournal

LEMMA InitGuard == Init => GuardInv
  BY JournalIds DEF Init, GuardInv, GuardType, ServiceJournals, WritesForeign, Written,
         Idle, Journal, Posting

(* What a session sees of the service's journals is what is committed.     *)
LEMMA PostingSeen ==
    ASSUME GuardInv, NEW s \in Session, NEW j \in Posting
    PROVE  Journals(s)[j] = journal[j] /\ journal[j] \in {None, "POSTED"}
<1>1. Journals(s)[j] = journal[j]
  BY DEF GuardInv, GuardType, WritesForeign, Journals, Over, Journal
<1>2. journal[j] \in {None, "POSTED"}
  BY DEF GuardInv, ServiceJournals, Posting
<1> QED
  BY <1>1, <1>2

(* Rows that Open lets a session write are foreign. *)
LEMMA OpenIsForeign ==
    ASSUME GuardInv, NEW s \in Session, NEW j, Open(s, j)
    PROVE  j \notin Posting
  BY PostingSeen DEF Open

(* The service posts a journal that was not there. *)
LEMMA PostKeeps ==
    ASSUME GuardInv, NEW j \in Posting, journal[j] = None, NEW n, CreateJournal(j, n),
           session' = session
    PROVE  /\ Keeps
           /\ WritesForeign'
           /\ journal' = [journal EXCEPT ![j] = "POSTED"]
           /\ entry' = [e \in Entry |-> entry'[e]]
<1>1. PICK d, c \in Unused :
        /\ d # c
        /\ entry' = [entry EXCEPT ![d] = Line(j, "DEBIT", n), ![c] = Line(j, "CREDIT", n)]
        /\ journal' = [journal EXCEPT ![j] = "POSTED"]
  BY DEF CreateJournal
<1>2. d \in Entry /\ c \in Entry /\ entry[d] = None /\ entry[c] = None
  BY DEF Unused
<1>3. Line(j, "DEBIT", n).journal = j /\ Line(j, "CREDIT", n).journal = j
  BY DEF Line
<1>4. \A e \in Entry : entry'[e] = IF e = c THEN Line(j, "CREDIT", n)
                                   ELSE IF e = d THEN Line(j, "DEBIT", n) ELSE entry[e]
  BY <1>1, <1>2 DEF GuardInv, GuardType
<1>5. entry' = [e \in Entry |-> entry'[e]]
  BY <1>1 DEF GuardInv, GuardType
<1>6. \A i \in Posting : journal[i] = "POSTED" => journal'[i] = "POSTED"
  BY <1>1 DEF GuardInv, GuardType, Journal
<1>7. Keeps
  BY <1>2, <1>3, <1>4, <1>6 DEF Keeps, Foreign
<1>8. WritesForeign'
  BY <1>4 DEF GuardInv, WritesForeign, Unused, Written
<1> QED
  BY <1>1, <1>5, <1>7, <1>8

LEMMA CaptureKeeps ==
    ASSUME GuardInv, NEW p \in Payment, Capture(p) \/ Refund(p)
    PROVE  GuardInv' /\ Keeps
<1>1. CASE Capture(p)
  <2> DEFINE j == CaptureJournal(p)
             r == [status |-> "CAPTURED", captured |-> Authorized]
  <2>1. /\ payment[p].status = "AUTHORIZED" /\ CreateJournal(j, Authorized)
        /\ payment' = [payment EXCEPT ![p] = r] /\ session' = session
    BY <1>1 DEF Capture
  <2>2. journal[j] = None /\ j \in Posting
    BY <2>1, JournalIds DEF GuardInv, ServiceJournals
  <2>3. /\ Keeps /\ WritesForeign'
        /\ journal' = [journal EXCEPT ![j] = "POSTED"]
        /\ entry' = [e \in Entry |-> entry'[e]]
    BY <2>1, <2>2, PostKeeps
  <2>4. GuardType'
    BY <2>1, <2>3 DEF GuardInv, GuardType
  <2>5. ServiceJournals'
    BY <2>1, <2>3, JournalIds DEF GuardInv, GuardType, ServiceJournals, Journal
  <2> QED
    BY <2>3, <2>4, <2>5 DEF GuardInv
<1>2. CASE Refund(p)
  <2> DEFINE j == RefundJournal(p)
             r == [status |-> "REFUNDED", captured |-> payment[p].captured]
  <2>1. /\ payment[p].status = "CAPTURED" /\ CreateJournal(j, payment[p].captured)
        /\ payment' = [payment EXCEPT ![p] = r] /\ session' = session
    BY <1>2 DEF Refund
  <2>2. journal[j] = None /\ j \in Posting
    BY <2>1, JournalIds DEF GuardInv, ServiceJournals
  <2>3. /\ Keeps /\ WritesForeign'
        /\ journal' = [journal EXCEPT ![j] = "POSTED"]
        /\ entry' = [e \in Entry |-> entry'[e]]
    BY <2>1, <2>2, PostKeeps
  <2>4. payment[p].captured \in {0, Authorized}
    BY DEF GuardInv, GuardType
  <2>5. GuardType'
    BY <2>1, <2>3, <2>4 DEF GuardInv, GuardType
  <2>6. ServiceJournals'
    BY <2>1, <2>3, JournalIds DEF GuardInv, GuardType, ServiceJournals, Journal
  <2> QED
    BY <2>3, <2>5, <2>6 DEF GuardInv
<1> QED
  BY <1>1, <1>2

(* A transaction that ends with nothing written. *)
LEMMA RollbackKeeps ==
    ASSUME GuardInv, NEW s \in Session, RolledBack(s)
    PROVE  GuardInv' /\ Keeps
<1>1. /\ session' = [session EXCEPT ![s] = Idle]
      /\ UNCHANGED <<payment, journal, entry, report>>
  BY DEF RolledBack
<1>2. \A t \in Session : session'[t] = IF t = s THEN Idle ELSE session[t]
  BY <1>1 DEF GuardInv, GuardType
<1>3. GuardType' /\ ServiceJournals'
  BY <1>1 DEF GuardInv, GuardType, ServiceJournals
<1>4. WritesForeign'
  BY <1>1, <1>2 DEF GuardInv, WritesForeign, Written, Idle
<1>5. Keeps
  BY <1>1 DEF Keeps
<1> QED
  BY <1>3, <1>4, <1>5 DEF GuardInv

(* A statement that writes a manual journal. *)
LEMMA JournalWriteKeeps ==
    ASSUME GuardInv, NEW s \in Session, NEW j \in Manual, NEW status,
           WriteJournal(s, j, status)
    PROVE  GuardInv' /\ Keeps
<1> DEFINE w == [journals |-> Over(At(j, status), session[s].journals),
                 entries  |-> session[s].entries]
<1>1. /\ session' = [session EXCEPT ![s] = w]
      /\ UNCHANGED <<payment, journal, entry, report>>
  BY DEF WriteJournal
<1>2. \A t \in Session : session'[t] = IF t = s THEN w ELSE session[t]
  BY <1>1 DEF GuardInv, GuardType
<1>3. DOMAIN w.journals = {j} \cup DOMAIN session[s].journals
  BY DEF Over, At
<1>4. w.entries = session[s].entries
  OBVIOUS
<1>5. j \in Journal /\ j \notin Posting
  BY DEF Journal
<1> HIDE DEF w
<1>6. GuardType' /\ ServiceJournals'
  BY <1>1 DEF GuardInv, GuardType, ServiceJournals
<1>7. WritesForeign'
  BY <1>1, <1>2, <1>3, <1>4, <1>5 DEF GuardInv, WritesForeign, Written
<1>8. Keeps
  BY <1>1 DEF Keeps
<1> QED
  BY <1>6, <1>7, <1>8 DEF GuardInv

(* A statement that writes an entry: neither the committed row nor its new *)
(* version is a line of the service's journals.                            *)
LEMMA EntryWriteKeeps ==
    ASSUME GuardInv, NEW s \in Session, NEW e \in Entry, NEW r,
           Foreign(entry[e]), Foreign(r), WriteEntry(s, e, r)
    PROVE  GuardInv' /\ Keeps
<1> DEFINE w == [journals |-> session[s].journals,
                 entries  |-> Over(At(e, r), session[s].entries)]
<1>1. /\ session' = [session EXCEPT ![s] = w]
      /\ UNCHANGED <<payment, journal, entry, report>>
  BY DEF WriteEntry
<1>2. \A t \in Session : session'[t] = IF t = s THEN w ELSE session[t]
  BY <1>1 DEF GuardInv, GuardType
<1>3. /\ DOMAIN w.entries = {e} \cup Written(s)
      /\ w.entries[e] = r
      /\ \A x \in Written(s) \ {e} : w.entries[x] = session[s].entries[x]
  BY DEF Over, At, Written
<1>4. w.journals = session[s].journals
  OBVIOUS
<1> HIDE DEF w
<1>5. GuardType' /\ ServiceJournals'
  BY <1>1 DEF GuardInv, GuardType, ServiceJournals
<1>6. WritesForeign'
  <2> SUFFICES ASSUME NEW t \in Session
               PROVE  /\ DOMAIN session'[t].journals \cap Posting = {}
                      /\ DOMAIN session'[t].journals \subseteq Journal
                      /\ DOMAIN session'[t].entries \subseteq Entry
                      /\ \A x \in DOMAIN session'[t].entries :
                            Foreign(entry[x]) /\ Foreign(session'[t].entries[x])
    BY <1>1 DEF WritesForeign, Written, Foreign
  <2>1. CASE t = s
    BY <2>1, <1>2, <1>3, <1>4 DEF GuardInv, WritesForeign, Written
  <2>2. CASE t # s
    BY <2>2, <1>2 DEF GuardInv, WritesForeign, Written
  <2> QED
    BY <2>1, <2>2
<1>7. Keeps
  BY <1>1 DEF Keeps
<1> QED
  BY <1>5, <1>6, <1>7 DEF GuardInv

(* The row a session sees is committed or its own write; if it is foreign, *)
(* so is the committed one.                                                *)
LEMMA SeenForeign ==
    ASSUME GuardInv, NEW s \in Session, NEW e \in Entry, Foreign(Entries(s)[e])
    PROVE  Foreign(entry[e])
<1>1. CASE e \in Written(s)
  BY <1>1 DEF GuardInv, WritesForeign
<1>2. CASE e \notin Written(s)
  BY <1>2 DEF GuardInv, GuardType, Written, Entries, Over
<1> QED
  BY <1>1, <1>2

LEMMA StatementKeeps ==
    ASSUME GuardInv, MovePosted = FALSE, NEW s \in Session, Statement(s)
    PROVE  GuardInv' /\ Keeps
<1>1. CASE \E j \in Manual, status \in {"DRAFT", "POSTED"} : InsertJournal(s, j, status)
  BY <1>1, JournalWriteKeeps DEF InsertJournal
<1>2. CASE \E j \in Journal, status \in {"DRAFT", "POSTED"} : UpdateStatus(s, j, status)
  <2>1. PICK j \in Journal, status \in {"DRAFT", "POSTED"} : UpdateStatus(s, j, status)
    BY <1>2
  <2>2. CASE Journals(s)[j] = "POSTED"
    BY <2>1, <2>2, RollbackKeeps DEF UpdateStatus
  <2>3. CASE Journals(s)[j] # "POSTED"
    <3>1. j \in Manual
      BY <2>1, <2>3, PostingSeen DEF UpdateStatus, Journal
    <3> QED
      BY <2>1, <2>3, <3>1, JournalWriteKeeps DEF UpdateStatus
  <2> QED
    BY <2>2, <2>3
<1>3. CASE \E e \in Entry, d \in {"DEBIT", "CREDIT"}, n \in 0..MaxAmount, j \in Journal :
              InsertEntry(s, e, Line(j, d, n))
  <2>1. PICK e \in Entry, d \in {"DEBIT", "CREDIT"}, n \in 0..MaxAmount, j \in Journal :
              InsertEntry(s, e, Line(j, d, n))
    BY <1>3
  <2> DEFINE r == Line(j, d, n)
  <2>2. CASE Open(s, r.journal) /\ Positive(r.amount)
    <3>1. Foreign(r)
      BY <2>2, OpenIsForeign DEF Foreign
    <3>2. Foreign(entry[e]) /\ WriteEntry(s, e, r)
      BY <2>1, <2>2 DEF InsertEntry, Unused, Foreign
    <3> QED
      BY <3>1, <3>2, EntryWriteKeeps
  <2>3. CASE ~(Open(s, r.journal) /\ Positive(r.amount))
    BY <2>1, <2>3, RollbackKeeps DEF InsertEntry
  <2> QED
    BY <2>2, <2>3
<1>4. CASE \E e \in Entry, d \in {"DEBIT", "CREDIT"}, n \in 0..MaxAmount : UpdateLine(s, e, d, n)
  <2>1. PICK e \in Entry, d \in {"DEBIT", "CREDIT"}, n \in 0..MaxAmount : UpdateLine(s, e, d, n)
    BY <1>4
  <2> DEFINE r == Entries(s)[e]
             q == Line(r.journal, d, n)
  <2>2. CASE Open(s, r.journal) /\ Positive(n)
    <3>1. r.journal \notin Posting
      BY <2>2, OpenIsForeign
    <3>2. Foreign(q) /\ Foreign(entry[e])
      BY <3>1, SeenForeign DEF Foreign, Line
    <3>3. WriteEntry(s, e, q)
      BY <2>1, <2>2 DEF UpdateLine
    <3> QED
      BY <3>2, <3>3, EntryWriteKeeps
  <2>3. CASE ~(Open(s, r.journal) /\ Positive(n))
    BY <2>1, <2>3, RollbackKeeps DEF UpdateLine
  <2> QED
    BY <2>2, <2>3
<1>5. CASE \E e \in Entry, j \in Journal : UpdateJournalId(s, e, j)
  <2>1. PICK e \in Entry, j \in Journal : UpdateJournalId(s, e, j)
    BY <1>5
  <2> DEFINE r == Entries(s)[e]
             q == Line(j, r.direction, r.amount)
  <2>2. CASE Open(s, j)
    <3>1. r.journal \notin Posting /\ j \notin Posting
      BY <2>1, <2>2, OpenIsForeign DEF UpdateJournalId
    <3>2. Foreign(q) /\ Foreign(entry[e])
      BY <3>1, SeenForeign DEF Foreign, Line
    <3>3. WriteEntry(s, e, q)
      BY <2>1, <2>2 DEF UpdateJournalId
    <3> QED
      BY <3>2, <3>3, EntryWriteKeeps
  <2>3. CASE ~Open(s, j)
    BY <2>1, <2>3, RollbackKeeps DEF UpdateJournalId
  <2> QED
    BY <2>2, <2>3
<1>6. CASE \E e \in Entry : DeleteEntry(s, e)
  <2>1. PICK e \in Entry : DeleteEntry(s, e)
    BY <1>6
  <2>2. CASE Erasable(s, Entries(s)[e])
    <3>1. Entries(s)[e].journal \notin Posting
      BY <2>2, OpenIsForeign DEF Erasable
    <3>2. Foreign(None) /\ Foreign(entry[e])
      BY <3>1, SeenForeign DEF Foreign
    <3>3. WriteEntry(s, e, None)
      BY <2>1, <2>2 DEF DeleteEntry
    <3> QED
      BY <3>2, <3>3, EntryWriteKeeps
  <2>3. CASE ~Erasable(s, Entries(s)[e])
    BY <2>1, <2>3, RollbackKeeps DEF DeleteEntry
  <2> QED
    BY <2>2, <2>3
<1> QED
  BY <1>1, <1>2, <1>3, <1>4, <1>5, <1>6 DEF Statement

LEMMA CommitKeeps ==
    ASSUME GuardInv, NEW s \in Session, Commit(s)
    PROVE  GuardInv' /\ Keeps
<1>1. CASE RolledBack(s)
  BY <1>1, RollbackKeeps
<1>2. CASE ~RolledBack(s)
  <2>1. /\ journal' = Journals(s) /\ entry' = Entries(s)
        /\ session' = [session EXCEPT ![s] = Idle] /\ UNCHANGED <<payment, report>>
    BY <1>2 DEF Commit
  <2>2. \A t \in Session : session'[t] = IF t = s THEN Idle ELSE session[t]
    BY <2>1 DEF GuardInv, GuardType
  <2>3. /\ DOMAIN journal = Journal /\ DOMAIN entry = Entry
        /\ DOMAIN session[s].journals \subseteq Journal
        /\ DOMAIN session[s].entries \subseteq Entry
    BY DEF GuardInv, GuardType, WritesForeign, Written
  <2>4. DOMAIN Journals(s) = Journal /\ DOMAIN Entries(s) = Entry
    BY <2>3 DEF Journals, Entries, Over
  <2>5. /\ journal' = [j \in Journal |-> journal'[j]]
        /\ entry' = [e \in Entry |-> entry'[e]]
    BY <2>1, <2>3 DEF Journals, Entries, Over
  <2>6. \A e \in Entry : entry'[e] = IF e \in Written(s) THEN session[s].entries[e]
                                     ELSE entry[e]
    BY <2>1, <2>3 DEF Entries, Over, Written
  <2>7. \A j \in Posting : journal'[j] = journal[j]
    BY <2>1, PostingSeen
  <2>8. GuardType'
    BY <2>1, <2>5 DEF GuardInv, GuardType
  <2>9. ServiceJournals'
    BY <2>1, <2>7, JournalIds DEF GuardInv, ServiceJournals
  <2>10. \A e \in Entry : Foreign(entry[e]) => Foreign(entry'[e])
    BY <2>6 DEF GuardInv, WritesForeign
  <2>11. WritesForeign'
    <3> SUFFICES ASSUME NEW t \in Session
                 PROVE  /\ DOMAIN session'[t].journals \cap Posting = {}
                        /\ DOMAIN session'[t].journals \subseteq Journal
                        /\ DOMAIN session'[t].entries \subseteq Entry
                        /\ \A x \in DOMAIN session'[t].entries :
                              Foreign(entry'[x]) /\ Foreign(session'[t].entries[x])
      BY DEF WritesForeign, Written, Foreign
    <3>1. CASE t = s
      BY <3>1, <2>2 DEF Idle
    <3>2. CASE t # s
      BY <3>2, <2>2, <2>10 DEF GuardInv, WritesForeign, Written
    <3> QED
      BY <3>1, <3>2
  <2>12. Keeps
    BY <2>6, <2>7 DEF GuardInv, WritesForeign, Keeps, Foreign
  <2> QED
    BY <2>8, <2>9, <2>11, <2>12 DEF GuardInv
<1> QED
  BY <1>1, <1>2

LEMMA NextGuard ==
    ASSUME GuardInv, MovePosted = FALSE, [Next]_vars
    PROVE  GuardInv' /\ Keeps
<1>1. CASE \E p \in Payment : Capture(p) \/ Refund(p)
  BY <1>1, CaptureKeeps
<1>2. CASE \E s \in Session : Statement(s)
  BY <1>2, StatementKeeps
<1>3. CASE \E s \in Session : Commit(s)
  BY <1>3, CommitKeeps
<1>4. CASE \E s \in Session : Rollback(s)
  BY <1>4, RollbackKeeps DEF Rollback
<1>5. CASE UNCHANGED <<payment, journal, entry, session>>
  BY <1>5 DEF GuardInv, GuardType, ServiceJournals, WritesForeign, Written, Foreign, Keeps
<1>6. CASE StartReport \/ FinishReport \/ \E p \in Payment : CheckPayment(p)
  BY <1>5, <1>6 DEF StartReport, FinishReport, CheckPayment
<1>7. CASE UNCHANGED vars
  BY <1>5, <1>7 DEF vars
<1> QED
  BY <1>1, <1>2, <1>3, <1>4, <1>6, <1>7 DEF Next

(* Posted entries are immutable (0002_harden_ledger_and_webhook_secrets.py, *)
(* prevent_posted_journal_mutation; docs/architecture/ledger.md:11), unless *)
(* a session moves a posted entry to another journal: for any number of     *)
(* payments, rows and sessions, what the service posted stays as posted.    *)
THEOREM PostedIsKept ==
    ASSUME MovePosted = FALSE
    PROVE  Spec => PostedStays
<1> DEFINE Kept == \A j \in Posting : journal[j] = "POSTED" =>
              /\ journal'[j] = "POSTED"
              /\ EntriesOf(j)' = EntriesOf(j)
              /\ \A e \in EntriesOf(j) : entry'[e] = entry[e]
<1>1. Init => GuardInv
  BY InitGuard
<1>2. GuardInv /\ [Next]_vars => GuardInv'
  BY NextGuard
<1>3. GuardInv /\ [Next]_vars => [Kept]_vars
  <2>1. ASSUME GuardInv, [Next]_vars PROVE Kept
    <3>1. Keeps
      BY <2>1, NextGuard
    <3> SUFFICES ASSUME NEW j \in Posting, journal[j] = "POSTED"
                 PROVE  /\ journal'[j] = "POSTED"
                        /\ {e \in Entry : entry'[e] # None /\ entry'[e].journal = j}
                              = EntriesOf(j)
                        /\ \A e \in EntriesOf(j) : entry'[e] = entry[e]
      BY DEF EntriesOf
    <3>2. \A e \in Entry :
             \/ entry'[e] = entry[e]
             \/ /\ entry[e] = None \/ entry[e].journal # j
                /\ entry'[e] = None \/ entry'[e].journal # j
      BY <3>1 DEF Keeps, Foreign
    <3> QED
      BY <3>1, <3>2 DEF Keeps, EntriesOf
  <2> QED
    BY <2>1
<1> QED
  BY <1>1, <1>2, <1>3, PTL DEF Spec, PostedStays

-----------------------------------------------------------------------------
(* Types.                                                                  *)

SessionOK(t) ==
    /\ DOMAIN t.journals \subseteq Journal /\ DOMAIN t.entries \subseteq Entry
    /\ \A j \in DOMAIN t.journals : t.journals[j] \in {"DRAFT", "POSTED"}
    /\ \A e \in DOMAIN t.entries : t.entries[e] \in Row \cup {None}

TablesOK ==
    /\ payment \in [Payment -> [status : {"AUTHORIZED", "CAPTURED", "REFUNDED"},
                                captured : {0, Authorized}]]
    /\ \A p \in Payment :
          payment[p].status # "AUTHORIZED" => payment[p].captured = Authorized
    /\ journal \in [Journal -> {None, "DRAFT", "POSTED"}]
    /\ entry \in [Entry -> Row \cup {None}]

SessionsOK ==
    /\ session = [s \in Session |-> session[s]]
    /\ \A s \in Session : SessionOK(session[s])

ReportOK ==
    /\ report = [pc |-> report.pc, seen |-> report.seen, findings |-> report.findings]
    /\ report.pc \in {"idle", "reading"}
    /\ DOMAIN report.seen \subseteq Payment /\ report.findings \subseteq Payment

Typed == TablesOK /\ SessionsOK /\ ReportOK

LEMMA TypedIsTypeOK == Typed => TypeOK
  BY DEF Typed, TablesOK, SessionsOK, SessionOK, ReportOK, TypeOK, Written

LEMMA InitTyped == Init => Typed
<1> SUFFICES ASSUME Init PROVE Typed
  OBVIOUS
<1>1. TablesOK
  BY DEF Init, TablesOK
<1>2. SessionsOK
  BY DEF Init, SessionsOK, SessionOK, Idle
<1>3. ReportOK
  <2>1. DOMAIN <<>> = {}
    OBVIOUS
  <2> QED
    BY <2>1 DEF Init, ReportOK, NoReport
<1> QED
  BY <1>1, <1>2, <1>3 DEF Typed

LEMMA SessionsStay ==
    ASSUME SessionsOK, UNCHANGED session
    PROVE  SessionsOK'
  BY DEF SessionsOK, SessionOK, Row, Journal, Amount

LEMMA ReportStays ==
    ASSUME ReportOK, UNCHANGED report
    PROVE  ReportOK'
  BY DEF ReportOK

LEMMA TablesStay ==
    ASSUME TablesOK, UNCHANGED <<payment, journal, entry>>
    PROVE  TablesOK'
  BY DEF TablesOK

(* One session's transaction becomes t.                                    *)
LEMMA SessionBecomes ==
    ASSUME Typed, NEW s \in Session, NEW t, SessionOK(t),
           session' = [session EXCEPT ![s] = t],
           UNCHANGED <<payment, journal, entry, report>>
    PROVE  Typed'
<1>1. \A q \in Session : session'[q] = IF q = s THEN t ELSE session[q]
  BY DEF Typed, SessionsOK
<1>2. SessionsOK'
  BY <1>1 DEF Typed, SessionsOK, SessionOK
<1> QED
  BY <1>2, TablesStay, ReportStays DEF Typed

LEMMA RolledBackTyped ==
    ASSUME Typed, NEW s \in Session, RolledBack(s)
    PROVE  Typed'
<1>1. SessionOK(Idle)
  BY DEF SessionOK, Idle
<1> QED
  BY <1>1, SessionBecomes DEF RolledBack

LEMMA WriteJournalTyped ==
    ASSUME Typed, NEW s \in Session, NEW j \in Journal,
           NEW status \in {"DRAFT", "POSTED"}, WriteJournal(s, j, status)
    PROVE  Typed'
<1> DEFINE t == [journals |-> Over(At(j, status), session[s].journals),
                 entries  |-> session[s].entries]
<1>1. SessionOK(t)
  BY DEF Typed, SessionsOK, SessionOK, Over, At
<1> HIDE DEF t
<1> QED
  BY <1>1, SessionBecomes DEF WriteJournal, t

LEMMA WriteEntryTyped ==
    ASSUME Typed, NEW s \in Session, NEW e \in Entry, NEW r \in Row \cup {None},
           WriteEntry(s, e, r)
    PROVE  Typed'
<1> DEFINE t == [journals |-> session[s].journals,
                 entries  |-> Over(At(e, r), session[s].entries)]
<1>1. SessionOK(t)
  BY DEF Typed, SessionsOK, SessionOK, Over, At
<1> HIDE DEF t
<1> QED
  BY <1>1, SessionBecomes DEF WriteEntry, t

(* What a session sees: committed rows and its own writes.                 *)
LEMMA SeenTyped ==
    ASSUME Typed, NEW s \in Session
    PROVE  /\ Journals(s) \in [Journal -> {None, "DRAFT", "POSTED"}]
           /\ Entries(s) \in [Entry -> Row \cup {None}]
  BY DEF Typed, TablesOK, SessionsOK, SessionOK, Journals, Entries, Over

LEMMA StatementTyped ==
    ASSUME Typed, NEW s \in Session, Statement(s)
    PROVE  Typed'
<1>1. ASSUME NEW j \in Manual, NEW status \in {"DRAFT", "POSTED"},
             InsertJournal(s, j, status)
      PROVE  Typed'
  BY <1>1, WriteJournalTyped DEF InsertJournal, Journal
<1>2. ASSUME NEW j \in Journal, NEW status \in {"DRAFT", "POSTED"},
             UpdateStatus(s, j, status)
      PROVE  Typed'
  BY <1>2, WriteJournalTyped, RolledBackTyped DEF UpdateStatus
<1>3. ASSUME NEW e \in Entry, NEW d \in {"DEBIT", "CREDIT"}, NEW n \in 0..MaxAmount,
             NEW j \in Journal, InsertEntry(s, e, Line(j, d, n))
      PROVE  Typed'
  <2>1. Positive(n) => Line(j, d, n) \in Row
    BY DEF Positive, Line, Row, Amount
  <2>2. Line(j, d, n).amount = n
    BY DEF Line
  <2> HIDE DEF Line
  <2> QED
    BY <1>3, <2>1, <2>2, WriteEntryTyped, RolledBackTyped DEF InsertEntry
<1>4. ASSUME NEW e \in Entry, NEW d \in {"DEBIT", "CREDIT"}, NEW n \in 0..MaxAmount,
             UpdateLine(s, e, d, n)
      PROVE  Typed'
  <2>1. Entries(s)[e] \in Row
    BY <1>4, SeenTyped DEF UpdateLine
  <2>2. Positive(n) => Line(Entries(s)[e].journal, d, n) \in Row
    BY <2>1 DEF Positive, Line, Row, Amount
  <2> QED
    BY <1>4, <2>2, WriteEntryTyped, RolledBackTyped DEF UpdateLine
<1>5. ASSUME NEW e \in Entry, NEW j \in Journal, UpdateJournalId(s, e, j)
      PROVE  Typed'
  <2>1. Entries(s)[e] \in Row
    BY <1>5, SeenTyped DEF UpdateJournalId
  <2>2. Line(j, Entries(s)[e].direction, Entries(s)[e].amount) \in Row
    BY <2>1 DEF Line, Row
  <2> QED
    BY <1>5, <2>2, WriteEntryTyped, RolledBackTyped DEF UpdateJournalId
<1>6. ASSUME NEW e \in Entry, DeleteEntry(s, e)
      PROVE  Typed'
  BY <1>6, WriteEntryTyped, RolledBackTyped DEF DeleteEntry
<1> QED
  BY <1>1, <1>2, <1>3, <1>4, <1>5, <1>6 DEF Statement

LEMMA CommitTyped ==
    ASSUME Typed, NEW s \in Session, Commit(s)
    PROVE  Typed'
<1>1. CASE RolledBack(s)
  BY <1>1, RolledBackTyped
<1>2. CASE ~ RolledBack(s)
  <2>1. /\ journal' = Journals(s) /\ entry' = Entries(s)
        /\ session' = [session EXCEPT ![s] = Idle] /\ UNCHANGED <<payment, report>>
    BY <1>2 DEF Commit
  <2>2. TablesOK'
    BY <2>1, SeenTyped DEF Typed, TablesOK
  <2>3. \A q \in Session : session'[q] = IF q = s THEN Idle ELSE session[q]
    BY <2>1 DEF Typed, SessionsOK
  <2>4. SessionsOK'
    BY <2>1, <2>3 DEF Typed, SessionsOK, SessionOK, Idle
  <2> QED
    BY <2>1, <2>2, <2>4, ReportStays DEF Typed
<1> QED
  BY <1>1, <1>2

LEMMA ServiceTyped ==
    ASSUME Typed, NEW p \in Payment, Capture(p) \/ Refund(p)
    PROVE  Typed'
<1>1. PICK j \in Posting, st \in {"CAPTURED", "REFUNDED"} :
         /\ CreateJournal(j, Authorized)
         /\ payment' = [payment EXCEPT ![p] = [status |-> st, captured |-> Authorized]]
         /\ UNCHANGED <<session, report>>
  <2>1. CASE Capture(p)
    BY <2>1, JournalIds DEF Capture
  <2>2. CASE Refund(p)
    <3>1. payment[p].captured = Authorized
      BY <2>2 DEF Refund, Typed, TablesOK
    <3> QED
      BY <2>2, <3>1, JournalIds DEF Refund
  <2> QED
    BY <2>1, <2>2
<1>2. PICK d, c \in Unused :
         /\ entry' = [entry EXCEPT ![d] = Line(j, "DEBIT", Authorized),
                                   ![c] = Line(j, "CREDIT", Authorized)]
         /\ journal' = [journal EXCEPT ![j] = "POSTED"]
  BY <1>1 DEF CreateJournal
<1>3. \A x \in {"DEBIT", "CREDIT"} : Line(j, x, Authorized) \in Row
  BY DEF Line, Row, Amount, Journal
<1>4. TablesOK'
  <2>1. entry' \in [Entry -> Row \cup {None}]
    BY <1>2, <1>3 DEF Typed, TablesOK
  <2>2. journal' \in [Journal -> {None, "DRAFT", "POSTED"}]
    BY <1>2 DEF Typed, TablesOK
  <2> QED
    BY <1>1, <2>1, <2>2 DEF Typed, TablesOK
<1> QED
  BY <1>1, <1>4, SessionsStay, ReportStays DEF Typed

LEMMA ReportTyped ==
    ASSUME Typed, StartReport \/ FinishReport \/ \E p \in Payment : CheckPayment(p)
    PROVE  Typed'
<1>1. UNCHANGED <<payment, journal, entry, session>>
  BY DEF StartReport, FinishReport, CheckPayment
<1>2. ReportOK'
  <2>1. CASE StartReport
    BY <2>1 DEF StartReport, ReportOK, Typed, TablesOK
  <2>2. CASE FinishReport
    <3>1. DOMAIN <<>> = {}
      OBVIOUS
    <3> QED
      BY <2>2, <3>1 DEF FinishReport, ReportOK, Typed
  <2>3. ASSUME NEW p \in Payment, CheckPayment(p) PROVE ReportOK'
    <3> DEFINE rest == [q \in DOMAIN report.seen \ {p} |-> report.seen[q]]
    <3>1. PICK found \in SUBSET Payment :
            report' = [report EXCEPT !.seen = rest, !.findings = found]
      BY <2>3 DEF CheckPayment, Typed, ReportOK
    <3>2. DOMAIN rest \subseteq Payment
      BY DEF Typed, ReportOK
    <3> HIDE DEF rest
    <3> QED
      BY <3>1, <3>2 DEF Typed, ReportOK
  <2> QED
    BY <2>1, <2>2, <2>3
<1> QED
  BY <1>1, <1>2, TablesStay, SessionsStay DEF Typed

LEMMA NextTyped == Typed /\ [Next]_vars => Typed'
<1> SUFFICES ASSUME Typed, [Next]_vars PROVE Typed'
  OBVIOUS
<1>1. CASE UNCHANGED vars
  BY <1>1, TablesStay, SessionsStay, ReportStays DEF vars, Typed
<1>2. CASE \E s \in Session : Rollback(s)
  BY <1>2, RolledBackTyped DEF Rollback
<1> QED
  BY <1>1, <1>2, StatementTyped, CommitTyped, ServiceTyped, ReportTyped DEF Next

(* Rows, sessions and the report keep their types: the checks on an entry  *)
(* hold of every version of it any session writes, by any DML.             *)
THEOREM GuardTypes == Spec => []TypeOK
  BY InitTyped, NextTyped, TypedIsTypeOK, PTL DEF Spec

-----------------------------------------------------------------------------
(* The reconciliation report.  A captured payment's journal has the two    *)
(* lines create_journal gave it, one each way (TwoLines), and what the     *)
(* report has seen as captured is not authorized any more (SeenSettled):   *)
(* the sum it makes later is over these lines.                             *)

TwoLines ==
    \A p \in Payment :
        IF payment[p].status = "AUTHORIZED" THEN EntriesOf(CaptureJournal(p)) = {}
        ELSE \E d, c \in Entry :
                /\ EntriesOf(CaptureJournal(p)) = {d, c}
                /\ entry[d] = Line(CaptureJournal(p), "DEBIT", Authorized)
                /\ entry[c] = Line(CaptureJournal(p), "CREDIT", Authorized)

SeenSettled ==
    \A p \in DOMAIN report.seen : report.seen[p].status = "CAPTURED" =>
        report.seen[p].captured = Authorized /\ payment[p].status # "AUTHORIZED"

ReportInv == Typed /\ GuardInv /\ TwoLines /\ SeenSettled /\ NoFalseAlarm

(* The sum over one entry is its amount.                                   *)
LEMMA TotalOfOne ==
    ASSUME NEW rows, NEW c, rows[c].amount \in Int
    PROVE  MapThenSumSet(LAMBDA e : rows[e].amount, {c}) = rows[c].amount
<1> DEFINE Iter(x) ==
        x = [s \in SUBSET {c} |->
               IF s = {} THEN 0
               ELSE rows[CHOOSE y \in s : TRUE].amount
                        + x[s \ {CHOOSE y \in s : TRUE}]]
           f == [e \in {c} |-> rows[e].amount]
<1>1. PICK it : /\ it = CHOOSE x : Iter(x)
                /\ MapThenSumSet(LAMBDA e : rows[e].amount, {c}) = it[{c}]
  BY DEF MapThenSumSet, MapThenFoldSet
<1>2. IsFiniteSet({c}) /\ f \in [{c} -> Int]
  BY FS_Singleton
<1>3. \A s \in SUBSET {c} : s # {} => (CHOOSE y \in s : TRUE) \in {c}
  OBVIOUS
<1>4. \A x : Sums(x, f, {c}) <=> Iter(x)
  BY <1>3 DEF Sums, Pick
<1>5. \E x : Sums(x, f, {c})
  <2> HIDE DEF f
  <2> QED
    BY <1>2, SumsExist
<1>6. Sums(it, f, {c})
  <2> HIDE DEF Iter, f
  <2> QED
    BY <1>1, <1>4, <1>5
<1>7. SumOver(f) = it[{c}]
  <2> HIDE DEF f
  <2> QED
    BY <1>2, <1>6, SumOverIs
<1>8. SumOver(f) = f[c]
  <2> HIDE DEF f
  <2> QED
    BY <1>2, SumSingle
<1> QED
  BY <1>1, <1>7, <1>8

LEMMA CaptureTotal ==
    ASSUME TwoLines, NEW p \in Payment, payment[p].status # "AUTHORIZED"
    PROVE  CreditTotal(entry, CaptureJournal(p)) = Authorized
<1> DEFINE j == CaptureJournal(p)
           of == {e \in Entry : entry[e] # None /\ entry[e].journal = j
                                   /\ entry[e].direction = "CREDIT"}
<1>1. PICK d, c \in Entry : /\ EntriesOf(j) = {d, c}
                            /\ entry[d] = Line(j, "DEBIT", Authorized)
                            /\ entry[c] = Line(j, "CREDIT", Authorized)
  BY DEF TwoLines
<1>2. of = {c}
  <2>1. \A x, n : Line(j, x, n).journal = j /\ Line(j, x, n).direction = x
    BY DEF Line
  <2>2. of = {e \in EntriesOf(j) : entry[e].direction = "CREDIT"}
    BY DEF EntriesOf
  <2> QED
    BY <1>1, <2>1, <2>2
<1>3. entry[c].amount = Authorized /\ Authorized \in Int
  BY <1>1 DEF Line
<1>4. CreditTotal(entry, j) = MapThenSumSet(LAMBDA e : entry[e].amount, of)
  BY DEF CreditTotal, Total
<1> QED
  BY <1>2, <1>3, <1>4, TotalOfOne

(* Sessions change no line of the service's journals.                      *)
LEMMA SessionsLeaveLines ==
    ASSUME GuardInv, NEW s \in Session, Statement(s) \/ Commit(s) \/ Rollback(s)
    PROVE  /\ UNCHANGED <<payment, report>>
           /\ \A e \in Entry : \/ entry'[e] = entry[e]
                               \/ Foreign(entry[e]) /\ Foreign(entry'[e])
<1>1. ASSUME UNCHANGED <<payment, entry, report>>
      PROVE  /\ UNCHANGED <<payment, report>>
             /\ \A e \in Entry : entry'[e] = entry[e]
  BY <1>1
<1>2. CASE Statement(s) \/ Rollback(s)
  <2>1. UNCHANGED <<payment, entry, report>>
    BY <1>2 DEF Statement, Rollback, InsertJournal, UpdateStatus, InsertEntry,
                UpdateLine, UpdateJournalId, DeleteEntry, WriteJournal, WriteEntry,
                RolledBack
  <2> QED
    BY <2>1
<1>3. CASE Commit(s)
  <2>1. CASE RolledBack(s)
    BY <2>1 DEF RolledBack
  <2>2. CASE entry' = Entries(s) /\ UNCHANGED <<payment, report>>
    <3>1. \A e \in Entry : entry'[e] = IF e \in Written(s) THEN session[s].entries[e]
                                       ELSE entry[e]
      BY <2>2 DEF Entries, Over, Written, GuardInv, GuardType
    <3> QED
      BY <2>2, <3>1 DEF GuardInv, WritesForeign
  <2> QED
    BY <1>3, <2>1, <2>2 DEF Commit
<1> QED
  BY <1>2, <1>3

LEMMA LinesStay ==
    ASSUME TwoLines, payment' = payment,
           \A e \in Entry : \/ entry'[e] = entry[e]
                            \/ Foreign(entry[e]) /\ Foreign(entry'[e])
    PROVE  TwoLines'
<1> SUFFICES ASSUME NEW p \in Payment
             PROVE  LET j == CaptureJournal(p)
                        lines == {e \in Entry : entry'[e] # None
                                                    /\ entry'[e].journal = j} IN
                    IF payment[p].status = "AUTHORIZED" THEN lines = {}
                    ELSE \E d, c \in Entry :
                            /\ lines = {d, c}
                            /\ entry'[d] = Line(j, "DEBIT", Authorized)
                            /\ entry'[c] = Line(j, "CREDIT", Authorized)
  BY DEF TwoLines, EntriesOf, CaptureJournal, Line
<1> DEFINE j == CaptureJournal(p)
<1>1. j \in Posting
  BY JournalIds
<1>2. \A e \in Entry : (entry'[e] # None /\ entry'[e].journal = j)
                          <=> (entry[e] # None /\ entry[e].journal = j)
  BY <1>1 DEF Foreign
<1>3. {e \in Entry : entry'[e] # None /\ entry'[e].journal = j} = EntriesOf(j)
  BY <1>2 DEF EntriesOf
<1>4. \A e \in EntriesOf(j) : entry'[e] = entry[e]
  BY <1>1 DEF EntriesOf, Foreign
<1> QED
  BY <1>3, <1>4 DEF TwoLines

(* A journal of the service gets its two lines; the others keep theirs.    *)
LEMMA PostedLines ==
    ASSUME Typed, NEW j \in Posting, CreateJournal(j, Authorized)
    PROVE  \E d, c \in Entry :
              /\ entry[d] = None /\ entry[c] = None /\ d # c
              /\ entry'[d] = Line(j, "DEBIT", Authorized)
              /\ entry'[c] = Line(j, "CREDIT", Authorized)
              /\ \A e \in Entry \ {d, c} : entry'[e] = entry[e]
  BY DEF CreateJournal, Unused, Typed, TablesOK

LEMMA ServiceLines ==
    ASSUME Typed, TwoLines, NEW p \in Payment, Capture(p) \/ Refund(p)
    PROVE  TwoLines'
<1> DEFINE Lines(j) == {e \in Entry : entry'[e] # None /\ entry'[e].journal = j}
<1>0. PICK k \in {CaptureJournal(p), RefundJournal(p)}, st \in {"CAPTURED", "REFUNDED"} :
         /\ CreateJournal(k, Authorized)
         /\ payment' = [payment EXCEPT ![p] = [status |-> st, captured |-> Authorized]]
         /\ k = CaptureJournal(p) => payment[p].status = "AUTHORIZED"
         /\ k = RefundJournal(p) => payment[p].status # "AUTHORIZED"
  <2>1. CASE Capture(p)
    BY <2>1, JournalIds DEF Capture
  <2>2. CASE Refund(p)
    <3>1. payment[p].captured = Authorized
      BY <2>2 DEF Refund, Typed, TablesOK
    <3> QED
      BY <2>2, <3>1, JournalIds DEF Refund
  <2> QED
    BY <2>1, <2>2
<1>1. k \in Posting
  BY JournalIds
<1>2. PICK d, c \in Entry :
              /\ entry[d] = None /\ entry[c] = None /\ d # c
              /\ entry'[d] = Line(k, "DEBIT", Authorized)
              /\ entry'[c] = Line(k, "CREDIT", Authorized)
              /\ \A e \in Entry \ {d, c} : entry'[e] = entry[e]
  BY <1>0, <1>1, PostedLines
<1>3. /\ Line(k, "DEBIT", Authorized) # None /\ Line(k, "DEBIT", Authorized).journal = k
      /\ Line(k, "CREDIT", Authorized) # None /\ Line(k, "CREDIT", Authorized).journal = k
  <2>1. \A x \in {"DEBIT", "CREDIT"} : Line(k, x, Authorized) \in Row
    BY <1>1 DEF Line, Row, Amount, Journal
  <2> QED
    BY <2>1, RowAssumption DEF Line
<1>4. \A q \in Payment : payment'[q].status = IF q = p THEN st ELSE payment[q].status
  BY <1>0 DEF Typed, TablesOK
<1> SUFFICES ASSUME NEW q \in Payment
             PROVE  IF payment'[q].status = "AUTHORIZED"
                    THEN Lines(CaptureJournal(q)) = {}
                    ELSE \E x, y \in Entry :
                      /\ Lines(CaptureJournal(q)) = {x, y}
                      /\ entry'[x] = Line(CaptureJournal(q), "DEBIT", Authorized)
                      /\ entry'[y] = Line(CaptureJournal(q), "CREDIT", Authorized)
  BY DEF TwoLines, EntriesOf, CaptureJournal, Line
<1>5. CASE k = CaptureJournal(q)
  <2>1. q = p /\ EntriesOf(k) = {}
    BY <1>0, <1>5, JournalIds DEF TwoLines
  <2>2. Lines(k) = {d, c}
    BY <1>2, <1>3, <2>1 DEF EntriesOf
  <2> QED
    BY <1>2, <1>4, <1>5, <2>1, <2>2
<1>6. CASE k # CaptureJournal(q)
  <2>1. /\ Lines(CaptureJournal(q)) = EntriesOf(CaptureJournal(q))
        /\ \A e \in EntriesOf(CaptureJournal(q)) : entry'[e] = entry[e]
    BY <1>2, <1>3, <1>6 DEF EntriesOf
  <2>2. (payment'[q].status = "AUTHORIZED") <=> (payment[q].status = "AUTHORIZED")
    BY <1>0, <1>4, <1>6
  <2> QED
    BY <2>1, <2>2 DEF TwoLines
<1> QED
  BY <1>5, <1>6

LEMMA SeenStays ==
    ASSUME SeenSettled, NoFalseAlarm, report' = report,
           DOMAIN report.seen \subseteq Payment,
           \A p \in Payment : payment[p].status # "AUTHORIZED"
                                 => payment'[p].status # "AUTHORIZED"
    PROVE  SeenSettled' /\ NoFalseAlarm'
  BY DEF SeenSettled, NoFalseAlarm

LEMMA ReportSteps ==
    ASSUME ReportInv, StartReport \/ FinishReport \/ \E p \in Payment : CheckPayment(p)
    PROVE  SeenSettled' /\ NoFalseAlarm'
<1>1. /\ report = [pc |-> report.pc, seen |-> report.seen, findings |-> {}]
      /\ DOMAIN report.seen \subseteq Payment
  BY DEF ReportInv, Typed, ReportOK, NoFalseAlarm
<1>2. CASE StartReport
  BY <1>2 DEF StartReport, SeenSettled, NoFalseAlarm, ReportInv, Typed, TablesOK
<1>3. CASE FinishReport
  <2>1. DOMAIN <<>> = {}
    OBVIOUS
  <2> QED
    BY <1>1, <1>3, <2>1 DEF FinishReport, SeenSettled, NoFalseAlarm
<1>4. ASSUME NEW p \in Payment, CheckPayment(p)
      PROVE  SeenSettled' /\ NoFalseAlarm'
  <2> DEFINE rest == [q \in DOMAIN report.seen \ {p} |-> report.seen[q]]
  <2>1. report.seen[p].status = "CAPTURED" =>
           CreditTotal(entry, CaptureJournal(p)) = report.seen[p].captured
    BY <1>4, CaptureTotal DEF ReportInv, SeenSettled, CheckPayment
  <2>2. report' = [report EXCEPT !.seen = rest, !.findings = report.findings]
    BY <1>1, <1>4, <2>1 DEF CheckPayment
  <2>5. report.findings = {} /\ payment' = payment
    BY <1>4 DEF ReportInv, NoFalseAlarm, CheckPayment
  <2>3. \A q \in DOMAIN rest : q \in DOMAIN report.seen /\ rest[q] = report.seen[q]
    OBVIOUS
  <2> HIDE DEF rest
  <2>4. report'.seen = rest /\ report'.findings = {}
    <3>1. ASSUME NEW pc, NEW seen, NEW r,
                 r = [[pc |-> pc, seen |-> seen, findings |-> {}]
                         EXCEPT !.seen = rest, !.findings = {}]
          PROVE  r.seen = rest /\ r.findings = {}
      BY <3>1
    <3> QED
      BY <1>1, <2>2, <2>5, <3>1
  <2> QED
    BY <2>3, <2>4, <2>5 DEF ReportInv, SeenSettled, NoFalseAlarm
<1> QED
  BY <1>2, <1>3, <1>4

LEMMA NextReport ==
    ASSUME ReportInv, MovePosted = FALSE, [Next]_vars
    PROVE  ReportInv'
<1>1. Typed' /\ GuardInv'
  BY NextTyped, NextGuard DEF ReportInv
<1>2. DOMAIN report.seen \subseteq Payment
  BY DEF ReportInv, Typed, ReportOK
<1>3. CASE UNCHANGED <<payment, entry, report>>
  BY <1>1, <1>2, <1>3, LinesStay, SeenStays DEF ReportInv
<1>4. ASSUME NEW s \in Session, Statement(s) \/ Commit(s) \/ Rollback(s)
      PROVE  ReportInv'
  <2>1. /\ UNCHANGED <<payment, report>>
        /\ \A e \in Entry : \/ entry'[e] = entry[e]
                            \/ Foreign(entry[e]) /\ Foreign(entry'[e])
    BY <1>4, SessionsLeaveLines DEF ReportInv
  <2> QED
    BY <1>1, <1>2, <2>1, LinesStay, SeenStays DEF ReportInv
<1>5. ASSUME NEW p \in Payment, Capture(p) \/ Refund(p) PROVE ReportInv'
  <2>1. /\ report' = report
        /\ \A q \in Payment : payment[q].status # "AUTHORIZED"
                                 => payment'[q].status # "AUTHORIZED"
    BY <1>5 DEF Capture, Refund, ReportInv, Typed, TablesOK
  <2>2. TwoLines'
    BY <1>5, ServiceLines DEF ReportInv
  <2> QED
    BY <1>1, <1>2, <2>1, <2>2, SeenStays DEF ReportInv
<1>6. CASE StartReport \/ FinishReport \/ \E p \in Payment : CheckPayment(p)
  <2>1. UNCHANGED <<payment, entry>>
    BY <1>6 DEF StartReport, FinishReport, CheckPayment
  <2> QED
    BY <1>1, <1>6, <2>1, LinesStay, ReportSteps DEF ReportInv
<1> QED
  BY <1>3, <1>4, <1>5, <1>6 DEF Next, vars

LEMMA InitReport == Init => ReportInv
<1> SUFFICES ASSUME Init PROVE ReportInv
  OBVIOUS
<1>1. TwoLines
  BY DEF Init, TwoLines, EntriesOf
<1>2. SeenSettled /\ NoFalseAlarm
  <2>1. DOMAIN <<>> = {}
    OBVIOUS
  <2> QED
    BY <2>1 DEF Init, SeenSettled, NoFalseAlarm, NoReport
<1> QED
  BY <1>1, <1>2, InitTyped, InitGuard DEF ReportInv

(* reconcile_once reads the payments in one statement and each journal in  *)
(* a later one, while payments are captured and refunded, and reports no   *)
(* mismatch: unless a session moves a posted entry, there is none to find. *)
THEOREM ReportIsQuiet ==
    ASSUME MovePosted = FALSE
    PROVE  Spec => []NoFalseAlarm
<1>1. ReportInv /\ [Next]_vars => ReportInv'
  BY NextReport
<1>2. ReportInv => NoFalseAlarm
  BY DEF ReportInv
<1> QED
  BY <1>1, <1>2, InitReport, PTL DEF Spec
=============================================================================
