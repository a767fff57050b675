------------------------ MODULE EventPipelineProofs ------------------------
(***************************************************************************)
(* Proofs about EventPipeline, for every number of events, every set of    *)
(* publishers, consumers and endpoints, and every bound on faults.         *)
(***************************************************************************)
EXTENDS EventPipeline, FiniteSetTheorems, WellFoundedInduction, TLAPS

USE ConstantsAssumption

-----------------------------------------------------------------------------
(* Every nonempty set of natural numbers has a least element, so that Min  *)
(* picks one of its elements.                                              *)
LEMMA MinIsElement ==
    ASSUME NEW S \in SUBSET Nat, S # {}
    PROVE  Min(S) \in S /\ \A y \in S : Min(S) <= y
<1> DEFINE R == OpToRel(<, Nat)
<1>1. IsWellFoundedOn(R, Nat)
  BY NatLessThanWellFounded
<1>2. \A x, y \in Nat : <<y, x>> \in R <=> y < x
  BY DEF OpToRel
<1> HIDE DEF R
<1>3. PICK x \in S : \A y \in S : <<y, x>> \notin R
  BY <1>1, WFMin
<1>4. ASSUME NEW y \in S PROVE x <= y
  <2>1. ~ (y < x)
    BY <1>2, <1>3, Zenon
  <2> QED
    BY <2>1
<1> QED
  BY <1>4 DEF Min
(* send_and_wait is called for a row of the round.                         *)
LEMMA OldestIsPending ==
    ASSUME TypeOK, NEW w \in Publisher, publisher[w].todo # {}
    PROVE  Oldest(w) \in publisher[w].todo /\ Oldest(w) \in Event
<1>1. publisher[w].todo \subseteq Event /\ Event \subseteq Nat
  BY DEF TypeOK, Event
<1> QED
  BY <1>1, MinIsElement DEF Oldest

(* A message appended to the topic leaves the ones before it in place.     *)
LEMMA Appended ==
    ASSUME TypeOK, NEW m \in Event \cup {Invalid}, log' = Append(log, m)
    PROVE  /\ log' \in Seq(Event \cup {Invalid})
           /\ Len(log) \in Nat /\ Len(log') = Len(log) + 1
           /\ DOMAIN log = 1..Len(log) /\ DOMAIN log' = 1..Len(log)+1
           /\ \A i \in 1..Len(log) : log'[i] = log[i]
           /\ log'[Len(log)+1] = m
  BY DEF TypeOK

-----------------------------------------------------------------------------
(* The invariant.                                                          *)

(* What is on the topic, in a round, in a consumer's hand or in the inbox  *)
(* is a row of a committed transaction, or undecodable.                    *)
OnlyCommitted ==
    /\ \A w \in Publisher :
          publisher[w].todo \cup publisher[w].sent \cup publisher[w].failed
              \subseteq committed
    /\ \A i \in DOMAIN log : log[i] \in committed \cup {Invalid}
    /\ \A c \in Consumer :
          /\ consumer[c].message \in committed \cup {Invalid}
          /\ consumer[c].pc \in {"processing", "claimed"} =>
                consumer[c].message # Invalid
    /\ inbox \subseteq committed

(* What a round has sent is on the topic before it is marked published.    *)
SentIsOnTopic ==
    /\ \A e \in published : \E i \in DOMAIN log : log[i] = e
    /\ \A w \in Publisher : \A e \in publisher[w].sent : \E i \in DOMAIN log : log[i] = e

(* An inbox row that is inserted and not committed is nobody else's, and   *)
(* not in the inbox.                                                       *)
ClaimsExclude ==
    \A c \in Consumer : consumer[c].pc = "claimed" =>
        /\ consumer[c].message \notin inbox
        /\ \A d \in Consumer :
              consumer[d].pc = "claimed" /\ consumer[d].message = consumer[c].message
                  => d = c

InHand(c, i) ==
    /\ i = consumer[c].position /\ log[i] = consumer[c].message
    /\ consumer[c].pc \in {"processing", "claimed"}

(* The group's owner has everything from the committed offset to its own   *)
(* position behind it, but for the message it has in hand.                 *)
OwnerCaughtUp ==
    \A c \in Consumer : owner = c =>
        /\ consumer[c].pc # "stopped"
        /\ offset # NoOffset =>
              /\ offset <= consumer[c].position
              /\ \A i \in DOMAIN log : offset < i /\ i <= consumer[c].position =>
                    log[i] = Invalid \/ log[i] \in inbox \/ InHand(c, i)

PipeInv == TypeOK /\ OnlyCommitted /\ SentIsOnTopic /\ ClaimsExclude /\ OwnerCaughtUp

LEMMA InitInv == Init => PipeInv
<1> SUFFICES ASSUME Init PROVE PipeInv
  OBVIOUS
<1>1. TypeOK
  BY DEF Init, TypeOK, Resting, Stopped, NoOffset, Invalid
<1>2. OnlyCommitted /\ SentIsOnTopic /\ ClaimsExclude /\ OwnerCaughtUp
  BY DEF Init, OnlyCommitted, SentIsOnTopic, ClaimsExclude, OwnerCaughtUp, Resting,
         Stopped, Invalid
<1> QED
  BY <1>1, <1>2 DEF PipeInv
-----------------------------------------------------------------------------
(* Every step.  The steps of publishers and of Kafka leave the consumers   *)
(* alone, and extend the topic at most.                                    *)

(* The topic grows: offsets and positions in it stay within it.            *)
LEMMA TopicGrows ==
    ASSUME TypeOK, NEW m \in Event \cup {Invalid}, log' = Append(log, m),
           UNCHANGED <<offset, consumer>>
    PROVE  /\ log' \in Seq(Event \cup {Invalid})
           /\ offset' \in {NoOffset} \cup 0..Len(log')
           /\ consumer' \in [Consumer ->
                [pc : {"stopped", "reading", "processing", "claimed", "committing"},
                 position : 0..Len(log'), message : Event \cup {Invalid}]]
<1> DEFINE n == Len(log)
<1>1. /\ log' \in Seq(Event \cup {Invalid}) /\ n \in Nat /\ Len(log') = n + 1
  BY Appended
<1>2. 0..n \subseteq 0..n+1
  BY <1>1
<1>3. offset' \in {NoOffset} \cup 0..n+1
  BY <1>2 DEF TypeOK
<1> DEFINE C(k) == [pc : {"stopped", "reading", "processing", "claimed", "committing"},
                    position : 0..k, message : Event \cup {Invalid}]
<1>4. C(n) \subseteq C(n+1)
  BY <1>2
<1>5. consumer \in [Consumer -> C(n)]
  BY DEF TypeOK
<1> HIDE DEF C
<1>6. consumer' \in [Consumer -> C(n+1)]
  BY <1>4, <1>5
<1> QED
  BY <1>1, <1>3, <1>6 DEF C

(* A row of the round is moved from todo to sent or failed.                *)
LEMMA RoundMoves ==
    ASSUME TypeOK, NEW w \in Publisher, NEW e \in Event, Sent(w, e) \/ Failed(w, e)
    PROVE  /\ publisher' \in [Publisher -> [todo : SUBSET Event, sent : SUBSET Event,
                                            failed : SUBSET Event]]
           /\ \A v \in Publisher \ {w} : publisher'[v] = publisher[v]
           /\ publisher'[w].todo = publisher[w].todo \ {e}
           /\ Sent(w, e) => /\ publisher'[w].sent = publisher[w].sent \cup {e}
                            /\ publisher'[w].failed = publisher[w].failed
           /\ Failed(w, e) => /\ publisher'[w].failed = publisher[w].failed \cup {e}
                              /\ publisher'[w].sent = publisher[w].sent
<1>1. publisher[w] \in [todo : SUBSET Event, sent : SUBSET Event, failed : SUBSET Event]
  BY DEF TypeOK
<1>2. CASE Sent(w, e)
  BY <1>1, <1>2 DEF TypeOK, Sent, Failed
<1>3. CASE Failed(w, e)
  BY <1>1, <1>3 DEF TypeOK, Sent, Failed
<1> QED
  BY <1>2, <1>3

(* Every variable keeps its type; in particular what is marked published   *)
(* was committed, since it was in a round.                                 *)
LEMMA PublisherTypes ==
    ASSUME TypeOK, OnlyCommitted, NEW w \in Publisher,
           Round(w) \/ SendUnacknowledged(w) \/ PublisherDies(w)
    PROVE  TypeOK'
<1> USE DEF TypeOK
<1>1. CASE StartRound(w)
  <2>1. Batch \subseteq Event
    BY DEF Batch, Pending
  <2> QED
    BY <1>1, <2>1 DEF StartRound, outbox, kafka, group, effects
<1>2. CASE SendSucceeds(w)
  <2>1. Oldest(w) \in Event
    BY <1>2, OldestIsPending DEF SendSucceeds
  <2> QED
    BY <1>2, <2>1, TopicGrows, RoundMoves DEF SendSucceeds, outbox, group, effects
<1>3. CASE SendFails(w)
  <2>1. Oldest(w) \in Event
    BY <1>3, OldestIsPending DEF SendFails
  <2> QED
    BY <1>3, <2>1, RoundMoves DEF SendFails, outbox, kafka, group, effects
<1>4. CASE SendUnacknowledged(w)
  <2>1. Oldest(w) \in Event
    BY <1>4, OldestIsPending DEF SendUnacknowledged
  <2> QED
    BY <1>4, <2>1, TopicGrows, RoundMoves
       DEF SendUnacknowledged, Fault, outbox, group, effects
<1>5. CASE FinishRound(w)
  <2>1. publisher[w].sent \subseteq committed
    BY DEF OnlyCommitted
  <2>2. retries' \in [Event -> Nat]
    BY <1>5 DEF FinishRound
  <2> QED
    BY <1>5, <2>1, <2>2 DEF FinishRound, Resting, kafka, group, effects
<1>6. CASE PublisherDies(w)
  BY <1>6 DEF PublisherDies, Fault, Resting, outbox, kafka, group, effects
<1> QED
  BY <1>1, <1>2, <1>3, <1>4, <1>5, <1>6 DEF Round

LEMMA EnvironmentTypes ==
    ASSUME TypeOK,
           \/ \E e \in Event : CommitRow(e)
           \/ KafkaFails \/ KafkaRecovers \/ InvalidMessage
    PROVE  TypeOK'
<1> USE DEF TypeOK
<1>1. CASE \E e \in Event : CommitRow(e)
  BY <1>1 DEF CommitRow, kafka, group, effects
<1>2. CASE KafkaFails
  <2>1. faults' \in 0..MaxFaults
    BY <1>2 DEF KafkaFails, Fault
  <2>2. kafkaUp' \in BOOLEAN
    BY <1>2 DEF KafkaFails
  <2> QED
    BY <1>2, <2>1, <2>2 DEF KafkaFails, outbox, group, effects
<1>4. CASE KafkaRecovers
  BY <1>4 DEF KafkaRecovers, outbox, group, effects
<1>3. CASE InvalidMessage
  BY <1>3, TopicGrows DEF InvalidMessage, outbox, group, effects
<1> QED
  BY <1>1, <1>2, <1>3, <1>4

LEMMA ConsumerTypes ==
    ASSUME TypeOK, OnlyCommitted, NEW c \in Consumer,
           ConsumerStarts(c) \/ Consume(c) \/ Rebalance(c) \/ ConsumerDies(c)
    PROVE  TypeOK'
<1> USE DEF TypeOK
<1>1. CASE ConsumerStarts(c)
  BY <1>1 DEF ConsumerStarts, outbox, kafka, effects
<1>2. CASE FirstAssignment(c) \/ Rebalance(c)
  <2>1. StartPosition \in 0..Len(log)
    BY DEF StartPosition, NoOffset
  <2>0. Assign(c)
    BY <1>2 DEF FirstAssignment, Rebalance
  <2>2. consumer' \in [Consumer ->
            [pc : {"stopped", "reading", "processing", "claimed", "committing"},
             position : 0..Len(log), message : Event \cup {Invalid}]]
    BY <2>0, <2>1 DEF Assign
  <2>3. rebalances' \in 0..MaxRebalances
    BY <1>2 DEF FirstAssignment, Rebalance
  <2> QED
    BY <2>0, <2>2, <2>3 DEF Assign, outbox, kafka, effects
<1>3. CASE Read(c)
  <2> DEFINE next == consumer[c].position + 1
  <2>1. next \in DOMAIN log /\ log[next] \in Event \cup {Invalid}
    BY <1>3 DEF Read
  <2> QED
    BY <1>3, <2>1 DEF Read, outbox, kafka, effects
<1>4. CASE Claim(c)
  BY <1>4 DEF Claim, outbox, kafka, effects
<1>5. CASE Deliver(c)
  <2>1. consumer[c].message \in Event
    BY <1>5 DEF Deliver, OnlyCommitted
  <2>2. deliveries' \in [Subscribed -> Nat]
    BY <1>5 DEF Deliver
  <2> QED
    BY <1>5, <2>1, <2>2 DEF Deliver, outbox, kafka
<1>6. CASE DeliverRaises(c)
  BY <1>6 DEF DeliverRaises, Stop, Stopped, Invalid, outbox, kafka, effects
<1>7. CASE CommitOffset(c)
  BY <1>7 DEF CommitOffset, ReadPosition, outbox, effects
<1>8. CASE CommitFenced(c)
  <2>1. CASE Stop(c)
    BY <1>8, <2>1 DEF CommitFenced, Stop, Stopped, Invalid, outbox, kafka, effects
  <2>2. CASE /\ consumer' = [consumer EXCEPT ![c].pc = "reading"]
             /\ UNCHANGED <<owner, rebalances>>
    BY <1>8, <2>2 DEF CommitFenced, outbox, kafka, effects
  <2> QED
    BY <1>8, <2>1, <2>2 DEF CommitFenced
<1>9. CASE ConsumerDies(c)
  BY <1>9 DEF ConsumerDies, Fault, Stop, Stopped, Invalid, outbox, kafka, effects
<1> QED
  BY <1>1, <1>2, <1>3, <1>4, <1>5, <1>6, <1>7, <1>8, <1>9 DEF Consume
(* A step that at most appends a committed row, or an undecodable message, *)
(* keeps what is said of the consumers, and whatever was on the topic.     *)
LEMMA TopicOnlyGrows ==
    ASSUME PipeInv, NEW m \in Event \cup {Invalid}, m \in committed' \cup {Invalid},
           log' = log \/ log' = Append(log, m), committed \subseteq committed',
           UNCHANGED <<offset, owner, consumer, inbox>>
    PROVE  /\ \A i \in DOMAIN log' : log'[i] \in committed' \cup {Invalid}
           /\ \A e \in Event : (\E i \in DOMAIN log : log[i] = e)
                               => \E i \in DOMAIN log' : log'[i] = e
           /\ (log' = Append(log, m)) => \E i \in DOMAIN log' : log'[i] = m
           /\ (\A w \in Publisher : publisher'[w].todo \cup publisher'[w].sent
                                        \cup publisher'[w].failed \subseteq committed')
                  => OnlyCommitted'
           /\ ClaimsExclude' /\ OwnerCaughtUp'
<1>1. /\ DOMAIN log = 1..Len(log) /\ Len(log) \in Nat
      /\ DOMAIN log' = 1..Len(log) \/ DOMAIN log' = 1..Len(log)+1
      /\ \A i \in DOMAIN log : i \in DOMAIN log' /\ log'[i] = log[i]
      /\ \A i \in DOMAIN log' \ DOMAIN log : i = Len(log)+1 /\ log'[i] = m
  <2>1. log \in Seq(Event \cup {Invalid}) /\ TypeOK
    BY DEF PipeInv, TypeOK
  <2>2. DOMAIN log = 1..Len(log) /\ Len(log) \in Nat
    BY <2>1
  <2>3. CASE log' = log
    BY <2>2, <2>3
  <2>4. CASE log' = Append(log, m)
    BY <2>1, <2>2, <2>4, Appended
  <2> QED
    BY <2>2, <2>3, <2>4
<1>2. \A i \in DOMAIN log' : log'[i] \in committed' \cup {Invalid}
  BY <1>1 DEF PipeInv, OnlyCommitted
<1>3. \A e \in Event : (\E i \in DOMAIN log : log[i] = e)
                        => \E i \in DOMAIN log' : log'[i] = e
  BY <1>1
<1>4. (log' = Append(log, m)) => \E i \in DOMAIN log' : log'[i] = m
  BY Appended DEF PipeInv
<1>5. (\A w \in Publisher : publisher'[w].todo \cup publisher'[w].sent
                              \cup publisher'[w].failed \subseteq committed')
         => OnlyCommitted'
  BY <1>2 DEF PipeInv, OnlyCommitted
<1>6. ClaimsExclude'
  BY DEF PipeInv, ClaimsExclude
<1>7. \A c \in Consumer : consumer[c].position \in 0..Len(log)
  BY DEF PipeInv, TypeOK
<1>8. OwnerCaughtUp'
  BY <1>1, <1>7 DEF PipeInv, OwnerCaughtUp, InHand
<1> QED
  BY <1>2, <1>3, <1>4, <1>5, <1>6, <1>8

LEMMA PublisherKeeps ==
    ASSUME PipeInv, NEW w \in Publisher,
           Round(w) \/ SendUnacknowledged(w) \/ PublisherDies(w)
    PROVE  PipeInv'
<1> DEFINE Rows(r) == r.todo \cup r.sent \cup r.failed
<1>1. TypeOK'
  BY PublisherTypes DEF PipeInv
<1>2. UNCHANGED <<committed, offset, owner, consumer, inbox>>
  BY DEF Round, StartRound, SendSucceeds, SendFails, SendUnacknowledged, FinishRound,
         PublisherDies, outbox, kafka, group, effects
<1>3. /\ \A v \in Publisher : Rows(publisher[v]) \subseteq committed
      /\ publisher \in [Publisher -> [todo : SUBSET Event, sent : SUBSET Event,
                                      failed : SUBSET Event]]
      /\ published \subseteq Event /\ committed \subseteq Event
  BY DEF PipeInv, OnlyCommitted, TypeOK
<1>4. CASE StartRound(w)
  <2>1. Batch \subseteq committed
    BY DEF Batch, Pending
  <2>2. /\ log' = log /\ published' = published
        /\ publisher' = [publisher EXCEPT ![w].todo = Batch]
    BY <1>4 DEF StartRound, kafka, outbox
  <2>5. \A v \in Publisher : Rows(publisher'[v]) \subseteq committed
    <3>1. \A v \in Publisher :
             /\ publisher'[v].todo \subseteq publisher[v].todo \cup Batch
             /\ publisher'[v].sent = publisher[v].sent
             /\ publisher'[v].failed = publisher[v].failed
      BY <1>3, <2>2
    <3> QED
      BY <1>3, <2>1, <3>1
  <2>3. OnlyCommitted' /\ ClaimsExclude' /\ OwnerCaughtUp'
    BY <1>2, <2>2, <2>5, TopicOnlyGrows
  <2>4. SentIsOnTopic'
    BY <1>3, <2>2 DEF PipeInv, SentIsOnTopic
  <2> QED
    BY <1>1, <2>3, <2>4 DEF PipeInv
<1>5. CASE SendSucceeds(w) \/ SendFails(w) \/ SendUnacknowledged(w)
  <2>0. PICK e : e = Oldest(w)
    OBVIOUS
  <2>1. e \in publisher[w].todo /\ e \in Event /\ e \in committed
    BY <1>3, <1>5, <2>0, OldestIsPending
       DEF PipeInv, SendSucceeds, SendFails, SendUnacknowledged
  <2>2. /\ Sent(w, e) \/ Failed(w, e)
        /\ log' = Append(log, e) \/ (log' = log /\ Failed(w, e))
        /\ published' = published
    <3>1. CASE SendSucceeds(w)
      BY <2>0, <3>1 DEF SendSucceeds, outbox
    <3>2. CASE SendFails(w)
      BY <2>0, <3>2 DEF SendFails, outbox, kafka
    <3>3. CASE SendUnacknowledged(w)
      BY <2>0, <3>3 DEF SendUnacknowledged, outbox
    <3> QED
      BY <1>5, <3>1, <3>2, <3>3
  <2>3. /\ \A v \in Publisher \ {w} : publisher'[v] = publisher[v]
        /\ publisher'[w].todo = publisher[w].todo \ {e}
        /\ publisher'[w].sent \subseteq publisher[w].sent \cup {e}
        /\ publisher'[w].failed \subseteq publisher[w].failed \cup {e}
        /\ Failed(w, e) => publisher'[w].sent = publisher[w].sent
    BY <2>1, <2>2, RoundMoves DEF PipeInv
  <2>4. \A v \in Publisher : Rows(publisher'[v]) \subseteq committed
    BY <1>3, <2>1, <2>3
  <2>5. OnlyCommitted' /\ ClaimsExclude' /\ OwnerCaughtUp'
    BY <1>2, <2>1, <2>2, <2>4, TopicOnlyGrows
  <2>6. \A d \in Event : (\E i \in DOMAIN log : log[i] = d)
                         => \E i \in DOMAIN log' : log'[i] = d
    BY <1>2, <2>1, <2>2, TopicOnlyGrows
  <2>7. log' = Append(log, e) => \E i \in DOMAIN log' : log'[i] = e
    BY <1>2, <2>1, <2>2, TopicOnlyGrows
  <2>8. \A v \in Publisher : \A d \in publisher'[v].sent :
            d \in publisher[v].sent \/ (d = e /\ log' = Append(log, e))
    <3>1. CASE log' = Append(log, e)
      BY <2>3, <3>1
    <3>2. CASE log' # Append(log, e)
      BY <2>2, <2>3, <3>2
    <3> QED
      BY <3>1, <3>2
  <2>9. SentIsOnTopic'
    BY <1>3, <2>2, <2>6, <2>7, <2>8 DEF PipeInv, SentIsOnTopic
  <2> QED
    BY <1>1, <2>5, <2>9 DEF PipeInv
<1>6. CASE FinishRound(w) \/ PublisherDies(w)
  <2>1. /\ log' = log
        /\ publisher' = [publisher EXCEPT ![w] = Resting]
        /\ published' \subseteq published \cup publisher[w].sent
    BY <1>6 DEF FinishRound, PublisherDies, kafka, outbox
  <2>2. \A v \in Publisher : publisher'[v] = IF v = w THEN Resting ELSE publisher[v]
    BY <1>3, <2>1
  <2>3. \A v \in Publisher : Rows(publisher'[v]) \subseteq committed
    BY <1>3, <2>2 DEF Resting
  <2>4. OnlyCommitted' /\ ClaimsExclude' /\ OwnerCaughtUp'
    BY <1>2, <1>3, <2>1, <2>3, TopicOnlyGrows
  <2>5. SentIsOnTopic'
    BY <2>1, <2>2 DEF PipeInv, SentIsOnTopic, Resting
  <2> QED
    BY <1>1, <2>4, <2>5 DEF PipeInv
<1> QED
  BY <1>4, <1>5, <1>6 DEF Round

LEMMA EnvironmentKeeps ==
    ASSUME PipeInv,
           \/ \E e \in Event : CommitRow(e)
           \/ KafkaFails \/ KafkaRecovers \/ InvalidMessage
    PROVE  PipeInv'
<1>1. TypeOK'
  BY EnvironmentTypes DEF PipeInv
<1>2. /\ UNCHANGED <<published, publisher, offset, owner, consumer, inbox>>
      /\ log' = log \/ log' = Append(log, Invalid)
      /\ committed \subseteq committed'
  BY DEF CommitRow, KafkaFails, KafkaRecovers, InvalidMessage, outbox, kafka, group,
         effects
<1>3. OnlyCommitted' /\ ClaimsExclude' /\ OwnerCaughtUp'
  BY <1>2, TopicOnlyGrows DEF PipeInv, OnlyCommitted
<1>4. \A d \in Event : (\E i \in DOMAIN log : log[i] = d)
                         => \E i \in DOMAIN log' : log'[i] = d
  BY <1>2, TopicOnlyGrows
<1>5. SentIsOnTopic'
  BY <1>2, <1>4 DEF PipeInv, SentIsOnTopic, TypeOK
<1> QED
  BY <1>1, <1>3, <1>5 DEF PipeInv
(* The steps of consumers leave outbox, publishers and topic alone.        *)
LEMMA ConsumerKeeps ==
    ASSUME PipeInv, NEW c \in Consumer,
           ConsumerStarts(c) \/ Consume(c) \/ Rebalance(c) \/ ConsumerDies(c)
    PROVE  PipeInv'
<1>1. TypeOK'
  BY ConsumerTypes DEF PipeInv
<1>2. UNCHANGED <<committed, published, publisher, log>>
  BY DEF ConsumerStarts, Consume, FirstAssignment, Rebalance, Assign, Read, Claim,
         Deliver, DeliverRaises, CommitOffset, CommitFenced, ConsumerDies, Stop,
         outbox, kafka
<1>3. SentIsOnTopic'
  BY <1>2 DEF PipeInv, SentIsOnTopic
<1>4. /\ consumer = [d \in Consumer |-> consumer[d]]
      /\ \A d \in Consumer : consumer[d] =
            [pc |-> consumer[d].pc, position |-> consumer[d].position,
             message |-> consumer[d].message]
      /\ \A d \in Consumer : consumer[d].position \in 0..Len(log)
      /\ DOMAIN log = 1..Len(log) /\ Len(log) \in Nat
      /\ offset \in {NoOffset} \cup 0..Len(log)
  BY DEF PipeInv, TypeOK
(* It is enough to look at c, when inbox, offset and owner are as before.  *)
<1>5. ASSUME UNCHANGED <<inbox, offset>>, owner' = owner \/ owner' = Nobody,
             \A d \in Consumer \ {c} : consumer'[d] = consumer[d],
             consumer'[c].message = Invalid
                 \/ consumer'[c].message = consumer[c].message,
             consumer'[c].pc \notin {"processing", "claimed"},
             owner' = c => /\ consumer'[c].pc # "stopped"
                           /\ consumer'[c].position = consumer[c].position
                           /\ consumer[c].pc \notin {"processing", "claimed"}
      PROVE  OnlyCommitted' /\ ClaimsExclude' /\ OwnerCaughtUp'
  <2>1. OnlyCommitted'
    BY <1>2, <1>5 DEF PipeInv, OnlyCommitted
  <2>2. ClaimsExclude'
    BY <1>5 DEF PipeInv, ClaimsExclude
  <2>3. OwnerCaughtUp'
    BY <1>2, <1>5 DEF PipeInv, OwnerCaughtUp, InHand
  <2> QED
    BY <2>1, <2>2, <2>3
<1>6. CASE ConsumerStarts(c)
  <2>1. owner # c
    BY <1>6 DEF ConsumerStarts, Running, PipeInv, OwnerCaughtUp
  <2> QED
    BY <1>1, <1>3, <1>4, <1>5, <1>6, <2>1
       DEF ConsumerStarts, PipeInv, effects, kafka
<1>7. CASE FirstAssignment(c) \/ Rebalance(c)
  <2>1. /\ owner' = c /\ UNCHANGED <<inbox, offset>> /\ consumer[c].pc # "stopped"
        /\ consumer' = [consumer EXCEPT ![c].position = StartPosition]
    BY <1>7 DEF FirstAssignment, Rebalance, Assign, Running, kafka, effects
  <2>2. \A d \in Consumer :
           /\ consumer'[d].pc = consumer[d].pc
           /\ consumer'[d].message = consumer[d].message
    BY <1>4, <2>1
  <2>3. consumer'[c].position = StartPosition
    BY <1>4, <2>1
  <2>4. OnlyCommitted' /\ ClaimsExclude'
    BY <1>2, <2>1, <2>2 DEF PipeInv, OnlyCommitted, ClaimsExclude
  <2>5. OwnerCaughtUp'
    BY <1>2, <1>4, <2>1, <2>2, <2>3 DEF OwnerCaughtUp, StartPosition, NoOffset
  <2> QED
    BY <1>1, <1>3, <2>4, <2>5 DEF PipeInv
<1>8. CASE Read(c)
  <2> DEFINE next == consumer[c].position + 1
  <2>1. /\ owner = c /\ owner' = owner /\ UNCHANGED <<inbox, offset>>
        /\ consumer[c].pc = "reading" /\ next \in DOMAIN log
    BY <1>4, <1>8 DEF Read, kafka, effects
  <2>2. /\ \A d \in Consumer \ {c} : consumer'[d] = consumer[d]
        /\ consumer'[c].pc = IF log[next] = Invalid THEN "committing" ELSE "processing"
        /\ consumer'[c].position = next /\ consumer'[c].message = log[next]
    BY <1>4, <1>8 DEF Read
  <2>3. log[next] \in committed \cup {Invalid}
    BY <2>1 DEF PipeInv, OnlyCommitted
  <2>4. OnlyCommitted'
    BY <1>2, <2>1, <2>2, <2>3 DEF PipeInv, OnlyCommitted
  <2>5. ClaimsExclude'
    BY <2>1, <2>2 DEF PipeInv, ClaimsExclude
  <2>6. OwnerCaughtUp'
    BY <1>2, <1>4, <2>1, <2>2 DEF PipeInv, OwnerCaughtUp, InHand, NoOffset
  <2> QED
    BY <1>1, <1>3, <2>4, <2>5, <2>6 DEF PipeInv
<1>9. CASE Claim(c)
  <2> DEFINE e == consumer[c].message
  <2>0. \A d \in Consumer : consumer[d].pc = "claimed" => consumer[d].message # e
    <3>1. Claimants(e) = {}
      BY <1>9 DEF Claim
    <3> QED
      BY <3>1 DEF Claimants
  <2>1. /\ UNCHANGED <<owner, inbox, offset>> /\ consumer[c].pc = "processing"
        /\ consumer' = [consumer EXCEPT ![c].pc =
                            IF e \in inbox THEN "committing" ELSE "claimed"]
    BY <1>9 DEF Claim, kafka, effects
  <2>2. /\ \A d \in Consumer \ {c} : consumer'[d] = consumer[d]
        /\ consumer'[c].pc = IF e \in inbox THEN "committing" ELSE "claimed"
        /\ consumer'[c].position = consumer[c].position
        /\ consumer'[c].message = e
    BY <1>4, <2>1
  <2>3. OnlyCommitted'
    BY <1>2, <2>1, <2>2 DEF PipeInv, OnlyCommitted
  <2>4. ClaimsExclude'
    BY <2>0, <2>1, <2>2 DEF PipeInv, ClaimsExclude
  <2>5. OwnerCaughtUp'
    BY <1>2, <2>1, <2>2 DEF PipeInv, OwnerCaughtUp, InHand
  <2> QED
    BY <1>1, <1>3, <2>3, <2>4, <2>5 DEF PipeInv
<1>10. CASE Deliver(c)
  <2> DEFINE e == consumer[c].message
  <2>1. /\ UNCHANGED <<owner, offset>> /\ consumer[c].pc = "claimed"
        /\ inbox' = inbox \cup {e}
        /\ \A d \in Consumer \ {c} : consumer'[d] = consumer[d]
        /\ consumer'[c].pc = "committing"
        /\ consumer'[c].position = consumer[c].position
        /\ consumer'[c].message = e
    BY <1>4, <1>10 DEF Deliver, kafka
  <2>2. OnlyCommitted'
    BY <1>2, <2>1 DEF PipeInv, OnlyCommitted
  <2>3. ClaimsExclude'
    BY <2>1 DEF PipeInv, ClaimsExclude
  <2>4. OwnerCaughtUp'
    BY <1>2, <2>1 DEF PipeInv, OwnerCaughtUp, InHand
  <2> QED
    BY <1>1, <1>3, <2>2, <2>3, <2>4 DEF PipeInv
<1>11. CASE Stop(c) /\ UNCHANGED <<inbox, offset>>
  <2>1. /\ owner' = owner \/ owner' = Nobody
        /\ owner' # c
        /\ \A d \in Consumer \ {c} : consumer'[d] = consumer[d]
        /\ consumer'[c] = Stopped
    BY <1>4, <1>11 DEF Stop
  <2> QED
    BY <1>1, <1>3, <1>5, <1>11, <2>1 DEF PipeInv, Stopped
<1>12. CASE CommitOffset(c)
  <2>1. /\ owner = c /\ owner' = owner /\ inbox' = inbox
        /\ consumer[c].pc = "committing" /\ offset' = consumer[c].position
        /\ \A d \in Consumer \ {c} : consumer'[d] = consumer[d]
        /\ consumer'[c].pc = "reading"
        /\ consumer'[c].position = consumer[c].position
        /\ consumer'[c].message = consumer[c].message
    BY <1>4, <1>12 DEF CommitOffset, ReadPosition, effects
  <2>2. OnlyCommitted'
    BY <1>2, <2>1 DEF PipeInv, OnlyCommitted
  <2>3. ClaimsExclude'
    BY <2>1 DEF PipeInv, ClaimsExclude
  <2>4. OwnerCaughtUp'
    <3>1. /\ consumer'[c].pc # "stopped" /\ offset' = consumer'[c].position
          /\ offset' \in 0..Len(log) /\ DOMAIN log' = 1..Len(log) /\ Len(log) \in Nat
          /\ \A d \in Consumer : owner' = d => d = c
      BY <1>2, <1>4, <2>1
    <3>2. \A i \in DOMAIN log' : ~ (offset' < i /\ i <= consumer'[c].position)
      BY <3>1
    <3> QED
      BY <3>1, <3>2 DEF OwnerCaughtUp
  <2> QED
    BY <1>1, <1>3, <2>2, <2>3, <2>4 DEF PipeInv
<1>13. CASE CommitFenced(c)
  <2>1. owner # c /\ UNCHANGED <<inbox, offset>>
    BY <1>13 DEF CommitFenced, kafka, effects
  <2>2. CASE owner' = owner /\ consumer' = [consumer EXCEPT ![c].pc = "reading"]
    <3>1. /\ \A d \in Consumer \ {c} : consumer'[d] = consumer[d]
          /\ consumer'[c].pc = "reading"
          /\ consumer'[c].message = consumer[c].message
      BY <1>4, <2>2
    <3> QED
      BY <1>1, <1>3, <1>5, <2>1, <2>2, <3>1 DEF PipeInv
  <2> QED
    BY <1>11, <1>13, <2>1, <2>2 DEF CommitFenced
<1>14. CASE DeliverRaises(c) \/ ConsumerDies(c)
  BY <1>11, <1>14 DEF DeliverRaises, ConsumerDies, kafka, effects
<1> QED
  BY <1>6, <1>7, <1>8, <1>9, <1>10, <1>12, <1>13, <1>14 DEF Consume

LEMMA NextInv == PipeInv /\ [Next]_vars => PipeInv'
<1> SUFFICES ASSUME PipeInv, [Next]_vars PROVE PipeInv'
  OBVIOUS
<1>1. CASE \E w \in Publisher :
              Round(w) \/ SendUnacknowledged(w) \/ PublisherDies(w)
  BY <1>1, PublisherKeeps
<1>2. CASE \/ \E e \in Event : CommitRow(e)
           \/ KafkaFails \/ KafkaRecovers \/ InvalidMessage
  BY <1>2, EnvironmentKeeps
<1>3. CASE \E c \in Consumer :
              ConsumerStarts(c) \/ Consume(c) \/ Rebalance(c) \/ ConsumerDies(c)
  BY <1>3, ConsumerKeeps
<1>4. CASE UNCHANGED vars
  <2>1. UNCHANGED <<committed, published, retries, publisher, kafkaUp, log, offset,
                    owner, consumer, rebalances, inbox, deliveries, faults>>
    BY <1>4 DEF vars, outbox, kafka, group, effects
  <2>2. TypeOK'
    BY <2>1 DEF PipeInv, TypeOK
  <2>3. OnlyCommitted' /\ SentIsOnTopic' /\ ClaimsExclude'
    BY <2>1 DEF PipeInv, OnlyCommitted, SentIsOnTopic, ClaimsExclude
  <2>4. OwnerCaughtUp'
    BY <2>1 DEF PipeInv, OwnerCaughtUp, InHand
  <2> QED
    BY <2>2, <2>3, <2>4 DEF PipeInv
<1> QED
  BY <1>1, <1>2, <1>3, <1>4 DEF Next

(* The invariant holds whatever the workers, Kafka and the faults do.      *)
THEOREM PipelineInvariant == Spec => []PipeInv
<1> QED
  BY InitInv, NextInv, PTL DEF Spec

(* Rows, rounds, messages, positions and offsets keep their types; in      *)
(* particular mark_published sets only rows of committed transactions.     *)
THEOREM PipelineTypes == Spec => []TypeOK
<1>1. PipeInv => TypeOK
  BY DEF PipeInv
<1> QED
  BY <1>1, PipelineInvariant, PTL

(* publish_once: what a round marks published is on the topic, whichever   *)
(* sends fail, lose their acknowledgement or are rolled back.              *)
THEOREM PublishedReachesTopic == Spec => []PublishedIsOnTopic
<1>1. PipeInv => PublishedIsOnTopic
  BY DEF PipeInv, SentIsOnTopic, PublishedIsOnTopic, Range
<1> QED
  BY <1>1, PipelineInvariant, PTL

-----------------------------------------------------------------------------
(* Several publishers do not send one row twice.                           *)

RowsOf(w) == publisher[w].todo \cup publisher[w].sent \cup publisher[w].failed

(* SKIP LOCKED keeps the rounds apart, and a round is of rows no committed *)
(* round has published: a row still to be sent has not been sent in it.    *)
RoundsApart ==
    /\ \A v, w \in Publisher : v # w => RowsOf(v) \cap RowsOf(w) = {}
    /\ \A w \in Publisher : /\ RowsOf(w) \cap published = {}
                            /\ publisher[w].todo \cap publisher[w].sent = {}

(* Sent by a round that has committed or may still commit: what rows are   *)
(* allowed one copy for.                                                   *)
Counts(e) == e \in published \/ \E w \in Publisher : e \in publisher[w].sent

CopiesCounted ==
    \A e \in Event : Copies(e) <= faults + (IF Counts(e) THEN 1 ELSE 0)

DupInv == RoundsApart /\ CopiesCounted

(* A message appended to the topic is one more copy of itself.             *)
LEMMA CopyAppended ==
    ASSUME TypeOK, NEW m \in Event \cup {Invalid}, log' = Append(log, m),
           NEW e \in Event
    PROVE  Copies(e)' = Copies(e) + (IF e = m THEN 1 ELSE 0)
<1> DEFINE S == {i \in DOMAIN log : log[i] = e}
           T == {i \in DOMAIN log' : log'[i] = e}
           n == Len(log) + 1
<1>1. /\ DOMAIN log = 1..Len(log) /\ DOMAIN log' = 1..n /\ Len(log) \in Nat
      /\ \A i \in 1..Len(log) : log'[i] = log[i]
      /\ log'[n] = m
  BY Appended
<1>2. IsFiniteSet(S)
  <2>0. Len(log) \in Int
    BY <1>1
  <2>1. IsFiniteSet(1..Len(log))
    BY <2>0, FS_Interval
  <2>2. S \subseteq 1..Len(log)
    BY <1>1
  <2> QED
    BY <2>1, <2>2, FS_Subset
<1>3. n \notin S
  BY <1>1
<1>4. T = IF e = m THEN S \cup {n} ELSE S
  BY <1>1
<1>5. Cardinality(S) \in Nat /\ Cardinality(S \cup {n}) = Cardinality(S) + 1
  BY <1>2, <1>3, FS_AddElement, FS_CardinalityType
<1>6. Copies(e) = Cardinality(S) /\ Copies(e)' = Cardinality(T)
  BY DEF Copies
<1> HIDE DEF S, T, n
<1> QED
  BY <1>4, <1>5, <1>6

(* The number of copies is a number.                                       *)
LEMMA CopiesType ==
    ASSUME TypeOK, NEW e \in Event
    PROVE  Copies(e) \in Nat
<1>1. DOMAIN log = 1..Len(log) /\ Len(log) \in Nat
  BY DEF TypeOK
<1>2. IsFiniteSet(1..Len(log))
  BY <1>1, FS_Interval
<1>3. {i \in DOMAIN log : log[i] = e} \subseteq 1..Len(log)
  BY <1>1
<1>4. IsFiniteSet({i \in DOMAIN log : log[i] = e})
  BY <1>2, <1>3, FS_Subset
<1> QED
  BY <1>4, FS_CardinalityType DEF Copies

LEMMA DupInit == Init => DupInv
<1> SUFFICES ASSUME Init PROVE DupInv
  OBVIOUS
<1>1. RoundsApart
  BY DEF Init, RoundsApart, RowsOf, Resting
<1>2. ASSUME NEW e \in Event PROVE Copies(e) = 0
  <2>1. {i \in DOMAIN log : log[i] = e} = {}
    BY DEF Init
  <2> QED
    BY <2>1, FS_EmptySet DEF Copies
<1>3. CopiesCounted
  BY <1>2 DEF CopiesCounted, Counts, Init, Resting
<1> QED
  BY <1>1, <1>3 DEF DupInv

(* Steps that leave rounds and topic alone, or add what is no event.       *)
LEMMA DupKeptOutside ==
    ASSUME TypeOK, DupInv, UNCHANGED <<published, publisher>>,
           log' = log \/ log' = Append(log, Invalid),
           faults' = faults \/ faults' = faults + 1
    PROVE  DupInv'
<1>1. RoundsApart'
  BY DEF DupInv, RoundsApart, RowsOf
<1>2. ASSUME NEW e \in Event PROVE Copies(e)' = Copies(e)
  <2>1. e # Invalid
    BY DEF Event, Invalid
  <2>2. CASE log' = log
    BY <2>2 DEF Copies
  <2>3. CASE log' = Append(log, Invalid)
    BY <2>1, <2>3, CopyAppended, CopiesType
  <2> QED
    BY <2>2, <2>3
<1>3. ASSUME NEW e \in Event
      PROVE  Copies(e)' <= faults' + (IF Counts(e)' THEN 1 ELSE 0)
  <2>1. (Counts(e)' <=> Counts(e)) /\ faults \in Nat
    BY DEF Counts, TypeOK
  <2>2. Copies(e) <= faults + (IF Counts(e) THEN 1 ELSE 0) /\ Copies(e) \in Nat
    BY CopiesType DEF DupInv, CopiesCounted
  <2> QED
    BY <1>2, <2>1, <2>2
<1> QED
  BY <1>1, <1>3 DEF DupInv, CopiesCounted

(* A send, however it ends, moves its row from todo to sent or failed.     *)
LEMMA DupKeptBySend ==
    ASSUME TypeOK, DupInv, NEW w \in Publisher,
           SendSucceeds(w) \/ SendFails(w) \/ SendUnacknowledged(w)
    PROVE  DupInv'
<1>1. publisher[w].todo # {}
  BY DEF SendSucceeds, SendFails, SendUnacknowledged
<1>2. PICK e \in Event : e = Oldest(w) /\ e \in publisher[w].todo
  BY <1>1, OldestIsPending
<1>3. Sent(w, e) \/ Failed(w, e)
  BY <1>2 DEF SendSucceeds, SendFails, SendUnacknowledged
<1>4. /\ \A v \in Publisher \ {w} : publisher'[v] = publisher[v]
      /\ publisher'[w].todo = publisher[w].todo \ {e}
      /\ Sent(w, e) => /\ publisher'[w].sent = publisher[w].sent \cup {e}
                       /\ publisher'[w].failed = publisher[w].failed
      /\ Failed(w, e) => /\ publisher'[w].failed = publisher[w].failed \cup {e}
                         /\ publisher'[w].sent = publisher[w].sent
  BY <1>2, <1>3, RoundMoves
<1>5. published' = published
  BY DEF SendSucceeds, SendFails, SendUnacknowledged, outbox
<1>6. \A v \in Publisher : RowsOf(v)' = RowsOf(v)
  BY <1>2, <1>3, <1>4 DEF RowsOf
<1>7. RoundsApart'
  <2>1. \A u, v \in Publisher : u # v => RowsOf(u)' \cap RowsOf(v)' = {}
    BY <1>6 DEF DupInv, RoundsApart
  <2>2. ASSUME NEW v \in Publisher
        PROVE  /\ RowsOf(v)' \cap published' = {}
               /\ publisher'[v].todo \cap publisher'[v].sent = {}
    <3>1. RowsOf(v)' \cap published' = {}
      BY <1>5, <1>6 DEF DupInv, RoundsApart
    <3>2. publisher[v].todo \cap publisher[v].sent = {}
      BY DEF DupInv, RoundsApart
    <3>3. publisher'[v].todo \cap publisher'[v].sent = {}
      BY <1>3, <1>4, <3>2
    <3> QED
      BY <3>1, <3>3
  <2> QED
    BY <2>1, <2>2 DEF RoundsApart
(* The row of a send has not been counted before.                          *)
<1>8. ~ Counts(e)
  <2>1. e \in RowsOf(w)
    BY <1>2 DEF RowsOf
  <2>2. e \notin published /\ e \notin publisher[w].sent
    BY <1>2, <2>1 DEF DupInv, RoundsApart
  <2>3. \A v \in Publisher \ {w} : e \notin publisher[v].sent
    BY <2>1 DEF DupInv, RoundsApart, RowsOf
  <2> QED
    BY <2>2, <2>3 DEF Counts
<1>9. \A d \in Event \ {e} : Counts(d)' <=> Counts(d)
  <2>1. \A d \in Event \ {e} : \A v \in Publisher :
           d \in publisher'[v].sent <=> d \in publisher[v].sent
    BY <1>3, <1>4
  <2> QED
    BY <1>5, <2>1 DEF Counts
<1>10. ASSUME NEW d \in Event
       PROVE  Copies(d)' <= faults' + (IF Counts(d)' THEN 1 ELSE 0)
  <2>1. /\ Copies(d) <= faults + (IF Counts(d) THEN 1 ELSE 0)
        /\ Copies(d) \in Nat /\ faults \in Nat
    BY CopiesType DEF DupInv, CopiesCounted, TypeOK
  <2>2. CASE SendSucceeds(w)
    <3>1. log' = Append(log, e) /\ faults' = faults /\ Sent(w, e)
      BY <1>2, <2>2 DEF SendSucceeds
    <3>2. Copies(d)' = Copies(d) + (IF d = e THEN 1 ELSE 0)
      BY <1>2, <3>1, CopyAppended
    <3>3. Counts(e)'
      BY <1>4, <3>1 DEF Counts
    <3> QED
      BY <1>8, <1>9, <2>1, <3>1, <3>2, <3>3
  <2>3. CASE SendFails(w)
    <3>1. log' = log /\ faults' = faults /\ Failed(w, e)
      BY <1>2, <2>3 DEF SendFails, kafka
    <3>2. Copies(d)' = Copies(d)
      BY <3>1 DEF Copies
    <3> QED
      BY <1>8, <1>9, <2>1, <3>1, <3>2
  <2>4. CASE SendUnacknowledged(w)
    <3>1. log' = Append(log, e) /\ faults' = faults + 1
      BY <1>2, <2>4 DEF SendUnacknowledged, Fault
    <3>2. Copies(d)' = Copies(d) + (IF d = e THEN 1 ELSE 0)
      BY <1>2, <3>1, CopyAppended
    <3> QED
      BY <1>8, <1>9, <2>1, <3>1, <3>2
  <2> QED
    BY <2>2, <2>3, <2>4
<1> QED
  BY <1>7, <1>10 DEF DupInv, CopiesCounted

(* The query takes rows nobody has, and the commit only publishes its own. *)
LEMMA DupKeptByRound ==
    ASSUME TypeOK, DupInv, NEW w \in Publisher,
           StartRound(w) \/ FinishRound(w) \/ PublisherDies(w)
    PROVE  DupInv'
<1>1. /\ publisher \in [Publisher -> [todo : SUBSET Event, sent : SUBSET Event,
                                      failed : SUBSET Event]]
      /\ faults \in Nat
  BY DEF TypeOK
<1>2. log' = log
  BY DEF StartRound, FinishRound, PublisherDies, kafka
<1>3. \A e \in Event : Copies(e)' = Copies(e)
  BY <1>2 DEF Copies
<1>4. \A e \in Event : /\ Copies(e) <= faults + (IF Counts(e) THEN 1 ELSE 0)
                       /\ Copies(e) \in Nat
  BY CopiesType DEF DupInv, CopiesCounted
<1>5. CASE StartRound(w)
  <2>1. /\ publisher[w] = Resting
        /\ publisher' = [publisher EXCEPT ![w].todo = Batch]
        /\ published' = published /\ faults' = faults
    BY <1>5 DEF StartRound, Busy, outbox
  <2>2. /\ \A v \in Publisher \ {w} : publisher'[v] = publisher[v]
        /\ publisher'[w].todo = Batch
        /\ publisher'[w].sent = {} /\ publisher'[w].failed = {}
    BY <1>1, <2>1 DEF Resting
  <2>3. Batch \cap published = {} /\ \A v \in Publisher : Batch \cap RowsOf(v) = {}
    BY DEF Batch, Pending, LockedRows, RowsOf
  <2>4. RowsOf(w)' = Batch /\ \A v \in Publisher \ {w} : RowsOf(v)' = RowsOf(v)
    BY <2>2 DEF RowsOf
  <2>5. RoundsApart'
    <3>1. \A u, v \in Publisher : u # v => RowsOf(u)' \cap RowsOf(v)' = {}
      <4> SUFFICES ASSUME NEW u \in Publisher, NEW v \in Publisher, u # v
                   PROVE  RowsOf(u)' \cap RowsOf(v)' = {}
        OBVIOUS
      <4>1. RowsOf(u) \cap RowsOf(v) = {}
        BY DEF DupInv, RoundsApart
      <4> QED
        BY <2>3, <2>4, <4>1
    <3>2. ASSUME NEW v \in Publisher
          PROVE  /\ RowsOf(v)' \cap published' = {}
                 /\ publisher'[v].todo \cap publisher'[v].sent = {}
      <4>1. RowsOf(v) \cap published = {} /\ publisher[v].todo \cap publisher[v].sent = {}
        BY DEF DupInv, RoundsApart
      <4> QED
        BY <2>1, <2>2, <2>3, <2>4, <4>1
    <3> QED
      BY <3>1, <3>2 DEF RoundsApart
  <2>6. \A e \in Event : Counts(e)' <=> Counts(e)
    <3>1. \A v \in Publisher : publisher'[v].sent = publisher[v].sent
      BY <2>1, <2>2 DEF Resting
    <3> QED
      BY <2>1, <3>1 DEF Counts
  <2>7. CopiesCounted'
    BY <1>3, <1>4, <2>1, <2>6 DEF CopiesCounted
  <2> QED
    BY <2>5, <2>7 DEF DupInv
<1>6. CASE FinishRound(w) \/ PublisherDies(w)
  <2>1. publisher' = [publisher EXCEPT ![w] = Resting]
    BY <1>6 DEF FinishRound, PublisherDies
  <2>2. /\ \A v \in Publisher \ {w} : publisher'[v] = publisher[v]
        /\ publisher'[w] = Resting
    BY <1>1, <2>1
  <2>3. /\ RowsOf(w)' = {} /\ publisher'[w].todo = {}
        /\ \A v \in Publisher \ {w} : RowsOf(v)' = RowsOf(v)
    BY <2>2 DEF RowsOf, Resting
  <2>4. \/ published' = published
        \/ published' = published \cup publisher[w].sent
    BY <1>6 DEF FinishRound, PublisherDies, outbox
  <2>5. \A u, v \in Publisher : u # v => RowsOf(u)' \cap RowsOf(v)' = {}
    <3> SUFFICES ASSUME NEW u \in Publisher, NEW v \in Publisher, u # v
                 PROVE  RowsOf(u)' \cap RowsOf(v)' = {}
      OBVIOUS
    <3>1. RowsOf(u) \cap RowsOf(v) = {}
      BY DEF DupInv, RoundsApart
    <3> QED
      BY <2>3, <3>1
  <2>6. ASSUME NEW v \in Publisher
        PROVE  /\ RowsOf(v)' \cap published' = {}
               /\ publisher'[v].todo \cap publisher'[v].sent = {}
    <3>1. CASE v = w
      BY <2>3, <3>1
    <3>2. CASE v # w
      <4>1. /\ RowsOf(v) \cap published = {} /\ RowsOf(v) \cap RowsOf(w) = {}
            /\ publisher[v].todo \cap publisher[v].sent = {}
        BY <3>2 DEF DupInv, RoundsApart
      <4>2. publisher[w].sent \subseteq RowsOf(w)
        BY DEF RowsOf
      <4> QED
        BY <2>2, <2>3, <2>4, <3>2, <4>1, <4>2
    <3> QED
      BY <3>1, <3>2
  <2>7. RoundsApart'
    BY <2>5, <2>6 DEF RoundsApart
  <2>8. CASE FinishRound(w)
    <3>1. faults' = faults /\ published' = published \cup publisher[w].sent
      BY <2>8 DEF FinishRound
    <3>2. \A e \in Event : Counts(e)' <=> Counts(e)
      BY <2>2, <3>1 DEF Counts, Resting
    <3>3. CopiesCounted'
      BY <1>3, <1>4, <3>1, <3>2 DEF CopiesCounted
    <3> QED
      BY <2>7, <3>3 DEF DupInv
  <2>9. CASE PublisherDies(w)
    <3>1. faults' = faults + 1
      BY <2>9 DEF PublisherDies, Fault
    <3>2. CopiesCounted'
      BY <1>1, <1>3, <1>4, <3>1 DEF CopiesCounted
    <3> QED
      BY <2>7, <3>2 DEF DupInv
  <2> QED
    BY <1>6, <2>8, <2>9
<1> QED
  BY <1>5, <1>6

LEMMA DupStep == TypeOK /\ DupInv /\ [Next]_vars => DupInv'
<1> SUFFICES ASSUME TypeOK, DupInv, [Next]_vars PROVE DupInv'
  OBVIOUS
<1>1. CASE \E w \in Publisher :
              Round(w) \/ SendUnacknowledged(w) \/ PublisherDies(w)
  BY <1>1, DupKeptBySend, DupKeptByRound DEF Round
<1>2. CASE ~ \E w \in Publisher :
                Round(w) \/ SendUnacknowledged(w) \/ PublisherDies(w)
  <2>1. /\ UNCHANGED <<published, publisher>>
        /\ log' = log \/ log' = Append(log, Invalid)
        /\ faults' = faults \/ faults' = faults + 1
    BY <1>2 DEF Next, CommitRow, KafkaFails, KafkaRecovers, InvalidMessage,
           ConsumerStarts, Consume, FirstAssignment, Rebalance, Assign, Read, Claim,
           Deliver, DeliverRaises, CommitOffset, CommitFenced, ConsumerDies, Fault,
           vars, outbox, kafka, group, effects
  <2> QED
    BY <2>1, DupKeptOutside
<1> QED
  BY <1>1, <1>2

(* publish_once: however many publishers run, each copy of an event on the *)
(* topic after the first is due to a fault of its own.                     *)
THEOREM NoDuplicateWithoutFault == Spec => []DuplicatesAreFaults
<1>1. TypeOK /\ DupInv => DuplicatesAreFaults
  <2> SUFFICES ASSUME TypeOK, DupInv, NEW e \in Event PROVE Copies(e) <= 1 + faults
    BY DEF DuplicatesAreFaults
  <2>1. Copies(e) <= faults + (IF Counts(e) THEN 1 ELSE 0)
    BY DEF DupInv, CopiesCounted
  <2>2. Copies(e) \in Nat /\ faults \in Nat
    BY CopiesType DEF TypeOK
  <2> QED
    BY <2>1, <2>2
<1> QED
  BY <1>1, DupInit, DupStep, PipelineTypes, PTL DEF Spec

-----------------------------------------------------------------------------
(* consume_forever: a commit moves the group's offset forward, and only    *)
(* over messages that were refused, or whose inbox row is committed.       *)
THEOREM OffsetNeverSkips == Spec => OffsetSkipsNothing
<1> DEFINE Step == /\ offset <= offset'
                   /\ \A i \in DOMAIN log :
                         offset # NoOffset /\ offset < i /\ i <= offset' =>
                             log[i] = Invalid \/ log[i] \in inbox
<1>1. PipeInv /\ [Next]_vars => [Step]_vars
  <2> SUFFICES ASSUME PipeInv, [Next]_vars PROVE Step
    BY DEF Step
  <2>1. /\ DOMAIN log = 1..Len(log) /\ Len(log) \in Nat
        /\ offset \in {NoOffset} \cup 0..Len(log) /\ NoOffset = -1
    BY DEF PipeInv, TypeOK, NoOffset
  <2>2. CASE \E c \in Consumer : CommitOffset(c)
    <3>1. PICK c \in Consumer : CommitOffset(c)
      BY <2>2
    <3>2. /\ owner = c /\ consumer[c].pc = "committing"
          /\ offset' = consumer[c].position
      BY <3>1 DEF CommitOffset, ReadPosition
    <3>3. consumer[c].position \in 0..Len(log)
      BY DEF PipeInv, TypeOK
    <3>4. offset # NoOffset =>
              /\ offset <= consumer[c].position
              /\ \A i \in DOMAIN log : offset < i /\ i <= consumer[c].position =>
                    log[i] = Invalid \/ log[i] \in inbox
      BY <3>2 DEF PipeInv, OwnerCaughtUp, InHand
    <3>5. offset <= offset'
      BY <2>1, <3>2, <3>3, <3>4
    <3> QED
      BY <3>2, <3>4, <3>5
  <2>3. CASE ~ \E c \in Consumer : CommitOffset(c)
    <3>1. offset' = offset
      BY <2>3 DEF Next, CommitRow, Round, StartRound, SendSucceeds, SendFails,
             SendUnacknowledged, FinishRound, PublisherDies, KafkaFails, KafkaRecovers,
             InvalidMessage, ConsumerStarts, Consume, FirstAssignment, Rebalance, Assign,
             Read, Claim, Deliver, DeliverRaises, CommitFenced, ConsumerDies, Stop, vars,
             outbox, kafka, group, effects
    <3> QED
      BY <2>1, <3>1
  <2> QED
    BY <2>2, <2>3
<1>2. [][Step]_vars => OffsetSkipsNothing
  BY PTL DEF OffsetSkipsNothing
<1> QED
  BY <1>1, <1>2, PipelineInvariant, PTL DEF Spec

(* The publishers, Kafka and the consumers implement the abstract promise  *)
(* of exactly-once effects: a row is emitted when its transaction commits, *)
(* and handled, with its deliveries, by the one consumer that claimed it.  *)
THEOREM PipelineImplementsEffects == Spec => ImplementsEffects
<1>1. Init => Promise!Init
  BY DEF Init, Promise!Init
<1>2. PipeInv /\ [Next]_vars => [Promise!Next]_(Promise!effectVars)
  <2> SUFFICES ASSUME PipeInv, [Next]_vars PROVE [Promise!Next]_(Promise!effectVars)
    OBVIOUS
  <2>1. CASE \E e \in Event : CommitRow(e)
    BY <2>1 DEF CommitRow, effects, Promise!Next, Promise!Emit
  <2>2. CASE \E c \in Consumer : Deliver(c)
    <3>1. PICK c \in Consumer : Deliver(c)
      BY <2>2
    <3>2. PICK e : e = consumer[c].message
      OBVIOUS
    <3>3. e \in Event /\ e \in committed \ inbox
      BY <3>1, <3>2
         DEF Deliver, PipeInv, TypeOK, OnlyCommitted, ClaimsExclude
    <3> QED
      BY <3>1, <3>2, <3>3 DEF Deliver, outbox, Promise!Next, Promise!Handle
  <2>3. CASE ~ \/ \E e \in Event : CommitRow(e)
               \/ \E c \in Consumer : Deliver(c)
    BY <2>3 DEF Next, Round, StartRound, SendSucceeds, SendFails,
           SendUnacknowledged, FinishRound, PublisherDies, KafkaFails, KafkaRecovers,
           InvalidMessage, ConsumerStarts, Consume, FirstAssignment, Rebalance, Assign,
           Read, Claim, DeliverRaises, CommitOffset, CommitFenced, ConsumerDies, Stop,
           vars, outbox, kafka, group, effects, Promise!effectVars
  <2> QED
    BY <2>1, <2>2, <2>3
<1> QED
  BY <1>1, <1>2, PipelineInvariant, PTL DEF Spec, ImplementsEffects, Promise!Spec

(* So what is proved of the promise holds of the workers: never a second   *)
(* delivery row for an endpoint and an event, and none before its inbox    *)
(* row is committed.                                                       *)
Effects == INSTANCE EventEffectsProofs WITH
               emitted <- committed, handled <- inbox,
               registered <- Endpoint, rows <- deliveries

THEOREM PipelineRowsAreUnique == Spec => []Promise!AtMostOneRow
<1>1. Promise!Init => Effects!Init
  BY DEF Promise!Init, Effects!Init
<1>2. [Promise!Next]_(Promise!effectVars) => [Effects!Next]_(Effects!effectVars)
  BY DEF Promise!Next, Promise!Emit, Promise!Handle, Promise!RegisterEndpoint,
         Promise!effectVars, Effects!Next, Effects!Emit, Effects!Handle,
         Effects!RegisterEndpoint, Effects!effectVars
<1>3. Effects!AtMostOneRow => Promise!AtMostOneRow
  BY DEF Promise!AtMostOneRow, Effects!AtMostOneRow
<1> QED
  BY <1>1, <1>2, <1>3, PipelineImplementsEffects, Effects!RowsAreUnique, PTL
     DEF ImplementsEffects, Promise!Spec, Effects!Spec
=============================================================================
