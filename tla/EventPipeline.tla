--------------------------- MODULE EventPipeline ---------------------------
(***************************************************************************)
(* From the outbox to the webhook deliveries: the outbox publishers        *)
(* (app/workers/outbox_publisher.py), the Kafka topic, and the event       *)
(* consumers (app/workers/event_consumer.py) with their inbox.  Kafka may  *)
(* be away, may lose an acknowledgement, moves the partition from one      *)
(* consumer to another, and redelivers what was not committed; workers may *)
(* die between any two statements.                                         *)
(*                                                                         *)
(* Kafka is external: one partition, a log of messages, one committed      *)
(* offset for the consumers' group, and the group's member that has the    *)
(* partition.                                                              *)
(***************************************************************************)
EXTENDS Integers, Sequences, FiniteSets, FiniteSetsExt, Functions

CONSTANTS
    NumEvents,     \* outbox rows, numbered in the order of created_at
    NoPaymentId,   \* the rows whose payload has no payment_id (cancellations)
    Publisher,     \* outbox publisher processes
    Consumer,      \* event consumer processes, all of one group
    Nobody,        \* not a consumer
    Endpoint,      \* enabled webhook endpoints of the merchant
    Subscribed,    \* the (endpoint, event) pairs event_types asks for
    BatchLimit,    \* rows of one publisher round, 100 in the code
    MaxFaults,     \* bound on crashes, outages and lost acknowledgements
    MaxRebalances, \* bound on rebalances away from a live consumer
    MaxInvalid     \* bound on undecodable messages others put on the topic

Event == 1..NumEvents
Invalid == 0       \* a message decode_event_payload refuses

ASSUME ConstantsAssumption ==
    /\ NumEvents \in Nat /\ MaxFaults \in Nat /\ MaxInvalid \in Nat
    /\ MaxRebalances \in Nat
    /\ BatchLimit \in Nat \ {0}
    /\ NoPaymentId \subseteq Event
    /\ Nobody \notin Consumer
    /\ Subscribed \subseteq Endpoint \X Event

VARIABLES
    committed,     \* outbox rows whose transaction has committed
    published,     \* rows with published_at set
    retries,       \* [Event -> retry_count]
    publisher,     \* [Publisher -> its round, or Resting]
    kafkaUp,       \* a producer can reach Kafka
    log,           \* the topic: sequence of messages
    offset,        \* committed offset of the group, or NoOffset
    owner,         \* the consumer that has the partition, or Nobody
    consumer,      \* [Consumer -> pc, fetch position, message in hand]
    inbox,         \* processed_events of webhook-service
    deliveries,    \* [Subscribed -> webhook_deliveries rows]
    faults,        \* faults so far
    rebalances     \* and rebalances

outbox == <<committed, published, retries>>
kafka  == <<kafkaUp, log, offset>>
group  == <<owner, consumer, rebalances>>
effects == <<inbox, deliveries>>
vars == <<outbox, publisher, kafka, group, effects, faults>>

NoOffset == -1

Resting == [todo |-> {}, sent |-> {}, failed |-> {}]
Stopped == [pc |-> "stopped", position |-> 0, message |-> Invalid]

Fault == faults < MaxFaults /\ faults' = faults + 1

Init ==
    /\ committed = {} /\ published = {}
    /\ retries = [e \in Event |-> 0]
    /\ publisher = [w \in Publisher |-> Resting]
    /\ kafkaUp = TRUE
    /\ log = <<>>
    /\ offset = NoOffset
    /\ owner = Nobody
    /\ consumer = [c \in Consumer |-> Stopped]
    /\ inbox = {}
    /\ deliveries = [s \in Subscribed |-> 0]
    /\ faults = 0
    /\ rebalances = 0

(* A payment transaction commits.  created_at was set inside it, so rows   *)
(* need not become visible in its order.                                   *)
CommitRow(e) ==
    /\ e \notin committed
    /\ committed' = committed \cup {e}
    /\ UNCHANGED <<published, retries, publisher, kafka, group, effects,
                   faults>>

-----------------------------------------------------------------------------
(* Publisher: publish_once.  Everything from the query to the end of the   *)
(* loop is one transaction.                                                *)

Busy(w) == publisher[w] # Resting

LockedRowsUnseen == {}
LockedRows == UNION {LET r == publisher[w] IN r.todo \cup r.sent \cup r.failed
                        : w \in Publisher}

PendingUntried == {e \in committed \ published : retries[e] = 0}
Pending == committed \ published

(* pending_outbox: FOR UPDATE SKIP LOCKED, the oldest first.  A round in   *)
(* which producer.start() raises KafkaError ends before this query and     *)
(* changes nothing, the retry counts included.                             *)
Batch ==
    LET free == Pending \ LockedRows IN
    {e \in free : Cardinality({d \in free : d < e}) < BatchLimit}

StartRound(w) ==
    /\ kafkaUp
    /\ ~ Busy(w)
    /\ Batch # {}
    /\ publisher' = [publisher EXCEPT ![w].todo = Batch]
    /\ UNCHANGED <<outbox, kafka, group, effects, faults>>

Oldest(w) == Min(publisher[w].todo)

Sent(w, e) ==
    publisher' = [publisher EXCEPT ![w] =
        [todo |-> @.todo \ {e}, sent |-> @.sent \cup {e}, failed |-> @.failed]]
FailedAsSent(w, e) == Sent(w, e)
Failed(w, e) ==
    publisher' = [publisher EXCEPT ![w] =
        [todo |-> @.todo \ {e}, sent |-> @.sent, failed |-> @.failed \cup {e}]]

(* send_and_wait returns: mark_published. *)
SendSucceeds(w) ==
    /\ publisher[w].todo # {}
    /\ kafkaUp
    /\ log' = Append(log, Oldest(w))
    /\ Sent(w, Oldest(w))
    /\ UNCHANGED <<outbox, kafkaUp, offset, group, effects, faults>>

(* KafkaError, with the message not on the topic, or on it all the same.   *)
SendFails(w) ==
    /\ publisher[w].todo # {}
    /\ ~ kafkaUp
    /\ Failed(w, Oldest(w))
    /\ UNCHANGED <<outbox, kafka, group, effects, faults>>

SendUnacknowledged(w) ==
    /\ publisher[w].todo # {}
    /\ kafkaUp
    /\ Fault
    /\ log' = Append(log, Oldest(w))
    /\ Failed(w, Oldest(w))
    /\ UNCHANGED <<outbox, kafkaUp, offset, group, effects>>

FinishRound(w) ==
    /\ Busy(w)
    /\ publisher[w].todo = {}
    /\ published' = published \cup publisher[w].sent
    /\ retries' = [e \in Event |->
            retries[e] + (IF e \in publisher[w].failed THEN 1 ELSE 0)]
    /\ publisher' = [publisher EXCEPT ![w] = Resting]
    /\ UNCHANGED <<committed, kafka, group, effects, faults>>

(* The process or its database connection dies: the round rolls back. *)
PublisherDies(w) ==
    /\ Busy(w)
    /\ Fault
    /\ publisher' = [publisher EXCEPT ![w] = Resting]
    /\ UNCHANGED <<outbox, kafka, group, effects>>

-----------------------------------------------------------------------------
(* Kafka *)

KafkaFails ==
    /\ kafkaUp
    /\ Fault
    /\ kafkaUp' = FALSE
    /\ UNCHANGED <<outbox, publisher, log, offset, group, effects>>

KafkaRecovers ==
    /\ ~ kafkaUp
    /\ kafkaUp' = TRUE
    /\ UNCHANGED <<outbox, publisher, log, offset, group, effects, faults>>

InvalidMessage ==
    /\ Cardinality({i \in DOMAIN log : log[i] = Invalid}) < MaxInvalid
    /\ log' = Append(log, Invalid)
    /\ UNCHANGED <<outbox, publisher, kafkaUp, offset, group, effects, faults>>

-----------------------------------------------------------------------------
(* Consumer: consume_forever.  position is the number of messages read.    *)

Running(c) == consumer[c].pc # "stopped"

StartPositionAlwaysLatest == Len(log)

(* No offset committed yet: auto_offset_reset is aiokafka's "latest". *)
StartPosition == IF offset = NoOffset THEN Len(log) ELSE offset

ConsumerStarts(c) ==
    /\ ~ Running(c)
    /\ kafkaUp
    /\ consumer' = [consumer EXCEPT ![c].pc = "reading"]
    /\ UNCHANGED <<outbox, publisher, kafka, owner, rebalances, effects, faults>>

(* The coordinator gives the partition to c, which fetches from the        *)
(* committed offset; who had it keeps the message it has in hand.          *)
Assign(c) ==
    /\ kafkaUp
    /\ Running(c)
    /\ owner # c
    /\ owner' = c
    /\ consumer' = [consumer EXCEPT ![c].position = StartPosition]
    /\ UNCHANGED <<outbox, publisher, kafka, effects, faults>>

FirstAssignment(c) == owner = Nobody /\ Assign(c) /\ UNCHANGED rebalances

Rebalance(c) ==
    /\ owner # Nobody
    /\ rebalances < MaxRebalances
    /\ rebalances' = rebalances + 1
    /\ Assign(c)

(* decode_event_payload: what it refuses goes straight to commit(). *)
Read(c) ==
    /\ consumer[c].pc = "reading"
    /\ owner = c
    /\ kafkaUp
    /\ consumer[c].position < Len(log)
    /\ LET next == consumer[c].position + 1 IN
       consumer' = [consumer EXCEPT ![c] =
           [pc |-> IF log[next] = Invalid THEN "committing" ELSE "processing",
            position |-> next, message |-> log[next]]]
    /\ UNCHANGED <<outbox, publisher, kafka, owner, rebalances, effects, faults>>

(* Consumers whose inbox row for e is inserted and not committed.          *)
ClaimantsUnseen(e) == {}
Claimants(e) ==
    {d \in Consumer : consumer[d].pc = "claimed" /\ consumer[d].message = e}

(* mark_event_processed: INSERT ... ON CONFLICT DO NOTHING waits for an    *)
(* uncommitted insert of the row, and inserts nothing if there is one.     *)
Claim(c) ==
    LET e == consumer[c].message IN
    /\ consumer[c].pc = "processing"
    /\ Claimants(e) = {}
    /\ consumer' = [consumer EXCEPT ![c].pc =
                        IF e \in inbox THEN "committing" ELSE "claimed"]
    /\ UNCHANGED <<outbox, publisher, kafka, owner, rebalances, effects, faults>>

(* The rest of process_payment_event_for_webhooks, and its commit.         *)
Deliver(c) ==
    LET e == consumer[c].message IN
    /\ consumer[c].pc = "claimed"
    /\ e \notin NoPaymentId
    /\ inbox' = inbox \cup {e}
    /\ deliveries' = [s \in Subscribed |->
            deliveries[s] + (IF s[2] = e THEN 1 ELSE 0)]
    /\ consumer' = [consumer EXCEPT ![c].pc = "committing"]
    /\ UNCHANGED <<outbox, publisher, kafka, owner, rebalances, faults>>

(* The process ends and leaves the group; its transaction rolls back.      *)
Stop(c) ==
    /\ consumer' = [consumer EXCEPT ![c] = Stopped]
    /\ owner' = IF owner = c THEN Nobody ELSE owner
    /\ UNCHANGED rebalances

(* payload["payload"]["payment_id"] raises KeyError outside the try: the   *)
(* worker ends without committing the offset.                              *)
DeliverRaises(c) ==
    /\ consumer[c].pc = "claimed"
    /\ consumer[c].message \in NoPaymentId
    /\ Stop(c)
    /\ UNCHANGED <<outbox, publisher, kafka, effects, faults>>

ReadPositionNext(c) == consumer[c].position + 1
ReadPosition(c) == consumer[c].position

CommitOffset(c) ==
    /\ consumer[c].pc = "committing"
    /\ owner = c
    /\ kafkaUp
    /\ offset' = ReadPosition(c)
    /\ consumer' = [consumer EXCEPT ![c].pc = "reading"]
    /\ UNCHANGED <<outbox, publisher, kafkaUp, log, owner, rebalances,
                   effects, faults>>

(* commit() without the partition: the broker refuses the old generation,  *)
(* which ends the worker, or there is no assignment left to commit for.    *)
CommitFenced(c) ==
    /\ consumer[c].pc = "committing"
    /\ owner # c
    /\ kafkaUp
    /\ \/ Stop(c)
       \/ /\ consumer' = [consumer EXCEPT ![c].pc = "reading"]
          /\ UNCHANGED <<owner, rebalances>>
    /\ UNCHANGED <<outbox, publisher, kafka, effects, faults>>

(* A crash, or an error of commit() or of the database. *)
ConsumerDies(c) ==
    /\ Running(c)
    /\ Fault
    /\ Stop(c)
    /\ UNCHANGED <<outbox, publisher, kafka, effects>>

-----------------------------------------------------------------------------
Round(w) == \/ StartRound(w) \/ SendSucceeds(w) \/ SendFails(w) \/ FinishRound(w)

Consume(c) ==
    \/ FirstAssignment(c) \/ Read(c) \/ Claim(c) \/ Deliver(c) \/ DeliverRaises(c)
    \/ CommitOffset(c) \/ CommitFenced(c)

Next ==
    \/ \E e \in Event : CommitRow(e)
    \/ \E w \in Publisher :
          \/ Round(w) \/ SendUnacknowledged(w) \/ PublisherDies(w)
    \/ KafkaFails \/ KafkaRecovers \/ InvalidMessage
    \/ \E c \in Consumer :
          \/ ConsumerStarts(c) \/ Consume(c) \/ Rebalance(c) \/ ConsumerDies(c)

Spec == Init /\ [][Next]_vars

(* run_forever retries every second, Kafka comes back, and a dead worker   *)
(* is started again (docs/architecture/failure-recovery.md: "On restart,   *)
(* the publisher ... resumes").                                            *)
Fairness ==
    /\ \A w \in Publisher : WF_vars(Round(w))
    /\ WF_vars(KafkaRecovers)
    /\ \A c \in Consumer : WF_vars(ConsumerStarts(c)) /\ WF_vars(Consume(c))

FairSpec == Spec /\ Fairness

-----------------------------------------------------------------------------
(* Rows, rounds, messages and offsets have their types. *)
TypeOK ==
    /\ committed \subseteq Event /\ published \subseteq committed
    /\ retries \in [Event -> Nat]
    /\ publisher \in [Publisher -> [todo : SUBSET Event, sent : SUBSET Event,
                                    failed : SUBSET Event]]
    /\ kafkaUp \in BOOLEAN
    /\ log \in Seq(Event \cup {Invalid})
    /\ offset \in {NoOffset} \cup 0..Len(log)
    /\ owner \in Consumer \cup {Nobody}
    /\ consumer \in [Consumer ->
            [pc : {"stopped", "reading", "processing", "claimed", "committing"},
             position : 0..Len(log), message : Event \cup {Invalid}]]
    /\ inbox \subseteq Event
    /\ deliveries \in [Subscribed -> Nat]
    /\ faults \in 0..MaxFaults /\ rebalances \in 0..MaxRebalances

(* A row marked published is on the topic: no failed or rolled back send   *)
(* ever hides an event.                                                    *)
PublishedIsOnTopic == published \subseteq Range(log)

(* Several publishers do not send one row twice: every copy of an event on *)
(* the topic after the first is due to a fault of its own, an answer that  *)
(* was lost or a round that was rolled back.                               *)
Copies(e) == Cardinality({i \in DOMAIN log : log[i] = e})
DuplicatesAreFaults == \A e \in Event : Copies(e) <= 1 + faults

(* However often an event is sent or redelivered, to however many          *)
(* consumers, and wherever they are interrupted: it is handled once, after *)
(* its transaction committed, with one delivery per subscribed endpoint.   *)
Promise == INSTANCE EventEffects WITH
               emitted <- committed, handled <- inbox,
               registered <- Endpoint, rows <- deliveries
ImplementsEffects == Promise!Spec

(* Once the group has an offset it only moves forward, over messages that  *)
(* were processed or refused: a crash redelivers, and skips nothing.       *)
OffsetSkipsNothing ==
    [][/\ offset <= offset'
       /\ \A i \in DOMAIN log :
             offset # NoOffset /\ offset < i /\ i <= offset' =>
                 log[i] = Invalid \/ log[i] \in inbox]_vars

(* ADR-003: "Events are eventually published by a background worker."      *)
EventuallyPublished == \A e \in Event : e \in committed ~> e \in published

Awaits(e, i) == offset # NoOffset /\ i > offset /\ log[i] = e

(* What is appended after the group has an offset is eventually processed, *)
(* in spite of crashes, outages, rebalances and invalid messages, unless a *)
(* message without payment_id lies before it.                              *)
BacklogDrains ==
    \A e \in Event \ NoPaymentId :
        (\E i \in DOMAIN log :
            Awaits(e, i) /\ \A j \in offset + 1..i : log[j] \notin NoPaymentId)
        ~> e \in inbox

(* docs/architecture/events.md:28, as for AtLeastOnce, for consumers that  *)
(* have an offset: what lies before an event never keeps it from being     *)
(* processed.                                                              *)
EveryBacklogDrains ==
    \A e \in Event \ NoPaymentId :
        (\E i \in DOMAIN log : Awaits(e, i)) ~> e \in inbox

(* docs/architecture/events.md:28: "ForgePay claims at-least-once delivery *)
(* plus idempotent processing": a published event is processed.            *)
AtLeastOnce == \A e \in Event : e \in published ~> e \in inbox
=============================================================================
