------------------------ MODULE WebhookDeliveryProofs ------------------------
(***************************************************************************)
(* Proofs about WebhookDelivery, for every set of endpoints, events,       *)
(* dispatchers and rotations, and every bound.                             *)
(***************************************************************************)
EXTENDS WebhookDelivery, FiniteSetTheorems, TLAPS

USE DeliveryAssumption

-----------------------------------------------------------------------------
(* Secrets.  The lock on the endpoint makes rotations of one endpoint      *)
(* exclude one another (Exclusive), so that the secret a rotation found is *)
(* still the active one when it is replaced (FoundIsActive).               *)

SecretType ==
    /\ registered \subseteq Endpoint
    /\ latest \in [Endpoint -> Nat]
    /\ active \in [Endpoint -> SUBSET Nat]
    /\ rotation \in [Rotation -> [pc : {"none", "select", "lock", "insert"},
                                  endpoint : Endpoint \cup {NoEndpoint},
                                  found : SUBSET Nat]]

RotatesRegistered ==
    \A r \in Rotation : rotation[r] = NoRotation \/ rotation[r].endpoint \in registered

Exclusive ==
    \A q, r \in Rotation :
        rotation[q].endpoint = rotation[r].endpoint
            => q = r \/ rotation[q].endpoint = NoEndpoint

FoundIsActive ==
    \A r \in Rotation : rotation[r].pc \in {"lock", "insert"}
        => rotation[r].found = active[rotation[r].endpoint]

SecretInv == /\ SecretType /\ OneActiveSecret
             /\ RotatesRegistered /\ Exclusive /\ FoundIsActive

secretVars == <<registered, latest, active, rotation>>

LEMMA InitSecret == Init => SecretInv
  BY DEF Init, SecretInv, SecretType, OneActiveSecret, RotatesRegistered,
         Exclusive, FoundIsActive, NoRotation

LEMMA SecretUnchanged == SecretInv /\ UNCHANGED secretVars => SecretInv'
  BY DEF secretVars, SecretInv, SecretType, OneActiveSecret, RotatesRegistered,
         Exclusive, FoundIsActive

(* A new endpoint has no rotation yet, and begins with version 1.          *)
LEMMA RegisterSecret ==
    ASSUME SecretInv, NEW x \in Endpoint, NEW u, RegisterWebhook(x, u)
    PROVE  SecretInv'
<1>1. /\ x \notin registered /\ registered' = registered \cup {x}
      /\ latest' = [latest EXCEPT ![x] = 1]
      /\ active' = [active EXCEPT ![x] = {1}]
      /\ rotation' = rotation
  BY DEF RegisterWebhook, Effects!RegisterEndpoint
<1>2. \A r \in Rotation : rotation[r].endpoint # x
  BY <1>1 DEF SecretInv, RotatesRegistered, NoRotation
<1> QED
  BY <1>1, <1>2 DEF SecretInv, SecretType, OneActiveSecret, RotatesRegistered,
                    Exclusive, FoundIsActive, NoRotation

(* A rotation begins only where no other is. *)
LEMMA LockSecret ==
    ASSUME SecretInv, NEW r \in Rotation, NEW x \in Endpoint, LockEndpoint(r, x)
    PROVE  SecretInv'
<1> DEFINE t == [pc |-> "select", endpoint |-> x, found |-> {}]
<1>1. /\ x \in registered
      /\ \A q \in Rotation : rotation[q].endpoint # x
      /\ rotation' = [rotation EXCEPT ![r] = t]
      /\ UNCHANGED <<registered, latest, active>>
  BY DEF LockEndpoint, EndpointFree, events
<1>2. \A q \in Rotation : rotation'[q] = IF q = r THEN t ELSE rotation[q]
  BY <1>1 DEF SecretInv, SecretType
<1>3. SecretType'
  BY <1>1 DEF SecretInv, SecretType
<1>4. RotatesRegistered' /\ Exclusive' /\ FoundIsActive'
  BY <1>1, <1>2 DEF SecretInv, RotatesRegistered, Exclusive, FoundIsActive
<1> QED
  BY <1>1, <1>3, <1>4 DEF SecretInv, OneActiveSecret

(* Finding and locking the active secret keep its endpoint. *)
LEMMA FindSecret ==
    ASSUME SecretInv, NEW r \in Rotation, SelectActive(r) \/ LockActive(r)
    PROVE  SecretInv'
<1> DEFINE x == rotation[r].endpoint
<1>1. rotation[r].pc # "none" /\ x \in registered
  BY DEF SelectActive, LockActive, SecretInv, RotatesRegistered, NoRotation
<1>2. UNCHANGED <<registered, latest, active>>
  BY DEF SelectActive, LockActive, events
<1>3. PICK t : /\ t \in [pc : {"lock", "insert"}, endpoint : {x}, found : {active[x]}]
               /\ rotation' = [rotation EXCEPT ![r] = t]
  <2>1. CASE SelectActive(r)
    <3> DEFINE t == [pc |-> "lock", endpoint |-> x, found |-> active[x]]
    <3>1. rotation' = [rotation EXCEPT ![r] = t]
      BY <2>1 DEF SelectActive
    <3> QED
      BY <3>1
  <2>2. CASE LockActive(r)
    <3> DEFINE t == [pc |-> "insert", endpoint |-> x, found |-> active[x]]
    <3>1. rotation[r].found \cap active[x] = active[x]
      BY <2>2 DEF LockActive, SecretInv, FoundIsActive
    <3>2. rotation' = [rotation EXCEPT ![r] = t]
      BY <2>2, <3>1 DEF LockActive
    <3> QED
      BY <3>2
  <2> QED
    BY <2>1, <2>2
<1>4. \A q \in Rotation : rotation'[q] = IF q = r THEN t ELSE rotation[q]
  BY <1>3 DEF SecretInv, SecretType
<1>5. active[x] \in SUBSET Nat /\ x \in Endpoint /\ x # NoEndpoint
  BY <1>1 DEF SecretInv, SecretType
<1>6. SecretType'
  BY <1>2, <1>3, <1>5 DEF SecretInv, SecretType
<1>7. RotatesRegistered' /\ Exclusive' /\ FoundIsActive'
  BY <1>1, <1>2, <1>3, <1>4 DEF SecretInv, RotatesRegistered, Exclusive, FoundIsActive
<1> QED
  BY <1>2, <1>6, <1>7 DEF SecretInv, OneActiveSecret

(* What it found is all that was active, so that only the new one is.      *)
LEMMA CommitSecret ==
    ASSUME SecretInv, NEW r \in Rotation, CommitRotation(r)
    PROVE  SecretInv'
<1> DEFINE x == rotation[r].endpoint
<1>1. x \in registered /\ x \in Endpoint /\ x # NoEndpoint
  BY DEF CommitRotation, SecretInv, SecretType, RotatesRegistered, NoRotation
<1>2. rotation[r].found = active[x]
  BY DEF CommitRotation, SecretInv, FoundIsActive
<1>3. /\ latest' = [latest EXCEPT ![x] = latest[x] + 1]
      /\ active' = [active EXCEPT ![x] = {latest[x] + 1}]
      /\ rotation' = [rotation EXCEPT ![r] = NoRotation]
      /\ registered' = registered
  BY <1>2 DEF CommitRotation, events
<1>4. \A q \in Rotation : q # r => rotation[q].endpoint # x
  BY <1>1 DEF SecretInv, Exclusive
<1>5. \A q \in Rotation : rotation'[q] = IF q = r THEN NoRotation ELSE rotation[q]
  BY <1>3 DEF SecretInv, SecretType
<1>6. SecretType'
  BY <1>1, <1>3 DEF SecretInv, SecretType, NoRotation
<1>7. OneActiveSecret'
  <2> SUFFICES ASSUME NEW y \in registered PROVE active'[y] = {latest'[y]}
    BY <1>3 DEF OneActiveSecret
  <2>1. y \in Endpoint /\ active[y] = {latest[y]}
    BY DEF SecretInv, SecretType, OneActiveSecret
  <2> QED
    BY <1>1, <1>3, <2>1 DEF SecretInv, SecretType
<1>8. RotatesRegistered' /\ Exclusive'
  <2>1. NoRotation.endpoint = NoEndpoint
    BY DEF NoRotation
  <2>2. RotatesRegistered'
    BY <1>3, <1>5 DEF SecretInv, RotatesRegistered
  <2>3. Exclusive'
    BY <1>5, <2>1 DEF SecretInv, Exclusive
  <2> QED
    BY <2>2, <2>3
<1>9. FoundIsActive'
  <2> SUFFICES ASSUME NEW q \in Rotation, rotation'[q].pc \in {"lock", "insert"}
               PROVE  rotation'[q].found = active'[rotation'[q].endpoint]
    BY DEF FoundIsActive
  <2>1. q # r /\ rotation'[q] = rotation[q]
    BY <1>5 DEF NoRotation
  <2>2. rotation[q].endpoint \in Endpoint \ {x}
    BY <1>4, <2>1 DEF SecretInv, SecretType, RotatesRegistered, NoRotation
  <2> QED
    BY <1>3, <2>1, <2>2 DEF SecretInv, SecretType, FoundIsActive
<1> QED
  BY <1>6, <1>7, <1>8, <1>9 DEF SecretInv

LEMMA FailSecret ==
    ASSUME SecretInv, NEW r \in Rotation, RotationFails(r)
    PROVE  SecretInv'
<1>1. /\ rotation' = [rotation EXCEPT ![r] = NoRotation]
      /\ UNCHANGED <<registered, latest, active>>
  BY DEF RotationFails, events
<1>2. \A q \in Rotation : rotation'[q] = IF q = r THEN NoRotation ELSE rotation[q]
  BY <1>1 DEF SecretInv, SecretType
<1> QED
  BY <1>1, <1>2 DEF SecretInv, SecretType, OneActiveSecret, RotatesRegistered,
                    Exclusive, FoundIsActive, NoRotation

LEMMA NextSecret == SecretInv /\ [Next]_vars => SecretInv'
<1> SUFFICES ASSUME SecretInv, [Next]_vars PROVE SecretInv'
  OBVIOUS
<1>1. ASSUME NEW e \in Event, EmitEvent(e) \/ HandleEvent(e) PROVE SecretInv'
  BY <1>1, SecretUnchanged
     DEF EmitEvent, HandleEvent, Effects!Emit, Effects!Handle, secrets, secretVars
<1>2. ASSUME NEW x \in Endpoint, NEW v, AddSecret(x, v) PROVE SecretInv'
  BY <1>2, SecretUnchanged DEF AddSecret, events, secrets, secretVars
<1>3. ASSUME NEW w \in Dispatcher,
             \/ Dispatch(w) \/ PostUnreachable(w)
             \/ PostAnswerLost(w) \/ DispatcherDies(w)
      PROVE  SecretInv'
  BY <1>3, SecretUnchanged
     DEF Dispatch, StartBatch, Sign, PostAnswered, FinishBatch, PostUnreachable,
         PostAnswerLost, DispatcherDies, events, secrets, secretVars
<1>4. ASSUME NEW s \in Subscribed, DelayPasses(s) \/ Replay(s) PROVE SecretInv'
  BY <1>4, SecretUnchanged DEF DelayPasses, Replay, events, secrets, secretVars
<1>5. CASE UNCHANGED vars
  BY <1>5, SecretUnchanged DEF vars, events, secrets, secretVars
<1> QED
  BY <1>1, <1>2, <1>3, <1>4, <1>5, RegisterSecret, LockSecret, FindSecret,
     CommitSecret, FailSecret DEF Next

(* service.py, rotate_webhook_secret: whatever rotations race or fail, a   *)
(* registered endpoint has one active secret, its latest.                  *)
THEOREM SecretsRotate == Spec => []OneActiveSecret
<1>1. SecretInv => OneActiveSecret
  BY DEF SecretInv
<1> QED
  BY InitSecret, NextSecret, <1>1, PTL DEF Spec
-----------------------------------------------------------------------------
(* Deliveries.  The rows of a batch are locked, apart from those of every  *)
(* other batch, and wait to be delivered as long as they are (Apart,       *)
(* LockedAwait).  An acceptance is counted once: as a success, in a row or *)
(* in the transaction that is going to commit it, or as a replay of one,   *)
(* or as unrecorded.                                                       *)

DeliveryRow == [status : {"ABSENT", "PENDING", "RETRY", "SUCCEEDED", "DEAD_LETTER"},
                attempts : Nat, due : BOOLEAN]

DeliveryType ==
    /\ row \in [Subscribed -> DeliveryRow]
    /\ batch = [w \in Dispatcher |-> batch[w]]
    /\ accepted \in [Subscribed -> Nat]
    /\ unrecorded \in [Subscribed -> Nat]
    /\ replays \in [Subscribed -> Nat]

(* A batch sorts its rows into those to do, the one in hand and the        *)
(* settled ones, of which the taken ones will have succeeded.              *)
Sorted(b) ==
    /\ b.todo \subseteq Subscribed
    /\ b.hand \in Subscribed \cup {NoDelivery}
    /\ DOMAIN b.settled \subseteq Subscribed
    /\ b.todo \cap DOMAIN b.settled = {}
    /\ b.hand \notin b.todo \cup DOMAIN b.settled
    /\ \A s \in DOMAIN b.settled : b.settled[s] \in DeliveryRow
    /\ \A s \in b.taken : s \in DOMAIN b.settled /\ b.settled[s].status = "SUCCEEDED"

RowsOf(b) == b.todo \cup DOMAIN b.settled \cup ({b.hand} \ {NoDelivery})

AllSorted == \A w \in Dispatcher : Sorted(batch[w])

Apart == \A v, w \in Dispatcher : v # w => RowsOf(batch[v]) \cap RowsOf(batch[w]) = {}

LockedAwait == \A w \in Dispatcher : \A s \in RowsOf(batch[w]) : Awaiting(s)

RowsHandled == \A s \in Subscribed : row[s].status # "ABSENT" => s[2] \in handled

Counted(s) == row[s].status = "SUCCEEDED" \/ \E w \in Dispatcher : s \in batch[w].taken

AcceptancesCounted ==
    \A s \in Subscribed :
        accepted[s] <= replays[s] + unrecorded[s] + (IF Counted(s) THEN 1 ELSE 0)

DeliveryInv == /\ DeliveryType /\ AllSorted /\ Apart /\ LockedAwait
               /\ RowsHandled /\ AcceptancesCounted

deliveryVars == <<handled, row, batch, accepted, unrecorded, replays>>

LEMMA InitDelivery == Init => DeliveryInv
<1> SUFFICES ASSUME Init PROVE DeliveryInv
  OBVIOUS
<1>1. /\ row = [s \in Subscribed |-> Absent]
      /\ batch = [w \in Dispatcher |-> NoBatch]
      /\ accepted = [s \in Subscribed |-> 0]
      /\ unrecorded = [s \in Subscribed |-> 0]
      /\ replays = [s \in Subscribed |-> 0]
  BY DEF Init
<1>2. Absent \in DeliveryRow /\ Absent.status = "ABSENT"
  BY DEF Absent, DeliveryRow
<1>3. /\ Sorted(NoBatch)
      /\ RowsOf(NoBatch) = {}
      /\ NoBatch.taken = {}
  BY DeliveryAssumption DEF Sorted, RowsOf, NoBatch
<1>4. DeliveryType
  BY <1>1, <1>2 DEF DeliveryType
<1>5. AllSorted /\ Apart /\ LockedAwait
  BY <1>1, <1>3 DEF AllSorted, Apart, LockedAwait
<1>6. RowsHandled /\ AcceptancesCounted
  BY <1>1, <1>2 DEF RowsHandled, AcceptancesCounted
<1> QED
  BY <1>4, <1>5, <1>6 DEF DeliveryInv

LEMMA DeliveryUnchanged == DeliveryInv /\ UNCHANGED deliveryVars => DeliveryInv'
  BY DEF deliveryVars, DeliveryInv, DeliveryType, AllSorted, Apart, LockedAwait,
         Awaiting, RowsHandled, AcceptancesCounted, Counted

(* What a step that rewrites the batch of w alone has to show of the new   *)
(* batch b: it is sorted, takes no row of another batch and none that does *)
(* not wait.                                                               *)
LEMMA BatchStep ==
    ASSUME DeliveryInv, NEW w \in Dispatcher, NEW b,
           batch' = [batch EXCEPT ![w] = b],
           Sorted(b),
           \A v \in Dispatcher \ {w} : RowsOf(b) \cap RowsOf(batch[v]) = {},
           \A s \in RowsOf(b) : Awaiting(s)',
           \A v \in Dispatcher \ {w} : \A s \in RowsOf(batch[v]) : row'[s] = row[s]
    PROVE  /\ batch' = [v \in Dispatcher |-> batch'[v]]
           /\ batch'[w] = b
           /\ \A v \in Dispatcher \ {w} : batch'[v] = batch[v]
           /\ AllSorted' /\ Apart' /\ LockedAwait'
<1>1. /\ batch' = [v \in Dispatcher |-> IF v = w THEN b ELSE batch[v]]
      /\ \A v \in Dispatcher : batch'[v] = IF v = w THEN b ELSE batch[v]
  BY DEF DeliveryInv, DeliveryType
<1>2. AllSorted'
  BY <1>1 DEF DeliveryInv, AllSorted
<1>3. Apart'
  BY <1>1 DEF DeliveryInv, Apart
<1>4. LockedAwait'
  BY <1>1 DEF DeliveryInv, LockedAwait, Awaiting
<1>5. batch' = [v \in Dispatcher |-> batch'[v]]
  BY <1>1
<1> QED
  BY <1>1, <1>2, <1>3, <1>4, <1>5

(* The event path adds a row where there was none. *)
LEMMA HandleDelivery ==
    ASSUME DeliveryInv, NEW e \in Event, HandleEvent(e)
    PROVE  DeliveryInv'
<1>1. /\ e \notin handled /\ handled' = handled \cup {e}
      /\ row' = [s \in Subscribed |-> IF s[2] = e /\ s[1] \in registered
                                       THEN New ELSE row[s]]
      /\ UNCHANGED <<batch, accepted, unrecorded, replays>>
  BY DEF HandleEvent, Effects!Handle, receiver
<1>2. New \in DeliveryRow /\ New.status = "PENDING"
  BY DEF New, DeliveryRow
<1>3. \A s \in Subscribed : s[2] = e => row[s].status = "ABSENT"
  BY <1>1 DEF DeliveryInv, RowsHandled
<1>4. DeliveryType'
  BY <1>1, <1>2 DEF DeliveryInv, DeliveryType
<1>5. \A s \in Subscribed : row'[s] = row[s] \/ (row[s].status = "ABSENT" /\ row'[s] = New /\ s[2] = e)
  BY <1>1, <1>3
<1>6. AllSorted' /\ Apart'
  BY <1>1 DEF DeliveryInv, AllSorted, Apart
<1>7. LockedAwait'
  <2> SUFFICES ASSUME NEW w \in Dispatcher, NEW s \in RowsOf(batch[w]) PROVE Awaiting(s)'
    BY <1>1 DEF LockedAwait
  <2>1. s \in Subscribed
    BY DEF DeliveryInv, AllSorted, Sorted, RowsOf
  <2>2. Awaiting(s)
    BY DEF DeliveryInv, LockedAwait
  <2> QED
    BY <1>2, <1>5, <2>1, <2>2 DEF Awaiting
<1>8. RowsHandled'
  BY <1>1, <1>5 DEF DeliveryInv, RowsHandled
<1>9. AcceptancesCounted'
  <2> SUFFICES ASSUME NEW s \in Subscribed PROVE Counted(s) <=> Counted(s)'
    BY <1>1 DEF DeliveryInv, AcceptancesCounted
  <2>1. row[s].status = "SUCCEEDED" <=> row'[s].status = "SUCCEEDED"
    BY <1>2, <1>5
  <2> QED
    BY <1>1, <2>1 DEF Counted
<1> QED
  BY <1>4, <1>6, <1>7, <1>8, <1>9 DEF DeliveryInv

(* A batch begins with rows nobody has. *)
LEMMA StartDelivery ==
    ASSUME DeliveryInv, NEW w \in Dispatcher, StartBatch(w)
    PROVE  DeliveryInv'
<1>1. PICK T \in SUBSET Free : batch' = [batch EXCEPT ![w] = [NoBatch EXCEPT !.todo = T]]
  BY DEF StartBatch
<1> DEFINE b == [NoBatch EXCEPT !.todo = T]
<1>2. UNCHANGED <<handled, row, accepted, unrecorded, replays>> /\ batch[w] = NoBatch
  BY DEF StartBatch, events, receiver
<1>3. /\ b.todo = T /\ b.hand = NoDelivery /\ DOMAIN b.settled = {} /\ b.taken = {}
      /\ NoBatch.taken = {}
  BY DEF NoBatch
<1>4. T \subseteq Subscribed /\ \A s \in T : Awaiting(s)
  BY DEF Free, Due, Awaiting
<1>5. \A v \in Dispatcher : T \cap RowsOf(batch[v]) = {}
  BY DEF Free, Locked, Rows, RowsOf
<1>6. Sorted(b) /\ RowsOf(b) = T
  BY <1>3, <1>4, DeliveryAssumption DEF Sorted, RowsOf
<1>7. \A s \in RowsOf(b) : Awaiting(s)'
  BY <1>2, <1>4, <1>6 DEF Awaiting
<1>8. \A v \in Dispatcher \ {w} : RowsOf(b) \cap RowsOf(batch[v]) = {}
  BY <1>5, <1>6
<1> HIDE DEF b
<1>9. /\ batch' = [v \in Dispatcher |-> batch'[v]]
      /\ batch'[w] = b
      /\ \A v \in Dispatcher \ {w} : batch'[v] = batch[v]
      /\ AllSorted' /\ Apart' /\ LockedAwait'
  <2>1. batch' = [batch EXCEPT ![w] = b]
    BY <1>1 DEF b
  <2> QED
    BY <2>1, <1>2, <1>6, <1>7, <1>8, BatchStep
<1>10. \A s : Counted(s)' <=> Counted(s)
  BY <1>2, <1>3, <1>9 DEF Counted
<1> QED
  BY <1>2, <1>9, <1>10 DEF DeliveryInv, DeliveryType, RowsHandled, AcceptancesCounted

(* A row of the batch is signed: it stays in the batch. *)
LEMMA SignDelivery ==
    ASSUME DeliveryInv, NEW w \in Dispatcher, NEW s \in Subscribed, Sign(w, s)
    PROVE  DeliveryInv'
<1>1. /\ batch[w].hand = NoDelivery /\ s \in batch[w].todo
      /\ UNCHANGED <<handled, row, accepted, unrecorded, replays>>
  BY DEF Sign, events, receiver
<1>2. PICK v : batch' = [batch EXCEPT ![w] =
                  [todo |-> batch[w].todo \ {s}, hand |-> s, version |-> v,
                   settled |-> batch[w].settled, taken |-> batch[w].taken]]
  BY DEF Sign
<1> DEFINE b == [todo |-> batch[w].todo \ {s}, hand |-> s, version |-> v,
                 settled |-> batch[w].settled, taken |-> batch[w].taken]
<1>3. Sorted(batch[w]) /\ s # NoDelivery
  BY DeliveryAssumption DEF DeliveryInv, AllSorted
<1>4. Sorted(b) /\ RowsOf(b) = RowsOf(batch[w]) /\ b.taken = batch[w].taken
  BY <1>1, <1>3 DEF Sorted, RowsOf
<1>5. \A t \in RowsOf(b) : Awaiting(t)'
  BY <1>1, <1>4 DEF DeliveryInv, LockedAwait, Awaiting
<1>6. \A u \in Dispatcher \ {w} : RowsOf(b) \cap RowsOf(batch[u]) = {}
  BY <1>4 DEF DeliveryInv, Apart
<1>7. batch' = [batch EXCEPT ![w] = b]
  BY <1>2
<1> HIDE DEF b
<1>8. /\ batch' = [u \in Dispatcher |-> batch'[u]]
      /\ batch'[w] = b
      /\ \A u \in Dispatcher \ {w} : batch'[u] = batch[u]
      /\ AllSorted' /\ Apart' /\ LockedAwait'
  BY <1>1, <1>4, <1>5, <1>6, <1>7, BatchStep
<1>9. \A t : Counted(t)' <=> Counted(t)
  BY <1>1, <1>4, <1>8 DEF Counted
<1> QED
  BY <1>1, <1>8, <1>9 DEF DeliveryInv, DeliveryType, RowsHandled, AcceptancesCounted

(* The row in hand, which no success was counted for yet, is settled.      *)
LEMMA SettleDelivery ==
    ASSUME DeliveryInv, NEW w \in Dispatcher, batch[w].hand # NoDelivery,
           NEW r \in DeliveryRow, NEW taken \in SUBSET {batch[w].hand},
           taken # {} => r.status = "SUCCEEDED",
           Settle(w, r, taken), row' = row
    PROVE  /\ batch' = [v \in Dispatcher |-> batch'[v]]
           /\ AllSorted' /\ Apart' /\ LockedAwait'
           /\ batch[w].hand \in Subscribed
           /\ ~ Counted(batch[w].hand)
           /\ \A s : Counted(s)' <=> Counted(s) \/ s \in taken
<1> DEFINE h == batch[w].hand
           b == [todo |-> batch[w].todo, hand |-> NoDelivery, version |-> 0,
                 settled |-> [s \in DOMAIN batch[w].settled \cup {h} |->
                                 IF s = h THEN r ELSE batch[w].settled[s]],
                 taken |-> batch[w].taken \cup taken]
<1>1. batch' = [batch EXCEPT ![w] = b]
  BY DEF Settle
<1>2. Sorted(batch[w])
  BY DEF DeliveryInv, AllSorted
<1>3. h \in Subscribed /\ h \in RowsOf(batch[w]) /\ h \notin batch[w].taken
  BY <1>2 DEF Sorted, RowsOf
<1>4. /\ b.todo = batch[w].todo /\ b.hand = NoDelivery
      /\ DOMAIN b.settled = DOMAIN batch[w].settled \cup {h}
      /\ b.settled[h] = r
      /\ \A s \in DOMAIN batch[w].settled : b.settled[s] = batch[w].settled[s]
      /\ b.taken = batch[w].taken \cup taken
  BY <1>2 DEF Sorted
<1> HIDE DEF b
<1>5. RowsOf(b) = RowsOf(batch[w])
  BY <1>2, <1>3, <1>4, DeliveryAssumption DEF RowsOf, Sorted
<1>6. Sorted(b)
  BY <1>2, <1>3, <1>4, DeliveryAssumption DEF Sorted
<1>7. \A s \in RowsOf(b) : Awaiting(s)'
  BY <1>5 DEF DeliveryInv, LockedAwait, Awaiting
<1>8. \A v \in Dispatcher \ {w} : RowsOf(b) \cap RowsOf(batch[v]) = {}
  BY <1>5 DEF DeliveryInv, Apart
<1>9. /\ batch' = [v \in Dispatcher |-> batch'[v]]
      /\ batch'[w] = b
      /\ \A v \in Dispatcher \ {w} : batch'[v] = batch[v]
      /\ AllSorted' /\ Apart' /\ LockedAwait'
  BY <1>1, <1>6, <1>7, <1>8, BatchStep
<1>10. ~ Counted(h)
  <2>1. row[h].status # "SUCCEEDED"
    BY <1>3 DEF DeliveryInv, LockedAwait, Awaiting
  <2>2. \A v \in Dispatcher : batch[v].taken \subseteq RowsOf(batch[v])
    BY DEF DeliveryInv, AllSorted, Sorted, RowsOf
  <2>3. \A v \in Dispatcher \ {w} : h \notin RowsOf(batch[v])
    BY <1>3 DEF DeliveryInv, Apart
  <2> QED
    BY <1>3, <2>1, <2>2, <2>3 DEF Counted
<1>11. \A s : Counted(s)' <=> Counted(s) \/ s \in taken
  BY <1>4, <1>9 DEF Counted
<1> QED
  BY <1>3, <1>9, <1>10, <1>11

LEMMA AttemptRows ==
    ASSUME NEW r \in DeliveryRow, NEW final
    PROVE  /\ Succeeded(r) \in DeliveryRow /\ Succeeded(r).status = "SUCCEEDED"
           /\ Failed(r, final) \in DeliveryRow
<1>1. \A status \in {"SUCCEEDED", "DEAD_LETTER", "RETRY"} :
          After(r, status) \in DeliveryRow /\ After(r, status).status = status
  BY DEF DeliveryRow, After
<1> QED
  BY <1>1 DEF Succeeded, Failed

(* An answered POST: whoever takes the delivery answers 2xx.               *)
LEMMA AnswerDelivery ==
    ASSUME DeliveryInv, NEW w \in Dispatcher, PostAnswered(w)
    PROVE  DeliveryInv'
<1> DEFINE s == batch[w].hand
           v == batch[w].version
           r == IF Code(s, v) = 200 THEN Succeeded(row[s])
                                    ELSE Failed(row[s], Code(s, v) < 500)
           taken == IF Takes(s, v) THEN {s} ELSE {}
<1>1. /\ s # NoDelivery
      /\ accepted' = [accepted EXCEPT ![s] = @ + (IF Takes(s, v) THEN 1 ELSE 0)]
      /\ Settle(w, r, taken)
      /\ UNCHANGED <<handled, row, unrecorded, replays>>
  BY DEF PostAnswered, Receive, events
<1>2. s \in Subscribed /\ row[s] \in DeliveryRow
  BY <1>1 DEF DeliveryInv, AllSorted, Sorted, DeliveryType
<1>3. r \in DeliveryRow /\ (taken # {} => r.status = "SUCCEEDED")
  <2>1. /\ Succeeded(row[s]) \in DeliveryRow /\ Succeeded(row[s]).status = "SUCCEEDED"
        /\ Failed(row[s], Code(s, v) < 500) \in DeliveryRow
    BY <1>2, AttemptRows
  <2> QED
    BY <2>1 DEF Takes
<1>4. /\ batch' = [u \in Dispatcher |-> batch'[u]]
      /\ AllSorted' /\ Apart' /\ LockedAwait'
      /\ ~ Counted(s)
      /\ \A t : Counted(t)' <=> Counted(t) \/ t \in taken
  <2> taken \in SUBSET {s}
    OBVIOUS
  <2> HIDE DEF r, taken
  <2> QED
    BY <1>1, <1>3, SettleDelivery
<1>5. AcceptancesCounted'
  <2> SUFFICES ASSUME NEW t \in Subscribed
               PROVE  accepted'[t] <= replays[t] + unrecorded[t]
                                        + (IF Counted(t)' THEN 1 ELSE 0)
    BY <1>1 DEF AcceptancesCounted
  <2>1. accepted[t] <= replays[t] + unrecorded[t] + (IF Counted(t) THEN 1 ELSE 0)
    BY DEF DeliveryInv, AcceptancesCounted
  <2>2. accepted[t] \in Nat /\ replays[t] \in Nat /\ unrecorded[t] \in Nat
    BY DEF DeliveryInv, DeliveryType
  <2>3. CASE t = s /\ Takes(s, v)
    BY <1>1, <1>2, <1>4, <2>1, <2>2, <2>3 DEF DeliveryInv, DeliveryType
  <2>4. CASE ~ (t = s /\ Takes(s, v))
    <3>1. accepted'[t] = accepted[t]
      BY <1>1, <2>2, <2>4 DEF DeliveryInv, DeliveryType
    <3>2. t \notin taken
      BY <2>4
    <3> QED
      BY <1>4, <2>1, <3>1, <3>2
  <2> QED
    BY <2>3, <2>4
<1>6. accepted' \in [Subscribed -> Nat]
  BY <1>1, <1>2 DEF DeliveryInv, DeliveryType
<1> QED
  BY <1>1, <1>4, <1>5, <1>6 DEF DeliveryInv, DeliveryType, RowsHandled

(* A POST without an answer: a failure, and an unrecorded acceptance if    *)
(* the receiver took the delivery.                                         *)
LEMMA LostDelivery ==
    ASSUME DeliveryInv, NEW w \in Dispatcher, PostUnreachable(w) \/ PostAnswerLost(w)
    PROVE  DeliveryInv'
<1> DEFINE s == batch[w].hand
<1>1. PICK n \in {0, 1} :
        /\ s # NoDelivery
        /\ accepted' = [accepted EXCEPT ![s] = @ + n]
        /\ unrecorded' = [unrecorded EXCEPT ![s] = @ + n]
        /\ Settle(w, Failed(row[s], FALSE), {})
        /\ UNCHANGED <<handled, row, replays>>
  <2>1. CASE PostUnreachable(w)
    <3>1. /\ accepted' = [accepted EXCEPT ![s] = @ + 0]
          /\ unrecorded' = [unrecorded EXCEPT ![s] = @ + 0]
      BY <2>1 DEF PostUnreachable, receiver, DeliveryInv, DeliveryType
    <3> QED
      BY <2>1, <3>1 DEF PostUnreachable, events
  <2>2. CASE PostAnswerLost(w)
    BY <2>2 DEF PostAnswerLost, Receive, events
  <2> QED
    BY <2>1, <2>2
<1>2. s \in Subscribed /\ row[s] \in DeliveryRow
  BY <1>1 DEF DeliveryInv, AllSorted, Sorted, DeliveryType
<1>3. Failed(row[s], FALSE) \in DeliveryRow
  BY <1>2, AttemptRows
<1>4. /\ batch' = [u \in Dispatcher |-> batch'[u]]
      /\ AllSorted' /\ Apart' /\ LockedAwait'
      /\ \A t : Counted(t)' <=> Counted(t)
  <2> DEFINE taken == {}
             r == Failed(row[s], FALSE)
  <2>1. taken \in SUBSET {s} /\ taken = {} /\ Settle(w, r, taken)
    BY <1>1
  <2> HIDE DEF taken, r
  <2> QED
    BY <1>1, <1>3, <2>1, SettleDelivery DEF r
<1>5. AcceptancesCounted'
  <2> SUFFICES ASSUME NEW t \in Subscribed
               PROVE  accepted'[t] <= replays[t] + unrecorded'[t]
                                        + (IF Counted(t) THEN 1 ELSE 0)
    BY <1>1, <1>4 DEF AcceptancesCounted
  <2>1. accepted[t] <= replays[t] + unrecorded[t] + (IF Counted(t) THEN 1 ELSE 0)
    BY DEF DeliveryInv, AcceptancesCounted
  <2>2. accepted[t] \in Nat /\ replays[t] \in Nat /\ unrecorded[t] \in Nat
    BY DEF DeliveryInv, DeliveryType
  <2>3. CASE t = s
    <3>1. accepted'[t] = accepted[t] + n /\ unrecorded'[t] = unrecorded[t] + n
      BY <1>1, <2>3 DEF DeliveryInv, DeliveryType
    <3> QED
      BY <2>1, <2>2, <3>1
  <2>4. CASE t # s
    <3>1. accepted'[t] = accepted[t] /\ unrecorded'[t] = unrecorded[t]
      BY <1>1, <2>4 DEF DeliveryInv, DeliveryType
    <3> QED
      BY <2>1, <3>1
  <2> QED
    BY <2>3, <2>4
<1>6. accepted' \in [Subscribed -> Nat] /\ unrecorded' \in [Subscribed -> Nat]
  BY <1>1, <1>2 DEF DeliveryInv, DeliveryType
<1> QED
  BY <1>1, <1>4, <1>5, <1>6 DEF DeliveryInv, DeliveryType, RowsHandled

(* The commit turns what was taken into successes of the rows.             *)
LEMMA FinishDelivery ==
    ASSUME DeliveryInv, NEW w \in Dispatcher, FinishBatch(w)
    PROVE  DeliveryInv'
<1> DEFINE settled == batch[w].settled
<1>1. /\ row' = [s \in Subscribed |-> IF s \in DOMAIN settled THEN settled[s] ELSE row[s]]
      /\ batch' = [batch EXCEPT ![w] = NoBatch]
      /\ UNCHANGED <<handled, accepted, unrecorded, replays>>
  BY DEF FinishBatch, events, receiver
<1>2. Sorted(batch[w]) /\ \A s \in DOMAIN settled : s \in RowsOf(batch[w])
  BY DEF DeliveryInv, AllSorted, RowsOf
<1>3. Sorted(NoBatch) /\ RowsOf(NoBatch) = {} /\ NoBatch.taken = {}
  BY DeliveryAssumption DEF Sorted, RowsOf, NoBatch
<1>4. \A v \in Dispatcher \ {w} : \A s \in RowsOf(batch[v]) :
          s \in Subscribed /\ s \notin DOMAIN settled /\ row'[s] = row[s]
  BY <1>1, <1>2 DEF DeliveryInv, AllSorted, Sorted, RowsOf, Apart
<1>5. /\ batch' = [v \in Dispatcher |-> batch'[v]]
      /\ batch'[w] = NoBatch
      /\ \A v \in Dispatcher \ {w} : batch'[v] = batch[v]
      /\ AllSorted' /\ Apart' /\ LockedAwait'
  BY <1>1, <1>3, <1>4, BatchStep
<1>6. row' \in [Subscribed -> DeliveryRow]
  BY <1>1, <1>2 DEF DeliveryInv, DeliveryType, Sorted
<1>7. RowsHandled'
  <2>1. \A s \in DOMAIN settled : row[s].status # "ABSENT" /\ s \in Subscribed
    BY <1>2 DEF DeliveryInv, LockedAwait, Awaiting, Sorted
  <2> QED
    BY <1>1, <2>1 DEF DeliveryInv, RowsHandled
<1>8. \A s \in Subscribed : Counted(s) => Counted(s)'
  <2> SUFFICES ASSUME NEW s \in Subscribed, Counted(s) PROVE Counted(s)'
    OBVIOUS
  <2>1. CASE s \in batch[w].taken
    BY <1>1, <1>2, <2>1 DEF Sorted, Counted
  <2>2. CASE \E v \in Dispatcher \ {w} : s \in batch[v].taken
    BY <1>5, <2>2 DEF Counted
  <2>3. CASE row[s].status = "SUCCEEDED"
    <3>1. s \notin DOMAIN settled
      BY <1>2, <2>3 DEF DeliveryInv, LockedAwait, Awaiting
    <3> QED
      BY <1>1, <2>3, <3>1 DEF Counted
  <2> QED
    BY <2>1, <2>2, <2>3 DEF Counted
<1>9. AcceptancesCounted'
  <2> SUFFICES ASSUME NEW s \in Subscribed
               PROVE  accepted[s] <= replays[s] + unrecorded[s]
                                        + (IF Counted(s)' THEN 1 ELSE 0)
    BY <1>1 DEF AcceptancesCounted
  <2>1. accepted[s] <= replays[s] + unrecorded[s] + (IF Counted(s) THEN 1 ELSE 0)
    BY DEF DeliveryInv, AcceptancesCounted
  <2>2. accepted[s] \in Nat /\ replays[s] \in Nat /\ unrecorded[s] \in Nat
    BY DEF DeliveryInv, DeliveryType
  <2> QED
    BY <1>8, <2>1, <2>2
<1> QED
  BY <1>1, <1>5, <1>6, <1>7, <1>9 DEF DeliveryInv, DeliveryType

(* A rolled back batch leaves what was taken unrecorded. *)
LEMMA RollbackDelivery ==
    ASSUME DeliveryInv, NEW w \in Dispatcher, DispatcherDies(w)
    PROVE  DeliveryInv'
<1>1. /\ unrecorded' = [s \in Subscribed |->
              unrecorded[s] + (IF s \in batch[w].taken THEN 1 ELSE 0)]
      /\ batch' = [batch EXCEPT ![w] = NoBatch]
      /\ UNCHANGED <<handled, row, accepted, replays>>
  BY DEF DispatcherDies, events
<1>2. Sorted(NoBatch) /\ RowsOf(NoBatch) = {} /\ NoBatch.taken = {}
  BY DeliveryAssumption DEF Sorted, RowsOf, NoBatch
<1>3. /\ batch' = [v \in Dispatcher |-> batch'[v]]
      /\ batch'[w] = NoBatch
      /\ \A v \in Dispatcher \ {w} : batch'[v] = batch[v]
      /\ AllSorted' /\ Apart' /\ LockedAwait'
  BY <1>1, <1>2, BatchStep
<1>4. \A s : Counted(s) => Counted(s)' \/ s \in batch[w].taken
  BY <1>1, <1>3 DEF Counted
<1>5. AcceptancesCounted'
  <2> SUFFICES ASSUME NEW s \in Subscribed
               PROVE  accepted[s] <= replays[s] + unrecorded'[s]
                                        + (IF Counted(s)' THEN 1 ELSE 0)
    BY <1>1 DEF AcceptancesCounted
  <2>1. accepted[s] <= replays[s] + unrecorded[s] + (IF Counted(s) THEN 1 ELSE 0)
    BY DEF DeliveryInv, AcceptancesCounted
  <2>2. accepted[s] \in Nat /\ replays[s] \in Nat /\ unrecorded[s] \in Nat
    BY DEF DeliveryInv, DeliveryType
  <2>3. unrecorded'[s] = unrecorded[s] + (IF s \in batch[w].taken THEN 1 ELSE 0)
    BY <1>1
  <2> QED
    BY <1>4, <2>1, <2>2, <2>3
<1>6. unrecorded' \in [Subscribed -> Nat]
  BY <1>1 DEF DeliveryInv, DeliveryType
<1> QED
  BY <1>1, <1>3, <1>5, <1>6 DEF DeliveryInv, DeliveryType, RowsHandled

LEMMA RowDueAgain ==
    ASSUME DeliveryInv, NEW s \in Subscribed,
           NEW status \in {"PENDING", "RETRY"}, DueAgain(s, status)
    PROVE  /\ row' \in [Subscribed -> DeliveryRow]
           /\ \A t \in Subscribed :
                 row'[t].status = IF t = s THEN status ELSE row[t].status
<1> DEFINE r == [status |-> status, attempts |-> row[s].attempts, due |-> TRUE]
<1>1. row' = [row EXCEPT ![s] = r]
  BY DEF DueAgain
<1>2. r \in DeliveryRow /\ r.status = status
  BY DEF DeliveryInv, DeliveryType, DeliveryRow
<1> QED
  BY <1>1, <1>2 DEF DeliveryInv, DeliveryType

LEMMA DelayDelivery ==
    ASSUME DeliveryInv, NEW s \in Subscribed, DelayPasses(s)
    PROVE  DeliveryInv'
<1>1. /\ row[s].status = "RETRY" /\ DueAgain(s, "RETRY")
      /\ UNCHANGED <<handled, batch, accepted, unrecorded, replays>>
  BY DEF DelayPasses, events, receiver
<1>2. row' \in [Subscribed -> DeliveryRow] /\ \A t \in Subscribed : row'[t].status = row[t].status
  BY <1>1, RowDueAgain
<1>3. \A w \in Dispatcher : \A t \in RowsOf(batch[w]) : t \in Subscribed
  BY DEF DeliveryInv, AllSorted, Sorted, RowsOf
<1>4. LockedAwait'
  BY <1>1, <1>2, <1>3 DEF DeliveryInv, LockedAwait, Awaiting
<1>5. RowsHandled' /\ AcceptancesCounted'
  BY <1>1, <1>2 DEF DeliveryInv, RowsHandled, AcceptancesCounted, Counted
<1> QED
  BY <1>1, <1>2, <1>4, <1>5 DEF DeliveryInv, DeliveryType, AllSorted, Apart

(* A replayed success may be accepted again, and is counted as a replay.   *)
LEMMA ReplayDelivery ==
    ASSUME DeliveryInv, NEW s \in Subscribed, Replay(s)
    PROVE  DeliveryInv'
<1>1. /\ row[s].status # "ABSENT" /\ DueAgain(s, "PENDING")
      /\ replays' = [replays EXCEPT ![s] = @ + 1]
      /\ UNCHANGED <<handled, batch, accepted, unrecorded>>
  BY DEF Replay, events, receiver
<1>2. /\ row' \in [Subscribed -> DeliveryRow]
      /\ \A t \in Subscribed : row'[t].status = IF t = s THEN "PENDING" ELSE row[t].status
  BY <1>1, RowDueAgain
<1>3. \A w \in Dispatcher : \A t \in RowsOf(batch[w]) : t \in Subscribed
  BY DEF DeliveryInv, AllSorted, Sorted, RowsOf
<1>4. LockedAwait'
  BY <1>1, <1>2, <1>3 DEF DeliveryInv, LockedAwait, Awaiting
<1>5. replays' \in [Subscribed -> Nat]
  BY <1>1 DEF DeliveryInv, DeliveryType
<1>6. AcceptancesCounted'
  <2> SUFFICES ASSUME NEW t \in Subscribed
               PROVE  accepted[t] <= replays'[t] + unrecorded[t]
                                        + (IF Counted(t)' THEN 1 ELSE 0)
    BY <1>1 DEF AcceptancesCounted
  <2>1. accepted[t] <= replays[t] + unrecorded[t] + (IF Counted(t) THEN 1 ELSE 0)
    BY DEF DeliveryInv, AcceptancesCounted
  <2>2. accepted[t] \in Nat /\ replays[t] \in Nat /\ unrecorded[t] \in Nat
    BY DEF DeliveryInv, DeliveryType
  <2>3. CASE t = s
    <3>1. replays'[t] = replays[t] + 1
      BY <1>1, <2>3 DEF DeliveryInv, DeliveryType
    <3> QED
      BY <2>1, <2>2, <3>1
  <2>4. CASE t # s
    <3>1. replays'[t] = replays[t] /\ (Counted(t)' <=> Counted(t))
      BY <1>1, <1>2, <2>4 DEF DeliveryInv, DeliveryType, Counted
    <3> QED
      BY <2>1, <3>1
  <2> QED
    BY <2>3, <2>4
<1>7. RowsHandled'
  BY <1>1, <1>2 DEF DeliveryInv, RowsHandled
<1> QED
  BY <1>1, <1>2, <1>4, <1>5, <1>6, <1>7 DEF DeliveryInv, DeliveryType, AllSorted, Apart

LEMMA NextDelivery == DeliveryInv /\ [Next]_vars => DeliveryInv'
<1> SUFFICES ASSUME DeliveryInv, [Next]_vars PROVE DeliveryInv'
  OBVIOUS
<1>1. ASSUME NEW e \in Event, EmitEvent(e) PROVE DeliveryInv'
  BY <1>1, DeliveryUnchanged
     DEF EmitEvent, Effects!Emit, receiver, deliveryVars
<1>2. ASSUME NEW x \in Endpoint, NEW v,
             \/ RegisterWebhook(x, v) \/ LockEndpoint(v, x) \/ AddSecret(x, v)
      PROVE  DeliveryInv'
  BY <1>2, DeliveryUnchanged
     DEF RegisterWebhook, Effects!RegisterEndpoint, LockEndpoint, AddSecret,
         events, receiver, deliveryVars
<1>3. ASSUME NEW r \in Rotation,
             \/ SelectActive(r) \/ LockActive(r) \/ CommitRotation(r) \/ RotationFails(r)
      PROVE  DeliveryInv'
  BY <1>3, DeliveryUnchanged
     DEF SelectActive, LockActive, CommitRotation, RotationFails,
         events, receiver, deliveryVars
<1>4. ASSUME NEW w \in Dispatcher,
             \/ Dispatch(w) \/ PostUnreachable(w)
             \/ PostAnswerLost(w) \/ DispatcherDies(w)
      PROVE  DeliveryInv'
  BY <1>4, StartDelivery, SignDelivery, AnswerDelivery, LostDelivery,
     FinishDelivery, RollbackDelivery DEF Dispatch
<1>5. CASE UNCHANGED vars
  BY <1>5, DeliveryUnchanged DEF vars, events, receiver, deliveryVars
<1> QED
  BY <1>1, <1>2, <1>3, <1>4, <1>5, HandleDelivery, DelayDelivery, ReplayDelivery DEF Next

(* webhook_dispatcher.py, dispatch_once: however many dispatchers run, and *)
(* wherever they are interrupted, a receiver takes a delivery once, and    *)
(* again only for a replay or an acceptance that was not recorded.         *)
THEOREM AcceptancesAreCounted == Spec => []AcceptedOnce
<1>1. DeliveryInv => AcceptedOnce
  <2> SUFFICES ASSUME DeliveryInv, NEW s \in Subscribed
               PROVE  accepted[s] <= 1 + replays[s] + unrecorded[s]
    BY DEF AcceptedOnce
  <2>1. accepted[s] <= replays[s] + unrecorded[s] + (IF Counted(s) THEN 1 ELSE 0)
    BY DEF DeliveryInv, AcceptancesCounted
  <2>2. accepted[s] \in Nat /\ replays[s] \in Nat /\ unrecorded[s] \in Nat
    BY DEF DeliveryInv, DeliveryType
  <2> QED
    BY <2>1, <2>2
<1> QED
  BY InitDelivery, NextDelivery, <1>1, PTL DEF Spec

-----------------------------------------------------------------------------
(* Types and bounds.  A rotation in progress has room for its version      *)
(* (RoomToRotate), and a row that still waits has an attempt left          *)
(* (AttemptsLeft), the rows a transaction has settled included.            *)

EventType ==
    /\ emitted \subseteq Event /\ handled \subseteq emitted
    /\ registered \subseteq Endpoint
    /\ url \in [Endpoint -> Route \cup {"none"}]

RoomToRotate ==
    \A r \in Rotation : /\ rotation[r].found \subseteq 1..MaxVersion
                        /\ \/ rotation[r] = NoRotation
                           \/ latest[rotation[r].endpoint] < MaxVersion

VersionBound ==
    /\ \A x \in Endpoint : latest[x] <= MaxVersion /\ active[x] \subseteq 1..MaxVersion
    /\ RoomToRotate

Within(r, n) ==
    /\ r.status # "ABSENT"
    /\ r.attempts <= MaxAttempts + n
    /\ r.status \in {"PENDING", "RETRY"} => r.attempts < MaxAttempts + n

AttemptsLeft ==
    /\ \A s \in Subscribed : row[s] = Absent \/ Within(row[s], replays[s])
    /\ \A w \in Dispatcher : \A s \in DOMAIN batch[w].settled :
          Within(batch[w].settled[s], replays[s])

BatchBound ==
    \A w \in Dispatcher : /\ Cardinality(RowsOf(batch[w])) <= BatchLimit
                          /\ batch[w].version \in 0..MaxVersion

ReceiverType ==
    /\ trusted \in [Endpoint -> SUBSET (1..MaxVersion)]
    /\ hits \in [Endpoint -> 0..Failures]

CounterBound ==
    /\ \A s \in Subscribed : replays[s] <= MaxReplays
    /\ faults \in 0..MaxFaults

TypeInv == /\ SecretInv /\ DeliveryInv
           /\ EventType /\ VersionBound /\ AttemptsLeft /\ BatchBound
           /\ ReceiverType /\ CounterBound

LEMMA InitTypes == Init => TypeInv
<1> SUFFICES ASSUME Init PROVE TypeInv
  OBVIOUS
<1>1. SecretInv /\ DeliveryInv
  BY InitSecret, InitDelivery
<1>2. EventType /\ ReceiverType
  BY DEF Init, Effects!Init, EventType, ReceiverType
<1>3. VersionBound
  BY DEF Init, VersionBound, RoomToRotate, NoRotation
<1>4. \A w \in Dispatcher : /\ batch[w] = NoBatch
                            /\ RowsOf(NoBatch) = {}
                            /\ DOMAIN NoBatch.settled = {}
                            /\ NoBatch.version = 0
  BY DEF Init, NoBatch, RowsOf
<1>5. AttemptsLeft
  BY <1>4 DEF Init, AttemptsLeft
<1>6. BatchBound
  BY <1>4, FS_EmptySet DEF BatchBound
<1>7. CounterBound
  BY DEF Init, CounterBound
<1> QED
  BY <1>1, <1>2, <1>3, <1>5, <1>6, <1>7 DEF TypeInv

LEMMA NextEvents == TypeInv /\ [Next]_vars => EventType'
<1> SUFFICES ASSUME TypeInv, [Next]_vars PROVE EventType'
  OBVIOUS
<1>1. ASSUME UNCHANGED events PROVE EventType'
  BY <1>1 DEF events, TypeInv, EventType
<1>2. ASSUME NEW e \in Event, EmitEvent(e) \/ HandleEvent(e) PROVE EventType'
  BY <1>2 DEF EmitEvent, HandleEvent, Effects!Emit, Effects!Handle, TypeInv, EventType
<1>3. ASSUME NEW x \in Endpoint, NEW u \in Route, RegisterWebhook(x, u) PROVE EventType'
  BY <1>3 DEF RegisterWebhook, Effects!RegisterEndpoint, TypeInv, EventType
<1> QED
  BY <1>1, <1>2, <1>3
     DEF Next, Dispatch, LockEndpoint, AddSecret, SelectActive, LockActive,
         CommitRotation, RotationFails, StartBatch, Sign, PostAnswered,
         FinishBatch, PostUnreachable, PostAnswerLost, DispatcherDies,
         DelayPasses, Replay, vars

(* Whoever holds an endpoint's lock found room for one more version, and   *)
(* nobody else adds one before it commits.                                 *)
LEMMA NextVersions == TypeInv /\ [Next]_vars => VersionBound'
<1> SUFFICES ASSUME TypeInv, [Next]_vars PROVE VersionBound'
  OBVIOUS
<1>1. SecretInv /\ VersionBound
  BY DEF TypeInv
<1>2. ASSUME UNCHANGED secrets PROVE VersionBound'
  BY <1>1, <1>2 DEF secrets, VersionBound, RoomToRotate
<1>3. ASSUME NEW x \in Endpoint, NEW u, RegisterWebhook(x, u) PROVE VersionBound'
  <2>1. /\ x \notin registered
        /\ latest' = [latest EXCEPT ![x] = 1]
        /\ active' = [active EXCEPT ![x] = {1}]
        /\ rotation' = rotation
    BY <1>3 DEF RegisterWebhook, Effects!RegisterEndpoint
  <2>2. \A r \in Rotation : rotation[r] = NoRotation \/ rotation[r].endpoint \in Endpoint \ {x}
    BY <1>1, <2>1 DEF SecretInv, SecretType, RotatesRegistered
  <2> QED
    BY <1>1, <2>1, <2>2 DEF SecretInv, SecretType, VersionBound, RoomToRotate
<1>4. ASSUME NEW r \in Rotation, NEW x \in Endpoint, LockEndpoint(r, x)
      PROVE  VersionBound'
  <2> DEFINE t == [pc |-> "select", endpoint |-> x, found |-> {}]
  <2>1. /\ latest[x] < MaxVersion
        /\ rotation' = [rotation EXCEPT ![r] = t]
        /\ UNCHANGED <<latest, active>>
    BY <1>4 DEF LockEndpoint
  <2>2. \A q \in Rotation : rotation'[q] = IF q = r THEN t ELSE rotation[q]
    BY <1>1, <2>1 DEF SecretInv, SecretType
  <2> QED
    BY <1>1, <2>1, <2>2 DEF VersionBound, RoomToRotate
<1>5. ASSUME NEW r \in Rotation, SelectActive(r) \/ LockActive(r) PROVE VersionBound'
  <2> DEFINE x == rotation[r].endpoint
  <2>1. rotation[r] # NoRotation /\ x \in Endpoint
    BY <1>1, <1>5 DEF SelectActive, LockActive, SecretInv, SecretType,
                      RotatesRegistered, NoRotation
  <2>2. PICK t : /\ t.endpoint = x /\ t.found \subseteq active[x]
                 /\ rotation' = [rotation EXCEPT ![r] = t]
                 /\ UNCHANGED <<latest, active>>
    <3>1. CASE SelectActive(r)
      <4> DEFINE t == [pc |-> "lock", endpoint |-> x, found |-> active[x]]
      <4>1. rotation' = [rotation EXCEPT ![r] = t] /\ UNCHANGED <<latest, active>>
        BY <3>1 DEF SelectActive
      <4> QED
        BY <4>1
    <3>2. CASE LockActive(r)
      <4> DEFINE t == [pc |-> "insert", endpoint |-> x,
                       found |-> rotation[r].found \cap active[x]]
      <4>1. rotation' = [rotation EXCEPT ![r] = t] /\ UNCHANGED <<latest, active>>
        BY <3>2 DEF LockActive
      <4> QED
        BY <4>1
    <3> QED
      BY <1>5, <3>1, <3>2
  <2>3. \A q \in Rotation : rotation'[q] = IF q = r THEN t ELSE rotation[q]
    BY <1>1, <2>2 DEF SecretInv, SecretType
  <2> QED
    BY <1>1, <2>1, <2>2, <2>3 DEF VersionBound, RoomToRotate
<1>6. ASSUME NEW r \in Rotation, CommitRotation(r) PROVE VersionBound'
  <2> DEFINE x == rotation[r].endpoint
  <2>1. rotation[r] # NoRotation /\ x \in Endpoint /\ x # NoEndpoint
    BY <1>1, <1>6 DEF CommitRotation, SecretInv, SecretType, RotatesRegistered, NoRotation
  <2>2. /\ latest' = [latest EXCEPT ![x] = latest[x] + 1]
        /\ active' = [active EXCEPT ![x] = (active[x] \ rotation[r].found) \cup {latest[x] + 1}]
        /\ rotation' = [rotation EXCEPT ![r] = NoRotation]
    BY <1>6 DEF CommitRotation
  <2>3. \A q \in Rotation : rotation'[q] = IF q = r THEN NoRotation ELSE rotation[q]
    BY <1>1, <2>2 DEF SecretInv, SecretType
  <2>4. \A q \in Rotation \ {r} :
            rotation[q] = NoRotation \/ rotation[q].endpoint \in Endpoint \ {x}
    BY <1>1, <2>1 DEF SecretInv, SecretType, RotatesRegistered, Exclusive
  <2>5. latest[x] \in Nat /\ latest[x] < MaxVersion
    BY <1>1, <2>1 DEF SecretInv, SecretType, VersionBound, RoomToRotate
  <2>6. \A y \in Endpoint : latest'[y] <= MaxVersion /\ active'[y] \subseteq 1..MaxVersion
    BY <1>1, <2>1, <2>2, <2>5 DEF SecretInv, SecretType, VersionBound
  <2>7. RoomToRotate'
    <3> SUFFICES ASSUME NEW q \in Rotation
                 PROVE  /\ rotation'[q].found \subseteq 1..MaxVersion
                        /\ \/ rotation'[q] = NoRotation
                           \/ latest'[rotation'[q].endpoint] < MaxVersion
      BY DEF RoomToRotate
    <3>1. CASE q = r
      BY <2>3, <3>1 DEF NoRotation
    <3>2. CASE q # r
      BY <1>1, <2>1, <2>2, <2>3, <2>4, <3>2 DEF SecretInv, SecretType, VersionBound, RoomToRotate
    <3> QED
      BY <3>1, <3>2
  <2> QED
    BY <2>6, <2>7 DEF VersionBound
<1>7. ASSUME NEW r \in Rotation, RotationFails(r) PROVE VersionBound'
  <2>1. rotation' = [rotation EXCEPT ![r] = NoRotation] /\ UNCHANGED <<latest, active>>
    BY <1>7 DEF RotationFails
  <2>2. \A q \in Rotation : rotation'[q] = IF q = r THEN NoRotation ELSE rotation[q]
    BY <1>1, <2>1 DEF SecretInv, SecretType
  <2>3. NoRotation.found = {}
    BY DEF NoRotation
  <2> QED
    BY <1>1, <2>1, <2>2, <2>3 DEF VersionBound, RoomToRotate
<1>8. ASSUME NEW w \in Dispatcher,
             \/ Dispatch(w) \/ PostUnreachable(w)
             \/ PostAnswerLost(w) \/ DispatcherDies(w)
      PROVE  UNCHANGED secrets
  BY <1>8 DEF Dispatch, StartBatch, Sign, PostAnswered, FinishBatch, PostUnreachable,
              PostAnswerLost, DispatcherDies
<1>9. ASSUME NEW e \in Event, EmitEvent(e) \/ HandleEvent(e) PROVE UNCHANGED secrets
  BY <1>9 DEF EmitEvent, HandleEvent
<1>10. ASSUME NEW s \in Subscribed, DelayPasses(s) \/ Replay(s) PROVE UNCHANGED secrets
  BY <1>10 DEF DelayPasses, Replay
<1>11. ASSUME NEW x \in Endpoint, NEW v, AddSecret(x, v) PROVE UNCHANGED secrets
  BY <1>11 DEF AddSecret
<1>12. CASE UNCHANGED vars
  BY <1>2, <1>12 DEF vars
<1> QED
  BY <1>2, <1>3, <1>4, <1>5, <1>6, <1>7, <1>8, <1>9, <1>10, <1>11, <1>12 DEF Next

(* One more attempt at a row that waits stays within the row's bound, and  *)
(* leaves it waiting only if another is left.                              *)
LEMMA AttemptWithin ==
    ASSUME NEW r \in DeliveryRow, NEW n \in Nat, NEW final,
           Within(r, n), r.status \in {"PENDING", "RETRY"}
    PROVE  Within(Succeeded(r), n) /\ Within(Failed(r, final), n)
<1>1. /\ r.attempts \in Nat /\ r.attempts + 1 <= MaxAttempts + n
      /\ MaxAttempts \in Nat
  BY DEF DeliveryRow, Within
<1>2. \A status : /\ After(r, status).status = status
                  /\ After(r, status).attempts = r.attempts + 1
  BY DEF After
<1>3. Within(Succeeded(r), n)
  BY <1>1, <1>2 DEF Succeeded, Within
<1>4. Within(Failed(r, final), n)
  <2>1. CASE final \/ Exhausted(r.attempts + 1)
    <3>1. Failed(r, final) = After(r, "DEAD_LETTER")
      BY <2>1 DEF Failed
    <3> QED
      BY <1>1, <1>2, <3>1 DEF Within
  <2>2. CASE ~ (final \/ Exhausted(r.attempts + 1))
    <3>1. Failed(r, final) = After(r, "RETRY")
      BY <2>2 DEF Failed
    <3>2. r.attempts + 1 < MaxAttempts
      BY <1>1, <2>2 DEF Exhausted
    <3> QED
      BY <1>1, <1>2, <3>1, <3>2 DEF Within
  <2> QED
    BY <2>1, <2>2
<1> QED
  BY <1>3, <1>4

LEMMA BatchIsFunction ==
    ASSUME DeliveryInv, NEW w \in Dispatcher, NEW b, batch' = [batch EXCEPT ![w] = b]
    PROVE  \A v \in Dispatcher : batch'[v] = IF v = w THEN b ELSE batch[v]
  BY DEF DeliveryInv, DeliveryType

LEMMA SettleWithin ==
    ASSUME TypeInv, NEW w \in Dispatcher, NEW taken, NEW r,
           batch[w].hand # NoDelivery, Settle(w, r, taken), row' = row, replays' = replays,
           \/ r = Succeeded(row[batch[w].hand])
           \/ \E final : r = Failed(row[batch[w].hand], final)
    PROVE  /\ AttemptsLeft'
           /\ \A v \in Dispatcher : RowsOf(batch'[v]) = RowsOf(batch[v])
           /\ \A v \in Dispatcher : batch'[v].version \in {0, batch[v].version}
<1> DEFINE h == batch[w].hand
           b == [todo |-> batch[w].todo, hand |-> NoDelivery, version |-> 0,
                 settled |-> [s \in DOMAIN batch[w].settled \cup {h} |->
                                 IF s = h THEN r ELSE batch[w].settled[s]],
                 taken |-> batch[w].taken \cup taken]
<1>1. DeliveryInv /\ AttemptsLeft /\ Sorted(batch[w])
  BY DEF TypeInv, DeliveryInv, AllSorted
<1>2. h \in Subscribed /\ h \in RowsOf(batch[w])
  BY <1>1 DEF Sorted, RowsOf
<1>3. row[h] \in DeliveryRow /\ row[h].status \in {"PENDING", "RETRY"} /\ replays[h] \in Nat
  BY <1>1, <1>2 DEF DeliveryInv, DeliveryType, LockedAwait, Awaiting
<1>4. Within(row[h], replays[h])
  <2>1. row[h] # Absent
    BY <1>3 DEF Absent
  <2> QED
    BY <1>1, <1>2, <2>1 DEF AttemptsLeft
<1>5. Within(r, replays[h])
  BY <1>3, <1>4, AttemptWithin
<1>6. /\ b.todo = batch[w].todo /\ b.hand = NoDelivery /\ b.version = 0
      /\ DOMAIN b.settled = DOMAIN batch[w].settled \cup {h}
      /\ b.settled[h] = r
      /\ \A s \in DOMAIN batch[w].settled \ {h} : b.settled[s] = batch[w].settled[s]
  OBVIOUS
<1>7. batch' = [batch EXCEPT ![w] = b]
  BY DEF Settle
<1> HIDE DEF b
<1>8. \A v \in Dispatcher : batch'[v] = IF v = w THEN b ELSE batch[v]
  BY <1>1, <1>7, BatchIsFunction
<1>9. RowsOf(b) = RowsOf(batch[w])
  BY <1>1, <1>2, <1>6, DeliveryAssumption DEF RowsOf
<1>10. AttemptsLeft'
  <2>1. \A s \in DOMAIN b.settled : Within(b.settled[s], replays[s])
    BY <1>1, <1>5, <1>6 DEF AttemptsLeft
  <2>2. \A v \in Dispatcher : \A s \in DOMAIN batch'[v].settled :
            Within(batch'[v].settled[s], replays[s])
    BY <1>1, <1>8, <2>1 DEF AttemptsLeft
  <2> QED
    BY <1>1, <2>2 DEF AttemptsLeft
<1> QED
  BY <1>6, <1>8, <1>9, <1>10

(* The settled rows of another batch are rows nobody else rewrites.        *)
LEMMA RewriteWithin ==
    ASSUME TypeInv, NEW s \in Subscribed, NEW r,
           row' = [row EXCEPT ![s] = r], Within(r, replays'[s]),
           replays' \in [Subscribed -> Nat],
           \A t \in Subscribed : replays[t] <= replays'[t],
           batch' = batch
    PROVE  AttemptsLeft'
<1>1. DeliveryInv /\ AttemptsLeft
  BY DEF TypeInv
<1>2. \A q, n, m : Within(q, n) /\ n <= m /\ n \in Nat /\ m \in Nat /\ q.attempts \in Nat
                     => Within(q, m)
  BY DEF Within
<1>3. \A t \in Subscribed : row'[t] = Absent \/ Within(row'[t], replays'[t])
  <2> SUFFICES ASSUME NEW t \in Subscribed, t # s
               PROVE  row[t] = Absent \/ Within(row[t], replays'[t])
    BY <1>1 DEF DeliveryInv, DeliveryType
  <2>1. row[t].attempts \in Nat /\ replays[t] \in Nat
    BY <1>1 DEF DeliveryInv, DeliveryType, DeliveryRow
  <2> QED
    BY <1>1, <1>2, <2>1 DEF AttemptsLeft
<1>4. \A w \in Dispatcher : \A t \in DOMAIN batch[w].settled :
          Within(batch[w].settled[t], replays'[t])
  <2> SUFFICES ASSUME NEW w \in Dispatcher, NEW t \in DOMAIN batch[w].settled
               PROVE  Within(batch[w].settled[t], replays'[t])
    OBVIOUS
  <2>1. t \in Subscribed /\ batch[w].settled[t] \in DeliveryRow
    BY <1>1 DEF DeliveryInv, AllSorted, Sorted
  <2>2. batch[w].settled[t].attempts \in Nat /\ replays[t] \in Nat
    BY <1>1, <2>1 DEF DeliveryInv, DeliveryType, DeliveryRow
  <2>3. Within(batch[w].settled[t], replays[t])
    BY <1>1 DEF AttemptsLeft
  <2> QED
    BY <1>2, <2>1, <2>2, <2>3
<1> QED
  BY <1>3, <1>4 DEF AttemptsLeft

LEMMA NextAttempts == TypeInv /\ [Next]_vars => AttemptsLeft'
<1> SUFFICES ASSUME TypeInv, [Next]_vars PROVE AttemptsLeft'
  OBVIOUS
<1>1. DeliveryInv /\ AttemptsLeft
  BY DEF TypeInv
<1>2. ASSUME UNCHANGED <<row, batch, replays>> PROVE AttemptsLeft'
  BY <1>1, <1>2 DEF AttemptsLeft
<1>3. ASSUME NEW e \in Event, HandleEvent(e) PROVE AttemptsLeft'
  <2>1. /\ row' = [s \in Subscribed |-> IF s[2] = e /\ s[1] \in registered
                                         THEN New ELSE row[s]]
        /\ UNCHANGED <<batch, replays>>
    BY <1>3 DEF HandleEvent
  <2>2. \A n \in Nat : Within(New, n)
    BY DEF Within, New
  <2>3. replays \in [Subscribed -> Nat]
    BY <1>1 DEF DeliveryInv, DeliveryType
  <2>4. \A s \in Subscribed : row'[s] = Absent \/ Within(row'[s], replays[s])
    <3> SUFFICES ASSUME NEW s \in Subscribed
                 PROVE  row'[s] = Absent \/ Within(row'[s], replays[s])
      OBVIOUS
    <3>1. row'[s] = New \/ row'[s] = row[s]
      BY <2>1
    <3>2. replays[s] \in Nat
      BY <2>3
    <3> QED
      BY <1>1, <2>2, <3>1, <3>2 DEF AttemptsLeft
  <2> QED
    BY <1>1, <2>1, <2>4 DEF AttemptsLeft
<1>4. ASSUME NEW w \in Dispatcher, NEW b, DOMAIN b.settled = {},
             batch' = [batch EXCEPT ![w] = b], row' = row, replays' = replays
      PROVE  AttemptsLeft'
  <2>1. \A v \in Dispatcher : batch'[v] = IF v = w THEN b ELSE batch[v]
    BY <1>1, <1>4, BatchIsFunction
  <2> QED
    BY <1>1, <1>4, <2>1 DEF AttemptsLeft
<1>5. DOMAIN NoBatch.settled = {}
  BY DEF NoBatch
<1>6. ASSUME NEW w \in Dispatcher, StartBatch(w) PROVE AttemptsLeft'
  <2>1. PICK T : batch' = [batch EXCEPT ![w] = [NoBatch EXCEPT !.todo = T]]
    BY <1>6 DEF StartBatch
  <2>2. DOMAIN [NoBatch EXCEPT !.todo = T].settled = {}
    BY DEF NoBatch
  <2>3. row' = row /\ replays' = replays
    BY <1>6 DEF StartBatch
  <2> QED
    BY <1>4, <2>1, <2>2, <2>3
<1>7. ASSUME NEW w \in Dispatcher, NEW s \in Subscribed, Sign(w, s) PROVE AttemptsLeft'
  <2>1. PICK v : batch' = [batch EXCEPT ![w] =
                    [todo |-> batch[w].todo \ {s}, hand |-> s, version |-> v,
                     settled |-> batch[w].settled, taken |-> batch[w].taken]]
    BY <1>7 DEF Sign
  <2>2. \A u \in Dispatcher : batch'[u].settled = batch[u].settled
    BY <1>1, <2>1, BatchIsFunction
  <2>3. row' = row /\ replays' = replays
    BY <1>7 DEF Sign
  <2> QED
    BY <1>1, <2>2, <2>3 DEF AttemptsLeft
<1>8. ASSUME NEW w \in Dispatcher,
             PostAnswered(w) \/ PostUnreachable(w) \/ PostAnswerLost(w)
      PROVE  AttemptsLeft'
  <2> DEFINE s == batch[w].hand
  <2>1. s # NoDelivery /\ row' = row /\ replays' = replays
    BY <1>8 DEF PostAnswered, PostUnreachable, PostAnswerLost, events
  <2>2. PICK r, taken : /\ Settle(w, r, taken)
                        /\ r = Succeeded(row[s]) \/ \E final : r = Failed(row[s], final)
    <3>1. CASE PostAnswered(w)
      <4> DEFINE v == batch[w].version
                 r == IF Code(s, v) = 200 THEN Succeeded(row[s])
                                          ELSE Failed(row[s], Code(s, v) < 500)
                 taken == IF Takes(s, v) THEN {s} ELSE {}
      <4>1. Settle(w, r, taken)
        BY <3>1 DEF PostAnswered
      <4>2. r = Succeeded(row[s]) \/ \E final : r = Failed(row[s], final)
        OBVIOUS
      <4> QED
        BY <4>1, <4>2
    <3>2. CASE PostUnreachable(w)
      BY <3>2 DEF PostUnreachable
    <3>3. CASE PostAnswerLost(w)
      BY <3>3 DEF PostAnswerLost
    <3> QED
      BY <1>8, <3>1, <3>2, <3>3
  <2> QED
    BY <2>1, <2>2, SettleWithin
<1>9. ASSUME NEW w \in Dispatcher, FinishBatch(w) PROVE AttemptsLeft'
  <2> DEFINE settled == batch[w].settled
  <2>1. /\ row' = [s \in Subscribed |-> IF s \in DOMAIN settled THEN settled[s] ELSE row[s]]
        /\ batch' = [batch EXCEPT ![w] = NoBatch]
        /\ replays' = replays
    BY <1>9 DEF FinishBatch
  <2>2. \A v \in Dispatcher : batch'[v] = IF v = w THEN NoBatch ELSE batch[v]
    BY <1>1, <2>1, BatchIsFunction
  <2>3. \A s \in DOMAIN settled : Within(settled[s], replays[s])
    BY <1>1 DEF AttemptsLeft
  <2>4. \A s \in Subscribed : row'[s] = Absent \/ Within(row'[s], replays[s])
    BY <1>1, <2>1, <2>3 DEF AttemptsLeft
  <2> QED
    BY <1>1, <1>5, <2>1, <2>2, <2>4 DEF AttemptsLeft
<1>10. ASSUME NEW w \in Dispatcher, DispatcherDies(w) PROVE AttemptsLeft'
  <2>1. batch' = [batch EXCEPT ![w] = NoBatch] /\ row' = row /\ replays' = replays
    BY <1>10 DEF DispatcherDies
  <2> QED
    BY <1>4, <1>5, <2>1
<1>11. ASSUME NEW s \in Subscribed, DelayPasses(s) \/ Replay(s) PROVE AttemptsLeft'
  <2> DEFINE old == row[s]
  <2>1. /\ old \in DeliveryRow /\ old.attempts \in Nat
        /\ old.status # "ABSENT"
        /\ replays \in [Subscribed -> Nat] /\ MaxAttempts \in Nat
        /\ batch' = batch
    BY <1>1, <1>11 DEF DelayPasses, Replay, DeliveryInv, DeliveryType, DeliveryRow
  <2>2. Within(old, replays[s])
    <3>1. old # Absent
      BY <2>1 DEF Absent
    <3> QED
      BY <1>1, <3>1 DEF AttemptsLeft
  <2>3. CASE DelayPasses(s)
    <3> DEFINE r == [status |-> "RETRY", attempts |-> old.attempts, due |-> TRUE]
    <3>1. row' = [row EXCEPT ![s] = r] /\ replays' = replays /\ old.status = "RETRY"
      BY <2>3 DEF DelayPasses, DueAgain
    <3>2. Within(r, replays'[s])
      BY <2>2, <3>1 DEF Within
    <3> HIDE DEF r
    <3>3. \A t \in Subscribed : replays[t] <= replays'[t]
      BY <2>1, <3>1
    <3> QED
      BY <2>1, <3>1, <3>2, <3>3, RewriteWithin
  <2>4. CASE Replay(s)
    <3> DEFINE r == [status |-> "PENDING", attempts |-> old.attempts, due |-> TRUE]
    <3>1. row' = [row EXCEPT ![s] = r] /\ replays' = [replays EXCEPT ![s] = @ + 1]
      BY <2>4 DEF Replay, DueAgain
    <3>2. /\ replays'[s] = replays[s] + 1 /\ replays' \in [Subscribed -> Nat]
          /\ \A t \in Subscribed : replays[t] <= replays'[t]
      BY <2>1, <3>1
    <3>3. replays[s] \in Nat
      BY <2>1
    <3>4. Within(r, replays'[s])
      BY <2>1, <2>2, <3>2, <3>3 DEF Within
    <3> HIDE DEF r
    <3> QED
      BY <2>1, <3>1, <3>2, <3>4, RewriteWithin
  <2> QED
    BY <1>11, <2>3, <2>4
<1>12. ASSUME NEW r \in Rotation,
              \/ SelectActive(r) \/ LockActive(r) \/ CommitRotation(r) \/ RotationFails(r)
       PROVE  UNCHANGED <<row, batch, replays>>
  BY <1>12 DEF SelectActive, LockActive, CommitRotation, RotationFails
<1>13. ASSUME NEW x \in Endpoint, NEW v,
              \/ RegisterWebhook(x, v) \/ LockEndpoint(v, x) \/ AddSecret(x, v)
       PROVE  UNCHANGED <<row, batch, replays>>
  BY <1>13 DEF RegisterWebhook, LockEndpoint, AddSecret
<1>14. ASSUME NEW e \in Event, EmitEvent(e) PROVE UNCHANGED <<row, batch, replays>>
  BY <1>14 DEF EmitEvent
<1>15. CASE UNCHANGED vars
  BY <1>2, <1>15 DEF vars
<1> QED
  BY <1>2, <1>3, <1>6, <1>7, <1>8, <1>9, <1>10, <1>11, <1>12, <1>13, <1>14, <1>15
     DEF Next, Dispatch

(* A batch keeps the rows it began with until it ends.                     *)
LEMMA NextBatches == TypeInv /\ [Next]_vars => BatchBound'
<1> SUFFICES ASSUME TypeInv, [Next]_vars PROVE BatchBound'
  OBVIOUS
<1>1. DeliveryInv /\ BatchBound
  BY DEF TypeInv
<1>2. ASSUME UNCHANGED batch PROVE BatchBound'
  BY <1>1, <1>2 DEF BatchBound, RowsOf
<1>3. ASSUME NEW w \in Dispatcher, NEW b, batch' = [batch EXCEPT ![w] = b],
             Cardinality(RowsOf(b)) <= BatchLimit, b.version \in 0..MaxVersion
      PROVE  BatchBound'
  <2>1. \A v \in Dispatcher : batch'[v] = IF v = w THEN b ELSE batch[v]
    BY <1>1, <1>3, BatchIsFunction
  <2> QED
    BY <1>1, <1>3, <2>1 DEF BatchBound
<1>4. NoBatch.version = 0 /\ RowsOf(NoBatch) = {} /\ Cardinality({}) = 0
  BY FS_EmptySet DEF NoBatch, RowsOf
<1>5. ASSUME NEW w \in Dispatcher, StartBatch(w) PROVE BatchBound'
  <2>1. PICK T : /\ T \subseteq Free /\ Cardinality(T) <= BatchLimit
                 /\ batch' = [batch EXCEPT ![w] = [NoBatch EXCEPT !.todo = T]]
    BY <1>5 DEF StartBatch
  <2> DEFINE b == [NoBatch EXCEPT !.todo = T]
  <2>2. RowsOf(b) = T /\ b.version = 0
    BY DEF RowsOf, NoBatch
  <2> HIDE DEF b
  <2>3. batch' = [batch EXCEPT ![w] = b] /\ 0 \in 0..MaxVersion
    BY <2>1 DEF b
  <2> QED
    BY <1>3, <2>1, <2>2, <2>3
<1>6. ASSUME NEW w \in Dispatcher, NEW s \in Subscribed, Sign(w, s) PROVE BatchBound'
  <2>1. PICK v \in active[s[1]] : batch' = [batch EXCEPT ![w] =
                    [todo |-> batch[w].todo \ {s}, hand |-> s, version |-> v,
                     settled |-> batch[w].settled, taken |-> batch[w].taken]]
    BY <1>6 DEF Sign, SigningSecrets
  <2> DEFINE b == [todo |-> batch[w].todo \ {s}, hand |-> s, version |-> v,
                   settled |-> batch[w].settled, taken |-> batch[w].taken]
  <2>2. batch[w].hand = NoDelivery /\ s \in batch[w].todo
    BY <1>6 DEF Sign
  <2>3. RowsOf(b) = RowsOf(batch[w]) /\ b.version = v
    BY <2>2, DeliveryAssumption DEF RowsOf
  <2>4. s[1] \in Endpoint
    BY DeliveryAssumption
  <2>5. v \in 0..MaxVersion
    BY <2>4 DEF TypeInv, VersionBound
  <2>6. batch' = [batch EXCEPT ![w] = b]
    BY <2>1
  <2>7. Cardinality(RowsOf(b)) <= BatchLimit
    BY <1>1, <2>3 DEF BatchBound
  <2> HIDE DEF b
  <2> QED
    BY <1>3, <2>3, <2>5, <2>6, <2>7
<1>7. ASSUME NEW w \in Dispatcher,
             PostAnswered(w) \/ PostUnreachable(w) \/ PostAnswerLost(w)
      PROVE  BatchBound'
  <2>1. batch[w].hand # NoDelivery /\ \E r, taken : Settle(w, r, taken)
    <3>1. CASE PostAnswered(w)
      BY <3>1 DEF PostAnswered
    <3>2. CASE PostUnreachable(w) \/ PostAnswerLost(w)
      BY <3>2 DEF PostUnreachable, PostAnswerLost
    <3> QED
      BY <1>7, <3>1, <3>2
  <2>2. PICK r, taken : Settle(w, r, taken)
    BY <2>1
  <2> DEFINE h == batch[w].hand
             b == [todo |-> batch[w].todo, hand |-> NoDelivery, version |-> 0,
                   settled |-> [s \in DOMAIN batch[w].settled \cup {h} |->
                                   IF s = h THEN r ELSE batch[w].settled[s]],
                   taken |-> batch[w].taken \cup taken]
  <2>3. batch' = [batch EXCEPT ![w] = b]
    BY <2>2 DEF Settle
  <2>4. RowsOf(b) = RowsOf(batch[w]) /\ b.version = 0
    BY <2>1 DEF RowsOf
  <2>5. Cardinality(RowsOf(b)) <= BatchLimit /\ 0 \in 0..MaxVersion
    BY <1>1, <2>4 DEF BatchBound
  <2> HIDE DEF b
  <2> QED
    BY <1>3, <2>3, <2>4, <2>5
<1>8. ASSUME NEW w \in Dispatcher, FinishBatch(w) \/ DispatcherDies(w) PROVE BatchBound'
  <2>1. batch' = [batch EXCEPT ![w] = NoBatch]
    BY <1>8 DEF FinishBatch, DispatcherDies
  <2>2. Cardinality(RowsOf(NoBatch)) <= BatchLimit /\ NoBatch.version \in 0..MaxVersion
    BY <1>4
  <2> QED
    BY <1>3, <2>1, <2>2
<1> QED
  BY <1>2, <1>5, <1>6, <1>7, <1>8
     DEF Next, Dispatch, EmitEvent, HandleEvent, RegisterWebhook, LockEndpoint,
         AddSecret, SelectActive, LockActive, CommitRotation, RotationFails,
         DelayPasses, Replay, vars

LEMMA NextReceiver == TypeInv /\ [Next]_vars => ReceiverType'
<1> SUFFICES ASSUME TypeInv, [Next]_vars PROVE ReceiverType'
  OBVIOUS
<1>1. ASSUME UNCHANGED <<trusted, hits>> PROVE ReceiverType'
  BY <1>1 DEF TypeInv, ReceiverType
<1>2. ASSUME NEW x \in Endpoint, NEW v \in 1..MaxVersion, AddSecret(x, v)
      PROVE  ReceiverType'
  BY <1>2 DEF AddSecret, TypeInv, ReceiverType
<1>3. ASSUME NEW w \in Dispatcher, PostAnswered(w) \/ PostAnswerLost(w)
      PROVE  ReceiverType'
  <2>1. Receive(batch[w].hand, batch[w].version)
    BY <1>3 DEF PostAnswered, PostAnswerLost
  <2> DEFINE x == batch[w].hand[1]
             counts == /\ url[x] = "fail-then-ok"
                       /\ Valid(batch[w].hand, batch[w].version)
                       /\ hits[x] < Failures
             n == IF counts THEN hits[x] + 1 ELSE hits[x]
  <2>2. /\ hits' = [hits EXCEPT ![x] = n]
        /\ trusted' = trusted
    BY <2>1 DEF Receive
  <2>3. x \in Endpoint => n \in 0..Failures
    BY DEF TypeInv, ReceiverType
  <2> HIDE DEF n
  <2> QED
    BY <2>2, <2>3 DEF TypeInv, ReceiverType
<1> QED
  BY <1>1, <1>2, <1>3
     DEF Next, Dispatch, EmitEvent, HandleEvent, RegisterWebhook, LockEndpoint,
         SelectActive, LockActive, CommitRotation, RotationFails, StartBatch,
         Sign, FinishBatch, PostUnreachable, DispatcherDies, DelayPasses,
         Replay, receiver, vars

LEMMA NextCounters == TypeInv /\ [Next]_vars => CounterBound'
<1> SUFFICES ASSUME TypeInv, [Next]_vars PROVE CounterBound'
  OBVIOUS
<1>1. ASSUME UNCHANGED replays, faults' = faults \/ Fault PROVE CounterBound'
  BY <1>1 DEF Fault, TypeInv, CounterBound
<1>2. ASSUME NEW s \in Subscribed, Replay(s) PROVE CounterBound'
  BY <1>2 DEF Replay, TypeInv, CounterBound, DeliveryInv, DeliveryType
<1>3. ASSUME NEW w \in Dispatcher,
             \/ Dispatch(w) \/ PostUnreachable(w)
             \/ PostAnswerLost(w) \/ DispatcherDies(w)
      PROVE  UNCHANGED replays /\ (faults' = faults \/ Fault)
  BY <1>3 DEF Dispatch, StartBatch, Sign, PostAnswered, FinishBatch,
              PostUnreachable, PostAnswerLost, DispatcherDies
<1> QED
  BY <1>1, <1>2, <1>3
     DEF Next, EmitEvent, HandleEvent, RegisterWebhook, LockEndpoint, AddSecret,
         SelectActive, LockActive, CommitRotation, RotationFails, DelayPasses, vars

LEMMA NextTypes == TypeInv /\ [Next]_vars => TypeInv'
  BY NextSecret, NextDelivery, NextEvents, NextVersions, NextAttempts,
     NextBatches, NextReceiver, NextCounters DEF TypeInv

LEMMA TypesFollow == TypeInv => TypeOK
<1> SUFFICES ASSUME TypeInv PROVE TypeOK
  OBVIOUS
<1>1. SecretType /\ DeliveryInv
  BY DEF TypeInv, SecretInv
<1>2. EventType /\ VersionBound /\ ReceiverType /\ CounterBound
  BY DEF TypeInv
<1>3. /\ latest \in [Endpoint -> 0..MaxVersion]
      /\ active \in [Endpoint -> SUBSET (1..MaxVersion)]
  BY <1>1, <1>2 DEF SecretType, VersionBound
<1>4. rotation \in [Rotation -> [pc : {"none", "select", "lock", "insert"},
                                 endpoint : Endpoint \cup {NoEndpoint},
                                 found : SUBSET (1..MaxVersion)]]
  BY <1>1, <1>2 DEF SecretType, VersionBound, RoomToRotate
<1>5. ASSUME NEW s \in Subscribed, row[s] # Absent
      PROVE  row[s] \in [status : {"PENDING", "RETRY", "SUCCEEDED", "DEAD_LETTER"},
                         attempts : 0..MaxAttempts + replays[s], due : BOOLEAN]
  <2>1. row[s] \in DeliveryRow /\ Within(row[s], replays[s]) /\ replays[s] \in Nat
    BY <1>1, <1>5 DEF TypeInv, AttemptsLeft, DeliveryInv, DeliveryType
  <2> QED
    BY <2>1 DEF DeliveryRow, Within
<1>6. \A w \in Dispatcher :
          /\ Rows(w) \subseteq Subscribed
          /\ Cardinality(Rows(w)) <= BatchLimit
          /\ batch[w].version \in 0..MaxVersion
          /\ batch[w].taken \subseteq DOMAIN batch[w].settled
  <2> SUFFICES ASSUME NEW w \in Dispatcher
               PROVE  /\ Rows(w) \subseteq Subscribed
                      /\ Cardinality(Rows(w)) <= BatchLimit
                      /\ batch[w].version \in 0..MaxVersion
                      /\ batch[w].taken \subseteq DOMAIN batch[w].settled
    OBVIOUS
  <2>1. Rows(w) = RowsOf(batch[w]) /\ Sorted(batch[w])
    BY <1>1 DEF Rows, RowsOf, DeliveryInv, AllSorted
  <2> QED
    BY <2>1 DEF TypeInv, BatchBound, Sorted, RowsOf
<1>7. /\ accepted \in [Subscribed -> Nat] /\ unrecorded \in [Subscribed -> Nat]
      /\ replays \in [Subscribed -> 0..MaxReplays]
  BY <1>1, <1>2 DEF DeliveryInv, DeliveryType, CounterBound
<1> QED
  BY <1>2, <1>3, <1>4, <1>5, <1>6, <1>7 DEF TypeOK, EventType, ReceiverType, CounterBound

(* webhook_dispatcher.py and main.py: in particular a batch never has more *)
(* rows than its limit, and no delivery is attempted more often than       *)
(* webhook_max_attempts and its replays allow.                             *)
THEOREM WebhookTypes == Spec => []TypeOK
  BY InitTypes, NextTypes, TypesFollow, PTL DEF Spec

-----------------------------------------------------------------------------
(* Delivery side and event path fit together: they share emitted, handled  *)
(* and registered, and the dispatchers neither add a row nor drop one.     *)

(* The rows that exist, of which alone EventEffects knows.                 *)
LEMMA RowExists ==
    TypeInv => \A s \in Subscribed : row[s] = Absent <=> row[s].status = "ABSENT"
  BY DEF TypeInv, AttemptsLeft, Within, Absent

LEMMA SameRows ==
    ASSUME TypeInv, TypeInv', UNCHANGED <<emitted, handled, registered>>,
           \A s \in Subscribed : row'[s].status = "ABSENT" <=> row[s].status = "ABSENT"
    PROVE  UNCHANGED Effects!effectVars
<1>1. TypeInv' => (\A s \in Subscribed : row[s] = Absent <=> row[s].status = "ABSENT")'
  BY RowExists, PTL
<1> QED
  BY <1>1, RowExists DEF Effects!effectVars

LEMMA AwaitingIsThere ==
    ASSUME TypeInv, NEW s \in Subscribed, NEW status \in {"PENDING", "RETRY"},
           row[s].status # "ABSENT", DueAgain(s, status)
    PROVE  \A t \in Subscribed : row'[t].status = "ABSENT" <=> row[t].status = "ABSENT"
  BY DEF DueAgain, TypeInv, DeliveryInv, DeliveryType

LEMMA DeliveryStep == TypeInv /\ [Next]_vars => [Effects!Next]_(Effects!effectVars)
<1> SUFFICES ASSUME TypeInv, [Next]_vars PROVE [Effects!Next]_(Effects!effectVars)
  OBVIOUS
<1>1. TypeInv'
  BY NextTypes
<1>2. ASSUME UNCHANGED <<emitted, handled, registered, row>>
      PROVE  UNCHANGED Effects!effectVars
  BY <1>2 DEF Effects!effectVars
<1>3. ASSUME NEW e \in Event, EmitEvent(e) PROVE Effects!Next
  BY <1>3 DEF EmitEvent, Effects!Next
<1>4. ASSUME NEW e \in Event, HandleEvent(e) PROVE Effects!Next
  BY <1>4 DEF HandleEvent, Effects!Next
<1>5. ASSUME NEW x \in Endpoint, NEW u, RegisterWebhook(x, u) PROVE Effects!Next
  BY <1>5 DEF RegisterWebhook, Effects!Next
<1>6. ASSUME NEW x \in Endpoint, NEW r, LockEndpoint(r, x) \/ AddSecret(x, r)
      PROVE  UNCHANGED Effects!effectVars
  BY <1>2, <1>6 DEF LockEndpoint, AddSecret, events
<1>7. ASSUME NEW r \in Rotation,
             \/ SelectActive(r) \/ LockActive(r) \/ CommitRotation(r) \/ RotationFails(r)
      PROVE  UNCHANGED Effects!effectVars
  BY <1>2, <1>7 DEF SelectActive, LockActive, CommitRotation, RotationFails, events
<1>8. ASSUME NEW w \in Dispatcher, NEW s \in Subscribed, Sign(w, s)
      PROVE  UNCHANGED Effects!effectVars
  BY <1>2, <1>8 DEF Sign, events
<1>9. ASSUME NEW w \in Dispatcher,
             \/ StartBatch(w) \/ PostAnswered(w)
             \/ PostUnreachable(w) \/ PostAnswerLost(w) \/ DispatcherDies(w)
      PROVE  UNCHANGED Effects!effectVars
  BY <1>2, <1>9 DEF StartBatch, PostAnswered, PostUnreachable, PostAnswerLost,
                    DispatcherDies, events
<1>10. ASSUME NEW w \in Dispatcher, FinishBatch(w)
       PROVE  UNCHANGED Effects!effectVars
  <2>1. \A s \in DOMAIN batch[w].settled :
           /\ s \in Subscribed /\ row[s].status # "ABSENT"
           /\ batch[w].settled[s].status # "ABSENT"
    BY DEF TypeInv, DeliveryInv, AllSorted, Sorted, LockedAwait, Awaiting, RowsOf,
           AttemptsLeft, Within
  <2>2. \A s \in Subscribed : row'[s].status = "ABSENT" <=> row[s].status = "ABSENT"
    BY <1>10, <2>1 DEF FinishBatch
  <2> QED
    BY <1>1, <1>10, <2>2, SameRows DEF FinishBatch, events
<1>11. ASSUME NEW s \in Subscribed, DelayPasses(s) \/ Replay(s)
       PROVE  UNCHANGED Effects!effectVars
  <2>1. \A t \in Subscribed : row'[t].status = "ABSENT" <=> row[t].status = "ABSENT"
    BY <1>11, AwaitingIsThere DEF DelayPasses, Replay
  <2> QED
    BY <1>1, <1>11, <2>1, SameRows DEF DelayPasses, Replay, events
<1>12. CASE UNCHANGED vars
  BY <1>2, <1>12 DEF vars, events
<1> QED
  BY <1>3, <1>4, <1>5, <1>6, <1>7, <1>8, <1>9, <1>10, <1>11, <1>12 DEF Next, Dispatch

(* webhook_dispatcher.py and the replay route only rewrite rows that exist:*)
(* seen from the event path, every step of theirs is a stutter, so that    *)
(* dispatch may be built on what EventPipeline is proved to implement.     *)
THEOREM DeliveryKeepsPromise == Spec => Effects!Spec
<1>1. Init => Effects!Init
  BY DEF Init
<1> QED
  BY <1>1, InitTypes, NextTypes, DeliveryStep, PTL DEF Spec, Effects!Spec
-----------------------------------------------------------------------------
(* What dispatch and rotation may rely on.                                 *)

(* active_webhook_secret, service.py: whichever rotations are in progress, *)
(* for every row of a batch there is a secret to sign with, the endpoint's *)
(* latest, so that signing never raises and never rolls a batch back.      *)
SigningFindsSecret ==
    \A w \in Dispatcher : \A s \in Rows(w) :
        s[1] \in registered /\ SigningSecrets(s[1]) = {latest[s[1]]}

(* rotate_webhook_secret: a rotation retires exactly the latest secret, and *)
(* never waits for the row of another one, since who has that row is the   *)
(* rotation that has the endpoint.                                         *)
RotationRetiresLatest ==
    \A r \in Rotation :
        /\ rotation[r].pc = "insert" =>
              rotation[r].found = {latest[rotation[r].endpoint]}
        /\ \A q \in Rotation :
              rotation[r].pc = "lock" /\ rotation[q].pc = "insert"
                  => rotation[q].endpoint # rotation[r].endpoint

THEOREM RotationsRetireLatest == Spec => []RotationRetiresLatest
<1>1. SecretInv => RotationRetiresLatest
  <2> SUFFICES ASSUME SecretInv, NEW r \in Rotation, rotation[r].pc \in {"lock", "insert"}
               PROVE  /\ rotation[r].found = {latest[rotation[r].endpoint]}
                      /\ \A q \in Rotation :
                            rotation[r].pc = "lock" /\ rotation[q].pc = "insert"
                                => rotation[q].endpoint # rotation[r].endpoint
    BY DEF RotationRetiresLatest
  <2>1. rotation[r].endpoint \in registered /\ rotation[r].endpoint # NoEndpoint
    BY DEF SecretInv, SecretType, RotatesRegistered, NoRotation
  <2>2. rotation[r].found = {latest[rotation[r].endpoint]}
    BY <2>1 DEF SecretInv, FoundIsActive, OneActiveSecret
  <2>3. \A q \in Rotation : rotation[q].endpoint = rotation[r].endpoint => q = r
    BY <2>1 DEF SecretInv, Exclusive
  <2> QED
    BY <2>2, <2>3
<1> QED
  BY <1>1, InitSecret, NextSecret, PTL DEF Spec

(* Only registered endpoints get rows: a consequence of the promise.       *)
RowsRegistered == \A s \in Subscribed : row[s] # Absent => s[1] \in registered

LEMMA RegisteredStep ==
    TypeInv /\ RowsRegistered /\ [Next]_vars => RowsRegistered'
<1> SUFFICES ASSUME TypeInv, RowsRegistered, [Next]_vars, NEW s \in Subscribed,
                    row'[s] # Absent
             PROVE  s[1] \in registered'
  BY DEF RowsRegistered
<1> DEFINE n(r) == IF r = Absent THEN 0 ELSE 1
           R == [t \in Subscribed |-> n(row[t])]
<1>1. R[s] = n(row[s]) /\ R'[s] = 1 /\ (row[s] # Absent => s[1] \in registered)
  BY DEF RowsRegistered
<1> HIDE DEF R
<1>2. CASE UNCHANGED <<registered, R>>
  BY <1>1, <1>2
<1>3. CASE Effects!Next
  <2>1. CASE \E e \in Event : Effects!Emit(e)
    BY <1>2, <2>1 DEF Effects!Emit, R
  <2>2. CASE \E e \in Event : Effects!Handle(e)
    <3>1. PICK e \in Event : Effects!Handle(e)
      BY <2>2
    <3>2. /\ registered' = registered
          /\ R'[s] = R[s] + (IF s[2] = e /\ s[1] \in registered THEN 1 ELSE 0)
      BY <3>1 DEF Effects!Handle, R
    <3> QED
      BY <1>1, <3>2
  <2>3. CASE \E x \in Endpoint : Effects!RegisterEndpoint(x)
    <3>1. registered \subseteq registered' /\ R' = R
      BY <2>3 DEF Effects!RegisterEndpoint, R
    <3> QED
      BY <1>1, <3>1
  <2> QED
    BY <1>3, <2>1, <2>2, <2>3 DEF Effects!Next
<1> QED
  BY <1>2, <1>3, DeliveryStep DEF Effects!effectVars, R

(* dispatch_once: signing never fails for want of a secret.                *)
THEOREM SigningNeverRaises == Spec => []SigningFindsSecret
<1>1. TypeInv /\ RowsRegistered => SigningFindsSecret
  <2> SUFFICES ASSUME TypeInv, RowsRegistered, NEW w \in Dispatcher, NEW s \in Rows(w)
               PROVE  s[1] \in registered /\ SigningSecrets(s[1]) = {latest[s[1]]}
    BY DEF SigningFindsSecret
  <2>1. s \in RowsOf(batch[w]) /\ s \in Subscribed
    BY DEF Rows, RowsOf, TypeInv, DeliveryInv, AllSorted, Sorted
  <2>2. row[s] # Absent
    BY <2>1 DEF TypeInv, DeliveryInv, LockedAwait, Awaiting, Absent
  <2> QED
    BY <2>1, <2>2 DEF RowsRegistered, SigningSecrets, TypeInv, SecretInv, OneActiveSecret
<1>2. Init => RowsRegistered
  BY DEF Init, RowsRegistered
<1> QED
  BY <1>1, <1>2, InitTypes, NextTypes, RegisteredStep, PTL DEF Spec

-----------------------------------------------------------------------------
(* What becomes of a row.                                                  *)

(* How a step changes a row: the event path adds it, a batch that commits  *)
(* writes what it settled, or it becomes due again.                        *)
Again(s, status) == [status |-> status, attempts |-> row[s].attempts, due |-> TRUE]

LEMMA RowStep ==
    ASSUME TypeInv, [Next]_vars, NEW s \in Subscribed
    PROVE  \/ row'[s] = row[s]
           \/ row[s].status = "ABSENT" /\ row'[s] = New
           \/ \E w \in Dispatcher : /\ FinishBatch(w) /\ s \in DOMAIN batch[w].settled
                                    /\ row'[s] = batch[w].settled[s]
           \/ row[s].status = "RETRY" /\ row'[s] = Again(s, "RETRY")
           \/ /\ row'[s] = Again(s, "PENDING") /\ row[s].status # "ABSENT"
              /\ replays'[s] = replays[s] + 1
<1>1. /\ row = [t \in Subscribed |-> row[t]]
      /\ replays = [t \in Subscribed |-> replays[t]]
  BY DEF TypeInv, DeliveryInv, DeliveryType
<1>2. CASE \E e \in Event : HandleEvent(e)
  <2>1. PICK e \in Event : HandleEvent(e)
    BY <1>2
  <2>2. /\ e \notin handled
        /\ row' = [t \in Subscribed |-> IF t[2] = e /\ t[1] \in registered
                                         THEN New ELSE row[t]]
    BY <2>1 DEF HandleEvent, Effects!Handle
  <2>3. s[2] = e => row[s].status = "ABSENT"
    BY <2>2 DEF TypeInv, DeliveryInv, RowsHandled
  <2> QED
    BY <2>2, <2>3
<1>3. CASE \E w \in Dispatcher : FinishBatch(w)
  <2>1. PICK w \in Dispatcher : FinishBatch(w)
    BY <1>3
  <2>2. row'[s] = IF s \in DOMAIN batch[w].settled THEN batch[w].settled[s] ELSE row[s]
    BY <2>1 DEF FinishBatch
  <2> QED
    BY <2>1, <2>2
<1>4. CASE \E t \in Subscribed : DelayPasses(t)
  <2>1. PICK t \in Subscribed : DelayPasses(t)
    BY <1>4
  <2>2. row[t].status = "RETRY" /\ row' = [row EXCEPT ![t] = Again(t, "RETRY")]
    BY <2>1 DEF DelayPasses, DueAgain, Again
  <2> QED
    BY <1>1, <2>2
<1>5. CASE \E t \in Subscribed : Replay(t)
  <2>1. PICK t \in Subscribed : Replay(t)
    BY <1>5
  <2>2. /\ row[t].status # "ABSENT" /\ row' = [row EXCEPT ![t] = Again(t, "PENDING")]
        /\ replays' = [replays EXCEPT ![t] = @ + 1]
    BY <2>1 DEF Replay, DueAgain, Again
  <2> QED
    BY <1>1, <2>2
<1>6. CASE row' = row
  BY <1>6
<1>7. \/ row' = row
      \/ \E e \in Event : HandleEvent(e)
      \/ \E w \in Dispatcher : FinishBatch(w)
      \/ \E t \in Subscribed : DelayPasses(t) \/ Replay(t)
  BY DEF Next, EmitEvent, RegisterWebhook, LockEndpoint, AddSecret, SelectActive,
         LockActive, CommitRotation, RotationFails, Dispatch, StartBatch, Sign,
         PostAnswered, PostUnreachable, PostAnswerLost, DispatcherDies, vars
<1> QED
  BY <1>2, <1>3, <1>4, <1>5, <1>6, <1>7

(* What a batch has settled is its row after one more attempt.             *)
SettledAhead ==
    \A w \in Dispatcher : \A s \in DOMAIN batch[w].settled :
        batch[w].settled[s].attempts = row[s].attempts + 1

(* A settled row was settled before, or is the one in hand.                *)
LEMMA SettledStep ==
    ASSUME TypeInv, [Next]_vars, NEW w \in Dispatcher, NEW s \in DOMAIN batch'[w].settled
    PROVE  \/ /\ s \in DOMAIN batch[w].settled /\ ~ FinishBatch(w)
              /\ batch'[w].settled[s] = batch[w].settled[s]
           \/ /\ row' = row
              /\ batch'[w].settled[s].attempts = row[s].attempts + 1
<1>0. DeliveryInv
  BY DEF TypeInv
<1>1. DOMAIN NoBatch.settled = {} /\ \A T : DOMAIN [NoBatch EXCEPT !.todo = T].settled = {}
  BY DEF NoBatch
<1>2. ASSUME NEW v \in Dispatcher, StartBatch(v) \/ FinishBatch(v) \/ DispatcherDies(v)
      PROVE  /\ w # v /\ batch'[w] = batch[w]
             /\ FinishBatch(w) => w = v
  <2>1. PICK b : batch' = [batch EXCEPT ![v] = b] /\ DOMAIN b.settled = {}
    BY <1>1, <1>2 DEF StartBatch, FinishBatch, DispatcherDies
  <2>0. batch' = [batch EXCEPT ![v] = b]
    BY <2>1
  <2>2. \A u \in Dispatcher : batch'[u] = IF u = v THEN b ELSE batch[u]
    BY <1>0, <2>0, BatchIsFunction
  <2>3. w # v /\ batch'[w] = batch[w]
    BY <2>1, <2>2
  <2>4. FinishBatch(w) => batch'[w] = NoBatch
    <3>1. FinishBatch(w) => batch' = [batch EXCEPT ![w] = NoBatch]
      BY DEF FinishBatch
    <3> QED
      BY <1>0, <3>1, BatchIsFunction
  <2> QED
    BY <1>1, <2>3, <2>4
<1>3. ASSUME NEW v \in Dispatcher, NEW t \in Subscribed, Sign(v, t)
      PROVE  /\ DOMAIN batch'[w].settled = DOMAIN batch[w].settled
             /\ batch'[w].settled = batch[w].settled /\ row' = row
  <2>1. PICK b : batch' = [batch EXCEPT ![v] = b] /\ b.settled = batch[v].settled
    BY <1>3 DEF Sign
  <2>2. row' = row
    BY <1>3 DEF Sign
  <2> QED
    BY <1>0, <2>1, <2>2, BatchIsFunction
<1>4. ASSUME NEW v \in Dispatcher,
             PostAnswered(v) \/ PostUnreachable(v) \/ PostAnswerLost(v)
      PROVE  /\ row' = row
             /\ \/ s \in DOMAIN batch[w].settled
                   /\ batch'[w].settled[s] = batch[w].settled[s]
                \/ batch'[w].settled[s].attempts = row[s].attempts + 1
  <2> DEFINE h == batch[v].hand
  <2>1. row' = row
    BY <1>4 DEF PostAnswered, PostUnreachable, PostAnswerLost
  <2>2. PICK r, taken : /\ Settle(v, r, taken)
                        /\ \E status : r = After(row[h], status)
    BY <1>4 DEF PostAnswered, PostUnreachable, PostAnswerLost, Succeeded, Failed
  <2>3. r.attempts = row[h].attempts + 1
    BY <2>2 DEF After
  <2> DEFINE b == [todo |-> batch[v].todo, hand |-> NoDelivery, version |-> 0,
                   settled |-> [t \in DOMAIN batch[v].settled \cup {h} |->
                                   IF t = h THEN r ELSE batch[v].settled[t]],
                   taken |-> batch[v].taken \cup taken]
  <2>4. /\ DOMAIN b.settled = DOMAIN batch[v].settled \cup {h}
        /\ \A t \in DOMAIN b.settled :
              b.settled[t] = IF t = h THEN r ELSE batch[v].settled[t]
    OBVIOUS
  <2>6. batch' = [batch EXCEPT ![v] = b]
    BY <2>2 DEF Settle
  <2> HIDE DEF b
  <2>5. batch'[w] = IF w = v THEN b ELSE batch[w]
    BY <1>0, <2>6, BatchIsFunction
  <2> QED
    BY <2>1, <2>3, <2>4, <2>5
<1>5. \/ UNCHANGED <<row, batch>>
      \/ \E e \in Event : HandleEvent(e) /\ UNCHANGED batch
      \/ \E t \in Subscribed : (DelayPasses(t) \/ Replay(t)) /\ UNCHANGED batch
      \/ \E v \in Dispatcher :
            \/ StartBatch(v) \/ FinishBatch(v) \/ DispatcherDies(v)
            \/ PostAnswered(v) \/ PostUnreachable(v) \/ PostAnswerLost(v)
            \/ \E t \in Subscribed : Sign(v, t)
  BY DEF Next, EmitEvent, HandleEvent, RegisterWebhook, LockEndpoint, AddSecret,
         SelectActive, LockActive, CommitRotation, RotationFails, Dispatch,
         DelayPasses, Replay, vars
<1>6. FinishBatch(w) => DOMAIN batch'[w].settled = {}
  <2>1. FinishBatch(w) => batch' = [batch EXCEPT ![w] = NoBatch]
    BY DEF FinishBatch
  <2> QED
    BY <1>0, <1>1, <2>1, BatchIsFunction
<1> QED
  BY <1>2, <1>3, <1>4, <1>5, <1>6

LEMMA AheadStep ==
    TypeInv /\ SettledAhead /\ [Next]_vars => SettledAhead'
<1> SUFFICES ASSUME TypeInv, SettledAhead, [Next]_vars, NEW w \in Dispatcher,
                    NEW s \in DOMAIN batch'[w].settled
             PROVE  batch'[w].settled[s].attempts = row'[s].attempts + 1
  BY DEF SettledAhead
<1>1. CASE row' = row /\ batch'[w].settled[s].attempts = row[s].attempts + 1
  BY <1>1
<1>2. CASE /\ s \in DOMAIN batch[w].settled /\ ~ FinishBatch(w)
           /\ batch'[w].settled[s] = batch[w].settled[s]
  <2>1. s \in Subscribed /\ s \in RowsOf(batch[w]) /\ row[s].status # "ABSENT"
    BY <1>2 DEF TypeInv, DeliveryInv, AllSorted, Sorted, RowsOf, LockedAwait, Awaiting
  <2>2. ~ \E v \in Dispatcher : FinishBatch(v) /\ s \in DOMAIN batch[v].settled
    BY <1>2, <2>1 DEF TypeInv, DeliveryInv, Apart, RowsOf
  <2>3. \/ row'[s] = row[s]
        \/ row'[s] = Again(s, "RETRY")
        \/ row'[s] = Again(s, "PENDING")
    BY <2>1, <2>2, RowStep
  <2>4. row'[s].attempts = row[s].attempts
    BY <2>3 DEF Again
  <2> QED
    BY <1>2, <2>4 DEF SettledAhead
<1> QED
  BY <1>1, <1>2, SettledStep

(* The table's history: a row is never dropped and its attempts are never  *)
(* forgotten, counted one by one; and a delivery that succeeded or was     *)
(* given up is touched by the replay route only, which keeps its attempts. *)
RowsAdvance ==
    [][\A s \in Subscribed :
          /\ row[s] # Absent => /\ row'[s] # Absent
                                /\ row'[s].attempts - row[s].attempts \in {0, 1}
          /\ row[s].status \in {"SUCCEEDED", "DEAD_LETTER"} /\ row'[s] # row[s] =>
                /\ replays'[s] = replays[s] + 1
                /\ row'[s] = Again(s, "PENDING")]_vars

(* dispatch_once and the replay route, whichever batches run, crash or     *)
(* roll back: SKIP LOCKED and the batch's one commit never let an older    *)
(* view of a row overwrite a newer one.                                    *)
THEOREM RowsOnlyAdvance == Spec => RowsAdvance
<1> DEFINE Step ==
       \A s \in Subscribed :
          /\ row[s] # Absent => /\ row'[s] # Absent
                                /\ row'[s].attempts - row[s].attempts \in {0, 1}
          /\ row[s].status \in {"SUCCEEDED", "DEAD_LETTER"} /\ row'[s] # row[s] =>
                /\ replays'[s] = replays[s] + 1
                /\ row'[s] = Again(s, "PENDING")
<1>1. TypeInv /\ SettledAhead /\ [Next]_vars => Step
  <2> SUFFICES ASSUME TypeInv, SettledAhead, [Next]_vars, NEW s \in Subscribed
               PROVE  /\ row[s] # Absent => /\ row'[s] # Absent
                                /\ row'[s].attempts - row[s].attempts \in {0, 1}
                      /\ row[s].status \in {"SUCCEEDED", "DEAD_LETTER"}
                         /\ row'[s] # row[s] => /\ replays'[s] = replays[s] + 1
                                                /\ row'[s] = Again(s, "PENDING")
    OBVIOUS
  <2>1. row[s].attempts \in Nat /\ (row[s] # Absent => row[s].status # "ABSENT")
    BY RowExists DEF TypeInv, DeliveryInv, DeliveryType, DeliveryRow
  <2>2. CASE row'[s] = row[s]
    BY <2>1, <2>2
  <2>3. CASE row[s].status = "ABSENT"
    BY <2>1, <2>2, <2>3, RowStep
  <2>4. CASE \E w \in Dispatcher : /\ FinishBatch(w) /\ s \in DOMAIN batch[w].settled
                                   /\ row'[s] = batch[w].settled[s]
    <3>1. PICK w \in Dispatcher : /\ s \in DOMAIN batch[w].settled
                                  /\ row'[s] = batch[w].settled[s]
      BY <2>4
    <3>2. /\ row'[s].attempts = row[s].attempts + 1
          /\ s \in RowsOf(batch[w]) /\ Awaiting(s)
      BY <3>1 DEF SettledAhead, RowsOf, TypeInv, DeliveryInv, LockedAwait
    <3>3. row'[s] # Absent
      BY <3>1 DEF TypeInv, AttemptsLeft, Within, Absent
    <3> QED
      BY <2>1, <3>2, <3>3 DEF Awaiting
  <2>5. CASE row[s].status = "RETRY" /\ row'[s] = Again(s, "RETRY")
    BY <2>1, <2>5 DEF Again, Absent
  <2>6. CASE row'[s] = Again(s, "PENDING") /\ replays'[s] = replays[s] + 1
    BY <2>1, <2>6 DEF Again, Absent
  <2> QED
    BY <2>2, <2>3, <2>4, <2>5, <2>6, RowStep
<1>2. Init => SettledAhead
  <2>1. DOMAIN NoBatch.settled = {}
    BY DEF NoBatch
  <2> QED
    BY <2>1 DEF Init, SettledAhead
<1>3. [][Step]_vars => RowsAdvance
  BY PTL DEF RowsAdvance
<1>4. TypeInv /\ SettledAhead /\ [Next]_vars => [Step]_vars
  BY <1>1
<1> QED
  BY <1>2, <1>3, <1>4, InitTypes, NextTypes, AheadStep, PTL DEF Spec
=============================================================================
