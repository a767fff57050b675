--------------------------- MODULE WebhookDelivery ---------------------------
(***************************************************************************)
(* From a delivery row to the merchant's server: the dispatchers of        *)
(* app/workers/webhook_dispatcher.py, the endpoints' signing secrets and   *)
(* their rotation (app/service.py), the manual replay (app/main.py), and   *)
(* the demo receiver (services/webhook_receiver_demo/main.py) at the other *)
(* end.  Delivery rows come from the event path, of which only its promise *)
(* (EventEffects) is used: the two specifications share emitted, handled   *)
(* and registered, and take the steps of EventEffects together.            *)
(*                                                                         *)
(* The receiver counts attempts per URL path and has one set of secrets;   *)
(* here both are per endpoint: each has a path of its own, and a signature *)
(* verifies with its own endpoint's secret only.                           *)
(*                                                                         *)
(* A secret is known by its endpoint and version; the secrets of different *)
(* endpoints differ.  Dispatcher and Rotation are database sessions.       *)
(***************************************************************************)
EXTENDS Integers, FiniteSets

CONSTANTS
    Event, Endpoint, Subscribed,   \* as in EventEffects
    Dispatcher,    \* dispatcher processes
    Rotation,      \* concurrent requests to rotate a secret
    NoDelivery,    \* not a delivery
    NoEndpoint,    \* not an endpoint
    Failures,      \* the {failures} of the fail-then-ok urls
    MaxAttempts,   \* webhook_max_attempts, 6 in the code
    BatchLimit,    \* rows of one dispatch_once, 25 in the code
    MaxVersion,    \* bound on the versions of one endpoint's secret
    MaxReplays,    \* bound on manual replays of one delivery
    MaxFaults      \* bound on crashes, lost answers and failed connections

ASSUME DeliveryAssumption ==
    /\ MaxAttempts \in Nat \ {0} /\ BatchLimit \in Nat \ {0}
    /\ Failures \in Nat /\ MaxVersion \in Nat \ {0}
    /\ MaxReplays \in Nat /\ MaxFaults \in Nat
    /\ Subscribed \subseteq Endpoint \X Event
    /\ NoDelivery \notin Subscribed /\ NoEndpoint \notin Endpoint

VARIABLES
    emitted, handled, registered,  \* as in EventEffects
    url,           \* [Endpoint -> the receiver's route it was registered with]
    row,           \* [Subscribed -> its webhook_deliveries row, or Absent]
    latest,        \* [Endpoint -> the highest version of its secrets]
    active,        \* [Endpoint -> the versions that are active]
    rotation,      \* [Rotation -> its transaction, or NoRotation]
    batch,         \* [Dispatcher -> its transaction, or NoBatch]
    trusted,       \* [Endpoint -> versions among the receiver's accepted_secrets]
    hits,          \* [Endpoint -> attempts_by_path, up to Failures]
    accepted,      \* [Subscribed -> entries of the receiver's received list]
    unrecorded,    \* [Subscribed -> those whose 2xx was never committed]
    replays,       \* [Subscribed -> manual replays]
    faults         \* faults so far

events   == <<emitted, handled, registered, url>>
secrets  == <<latest, active, rotation>>
receiver == <<trusted, hits, accepted, unrecorded>>
vars == <<events, row, secrets, batch, receiver, replays, faults>>

Absent == [status |-> "ABSENT", attempts |-> 0, due |-> FALSE]
New    == [status |-> "PENDING", attempts |-> 0, due |-> TRUE]

Effects == INSTANCE EventEffects WITH
    rows <- [s \in Subscribed |-> IF row[s] = Absent THEN 0 ELSE 1]

Route == {"forgepay", "fail-then-ok", "always-fail"}

NoRotation == [pc |-> "none", endpoint |-> NoEndpoint, found |-> {}]
NoBatch == [todo |-> {}, hand |-> NoDelivery, version |-> 0,
            settled |-> [s \in {} |-> Absent], taken |-> {}]

Fault == faults < MaxFaults /\ faults' = faults + 1

Init ==
    /\ row = [s \in Subscribed |-> Absent]
    /\ Effects!Init /\ registered = {}
    /\ url = [x \in Endpoint |-> "none"]
    /\ latest = [x \in Endpoint |-> 0]
    /\ active = [x \in Endpoint |-> {}]
    /\ rotation = [r \in Rotation |-> NoRotation]
    /\ batch = [w \in Dispatcher |-> NoBatch]
    /\ trusted = [x \in Endpoint |-> {}]
    /\ hits = [x \in Endpoint |-> 0]
    /\ accepted = [s \in Subscribed |-> 0]
    /\ unrecorded = [s \in Subscribed |-> 0]
    /\ replays = [s \in Subscribed |-> 0]
    /\ faults = 0

-----------------------------------------------------------------------------
(* What the event path does. *)

EmitEvent(e) ==
    /\ UNCHANGED <<url, row, secrets, batch, receiver, replays, faults>>
    /\ Effects!Emit(e)

(* process_payment_event_for_webhooks commits. *)
HandleEvent(e) ==
    /\ row' = [s \in Subscribed |->
                  IF s[2] = e /\ s[1] \in registered
                  THEN New ELSE row[s]]
    /\ Effects!Handle(e)
    /\ UNCHANGED <<url, secrets, batch, receiver, replays, faults>>

-----------------------------------------------------------------------------
(* Endpoints and their secrets. *)

(* register_webhook: the endpoint and its first secret, in one transaction.*)
RegisterWebhook(x, u) ==
    /\ UNCHANGED <<row, rotation, batch, receiver, replays, faults>>
    /\ Effects!RegisterEndpoint(x)
    /\ url' = [url EXCEPT ![x] = u]
    /\ latest' = [latest EXCEPT ![x] = 1]
    /\ active' = [active EXCEPT ![x] = {1}]

EndpointFreeAlways(x) == TRUE

(* Nobody else has endpoint x FOR UPDATE. *)
EndpointFree(x) == \A r \in Rotation : rotation[r].endpoint # x

(* rotate_webhook_secret, statement by statement: the endpoint is locked,  *)
LockEndpoint(r, x) ==
    /\ rotation[r] = NoRotation
    /\ x \in registered
    /\ latest[x] < MaxVersion
    /\ EndpointFree(x)
    /\ rotation' = [rotation EXCEPT ![r] =
                       [pc |-> "select", endpoint |-> x, found |-> {}]]
    /\ UNCHANGED <<events, row, latest, active, batch, receiver, replays, faults>>

(* its active secret is found in the statement's snapshot,                 *)
SelectActive(r) ==
    LET x == rotation[r].endpoint IN
    /\ rotation[r].pc = "select"
    /\ rotation' = [rotation EXCEPT ![r] =
                       [pc |-> "lock", endpoint |-> x, found |-> active[x]]]
    /\ UNCHANGED <<events, row, latest, active, batch, receiver, replays, faults>>

(* and locked, after whoever has it; a secret retired meanwhile no longer  *)
(* matches and is dropped from the result.                                 *)
LockActive(r) ==
    LET x == rotation[r].endpoint IN
    /\ rotation[r].pc = "lock"
    /\ \A q \in Rotation : rotation[q].pc = "insert" /\ rotation[q].endpoint = x
                              => rotation[q].found \cap rotation[r].found = {}
    /\ rotation' = [rotation EXCEPT ![r] =
                       [pc |-> "insert", endpoint |-> x,
                        found |-> rotation[r].found \cap active[x]]]
    /\ UNCHANGED <<events, row, latest, active, batch, receiver, replays, faults>>

(* The next version replaces the one that was found; the commit.           *)
CommitRotation(r) ==
    LET x == rotation[r].endpoint IN
    /\ rotation[r].pc = "insert"
    /\ latest' = [latest EXCEPT ![x] = @ + 1]
    /\ active' = [active EXCEPT ![x] = (@ \ rotation[r].found) \cup {latest[x] + 1}]
    /\ rotation' = [rotation EXCEPT ![r] = NoRotation]
    /\ UNCHANGED <<events, row, batch, receiver, replays, faults>>

RotationFails(r) ==
    /\ rotation[r] # NoRotation
    /\ Fault
    /\ rotation' = [rotation EXCEPT ![r] = NoRotation]
    /\ UNCHANGED <<events, row, latest, active, batch, receiver, replays>>

(* The merchant gives the receiver a secret it was answered (add_secret).  *)
AddSecret(x, v) ==
    /\ v \in 1..latest[x] \ trusted[x]
    /\ trusted' = [trusted EXCEPT ![x] = @ \cup {v}]
    /\ UNCHANGED <<events, row, secrets, batch, hits, accepted, unrecorded,
                   replays, faults>>

-----------------------------------------------------------------------------
(* The receiver, for a delivery s signed with version v. *)

Valid(s, v) == v \in trusted[s[1]]

(* receive answers 200 in any case, the other routes 401 to a bad signature*)
Code(s, v) ==
    LET x == s[1] IN
    CASE url[x] = "forgepay"    -> 200
      [] url[x] = "always-fail" -> IF Valid(s, v) THEN 500 ELSE 401
      [] OTHER -> IF ~ Valid(s, v) THEN 401
                  ELSE IF hits[x] < Failures THEN 500 ELSE 200

Takes(s, v) == Valid(s, v) /\ Code(s, v) = 200

Receive(s, v) ==
    LET x == s[1] IN
    /\ hits' = [hits EXCEPT ![x] =
           IF url[x] = "fail-then-ok" /\ Valid(s, v) /\ @ < Failures
           THEN @ + 1 ELSE @]
    /\ accepted' = [accepted EXCEPT ![s] = @ + (IF Takes(s, v) THEN 1 ELSE 0)]
    /\ UNCHANGED trusted

-----------------------------------------------------------------------------
(* dispatch_once: one transaction per batch. *)

ExhaustedLate(n) == n > MaxAttempts
Exhausted(n) == n >= MaxAttempts

(* The row after one more attempt: a 2xx, or a failure that may be final.  *)
After(r, status) ==
    [status |-> status, attempts |-> r.attempts + 1, due |-> r.due /\ status # "RETRY"]
Succeeded(r) == After(r, "SUCCEEDED")
Failed(r, final) ==
    After(r, IF final \/ Exhausted(r.attempts + 1) THEN "DEAD_LETTER" ELSE "RETRY")

DuePending == {s \in Subscribed : row[s].status = "PENDING" /\ row[s].due}
Due == {s \in Subscribed : row[s].status \in {"PENDING", "RETRY"} /\ row[s].due}

(* The rows of a dispatcher's transaction, which it has locked. *)
Rows(w) == batch[w].todo \cup DOMAIN batch[w].settled \cup ({batch[w].hand} \ {NoDelivery})

Locked == UNION {Rows(w) : w \in Dispatcher}

FreeUnlocked == Due
Free == Due \ Locked

(* FOR UPDATE SKIP LOCKED without ORDER BY: any due rows, up to the limit. *)
StartBatch(w) ==
    /\ batch[w] = NoBatch
    /\ \E T \in SUBSET Free :
          /\ T # {}
          /\ Cardinality(T) <= BatchLimit
          /\ Cardinality(T) = BatchLimit \/ T = Free
          /\ batch' = [batch EXCEPT ![w] = [NoBatch EXCEPT !.todo = T]]
    /\ UNCHANGED <<events, row, secrets, receiver, replays, faults>>

(* active_webhook_secret, which takes no lock. *)
SigningSecrets(x) == active[x]

(* sign_delivery_body for one of the batch's rows. *)
Sign(w, s) ==
    /\ batch[w].hand = NoDelivery
    /\ s \in batch[w].todo
    /\ \E v \in SigningSecrets(s[1]) :
          batch' = [batch EXCEPT ![w] =
              [todo |-> batch[w].todo \ {s}, hand |-> s, version |-> v,
               settled |-> batch[w].settled, taken |-> batch[w].taken]]
    /\ UNCHANGED <<events, row, secrets, receiver, replays, faults>>

(* The row in hand becomes r in the transaction's view.                    *)
Settle(w, r, taken) ==
    batch' = [batch EXCEPT ![w] =
        [todo |-> batch[w].todo, hand |-> NoDelivery, version |-> 0,
         settled |-> [s \in DOMAIN batch[w].settled \cup {batch[w].hand} |->
                         IF s = batch[w].hand THEN r ELSE batch[w].settled[s]],
         taken |-> batch[w].taken \cup taken]]

(* The POST is answered.                                                   *)
PostAnswered(w) ==
    LET s == batch[w].hand
        v == batch[w].version IN
    /\ s # NoDelivery
    /\ Receive(s, v)
    /\ Settle(w, IF Code(s, v) = 200 THEN Succeeded(row[s])
                                     ELSE Failed(row[s], Code(s, v) < 500),
              IF Takes(s, v) THEN {s} ELSE {})
    /\ UNCHANGED <<events, row, secrets, unrecorded, replays, faults>>

(* httpx.HTTPError: the receiver never saw the POST, or the answer is lost *)
(* or later than the client's timeout.                                     *)
PostUnreachable(w) ==
    LET s == batch[w].hand IN
    /\ s # NoDelivery
    /\ Fault
    /\ Settle(w, Failed(row[s], FALSE), {})
    /\ UNCHANGED <<events, row, secrets, receiver, replays>>

PostAnswerLost(w) ==
    LET s == batch[w].hand
        v == batch[w].version IN
    /\ s # NoDelivery
    /\ Fault
    /\ Receive(s, v)
    /\ unrecorded' = [unrecorded EXCEPT ![s] = @ + (IF Takes(s, v) THEN 1 ELSE 0)]
    /\ Settle(w, Failed(row[s], FALSE), {})
    /\ UNCHANGED <<events, row, secrets, replays>>

FinishBatch(w) ==
    /\ batch[w] # NoBatch
    /\ batch[w].todo = {} /\ batch[w].hand = NoDelivery
    /\ row' = [s \in Subscribed |-> IF s \in DOMAIN batch[w].settled
                                     THEN batch[w].settled[s] ELSE row[s]]
    /\ batch' = [batch EXCEPT ![w] = NoBatch]
    /\ UNCHANGED <<events, secrets, receiver, replays, faults>>

(* A crash, or anything raised that is not an HTTPError: the whole batch   *)
(* rolls back, the attempts of the rows already posted included.           *)
DispatcherDies(w) ==
    /\ batch[w] # NoBatch
    /\ Fault
    /\ unrecorded' = [s \in Subscribed |->
            unrecorded[s] + (IF s \in batch[w].taken THEN 1 ELSE 0)]
    /\ batch' = [batch EXCEPT ![w] = NoBatch]
    /\ UNCHANGED <<events, row, secrets, trusted, hits, accepted, replays>>

DueAgain(s, status) ==
    row' = [row EXCEPT ![s] =
               [status |-> status, attempts |-> row[s].attempts, due |-> TRUE]]

(* next_attempt_at is reached. *)
DelayPasses(s) ==
    /\ row[s].status = "RETRY" /\ ~ row[s].due
    /\ DueAgain(s, "RETRY")
    /\ UNCHANGED <<events, secrets, batch, receiver, replays, faults>>

(* replay_webhook_delivery_route: whatever the status is, once the row's   *)
(* lock is free; the attempts stay.                                        *)
Replay(s) ==
    /\ row[s].status # "ABSENT"
    /\ s \notin Locked
    /\ replays[s] < MaxReplays
    /\ replays' = [replays EXCEPT ![s] = @ + 1]
    /\ DueAgain(s, "PENDING")
    /\ UNCHANGED <<events, secrets, batch, receiver, faults>>

-----------------------------------------------------------------------------
Dispatch(w) ==
    \/ StartBatch(w) \/ PostAnswered(w) \/ FinishBatch(w)
    \/ \E s \in Subscribed : Sign(w, s)

Next ==
    \/ \E e \in Event : EmitEvent(e) \/ HandleEvent(e)
    \/ \E x \in Endpoint :
          \/ \E u \in Route : RegisterWebhook(x, u)
          \/ \E r \in Rotation : LockEndpoint(r, x)
          \/ \E v \in 1..MaxVersion : AddSecret(x, v)
    \/ \E r \in Rotation : \/ SelectActive(r) \/ LockActive(r)
                           \/ CommitRotation(r) \/ RotationFails(r)
    \/ \E w \in Dispatcher : \/ Dispatch(w) \/ PostUnreachable(w)
                             \/ PostAnswerLost(w) \/ DispatcherDies(w)
    \/ \E s \in Subscribed : DelayPasses(s) \/ Replay(s)

Spec == Init /\ [][Next]_vars

(* run_forever begins a batch every second, a POST ends within the         *)
(* client's timeout, and time passes.                                      *)
Fairness ==
    /\ \A w \in Dispatcher : WF_vars(Dispatch(w))
    /\ \A s \in Subscribed : WF_vars(DelayPasses(s))

FairSpec == Spec /\ Fairness

-----------------------------------------------------------------------------
(* Rows, secrets, transactions and the receiver have their types; no       *)
(* delivery is attempted more often than webhook_max_attempts and its      *)
(* replays allow.                                                          *)
TypeOK ==
    /\ emitted \subseteq Event /\ handled \subseteq emitted
    /\ registered \subseteq Endpoint
    /\ url \in [Endpoint -> Route \cup {"none"}]
    /\ \A s \in Subscribed :
          \/ row[s] = Absent
          \/ row[s] \in [status : {"PENDING", "RETRY", "SUCCEEDED", "DEAD_LETTER"},
                         attempts : 0..MaxAttempts + replays[s], due : BOOLEAN]
    /\ latest \in [Endpoint -> 0..MaxVersion]
    /\ active \in [Endpoint -> SUBSET (1..MaxVersion)]
    /\ rotation \in [Rotation -> [pc : {"none", "select", "lock", "insert"},
                                  endpoint : Endpoint \cup {NoEndpoint},
                                  found : SUBSET (1..MaxVersion)]]
    /\ \A w \in Dispatcher :
          /\ Rows(w) \subseteq Subscribed
          /\ Cardinality(Rows(w)) <= BatchLimit
          /\ batch[w].version \in 0..MaxVersion
          /\ batch[w].taken \subseteq DOMAIN batch[w].settled
    /\ trusted \in [Endpoint -> SUBSET (1..MaxVersion)]
    /\ hits \in [Endpoint -> 0..Failures]
    /\ accepted \in [Subscribed -> Nat] /\ unrecorded \in [Subscribed -> Nat]
    /\ replays \in [Subscribed -> 0..MaxReplays]
    /\ faults \in 0..MaxFaults

(* docs/architecture/webhook-delivery.md:22: "Each webhook endpoint has a  *)
(* unique active signing secret": the latest, whichever rotations race or  *)
(* fail, so that the partial unique index never refuses one and a batch    *)
(* always finds the secret to sign with.                                   *)
OneActiveSecret == \A x \in registered : active[x] = {latest[x]}

(* The receiver gets a delivery once; a second time only for a replay, or  *)
(* because its first answer was lost or rolled back.  In particular never  *)
(* because two dispatchers had the same row.                               *)
AcceptedOnce ==
    \A s \in Subscribed : accepted[s] <= 1 + replays[s] + unrecorded[s]

Awaiting(s) == row[s].status \in {"PENDING", "RETRY"}

(* README.md:46: "retry, dead-letter state": a delivery does not stay      *)
(* pending for ever, whatever its receiver answers.                        *)
EveryDeliverySettles ==
    \A s \in Subscribed :
        Awaiting(s) ~> row[s].status \in {"SUCCEEDED", "DEAD_LETTER"}
=============================================================================
