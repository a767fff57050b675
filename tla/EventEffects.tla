---------------------------- MODULE EventEffects ----------------------------
(***************************************************************************)
(* What the event path promises to the rest of the service: an event that  *)
(* a payment transaction emitted is handled at most once, and handling it  *)
(* creates one webhook delivery for every endpoint that is registered at   *)
(* that time and subscribed to it.  EventPipeline implements this; webhook *)
(* dispatch (WebhookDelivery) is built on it.                              *)
(***************************************************************************)
EXTENDS Naturals

CONSTANTS
    Event,         \* events of the outbox
    Endpoint,      \* webhook endpoints of the events' merchant
    Subscribed     \* the <<endpoint, event>> pairs event_types asks for

VARIABLES
    emitted,       \* events whose transaction has committed
    handled,       \* events the webhook consumer has processed
    registered,    \* endpoints that exist
    rows           \* [Subscribed -> number of delivery rows]

effectVars == <<emitted, handled, registered, rows>>

Init ==
    /\ emitted = {}
    /\ handled = {}
    /\ registered \in SUBSET Endpoint
    /\ rows = [s \in Subscribed |-> 0]

Emit(e) ==
    /\ e \notin emitted
    /\ emitted' = emitted \cup {e}
    /\ UNCHANGED <<handled, registered, rows>>

RegisterEndpoint(x) ==
    /\ x \notin registered
    /\ registered' = registered \cup {x}
    /\ UNCHANGED <<emitted, handled, rows>>

Handle(e) ==
    /\ e \in emitted \ handled
    /\ handled' = handled \cup {e}
    /\ rows' = [s \in Subscribed |->
                    rows[s] + (IF s[2] = e /\ s[1] \in registered THEN 1 ELSE 0)]
    /\ UNCHANGED <<emitted, registered>>

Next ==
    \/ \E e \in Event : Emit(e) \/ Handle(e)
    \/ \E x \in Endpoint : RegisterEndpoint(x)

Spec == Init /\ [][Next]_effectVars

-----------------------------------------------------------------------------
(* uq_delivery_endpoint_event is never violated: there is at most one row  *)
(* for an endpoint and an event, and only for an event that was handled.   *)
AtMostOneRow ==
    \A s \in Subscribed : rows[s] \in {0, 1} /\ (rows[s] = 1 => s[2] \in handled)
=============================================================================
