------------------------- MODULE EventEffectsProofs -------------------------
(***************************************************************************)
(* Proofs about EventEffects, for every set of events and endpoints.  What *)
(* is proved here holds of EventPipeline too, which implements it.         *)
(***************************************************************************)
EXTENDS EventEffects, TLAPS

(* A row is added with the event's entry in handled, which is never        *)
(* removed, so that no second Handle adds to it.                           *)
IInv == rows \in [Subscribed -> {0, 1}] /\ AtMostOneRow

LEMMA InitIInv == Init => IInv
  BY DEF Init, IInv, AtMostOneRow

LEMMA NextIInv == IInv /\ [Next]_effectVars => IInv'
<1> SUFFICES ASSUME IInv, [Next]_effectVars PROVE IInv'
  OBVIOUS
<1>1. ASSUME NEW e \in Event, Emit(e) PROVE IInv'
  BY <1>1 DEF Emit, IInv, AtMostOneRow
<1>2. ASSUME NEW e \in Event, Handle(e) PROVE IInv'
  <2>1. \A s \in Subscribed : s[2] = e => rows[s] = 0
    BY <1>2 DEF Handle, IInv, AtMostOneRow
  <2>2. \A s \in Subscribed :
           \/ rows'[s] = rows[s]
           \/ rows'[s] = 1 /\ s[2] = e
    BY <1>2, <2>1 DEF Handle, IInv
  <2>3. rows' \in [Subscribed -> {0, 1}]
    <3>1. rows' = [s \in Subscribed |-> rows'[s]]
      BY <1>2 DEF Handle
    <3> QED
      BY <3>1, <2>2 DEF IInv
  <2> QED
    BY <1>2, <2>2, <2>3 DEF Handle, IInv, AtMostOneRow
<1>3. ASSUME NEW x \in Endpoint, RegisterEndpoint(x) PROVE IInv'
  BY <1>3 DEF RegisterEndpoint, IInv, AtMostOneRow
<1>4. CASE UNCHANGED effectVars
  BY <1>4 DEF effectVars, IInv, AtMostOneRow
<1> QED
  BY <1>1, <1>2, <1>3, <1>4 DEF Next

(* webhook_deliveries: uq_delivery_endpoint_event never has to refuse an   *)
(* insert, so no consumer's transaction fails on it after its claim.       *)
THEOREM RowsAreUnique == Spec => []AtMostOneRow
<1>1. IInv => AtMostOneRow
  BY DEF IInv
<1> QED
  BY InitIInv, NextIInv, <1>1, PTL DEF Spec
=============================================================================
