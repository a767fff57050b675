-------------------------- MODULE MCEventPipeline --------------------------
(* Instances of EventPipeline for TLC. *)
EXTENDS EventPipeline

CONSTANTS x, y

(* x subscribes to every event, y to the first one only. *)
MCSubscribed == {<<x, e>> : e \in Event} \cup {<<y, 1>>}
=============================================================================
