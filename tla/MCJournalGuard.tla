--------------------------- MODULE MCJournalGuard ---------------------------
(***************************************************************************)
(* Instances of JournalGuard for TLC.                                      *)
(***************************************************************************)
EXTENDS JournalGuard, TLC

(* Nothing orders entries, sessions or manual journals. *)
Symmetry == Permutations(Entry) \cup Permutations(Session) \cup Permutations(Manual)
=============================================================================
