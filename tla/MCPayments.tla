----------------------------- MODULE MCPayments -----------------------------
(* Small instances of Payments for TLC. *)
EXTENDS Payments, TLC

CONSTANTS m1, m2, c1, c2, p1, p2, k1, k2

(* Identifiers of one kind are interchangeable: nothing orders them. *)
Symmetry == Permutations({m1, m2}) \cup Permutations({c1, c2})
                \cup Permutations({p1, p2}) \cup Permutations({k1, k2})
=============================================================================
