----------------------------- MODULE MCBilling -----------------------------
(* Instances of Billing for TLC. *)
EXTENDS Billing, TLC

Symmetry == Permutations(Calls) \cup Permutations(Ids) \cup Permutations(Rows)
              \cup Permutations(Keys)
=============================================================================
