----------------------------- MODULE MCRouting -----------------------------
(* Instances of Routing for TLC. *)
EXTENDS Routing

\* A free API rung, then a paid CLI rung, then a paid API rung.
MCCandidates ==
  <<[tier |-> "free", type |-> "api"], [tier |-> "paid", type |-> "cli"],
    [tier |-> "paid", type |-> "api"]>>
=============================================================================
