-------------------------- MODULE MCActionReviews --------------------------
(* Instance of ActionReviews for TLC. *)
EXTENDS ActionReviews, TLC

Symmetry == Permutations(Reviewers) \cup Permutations(Actions) \cup Permutations(Decisions)
=============================================================================
