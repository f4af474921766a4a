--------------------------- MODULE MCAccountReview ---------------------------
(* The account review on small instances: one account, a tick for a day. *)
EXTENDS AccountReviewProperties, TLC

\* Requests differ in nothing but their name.
RequestSymmetry == Permutations(Requests)
=============================================================================
