------------------------------- MODULE MCOutcome -------------------------------
(* Symmetric request threads for the instance of Outcome. *)
EXTENDS Outcome, TLC

RequestSymmetry == Permutations(Requests) \cup Permutations(Deliveries)
=============================================================================
