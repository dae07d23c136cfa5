----------------------------- MODULE MCOutcome ------------------------------
(* A small instance of Outcome for TLC. *)
EXTENDS Outcome, TLC

Symmetry == Permutations(Checks)
=============================================================================
