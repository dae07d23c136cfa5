---------------------------- MODULE MCWorktrees -----------------------------
(* Instances of Worktrees for TLC.                                         *)
EXTENDS Worktrees, TLC

Symmetry == Permutations(Runs) \cup Permutations(Paths)
=============================================================================
