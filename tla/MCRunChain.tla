------------------------------ MODULE MCRunChain ------------------------------
(* Instances of RunChain for TLC.                                          *)
EXTENDS RunChain, TLC

Symmetry == Permutations(Callers) \cup Permutations(Sigs)
===============================================================================
