----------------------------- MODULE MCHostState -----------------------------
(***************************************************************************)
(* Runs that share a profile; they are alike, so they may be permuted.      *)
(***************************************************************************)
EXTENDS HostState, TLC

Symmetry == Permutations(Runs)
=============================================================================
