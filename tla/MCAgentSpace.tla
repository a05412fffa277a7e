---------------------------- MODULE MCAgentSpace ----------------------------
(* AgentSpace on small sets: two systems, s2 the one the revision rb is of.  *)
EXTENDS AgentSpace, TLC

CONSTANTS s1, s2, rb

MCSystemOf == [r \in Revs |-> IF r = rb THEN s2 ELSE s1]

Symmetry == Permutations(Procs) \cup Permutations(Sources)
=============================================================================
