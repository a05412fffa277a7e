--------------------------- MODULE MCRunLifecycle ---------------------------
(* RunLifecycle on small sets: r1's projection holds secrets, r2's none.     *)
EXTENDS RunLifecycle, TLC

CONSTANTS r1, r2, sys

MCSystemOf == [r \in Run |-> sys]
=============================================================================
