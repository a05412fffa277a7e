----------------------------- MODULE RunProtocol -----------------------------
(***************************************************************************)
(* The order of what one `a2h run` does, which its command line code and    *)
(* its runtime must agree on: leftovers are recovered before anything is     *)
(* decided, a directory is reserved only for what was authorised, and a      *)
(* host starts only in a directory that was reserved and locked for it.      *)
(*                                                                         *)
(* The command may leave at every stage; what it cleans up on its way out    *)
(* is not said here.  Launch implements this protocol for the commands it    *)
(* takes from the command line to the exit code, RunLifecycle for each of    *)
(* its processes.                                                           *)
(***************************************************************************)
VARIABLE stage

Stages == {"out", "recovering", "deciding", "reserving", "holding", "hosting"}

Init == stage = "out"

Go(from, to) == stage = from /\ stage' = to

Recover   == Go("out", "recovering")
Decide    == Go("recovering", "deciding")
Authorise == Go("deciding", "reserving")
Reserve   == Go("reserving", "holding")
Host      == Go("holding", "hosting")
Leave     == stage' = "out"

Next == Recover \/ Decide \/ Authorise \/ Reserve \/ Host \/ Leave

Spec == Init /\ [][Next]_stage
=============================================================================
