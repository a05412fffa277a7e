------------------------------- MODULE Custody -------------------------------
(***************************************************************************)
(* What the runtime promises about the secret values of one run, with        *)
(* directories, baselines, locks and recovery left out: where on disk there  *)
(* are values, and how far the run has come.                                *)
(*                                                                         *)
(* Values come to the run directory only before the host starts.  While the  *)
(* host runs they stay; in the end they are wiped, restored from, removed,   *)
(* or moved to quarantine with the directory, by the run itself or by        *)
(* anybody who recovers it; they never come back.  A run that reports        *)
(* success has left none.  A run that was disturbed before its live lock was *)
(* first written, or while it was rewritten, is promised less.  RunLifecycle *)
(* implements this for each of its runs.                                     *)
(***************************************************************************)
CONSTANT HasSecrets  \* the projection of the run holds secrets

VARIABLES
    places,     \* where values are: the run directory, the quarantine
    course,     \* how far the run has come
    disturbed   \* found not live while its lock was being written

vars == <<places, course, disturbed>>

Courses == {"starting", "serving", "leaving", "ok", "failed"}

Init == places = {} /\ course = "starting" /\ ~disturbed

\* While the host runs nobody takes the values away.
Free == course # "serving" \/ disturbed

Put == /\ course = "starting" /\ HasSecrets
       /\ places' = places \cup {"run"}

Settle == Free /\ places' = places \ {"run"}

SetAside == /\ Free /\ "run" \in places
            /\ places' = {"quarantine"}

Forget == places' = places \ {"quarantine"}

Serve == /\ course = "starting" /\ course' = "serving"
         /\ disturbed \/ places' = IF HasSecrets THEN {"run"} ELSE {}

Leave == /\ course \in {"starting", "serving"} /\ course' = "leaving"

Fail == /\ course \in {"starting", "serving", "leaving"} /\ course' = "failed"

Succeed == /\ course = "leaving" /\ course' = "ok"
           /\ disturbed \/ places' = {}

\* Only a run on its way can be disturbed, and only before its host starts.
Disturb == course = "starting" /\ disturbed' = TRUE

Next ==
    /\ UNCHANGED places \/ Put \/ Settle \/ SetAside \/ Forget
    /\ UNCHANGED course \/ Serve \/ Leave \/ Fail \/ Succeed
    /\ UNCHANGED disturbed \/ Disturb

Spec == Init /\ [][Next]_vars
=============================================================================
