------------------------------ MODULE Catalog ------------------------------
(***************************************************************************)
(* What the Agent Space registry promises its callers, with every command   *)
(* taken as one atomic step: a system is installed with a provenance (the   *)
(* canonical path of its source tree), later registrations from the same    *)
(* provenance replace its active revision, a registration from another      *)
(* provenance never does, and a removal forgets the system.  One step       *)
(* touches one system.  AgentSpace implements this with lock files, a       *)
(* read-modify-write of registry.json and an atomic rename.                 *)
(***************************************************************************)
CONSTANTS
    Systems,    \* system ids
    Sources,    \* canonical source roots
    Revs,       \* artifact revisions
    None        \* the absent record

VARIABLE catalog  \* system id -> its record, or None

Record == [rev : Revs, source : Sources]

Init == catalog = [s \in Systems |-> None]

Install(s, rec) ==
    /\ catalog[s] = None
    /\ catalog' = [catalog EXCEPT ![s] = rec]

Update(s, rec) ==
    /\ catalog[s] # None
    /\ catalog[s].source = rec.source
    /\ catalog' = [catalog EXCEPT ![s] = rec]

Uninstall(s) ==
    /\ catalog[s] # None
    /\ catalog' = [catalog EXCEPT ![s] = None]

Next ==
    \E s \in Systems :
        \/ \E rec \in Record : Install(s, rec) \/ Update(s, rec)
        \/ Uninstall(s)

Spec == Init /\ [][Next]_catalog
=============================================================================
