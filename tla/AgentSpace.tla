----------------------------- MODULE AgentSpace -----------------------------
(***************************************************************************)
(* The Agent Space: registry.json, the artifact store and the commands that *)
(* share them.  Every process of Procs runs one `a2h` command at a time     *)
(* (register, remove or inspect) and takes the steps of space.Register,     *)
(* space.Remove and space.Inspect one by one, interleaved with the others.  *)
(*                                                                         *)
(*   - a per-system lock file serialises the operations on one system id;   *)
(*   - registry.lock is held only while registry.json is re-read and        *)
(*     replaced; readers take no lock and see the old or the new file;      *)
(*   - an artifact directory appears by one rename and goes away entry by   *)
(*     entry, so it can be seen half removed ("partial");                   *)
(*   - a process may die between any two steps: its locks go with it, what   *)
(*     it wrote stays.                                                      *)
(*                                                                         *)
(* An unlock that ends a command is part of the command's last step.        *)
(***************************************************************************)
EXTENDS Naturals, FiniteSets

CONSTANTS
    Procs,      \* operating-system processes running a2h
    Systems,    \* system ids
    Sources,    \* canonical source roots (provenances)
    Revs,       \* artifact revisions, the content hashes of built trees
    SystemOf,   \* the system id inside the system.json of a revision
    None        \* no record, no holder, no argument

ASSUME SpaceAssumption ==
    /\ SystemOf \in [Revs -> Systems]
    /\ None \notin Procs \cup Systems \cup Sources \cup Revs
    /\ None \notin [rev : Revs, source : Sources]

VARIABLES
    registry,   \* the systems of registry.json
    art,        \* state of artifacts/sha256-<rev>: absent, partial or whole
    sysLock,    \* holder of each per-system lock file
    regLock,    \* holder of registry.lock
    pc,         \* the step each process takes next
    job,        \* the arguments and locals of the command it runs
    doc,        \* the registry document a writer re-read under registry.lock
    keep,       \* the revisions a remove found referenced
    todo,       \* the listed artifact directories a remove has still to visit
    exposed     \* history: revisions published under a collection that had
                \* already decided without them

vars == <<registry, art, sysLock, regLock, pc, job, doc, keep, todo, exposed>>

Record == [rev : Revs, source : Sources]

Job == [sys : Systems \cup {None}, source : Sources \cup {None},
        rev : Revs \cup {None}]

NoJob == [sys |-> None, source |-> None, rev |-> None]
NoDoc == [s \in Systems |-> None]

RegisterSteps == {"reg_lock", "reg_check", "reg_build", "pub_lstat",
                  "pub_verify", "pub_rename", "put_open", "put_write"}
RemoveSteps   == {"rm_lock", "del_open", "del_write", "gc_load", "gc_list",
                  "gc_sweep", "gc_rm"}
InspectSteps  == {"get_record", "get_again", "load", "load_failed"}
Steps == {"idle"} \cup RegisterSteps \cup RemoveSteps \cup InspectSteps

TypeOK ==
    /\ registry \in [Systems -> Record \cup {None}]
    /\ art \in [Revs -> {"absent", "partial", "whole"}]
    /\ sysLock \in [Systems -> Procs \cup {None}]
    /\ regLock \in Procs \cup {None}
    /\ pc \in [Procs -> Steps]
    /\ job \in [Procs -> Job]
    /\ doc \in [Procs -> [Systems -> Record \cup {None}]]
    /\ keep \in [Procs -> SUBSET Revs]
    /\ todo \in [Procs -> SUBSET Revs]
    /\ exposed \in SUBSET Revs

Init ==
    /\ registry = [s \in Systems |-> None]
    /\ art = [r \in Revs |-> "absent"]
    /\ sysLock = [s \in Systems |-> None]
    /\ regLock = None
    /\ pc = [p \in Procs |-> "idle"]
    /\ job = [p \in Procs |-> NoJob]
    /\ doc = [p \in Procs |-> NoDoc]
    /\ keep = [p \in Procs |-> {}]
    /\ todo = [p \in Procs |-> {}]
    /\ exposed = {}

-----------------------------------------------------------------------------
(* Helpers                                                                 *)

\* Put's rule: a first install, or the provenance already on record.
SameProvenance(cur, source) == cur = None \/ cur.source = source

\* The revisions the registry refers to: what Remove puts in keep.
Referenced == {registry[s].rev : s \in {t \in Systems : registry[t] # None}}

\* p has an intact artifact on disk and has yet to commit its record.
Publishing(p) == pc[p] \in {"put_open", "put_write"}

\* q's collection has decided, or will decide, that r goes.
Condemns(q, r) ==
    \/ pc[q] = "gc_list" /\ r \notin keep[q]
    \/ pc[q] \in {"gc_sweep", "gc_rm"} /\ r \in todo[q]
    \/ pc[q] = "gc_rm" /\ r = job[q].rev

\* The command of p is over: its locks are released and its locals forgotten.
Return(p) ==
    /\ pc' = [pc EXCEPT ![p] = "idle"]
    /\ job' = [job EXCEPT ![p] = NoJob]
    /\ doc' = [doc EXCEPT ![p] = NoDoc]
    /\ keep' = [keep EXCEPT ![p] = {}]
    /\ todo' = [todo EXCEPT ![p] = {}]
    /\ sysLock' = [s \in Systems |-> IF sysLock[s] = p THEN None ELSE sysLock[s]]
    /\ regLock' = IF regLock = p THEN None ELSE regLock

Goto(p, from, to) ==
    /\ pc[p] = from
    /\ pc' = [pc EXCEPT ![p] = to]

Locals == <<doc, keep, todo>>
Locks  == <<sysLock, regLock>>

-----------------------------------------------------------------------------
(* Register                                                                *)

\* The source is snapshotted and its system id peeked before any lock.
StartRegister(p, s, src) ==
    /\ Goto(p, "idle", "reg_lock")
    /\ job' = [job EXCEPT ![p] = [sys |-> s, source |-> src, rev |-> None]]
    /\ UNCHANGED <<registry, art, exposed, Locals, Locks>>

\* LockSystem, for register and remove alike: blocks until the lock is free.
LockSystem(p) ==
    /\ \/ Goto(p, "reg_lock", "reg_check")
       \/ Goto(p, "rm_lock", "del_open")
    /\ sysLock[job[p].sys] = None
    /\ sysLock' = [sysLock EXCEPT ![job[p].sys] = p]
    /\ UNCHANGED <<registry, art, regLock, job, exposed, Locals>>

\* Get under the system lock: another provenance is refused before the build.
CheckProvenance(p) ==
    /\ pc[p] = "reg_check"
    /\ IF SameProvenance(registry[job[p].sys], job[p].source)
       THEN /\ pc' = [pc EXCEPT ![p] = "reg_build"]
            /\ UNCHANGED <<job, Locals, Locks>>
       ELSE Return(p)
    /\ UNCHANGED <<registry, art, exposed>>

\* The tree is validated and hashed; system.json comes from the snapshot, so
\* the revision belongs to the locked system.  An invalid tree is a Fail.
Build(p, r) ==
    /\ Goto(p, "reg_build", "pub_lstat")
    /\ SystemOf[r] = job[p].sys
    /\ job' = [job EXCEPT ![p].rev = r]
    /\ UNCHANGED <<registry, art, exposed, Locals, Locks>>

\* Publish looks for the directory of its revision.
PublishLstat(p) ==
    /\ \/ Goto(p, "pub_lstat", "pub_verify") /\ art[job[p].rev] # "absent"
       \/ Goto(p, "pub_lstat", "pub_rename") /\ art[job[p].rev] = "absent"
    /\ UNCHANGED <<registry, art, job, exposed, Locals, Locks>>

\* History: the revision p now relies on, if a collection goes on without it.
Expose(p) ==
    exposed' = IF \E q \in Procs : Condemns(q, job[p].rev)
               THEN exposed \cup {job[p].rev}
               ELSE exposed

\* Mutant: an existing directory is reused unread.
ReuseUnverified(p) ==
    /\ Goto(p, "pub_verify", "put_open")
    /\ Expose(p)
    /\ UNCHANGED <<registry, art, job, Locals, Locks>>

\* An existing directory is reused when it verifies and refused when not.
PublishVerify(p) ==
    /\ pc[p] = "pub_verify"
    /\ IF art[job[p].rev] = "whole"
       THEN /\ pc' = [pc EXCEPT ![p] = "put_open"]
            /\ Expose(p)
            /\ UNCHANGED <<job, Locals, Locks>>
       ELSE /\ Return(p)
            /\ UNCHANGED exposed
    /\ UNCHANGED <<registry, art>>

\* The staged and verified directory is renamed into place; a destination that
\* turned up meanwhile is reused when it verifies.
PublishRename(p) ==
    /\ pc[p] = "pub_rename"
    /\ IF art[job[p].rev] = "partial"
       THEN /\ Return(p)
            /\ UNCHANGED <<art, exposed>>
       ELSE /\ pc' = [pc EXCEPT ![p] = "put_open"]
            /\ art' = [art EXCEPT ![job[p].rev] = "whole"]
            /\ Expose(p)
            /\ UNCHANGED <<job, Locals, Locks>>
    /\ UNCHANGED registry

-----------------------------------------------------------------------------
(* WithWrite: lock registry.lock, re-read, run Put or Delete on the copy,   *)
(* replace the file.                                                        *)

\* Put refuses another provenance; Delete refuses an unknown system.
Accepted(p, d) ==
    IF pc[p] = "put_open" THEN SameProvenance(d[job[p].sys], job[p].source)
                          ELSE d[job[p].sys] # None

\* Mutant: the document is re-read without registry.lock.
OpenUnlocked(p) ==
    /\ pc[p] \in {"put_open", "del_open"}
    /\ IF Accepted(p, registry)
       THEN /\ regLock' = p
            /\ doc' = [doc EXCEPT ![p] = registry]
            /\ pc' = [pc EXCEPT ![p] =
                         IF pc[p] = "put_open" THEN "put_write" ELSE "del_write"]
            /\ UNCHANGED <<sysLock, job, keep, todo>>
       ELSE Return(p)
    /\ UNCHANGED <<registry, art, exposed>>

OpenWrite(p) ==
    /\ pc[p] \in {"put_open", "del_open"}
    /\ regLock = None
    /\ IF Accepted(p, registry)
       THEN /\ regLock' = p
            /\ doc' = [doc EXCEPT ![p] = registry]
            /\ pc' = [pc EXCEPT ![p] =
                         IF pc[p] = "put_open" THEN "put_write" ELSE "del_write"]
            /\ UNCHANGED <<sysLock, job, keep, todo>>
       ELSE Return(p)
    /\ UNCHANGED <<registry, art, exposed>>

\* Mutant: the record is committed without the revision just published.
CommitUnset(p) ==
    /\ pc[p] = "put_write"
    /\ registry' = [doc[p] EXCEPT ![job[p].sys] =
                       [rev |-> None, source |-> job[p].source]]
    /\ Return(p)
    /\ UNCHANGED <<art, exposed>>

\* The rename of registry.json commits a register, which then returns.
CommitPut(p) ==
    /\ pc[p] = "put_write"
    /\ registry' = [doc[p] EXCEPT ![job[p].sys] =
                       [rev |-> job[p].rev, source |-> job[p].source]]
    /\ Return(p)
    /\ UNCHANGED <<art, exposed>>

\* The rename commits a removal, which goes on to collect artifacts.
CommitDelete(p) ==
    /\ Goto(p, "del_write", "gc_load")
    /\ registry' = [doc[p] EXCEPT ![job[p].sys] = None]
    /\ regLock' = None
    /\ doc' = [doc EXCEPT ![p] = NoDoc]
    /\ UNCHANGED <<art, sysLock, job, keep, todo, exposed>>

-----------------------------------------------------------------------------
(* Remove, after the record is gone                                        *)

StartRemove(p, s) ==
    /\ Goto(p, "idle", "rm_lock")
    /\ job' = [job EXCEPT ![p] = [NoJob EXCEPT !.sys = s]]
    /\ UNCHANGED <<registry, art, exposed, Locals, Locks>>

\* keep is read without registry.lock.
LoadKeep(p) ==
    /\ Goto(p, "gc_load", "gc_list")
    /\ keep' = [keep EXCEPT ![p] = Referenced]
    /\ exposed' = exposed \cup {job[q].rev : q \in {x \in Procs :
                      Publishing(x) /\ job[x].rev \notin Referenced}}
    /\ UNCHANGED <<registry, art, job, doc, todo, Locks>>

\* Mutant: the keep set is not consulted.
ListIgnoringKeep(p) ==
    /\ Goto(p, "gc_list", "gc_sweep")
    /\ todo' = [todo EXCEPT ![p] = {r \in Revs : art[r] # "absent"}]
    /\ UNCHANGED <<registry, art, job, doc, keep, exposed, Locks>>

\* ReadDir once; staging directories (".tmp-") are never listed.
ListArtifacts(p) ==
    /\ Goto(p, "gc_list", "gc_sweep")
    /\ todo' = [todo EXCEPT ![p] = {r \in Revs : art[r] # "absent"} \ keep[p]]
    /\ UNCHANGED <<registry, art, job, doc, keep, exposed, Locks>>

\* RemoveAll of a listed directory starts; nothing is left to do if it is gone.
BeginRemoveAll(p, r) ==
    /\ pc[p] = "gc_sweep"
    /\ r \in todo[p]
    /\ todo' = [todo EXCEPT ![p] = @ \ {r}]
    /\ \/ /\ art[r] = "absent"
          /\ UNCHANGED <<art, pc, job>>
       \/ /\ art[r] # "absent"
          /\ art' = [art EXCEPT ![r] = "partial"]
          /\ pc' = [pc EXCEPT ![p] = "gc_rm"]
          /\ job' = [job EXCEPT ![p].rev = r]
    /\ UNCHANGED <<registry, doc, keep, exposed, Locks>>

EndRemoveAll(p) ==
    /\ Goto(p, "gc_rm", "gc_sweep")
    /\ art' = [art EXCEPT ![job[p].rev] = "absent"]
    /\ job' = [job EXCEPT ![p].rev = None]
    /\ UNCHANGED <<registry, exposed, Locals, Locks>>

FinishRemove(p) ==
    /\ pc[p] = "gc_sweep"
    /\ todo[p] = {}
    /\ Return(p)
    /\ UNCHANGED <<registry, art, exposed>>

-----------------------------------------------------------------------------
(* Inspect: takes no lock                                                  *)

StartInspect(p, s) ==
    /\ Goto(p, "idle", "get_record")
    /\ job' = [job EXCEPT ![p] = [NoJob EXCEPT !.sys = s]]
    /\ UNCHANGED <<registry, art, exposed, Locals, Locks>>

\* Get: the record fixes the revision the rest of the command works on.
GetRecord(p) ==
    /\ pc[p] = "get_record"
    /\ IF registry[job[p].sys] = None
       THEN Return(p)
       ELSE /\ pc' = [pc EXCEPT ![p] = "get_again"]
            /\ job' = [job EXCEPT ![p].rev = registry[job[p].sys].rev]
            /\ UNCHANGED <<Locals, Locks>>
    /\ UNCHANGED <<registry, art, exposed>>

\* Resolve asks for the record again, only to see that it exists.
GetAgain(p) ==
    /\ pc[p] = "get_again"
    /\ IF registry[job[p].sys] = None
       THEN Return(p)
       ELSE /\ pc' = [pc EXCEPT ![p] = "load"]
            /\ UNCHANGED <<job, Locals, Locks>>
    /\ UNCHANGED <<registry, art, exposed>>

\* Load verifies the snapshot; a missing or damaged one is an error.
LoadSnapshot(p) ==
    /\ pc[p] = "load"
    /\ IF art[job[p].rev] = "whole"
       THEN Return(p)
       ELSE /\ pc' = [pc EXCEPT ![p] = "load_failed"]
            /\ UNCHANGED <<job, Locals, Locks>>
    /\ UNCHANGED <<registry, art, exposed>>

ReportFailure(p) ==
    /\ pc[p] = "load_failed"
    /\ Return(p)
    /\ UNCHANGED <<registry, art, exposed>>

-----------------------------------------------------------------------------
(* Failures                                                                *)

\* Mutant: an error path that forgets the deferred unlocks.
FailHoldingLocks(p) ==
    /\ pc[p] \in {"put_write", "del_write"}
    /\ pc' = [pc EXCEPT ![p] = "idle"]
    /\ UNCHANGED <<registry, art, exposed, job, Locals, Locks>>

\* A step that touches the disk fails (a lock, a build, a staged write, the
\* registry write, an unlink) and the command returns its error.
Fail(p) ==
    /\ pc[p] \in {"reg_lock", "reg_build", "pub_rename", "put_open", "put_write",
                  "rm_lock", "del_open", "del_write", "gc_load", "gc_list",
                  "gc_rm"}
    /\ Return(p)
    /\ UNCHANGED <<registry, art, exposed>>

\* The process dies; the kernel drops its locks.
Crash(p) ==
    /\ pc[p] # "idle"
    /\ Return(p)
    /\ UNCHANGED <<registry, art, exposed>>

\* The steps a command takes when nothing goes wrong with the disk.
Progress(p) ==
    \/ LockSystem(p)   \/ CheckProvenance(p) \/ \E r \in Revs : Build(p, r)
    \/ PublishLstat(p) \/ PublishVerify(p)   \/ PublishRename(p)
    \/ OpenWrite(p)    \/ CommitPut(p)       \/ CommitDelete(p)
    \/ LoadKeep(p)     \/ ListArtifacts(p)   \/ \E r \in Revs : BeginRemoveAll(p, r)
    \/ EndRemoveAll(p) \/ FinishRemove(p)
    \/ GetRecord(p)    \/ GetAgain(p)        \/ LoadSnapshot(p)
    \/ ReportFailure(p)

Start(p) ==
    \E s \in Systems :
        \/ \E src \in Sources : StartRegister(p, s, src)
        \/ StartRemove(p, s)
        \/ StartInspect(p, s)

Next == \E p \in Procs : Start(p) \/ Progress(p) \/ Fail(p) \/ Crash(p)

Spec == Init /\ [][Next]_vars

-----------------------------------------------------------------------------
(* Safety                                                                  *)

Intact(r) == art[r] = "whole"

\* Every record of registry.json names a snapshot that is on disk and verifies.
\* Publish comes before the registry write and a removal collects only after its
\* own, so this survives a crash or a failed write at any step while commands do
\* not overlap.  With commands overlapping, a record can dangle in one way only:
\* its revision was published while a removal of another system was between
\* reading its keep set and finishing its sweep (space/remove.go, the keep
\* set is read without any lock that register holds).
DanglingOnlyIfExposed == \A r \in Referenced : Intact(r) \/ r \in exposed

\* No command is between looking at its artifact and committing its record
\* while another one collects, from reading the keep set to the last unlink:
\* what one lock on the store, shared by the two, would give, and what the code
\* has no lock for when the commands are of two systems.
Exclusive ==
    \A p, q \in Procs :
        ~ /\ pc[p] \in {"pub_verify", "pub_rename", "put_open", "put_write"}
          /\ pc[q] \in {"gc_load", "gc_list", "gc_sweep", "gc_rm"}

\* Every record names a snapshot that is on disk and verifies.
RecordsIntact == \A r \in Referenced : Intact(r)

\* A collection deletes no artifact that a registered system refers to at
\* that moment, which is what the comment on space.Remove says it does.
SparesReferenced == \A r \in Revs : Intact(r) /\ ~Intact(r)' => r \notin Referenced
GCSparesReferenced == [][SparesReferenced]_vars

\* An inspect that found a record fails to load its snapshot only if the
\* system was meanwhile removed or moved to another revision, or if the
\* revision was exposed as above: two reads of registry.json and a load of the
\* store, with no lock, still give the answer of one moment.
InspectFailureExcused ==
    \A p \in Procs :
        (pc[p] = "load" /\ pc'[p] = "load_failed") =>
            \/ job[p].rev \notin Referenced
            \/ job[p].rev \in exposed

\* Every failing load of an inspect is excused in this way.
InspectFailsOnlyIfMoved == [][InspectFailureExcused]_vars

\* The registry behaves like the atomic catalog: no update of a concurrent
\* command is lost, and a record never changes its provenance (registry.Put,
\* registry.WithWrite).
Cat == INSTANCE Catalog WITH catalog <- registry
CatalogSpec == Cat!Spec

-----------------------------------------------------------------------------
(* Why every command ends                                                  *)

\* The steps between LockSystem and its deferred unlock, and those between the
\* lock of registry.lock in WithWrite and its own.
UnderSystemLock == (RegisterSteps \cup RemoveSteps) \ {"reg_lock", "rm_lock"}
UnderRegistryLock == {"put_write", "del_write"}

\* A lock file is held by the command that is between its lock and its unlock
\* and by nobody else: no return, error or death leaves one taken, no step that
\* needs one is taken without it, and a register and a remove of one system
\* exclude each other from the check of the provenance to the last unlink.
LocksHeldInside ==
    \A p \in Procs :
        /\ \A s \in Systems :
              sysLock[s] = p <=> pc[p] \in UnderSystemLock /\ job[p].sys = s
        /\ regLock = p <=> pc[p] \in UnderRegistryLock

\* p is blocked in the flock of a lock file that q holds.
WaitsFor(p, q) ==
    \/ pc[p] \in {"reg_lock", "rm_lock"} /\ sysLock[job[p].sys] = q
    \/ pc[p] \in {"put_open", "del_open"} /\ regLock = q

\* Commands never wait in a circle, nor for one that has returned: a command
\* waits for another one that is running, that one at most for a writer of
\* registry.json, and a writer for nobody (the lock of a system comes before
\* registry.lock, and every error path gives both back).
WaitingEnds ==
    \A p, q \in Procs : WaitsFor(p, q) =>
        /\ p # q /\ pc[q] # "idle"
        /\ \A w \in Procs : WaitsFor(q, w) =>
              /\ pc[w] \in UnderRegistryLock
              /\ \A x \in Procs : ~WaitsFor(w, x)

\* How far a command is from its end; a sweep stays at one stage and counts
\* the directories it has still to visit, and the one it is removing.
StepsLeft == [s \in Steps |->
    CASE s = "idle" -> 0
      [] s \in {"put_write", "gc_sweep", "gc_rm", "load_failed"} -> 1
      [] s \in {"put_open", "gc_list", "load"} -> 2
      [] s \in {"pub_verify", "pub_rename", "gc_load", "get_again"} -> 3
      [] s \in {"pub_lstat", "del_write", "get_record"} -> 4
      [] s \in {"reg_build", "del_open"} -> 5
      [] s \in {"reg_check", "rm_lock"} -> 6
      [] s = "reg_lock" -> 7]

SweepLeft(p) == 2 * Cardinality(todo[p]) + IF pc[p] = "gc_rm" THEN 1 ELSE 0

Descends(p) ==
    \/ StepsLeft[pc'[p]] < StepsLeft[pc[p]]
    \/ StepsLeft[pc'[p]] = StepsLeft[pc[p]] /\ SweepLeft(p)' < SweepLeft(p)

\* No command retries or is given more to do: each of its steps brings it
\* nearer to its end, in a well-founded order, and the steps of the others,
\* which may publish artifacts while it sweeps, leave it where it is.
Descending ==
    \A p \in Procs : pc[p] # "idle" =>
        \/ UNCHANGED <<pc[p], job[p], doc[p], keep[p], todo[p]>>
        \/ Descends(p)
CommandsDescend == [][Descending]_vars
=============================================================================
