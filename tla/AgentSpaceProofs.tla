-------------------------- MODULE AgentSpaceProofs --------------------------
(***************************************************************************)
(* Theorems about AgentSpace for every number of processes, systems,        *)
(* sources and revisions.                                                   *)
(***************************************************************************)
EXTENDS AgentSpace, FiniteSetTheorems, TLAPS

(***************************************************************************)
(* What a command knows of its arguments at each step.                      *)
(***************************************************************************)
HasRev == {"pub_lstat", "pub_verify", "pub_rename", "put_open", "put_write",
           "gc_rm", "get_again", "load", "load_failed"}

ArgsOK ==
    \A p \in Procs :
        /\ pc[p] # "idle" => job[p].sys \in Systems
        /\ pc[p] \in RegisterSteps => job[p].source \in Sources
        /\ pc[p] \in HasRev => job[p].rev \in Revs

Typed == TypeOK /\ ArgsOK

(* Returning resets every local of the process and leaves the types alone.  *)
LEMMA ReturnTyped ==
    ASSUME Typed, NEW p \in Procs, Return(p), UNCHANGED <<registry, art, exposed>>
    PROVE  Typed'
<1>1. /\ NoJob \in Job
      /\ NoDoc \in [Systems -> Record \cup {None}]
    BY DEF NoJob, NoDoc, Job
<1>2. TypeOK'
    BY <1>1 DEF Typed, TypeOK, Return, Steps
<1>3. ArgsOK'
    BY DEF Typed, TypeOK, ArgsOK, Return, RegisterSteps, HasRev
<1> QED BY <1>2, <1>3 DEF Typed

(* Every step keeps the state well typed, the arguments of a command         *)
(* included (all the actions of AgentSpace).                                *)
LEMMA StepTyped == Typed /\ [Next]_vars => Typed'
<1> SUFFICES ASSUME Typed, [Next]_vars PROVE Typed'
    OBVIOUS
<1> USE DEF Goto, Locals, Locks
<1>1. CASE UNCHANGED vars
    BY <1>1 DEF Typed, TypeOK, ArgsOK, vars
<1>2. ASSUME NEW p \in Procs, Start(p) PROVE Typed'
    <2>1. ASSUME NEW s \in Systems, NEW src \in Sources, StartRegister(p, s, src)
          PROVE Typed'
        BY <2>1 DEF StartRegister, Typed, TypeOK, ArgsOK, Job, Steps,
                    RegisterSteps, HasRev
    <2>2. ASSUME NEW s \in Systems, StartRemove(p, s) \/ StartInspect(p, s)
          PROVE Typed'
        <3>1. [NoJob EXCEPT !.sys = s] = [sys |-> s, source |-> None, rev |-> None]
            BY DEF NoJob
        <3>2. [sys |-> s, source |-> None, rev |-> None] \in Job
            BY DEF Job
        <3> USE DEF Steps, RegisterSteps, RemoveSteps, InspectSteps, HasRev
        <3>3. CASE StartRemove(p, s)
            BY <3>1, <3>2, <3>3 DEF StartRemove, Typed, TypeOK, ArgsOK
        <3>4. CASE StartInspect(p, s)
            BY <3>1, <3>2, <3>4 DEF StartInspect, Typed, TypeOK, ArgsOK
        <3> QED BY <2>2, <3>3, <3>4
    <2> QED BY <1>2, <2>1, <2>2 DEF Start
<1>3. ASSUME NEW p \in Procs, Progress(p) PROVE Typed'
    <2> USE DEF Steps, RegisterSteps, RemoveSteps, InspectSteps, HasRev
    <2>1. CASE LockSystem(p)
        BY <2>1 DEF LockSystem, Typed, TypeOK, ArgsOK
    <2>2. CASE CheckProvenance(p)
        <3>1. CASE Return(p)
            BY <2>2, <3>1, ReturnTyped DEF CheckProvenance
        <3>2. CASE ~Return(p)
            BY <2>2, <3>2 DEF CheckProvenance, Typed, TypeOK, ArgsOK
        <3> QED BY <3>1, <3>2
    <2>3. ASSUME NEW r \in Revs, Build(p, r) PROVE Typed'
        BY <2>3 DEF Build, Typed, TypeOK, ArgsOK, Job
    <2>4. CASE PublishLstat(p)
        BY <2>4 DEF PublishLstat, Typed, TypeOK, ArgsOK
    <2>5. CASE PublishVerify(p)
        <3>1. CASE Return(p) /\ UNCHANGED exposed
            BY <2>5, <3>1, ReturnTyped DEF PublishVerify
        <3>2. CASE ~(Return(p) /\ UNCHANGED exposed)
            BY <2>5, <3>2 DEF PublishVerify, Expose, Typed, TypeOK, ArgsOK
        <3> QED BY <3>1, <3>2
    <2>6. CASE PublishRename(p)
        <3>1. CASE art[job[p].rev] = "partial"
            BY <2>6, <3>1, ReturnTyped DEF PublishRename
        <3>2. CASE art[job[p].rev] # "partial"
            <4>1. job[p].rev \in Revs
                BY <2>6 DEF PublishRename, Typed, ArgsOK
            <4>2. exposed' \in SUBSET Revs
                BY <2>6, <3>2, <4>1 DEF PublishRename, Expose, Typed, TypeOK
            <4>3. art' \in [Revs -> {"absent", "partial", "whole"}]
                BY <2>6, <3>2 DEF PublishRename, Typed, TypeOK
            <4> QED BY <2>6, <3>2, <4>2, <4>3 DEF PublishRename, Typed, TypeOK, ArgsOK
        <3> QED BY <3>1, <3>2
    <2>7. CASE OpenWrite(p)
        <3>1. CASE Accepted(p, registry)
            BY <2>7, <3>1 DEF OpenWrite, Typed, TypeOK, ArgsOK
        <3>2. CASE ~Accepted(p, registry)
            BY <2>7, <3>2, ReturnTyped DEF OpenWrite
        <3> QED BY <3>1, <3>2
    <2>8. CASE CommitPut(p)
        <3>1. registry' \in [Systems -> Record \cup {None}]
            BY <2>8 DEF CommitPut, Typed, TypeOK, ArgsOK, Record
        <3>2. NoJob \in Job /\ NoDoc \in [Systems -> Record \cup {None}]
            BY DEF NoJob, NoDoc, Job
        <3>3. TypeOK'
            BY <2>8, <3>1, <3>2 DEF CommitPut, Return, Typed, TypeOK
        <3>4. ArgsOK'
            BY <2>8 DEF CommitPut, Return, Typed, TypeOK, ArgsOK
        <3> QED BY <3>3, <3>4 DEF Typed
    <2>9. CASE CommitDelete(p)
        <3>1. NoDoc \in [Systems -> Record \cup {None}]
            BY DEF NoDoc
        <3>2. registry' \in [Systems -> Record \cup {None}]
            BY <2>9 DEF CommitDelete, Typed, TypeOK, ArgsOK
        <3> QED BY <2>9, <3>1, <3>2 DEF CommitDelete, Typed, TypeOK, ArgsOK
    <2>10. CASE LoadKeep(p)
        <3>1. Referenced \in SUBSET Revs
            BY SpaceAssumption DEF Referenced, Typed, TypeOK, Record
        <3>2. {job[q].rev : q \in {x \in Procs :
                  Publishing(x) /\ job[x].rev \notin Referenced}} \in SUBSET Revs
            BY DEF Publishing, Typed, ArgsOK
        <3> QED BY <2>10, <3>1, <3>2 DEF LoadKeep, Typed, TypeOK, ArgsOK
    <2>11. CASE ListArtifacts(p)
        BY <2>11 DEF ListArtifacts, Typed, TypeOK, ArgsOK
    <2>12. ASSUME NEW r \in Revs, BeginRemoveAll(p, r) PROVE Typed'
        <3>1. CASE art[r] = "absent"
            BY <2>12, <3>1 DEF BeginRemoveAll, Typed, TypeOK, ArgsOK
        <3>2. CASE art[r] # "absent"
            <4>1. job' = [job EXCEPT ![p].rev = r] /\ job' \in [Procs -> Job]
                <5>1. job' = [job EXCEPT ![p].rev = r]
                    BY <2>12, <3>2 DEF BeginRemoveAll
                <5>2. job \in [Procs -> Job]
                    BY DEF Typed, TypeOK
                <5> QED BY <5>1, <5>2 DEF Job
            <4>2. art' \in [Revs -> {"absent", "partial", "whole"}]
                BY <2>12, <3>2 DEF BeginRemoveAll, Typed, TypeOK
            <4> QED
                <5>1. pc' = [pc EXCEPT ![p] = "gc_rm"] /\ pc[p] = "gc_sweep"
                    BY <2>12, <3>2 DEF BeginRemoveAll
                <5>2. TypeOK'
                    BY <2>12, <4>1, <4>2, <5>1 DEF BeginRemoveAll, Typed, TypeOK
                <5>3. ArgsOK'
                    BY <4>1, <5>1 DEF Typed, TypeOK, ArgsOK, Job
                <5> QED BY <5>2, <5>3 DEF Typed
        <3> QED BY <3>1, <3>2
    <2>13. CASE EndRemoveAll(p)
        BY <2>13 DEF EndRemoveAll, Typed, TypeOK, ArgsOK, Job
    <2>14. CASE FinishRemove(p) \/ ReportFailure(p)
        BY <2>14, ReturnTyped DEF FinishRemove, ReportFailure
    <2>15. CASE GetRecord(p)
        <3>1. CASE registry[job[p].sys] = None
            BY <2>15, <3>1, ReturnTyped DEF GetRecord
        <3>2. CASE registry[job[p].sys] # None
            <4>1. registry[job[p].sys].rev \in Revs
                BY <2>15, <3>2 DEF GetRecord, Typed, TypeOK, ArgsOK, Record
            <4>2. job' = [job EXCEPT ![p].rev = registry[job[p].sys].rev]
                BY <2>15, <3>2 DEF GetRecord
            <4>3. job' \in [Procs -> Job]
                BY <4>1, <4>2 DEF Typed, TypeOK, Job
            <4>4. ArgsOK'
                BY <2>15, <3>2, <4>1, <4>2 DEF GetRecord, Typed, TypeOK, ArgsOK, Job
            <4> QED BY <2>15, <3>2, <4>3, <4>4 DEF GetRecord, Typed, TypeOK
        <3> QED BY <3>1, <3>2
    <2>16. CASE GetAgain(p)
        <3>1. CASE registry[job[p].sys] = None
            BY <2>16, <3>1, ReturnTyped DEF GetAgain
        <3>2. CASE registry[job[p].sys] # None
            BY <2>16, <3>2 DEF GetAgain, Typed, TypeOK, ArgsOK
        <3> QED BY <3>1, <3>2
    <2>17. CASE LoadSnapshot(p)
        <3>1. CASE art[job[p].rev] = "whole"
            BY <2>17, <3>1, ReturnTyped DEF LoadSnapshot
        <3>2. CASE art[job[p].rev] # "whole"
            BY <2>17, <3>2 DEF LoadSnapshot, Typed, TypeOK, ArgsOK
        <3> QED BY <3>1, <3>2
    <2> QED
        BY <1>3, <2>1, <2>2, <2>3, <2>4, <2>5, <2>6, <2>7, <2>8, <2>9, <2>10,
           <2>11, <2>12, <2>13, <2>14, <2>15, <2>16, <2>17 DEF Progress
<1>4. ASSUME NEW p \in Procs, Fail(p) \/ Crash(p) PROVE Typed'
    BY <1>4, ReturnTyped DEF Fail, Crash
<1> QED BY <1>1, <1>2, <1>3, <1>4 DEF Next

LEMMA TypedAlways == Spec => []Typed
<1>1. Init => Typed
    BY DEF Init, Typed, TypeOK, ArgsOK, NoJob, NoDoc, Job, Steps, RegisterSteps,
           HasRev
<1> QED BY <1>1, StepTyped, PTL DEF Spec

(* The type invariant of the Agent Space: registry, store, locks and the      *)
(* locals of every command keep their types through every step and failure. *)
THEOREM TypeCorrect == Spec => []TypeOK
<1>1. Typed => TypeOK
    BY DEF Typed
<1> QED BY <1>1, TypedAlways, PTL

-----------------------------------------------------------------------------
(***************************************************************************)
(* WithWrite: while a writer holds registry.lock its copy of the document   *)
(* is the document, and what it accepted is still acceptable.               *)
(***************************************************************************)
Writing == {"put_write", "del_write"}

WriterInv ==
    \A p \in Procs :
        /\ pc[p] \in Writing => regLock = p /\ doc[p] = registry
        /\ pc[p] = "put_write" => SameProvenance(registry[job[p].sys], job[p].source)
        /\ pc[p] = "del_write" => registry[job[p].sys] # None

-----------------------------------------------------------------------------
(* A step of p leaves the locals of every other process alone.              *)
Frame(p) ==
    \A q \in Procs \ {p} :
        /\ pc'[q] = pc[q]
        /\ job'[q] = job[q]
        /\ doc'[q] = doc[q]
        /\ keep'[q] = keep[q]
        /\ todo'[q] = todo[q]

\* The steps of p that leave registry.json as it is.
Reading(p) ==
    \/ Start(p)
    \/ LockSystem(p)   \/ CheckProvenance(p) \/ \E r \in Revs : Build(p, r)
    \/ PublishLstat(p) \/ PublishVerify(p)   \/ PublishRename(p)
    \/ OpenWrite(p)
    \/ LoadKeep(p)     \/ ListArtifacts(p)   \/ \E r \in Revs : BeginRemoveAll(p, r)
    \/ EndRemoveAll(p) \/ FinishRemove(p)
    \/ GetRecord(p)    \/ GetAgain(p)        \/ LoadSnapshot(p)
    \/ ReportFailure(p)
    \/ Fail(p)         \/ Crash(p)

(* registry.json changes in the two commits and nowhere else.               *)
LEMMA Commits ==
    ASSUME [Next]_vars
    PROVE  \/ UNCHANGED vars
           \/ \E p \in Procs : \/ CommitPut(p)
                               \/ CommitDelete(p)
                               \/ Reading(p) /\ UNCHANGED registry
<1>1. ASSUME NEW p \in Procs, Start(p) PROVE UNCHANGED registry
    BY <1>1 DEF Start, StartRegister, StartRemove, StartInspect
<1>2. ASSUME NEW p \in Procs, Progress(p), ~CommitPut(p), ~CommitDelete(p)
      PROVE  UNCHANGED registry
    BY <1>2 DEF Progress, LockSystem, CheckProvenance, Build, PublishLstat,
                PublishVerify, PublishRename, OpenWrite, LoadKeep, ListArtifacts,
                BeginRemoveAll, EndRemoveAll, FinishRemove, GetRecord, GetAgain,
                LoadSnapshot, ReportFailure
<1>3. ASSUME NEW p \in Procs, Fail(p) \/ Crash(p) PROVE UNCHANGED registry
    BY <1>3 DEF Fail, Crash
<1> QED BY <1>1, <1>2, <1>3 DEF Next, Progress, Reading

LEMMA ReturnFrame ==
    ASSUME Typed, NEW p \in Procs, Return(p)
    PROVE  /\ Frame(p)
           /\ pc'[p] = "idle"
           /\ regLock' = IF regLock = p THEN None ELSE regLock
BY DEF Typed, TypeOK, Return, Frame

(* What a step that does not write the registry does to the lock on it.     *)
LEMMA ReadingFrame ==
    ASSUME Typed, NEW p \in Procs, Reading(p)
    PROVE  /\ Frame(p)
           /\ \/ /\ UNCHANGED regLock
                 /\ pc'[p] \notin Writing
                 /\ pc[p] \notin Writing
              \/ /\ regLock' = IF regLock = p THEN None ELSE regLock
                 /\ pc'[p] = "idle"
              \/ /\ OpenWrite(p)
                 /\ Accepted(p, registry)
<1> USE DEF Goto, Locals, Locks
<1>1. CASE Start(p)
    BY <1>1 DEF Start, StartRegister, StartRemove, StartInspect, Typed, TypeOK,
                Frame, Writing
<1>2. CASE Fail(p) \/ Crash(p) \/ FinishRemove(p) \/ ReportFailure(p)
    BY <1>2, ReturnFrame DEF Fail, Crash, FinishRemove, ReportFailure
<1>3. CASE LockSystem(p)
    BY <1>3 DEF LockSystem, Typed, TypeOK, Frame, Writing
<1>4. CASE CheckProvenance(p)
    BY <1>4, ReturnFrame DEF CheckProvenance, Typed, TypeOK, Frame, Writing
<1>5. ASSUME NEW r \in Revs, Build(p, r)
      PROVE  Frame(p) /\ UNCHANGED regLock /\ pc'[p] \notin Writing /\ pc[p] \notin Writing
    BY <1>5 DEF Build, Typed, TypeOK, Frame, Writing
<1>6. CASE PublishLstat(p)
    BY <1>6 DEF PublishLstat, Typed, TypeOK, Frame, Writing
<1>7. CASE PublishVerify(p)
    BY <1>7, ReturnFrame DEF PublishVerify, Typed, TypeOK, Frame, Writing
<1>8. CASE PublishRename(p)
    BY <1>8, ReturnFrame DEF PublishRename, Typed, TypeOK, Frame, Writing
<1>9. CASE OpenWrite(p)
    BY <1>9, ReturnFrame DEF OpenWrite, Typed, TypeOK, Frame
<1>10. CASE LoadKeep(p)
    BY <1>10 DEF LoadKeep, Typed, TypeOK, Frame, Writing
<1>11. CASE ListArtifacts(p)
    BY <1>11 DEF ListArtifacts, Typed, TypeOK, Frame, Writing
<1>12. ASSUME NEW r \in Revs, BeginRemoveAll(p, r)
       PROVE  Frame(p) /\ UNCHANGED regLock /\ pc'[p] \notin Writing /\ pc[p] \notin Writing
    BY <1>12 DEF BeginRemoveAll, Typed, TypeOK, Frame, Writing
<1>13. CASE EndRemoveAll(p)
    BY <1>13 DEF EndRemoveAll, Typed, TypeOK, Frame, Writing
<1>14. CASE GetRecord(p) \/ GetAgain(p) \/ LoadSnapshot(p)
    BY <1>14, ReturnFrame DEF GetRecord, GetAgain, LoadSnapshot, Typed, TypeOK,
                              Frame, Writing
<1> QED
    BY <1>1, <1>2, <1>3, <1>4, <1>5, <1>6, <1>7, <1>8, <1>9, <1>10, <1>11,
       <1>12, <1>13, <1>14 DEF Reading

-----------------------------------------------------------------------------
(* What a commit does, given that the writer's copy is the document.        *)
LEMMA PutEffect ==
    ASSUME Typed, WriterInv, NEW p \in Procs, CommitPut(p)
    PROVE  /\ job[p].sys \in Systems
           /\ [rev |-> job[p].rev, source |-> job[p].source] \in Record
           /\ SameProvenance(registry[job[p].sys], job[p].source)
           /\ registry' = [registry EXCEPT ![job[p].sys] =
                              [rev |-> job[p].rev, source |-> job[p].source]]
<1>1. pc[p] = "put_write" /\ doc[p] = registry
    BY DEF CommitPut, WriterInv, Writing
<1>2. job[p].sys \in Systems /\ job[p].rev \in Revs /\ job[p].source \in Sources
    BY <1>1 DEF Typed, ArgsOK, RegisterSteps, HasRev
<1> QED BY <1>1, <1>2 DEF CommitPut, WriterInv, Record

LEMMA DeleteEffect ==
    ASSUME Typed, WriterInv, NEW p \in Procs, CommitDelete(p)
    PROVE  /\ job[p].sys \in Systems
           /\ registry[job[p].sys] # None
           /\ registry' = [registry EXCEPT ![job[p].sys] = None]
<1>1. pc[p] = "del_write" /\ doc[p] = registry
    BY DEF CommitDelete, Goto, WriterInv, Writing
<1> QED BY <1>1 DEF CommitDelete, WriterInv, Typed, ArgsOK

(* The writers' invariant is inductive: only the holder of registry.lock     *)
(* commits, so nobody's copy goes stale.                                    *)
LEMMA StepWriter == Typed /\ WriterInv /\ [Next]_vars => WriterInv'
<1> SUFFICES ASSUME Typed, WriterInv, [Next]_vars PROVE WriterInv'
    OBVIOUS
<1>1. CASE UNCHANGED vars
    BY <1>1 DEF vars, WriterInv, SameProvenance
<1>2. ASSUME NEW p \in Procs, CommitPut(p) \/ CommitDelete(p) PROVE WriterInv'
    <2>1. Frame(p) /\ pc'[p] \notin Writing
        BY <1>2, ReturnFrame DEF CommitPut, CommitDelete, Goto, Typed, TypeOK,
                                 Frame, Writing
    <2>2. regLock = p
        BY <1>2 DEF CommitPut, CommitDelete, Goto, WriterInv, Writing
    <2>3. ASSUME NEW q \in Procs PROVE pc'[q] \notin Writing
        BY <2>1, <2>2, <2>3 DEF Frame, WriterInv
    <2> QED BY <2>3 DEF WriterInv, Writing
<1>3. ASSUME NEW p \in Procs, Reading(p), UNCHANGED registry PROVE WriterInv'
    <2>1. ASSUME NEW q \in Procs \ {p}, UNCHANGED regLock \/ regLock = p
                                             \/ regLock = None
          PROVE  /\ pc'[q] \in Writing =>
                       regLock = q /\ UNCHANGED regLock /\ doc'[q] = registry'
                 /\ pc'[q] = "put_write" =>
                       SameProvenance(registry'[job'[q].sys], job'[q].source)
                 /\ pc'[q] = "del_write" => registry'[job'[q].sys] # None
        <3>1. Frame(p)
            BY <1>3, ReadingFrame
        <3>2. None \notin Procs
            BY SpaceAssumption
        <3> QED BY <1>3, <2>1, <3>1, <3>2 DEF Frame, WriterInv, Writing, SameProvenance
    <2>2. CASE UNCHANGED regLock /\ pc'[p] \notin Writing
        BY <1>3, <2>1, <2>2 DEF WriterInv, Writing
    <2>3. CASE regLock' = (IF regLock = p THEN None ELSE regLock) /\ pc'[p] = "idle"
        BY <1>3, <2>1, <2>3 DEF WriterInv, Writing
    <2>4. CASE OpenWrite(p) /\ Accepted(p, registry)
        <3>1. /\ regLock = None
              /\ regLock' = p
              /\ doc'[p] = registry
              /\ job'[p] = job[p]
              /\ \/ pc[p] = "put_open" /\ pc'[p] = "put_write"
                 \/ pc[p] = "del_open" /\ pc'[p] = "del_write"
            <4>1. /\ pc[p] \in {"put_open", "del_open"}
                  /\ regLock = None
                  /\ regLock' = p
                  /\ doc' = [doc EXCEPT ![p] = registry]
                  /\ pc' = [pc EXCEPT ![p] = IF pc[p] = "put_open" THEN "put_write"
                                                                ELSE "del_write"]
                  /\ job' = job
                BY <2>4, Zenon DEF OpenWrite
            <4> QED BY <4>1 DEF Typed, TypeOK
        <3>2. /\ pc'[p] = "put_write" =>
                    SameProvenance(registry[job[p].sys], job[p].source)
              /\ pc'[p] = "del_write" => registry[job[p].sys] # None
            BY <2>4, <3>1 DEF Accepted
        <3>3. ASSUME NEW q \in Procs \ {p} PROVE pc'[q] \notin Writing
            BY <1>3, <3>1, <3>3, ReadingFrame, SpaceAssumption
            DEF Frame, WriterInv, Writing
        <3>4. /\ regLock' = p /\ doc'[p] = registry'
              /\ pc'[p] = "put_write" =>
                    SameProvenance(registry'[job'[p].sys], job'[p].source)
              /\ pc'[p] = "del_write" => registry'[job'[p].sys] # None
            BY <1>3, <3>1, <3>2
        <3> QED BY <3>3, <3>4 DEF WriterInv, Writing, SameProvenance
    <2> QED BY <1>3, <2>2, <2>3, <2>4, ReadingFrame
<1> QED BY <1>1, <1>2, <1>3, Commits

(* Only the two commits touch registry.json, and they do to it what the      *)
(* catalog's atomic steps do: no lost update, no change of provenance.      *)
LEMMA StepCatalog == Typed /\ WriterInv /\ [Next]_vars => [Cat!Next]_registry
<1> SUFFICES ASSUME Typed, WriterInv, [Next]_vars PROVE [Cat!Next]_registry
    OBVIOUS
<1>1. CASE UNCHANGED vars
    BY <1>1 DEF vars
<1>2. ASSUME NEW p \in Procs, CommitPut(p) PROVE Cat!Next
    <2>1. \E rec \in Record :
              Cat!Install(job[p].sys, rec) \/ Cat!Update(job[p].sys, rec)
        <3>1. [rev |-> job[p].rev, source |-> job[p].source] \in Record
            BY <1>2, PutEffect
        <3>2. Cat!Install(job[p].sys, [rev |-> job[p].rev, source |-> job[p].source])
              \/ Cat!Update(job[p].sys, [rev |-> job[p].rev, source |-> job[p].source])
            BY <1>2, PutEffect DEF Cat!Install, Cat!Update, SameProvenance
        <3> QED BY <3>1, <3>2
    <2> QED BY <1>2, <2>1, PutEffect DEF Cat!Next, Cat!Record, Record
<1>3. ASSUME NEW p \in Procs, CommitDelete(p) PROVE Cat!Next
    BY <1>3, DeleteEffect DEF Cat!Next, Cat!Uninstall
<1> QED BY <1>1, <1>2, <1>3, Commits

LEMMA WriterAlways == Spec => []WriterInv
<1>1. Init => WriterInv
    BY DEF Init, WriterInv, Writing
<1> QED BY <1>1, StepWriter, TypedAlways, PTL DEF Spec

(* The registry of every number of concurrent commands implements the atomic *)
(* catalog.                                                                 *)
THEOREM ImplementsCatalog == Spec => CatalogSpec
<1>1. Init => Cat!Init
    BY DEF Init, Cat!Init
<1> QED
    BY <1>1, StepCatalog, TypedAlways, WriterAlways, PTL
    DEF Spec, CatalogSpec, Cat!Spec

-----------------------------------------------------------------------------
(***************************************************************************)
(* The store.  A revision is wanted when a record names it or a command is  *)
(* about to commit one that does.  Unless it was exposed, a wanted revision *)
(* is intact and no running collection condemns it.                         *)
(***************************************************************************)
Wanted(r) == r \in Referenced \/ \E p \in Procs : Publishing(p) /\ job[p].rev = r

StoreInv ==
    \A r \in Revs \ exposed :
        Wanted(r) => Intact(r) /\ \A q \in Procs : ~Condemns(q, r)

(* A step that wants and condemns nothing new keeps the store's invariant if  *)
(* it damages only what was condemned.                                      *)
LEMMA QuietStep ==
    ASSUME StoreInv,
           exposed \subseteq exposed',
           \A r \in Revs : Wanted(r)' => Wanted(r),
           \A q \in Procs, r \in Revs : Condemns(q, r)' => Condemns(q, r),
           \A r \in Revs : Intact(r) /\ ~Intact(r)' =>
                              \E q \in Procs : Condemns(q, r)
    PROVE  StoreInv'
BY DEF StoreInv

(* Quiet steps of one process, said of that process alone.                   *)
LEMMA QuietLocal ==
    ASSUME StoreInv, NEW p \in Procs, Frame(p),
           UNCHANGED <<registry, art, exposed>>,
           Publishing(p)' => Publishing(p) /\ job'[p] = job[p],
           \A r \in Revs : Condemns(p, r)' => Condemns(p, r)
    PROVE  StoreInv'
<1>1. \A r \in Revs : Wanted(r)' => Wanted(r)
    BY DEF Wanted, Publishing, Referenced, Frame
<1>2. \A q \in Procs, r \in Revs : Condemns(q, r)' => Condemns(q, r)
    BY DEF Condemns, Frame
<1>3. \A r \in Revs : Intact(r)' = Intact(r)
    BY DEF Intact
<1> QED BY <1>1, <1>2, <1>3, QuietStep

LEMMA ReturnStore ==
    ASSUME Typed, StoreInv, NEW p \in Procs, Return(p),
           UNCHANGED <<registry, art, exposed>>
    PROVE  StoreInv'
<1>1. Frame(p) /\ pc'[p] = "idle"
    BY ReturnFrame
<1>2. ~Publishing(p)' /\ \A r \in Revs : ~Condemns(p, r)'
    BY <1>1 DEF Publishing, Condemns
<1> QED BY <1>1, <1>2, QuietLocal

(* A published revision is intact, and exposed if a collection condemns it.   *)
LEMMA PublishStore ==
    ASSUME Typed, StoreInv, NEW p \in Procs, Frame(p),
           pc'[p] = "put_open", ~Publishing(p), job'[p] = job[p], Expose(p),
           UNCHANGED registry,
           job[p].rev \in Revs,
           art' = [art EXCEPT ![job[p].rev] = "whole"]
    PROVE  StoreInv'
<1> DEFINE rev == job[p].rev
<1>1. \A r \in Revs : Wanted(r)' => Wanted(r) \/ r = rev
    BY DEF Wanted, Publishing, Referenced, Frame
<1>2. \A q \in Procs, r \in Revs : Condemns(q, r)' => Condemns(q, r)
    BY DEF Condemns, Frame
<1>3. \A r \in Revs : (Intact(r) => Intact(r)') /\ Intact(rev)'
    BY DEF Intact, Typed, TypeOK
<1>4. /\ exposed \subseteq exposed'
      /\ (\E q \in Procs : Condemns(q, rev)) => rev \in exposed'
    BY DEF Expose
<1> QED BY <1>1, <1>2, <1>3, <1>4 DEF StoreInv

LEMMA StepStore == Typed /\ WriterInv /\ StoreInv /\ [Next]_vars => StoreInv'
<1> SUFFICES ASSUME Typed, WriterInv, StoreInv, [Next]_vars PROVE StoreInv'
    OBVIOUS
<1> USE DEF Goto, Locals, Locks
<1>1. CASE UNCHANGED vars
    BY <1>1 DEF vars, StoreInv, Wanted, Publishing, Referenced, Condemns, Intact
<1>2. ASSUME NEW p \in Procs, CommitPut(p) PROVE StoreInv'
    <2>1. Frame(p) /\ pc'[p] = "idle" /\ UNCHANGED <<art, exposed>>
        BY <1>2, ReturnFrame DEF CommitPut
    <2>2. Publishing(p)
        BY <1>2 DEF CommitPut, Publishing
    <2>3. \A r \in Revs : r \in Referenced' => r \in Referenced \/ r = job[p].rev
        <3> DEFINE rec == [rev |-> job[p].rev, source |-> job[p].source]
        <3>1. registry' = [registry EXCEPT ![job[p].sys] = rec] /\ rec.rev = job[p].rev
            BY <1>2, PutEffect
        <3>2. registry \in [Systems -> Record \cup {None}]
            BY DEF Typed, TypeOK
        <3> HIDE DEF rec
        <3>3. \A s \in Systems : registry'[s] = registry[s] \/ registry'[s] = rec
            BY <3>1, <3>2
        <3> QED BY <3>1, <3>3 DEF Referenced
    <2>4. \A r \in Revs : Wanted(r)' => Wanted(r)
        BY <2>1, <2>2, <2>3 DEF Wanted, Publishing, Frame
    <2>5. \A q \in Procs, r \in Revs : Condemns(q, r)' => Condemns(q, r)
        BY <2>1 DEF Condemns, Frame
    <2>6. \A r \in Revs : Intact(r)' = Intact(r)
        BY <2>1 DEF Intact
    <2> QED BY <2>1, <2>4, <2>5, <2>6, QuietStep
<1>3. ASSUME NEW p \in Procs, CommitDelete(p) PROVE StoreInv'
    <2>1. Frame(p) /\ pc'[p] = "gc_load" /\ UNCHANGED <<art, exposed>>
        BY <1>3 DEF CommitDelete, Typed, TypeOK, Frame
    <2>2. \A r \in Revs : r \in Referenced' => r \in Referenced
        <3>1. \A s \in Systems : registry'[s] # None => registry'[s] = registry[s]
            BY <1>3, DeleteEffect DEF Typed, TypeOK
        <3> QED BY <3>1 DEF Referenced
    <2>3. \A r \in Revs : Wanted(r)' => Wanted(r)
        BY <2>1, <2>2 DEF Wanted, Publishing, Frame
    <2>4. \A q \in Procs, r \in Revs : Condemns(q, r)' => Condemns(q, r)
        BY <2>1 DEF Condemns, Frame
    <2>5. \A r \in Revs : Intact(r)' = Intact(r)
        BY <2>1 DEF Intact
    <2> QED BY <2>1, <2>3, <2>4, <2>5, QuietStep
<1>4. ASSUME NEW p \in Procs, Reading(p), UNCHANGED registry PROVE StoreInv'
    <2>0. Frame(p)
        BY <1>4, ReadingFrame
    <2>1. CASE Start(p)
        BY <2>0, <2>1, QuietLocal
        DEF Start, StartRegister, StartRemove, StartInspect, Publishing, Condemns,
            Typed, TypeOK
    <2>2. CASE LockSystem(p)
        BY <2>0, <2>2, QuietLocal DEF LockSystem, Publishing, Condemns, Typed, TypeOK
    <2>3. CASE CheckProvenance(p)
        BY <2>0, <2>3, QuietLocal, ReturnStore
        DEF CheckProvenance, Publishing, Condemns, Typed, TypeOK
    <2>4. ASSUME NEW r \in Revs, Build(p, r) PROVE StoreInv'
        BY <2>0, <2>4, QuietLocal DEF Build, Publishing, Condemns, Typed, TypeOK
    <2>5. CASE PublishLstat(p)
        BY <2>0, <2>5, QuietLocal DEF PublishLstat, Publishing, Condemns, Typed, TypeOK
    <2>6. CASE PublishVerify(p)
        <3>1. CASE art[job[p].rev] = "whole"
            <4>1. /\ pc[p] = "pub_verify" /\ pc'[p] = "put_open"
                  /\ Expose(p) /\ UNCHANGED <<job, art>>
                BY <2>6, <3>1 DEF PublishVerify, Typed, TypeOK
            <4>2. job[p].rev \in Revs
                BY <4>1 DEF Typed, ArgsOK, HasRev
            <4>3. art' = [art EXCEPT ![job[p].rev] = "whole"]
                BY <3>1, <4>1, <4>2 DEF Typed, TypeOK
            <4> QED BY <1>4, <2>0, <4>1, <4>2, <4>3, PublishStore DEF Publishing
        <3>2. CASE art[job[p].rev] # "whole"
            BY <1>4, <2>6, <3>2, ReturnStore DEF PublishVerify
        <3> QED BY <3>1, <3>2
    <2>7. CASE PublishRename(p)
        <3>1. CASE art[job[p].rev] = "partial"
            BY <1>4, <2>7, <3>1, ReturnStore DEF PublishRename
        <3>2. CASE art[job[p].rev] # "partial"
            <4>1. /\ pc[p] = "pub_rename" /\ pc'[p] = "put_open"
                  /\ Expose(p) /\ UNCHANGED job
                  /\ art' = [art EXCEPT ![job[p].rev] = "whole"]
                BY <2>7, <3>2 DEF PublishRename, Typed, TypeOK
            <4>2. job[p].rev \in Revs
                BY <4>1 DEF Typed, ArgsOK, HasRev
            <4> QED BY <1>4, <2>0, <4>1, <4>2, PublishStore DEF Publishing
        <3> QED BY <3>1, <3>2
    <2>8. CASE OpenWrite(p)
        <3>1. CASE Return(p)
            BY <1>4, <2>8, <3>1, ReturnStore DEF OpenWrite
        <3>2. CASE ~Return(p)
            BY <2>0, <2>8, <3>2, QuietLocal
            DEF OpenWrite, Publishing, Condemns, Typed, TypeOK
        <3> QED BY <3>1, <3>2
    <2>9. CASE LoadKeep(p)
        <3>1. /\ pc[p] = "gc_load" /\ pc'[p] = "gc_list"
              /\ keep'[p] = Referenced
              /\ UNCHANGED <<art, job>>
            BY <2>9 DEF LoadKeep, Typed, TypeOK
        <3>2. \A r \in Revs : Wanted(r)' => Wanted(r)
            BY <1>4, <2>0, <3>1 DEF Wanted, Publishing, Referenced, Frame
        <3>3. \A q \in Procs \ {p}, r \in Revs : Condemns(q, r)' => Condemns(q, r)
            BY <2>0, <3>1 DEF Condemns, Frame
        <3>4. \A r \in Revs : Condemns(p, r)' => r \notin Referenced
            BY <3>1 DEF Condemns
        <3>5. /\ exposed \subseteq exposed'
              /\ \A r \in Revs : Wanted(r) /\ r \notin Referenced => r \in exposed'
            BY <2>9 DEF LoadKeep, Wanted
        <3>6. \A r \in Revs : Intact(r)' = Intact(r)
            BY <3>1 DEF Intact
        <3> QED BY <3>2, <3>3, <3>4, <3>5, <3>6 DEF StoreInv
    <2>10. CASE ListArtifacts(p)
        BY <2>0, <2>10, QuietLocal DEF ListArtifacts, Publishing, Condemns, Typed, TypeOK
    <2>11. ASSUME NEW r \in Revs, BeginRemoveAll(p, r) PROVE StoreInv'
        <3>1. /\ pc[p] = "gc_sweep" /\ r \in todo[p]
              /\ pc'[p] \in {"gc_sweep", "gc_rm"}
              /\ todo'[p] = todo[p] \ {r}
              /\ pc'[p] = "gc_rm" => job'[p].rev = r
              /\ UNCHANGED <<registry, keep, exposed>>
              /\ \A x \in Revs \ {r} : art'[x] = art[x]
            BY <2>11 DEF BeginRemoveAll, Typed, TypeOK, Job
        <3>2. \A x \in Revs : Wanted(x)' => Wanted(x)
            BY <2>0, <3>1 DEF Wanted, Publishing, Referenced, Frame
        <3>3. Condemns(p, r)
            BY <3>1 DEF Condemns
        <3>4. \A q \in Procs, x \in Revs : Condemns(q, x)' => Condemns(q, x)
            BY <2>0, <3>1, <3>3 DEF Condemns, Frame
        <3>5. \A x \in Revs \ {r} : Intact(x)' = Intact(x)
            BY <3>1 DEF Intact
        <3> QED BY <3>1, <3>2, <3>3, <3>4, <3>5, QuietStep
    <2>12. CASE EndRemoveAll(p)
        <3>1. /\ pc[p] = "gc_rm" /\ pc'[p] = "gc_sweep"
              /\ UNCHANGED <<registry, todo, keep, exposed>>
              /\ \A x \in Revs \ {job[p].rev} : art'[x] = art[x]
            BY <2>12 DEF EndRemoveAll, Typed, TypeOK
        <3>2. \A x \in Revs : Wanted(x)' => Wanted(x)
            BY <2>0, <3>1 DEF Wanted, Publishing, Referenced, Frame
        <3>3. Condemns(p, job[p].rev)
            BY <3>1 DEF Condemns
        <3>4. \A q \in Procs, x \in Revs : Condemns(q, x)' => Condemns(q, x)
            BY <2>0, <3>1 DEF Condemns, Frame
        <3>5. \A x \in Revs \ {job[p].rev} : Intact(x)' = Intact(x)
            BY <3>1 DEF Intact
        <3> QED BY <3>1, <3>2, <3>3, <3>4, <3>5, QuietStep
    <2>13. CASE FinishRemove(p) \/ ReportFailure(p) \/ Fail(p) \/ Crash(p)
        BY <1>4, <2>13, ReturnStore DEF FinishRemove, ReportFailure, Fail, Crash
    <2>14. CASE GetRecord(p)
        BY <2>0, <2>14, QuietLocal, ReturnStore
        DEF GetRecord, Publishing, Condemns, Typed, TypeOK
    <2>15. CASE GetAgain(p) \/ LoadSnapshot(p)
        BY <2>0, <2>15, QuietLocal, ReturnStore
        DEF GetAgain, LoadSnapshot, Publishing, Condemns, Typed, TypeOK
    <2> QED
        BY <1>4, <2>1, <2>2, <2>3, <2>4, <2>5, <2>6, <2>7, <2>8, <2>9, <2>10,
           <2>11, <2>12, <2>13, <2>14, <2>15 DEF Reading
<1> QED BY <1>1, <1>2, <1>3, <1>4, Commits

(* A record of registry.json whose snapshot is missing or damaged was exposed: *)
(* published while a collection was running that had decided without it.     *)
THEOREM DanglesOnlyIfExposed == Spec => []DanglingOnlyIfExposed
<1>1. Init => StoreInv
    BY DEF Init, StoreInv, Wanted, Referenced, Publishing
<1>2. Typed /\ StoreInv => DanglingOnlyIfExposed
    <2>1. Typed => Referenced \subseteq Revs
        BY SpaceAssumption DEF Typed, TypeOK, Referenced, Record
    <2> QED BY <2>1 DEF StoreInv, Wanted, DanglingOnlyIfExposed
<1> QED
    BY <1>1, <1>2, StepStore, TypedAlways, WriterAlways, PTL DEF Spec

(* A load that fails under an inspect had its revision superseded, removed or  *)
(* exposed.                                                                 *)
THEOREM InspectFailsOnlyIfMovedHolds == Spec => InspectFailsOnlyIfMoved
<1>1. Typed /\ DanglingOnlyIfExposed /\ [Next]_vars => [InspectFailureExcused]_vars
    <2> SUFFICES ASSUME Typed, DanglingOnlyIfExposed, [Next]_vars,
                        NEW p \in Procs, pc[p] = "load", pc'[p] = "load_failed"
                 PROVE  ~Intact(job[p].rev)
        BY DEF DanglingOnlyIfExposed, InspectFailureExcused
    <2>1. PICK x \in Procs : Start(x) \/ Progress(x) \/ Fail(x) \/ Crash(x)
        BY DEF Next, vars
    <2>2. x = p
        <3>1. CommitPut(x) \/ CommitDelete(x) \/ Reading(x)
            BY <2>1 DEF Progress, Reading
        <3>2. Frame(x)
            BY <3>1, ReturnFrame, ReadingFrame
            DEF CommitPut, CommitDelete, Goto, Typed, TypeOK, Frame
        <3> QED BY <3>2 DEF Frame
    <2>3. ~Return(p)
        BY ReturnFrame
    <2> USE DEF Goto
    <2>4. ~Start(p) /\ ~Fail(p) /\ ~Crash(p)
        BY <2>3 DEF Start, StartRegister, StartRemove, StartInspect, Fail, Crash
    <2>5. \A r \in Revs : ~Build(p, r) /\ ~BeginRemoveAll(p, r)
        BY DEF Build, BeginRemoveAll
    <2>6. /\ ~LockSystem(p) /\ ~CheckProvenance(p) /\ ~PublishLstat(p)
          /\ ~PublishVerify(p) /\ ~PublishRename(p) /\ ~OpenWrite(p)
          /\ ~CommitPut(p) /\ ~CommitDelete(p) /\ ~LoadKeep(p)
        <3>1. ~LockSystem(p) /\ ~PublishLstat(p) /\ ~CommitDelete(p) /\ ~LoadKeep(p)
            BY DEF LockSystem, PublishLstat, CommitDelete, LoadKeep
        <3>2. ~CheckProvenance(p) /\ ~PublishVerify(p) /\ ~PublishRename(p)
            BY DEF CheckProvenance, PublishVerify, PublishRename
        <3>3. ~OpenWrite(p) /\ ~CommitPut(p)
            BY DEF OpenWrite, CommitPut
        <3> QED BY <3>1, <3>2, <3>3
    <2>7. /\ ~ListArtifacts(p) /\ ~EndRemoveAll(p) /\ ~FinishRemove(p)
          /\ ~GetRecord(p) /\ ~GetAgain(p) /\ ~ReportFailure(p)
        BY DEF ListArtifacts, EndRemoveAll, FinishRemove, GetRecord, GetAgain,
               ReportFailure
    <2>8. LoadSnapshot(p)
        BY <2>1, <2>2, <2>4, <2>5, <2>6, <2>7 DEF Progress
    <2> QED BY <2>3, <2>8 DEF LoadSnapshot, Intact
<1> QED
    BY <1>1, TypedAlways, DanglesOnlyIfExposed, PTL DEF Spec, InspectFailsOnlyIfMoved

-----------------------------------------------------------------------------
(***************************************************************************)
(* Why every command ends: the locks are where the code holds them, nobody  *)
(* waits in a circle, and every step of a command counts.                   *)
(***************************************************************************)

\* A step of p that keeps its locks and stays on the same side of them.
KeepsLocks(p) ==
    /\ UNCHANGED Locks
    /\ job'[p].sys = job[p].sys
    /\ pc'[p] \in UnderSystemLock <=> pc[p] \in UnderSystemLock
    /\ pc'[p] \in UnderRegistryLock <=> pc[p] \in UnderRegistryLock

(* What each step does to the two kinds of locks: a command starts without   *)
(* any, keeps those it has, takes one, drops one, or returns and drops all.  *)
LEMMA LockEffect ==
    ASSUME Typed, NEW p \in Procs, Start(p) \/ Progress(p) \/ Fail(p) \/ Crash(p)
    PROVE  /\ Frame(p)
           /\ \/ Return(p)
              \/ KeepsLocks(p)
              \/ /\ UNCHANGED Locks
                 /\ pc[p] = "idle" /\ pc'[p] \notin UnderSystemLock \cup UnderRegistryLock
              \/ LockSystem(p)
              \/ OpenWrite(p)
              \/ CommitDelete(p)
<1> USE DEF Goto, Locals, Locks
<1>1. CASE Start(p)
    BY <1>1 DEF Start, StartRegister, StartRemove, StartInspect, Typed, TypeOK,
                Frame, UnderSystemLock, UnderRegistryLock, RegisterSteps, RemoveSteps
<1>2. CASE Fail(p) \/ Crash(p) \/ FinishRemove(p) \/ ReportFailure(p) \/ CommitPut(p)
    BY <1>2, ReturnFrame DEF Fail, Crash, FinishRemove, ReportFailure, CommitPut
<1>3. CASE LockSystem(p)
    BY <1>3 DEF LockSystem, Typed, TypeOK, Frame
<1>4. CASE OpenWrite(p)
    BY <1>4, ReturnFrame DEF OpenWrite, Typed, TypeOK, Frame
<1>5. CASE CommitDelete(p)
    BY <1>5 DEF CommitDelete, Typed, TypeOK, Frame
<1>6. CASE Return(p)
    BY <1>6, ReturnFrame
<1> USE DEF KeepsLocks, UnderSystemLock, UnderRegistryLock, RegisterSteps, RemoveSteps
<1>7. CASE CheckProvenance(p)
    BY <1>6, <1>7 DEF CheckProvenance, Typed, TypeOK, Frame
<1>8. ASSUME NEW r \in Revs, Build(p, r) PROVE Frame(p) /\ KeepsLocks(p)
    BY <1>8 DEF Build, Typed, TypeOK, Frame, Job
<1>9. CASE PublishLstat(p)
    BY <1>9 DEF PublishLstat, Typed, TypeOK, Frame
<1>10. CASE PublishVerify(p)
    BY <1>6, <1>10 DEF PublishVerify, Typed, TypeOK, Frame
<1>11. CASE PublishRename(p)
    BY <1>6, <1>11 DEF PublishRename, Typed, TypeOK, Frame
<1>12. CASE LoadKeep(p)
    BY <1>12 DEF LoadKeep, Typed, TypeOK, Frame
<1>13. CASE ListArtifacts(p)
    BY <1>13 DEF ListArtifacts, Typed, TypeOK, Frame
<1>14. ASSUME NEW r \in Revs, BeginRemoveAll(p, r) PROVE Frame(p) /\ KeepsLocks(p)
    BY <1>14 DEF BeginRemoveAll, Typed, TypeOK, Frame, Job
<1>15. CASE EndRemoveAll(p)
    BY <1>15 DEF EndRemoveAll, Typed, TypeOK, Frame, Job
<1>16. CASE GetRecord(p)
    BY <1>6, <1>16 DEF GetRecord, Typed, TypeOK, Frame, Job
<1>17. CASE GetAgain(p) \/ LoadSnapshot(p)
    BY <1>6, <1>17 DEF GetAgain, LoadSnapshot, Typed, TypeOK, Frame
<1> QED
    BY <1>1, <1>2, <1>3, <1>4, <1>5, <1>7, <1>8, <1>9, <1>10, <1>11, <1>12,
       <1>13, <1>14, <1>15, <1>16, <1>17 DEF Progress

(* No step takes or drops a lock on another command's behalf.                *)
LEMMA StepLocks == Typed /\ LocksHeldInside /\ [Next]_vars => LocksHeldInside'
<1> SUFFICES ASSUME Typed, LocksHeldInside, [Next]_vars PROVE LocksHeldInside'
    OBVIOUS
<1>1. CASE UNCHANGED vars
    BY <1>1 DEF vars, LocksHeldInside
<1>2. ASSUME NEW p \in Procs, Start(p) \/ Progress(p) \/ Fail(p) \/ Crash(p)
      PROVE  LocksHeldInside'
    <2> DEFINE Inside(q) ==
            /\ \A s \in Systems :
                  sysLock'[s] = q <=> pc'[q] \in UnderSystemLock /\ job'[q].sys = s
            /\ regLock' = q <=> pc'[q] \in UnderRegistryLock
    <2>1. Frame(p)
        BY <1>2, LockEffect
    <2>2. ASSUME \A q \in Procs \ {p} :
                    /\ \A s \in Systems : sysLock'[s] = q <=> sysLock[s] = q
                    /\ regLock' = q <=> regLock = q,
                 Inside(p)
          PROVE  LocksHeldInside'
        BY <2>1, <2>2 DEF LocksHeldInside, Frame
    <2> USE SpaceAssumption DEF UnderSystemLock, UnderRegistryLock, RegisterSteps,
                                RemoveSteps
    <2>3. CASE Return(p)
        BY <2>2, <2>3, ReturnFrame DEF Return, Typed, TypeOK
    <2>4. CASE KeepsLocks(p)
        BY <2>2, <2>4 DEF KeepsLocks, Locks, LocksHeldInside
    <2>5. CASE /\ UNCHANGED Locks /\ pc[p] = "idle"
               /\ pc'[p] \notin UnderSystemLock \cup UnderRegistryLock
        BY <2>2, <2>5 DEF Locks, LocksHeldInside
    <2>6. CASE LockSystem(p)
        BY <2>2, <2>6 DEF LockSystem, Goto, LocksHeldInside, Typed, TypeOK, ArgsOK
    <2>7. CASE OpenWrite(p)
        <3>1. CASE Return(p)
            BY <2>3, <3>1
        <3>2. CASE ~Return(p)
            <4>1. /\ pc[p] \in {"put_open", "del_open"}
                  /\ regLock = None /\ regLock' = p
                  /\ pc'[p] = IF pc[p] = "put_open" THEN "put_write" ELSE "del_write"
                  /\ UNCHANGED <<sysLock, job>>
                BY <2>7, <3>2 DEF OpenWrite, Typed, TypeOK
            <4> QED BY <2>2, <4>1 DEF LocksHeldInside
        <3> QED BY <3>1, <3>2
    <2>8. CASE CommitDelete(p)
        BY <2>2, <2>8 DEF CommitDelete, Goto, LocksHeldInside, Typed, TypeOK
    <2> QED BY <1>2, <2>3, <2>4, <2>5, <2>6, <2>7, <2>8, LockEffect
<1> QED BY <1>1, <1>2 DEF Next

(* Locks are held exactly between lock and unlock, for every number of       *)
(* commands and after every failure and death of one.                       *)
THEOREM LocksHeldInsideAlways == Spec => []LocksHeldInside
<1>1. Init => LocksHeldInside
    BY SpaceAssumption DEF Init, LocksHeldInside, UnderSystemLock, UnderRegistryLock,
                           RegisterSteps, RemoveSteps
<1> QED BY <1>1, StepLocks, TypedAlways, PTL DEF Spec

(* No deadlock among the lock files: system before registry, and a writer    *)
(* waits for nobody.                                                        *)
THEOREM WaitingEndsAlways == Spec => []WaitingEnds
<1>1. Typed /\ LocksHeldInside => WaitingEnds
    <2> SUFFICES ASSUME Typed, LocksHeldInside, NEW p \in Procs, NEW q \in Procs,
                        WaitsFor(p, q)
                 PROVE  /\ p # q /\ pc[q] # "idle"
                        /\ \A w \in Procs : WaitsFor(q, w) =>
                              /\ pc[w] \in UnderRegistryLock
                              /\ \A x \in Procs : ~WaitsFor(w, x)
        BY DEF WaitingEnds
    <2> USE DEF UnderSystemLock, UnderRegistryLock, RegisterSteps, RemoveSteps
    <2>1. /\ pc[p] \notin UnderRegistryLock
          /\ pc[q] \in UnderSystemLock
          /\ pc[p] \in {"reg_lock", "rm_lock"} \/ pc[q] \in UnderRegistryLock
        BY DEF WaitsFor, LocksHeldInside, Typed, ArgsOK
    <2>2. p # q
        BY <2>1 DEF WaitsFor
    <2>3. ASSUME NEW w \in Procs, WaitsFor(q, w) PROVE pc[w] \in UnderRegistryLock
        BY <2>1, <2>3 DEF WaitsFor, LocksHeldInside
    <2>4. ASSUME NEW w \in Procs, pc[w] \in UnderRegistryLock, NEW x \in Procs
          PROVE  ~WaitsFor(w, x)
        BY <2>4 DEF WaitsFor
    <2> QED BY <2>1, <2>2, <2>3, <2>4
<1> QED BY <1>1, TypedAlways, LocksHeldInsideAlways, PTL

(***************************************************************************)
(* A sweep is over a finite set: the store holds finitely many artifacts.   *)
(***************************************************************************)
Stored == {r \in Revs : art[r] # "absent"}

Finite ==
    /\ IsFiniteSet(Stored)
    /\ \A p \in Procs : IsFiniteSet(todo[p])

(* One step adds at most the artifact it publishes, and a list is of those.   *)
LEMMA StepFinite == Typed /\ Finite /\ [Next]_vars => Finite'
<1> SUFFICES ASSUME Typed, Finite, [Next]_vars PROVE Finite'
    OBVIOUS
<1>1. CASE UNCHANGED vars
    BY <1>1 DEF vars, Finite, Stored
<1>2. ASSUME NEW p \in Procs, Start(p) \/ Progress(p) \/ Fail(p) \/ Crash(p)
      PROVE  Finite'
    <2> DEFINE rev == job[p].rev
    <2>1. Stored' \subseteq Stored \cup {rev}
        BY <1>2 DEF Start, StartRegister, StartRemove, StartInspect, Progress, Fail,
                    Crash, LockSystem, CheckProvenance, Build, PublishLstat,
                    PublishVerify, PublishRename, OpenWrite, CommitPut, CommitDelete,
                    LoadKeep, ListArtifacts, BeginRemoveAll, EndRemoveAll,
                    FinishRemove, GetRecord, GetAgain, LoadSnapshot, ReportFailure,
                    Stored, Typed, TypeOK
    <2>2. IsFiniteSet(Stored')
        <3>1. IsFiniteSet(Stored \cup {rev})
            BY FS_AddElement DEF Finite
        <3> QED BY <2>1, <3>1, FS_Subset
    <2>3. \A q \in Procs \ {p} : todo'[q] = todo[q]
        BY <1>2, LockEffect DEF Frame
    <2>4. \/ todo'[p] \subseteq todo[p]
          \/ todo'[p] \subseteq Stored
        BY <1>2 DEF Start, StartRegister, StartRemove, StartInspect, Progress, Fail,
                    Crash, LockSystem, CheckProvenance, Build, PublishLstat,
                    PublishVerify, PublishRename, OpenWrite, CommitPut, CommitDelete,
                    LoadKeep, ListArtifacts, BeginRemoveAll, EndRemoveAll,
                    FinishRemove, GetRecord, GetAgain, LoadSnapshot, ReportFailure,
                    Return, Goto, Locals, Stored, Typed, TypeOK
    <2>5. IsFiniteSet(todo'[p])
        BY <2>4, FS_Subset DEF Finite
    <2> QED BY <2>2, <2>3, <2>5 DEF Finite, Stored
<1> QED BY <1>1, <1>2 DEF Next

LEMMA FiniteAlways == Spec => []Finite
<1>1. Init => Finite
    <2>1. Init => Stored = {}
        BY DEF Init, Stored
    <2> QED BY <2>1, FS_EmptySet DEF Init, Finite
<1> QED BY <1>1, StepFinite, TypedAlways, PTL DEF Spec

(* Removing one directory from the list, or finishing with one, is progress.  *)
LEMMA SweepDescends ==
    ASSUME Typed, Finite, NEW p \in Procs,
           EndRemoveAll(p) \/ \E r \in Revs : BeginRemoveAll(p, r)
    PROVE  SweepLeft(p)' < SweepLeft(p) /\ StepsLeft[pc'[p]] = StepsLeft[pc[p]]
<1>0. Cardinality(todo[p]) \in Nat
    BY FS_CardinalityType DEF Finite
<1>1. CASE EndRemoveAll(p)
    BY <1>0, <1>1 DEF EndRemoveAll, Goto, Locals, SweepLeft, StepsLeft, Steps,
                      RemoveSteps, Typed, TypeOK
<1>2. ASSUME NEW r \in Revs, BeginRemoveAll(p, r)
      PROVE  SweepLeft(p)' < SweepLeft(p) /\ StepsLeft[pc'[p]] = StepsLeft[pc[p]]
    <2>1. /\ pc[p] = "gc_sweep" /\ r \in todo[p]
          /\ todo'[p] = todo[p] \ {r}
          /\ pc'[p] \in {"gc_sweep", "gc_rm"}
        BY <1>2 DEF BeginRemoveAll, Typed, TypeOK
    <2>2. Cardinality(todo'[p]) = Cardinality(todo[p]) - 1
        BY <2>1, FS_RemoveElement DEF Finite
    <2>3. SweepLeft(p) = 2 * Cardinality(todo[p])
        BY <1>0, <2>1 DEF SweepLeft
    <2>4. SweepLeft(p)' = 2 * Cardinality(todo'[p]) + (IF pc'[p] = "gc_rm" THEN 1 ELSE 0)
        BY DEF SweepLeft
    <2>5. SweepLeft(p)' < SweepLeft(p)
        BY <1>0, <2>2, <2>3, <2>4
    <2> QED BY <2>1, <2>5 DEF StepsLeft, Steps, RemoveSteps
<1> QED BY <1>1, <1>2

(* Every step of a command brings it nearer to its end, whatever the number of *)
(* artifacts, and no step of another command sets it back.                   *)
THEOREM CommandsDescendAlways == Spec => CommandsDescend
<1>1. Typed /\ Finite /\ [Next]_vars => [Descending]_vars
    <2> SUFFICES ASSUME Typed, Finite, NEW p \in Procs, pc[p] # "idle",
                        NEW x \in Procs, Start(x) \/ Progress(x) \/ Fail(x) \/ Crash(x)
                 PROVE  \/ UNCHANGED <<pc[p], job[p], doc[p], keep[p], todo[p]>>
                        \/ Descends(p)
        BY DEF Next, Descending
    <2>1. CASE x # p
        BY <2>1, LockEffect DEF Frame
    <2>2. ASSUME x = p PROVE Descends(p)
        <3> USE DEF Descends, Goto
        <3>1. ~Start(p)
            BY DEF Start, StartRegister, StartRemove, StartInspect
        <3>2. CASE Return(p)
            BY <3>2, ReturnFrame DEF StepsLeft, Steps, RegisterSteps, RemoveSteps,
                                     InspectSteps, Typed, TypeOK
        <3>3. CASE EndRemoveAll(p) \/ \E r \in Revs : BeginRemoveAll(p, r)
            BY <3>3, SweepDescends
        <3> USE DEF StepsLeft, Steps, RegisterSteps, RemoveSteps, InspectSteps
        <3>4. CASE LockSystem(p) \/ PublishLstat(p)
            BY <3>4 DEF LockSystem, PublishLstat, Typed, TypeOK
        <3>5. CASE (CheckProvenance(p) \/ PublishVerify(p) \/ PublishRename(p)) /\ ~Return(p)
            <4>1. \/ pc[p] = "reg_check" /\ pc'[p] = "reg_build"
                  \/ pc[p] \in {"pub_verify", "pub_rename"} /\ pc'[p] = "put_open"
                BY <3>5 DEF CheckProvenance, PublishVerify, PublishRename, Typed, TypeOK
            <4> QED BY <4>1
        <3>6. ASSUME NEW r \in Revs, Build(p, r) PROVE Descends(p)
            BY <3>6 DEF Build, Typed, TypeOK
        <3>7. CASE OpenWrite(p) /\ ~Return(p)
            <4>1. \/ pc[p] = "put_open" /\ pc'[p] = "put_write"
                  \/ pc[p] = "del_open" /\ pc'[p] = "del_write"
                BY <3>7 DEF OpenWrite, Typed, TypeOK
            <4> QED BY <4>1
        <3>8. CASE CommitDelete(p) \/ LoadKeep(p) \/ ListArtifacts(p)
            BY <3>8 DEF CommitDelete, LoadKeep, ListArtifacts, Typed, TypeOK
        <3>9. CASE (GetRecord(p) \/ GetAgain(p) \/ LoadSnapshot(p)) /\ ~Return(p)
            <4>1. \/ pc[p] = "get_record" /\ pc'[p] = "get_again"
                  \/ pc[p] = "get_again" /\ pc'[p] = "load"
                  \/ pc[p] = "load" /\ pc'[p] = "load_failed"
                BY <3>9 DEF GetRecord, GetAgain, LoadSnapshot, Typed, TypeOK
            <4> QED BY <4>1
        <3>10. CASE CommitPut(p) \/ FinishRemove(p) \/ ReportFailure(p) \/ Fail(p) \/ Crash(p)
            BY <3>2, <3>10 DEF CommitPut, FinishRemove, ReportFailure, Fail, Crash
        <3> QED BY <2>2, <3>1, <3>2, <3>3, <3>4, <3>5, <3>6, <3>7, <3>8, <3>9, <3>10
                DEF Progress
    <2> QED BY <2>1, <2>2
<1> QED BY <1>1, TypedAlways, FiniteAlways, PTL DEF Spec, CommandsDescend

-----------------------------------------------------------------------------
(***************************************************************************)
(* The overlap of a publish and a collection is the whole of the trouble.   *)
(***************************************************************************)

(* Nothing is exposed by a step that no collection overlaps.                 *)
LEMMA NothingExposed ==
    ASSUME Typed, Exclusive, [Next]_vars PROVE exposed' = exposed
<1>1. CASE UNCHANGED vars
    BY <1>1 DEF vars
<1>2. ASSUME NEW p \in Procs, Start(p) \/ Progress(p) \/ Fail(p) \/ Crash(p)
      PROVE  exposed' = exposed
    <2>1. CASE PublishVerify(p) \/ PublishRename(p)
        <3>1. \A q \in Procs : ~Condemns(q, job[p].rev)
            BY <2>1 DEF Exclusive, Condemns, PublishVerify, PublishRename
        <3> QED BY <2>1, <3>1 DEF PublishVerify, PublishRename, Expose
    <2>2. CASE LoadKeep(p)
        <3>1. \A q \in Procs : ~Publishing(q)
            BY <2>2 DEF Exclusive, Publishing, LoadKeep, Goto
        <3> QED BY <2>2, <3>1 DEF LoadKeep
    <2>3. CASE ~PublishVerify(p) /\ ~PublishRename(p) /\ ~LoadKeep(p)
        BY <1>2, <2>3 DEF Start, StartRegister, StartRemove, StartInspect, Progress,
            Fail, Crash, LockSystem, CheckProvenance, Build, PublishLstat, OpenWrite,
            CommitPut, CommitDelete, ListArtifacts, BeginRemoveAll, EndRemoveAll,
            FinishRemove, GetRecord, GetAgain, LoadSnapshot, ReportFailure
    <2> QED BY <2>1, <2>2, <2>3
<1> QED BY <1>1, <1>2 DEF Next

(* A step that damages an artifact is the removal of a condemned one.         *)
LEMMA OnlyCondemnedGo ==
    ASSUME Typed, StoreInv, exposed = {}, [Next]_vars,
           NEW r \in Revs, Intact(r), ~Intact(r)'
    PROVE  r \notin Referenced
<1>1. PICK p \in Procs : Start(p) \/ Progress(p) \/ Fail(p) \/ Crash(p)
    BY DEF Next, vars, Intact
<1>2. \/ BeginRemoveAll(p, r)
      \/ EndRemoveAll(p) /\ job[p].rev = r
    BY <1>1 DEF Start, StartRegister, StartRemove, StartInspect, Progress, Fail, Crash,
        LockSystem, CheckProvenance, Build, PublishLstat, PublishVerify, PublishRename,
        OpenWrite, CommitPut, CommitDelete, LoadKeep, ListArtifacts, BeginRemoveAll,
        EndRemoveAll, FinishRemove, GetRecord, GetAgain, LoadSnapshot, ReportFailure,
        Intact, Typed, TypeOK
<1>3. Condemns(p, r)
    BY <1>2 DEF BeginRemoveAll, EndRemoveAll, Goto, Condemns
<1> QED BY <1>3 DEF StoreInv, Wanted

(* If no publish overlapped a collection, no record would ever dangle and no   *)
(* collection would delete what a record names, however commands are otherwise *)
(* interleaved, fail or die: one lock shared by the two closes the race.      *)
THEOREM ExclusionSuffices ==
    Spec /\ []Exclusive => []RecordsIntact /\ GCSparesReferenced
<1>1. Init => exposed = {} /\ StoreInv
    BY DEF Init, StoreInv, Wanted, Referenced, Publishing
<1>2. Typed /\ Exclusive /\ exposed = {} /\ [Next]_vars => (exposed = {})'
    BY NothingExposed
<1>3. DanglingOnlyIfExposed /\ exposed = {} => RecordsIntact
    BY DEF DanglingOnlyIfExposed, RecordsIntact
<1>4. Typed /\ StoreInv /\ exposed = {} /\ [Next]_vars => [SparesReferenced]_vars
    BY OnlyCondemnedGo DEF SparesReferenced
<1> QED
    BY <1>1, <1>2, <1>3, <1>4, StepStore, TypedAlways, WriterAlways,
       DanglesOnlyIfExposed, PTL DEF Spec, GCSparesReferenced
=============================================================================
