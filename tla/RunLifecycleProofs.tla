------------------------- MODULE RunLifecycleProofs -------------------------
(***************************************************************************)
(* Theorems about RunLifecycle, for every set of processes and systems.     *)
(*                                                                         *)
(* The argument has two threads.  Custody: no process reaches a directory   *)
(* but through its todo set or its cur, and while a directory is locked by   *)
(* its running owner none does, unless it was judged before the lock was     *)
(* there or while it was rewritten.  Secrecy: values enter a directory only  *)
(* at the overlay step of its owner, behind a whole baseline, and every way  *)
(* out of the run that is not a crash passes a wipe or ends in an error.     *)
(***************************************************************************)
EXTENDS RunLifecycle, TLAPS

-----------------------------------------------------------------------------
(* The inductive invariant                                                 *)

Visits == {"stat", "restore", "mark", "drop", "set_aside", "purge"}
Before == {"idle"} \cup CommandSteps

\* q has r on its list or is at work on it.
Knows(q, r) == r \in job[q].todo \/ (pc[q] \in Visits /\ job[q].cur = r)

\* Before BeginRun nothing of r is on disk and nobody knows of it.
Unborn(r) ==
    pc[r] \in Before =>
        /\ runs[r] = NoDir /\ quar[r] = "none"
        /\ r \notin recorded \cup judged
        /\ \A q \in Run : ~Knows(q, r)

\* Secret-bearing files and baselines are in a directory that is there.
Rooted(r) == runs[r].body # "none" \/ runs[r].base # "none" => There(r)

\* A directory that is locked, or about to be, is condemned by nobody.
Guarded(r) ==
    pc[r] \in OwnSteps /\ (pc[r] = "lock" \/ Locked(r)) /\ r \notin judged =>
        \A q \in Run : ~Condemns(q, r)

\* What the owner finds at each step, if nobody judged the directory.
Fresh(r) ==
    pc[r] = "lock" /\ r \notin judged => runs[r] = NewDir

Held(r) ==
    pc[r] \in HeldSteps \ {"unwind"} /\ r \notin judged =>
        There(r) /\ Locked(r) /\ ~Marked(r)

Stocked(r) ==
    r \in Secretive /\ r \notin judged =>
        /\ pc[r] = "persist" => runs[r].body = "plan"
        /\ pc[r] = "overlay" => runs[r].body = "plan" /\ runs[r].base = "whole"
        /\ pc[r] \in {"relock", "rewrite", "host", "wipe"} =>
               runs[r].body = "values" /\ runs[r].base = "whole"

\* Values are there at the owner's steps from the overlay to the wipe, or after
\* an error or a crash, and their baseline is whole unless a removal cut it.
ValueSteps == {"relock", "rewrite", "unwind", "host", "wipe", "release", "isolate"}
                  \cup Ended

Behind(r) ==
    /\ runs[r].body = "values" =>
         /\ r \in Secretive /\ pc[r] \in ValueSteps
         /\ runs[r].base = "whole" \/ r \in cut
         /\ pc[r] = "done" => job[r].out = "error"
    /\ pc[r] = "overlay" /\ r \in Secretive =>
         \/ runs[r].base = "whole" \/ r \in cut
         \/ runs[r].base = "none" /\ runs[r].body = "none"

\* Values reach quarantine from a dead run, from a run that ends in an error,
\* from a directory that was judged, or from a run with secrets that lost its
\* lock as it was rewritten and is on its way to an error.
Isolated(r) ==
    quar[r] = "values" =>
        \/ r \in judged \/ pc[r] \in {"isolate", "dead"}
        \/ pc[r] = "unwind" /\ ~CanWipe(r)
        \/ pc[r] = "done" /\ job[r].out = "error"

\* The scan of p has still to settle r, its current entry.
Unsettled(p, r) ==
    pc[p] \in {"stat", "restore", "drop", "set_aside"} /\ job[p].cur = r

Settled(p) ==
    \A r \in job[p].owed :
        /\ pc[r] \in Ended
        /\ \/ r \in job[p].todo \/ Unsettled(p, r)
           \/ pc[p] \in {"invalidate", "purge"}
           \/ r \in cut \/ runs[r].body # "values"

Custody == \A r \in Run :
    Unborn(r) /\ Rooted(r) /\ Guarded(r) /\ Fresh(r) /\ Held(r)
Secrecy == \A r \in Run : Stocked(r) /\ Behind(r) /\ Isolated(r)

IInv == TypeOK /\ Custody /\ Secrecy /\ (\A p \in Run : Settled(p))

-----------------------------------------------------------------------------
(* Types                                                                   *)

Steps == {"idle"} \cup CommandSteps \cup OwnSteps \cup Ended

Step(p) == Recovery(p) \/ Execute(p) \/ Cleaning(p) \/ Crash(p) \/ RecyclePid(p)

(* Every step leaves each process with well-typed locals.                   *)
LEMMA JobTyped ==
    ASSUME TypeOK, NEW p \in Run, Step(p)
    PROVE  job' \in [Run -> Job]
<1> DEFINE Typed == job' \in [Run -> Job]
<1>1. job \in [Run -> Job] /\ job[p] \in Job
    BY DEF TypeOK
<1>2. job[p].todo \subseteq Run /\ job[p].owed \subseteq Run
      /\ job[p].out \in {"ok", "error"}
    BY <1>1 DEF Job
<1>3. ASSUME NEW n \in {1, 2}, NEW t \in SUBSET Run, NEW o \in SUBSET Run
      PROVE  Task(p, n, t, o) \in Job
    BY DEF Task, Job
<1>4. ASSUME NEW n \in {1, 2}, NEW t \in SUBSET Run, NEW o \in SUBSET Run,
             job' = [job EXCEPT ![p] = Task(p, n, t, o)]
      PROVE  Typed
    BY <1>1, <1>3, <1>4
<1>5. Return(p) => Typed
    BY <1>1, <1>3 DEF Return, NoJob
<1>6. ASSUME NEW o \in {"ok", "error"}, Exit(p, o)
      PROVE  Typed
    BY <1>1, <1>6 DEF Exit, Job
<1>7. ASSUME NEW n \in {1, 2}, StartScan(p, n)
      PROVE  Typed
    BY <1>4, <1>7 DEF StartScan
<1>8. UNCHANGED job => Typed
    BY <1>1
<1>20. ASSUME NEW r \in job[p].todo, Take(p, r) \/ Pass(p, r)
      PROVE  Typed
    <2>1. job[p].todo \ {r} \in SUBSET Run /\ job[p].owed \ {r} \in SUBSET Run
          /\ r \in Run
        BY <1>2
    <2>2. ASSUME NEW t \in SUBSET Run, NEW u \in SUBSET Run
          PROVE  /\ [job[p] EXCEPT !.todo = t, !.cur = r] \in Job
                 /\ [job[p] EXCEPT !.todo = t, !.owed = u] \in Job
        BY <1>1, <2>1 DEF Job
    <2>3. CASE Take(p, r)
        BY <1>1, <2>1, <2>2, <2>3 DEF Take
    <2>4. CASE Pass(p, r)
        BY <1>1, <2>1, <2>2, <2>4 DEF Pass
    <2> QED BY <1>20, <2>3, <2>4
<1>9. CASE Recovery(p)
    <2>1. CASE PassLive(p) \/ Inspect(p)
        BY <2>1, <1>20 DEF PassLive, Inspect
    <2>2. CASE StartRun(p) \/ Authorize(p)
        BY <2>2, <1>5, <1>7 DEF StartRun, Authorize
    <2>3. CASE SetAside(p)
        BY <2>3, <1>5, <1>8 DEF SetAside
    <2> QED
        BY <1>8, <1>9, <2>1, <2>2, <2>3
        DEF Recovery, StatBaseline, RestoreBaseline, RestoreFails,
            MarkRecovered, DropLeftover, EndFirstScan
<1>10. CASE Execute(p)
    <2>1. CASE RunHost(p) \/ WriteRecord(p)
        BY <1>1, <2>1 DEF RunHost, WriteRecord, Job
    <2>2. CASE UndoCreate(p) \/ Discard(p) \/ Isolate(p) \/ DeleteWorkspace(p)
        BY <2>2, <1>2, <1>6, <1>8 DEF UndoCreate, Discard, Isolate, DeleteWorkspace
    <2> QED
        BY <1>8, <1>10, <2>1, <2>2
        DEF Execute, CreateRun, LockRun, Materialize, PersistBaselines,
            OverlaySecrets, Relock, RewriteLock, Unwind, Abort, WipeSecrets,
            WipeFails, ClearLock
<1>11. CASE Cleaning(p)
    <2>1. CASE StartClean(p)
        BY <2>1, <1>4 DEF StartClean
    <2>2. CASE CleanRun(p)
        BY <1>20, <1>8, <2>2 DEF CleanRun
    <2>3. ASSUME NEW s \in System, StartInvalidate(p, s) PROVE Typed
        BY <2>3, <1>4 DEF StartInvalidate, TypeOK
    <2>4. CASE InvalidateRun(p)
        BY <2>4, <1>20 DEF InvalidateRun
    <2>5. CASE PurgeRun(p)
        BY <2>5, <1>5, <1>8 DEF PurgeRun
    <2> QED
        BY <1>5, <1>8, <1>11, <2>1, <2>2, <2>3, <2>4, <2>5
        DEF Cleaning, EndClean, CleanOther, EndInvalidate
<1>12. CASE Crash(p) \/ RecyclePid(p)
    BY <1>5, <1>8, <1>12 DEF Crash, RecyclePid
<1> QED BY <1>9, <1>10, <1>11, <1>12 DEF Step

(* Every step leaves each directory a well-typed one.                        *)
LEMMA DirTyped ==
    ASSUME TypeOK, NEW p \in Run, Step(p)
    PROVE  runs' \in [Run -> Dir]
<1> DEFINE Typed == runs' \in [Run -> Dir]
<1>1. runs \in [Run -> Dir] /\ runs[p] \in Dir /\ job[p] \in Job
    BY DEF TypeOK
<1>2. job[p].cur \in Run /\ job[p].todo \subseteq Run
    BY <1>1 DEF Job
<1>3. NoDir \in Dir /\ NewDir \in Dir /\ UNCHANGED runs => Typed
    BY <1>1 DEF NoDir, NewDir, Dir
<1>4. ASSUME NEW r \in Run, NEW d \in Dir, Set(r, d) PROVE Typed
    BY <1>1, <1>4 DEF Set
<1>5. ASSUME NEW r \in Run, RemoveSome(r) \/ RemoveRest(r) \/ Rename(r)
      PROVE  Typed
    <2>1. NoDir \in Dir /\ Remains(runs[r]) \subseteq Dir
        BY DEF NoDir, Dir, Remains
    <2> QED BY <1>4, <1>5, <2>1 DEF RemoveSome, RemoveRest, Rename
<1>6. CASE Recovery(p)
    <2>1. CASE RestoreBaseline(p)
        <3>1. runs[job[p].cur] \in Dir
            BY <1>1, <1>2
        <3>2. [runs[job[p].cur] EXCEPT !.body = "plan"] \in Dir
            BY <3>1 DEF Dir
        <3> QED BY <2>1, <1>2, <1>4, <3>1, <3>2 DEF RestoreBaseline
    <2>2. CASE MarkRecovered(p)
        <3>1. runs[job[p].cur] \in Dir
            BY <1>1, <1>2
        <3>2. [runs[job[p].cur] EXCEPT !.has = @ \cup {"recovered"}] \in Dir
            BY <3>1 DEF Dir
        <3> QED BY <2>2, <1>1, <1>2, <1>4, <3>2 DEF MarkRecovered
    <2>3. CASE DropLeftover(p) \/ SetAside(p)
        BY <2>3, <1>1, <1>2, <1>5 DEF DropLeftover, SetAside
    <2> QED
        BY <1>1, <1>6, <2>1, <2>2, <2>3
        DEF Recovery, StartRun, PassLive, Inspect, StatBaseline, RestoreFails,
            EndFirstScan, Authorize, Disk
<1>7. CASE Execute(p)
    <2>1. CASE CreateRun(p)
        <3>1. NewDir \in Dir
            BY DEF NewDir, Dir
        <3> QED BY <2>1, <3>1, <1>1, <1>4 DEF CreateRun
    <2>2. CASE LockRun(p) \/ Relock(p) \/ RewriteLock(p)
        <3>1. TakeLock(p) \in Dir /\ MakeRoot(p) \in Dir /\ EmptyLock(p) \in Dir
            BY <1>1 DEF TakeLock, MakeRoot, EmptyLock, Dir
        <3> QED BY <2>2, <3>1, <1>1, <1>4 DEF LockRun, Relock, RewriteLock
    <2>3. CASE Materialize(p)
        <3>1. /\ [has |-> runs[p].has \cup {"root"}, base |-> runs[p].base,
                  body |-> "plan"] \in Dir
              /\ MakeRoot(p) \in Dir
            BY <1>1 DEF MakeRoot, Dir
        <3> QED BY <2>3, <3>1, <1>1, <1>4 DEF Materialize
    <2>4. CASE PersistBaselines(p)
        <3>1. \A b \in {"whole", "part"} :
                [has |-> runs[p].has \cup {"root"}, base |-> b,
                 body |-> runs[p].body] \in Dir
            BY <1>1 DEF Dir
        <3> QED BY <2>4, <3>1, <1>1, <1>4 DEF PersistBaselines
    <2>5. CASE OverlaySecrets(p)
        <3>1. Filled(p) \in Dir
            BY <1>1 DEF Filled, Dir
        <3> QED BY <2>5, <3>1, <1>1, <1>4 DEF OverlaySecrets
    <2>6. CASE Unwind(p) \/ WipeSecrets(p)
        <3>1. Wiped(p) \in Dir
            BY <1>1 DEF Wiped, Dir
        <3> QED BY <2>6, <3>1, <1>1, <1>4 DEF Unwind, WipeSecrets
    <2>7. CASE ClearLock(p)
        <3>1. EmptyLock(p) \in Dir
            BY <1>1 DEF EmptyLock, Dir
        <3> QED BY <2>7, <3>1, <1>1, <1>4 DEF ClearLock
    <2>8. CASE UndoCreate(p) \/ Discard(p) \/ Isolate(p) \/ DeleteWorkspace(p)
        BY <2>8, <1>1, <1>5 DEF UndoCreate, Discard, Isolate, DeleteWorkspace
    <2> QED
        BY <1>1, <1>7, <2>1, <2>2, <2>3, <2>4, <2>5, <2>6, <2>7, <2>8
        DEF Execute, Abort, RunHost, WipeFails, WriteRecord
<1>8. CASE Cleaning(p)
    BY <1>1, <1>2, <1>5, <1>8
    DEF Cleaning, StartClean, CleanRun, EndClean, CleanOther, StartInvalidate,
        InvalidateRun, PurgeRun, EndInvalidate, Disk
<1>9. CASE Crash(p) \/ RecyclePid(p)
    <2>1. EmptyLock(p) \in Dir
        BY <1>1 DEF EmptyLock, Dir
    <2> QED BY <1>1, <1>4, <1>9, <2>1 DEF Crash, RecyclePid, Disk
<1> QED BY <1>6, <1>7, <1>8, <1>9 DEF Step

(* Every step leaves the control states, the quarantine and the sets typed.  *)
LEMMA RestTyped ==
    ASSUME TypeOK, NEW p \in Run, Step(p)
    PROVE  /\ pc' \in [Run -> Steps]
           /\ quar' \in [Run -> {"none", "clean", "values"}]
           /\ recorded' \subseteq Run /\ reused' \subseteq Run
           /\ judged' \subseteq Run /\ cut' \subseteq Run
<1> DEFINE TypedPc   == pc' \in [Run -> Steps]
           TypedQuar == quar' \in [Run -> {"none", "clean", "values"}]
           TypedSets == /\ recorded' \subseteq Run /\ reused' \subseteq Run
                        /\ judged' \subseteq Run /\ cut' \subseteq Run
<1>1. job[p].cur \in Run /\ job[p].todo \subseteq Run
    BY DEF TypeOK, Job
<1>2. pc \in [Run -> Steps]
    BY DEF TypeOK, Steps
<1>3. ASSUME NEW l \in Steps, pc' = [pc EXCEPT ![p] = l] PROVE TypedPc
    BY <1>2, <1>3
<1>4. UNCHANGED pc => TypedPc
    BY <1>2
<1>5. quar \in [Run -> {"none", "clean", "values"}]
    BY DEF TypeOK
<1>6. /\ UNCHANGED quar => TypedQuar
      /\ \A r \in Run : Rename(r) => TypedQuar
    BY <1>5 DEF Rename
<1>7. /\ recorded \subseteq Run /\ reused \subseteq Run
      /\ judged \subseteq Run /\ cut \subseteq Run
    BY DEF TypeOK
<1>8. \A r \in Run : /\ RemoveSome(r) \/ RemoveRest(r) => cut' \subseteq Run
                     /\ Judge(r) => judged' \subseteq Run
    BY <1>7 DEF RemoveSome, RemoveRest, Judge
<1> USE DEF Goto, Disk, History
<1>9. CASE Recovery(p)
    <2> USE DEF Recovery, StartRun, PassLive, Inspect, StatBaseline,
                RestoreBaseline, RestoreFails, MarkRecovered, DropLeftover,
                SetAside, EndFirstScan, Authorize
    <2>1. TypedPc
        BY <1>3, <1>4, <1>9 DEF StartScan, Return, Steps, CommandSteps
    <2>2. TypedQuar
        BY <1>1, <1>6, <1>9
    <2>3. TypedSets
        BY <1>1, <1>7, <1>8, <1>9
    <2> QED BY <2>1, <2>2, <2>3
<1>10. CASE Execute(p)
    <2> USE DEF Execute, CreateRun, LockRun, UndoCreate, Materialize,
                PersistBaselines, OverlaySecrets, Relock, RewriteLock, Unwind,
                Abort, Discard,
                Isolate, RunHost, WipeSecrets, WipeFails, ClearLock, WriteRecord,
                DeleteWorkspace
    <2>1. TypedPc
        BY <1>3, <1>4, <1>10
        DEF Exit, Steps, OwnSteps, BeginSteps, HeldSteps, PrepareSteps, Ended
    <2>2. TypedQuar
        BY <1>6, <1>10
    <2>3. TypedSets
        BY <1>7, <1>8, <1>10
    <2> QED BY <2>1, <2>2, <2>3
<1>11. CASE Cleaning(p)
    <2> USE DEF Cleaning, StartClean, CleanRun, EndClean, CleanOther,
                StartInvalidate, InvalidateRun, PurgeRun, EndInvalidate
    <2>1. TypedPc
        BY <1>3, <1>4, <1>11 DEF Return, Steps, CommandSteps
    <2>2. TypedQuar
        BY <1>5, <1>6, <1>11
    <2>3. TypedSets
        BY <1>1, <1>7, <1>8, <1>11
    <2> QED BY <2>1, <2>2, <2>3
<1>12. CASE Crash(p)
    BY <1>3, <1>6, <1>7, <1>12 DEF Crash, Return, Steps, Ended
<1>13. CASE RecyclePid(p)
    BY <1>4, <1>6, <1>7, <1>13 DEF RecyclePid
<1> QED BY <1>9, <1>10, <1>11, <1>12, <1>13 DEF Step

(* Every step keeps the state well typed.                                   *)
LEMMA StepTyped == TypeOK /\ [Next]_vars => TypeOK'
<1> SUFFICES ASSUME TypeOK, [Next]_vars PROVE TypeOK'
    OBVIOUS
<1>1. CASE UNCHANGED vars
    BY <1>1 DEF TypeOK, vars
<1>2. ASSUME NEW p \in Run, Step(p) PROVE TypeOK'
    BY <1>2, JobTyped, DirTyped, RestTyped DEF TypeOK, Steps
<1> QED BY <1>1, <1>2 DEF Next, Step

-----------------------------------------------------------------------------
(* What one process can do to another                                      *)

(* A step moves one process only.                                           *)
LEMMA Locality ==
    ASSUME TypeOK, NEW p \in Run, Step(p), NEW q \in Run, q # p
    PROVE  pc'[q] = pc[q] /\ job'[q] = job[q]
<1>1. pc \in [Run -> Steps] /\ job \in [Run -> Job]
    BY DEF TypeOK, Steps
<1> USE DEF Goto, Disk, History
<1>2. /\ \A r \in Run : Take(p, r) \/ Pass(p, r) => job'[q] = job[q]
      /\ job[p].todo \subseteq Run
    BY <1>1 DEF Take, Pass, Job
<1>3. Return(p) => pc'[q] = pc[q] /\ job'[q] = job[q]
    BY <1>1 DEF Return
<1>4. \A n : StartScan(p, n) => pc'[q] = pc[q] /\ job'[q] = job[q]
    BY <1>1 DEF StartScan
<1>5. \A o : Exit(p, o) => pc'[q] = pc[q] /\ job'[q] = job[q]
    BY <1>1 DEF Exit
<1>6. CASE Recovery(p)
    BY <1>1, <1>2, <1>3, <1>4, <1>6
    DEF Recovery, StartRun, PassLive, Inspect, StatBaseline, RestoreBaseline,
        RestoreFails, MarkRecovered, DropLeftover, SetAside, EndFirstScan, Authorize
<1>7. CASE Execute(p)
    BY <1>1, <1>5, <1>7
    DEF Execute, CreateRun, LockRun, UndoCreate, Materialize, PersistBaselines,
        OverlaySecrets, Relock, RewriteLock, Unwind, Abort, Discard, Isolate, RunHost,
        WipeSecrets, WipeFails, ClearLock, WriteRecord, DeleteWorkspace
<1>8. CASE Cleaning(p)
    BY <1>1, <1>2, <1>3, <1>8
    DEF Cleaning, StartClean, CleanRun, EndClean, CleanOther, StartInvalidate,
        InvalidateRun, PurgeRun, EndInvalidate
<1>9. CASE Crash(p) \/ RecyclePid(p)
    BY <1>1, <1>3, <1>9 DEF Crash, RecyclePid
<1> QED BY <1>6, <1>7, <1>8, <1>9 DEF Step

\* What recovery, clean or remove can make of a directory they condemned.
Touched(r) ==
    /\ runs'[r].has \subseteq runs[r].has \cup {"recovered"}
    /\ runs'[r] = NoDir \/ There(r)'
    /\ runs'[r].body = "values" => runs[r].body = "values"
    /\ \/ runs'[r].base = runs[r].base
          /\ (runs[r].base = "none" => runs'[r].body = runs[r].body)
       \/ r \in cut'
       \/ runs'[r].base = "none" /\ runs'[r].body = "none"
    /\ quar'[r] = "values" => quar[r] = "values" \/ runs[r].body = "values"
    /\ quar'[r] = quar[r] \/ ~There(r)'

Calm(r) == runs'[r] = runs[r] /\ quar'[r] \in {quar[r], "none"}

(* A removal, and a rename into quarantine, touch a directory and no other.  *)
LEMMA Removals ==
    ASSUME TypeOK, NEW x \in Run, NEW r \in Run
    PROVE  /\ RemoveSome(x) \/ RemoveRest(x) =>
                /\ runs'[r] = runs[r] \/ x = r
                /\ UNCHANGED quar => Calm(r) \/ (x = r /\ Touched(r))
           /\ Rename(x) => Calm(r) \/ (x = r /\ Touched(r))
<1>1. /\ runs \in [Run -> Dir]
      /\ quar \in [Run -> {"none", "clean", "values"}]
    BY DEF TypeOK
<1>2. CASE x = r
    <2>1. RemoveSome(r) /\ UNCHANGED quar => Touched(r)
        BY <1>1 DEF RemoveSome, Remains, Set, Touched, There
    <2>2. RemoveRest(r) /\ UNCHANGED quar => Touched(r)
        BY <1>1 DEF RemoveRest, NoDir, Set, Touched
    <2>3. Rename(r) => Touched(r)
        BY <1>1 DEF Rename, NoDir, Set, Touched, There
    <2> QED BY <1>2, <2>1, <2>2, <2>3
<1>3. CASE x # r
    BY <1>1, <1>3 DEF RemoveSome, RemoveRest, Rename, Set, Calm
<1> QED BY <1>2, <1>3

(* A process changes a directory of another only when it condemned it.      *)
LEMMA Reach ==
    ASSUME TypeOK, NEW p \in Run, Step(p), NEW r \in Run, r # p, Rooted(r)
    PROVE  Calm(r) \/ (Condemns(p, r) /\ Touched(r))
<1>1. /\ runs \in [Run -> Dir]
      /\ quar \in [Run -> {"none", "clean", "values"}]
      /\ job[p].cur \in Run /\ job[p].todo \subseteq Run
    BY DEF TypeOK, Job
<1>2. UNCHANGED <<runs, quar>> => Calm(r)
    BY DEF Calm
<1>3. \A d : Set(p, d) /\ UNCHANGED quar => Calm(r)
    BY <1>1 DEF Set, Calm
<1> USE DEF Goto, Disk, History
<1>4. CASE Recovery(p)
    <2>1. CASE RestoreBaseline(p)
        <3>1. CASE job[p].cur = r
            <4>1. /\ runs'[r] \in {runs[r], [runs[r] EXCEPT !.body = "plan"]}
                  /\ runs[r].base # "none" /\ UNCHANGED quar
                BY <1>1, <2>1, <3>1 DEF RestoreBaseline, Set
            <4>2. Touched(r)
                BY <1>1, <4>1 DEF Touched, Dir, Rooted, There
            <4> QED BY <2>1, <3>1, <4>2 DEF RestoreBaseline, Condemns
        <3>2. CASE job[p].cur # r
            BY <1>1, <2>1, <3>2 DEF RestoreBaseline, Set, Calm
        <3> QED BY <3>1, <3>2
    <2>2. CASE MarkRecovered(p)
        <3>1. CASE job[p].cur = r
            <4>1. CASE UNCHANGED runs
                BY <2>2, <4>1 DEF MarkRecovered, Calm
            <4>2. CASE /\ There(r)
                       /\ runs'[r] = [runs[r] EXCEPT !.has = @ \cup {"recovered"}]
                <5>1. Touched(r)
                    BY <1>1, <2>2, <4>2 DEF MarkRecovered, Touched, Dir, There
                <5> QED BY <2>2, <3>1, <5>1 DEF MarkRecovered, Condemns
            <4> QED BY <1>1, <2>2, <3>1, <4>1, <4>2 DEF MarkRecovered, Set
        <3>2. CASE job[p].cur # r
            BY <1>1, <2>2, <3>2 DEF MarkRecovered, Set, Calm
        <3> QED BY <3>1, <3>2
    <2>3. CASE DropLeftover(p) \/ SetAside(p)
        BY <1>1, <1>2, <2>3, Removals DEF DropLeftover, SetAside, Condemns
    <2> QED
        BY <1>2, <1>4, <2>1, <2>2, <2>3
        DEF Recovery, StartRun, PassLive, Inspect, StatBaseline, RestoreFails,
            EndFirstScan, Authorize
<1>5. CASE Execute(p)
    <2>1. CASE UndoCreate(p) \/ Discard(p) \/ Isolate(p) \/ DeleteWorkspace(p)
        BY <1>2, <2>1, Removals DEF UndoCreate, Discard, Isolate, DeleteWorkspace
    <2> QED
        BY <1>2, <1>3, <1>5, <2>1
        DEF Execute, CreateRun, LockRun, Materialize, PersistBaselines,
            OverlaySecrets, Relock, RewriteLock, Unwind, Abort, RunHost, WipeSecrets,
            WipeFails, ClearLock, WriteRecord
<1>6. CASE Cleaning(p)
    <2>1. CASE CleanRun(p)
        BY <1>1, <2>1, Removals DEF CleanRun, Condemns
    <2>2. CASE PurgeRun(p)
        BY <1>1, <1>2, <2>2, Removals DEF PurgeRun, Condemns
    <2>3. CASE CleanOther(p)
        BY <1>1, <2>3 DEF CleanOther, Calm
    <2> QED
        BY <1>2, <1>6, <2>1, <2>2, <2>3
        DEF Cleaning, StartClean, EndClean, StartInvalidate, InvalidateRun,
            EndInvalidate
<1>7. CASE Crash(p) \/ RecyclePid(p)
    BY <1>2, <1>3, <1>7 DEF Crash, RecyclePid
<1> QED BY <1>4, <1>5, <1>6, <1>7 DEF Step

(* Only a process records itself; only a directory whose lock is unwritten   *)
(* is judged, and by a command on its list; histories grow.                 *)
LEMMA Marks ==
    ASSUME TypeOK, NEW p \in Run, Step(p)
    PROVE  /\ recorded' \subseteq recorded \cup {p}
           /\ judged \subseteq judged' /\ cut \subseteq cut'
           /\ \A r \in judged' : r \in judged \/ Unwritten(r)
           /\ pc[p] \notin CommandSteps => UNCHANGED judged
<1>1. \A r : Judge(r) => /\ judged \subseteq judged'
                         /\ \A x \in judged' : x \in judged \/ Unwritten(x)
    BY DEF Judge
<1>2. \A r : RemoveSome(r) \/ RemoveRest(r) => cut \subseteq cut'
    BY DEF RemoveSome, RemoveRest
<1> USE DEF Goto, Disk, History
<1>3. CASE Recovery(p)
    BY <1>1, <1>2, <1>3
    DEF CommandSteps, Recovery, StartRun, PassLive, Inspect, StatBaseline,
        RestoreBaseline,
        RestoreFails, MarkRecovered, DropLeftover, SetAside, EndFirstScan, Authorize
<1>4. CASE Execute(p)
    BY <1>2, <1>4
    DEF Execute, CreateRun, LockRun, UndoCreate, Materialize, PersistBaselines,
        OverlaySecrets, Relock, RewriteLock, Unwind, Abort, Discard, Isolate, RunHost,
        WipeSecrets, WipeFails, ClearLock, WriteRecord, DeleteWorkspace
<1>5. CASE Cleaning(p)
    BY <1>1, <1>2, <1>5
    DEF CommandSteps, Cleaning, StartClean, CleanRun, EndClean, CleanOther,
        StartInvalidate,
        InvalidateRun, PurgeRun, EndInvalidate
<1>6. CASE Crash(p) \/ RecyclePid(p)
    BY <1>6 DEF Crash, RecyclePid
<1> QED BY <1>3, <1>4, <1>5, <1>6 DEF Step

\* What p may newly know or condemn after a step.
Learned(p, r) == Knows(p, r)' => Knows(p, r) \/ There(r) \/ r \in recorded
Chosen(p, r) ==
    Condemns(p, r)' =>
        \/ Condemns(p, r)
        \/ ~RunIsLive(r) /\ (Unwritten(r) => r \in judged' \/ Marked(r))

(* A process learns of a directory by listing it or by its record, and      *)
(* condemns it only after reading it as not live.                           *)
LEMMA Learning ==
    ASSUME TypeOK, NEW p \in Run, Step(p), NEW r \in Run
    PROVE  Learned(p, r) /\ Chosen(p, r)
<1>1. pc \in [Run -> Steps] /\ job \in [Run -> Job] /\ job[p] \in Job
    BY DEF TypeOK, Steps
<1>2. /\ pc'[p] = pc[p] /\ UNCHANGED job => Learned(p, r) /\ Chosen(p, r)
      /\ pc'[p] \notin Visits \cup {"clean"} /\ UNCHANGED job
            => Learned(p, r) /\ Chosen(p, r)
      /\ pc[p] \in Visits /\ pc'[p] \in Visits /\ UNCHANGED job
            => Learned(p, r) /\ Chosen(p, r)
    BY <1>1 DEF Learned, Chosen, Knows, Condemns, Visits
<1>3. ASSUME Return(p) PROVE Learned(p, r) /\ Chosen(p, r)
    <2>1. pc'[p] = "idle" /\ job'[p].todo = {}
        BY <1>1, <1>3 DEF Return, NoJob, Task
    <2> QED BY <2>1 DEF Learned, Chosen, Knows, Condemns, Visits
<1>4. ASSUME NEW o, Exit(p, o) PROVE Learned(p, r) /\ Chosen(p, r)
    <2>1. pc'[p] = "done" /\ job'[p].todo = job[p].todo
        BY <1>1, <1>4 DEF Exit, Job
    <2> QED BY <2>1 DEF Learned, Chosen, Knows, Condemns, Visits
<1>5. ASSUME NEW n, StartScan(p, n) PROVE Learned(p, r) /\ Chosen(p, r)
    <2>1. pc'[p] = "scan" /\ job'[p].todo = {x \in Run : There(x)}
        BY <1>1, <1>5 DEF StartScan, Task
    <2> QED BY <2>1 DEF Learned, Chosen, Knows, Condemns, Visits
<1>6. ASSUME NEW x \in job[p].todo, Pass(p, x), UNCHANGED pc
      PROVE  Learned(p, r) /\ Chosen(p, r)
    <2>1. job'[p].todo = job[p].todo \ {x} /\ job'[p].cur = job[p].cur
        BY <1>1, <1>6 DEF Pass, Job
    <2> QED BY <1>1, <1>6, <2>1 DEF Learned, Chosen, Knows, Condemns, Visits
<1>7. ASSUME NEW x \in job[p].todo, Take(p, x), ~RunIsLive(x), Judge(x),
             pc'[p] \in {"stat", "purge"}
      PROVE  Learned(p, r) /\ Chosen(p, r)
    <2>1. job'[p].todo = job[p].todo \ {x} /\ job'[p].cur = x
        BY <1>1, <1>7 DEF Take, Job
    <2> QED
        BY <1>7, <2>1 DEF Learned, Chosen, Knows, Condemns, Visits, Judge
<1> USE DEF Goto
<1>8. CASE Recovery(p)
    <2>1. CASE StartRun(p) \/ Authorize(p) \/ PassLive(p)
        BY <2>1, <1>3, <1>5, <1>6 DEF StartRun, Authorize, PassLive
    <2>2. CASE Inspect(p)
        BY <2>2, <1>1, <1>7 DEF Inspect
    <2>3. CASE SetAside(p)
        BY <2>3, <1>1, <1>2, <1>3 DEF SetAside, Visits
    <2> QED
        BY <1>1, <1>2, <1>8, <2>1, <2>2, <2>3
        DEF Recovery, StatBaseline, RestoreBaseline, RestoreFails, MarkRecovered,
            DropLeftover, EndFirstScan, Visits
<1>9. CASE Execute(p)
    <2>1. CASE RunHost(p) \/ WriteRecord(p)
        <3>1. job'[p].todo = job[p].todo /\ pc'[p] \in {"wipe", "delete"}
            BY <1>1, <2>1 DEF RunHost, WriteRecord, Job
        <3> QED BY <3>1 DEF Learned, Chosen, Knows, Condemns, Visits
    <2>2. CASE UndoCreate(p) \/ Discard(p) \/ Isolate(p) \/ DeleteWorkspace(p)
        BY <1>1, <1>2, <1>4, <2>2
        DEF UndoCreate, Discard, Isolate, DeleteWorkspace, Visits
    <2> QED
        BY <1>1, <1>2, <1>9, <2>1, <2>2
        DEF Execute, CreateRun, LockRun, Materialize, PersistBaselines,
            OverlaySecrets, Relock, RewriteLock, Unwind, Abort, WipeSecrets,
            WipeFails,
            ClearLock, Visits
<1>10. CASE Cleaning(p)
    <2>1. CASE StartClean(p)
        <3>1. /\ pc'[p] = "clean"
              /\ job'[p].todo = {x \in Run : There(x) /\ ~RunIsLive(x) /\ Marked(x)}
            BY <1>1, <2>1 DEF StartClean, Task
        <3> QED BY <3>1 DEF Learned, Chosen, Knows, Condemns, Visits
    <2>2. CASE CleanRun(p)
        BY <2>2, <1>1, <1>2, <1>6 DEF CleanRun
    <2>3. ASSUME NEW s \in System, StartInvalidate(p, s)
          PROVE  Learned(p, r) /\ Chosen(p, r)
        <3>1. /\ pc'[p] = "invalidate"
              /\ job'[p].todo = {x \in recorded : SystemOf[x] = s}
            BY <1>1, <2>3 DEF StartInvalidate, Task
        <3> QED BY <3>1 DEF Learned, Chosen, Knows, Condemns, Visits
    <2>4. CASE InvalidateRun(p)
        BY <2>4, <1>1, <1>6, <1>7 DEF InvalidateRun
    <2>5. CASE PurgeRun(p)
        BY <2>5, <1>1, <1>2, <1>3 DEF PurgeRun, Visits
    <2> QED
        BY <1>2, <1>3, <1>10, <2>1, <2>2, <2>3, <2>4, <2>5
        DEF Cleaning, EndClean, CleanOther, EndInvalidate
<1>11. CASE Crash(p)
    BY <1>1, <1>2, <1>3, <1>11 DEF Crash, Visits
<1>12. CASE RecyclePid(p)
    BY <1>2, <1>12 DEF RecyclePid
<1> QED BY <1>8, <1>9, <1>10, <1>11, <1>12 DEF Step

-----------------------------------------------------------------------------
(* The invariant is inductive                                              *)

Kept(r) ==
    /\ Unborn(r) /\ Rooted(r) /\ Guarded(r) /\ Fresh(r) /\ Held(r)
    /\ Stocked(r) /\ Behind(r) /\ Isolated(r)

(* A step of p keeps what the invariant says of another run: the directory   *)
(* is left alone while it is guarded, and can only lose values.              *)
LEMMA OthersKept ==
    ASSUME IInv, NEW p \in Run, Step(p), NEW r \in Run, r # p
    PROVE  Kept(r)'
<1>1. TypeOK /\ Kept(r) /\ runs[r] \in Dir /\ (runs[r])' \in Dir
    BY DirTyped DEF IInv, Custody, Secrecy, Kept, TypeOK
<1>2. /\ pc'[r] = pc[r] /\ job'[r] = job[r]
      /\ \A q \in Run : q # p => pc'[q] = pc[q] /\ job'[q] = job[q]
    BY <1>1, Locality
<1>3. Calm(r) \/ (Condemns(p, r) /\ Touched(r))
    BY <1>1, Reach DEF Kept
<1>4. /\ r \in recorded' => r \in recorded
      /\ r \in judged => r \in judged'
      /\ r \in cut => r \in cut'
      /\ r \in judged' => r \in judged \/ Unwritten(r)
    BY <1>1, Marks
<1>5. Learned(p, r) /\ Chosen(p, r)
    BY <1>1, Learning
<1>6. \A q \in Run : /\ Knows(q, r)' => Knows(q, r) \/ There(r) \/ r \in recorded
                     /\ Condemns(q, r)' => Condemns(q, r) \/ Condemns(p, r)'
    BY <1>2, <1>5 DEF Learned, Knows, Condemns
<1>7. Unborn(r)'
    BY <1>1, <1>2, <1>3, <1>4, <1>6
    DEF Unborn, Kept, Calm, Knows, Condemns, Visits, There, NoDir, Before,
        CommandSteps, Unwritten
<1>8. Guarded(r)' /\ Fresh(r)' /\ Held(r)'
    <2>1. CASE Condemns(p, r)
        <3>1. pc[r] \in OwnSteps /\ r \notin judged => pc[r] # "lock" /\ ~Locked(r)
            BY <1>1, <2>1 DEF Kept, Guarded
        <3>2. Locked(r)' => Locked(r)
            BY <1>3 DEF Calm, Touched, Locked
        <3> QED
            BY <1>1, <1>2, <1>4, <3>1, <3>2
            DEF Kept, Guarded, Fresh, Held, HeldSteps, BeginSteps, OwnSteps
    <2>2. CASE ~Condemns(p, r)
        <3>1. Calm(r)
            BY <1>3, <2>2
        <3>2. Unwritten(r) /\ r \notin judged' => ~Marked(r)
            BY <1>1, <1>4
            DEF Kept, Fresh, Held, NewDir, Marked, Unwritten, HeldSteps, PrepareSteps
        <3>3. pc[r] \in OwnSteps /\ (pc[r] = "lock" \/ Locked(r)) /\ r \notin judged'
                => ~Condemns(p, r)'
            BY <1>5, <2>2, <3>2
            DEF Chosen, RunIsLive, Unwritten, OwnSteps, BeginSteps, HeldSteps,
                PrepareSteps, Ended
        <3>4. Guarded(r)'
            BY <1>1, <1>2, <1>4, <1>6, <3>1, <3>3 DEF Kept, Guarded, Calm, Locked
        <3>5. Fresh(r)' /\ Held(r)'
            BY <1>1, <1>2, <1>4, <3>1
            DEF Kept, Fresh, Held, Calm, There, Locked, Marked
        <3> QED BY <3>4, <3>5
    <2> QED BY <2>1, <2>2
<1>9. Stocked(r)'
    <2>1. pc[r] \in {"persist", "overlay", "relock", "rewrite", "host", "wipe"}
             /\ r \notin judged
            => ~Condemns(p, r)
        BY <1>1 DEF Kept, Guarded, Held, OwnSteps, HeldSteps, PrepareSteps
    <2> QED
        BY <1>1, <1>2, <1>3, <1>4, <2>1 DEF Kept, Stocked, Calm
<1>10. Behind(r)'
    BY <1>1, <1>2, <1>3, <1>4 DEF Kept, Behind, Calm, Touched
<1>11. Isolated(r)'
    <2>1. CASE Calm(r)
        BY <1>1, <1>2, <1>4, <2>1 DEF Kept, Isolated, Calm, CanWipe, There
    <2>2. CASE Condemns(p, r) /\ Touched(r) /\ runs[r].body = "values"
        <3>1. pc[r] \in {"relock", "rewrite", "host", "wipe", "release"}
                => r \in judged
            BY <1>1, <2>2
            DEF Kept, Guarded, Held, OwnSteps, HeldSteps, PrepareSteps
        <3> QED
            BY <1>1, <1>2, <1>4, <2>2, <3>1
            DEF Kept, Behind, Isolated, ValueSteps, Ended, Touched, CanWipe, There
    <2>3. CASE Condemns(p, r) /\ Touched(r) /\ runs[r].body # "values"
        BY <1>1, <1>2, <1>4, <2>3 DEF Kept, Isolated, Touched, CanWipe, There
    <2> QED BY <1>3, <2>1, <2>2, <2>3
<1>12. Rooted(r)'
    BY <1>1, <1>3 DEF Kept, Rooted, Calm, Touched, There, NoDir
<1> QED BY <1>7, <1>8, <1>9, <1>10, <1>11, <1>12 DEF Kept

(* A step of p keeps what the invariant says of its own run, the steps before *)
(* BeginRun first.                                                           *)
LEMMA OwnBefore ==
    ASSUME IInv, NEW p \in Run, Step(p), pc[p] \in Before
    PROVE  Kept(p)'
<1>1. TypeOK /\ Kept(p)
    BY DEF IInv, Custody, Secrecy, Kept
<1>2. \A q \in Run : ~Knows(q, p) /\ ~Condemns(q, p)
    BY <1>1 DEF Kept, Unborn, Knows, Condemns, Visits
<1>3. runs[p] = NoDir /\ quar[p] = "none" /\ p \notin recorded /\ p \notin judged
    BY <1>1 DEF Kept, Unborn
<1>4. /\ p \notin judged'
      /\ \A q \in Run : q # p => pc'[q] = pc[q] /\ job'[q] = job[q]
      /\ Learned(p, p) /\ Chosen(p, p)
    BY <1>1, <1>3, Locality, Marks, Learning DEF Before, CommandSteps, Unwritten
<1>5. \A q \in Run : ~Knows(q, p)'
    BY <1>2, <1>3, <1>4 DEF Learned, Knows, There, NoDir
<1>6. \A q \in Run : ~Condemns(q, p)'
    BY <1>5 DEF Knows, Condemns, Visits
<1>7. CASE CreateRun(p)
    <2>1. pc'[p] \in {"lock", "undo"} /\ runs'[p] \in {NoDir, NewDir}
          /\ UNCHANGED <<quar, recorded, cut>>
        BY <1>1, <1>3, <1>7 DEF CreateRun, Goto, Set, History, TypeOK
    <2>2. Unborn(p)' /\ Rooted(p)' /\ Guarded(p)' /\ Held(p)'
        BY <1>6, <2>1
        DEF Unborn, Rooted, NoDir, NewDir, Guarded, Held, Before, CommandSteps,
            HeldSteps, PrepareSteps
    <2>3. Fresh(p)'
        BY <1>7, <1>1 DEF CreateRun, Fresh, Goto, Set, TypeOK
    <2>4. Stocked(p)' /\ Behind(p)' /\ Isolated(p)'
        BY <1>3, <2>1 DEF Stocked, Behind, Isolated, NoDir, NewDir
    <2> QED BY <2>2, <2>3, <2>4 DEF Kept
<1>8. CASE ~CreateRun(p)
    <2>1. /\ pc[p] \in Visits => job[p].cur # p
          /\ p \notin job[p].todo
        BY <1>2 DEF Knows
    <2>2. /\ job[p].cur \in Run /\ job[p].todo \subseteq Run
          /\ runs \in [Run -> Dir] /\ pc \in [Run -> Steps]
          /\ quar \in [Run -> {"none", "clean", "values"}]
        BY <1>1 DEF TypeOK, Job, Steps
    <2>3. \A x \in Run : /\ x # p /\ (RemoveSome(x) \/ RemoveRest(x))
                              => runs'[p] = NoDir
                         /\ x # p /\ Rename(x)
                              => runs'[p] = NoDir /\ quar'[p] = "none"
        BY <1>3, <2>2 DEF RemoveSome, RemoveRest, Rename, Set
    <2>4. \A x \in Run : \A d : x # p /\ Set(x, d) => runs'[p] = NoDir
        BY <1>3, <2>2 DEF Set
    <2> DEFINE Before2 == /\ pc'[p] \in Before
                          /\ runs'[p] = NoDir /\ quar'[p] = "none"
                          /\ recorded' \subseteq recorded
    <2> USE DEF Goto, Disk, Before, CommandSteps
    <2>5. ASSUME Recovery(p) PROVE Before2
        <3>1. CASE RestoreBaseline(p) \/ MarkRecovered(p) \/ DropLeftover(p)
            BY <1>3, <2>1, <2>2, <2>3, <2>4, <3>1
            DEF RestoreBaseline, MarkRecovered, DropLeftover, Visits
        <3>2. CASE SetAside(p)
            BY <1>3, <2>1, <2>2, <2>3, <3>2 DEF SetAside, Return, Visits
        <3> QED
            BY <1>3, <2>2, <2>5, <3>1, <3>2
            DEF Recovery, StartRun, PassLive, Inspect, StatBaseline,
                RestoreFails, EndFirstScan, Authorize, Return, StartScan
    <2>6. ASSUME Cleaning(p) PROVE Before2
        <3>1. CASE CleanRun(p)
            BY <1>3, <2>1, <2>2, <2>3, <3>1 DEF CleanRun
        <3>2. CASE PurgeRun(p)
            BY <1>3, <2>1, <2>2, <2>3, <3>2 DEF PurgeRun, Return, Visits
        <3>3. CASE CleanOther(p)
            BY <1>3, <2>2, <3>3 DEF CleanOther
        <3> QED
            BY <1>3, <2>2, <2>6, <3>1, <3>2, <3>3
            DEF Cleaning, StartClean, EndClean, StartInvalidate, InvalidateRun,
                EndInvalidate, Return
    <2>7. ASSUME Crash(p) PROVE Before2
        BY <1>3, <2>2, <2>7
        DEF Crash, Return, OwnSteps, BeginSteps, HeldSteps, PrepareSteps
    <2>8. ~RecyclePid(p)
        BY DEF RecyclePid, Ended
    <2>9. ASSUME Execute(p) PROVE Before2
        BY <1>8, <2>9
        DEF Execute, LockRun, UndoCreate, Materialize, PersistBaselines,
            OverlaySecrets, Relock, RewriteLock, Unwind, Abort, Discard, Isolate,
            RunHost,
            WipeSecrets, WipeFails, ClearLock, WriteRecord, DeleteWorkspace
    <2>10. Before2
        BY <2>5, <2>6, <2>7, <2>8, <2>9 DEF Step
    <2> QED
        BY <1>3, <1>4, <1>5, <1>6, <2>10
        DEF Kept, Unborn, Rooted, Guarded, Fresh, Held, Stocked, Behind, Isolated,
            NoDir,
            OwnSteps, BeginSteps, HeldSteps, PrepareSteps
<1> QED BY <1>7, <1>8

(* And the steps from BeginRun's lock to the end of the process.            *)
LEMMA OwnAfter ==
    ASSUME IInv, NEW p \in Run, Step(p), pc[p] \notin Before
    PROVE  Kept(p)'
<1>1. TypeOK /\ Kept(p)
    BY DEF IInv, Custody, Secrecy, Kept
<1>2. /\ runs \in [Run -> Dir] /\ pc \in [Run -> Steps] /\ job \in [Run -> Job]
      /\ quar \in [Run -> {"none", "clean", "values"}]
      /\ runs[p] \in Dir /\ pc[p] \in OwnSteps \cup Ended
    BY <1>1 DEF TypeOK, Steps, Before
<1>3. /\ p \in judged => p \in judged'
      /\ p \in cut => p \in cut'
      /\ \A q \in Run : q # p => pc'[q] = pc[q] /\ job'[q] = job[q]
    BY <1>1, Locality, Marks
<1>4. ~CreateRun(p) /\ ~Recovery(p) /\ ~Cleaning(p)
    BY DEF CreateRun, Recovery, StartRun, PassLive, Inspect, StatBaseline,
           RestoreBaseline, RestoreFails, MarkRecovered, DropLeftover, SetAside,
           EndFirstScan, Authorize, Cleaning, StartClean, CleanRun, EndClean,
           CleanOther, StartInvalidate, InvalidateRun, PurgeRun, EndInvalidate,
           Goto, Before, CommandSteps
<1>5. pc[p] \in Ended => UNCHANGED pc
    BY <1>4
    DEF Step, Crash, RecyclePid, Execute, LockRun, UndoCreate, Materialize,
        PersistBaselines, OverlaySecrets, Relock, RewriteLock, Unwind, Abort,
        Discard, Isolate,
        RunHost, WipeSecrets, WipeFails, ClearLock, WriteRecord, DeleteWorkspace,
        Goto, Before, CommandSteps, OwnSteps, BeginSteps, HeldSteps, PrepareSteps,
        Ended
<1> DEFINE Rest == Rooted(p)' /\ Held(p)' /\ Stocked(p)' /\ Behind(p)' /\ Isolated(p)'
<1>6. ASSUME pc'[p] \in (OwnSteps \cup Ended) \ {"lock"},
             pc[p] = "lock" \/ (Locked(p)' => Locked(p)),
             Rest
      PROVE  Kept(p)'
    <2>1. \A q \in Run : Condemns(q, p)' => Condemns(q, p)
        BY <1>3, <1>6
        DEF Condemns, OwnSteps, BeginSteps, HeldSteps, PrepareSteps, Ended
    <2>2. Guarded(p)'
        BY <1>1, <1>2, <1>3, <1>6, <1>5, <2>1
        DEF Kept, Guarded, OwnSteps, BeginSteps, HeldSteps, PrepareSteps, Ended
    <2> QED
        BY <1>6, <2>2
        DEF Kept, Unborn, Fresh, Before, CommandSteps, OwnSteps, BeginSteps,
            HeldSteps, PrepareSteps, Ended
<1> USE DEF Goto, Disk, History, OwnSteps, BeginSteps, HeldSteps, PrepareSteps, Ended
<1>7. ASSUME NEW l \in {"done", "undo", "discard", "delete"},
             pc'[p] = l, pc[p] \in {"undo", "discard", "delete"},
             RemoveSome(p) \/ RemoveRest(p), UNCHANGED quar,
             l = pc[p] \/ l = "done"
      PROVE  Kept(p)'
    <2>1. /\ runs'[p] = NoDir \/ runs'[p] \in Remains(runs[p])
          /\ p \in cut'
        BY <1>2, <1>7 DEF RemoveSome, RemoveRest, Set
    <2>2. runs[p].body # "values" /\ quar[p] = "values" => p \in judged
        BY <1>1, <1>7 DEF Kept, Behind, Isolated, ValueSteps,
            There
    <2>3. runs'[p].has \subseteq runs[p].has /\ runs'[p].body # "values"
        BY <1>2, <2>1, <2>2, <1>1, <1>7 DEF NoDir, Remains, Kept, Behind, ValueSteps,
            There
    <2>4. Rest
        BY <1>3, <1>7, <2>1, <2>2, <2>3, <1>1
        DEF Rooted, Held, Stocked, Behind, Isolated, Kept, ValueSteps,
            NoDir, Remains, There
    <2> QED BY <1>6, <1>7, <2>3, <2>4 DEF Locked
<1>8. CASE LockRun(p)
    <2>1. CASE Set(p, TakeLock(p)) /\ pc'[p] = "materialize"
        <3>1. runs'[p] = TakeLock(p) /\ UNCHANGED quar
            BY <1>2, <1>8, <2>1 DEF LockRun, Set
        <3>2. Rest
            BY <1>1, <1>2, <1>3, <1>8, <2>1, <3>1
            DEF LockRun, TakeLock, Kept, Rooted, Fresh, NewDir, Held, Stocked, Behind,
                Isolated, There, Locked, Marked, Dir, ValueSteps,
            There
        <3> QED BY <1>6, <1>8, <2>1, <3>2 DEF LockRun
    <2>2. CASE /\ \E d \in {runs[p], MakeRoot(p), TakeLock(p)} : Set(p, d)
               /\ pc'[p] = "undo"
        <3>0. /\ UNCHANGED quar
              /\ runs[p].has \subseteq runs'[p].has
              /\ runs'[p].base = runs[p].base /\ runs'[p].body = runs[p].body
            BY <1>2, <1>8, <2>2 DEF LockRun, Set, MakeRoot, TakeLock, Dir
        <3>1. Rest
            BY <1>1, <1>3, <1>8, <2>2, <3>0
            DEF LockRun, Kept, Rooted, Held, Stocked, Behind, Isolated, ValueSteps,
            There
        <3> QED BY <1>6, <1>8, <2>2, <3>1 DEF LockRun
    <2> QED BY <1>2, <1>8, <2>1, <2>2 DEF LockRun
<1>9. CASE UndoCreate(p) \/ Discard(p)
    <2>1. CASE /\ RemoveSome(p) \/ RemoveRest(p)
               /\ pc[p] \in {"undo", "discard"} /\ pc'[p] \in {pc[p], "done"}
        BY <1>7, <1>9, <2>1 DEF UndoCreate, Discard
    <2>2. CASE UNCHANGED runs
        <3>1. /\ pc'[p] \in {"isolate", "done"}
              /\ pc'[p] = "done" => job'[p].out = "error"
              /\ UNCHANGED quar
            BY <1>2, <1>9, <2>2 DEF UndoCreate, Discard, Exit, RemoveSome,
                RemoveRest, Job, Remains, Set
        <3>2. Rest
            BY <1>1, <1>3, <1>9, <2>2, <3>1
            DEF UndoCreate, Discard, Kept, Rooted, Held, Stocked, Behind, Isolated,
                ValueSteps,
            There
        <3> QED BY <1>6, <2>2, <3>1, <3>2 DEF Locked
    <2> QED BY <1>2, <1>9, <2>1, <2>2 DEF UndoCreate, Discard, Exit
<1>10. CASE Materialize(p)
    <2>1. /\ pc'[p] \in {"persist", "abort"} /\ UNCHANGED quar
          /\ runs'[p].has \subseteq runs[p].has \cup {"root"}
          /\ runs[p].has \subseteq runs'[p].has
          /\ runs'[p].base = runs[p].base
          /\ runs'[p].body \in {runs[p].body, "plan"}
          /\ runs'[p] = runs[p] \/ There(p)'
          /\ p \in Secretive /\ pc'[p] = "persist" => runs'[p].body = "plan"
        BY <1>2, <1>10 DEF Materialize, MakeRoot, Set, Dir, There
    <2>2. Rest
        BY <1>1, <1>3, <1>10, <2>1
        DEF Materialize, Kept, Rooted, Held, Stocked, Behind, Isolated, ValueSteps,
            There, Locked, Marked
    <2> QED BY <1>6, <2>1, <2>2 DEF Locked
<1>11. CASE PersistBaselines(p)
    <2>1. /\ pc'[p] \in {"overlay", "abort"} /\ UNCHANGED quar
          /\ runs'[p].has \subseteq runs[p].has \cup {"root"}
          /\ runs[p].has \subseteq runs'[p].has
          /\ runs'[p].body = runs[p].body
          /\ runs'[p] = runs[p] \/ There(p)'
          /\ p \in Secretive /\ pc'[p] = "overlay" => runs'[p].base = "whole"
        BY <1>2, <1>11 DEF PersistBaselines, Set, Dir, There
    <2>2. Rest
        BY <1>1, <1>3, <1>11, <2>1
        DEF PersistBaselines, Kept, Rooted, Held, Stocked, Behind, Isolated,
            ValueSteps,
            There, Locked, Marked
    <2> QED BY <1>6, <2>1, <2>2 DEF Locked
<1>12. CASE OverlaySecrets(p)
    <2>1. /\ pc'[p] \in {"relock", "unwind"} /\ UNCHANGED quar
          /\ runs'[p].has = runs[p].has
          /\ runs'[p].base = runs[p].base
          /\ \/ runs'[p].body = runs[p].body
             \/ p \in Secretive /\ runs[p].body # "none" /\ runs'[p].body = "values"
          /\ p \in Secretive /\ pc'[p] = "relock" => runs'[p].body = "values"
        BY <1>2, <1>12 DEF OverlaySecrets, Filled, Set, Dir
    <2>2. Rest
        BY <1>1, <1>3, <1>12, <2>1
        DEF OverlaySecrets, Kept, Rooted, Held, Stocked, Behind, Isolated, ValueSteps,
            There, Locked, Marked
    <2> QED BY <1>6, <2>1, <2>2 DEF Locked
<1>13. CASE Relock(p)
    <2>1. /\ pc'[p] \in {"rewrite", "unwind"} /\ UNCHANGED quar
          /\ \/ runs'[p].has = runs[p].has
             \/ runs'[p].has = runs[p].has \cup {"root"}
             \/ runs'[p].has = runs[p].has \cup {"root", "live.lock"}
          /\ runs'[p].base = runs[p].base /\ runs'[p].body = runs[p].body
        BY <1>2, <1>13 DEF Relock, TakeLock, MakeRoot, Set, Dir
    <2>2. Rest
        BY <1>1, <1>3, <1>13, <2>1
        DEF Relock, Kept, Rooted, Held, Stocked, Behind, Isolated, ValueSteps,
            There, Locked, Marked
    <2>3. p \notin judged => Locked(p)
        BY <1>1, <1>13 DEF Relock, Kept, Held
    <2>4. \A q \in Run : Condemns(q, p)' => Condemns(q, p)
        BY <1>3, <2>1 DEF Condemns
    <2>5. Guarded(p)'
        BY <1>1, <1>3, <1>13, <2>3, <2>4 DEF Relock, Kept, Guarded
    <2> QED
        BY <2>1, <2>2, <2>5 DEF Kept, Unborn, Fresh, Before, CommandSteps
<1>21. CASE RewriteLock(p)
    <2>1. /\ pc'[p] \in {"host", "unwind"} /\ UNCHANGED quar
          /\ \/ runs'[p].has = runs[p].has
             \/ pc'[p] = "unwind" /\ runs'[p].has = runs[p].has \ {"live.lock"}
          /\ runs'[p].base = runs[p].base /\ runs'[p].body = runs[p].body
        BY <1>2, <1>21 DEF RewriteLock, EmptyLock, Set, Dir
    <2>2. Rest
        BY <1>1, <1>3, <1>21, <2>1
        DEF RewriteLock, Kept, Rooted, Held, Stocked, Behind, Isolated, ValueSteps,
            There, Locked, Marked
    <2> QED BY <1>6, <2>1, <2>2 DEF Locked
<1>14. CASE Unwind(p) \/ WipeSecrets(p) \/ WipeFails(p)
    <2>1. /\ pc'[p] \in {"abort", "isolate", "clear", "release"} /\ UNCHANGED quar
          /\ runs'[p].has = runs[p].has
          /\ runs'[p].base = runs[p].base
          /\ \/ runs'[p].body = runs[p].body
             \/ runs'[p].body = "plan"
          /\ runs'[p].body = runs[p].body \/ There(p)
          /\ p \in Secretive /\ pc'[p] \in {"abort", "clear"} =>
                runs'[p].body = "plan"
          /\ pc'[p] \in {"clear", "release"} => pc[p] = "wipe"
          /\ pc'[p] = "abort" => CanWipe(p)
        BY <1>2, <1>14 DEF Unwind, WipeSecrets, WipeFails, Wiped, CanWipe,
            Set, Dir
    <2>2. Rest
        BY <1>1, <1>3, <1>14, <2>1
        DEF Unwind, WipeSecrets, WipeFails, Kept, Rooted, Held, Stocked, Behind,
            Isolated,
            ValueSteps, There, Locked, Marked
    <2> QED BY <1>6, <2>1, <2>2 DEF Locked
<1>15. CASE Abort(p) \/ RunHost(p) \/ WriteRecord(p)
    <2>1. /\ UNCHANGED <<runs, quar>>
          /\ \/ pc[p] = "abort" /\ pc'[p] = "discard"
             \/ pc[p] = "host" /\ pc'[p] = "wipe"
             \/ pc[p] = "record" /\ pc'[p] = "delete"
        BY <1>2, <1>15 DEF Abort, RunHost, WriteRecord
    <2>2. Rest
        BY <1>1, <1>3, <2>1
        DEF Kept, Rooted, Held, Stocked, Behind, Isolated, ValueSteps, There,
            Locked, Marked
    <2> QED BY <1>6, <2>1, <2>2 DEF Locked
<1>16. CASE Isolate(p)
    <2>1. /\ pc'[p] = "done" /\ job'[p].out = "error"
          /\ \/ runs'[p] = runs[p] /\ UNCHANGED quar
             \/ runs'[p] = NoDir
        BY <1>2, <1>16 DEF Isolate, Exit, Rename, Set, Job
    <2>2. Rest
        BY <1>1, <1>3, <1>16, <2>1
        DEF Isolate, Kept, Rooted, Held, Stocked, Behind, Isolated, ValueSteps, NoDir,
            There
    <2> QED BY <1>6, <1>16, <2>1, <2>2 DEF Locked, NoDir, Isolate
<1>17. CASE ClearLock(p)
    <2>1. /\ \/ pc[p] = "clear" /\ pc'[p] = "record"
             \/ pc[p] = "release" /\ pc'[p] = "isolate"
          /\ UNCHANGED quar
          /\ runs'[p].has \in {runs[p].has, runs[p].has \ {"live.lock"}}
          /\ runs'[p].base = runs[p].base /\ runs'[p].body = runs[p].body
        BY <1>2, <1>17 DEF ClearLock, EmptyLock, Set, Dir
    <2>2. Rest
        BY <1>1, <1>3, <2>1
        DEF Kept, Rooted, Held, Stocked, Behind, Isolated, ValueSteps,
            There
    <2> QED BY <1>6, <2>1, <2>2 DEF Locked
<1>18. CASE DeleteWorkspace(p)
    <2>1. CASE (RemoveSome(p) \/ RemoveRest(p)) /\ pc'[p] \in {"delete", "done"}
        <3>1. pc[p] = "delete" /\ UNCHANGED quar
            BY <1>18 DEF DeleteWorkspace
        <3> QED BY <1>7, <2>1, <3>1
    <2>2. CASE pc'[p] = "isolate" /\ UNCHANGED runs
        <3>1. Rest
            BY <1>1, <1>3, <1>18, <2>2
            DEF DeleteWorkspace, Kept, Rooted, Held, Stocked, Behind, Isolated,
                ValueSteps,
            There
        <3> QED BY <1>6, <2>2, <3>1 DEF Locked
    <2> QED BY <1>2, <1>18, <2>1, <2>2 DEF DeleteWorkspace, Exit
<1>19. CASE Crash(p)
    <2>1. /\ pc[p] \notin Ended /\ pc'[p] = "dead" /\ UNCHANGED <<quar, job>>
          /\ runs'[p].has \in {runs[p].has, runs[p].has \ {"live.lock"}}
          /\ runs'[p].base = runs[p].base /\ runs'[p].body = runs[p].body
        BY <1>2, <1>19 DEF Crash, Return, Before, EmptyLock, Set, Dir
    <2>2. Rest
        BY <1>1, <1>3, <2>1 DEF Kept, Rooted, Held, Stocked, Behind, Isolated,
            ValueSteps,
            There
    <2> QED BY <1>6, <2>1, <2>2 DEF Locked
<1>20. CASE RecyclePid(p)
    <2>1. pc[p] \in Ended /\ UNCHANGED <<pc, runs, quar, job>>
        BY <1>20 DEF RecyclePid
    <2>2. Rest
        BY <1>1, <1>3, <2>1 DEF Kept, Rooted, Held, Stocked, Behind, Isolated,
            ValueSteps,
            There
    <2> QED BY <1>6, <2>1, <2>2 DEF Locked
<1> QED
    BY <1>8, <1>9, <1>10, <1>11, <1>12, <1>13, <1>14, <1>15, <1>16, <1>17, <1>18,
       <1>19, <1>20, <1>21, <1>4
    DEF Step, Execute

(* A run that has ended stays ended, and nothing puts values back.           *)
LEMMA EndedStays ==
    ASSUME IInv, NEW p \in Run, Step(p), NEW r \in Run, pc[r] \in Ended
    PROVE  /\ pc'[r] = pc[r]
           /\ runs'[r].body = "values" => runs[r].body = "values"
<1>1. TypeOK /\ Rooted(r)
    BY DEF IInv, Custody
<1>2. CASE r # p
    BY <1>1, <1>2, Locality, Reach DEF Calm, Touched
<1>3. CASE r = p
    <2>1. RecyclePid(p)
        BY <1>3
        DEF Step, Recovery, StartRun, PassLive, Inspect, StatBaseline,
            RestoreBaseline, RestoreFails, MarkRecovered, DropLeftover, SetAside,
            EndFirstScan, Authorize, Execute, CreateRun, LockRun, UndoCreate,
            Materialize, PersistBaselines, OverlaySecrets, Relock, RewriteLock,
            Unwind, Abort,
            Discard, Isolate, RunHost, WipeSecrets, WipeFails, ClearLock,
            WriteRecord, DeleteWorkspace, Cleaning, StartClean, CleanRun, EndClean,
            CleanOther, StartInvalidate, InvalidateRun, PurgeRun, EndInvalidate,
            Crash, Goto, CommandSteps, OwnSteps, BeginSteps, HeldSteps,
            PrepareSteps, Ended
    <2> QED BY <2>1 DEF RecyclePid, Disk
<1> QED BY <1>2, <1>3

(* What a recovery owes it has on its list, is at work on, or has settled.   *)
LEMMA SettledOwn ==
    ASSUME IInv, NEW p \in Run, Step(p)
    PROVE  Settled(p)'
<1>1. /\ TypeOK /\ Settled(p)
      /\ \A r \in Run : Rooted(r) /\ Behind(r)
    BY DEF IInv, Custody, Secrecy
<1>2. /\ pc \in [Run -> Steps] /\ job \in [Run -> Job] /\ runs \in [Run -> Dir]
      /\ job[p] \in Job /\ job[p].owed \subseteq Run
      /\ job[p].todo \subseteq Run /\ job[p].cur \in Run
    BY <1>1 DEF TypeOK, Steps, Job
<1>3. \A r \in Run : pc[r] \in Ended =>
        /\ pc'[r] \in Ended
        /\ runs'[r].body = "values" => runs[r].body = "values"
    BY EndedStays
<1>4. cut \subseteq cut'
    BY <1>1, Marks
<1> DEFINE Ok == Settled(p)'
           Busy(r) == pc[p] \in {"stat", "restore", "drop", "set_aside"}
                          /\ job[p].cur = r
<1>6. ASSUME job'[p].owed \subseteq job[p].owed,
             \A r \in job[p].owed :
                 Busy(r) => Unsettled(p,
                 r)' \/ r \in cut' \/ runs'[r].body # "values",
             \A r \in job'[p].owed :
                 r \in job[p].todo => r \in job'[p].todo \/ Unsettled(p, r)',
             pc[p] \in {"invalidate", "purge"} => pc'[p] \in {"invalidate", "purge"}
      PROVE  Ok
    BY <1>1, <1>2, <1>3, <1>4, <1>6 DEF Settled, Unsettled
<1>7. ASSUME job'[p].owed = {} PROVE Ok
    BY <1>7 DEF Settled
<1>8. Return(p) => Ok
    BY <1>2, <1>7 DEF Return, NoJob, Task
<1>9. ASSUME NEW n, StartScan(p, n), UNCHANGED runs PROVE Ok
    <2>1. /\ job'[p].todo = {r \in Run : There(r)}
          /\ job'[p].owed = {r \in Run : pc[r] \in Ended /\ runs[r].body = "values"}
        BY <1>2, <1>9 DEF StartScan, Task
    <2> QED BY <1>1, <1>3, <2>1 DEF Settled, Rooted
<1>10. ASSUME pc[p] \notin {"stat", "restore", "drop", "set_aside",
                            "invalidate", "purge"},
              UNCHANGED job
       PROVE  Ok
    BY <1>6, <1>10
<1>11. ASSUME NEW x \in Run, Pass(p, x), UNCHANGED pc,
              pc[p] \in {"scan", "clean", "invalidate"}
       PROVE  Ok
    <2>1. /\ job'[p].todo = job[p].todo \ {x}
          /\ job'[p].owed = job[p].owed \ {x}
        BY <1>2, <1>11 DEF Pass, Job
    <2> QED BY <1>6, <1>11, <2>1
<1>12. ASSUME NEW x \in Run, Take(p, x),
              \/ pc[p] = "scan" /\ pc'[p] = "stat"
              \/ pc[p] = "invalidate" /\ pc'[p] = "purge"
       PROVE  Ok
    <2>1. /\ job'[p].todo = job[p].todo \ {x} /\ job'[p].cur = x
          /\ job'[p].owed = job[p].owed
        BY <1>2, <1>12 DEF Take, Job
    <2>2. CASE pc[p] = "scan"
        BY <1>6, <1>12, <2>1, <2>2 DEF Unsettled
    <2>3. CASE pc[p] = "invalidate"
        BY <1>1, <1>2, <1>3, <1>12, <2>1, <2>3 DEF Settled
    <2> QED BY <1>12, <2>2, <2>3
<1> USE DEF Goto, Disk, History
<1>13. CASE Recovery(p)
    <2>1. CASE StartRun(p) \/ Authorize(p)
        BY <2>1, <1>8, <1>9 DEF StartRun, Authorize
    <2>2. CASE PassLive(p)
        BY <2>2, <1>2, <1>11 DEF PassLive
    <2>3. CASE Inspect(p)
        BY <2>3, <1>2, <1>12 DEF Inspect
    <2>4. CASE StatBaseline(p)
        BY <1>2, <1>6, <2>4 DEF StatBaseline, Unsettled
    <2>5. CASE RestoreBaseline(p)
        <3> DEFINE r == job[p].cur
        <3>1. /\ pc[p] = "restore" /\ UNCHANGED <<job, cut>>
              /\ \/ runs'[r].body = "plan"
                 \/ runs'[r] = runs[r] /\ runs[r].base = "part"
            BY <1>2, <2>5 DEF RestoreBaseline, Set, Dir
        <3>2. runs'[r].body # "values" \/ r \in cut'
            BY <1>1, <1>2, <3>1 DEF Behind
        <3> QED BY <1>6, <3>1, <3>2
    <2>6. CASE RestoreFails(p)
        BY <1>2, <1>6, <2>6 DEF RestoreFails, Unsettled
    <2>7. CASE DropLeftover(p)
        <3>1. \/ pc'[p] \in {"drop", "set_aside"}
              \/ job[p].cur \in cut'
            BY <1>2, <2>7 DEF DropLeftover, RemoveRest
        <3> QED BY <1>2, <1>6, <2>7, <3>1 DEF DropLeftover, Unsettled
    <2>8. CASE SetAside(p)
        <3>1. CASE Rename(job[p].cur) /\ UNCHANGED job
            <4>1. runs'[job[p].cur].body # "values"
                BY <1>2, <3>1 DEF Rename, Set, NoDir
            <4> QED BY <1>6, <2>8, <3>1, <4>1 DEF SetAside
        <3> QED BY <1>8, <2>8, <3>1 DEF SetAside
    <2> QED
        BY <1>10, <1>13, <2>1, <2>2, <2>3, <2>4, <2>5, <2>6, <2>7, <2>8
        DEF Recovery, MarkRecovered, EndFirstScan
<1>14. CASE Execute(p)
    <2>1. pc[p] \notin {"stat", "restore", "drop", "set_aside", "invalidate", "purge"}
        BY <1>14
        DEF Execute, CreateRun, LockRun, UndoCreate, Materialize, PersistBaselines,
            OverlaySecrets, Relock, RewriteLock, Unwind, Abort, Discard, Isolate,
            RunHost,
            WipeSecrets, WipeFails, ClearLock, WriteRecord, DeleteWorkspace
    <2>2. \A o : Exit(p, o) => job'[p].owed = job[p].owed
                                  /\ job'[p].todo = job[p].todo
        BY <1>2 DEF Exit, Job
    <2>3. job'[p].owed = job[p].owed /\ job'[p].todo = job[p].todo
        BY <1>2, <1>14, <2>2
        DEF Execute, CreateRun, LockRun, UndoCreate, Materialize, PersistBaselines,
            OverlaySecrets, Relock, RewriteLock, Unwind, Abort, Discard, Isolate,
            RunHost,
            WipeSecrets, WipeFails, ClearLock, WriteRecord, DeleteWorkspace, Job
    <2> QED BY <1>6, <2>1, <2>3
<1>15. CASE Cleaning(p)
    <2>1. CASE StartClean(p)
        BY <1>2, <1>7, <2>1 DEF StartClean, Task
    <2>2. CASE CleanRun(p)
        BY <1>2, <1>10, <1>11, <2>2 DEF CleanRun
    <2>3. ASSUME NEW s \in System, StartInvalidate(p, s) PROVE Ok
        <3>1. /\ pc'[p] = "invalidate"
              /\ job'[p].owed \subseteq {r \in Run : pc[r] \in Ended}
            BY <1>2, <2>3 DEF StartInvalidate, Task
        <3> QED BY <1>3, <3>1 DEF Settled
    <2>4. CASE InvalidateRun(p)
        BY <2>4, <1>2, <1>11, <1>12 DEF InvalidateRun
    <2>5. CASE PurgeRun(p)
        BY <2>5, <1>2, <1>6, <1>8 DEF PurgeRun
    <2>6. CASE EndClean(p) \/ EndInvalidate(p) \/ CleanOther(p)
        BY <2>6, <1>8, <1>10 DEF EndClean, EndInvalidate, CleanOther
    <2> QED BY <1>15, <2>1, <2>2, <2>3, <2>4, <2>5, <2>6 DEF Cleaning
<1>16. CASE Crash(p)
    BY <1>8, <1>10, <1>16
    DEF Crash, OwnSteps, BeginSteps, HeldSteps, PrepareSteps
<1>17. CASE RecyclePid(p)
    BY <1>10, <1>17 DEF RecyclePid, Ended
<1> QED BY <1>13, <1>14, <1>15, <1>16, <1>17 DEF Step

(* The other processes' recoveries keep what they settled.                   *)
LEMMA SettledKept ==
    ASSUME IInv, NEW p \in Run, Step(p), NEW q \in Run
    PROVE  Settled(q)'
<1>1. TypeOK /\ Settled(q)
    BY DEF IInv
<1>2. job[q] \in Job /\ job[q].owed \subseteq Run
    BY <1>1 DEF TypeOK, Job
<1>3. /\ cut \subseteq cut'
      /\ \A r \in Run : pc[r] \in Ended =>
            /\ pc'[r] \in Ended
            /\ runs'[r].body = "values" => runs[r].body = "values"
    BY <1>1, EndedStays, Marks
<1>4. CASE q # p
    <2>1. pc'[q] = pc[q] /\ job'[q] = job[q]
        BY <1>1, <1>4, Locality
    <2> QED BY <1>1, <1>2, <1>3, <2>1 DEF Settled, Unsettled
<1>5. CASE q = p
    BY <1>5, SettledOwn
<1> QED BY <1>4, <1>5

(* The initial state satisfies the invariant.                                *)
LEMMA InitIInv == Init => IInv
<1> SUFFICES ASSUME Init PROVE IInv
    OBVIOUS
<1>1. \A p \in Run : NoJob(p) \in Job /\ NoJob(p).todo = {} /\ NoJob(p).owed = {}
    BY DEF NoJob, Task, Job
<1>2. NoDir \in Dir
    BY DEF NoDir, Dir
<1>3. TypeOK
    BY <1>1, <1>2 DEF Init, TypeOK
<1>4. \A r \in Run : /\ pc[r] = "idle" /\ runs[r] = NoDir /\ quar[r] = "none"
                      /\ job[r].todo = {} /\ job[r].owed = {}
    BY <1>1 DEF Init
<1>5. \A r \in Run : Kept(r)
    BY <1>4
    DEF Init, Kept, Unborn, Rooted, Guarded, Fresh, Held, Stocked, Behind, Isolated,
        Knows, Visits, NoDir, OwnSteps, BeginSteps, HeldSteps, PrepareSteps
<1>6. \A p \in Run : Settled(p)
    BY <1>4 DEF Settled
<1> QED BY <1>3, <1>5, <1>6 DEF IInv, Custody, Secrecy, Kept

(* Every step keeps it.                                                      *)
LEMMA Inductive == IInv /\ [Next]_vars => IInv'
<1> SUFFICES ASSUME IInv, [Next]_vars PROVE IInv'
    OBVIOUS
<1>1. CASE UNCHANGED vars
    BY <1>1
    DEF vars, IInv, TypeOK, Custody, Secrecy, Unborn, Knows, Rooted, There, Guarded,
        Locked, Marked, Condemns, Fresh, Held, Stocked, Behind, Isolated, CanWipe,
        Settled, Unsettled
<1>2. ASSUME NEW p \in Run, Step(p) PROVE IInv'
    <2>1. TypeOK'
        BY StepTyped DEF IInv
    <2>2. \A r \in Run : Kept(r)'
        BY <1>2, OthersKept, OwnBefore, OwnAfter
    <2>3. \A q \in Run : Settled(q)'
        BY <1>2, SettledKept
    <2> QED BY <2>1, <2>2, <2>3 DEF IInv, Custody, Secrecy, Kept
<1> QED BY <1>1, <1>2 DEF Next, Step

(* The invariant holds throughout.                                          *)
THEOREM Invariance == Spec => []IInv
    BY InitIInv, Inductive, PTL DEF Spec

-----------------------------------------------------------------------------
(* What follows from it                                                    *)

(* The directories, locks, locals and records stay well typed.              *)
THEOREM TypeCorrect == Spec => []TypeOK
    BY Invariance, PTL DEF IInv

(* Whatever recoveries, cleanings and removals run beside it, a host finds   *)
(* its secret values, a whole baseline and its lock in place, unless its      *)
(* directory was judged before its lock was there or while it was rewritten.  *)
THEOREM HostProtected == Spec => []HostRunsWithItsSecrets
<1>1. IInv => HostRunsWithItsSecrets
    BY DEF IInv, Custody, Secrecy, Held, Stocked, HostRunsWithItsSecrets, HeldSteps
<1> QED BY <1>1, Invariance, PTL

(* The two moments at which the lock is unwritten, before BeginRun's and in   *)
(* Execute's rewriting of it, are the only ones at which a run on its way to  *)
(* its host, or behind it, can be taken for a leftover; a rewriting that      *)
(* fails leaves a run on its way out that can.                               *)
THEOREM LeftoverOnlyFromGapsAlways == Spec => []LeftoverOnlyFromGaps
<1>1. IInv => LeftoverOnlyFromGaps
    <2> SUFFICES ASSUME IInv, NEW r \in Run, NEW q \in Run, r \notin judged,
                        pc[r] \in {"lock"} \cup HeldSteps, Condemns(q, r),
                        pc[r] # "unwind" \/ Locked(r)
                 PROVE  FALSE
        BY DEF LeftoverOnlyFromGaps
    <2>1. pc[r] = "lock" \/ Locked(r)
        BY DEF IInv, Custody, Held
    <2>2. pc[r] \in OwnSteps
        BY DEF OwnSteps, BeginSteps
    <2> QED BY <2>1, <2>2 DEF IInv, Custody, Guarded
<1> QED BY <1>1, Invariance, PTL

(* A recovery that is past a dead run with values has left none in runs/,    *)
(* or that run was being removed when its remover stopped.                   *)
THEOREM RecoveryComplete == Spec => []RecoverySettles
<1>1. IInv => RecoverySettles
    BY DEF IInv, Settled, Unsettled, RecoverySettles, Condemns
<1> QED BY <1>1, Invariance, PTL

(* No workspace is removed by the ordinary path while it may hold a value.   *)
THEOREM ValuesNotDropped == Spec => []OwnerNeverDropsValues
<1>1. IInv => OwnerNeverDropsValues
    BY DEF IInv, Secrecy, Behind, ValueSteps, Ended, OwnerNeverDropsValues
<1> QED BY <1>1, Invariance, PTL

(* A run that reports success leaves no secret value, in runs/ or in         *)
(* quarantine/.                                                              *)
THEOREM SuccessIsClean == Spec => []SuccessLeavesNoValues
<1>1. IInv => SuccessLeavesNoValues
    BY DEF IInv, Secrecy, Behind, Isolated, SuccessLeavesNoValues
<1> QED BY <1>1, Invariance, PTL

(* No step takes anything from a running, locked directory.                  *)
LEMMA Spared ==
    ASSUME IInv, [Next]_vars, NEW r \in Run
    PROVE  ~DisturbsLive(r)
<1> SUFFICES ASSUME DisturbsLive(r) PROVE FALSE
    OBVIOUS
<1>1. TypeOK /\ Kept(r)
    BY DEF IInv, Custody, Secrecy, Kept
<1>2. pc \in [Run -> Steps] /\ Locked(r) /\ r \notin judged
    BY <1>1 DEF TypeOK, Steps, DisturbsLive
<1>3. pc[r] \in OwnSteps
    BY <1>1, <1>2
    DEF DisturbsLive, Kept, Unborn, Before, Locked, NoDir, Steps
<1>4. \A q \in Run : ~Condemns(q, r)
    BY <1>1, <1>2, <1>3 DEF Kept, Guarded
<1>5. PICK p \in Run : Step(p)
    BY DEF Next, Step, DisturbsLive, vars
<1>6. CASE p # r
    BY <1>1, <1>4, <1>5, <1>6, Reach DEF Kept, Calm, DisturbsLive
<1>7. CASE p = r
    <2>1. pc'[r] = pc[r] /\ runs' # runs
          /\ pc[r] \in OwnSteps \ {"undo", "discard", "delete"}
        BY <1>3 DEF DisturbsLive
    <2> USE DEF Goto, Disk, CommandSteps, OwnSteps, BeginSteps, HeldSteps,
                PrepareSteps, Ended
    <2>2. ~Execute(r)
        BY <1>2, <2>1
        DEF Execute, CreateRun, LockRun, UndoCreate, Materialize, PersistBaselines,
            OverlaySecrets, Relock, RewriteLock, Unwind, Abort, Discard, Isolate,
            RunHost,
            WipeSecrets, WipeFails, ClearLock, WriteRecord, DeleteWorkspace, Exit
    <2>3. ~Recovery(r) /\ ~Cleaning(r)
        BY <2>1
        DEF Recovery, StartRun, PassLive, Inspect, StatBaseline, RestoreBaseline,
            RestoreFails, MarkRecovered, DropLeftover, SetAside, EndFirstScan,
            Authorize, Cleaning, StartClean, CleanRun, EndClean, CleanOther,
            StartInvalidate, InvalidateRun, PurgeRun, EndInvalidate
    <2>4. ~Crash(r) /\ ~RecyclePid(r)
        BY <1>2, <2>1 DEF Crash, RecyclePid
    <2> QED BY <1>5, <1>7, <2>2, <2>3, <2>4 DEF Step
<1> QED BY <1>6, <1>7

(* Recovery, clean and remove leave every running run's directory alone from *)
(* its lock on, if none of them read it while the lock was unwritten.         *)
THEOREM LiveSpared == Spec => LiveRunsSpared
<1>1. IInv /\ [Next]_vars => \A r \in Run : ~DisturbsLive(r)
    BY Spared
<1> QED BY <1>1, Invariance, PTL DEF Spec, LiveRunsSpared

-----------------------------------------------------------------------------
(* The stages of the protocol and the custody of the values                 *)

StartingSteps == {"idle", "lock"} \cup CommandSteps \cup PrepareSteps
LeavingSteps  == (OwnSteps \ PrepareSteps) \ {"lock", "host"}

\* What a step may do to where the values of r are.
Same(r)   == /\ (runs'[r].body = "values") = (runs[r].body = "values")
             /\ (quar'[r] = "values") = (quar[r] = "values")
Fills(r)  == /\ runs'[r].body = "values"
             /\ (quar'[r] = "values") = (quar[r] = "values")
Clears(r) == /\ runs'[r].body # "values"
             /\ (quar'[r] = "values") = (quar[r] = "values")
Hides(r)  == /\ runs[r].body = "values" /\ runs'[r].body # "values"
             /\ quar'[r] = "values"
Drops(r)  == runs'[r].body = runs[r].body /\ quar'[r] # "values"

Loses(r) == Same(r) \/ Clears(r) \/ Hides(r) \/ Drops(r)

(* Values come to a directory by its owner's overlay; every other step       *)
(* leaves them, clears them, or takes them to quarantine.                    *)
LEMMA ValuesMove ==
    ASSUME TypeOK, NEW p \in Run, Step(p), NEW r \in Run
    PROVE  \/ Loses(r)
           \/ r = p /\ pc[p] = "overlay" /\ p \in Secretive /\ Fills(p)
<1>1. /\ runs \in [Run -> Dir]
      /\ quar \in [Run -> {"none", "clean", "values"}]
      /\ job[p].cur \in Run /\ job[p].todo \subseteq Run
    BY DEF TypeOK, Job
<1>2. UNCHANGED <<runs, quar>> => Loses(r)
    BY DEF Loses, Same
<1>3. ASSUME NEW x \in Run, NEW d,
             d.body # "values" \/ d.body = runs[x].body, Set(x, d), UNCHANGED quar
      PROVE  Loses(r)
    BY <1>1, <1>3 DEF Set, Loses, Same, Clears
<1>4. ASSUME NEW x \in Run, RemoveSome(x) \/ RemoveRest(x), UNCHANGED quar
      PROVE  Loses(r)
    <2>1. \A d \in Remains(runs[x]) : d.body # "values" \/ d.body = runs[x].body
        BY DEF Remains
    <2>2. NoDir.body # "values"
        BY DEF NoDir
    <2> QED BY <1>3, <1>4, <2>1, <2>2 DEF RemoveSome, RemoveRest
<1>5. ASSUME NEW x \in Run, Rename(x) PROVE Loses(r)
    BY <1>1, <1>5 DEF Rename, Set, NoDir, Loses, Same, Clears, Hides
<1> USE DEF Goto, Disk, History
<1>10. EmptyLock(p).body = runs[p].body
    BY <1>1 DEF EmptyLock, Dir
<1>6. CASE Recovery(p)
    <2>1. CASE RestoreBaseline(p)
        <3>1. \E d : /\ d.body # "values" \/ d.body = runs[job[p].cur].body
                     /\ Set(job[p].cur, d) /\ UNCHANGED quar
            BY <1>1, <2>1 DEF RestoreBaseline, Dir
        <3> QED BY <1>1, <1>3, <3>1
    <2>2. CASE MarkRecovered(p)
        <3>1. [runs[job[p].cur] EXCEPT !.has = @ \cup {"recovered"}].body
                = runs[job[p].cur].body
            BY <1>1 DEF Dir
        <3> QED BY <1>1, <1>2, <1>3, <2>2, <3>1 DEF MarkRecovered
    <2>3. CASE DropLeftover(p) \/ SetAside(p)
        BY <1>1, <1>2, <1>4, <1>5, <2>3 DEF DropLeftover, SetAside
    <2> QED
        BY <1>2, <1>6, <2>1, <2>2, <2>3
        DEF Recovery, StartRun, PassLive, Inspect, StatBaseline, RestoreFails,
            EndFirstScan, Authorize
<1>7. CASE Execute(p)
    <2>1. CASE CreateRun(p)
        BY <1>2, <1>3, <2>1 DEF CreateRun, NewDir
    <2>2. CASE LockRun(p) \/ Relock(p) \/ RewriteLock(p)
        <3>1. /\ TakeLock(p).body = runs[p].body
              /\ MakeRoot(p).body = runs[p].body
            BY <1>1 DEF TakeLock, MakeRoot, Dir
        <3>2. \A d \in {runs[p], MakeRoot(p), TakeLock(p), EmptyLock(p)} :
                    d.body = runs[p].body
            BY <1>10, <3>1
        <3> QED BY <1>2, <1>3, <2>2, <3>2 DEF LockRun, Relock, RewriteLock
    <2>3. CASE Materialize(p)
        <3>1. MakeRoot(p).body = runs[p].body
            BY <1>1 DEF MakeRoot, Dir
        <3> QED BY <1>2, <1>3, <2>3, <3>1 DEF Materialize
    <2>4. CASE PersistBaselines(p)
        BY <1>2, <1>3, <2>4 DEF PersistBaselines
    <2>5. CASE OverlaySecrets(p)
        <3>1. CASE UNCHANGED runs
            BY <1>2, <2>5, <3>1 DEF OverlaySecrets
        <3>2. CASE p \in Secretive /\ Set(p, Filled(p))
            <4>1. CASE runs[p].body = "none"
                BY <1>3, <2>5, <3>2, <4>1 DEF OverlaySecrets, Filled
            <4>2. CASE runs[p].body # "none"
                <5>1. Filled(p).body = "values"
                    BY <1>1, <4>2 DEF Filled, Dir
                <5>2. r = p => Fills(p)
                    BY <1>1, <2>5, <3>2, <5>1 DEF OverlaySecrets, Set, Fills
                <5>3. r # p => Loses(r)
                    BY <1>1, <2>5, <3>2 DEF OverlaySecrets, Set, Loses, Same
                <5> QED BY <2>5, <3>2, <5>2, <5>3 DEF OverlaySecrets
            <4> QED BY <4>1, <4>2
        <3> QED BY <2>5, <3>1, <3>2 DEF OverlaySecrets
    <2>6. CASE Unwind(p) \/ WipeSecrets(p)
        <3>1. Wiped(p).body # "values" \/ Wiped(p).body = runs[p].body
            BY <1>1 DEF Wiped, Dir
        <3> QED BY <1>2, <1>3, <2>6, <3>1 DEF Unwind, WipeSecrets
    <2>7. CASE ClearLock(p)
        BY <1>2, <1>3, <1>10, <2>7 DEF ClearLock
    <2>8. CASE UndoCreate(p) \/ Discard(p) \/ Isolate(p) \/ DeleteWorkspace(p)
        BY <1>2, <1>4, <1>5, <2>8 DEF UndoCreate, Discard, Isolate, DeleteWorkspace
    <2> QED
        BY <1>2, <1>7, <2>1, <2>2, <2>3, <2>4, <2>5, <2>6, <2>7, <2>8
        DEF Execute, Abort, RunHost, WipeFails, WriteRecord
<1>8. CASE Cleaning(p)
    <2>1. CASE CleanRun(p) \/ PurgeRun(p)
        BY <1>1, <1>2, <1>4, <2>1 DEF CleanRun, PurgeRun
    <2>2. CASE CleanOther(p)
        BY <1>1, <2>2 DEF CleanOther, Loses, Same, Drops
    <2> QED
        BY <1>2, <1>8, <2>1, <2>2
        DEF Cleaning, StartClean, EndClean, StartInvalidate, InvalidateRun,
            EndInvalidate
<1>9. CASE Crash(p) \/ RecyclePid(p)
    BY <1>2, <1>3, <1>9, <1>10 DEF Crash, RecyclePid
<1> QED BY <1>6, <1>7, <1>8, <1>9 DEF Step

\* How the step of a run may go on, and where its own process takes it.
OwnMove(p) ==
    \/ pc'[p] = pc[p] /\ (pc[p] \in Ended => job'[p] = job[p])
    \/ pc[p] \in StartingSteps
       /\ pc'[p] \in StartingSteps \cup LeavingSteps \cup {"dead"}
    \/ pc[p] = "rewrite" /\ pc'[p] = "host"
    \/ pc[p] = "host" /\ pc'[p] \in LeavingSteps \cup {"dead"}
    \/ pc[p] \in LeavingSteps /\ pc'[p] \in LeavingSteps \cup {"dead"}
    \/ /\ pc[p] \in LeavingSteps /\ pc'[p] = "done"
       /\ job'[p].out = "error" \/ pc[p] = "delete"

(* A run starts, serves, leaves and ends; success only by the removal of its *)
(* workspace.                                                               *)
LEMMA RunMoves ==
    ASSUME TypeOK, NEW p \in Run, Step(p)
    PROVE  OwnMove(p)
<1>1. pc \in [Run -> Steps] /\ job \in [Run -> Job] /\ job[p] \in Job
    BY DEF TypeOK, Steps
<1>2. Return(p) /\ pc[p] \in StartingSteps => OwnMove(p)
    BY <1>1 DEF Return, OwnMove, StartingSteps
<1>3. \A n : StartScan(p, n) /\ pc[p] \in StartingSteps => OwnMove(p)
    BY <1>1 DEF StartScan, OwnMove, StartingSteps, CommandSteps
<1>4. /\ Exit(p, "error") /\ pc[p] \in LeavingSteps => OwnMove(p)
      /\ Exit(p, job[p].out) /\ pc[p] = "delete" => OwnMove(p)
    BY <1>1
    DEF Exit, OwnMove, LeavingSteps, OwnSteps, BeginSteps, HeldSteps, PrepareSteps,
        Job
<1>5. UNCHANGED pc /\ pc[p] \notin Ended => OwnMove(p)
    BY DEF OwnMove
<1> USE DEF Goto, Disk, History, StartingSteps, LeavingSteps, CommandSteps,
            OwnSteps, BeginSteps, HeldSteps, PrepareSteps, Ended
<1>6. CASE Recovery(p)
    <2>1. CASE StartRun(p) \/ Authorize(p)
        BY <1>1, <1>2, <1>3, <2>1 DEF StartRun, Authorize
    <2>2. CASE SetAside(p)
        BY <1>1, <1>2, <2>2 DEF SetAside, OwnMove
    <2> QED
        BY <1>1, <1>6, <2>1, <2>2
        DEF Recovery, PassLive, Inspect, StatBaseline, RestoreBaseline, RestoreFails,
            MarkRecovered, DropLeftover, EndFirstScan, OwnMove
<1>7. CASE Execute(p)
    <2>1. CASE UndoCreate(p) \/ Discard(p) \/ Isolate(p)
        BY <1>1, <1>4, <1>5, <2>1 DEF UndoCreate, Discard, Isolate, OwnMove
    <2>2. CASE DeleteWorkspace(p)
        BY <1>1, <1>4, <1>5, <2>2 DEF DeleteWorkspace, OwnMove
    <2> QED
        BY <1>1, <1>7, <2>1, <2>2
        DEF Execute, CreateRun, LockRun, Materialize, PersistBaselines,
            OverlaySecrets, Relock, RewriteLock, Unwind, Abort, RunHost,
            WipeSecrets, WipeFails,
            ClearLock, WriteRecord, OwnMove
<1>8. CASE Cleaning(p)
    <2>1. CASE EndClean(p) \/ EndInvalidate(p)
        BY <1>2, <2>1 DEF EndClean, EndInvalidate
    <2>2. CASE PurgeRun(p)
        BY <1>1, <1>2, <2>2 DEF PurgeRun, OwnMove
    <2> QED
        BY <1>1, <1>8, <2>1, <2>2
        DEF Cleaning, StartClean, CleanRun, CleanOther, StartInvalidate,
            InvalidateRun, OwnMove
<1>9. CASE Crash(p)
    BY <1>1, <1>2, <1>9 DEF Crash, OwnMove
<1>10. CASE RecyclePid(p)
    BY <1>10 DEF RecyclePid, OwnMove
<1> QED BY <1>6, <1>7, <1>8, <1>9, <1>10 DEF Step

(* What the host reads stays where it is while it runs.                      *)
LEMMA NothingTakenFromHost ==
    ASSUME IInv, NEW p \in Run, Step(p), NEW r \in Run, pc[r] = "host",
    r \notin judged
    PROVE  Same(r) \/ Drops(r)
<1>1. TypeOK /\ Rooted(r) /\ Guarded(r) /\ Held(r)
    BY DEF IInv, Custody
<1>2. CASE p # r
    <2>1. ~Condemns(p, r)
        BY <1>1 DEF Guarded, Held, OwnSteps, HeldSteps
    <2>2. Calm(r)
        BY <1>1, <1>2, <2>1, Reach
    <2> QED BY <2>2 DEF Calm, Same, Drops
<1>3. CASE p = r
    <2>1. UNCHANGED <<runs, quar>>
        BY <1>3
        DEF Step, Recovery, StartRun, PassLive, Inspect, StatBaseline,
            RestoreBaseline, RestoreFails, MarkRecovered, DropLeftover, SetAside,
            EndFirstScan, Authorize, Execute, CreateRun, LockRun, UndoCreate,
            Materialize, PersistBaselines, OverlaySecrets, Relock, RewriteLock,
            Unwind, Abort,
            Discard, Isolate, RunHost, WipeSecrets, WipeFails, ClearLock,
            WriteRecord, DeleteWorkspace, Cleaning, StartClean, CleanRun, EndClean,
            CleanOther, StartInvalidate, InvalidateRun, PurgeRun, EndInvalidate,
            Crash, RecyclePid, Goto, Disk
    <2> QED BY <2>1 DEF Same
<1> QED BY <1>2, <1>3

(* Every move of values is one that the promise allows.                      *)
LEMMA PlacesAllowed ==
    ASSUME IInv, NEW p \in Run, Step(p), NEW r \in Run
    PROVE  \/ UNCHANGED Places(r) \/ Cust(r)!Put \/ Cust(r)!Settle
           \/ Cust(r)!SetAside \/ Cust(r)!Forget
<1>1. TypeOK
    BY DEF IInv
<1>2. CASE r = p /\ pc[p] = "overlay" /\ p \in Secretive /\ Fills(p)
    <2>1. Course(r) = "starting"
        BY <1>2 DEF Course, PrepareSteps
    <2> QED BY <1>2, <2>1 DEF Cust!Put, Places, Fills
<1>3. CASE Same(r) \/ Drops(r)
    BY <1>3 DEF Cust!Forget, Places, Same, Drops
<1>4. CASE Clears(r) \/ Hides(r)
    <2>1. Same(r) \/ Drops(r) \/ pc[r] # "host" \/ r \in judged
        BY NothingTakenFromHost
    <2>2. pc[r] # "host" => Course(r) # "serving"
        BY DEF Course
    <2>3. CASE pc[r] # "host" \/ r \in judged
        BY <1>4, <2>2, <2>3
        DEF Cust!Settle, Cust!SetAside, Cust!Free, Places, Clears, Hides
    <2> QED BY <1>3, <2>1, <2>3
<1> QED BY <1>1, <1>2, <1>3, <1>4, ValuesMove DEF Loses

(* The course of a run is read off the step its process takes.               *)
LEMMA CourseRead ==
    ASSUME NEW r
    PROVE  /\ pc[r] \in StartingSteps => Course(r) = "starting"
           /\ pc[r] = "host" => Course(r) = "serving"
           /\ pc[r] \in LeavingSteps => Course(r) = "leaving"
           /\ pc[r] = "dead" => Course(r) = "failed"
           /\ pc[r] = "done" =>
                Course(r) = IF job[r].out = "ok" THEN "ok" ELSE "failed"
<1> USE DEF StartingSteps, LeavingSteps, CommandSteps, OwnSteps, BeginSteps,
            HeldSteps, PrepareSteps, Course
<1>1. pc[r] \in StartingSteps => Course(r) = "starting"
    OBVIOUS
<1>2. pc[r] \in LeavingSteps => Course(r) = "leaving"
    OBVIOUS
<1> QED BY <1>1, <1>2

LEMMA CourseReadNext ==
    ASSUME NEW r
    PROVE  /\ pc'[r] \in StartingSteps => Course(r)' = "starting"
           /\ pc'[r] = "host" => Course(r)' = "serving"
           /\ pc'[r] \in LeavingSteps => Course(r)' = "leaving"
           /\ pc'[r] = "dead" => Course(r)' = "failed"
           /\ pc'[r] = "done" =>
                Course(r)' = IF job'[r].out = "ok" THEN "ok" ELSE "failed"
<1> USE DEF StartingSteps, LeavingSteps, CommandSteps, OwnSteps, BeginSteps,
            HeldSteps, PrepareSteps, Course
<1>1. pc'[r] \in StartingSteps => Course(r)' = "starting"
    OBVIOUS
<1>2. pc'[r] \in LeavingSteps => Course(r)' = "leaving"
    OBVIOUS
<1> QED BY <1>1, <1>2

(* And so is every turn in the course of the run.                            *)
LEMMA CourseAllowed ==
    ASSUME IInv, IInv', NEW p \in Run, Step(p), NEW r \in Run
    PROVE  \/ UNCHANGED Course(r) \/ Cust(r)!Serve \/ Cust(r)!Leave
           \/ Cust(r)!Fail \/ Cust(r)!Succeed
<1>1. TypeOK /\ TypeOK'
    BY DEF IInv
<1>2. CASE r # p
    BY <1>1, <1>2, Locality DEF Course
<1>3. CASE r = p
    <2>1. OwnMove(r)
        BY <1>1, <1>3, RunMoves
    <2>2. CASE pc'[r] = pc[r] /\ (pc[r] \in Ended => job'[r] = job[r])
        BY <2>2 DEF Course, Ended
    <2>3. CASE /\ pc[r] \in StartingSteps
               /\ pc'[r] \in StartingSteps \cup LeavingSteps \cup {"dead"}
        BY <2>3, CourseRead, CourseReadNext DEF Cust!Leave, Cust!Fail
    <2>4. CASE pc[r] = "rewrite" /\ pc'[r] = "host"
        <3>1. Course(r) = "starting" /\ Course(r)' = "serving"
            BY <2>4 DEF Course, PrepareSteps
        <3>2. r \in judged' => r \in judged
            BY <1>1, <1>3, <2>4, Marks DEF CommandSteps
        <3>3. r \notin judged =>
                Places(r)' = IF r \in Secretive THEN {"run"} ELSE {}
            <4>1. Stocked(r)' /\ Behind(r)' /\ Isolated(r)'
                BY DEF IInv, Secrecy
            <4>2. r \notin judged => quar'[r] # "values"
                BY <2>4, <3>2, <4>1 DEF Isolated
            <4>3. r \notin judged =>
                    (runs'[r].body = "values") = (r \in Secretive)
                BY <2>4, <3>2, <4>1 DEF Stocked, Behind
            <4> QED BY <4>2, <4>3 DEF Places
        <3> QED BY <3>1, <3>3 DEF Cust!Serve
    <2>5. CASE pc[r] = "host" /\ pc'[r] \in LeavingSteps \cup {"dead"}
        BY <2>5, CourseRead, CourseReadNext DEF Cust!Leave, Cust!Fail
    <2>6. CASE pc[r] \in LeavingSteps /\ pc'[r] \in LeavingSteps \cup {"dead"}
        BY <2>6, CourseRead, CourseReadNext DEF Cust!Fail
    <2>7. CASE /\ pc[r] \in LeavingSteps /\ pc'[r] = "done"
               /\ job'[r].out = "error" \/ pc[r] = "delete"
        <3>1. CASE job'[r].out # "ok"
            BY <2>7, <3>1, CourseRead, CourseReadNext DEF Cust!Fail
        <3>2. CASE job'[r].out = "ok"
            <4>1. Course(r) = "leaving" /\ Course(r)' = "ok"
                BY <2>7, <3>2, CourseRead, CourseReadNext
            <4>2. r \in judged' => r \in judged
                BY <1>1, <2>7, Marks
                DEF LeavingSteps, OwnSteps, PrepareSteps, Unwritten
            <4>3. Behind(r)' /\ Isolated(r)'
                BY DEF IInv, Secrecy
            <4>4. runs'[r].body # "values"
                  /\ (r \notin judged => quar'[r] # "values")
                BY <2>7, <3>2, <4>2, <4>3 DEF Behind, Isolated
            <4> QED BY <4>1, <4>4 DEF Cust!Succeed, Places
        <3> QED BY <3>1, <3>2
    <2> QED BY <2>1, <2>2, <2>3, <2>4, <2>5, <2>6, <2>7 DEF OwnMove
<1> QED BY <1>2, <1>3

(* Only a run whose lock is unwritten comes to be disturbed.                  *)
LEMMA DisturbanceAllowed ==
    ASSUME IInv, NEW p \in Run, Step(p), NEW r \in Run
    PROVE  UNCHANGED (r \in judged) \/ Cust(r)!Disturb
<1>1. r \in judged => r \in judged'
    BY Marks DEF IInv
<1>2. CASE r \in judged' /\ r \notin judged
    <2>1. pc[r] \in {"lock", "rewrite"}
        BY <1>2, Marks DEF IInv, Unwritten
    <2>2. Course(r) = "starting"
        BY <2>1, CourseRead DEF StartingSteps, PrepareSteps
    <2> QED BY <1>2, <2>2 DEF Cust!Disturb
<1> QED BY <1>1, <1>2

(* Every run, with every other process recovering, cleaning and dying around *)
(* it, keeps the promise about its secret values.                            *)
THEOREM ImplementsCustody == Spec => CustodySpec
<1>1. Init => \A r \in Run : Cust(r)!Init
    <2>1. ASSUME Init, NEW r \in Run
          PROVE  Places(r) = {} /\ Course(r) = "starting" /\ r \notin judged
        <3>1. runs[r] = NoDir /\ quar[r] = "none" /\ pc[r] = "idle" /\ judged = {}
            BY <2>1 DEF Init
        <3>2. Course(r) = "starting"
            BY <3>1, CourseRead DEF StartingSteps
        <3> QED BY <3>1, <3>2 DEF Places, NoDir
    <2> QED BY <2>1 DEF Cust!Init
<1>2. ASSUME IInv, IInv', [Next]_vars
      PROVE  [CustodyStep]_vars
    <2>1. ASSUME NEW p \in Run, Step(p), NEW r \in Run PROVE Cust(r)!Next
        BY <1>2, <2>1, PlacesAllowed, CourseAllowed, DisturbanceAllowed
        DEF Cust!Next
    <2> QED BY <1>2, <2>1 DEF Next, Step, CustodyStep
<1> QED BY <1>1, <1>2, Invariance, PTL DEF Spec, CustodySpec

(* What Custody promises, read off the specification of the promise alone:   *)
(* a run without secrets has no values anywhere, a host that is on has them   *)
(* in its directory, and a run that succeeded has left none.                  *)
Promised ==
    \A r \in Run :
        /\ r \notin Secretive => Places(r) = {}
        /\ Course(r) = "serving" /\ r \notin judged =>
               Places(r) = IF r \in Secretive THEN {"run"} ELSE {}
        /\ Course(r) = "ok" /\ r \notin judged => Places(r) = {}

\* Values that are gone stay gone, once the host was started or the run failed.
ValuesStayGone ==
    \A r \in Run : Course(r) # "starting" /\ Places(r) = {} => Places(r)' = {}

LEMMA CustodyMoves ==
    ASSUME NEW r \in Run, Cust(r)!Next \/ UNCHANGED Cust(r)!vars
    PROVE  /\ \/ UNCHANGED Places(r)
              \/ /\ Course(r) = "starting" /\ r \in Secretive
                 /\ Places(r)' = Places(r) \cup {"run"}
              \/ /\ Course(r) # "serving" \/ r \in judged
                 /\ \/ Places(r)' = Places(r) \ {"run"}
                    \/ "run" \in Places(r) /\ Places(r)' = {"quarantine"}
              \/ Places(r)' = Places(r) \ {"quarantine"}
           /\ \/ UNCHANGED Course(r)
              \/ /\ Course(r)' = "serving"
                 /\ r \in judged \/ Places(r)' = IF r \in Secretive THEN {"run"} ELSE {}
              \/ Course(r)' = "leaving" \/ Course(r)' = "failed"
              \/ Course(r)' = "ok" /\ (r \in judged \/ Places(r)' = {})
           /\ r \in judged => r \in judged'
    BY DEF Cust!Next, Cust!vars, Cust!Put, Cust!Settle, Cust!SetAside, Cust!Forget,
           Cust!Free, Cust!Serve, Cust!Leave, Cust!Fail, Cust!Succeed, Cust!Disturb

(* So the promise means what it is meant to; with ImplementsCustody the code  *)
(* of BeginRun, Execute, recovery and clean keeps it.                         *)
THEOREM CustodyMeans == CustodySpec => []Promised /\ [][ValuesStayGone]_vars
<1>1. (\A r \in Run : Cust(r)!Init) => Promised
    BY DEF Cust!Init, Promised
<1>2. Promised /\ [CustodyStep]_vars => Promised'
    <2>1. ASSUME Promised, UNCHANGED vars PROVE Promised'
        BY <2>1 DEF Promised, Places, Course, vars
    <2>2. ASSUME Promised, CustodyStep PROVE Promised'
        <3> SUFFICES ASSUME NEW r \in Run
                     PROVE  /\ r \notin Secretive => Places(r)' = {}
                            /\ Course(r)' = "serving" /\ r \notin judged' =>
                                 Places(r)' = IF r \in Secretive THEN {"run"} ELSE {}
                            /\ Course(r)' = "ok" /\ r \notin judged' => Places(r)' = {}
            BY DEF Promised
        <3>1. Cust(r)!Next \/ UNCHANGED Cust(r)!vars
            BY <2>2 DEF CustodyStep
        <3> QED BY <2>2, <3>1, CustodyMoves DEF Promised
    <2> QED BY <2>1, <2>2
<1>3. [CustodyStep]_vars => [ValuesStayGone]_vars
    <2> SUFFICES ASSUME CustodyStep, NEW r \in Run, Course(r) # "starting", Places(r) = {}
                 PROVE  Places(r)' = {}
        BY DEF ValuesStayGone
    <2>1. Cust(r)!Next \/ UNCHANGED Cust(r)!vars
        BY DEF CustodyStep
    <2> QED BY <2>1, CustodyMoves
<1> QED BY <1>1, <1>2, <1>3, PTL DEF CustodySpec

OutSteps == {"idle", "clean", "invalidate", "purge"} \cup LeavingSteps \cup Ended

VisitSteps == {"scan", "stat", "restore", "mark", "drop", "set_aside"}

(* The stage of a process is read off its step and its scan.                 *)
LEMMA StageRead ==
    ASSUME NEW p
    PROVE  /\ pc[p] \in OutSteps => Stage(p) = "out"
           /\ pc[p] \in VisitSteps /\ job[p].scan = 1 => Stage(p) = "recovering"
           /\ pc[p] = "authorize" => Stage(p) = "deciding"
           /\ pc[p] \in VisitSteps /\ job[p].scan = 2 => Stage(p) = "reserving"
           /\ pc[p] = "lock" => Stage(p) = "reserving"
           /\ pc[p] \in PrepareSteps => Stage(p) = "holding"
           /\ pc[p] = "host" => Stage(p) = "hosting"
<1> USE DEF Stage, OutSteps, VisitSteps, LeavingSteps, OwnSteps, BeginSteps,
            HeldSteps, PrepareSteps, Ended
<1>1. pc[p] \in OutSteps => Stage(p) = "out"
    OBVIOUS
<1>2. pc[p] \in VisitSteps /\ job[p].scan = 1 => Stage(p) = "recovering"
    OBVIOUS
<1>3. pc[p] \in VisitSteps /\ job[p].scan = 2 => Stage(p) = "reserving"
    OBVIOUS
<1>4. pc[p] \in PrepareSteps => Stage(p) = "holding"
    OBVIOUS
<1> QED BY <1>1, <1>2, <1>3, <1>4

LEMMA StageReadNext ==
    ASSUME NEW p
    PROVE  /\ pc'[p] \in OutSteps => Stage(p)' = "out"
           /\ pc'[p] \in VisitSteps /\ job'[p].scan = 1 => Stage(p)' = "recovering"
           /\ pc'[p] = "authorize" => Stage(p)' = "deciding"
           /\ pc'[p] \in VisitSteps /\ job'[p].scan = 2 => Stage(p)' = "reserving"
           /\ pc'[p] = "lock" => Stage(p)' = "reserving"
           /\ pc'[p] \in PrepareSteps => Stage(p)' = "holding"
           /\ pc'[p] = "host" => Stage(p)' = "hosting"
<1> USE DEF Stage, OutSteps, VisitSteps, LeavingSteps, OwnSteps, BeginSteps,
            HeldSteps, PrepareSteps, Ended
<1>1. pc'[p] \in OutSteps => Stage(p)' = "out"
    OBVIOUS
<1>2. pc'[p] \in VisitSteps /\ job'[p].scan = 1 => Stage(p)' = "recovering"
    OBVIOUS
<1>3. pc'[p] \in VisitSteps /\ job'[p].scan = 2 => Stage(p)' = "reserving"
    OBVIOUS
<1>4. pc'[p] \in PrepareSteps => Stage(p)' = "holding"
    OBVIOUS
<1> QED BY <1>1, <1>2, <1>3, <1>4

\* What a step of p does, as far as its stage goes.
ProtocolMove(p) ==
    \/ pc'[p] \in OutSteps
    \/ pc[p] \in VisitSteps /\ pc'[p] \in VisitSteps /\ job'[p].scan = job[p].scan
    \/ pc[p] = "idle" /\ pc'[p] = "scan" /\ job'[p].scan = 1
    \/ pc[p] = "scan" /\ job[p].scan = 1 /\ pc'[p] = "authorize"
    \/ pc[p] = "authorize" /\ pc'[p] = "scan" /\ job'[p].scan = 2
    \/ pc[p] = "scan" /\ job[p].scan = 2 /\ pc'[p] = "lock"
    \/ pc[p] = "lock" /\ pc'[p] = "materialize"
    \/ pc[p] \in PrepareSteps /\ pc'[p] \in PrepareSteps
    \/ pc[p] = "rewrite" /\ pc'[p] = "host"

(* The steps of every process are in the order of the protocol.              *)
LEMMA ProtocolMoves ==
    ASSUME TypeOK, NEW p \in Run, Step(p)
    PROVE  ProtocolMove(p)
<1>1. pc \in [Run -> Steps] /\ job \in [Run -> Job] /\ job[p] \in Job
    BY DEF TypeOK, Steps
<1>2. Return(p) => ProtocolMove(p)
    BY <1>1 DEF Return, ProtocolMove, OutSteps
<1>3. \A o : Exit(p, o) => ProtocolMove(p)
    BY <1>1 DEF Exit, ProtocolMove, OutSteps, Ended
<1>4. \A n : StartScan(p, n) => pc'[p] = "scan" /\ job'[p].scan = n
    BY <1>1 DEF StartScan, Task
<1>5. ASSUME NEW r, Take(p, r) \/ Pass(p, r)
      PROVE  job'[p].scan = job[p].scan
    <2>1. DOMAIN job = Run /\ "scan" \in DOMAIN job[p]
        BY <1>1 DEF Job
    <2>2. CASE Take(p, r)
        BY <2>1, <2>2, <1>1 DEF Take, Job
    <2>3. CASE Pass(p, r)
        BY <2>1, <2>3, <1>1 DEF Pass, Job
    <2> QED BY <1>5, <2>2, <2>3
<1>6. job[p].todo \subseteq Run
    BY <1>1 DEF Job
<1> USE DEF Goto, Disk, History, OutSteps, VisitSteps, LeavingSteps,
            CommandSteps, OwnSteps, BeginSteps, HeldSteps, PrepareSteps, Ended
<1>7. CASE Recovery(p)
    <2>1. CASE StartRun(p) \/ Authorize(p)
        BY <1>1, <1>2, <1>4, <2>1 DEF StartRun, Authorize, ProtocolMove
    <2>2. CASE PassLive(p) \/ Inspect(p)
        BY <1>1, <1>5, <1>6, <2>2 DEF PassLive, Inspect, ProtocolMove
    <2>3. CASE SetAside(p)
        BY <1>1, <1>2, <2>3 DEF SetAside, ProtocolMove
    <2> QED
        BY <1>1, <1>7, <2>1, <2>2, <2>3
        DEF Recovery, StatBaseline, RestoreBaseline, RestoreFails, MarkRecovered,
            DropLeftover, EndFirstScan, ProtocolMove
<1>8. CASE Execute(p)
    <2>1. CASE UndoCreate(p) \/ Discard(p) \/ Isolate(p) \/ DeleteWorkspace(p)
        BY <1>1, <1>3, <2>1
        DEF UndoCreate, Discard, Isolate, DeleteWorkspace, ProtocolMove
    <2> QED
        BY <1>1, <1>8, <2>1
        DEF Execute, CreateRun, LockRun, Materialize, PersistBaselines,
            OverlaySecrets, Relock, RewriteLock, Unwind, Abort, RunHost,
            WipeSecrets, WipeFails,
            ClearLock, WriteRecord, ProtocolMove
<1>9. CASE Cleaning(p)
    <2>1. CASE EndClean(p) \/ EndInvalidate(p)
        BY <1>2, <2>1 DEF EndClean, EndInvalidate
    <2>2. CASE PurgeRun(p)
        BY <1>1, <1>2, <2>2 DEF PurgeRun, ProtocolMove
    <2> QED
        BY <1>1, <1>9, <2>1, <2>2
        DEF Cleaning, StartClean, CleanRun, CleanOther, StartInvalidate,
            InvalidateRun, ProtocolMove
<1>10. CASE Crash(p)
    BY <1>1, <1>2, <1>10 DEF Crash, ProtocolMove
<1>11. CASE RecyclePid(p)
    BY <1>11 DEF RecyclePid, ProtocolMove
<1> QED BY <1>7, <1>8, <1>9, <1>10, <1>11 DEF Step

(* Every process recovers before it decides, reserves only what it was       *)
(* authorised for, and starts its host only in a directory it holds.         *)
THEOREM ImplementsRunProtocol == Spec => ProtocolSpec
<1>1. Init => \A p \in Run : Protocol(p)!Init
    <2>1. ASSUME Init, NEW p \in Run PROVE Stage(p) = "out"
        BY <2>1, StageRead DEF Init, OutSteps
    <2> QED BY <2>1 DEF Protocol!Init
<1>2. ASSUME TypeOK, [Next]_vars PROVE [ProtocolStep]_vars
    <2>1. ASSUME NEW p \in Run, Step(p), NEW q \in Run
          PROVE  [Protocol(q)!Next]_(Stage(q))
        <3>1. CASE q # p
            BY <1>2, <2>1, <3>1, Locality DEF Stage
        <3>2. CASE q = p
            <4>1. ProtocolMove(q) /\ job[q] \in Job
                BY <1>2, <2>1, <3>2, ProtocolMoves DEF TypeOK
            <4>2. job[q].scan \in {1, 2}
                BY <4>1 DEF Job
            <4> USE DEF Protocol!Next, Protocol!Recover, Protocol!Decide,
                        Protocol!Authorise, Protocol!Reserve, Protocol!Host,
                        Protocol!Leave, Protocol!Go
            <4>3. CASE pc'[q] \in OutSteps
                BY <4>3, StageReadNext
            <4>4. CASE pc[q] \in VisitSteps /\ pc'[q] \in VisitSteps
                       /\ job'[q].scan = job[q].scan
                BY <4>2, <4>4, StageRead, StageReadNext
            <4>5. CASE pc[q] \in PrepareSteps /\ pc'[q] \in PrepareSteps
                BY <4>5, StageRead, StageReadNext
            <4> QED
                BY <4>1, <4>3, <4>4, <4>5, StageRead, StageReadNext
                DEF ProtocolMove, OutSteps, VisitSteps, PrepareSteps
        <3> QED BY <3>1, <3>2
    <2> QED BY <1>2, <2>1 DEF Next, Step, ProtocolStep
<1> QED BY <1>1, <1>2, TypeCorrect, PTL DEF Spec, ProtocolSpec

=============================================================================
