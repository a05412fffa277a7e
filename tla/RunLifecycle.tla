---------------------------- MODULE RunLifecycle ----------------------------
(***************************************************************************)
(* Run directories, from BeginRun to their removal, recovery, quarantine or *)
(* cleaning.  Every process of Run is an a2h process: it issues `clean`,     *)
(* `remove` and refused `run` commands any number of times, and at most one  *)
(* `run` that gets as far as BeginRun, for the directory runs/<its own id>.  *)
(* A process scans the leftovers of the others twice before that point.      *)
(*                                                                         *)
(* A directory is what the recovery rules read of it: does it exist, does    *)
(* live.lock, does secret-baseline/, is it marked recovered, and what do the *)
(* secret-bearing files hold: nothing, the Plan's placeholders, or values.   *)
(* Each file-system operation another process can observe is a step, and may *)
(* fail; os.RemoveAll removes entry by entry.  A process may die at any step. *)
(***************************************************************************)
CONSTANTS
    Run,        \* a2h processes; each names the run directory it reserves
    System,     \* registered systems
    SystemOf,   \* the system each run is of
    Secretive   \* the runs whose projection holds secret placeholders

ASSUME RunAssumption ==
    /\ SystemOf \in [Run -> System]
    /\ Secretive \subseteq Run

VARIABLES
    pc,         \* the step each process takes next
    job,        \* the locals of the command it runs
    runs,       \* home/runs/<id>
    quar,       \* home/quarantine/<id>: absent, or the secret state it kept
    recorded,   \* home/records/<id>.json exists
    reused,     \* the pid in runs/<id>/live.lock names an unrelated process
    judged,     \* history: found not live before its live.lock, or while that
                \* was rewritten
    cut         \* history: a removal of runs/<id> has begun

vars == <<pc, job, runs, quar, recorded, reused, judged, cut>>

Dir == [has : SUBSET {"root", "live.lock", "recovered"},
        base : {"none", "part", "whole"}, body : {"none", "plan", "values"}]

NoDir == [has |-> {}, base |-> "none", body |-> "none"]
NewDir == [has |-> {"root"}, base |-> "none", body |-> "none"]

There(r)  == "root" \in runs[r].has
Locked(r) == "live.lock" \in runs[r].has
Marked(r) == "recovered" \in runs[r].has

\* todo: names still to visit; cur: the one being visited; owed: the entries
\* the command must have dealt with when it succeeds; out: how the run ended.
Job == [scan : {1, 2}, todo : SUBSET Run, cur : Run, owed : SUBSET Run,
        out : {"ok", "error"}]

Task(p, n, names, dues) ==
    [scan |-> n, todo |-> names, cur |-> p, owed |-> dues, out |-> "ok"]

NoJob(p) == Task(p, 1, {}, {})

\* The next entry is worked on, or passed over with nothing owed for it.
Take(p, r) == job' = [job EXCEPT ![p] =
                        [job[p] EXCEPT !.todo = @ \ {r}, !.cur = r]]
Pass(p, r) == job' = [job EXCEPT ![p] =
                        [job[p] EXCEPT !.todo = @ \ {r}, !.owed = @ \ {r}]]

\* Steps before the process has a directory of its own, and with one.
CommandSteps == {"scan", "stat", "restore", "mark", "drop", "set_aside",
                 "authorize", "clean", "invalidate", "purge"}
BeginSteps   == {"lock", "undo"}
PrepareSteps == {"materialize", "persist", "overlay", "relock", "rewrite"}
HeldSteps    == PrepareSteps \cup {"unwind", "host", "wipe", "clear", "release"}
OwnSteps     == BeginSteps \cup HeldSteps
                    \cup {"abort", "discard", "record", "delete", "isolate"}
Ended        == {"done", "dead"}

TypeOK ==
    /\ pc \in [Run -> {"idle"} \cup CommandSteps \cup OwnSteps \cup Ended]
    /\ job \in [Run -> Job]
    /\ runs \in [Run -> Dir]
    /\ quar \in [Run -> {"none", "clean", "values"}]
    /\ recorded \in SUBSET Run
    /\ reused \in SUBSET Run
    /\ judged \in SUBSET Run
    /\ cut \in SUBSET Run

Init ==
    /\ pc = [p \in Run |-> "idle"]
    /\ job = [p \in Run |-> NoJob(p)]
    /\ runs = [r \in Run |-> NoDir]
    /\ quar = [r \in Run |-> "none"]
    /\ recorded = {}
    /\ reused = {}
    /\ judged = {}
    /\ cut = {}

-----------------------------------------------------------------------------
(* Helpers                                                                 *)

\* While os.WriteFile has live.lock open: before its first write, and again
\* when Execute truncates it to write it anew.
Unwritten(r) == pc[r] \in {"lock", "rewrite"}

\* runIsLive: the lock holds a pid and kill(pid, 0) finds a process, the one
\* that wrote it or another that was given its pid.
RunIsLive(r) ==
    Locked(r) /\ ~Unwritten(r) /\ (pc[r] \notin Ended \/ r \in reused)

Goto(p, from, to) ==
    /\ pc[p] = from
    /\ pc' = [pc EXCEPT ![p] = to]

\* The command of p is over and leaves p without a directory.
Return(p) ==
    /\ pc' = [pc EXCEPT ![p] = "idle"]
    /\ job' = [job EXCEPT ![p] = NoJob(p)]

\* Execute or BeginRun returns: the process of this run exits.
Exit(p, out) ==
    /\ pc' = [pc EXCEPT ![p] = "done"]
    /\ job' = [job EXCEPT ![p].out = out]

\* A process other than its owner finds r's directory not live.
Judge(r) == judged' = IF Unwritten(r) THEN judged \cup {r} ELSE judged

Set(r, d) == runs' = [runs EXCEPT ![r] = d]

\* What entry-by-entry removal can leave of a directory.
Remains(d) ==
    {e \in Dir : /\ "root" \in e.has /\ e.has \subseteq d.has
                 /\ e.base \in {"none", d.base} \cup
                        IF d.base = "whole" THEN {"part"} ELSE {}
                 /\ e.body \in {"none", d.body}} \ {d}

RemoveSome(r) ==
    /\ There(r)
    /\ \E d \in Remains(runs[r]) : Set(r, d)
    /\ cut' = cut \cup {r}

RemoveRest(r) ==
    /\ Set(r, NoDir)
    /\ cut' = cut \cup {r}

\* quarantineRun's rename; a second directory of one id gets a dated name.
Rename(r) ==
    /\ There(r)
    /\ quar' = [quar EXCEPT ![r] =
                  IF "values" \in {@, runs[r].body} THEN "values" ELSE "clean"]
    /\ Set(r, NoDir)

Disk == <<runs, quar, recorded>>
History == <<judged, cut>>

-----------------------------------------------------------------------------
(* RecoverLeftovers, run twice by every `a2h run`                          *)

\* ReadDir(runs): the names now in it.  What recovery owes is the dead runs
\* whose files hold values.
StartScan(p, n) ==
    /\ pc' = [pc EXCEPT ![p] = "scan"]
    /\ job' = [job EXCEPT ![p] =
                 Task(p, n, {r \in Run : There(r)},
                      {r \in Run : pc[r] \in Ended /\ runs[r].body = "values"})]

StartRun(p) ==
    /\ pc[p] = "idle"
    /\ StartScan(p, 1)
    /\ UNCHANGED <<Disk, reused, History>>

\* runIsLive: a live directory is passed over.
PassLive(p) ==
    /\ pc[p] = "scan"
    /\ \E r \in job[p].todo :
         /\ RunIsLive(r)
         /\ Pass(p, r)
    /\ UNCHANGED <<pc, Disk, reused, History>>

\* Mutant: recovery forgets to look at live.lock.
InspectAnyway(p) ==
    /\ Goto(p, "scan", "stat")
    /\ \E r \in job[p].todo :
         /\ Take(p, r)
         /\ Judge(r)
    /\ UNCHANGED <<Disk, reused, cut>>

Inspect(p) ==
    /\ Goto(p, "scan", "stat")
    /\ \E r \in job[p].todo :
         /\ ~RunIsLive(r)
         /\ Take(p, r)
         /\ Judge(r)
    /\ UNCHANGED <<Disk, reused, cut>>

\* os.Stat(secret-baseline): there, not there, or an error that isolates.
StatBaseline(p) ==
    /\ \/ Goto(p, "stat", "restore") /\ runs[job[p].cur].base # "none"
       \/ Goto(p, "stat", "drop") /\ runs[job[p].cur].base = "none"
       \/ Goto(p, "stat", "set_aside")
    /\ UNCHANGED <<job, Disk, reused, History>>

\* restoreRunBaselines writes back every file the baseline still has.  Of a
\* partial one it succeeds all the same, and leaves the other files alone.
RestoreBaseline(p) ==
    LET r == job[p].cur
        d == runs[r]
    IN /\ Goto(p, "restore", "mark")
       /\ d.base # "none"
       /\ \/ Set(r, [d EXCEPT !.body = "plan"])
          \/ d.base = "part" /\ Set(r, d)
       /\ UNCHANGED <<job, quar, recorded, reused, History>>

\* Mutant: a directory that cannot be restored is skipped.
RestoreSkips(p) ==
    /\ Goto(p, "restore", "scan")
    /\ UNCHANGED <<job, Disk, reused, History>>

RestoreFails(p) ==
    /\ Goto(p, "restore", "set_aside")
    /\ UNCHANGED <<job, Disk, reused, History>>

MarkRecovered(p) ==
    LET r == job[p].cur IN
    /\ \/ /\ Goto(p, "mark", "scan")
          /\ There(r)
          /\ Set(r, [runs[r] EXCEPT !.has = @ \cup {"recovered"}])
       \/ Goto(p, "mark", "set_aside") /\ runs' = runs
    /\ UNCHANGED <<job, quar, recorded, reused, History>>

DropLeftover(p) ==
    /\ \/ Goto(p, "drop", "drop") /\ RemoveSome(job[p].cur)
       \/ Goto(p, "drop", "scan") /\ RemoveRest(job[p].cur)
       \/ Goto(p, "drop", "set_aside") /\ UNCHANGED <<runs, cut>>
    /\ UNCHANGED <<job, quar, recorded, reused, judged>>

\* A leftover is set aside, or ErrQuarantine ends the whole command.
SetAside(p) ==
    /\ \/ Goto(p, "set_aside", "scan") /\ Rename(job[p].cur) /\ UNCHANGED job
       \/ pc[p] = "set_aside" /\ Return(p) /\ UNCHANGED <<runs, quar>>
    /\ UNCHANGED <<recorded, reused, History>>

\* The first scan is followed by resolution and authorization, the second by
\* the creation of the run's own directory.
EndFirstScan(p) ==
    /\ Goto(p, "scan", "authorize")
    /\ job[p].scan = 1 /\ job[p].todo = {}
    /\ UNCHANGED <<job, Disk, reused, History>>

Authorize(p) ==
    /\ pc[p] = "authorize"
    /\ Return(p) \/ StartScan(p, 2)
    /\ UNCHANGED <<Disk, reused, History>>

-----------------------------------------------------------------------------
(* BeginRun                                                                *)

CreateRun(p) ==
    /\ job[p].scan = 2 /\ job[p].todo = {}
    /\ \/ Goto(p, "scan", "lock") /\ Set(p, NewDir)
       \/ Goto(p, "scan", "undo") /\ Set(p, NewDir)
       \/ Goto(p, "scan", "undo") /\ runs' = runs
    /\ UNCHANGED <<job, quar, recorded, reused, History>>

\* Mutant: the lock is named after the process.
LockByPid(p) == [runs[p] EXCEPT !.has = @ \cup {"root", p}]

\* writeLiveLock makes the directory again if it is gone, then opens the lock,
\* created or truncated, then writes the pid.  A lock that is left empty is
\* treated as one that is not there.
MakeRoot(p) == [runs[p] EXCEPT !.has = @ \cup {"root"}]
TakeLock(p) == [runs[p] EXCEPT !.has = @ \cup {"root", "live.lock"}]
EmptyLock(p) == [runs[p] EXCEPT !.has = @ \ {"live.lock"}]

\* Mutant: BeginRun leaves the lock to Execute.
LockLater(p) ==
    /\ Goto(p, "lock", "materialize")
    /\ UNCHANGED <<job, Disk, reused, History>>

\* The first writeLiveLock.  Until it returns, runIsLive finds nothing to read.
LockRun(p) ==
    /\ \/ Goto(p, "lock", "materialize") /\ Set(p, TakeLock(p))
       \/ /\ Goto(p, "lock", "undo")
          /\ \E d \in {runs[p], MakeRoot(p), TakeLock(p)} : Set(p, d)
    /\ UNCHANGED <<job, quar, recorded, reused, History>>

\* The deferred RemoveAll of a BeginRun that failed; its error is ignored.
UndoCreate(p) ==
    /\ pc[p] = "undo"
    /\ \/ RemoveSome(p) /\ UNCHANGED <<pc, job>>
       \/ RemoveRest(p) /\ Exit(p, "error")
       \/ UNCHANGED <<runs, cut>> /\ Exit(p, "error")
    /\ UNCHANGED <<quar, recorded, reused, judged>>

-----------------------------------------------------------------------------
(* Execute: before the host                                                *)

\* The authorization is validated, the auth profile attached, the projection
\* written, ${workspace} expanded and the secret values resolved.
Materialize(p) ==
    LET written == IF p \in Secretive
                   THEN [has |-> runs[p].has \cup {"root"},
                         base |-> runs[p].base, body |-> "plan"]
                   ELSE MakeRoot(p)
    IN /\ \/ Goto(p, "materialize", "persist") /\ Set(p, written)
          \/ Goto(p, "materialize", "abort") /\ Set(p, written)
          \/ Goto(p, "materialize", "abort") /\ runs' = runs
       /\ UNCHANGED <<job, quar, recorded, reused, History>>

\* persistSecretBaselines, file by file; a run without placeholders has none.
PersistBaselines(p) ==
    LET with(b) == IF p \in Secretive
                   THEN [has |-> runs[p].has \cup {"root"},
                         base |-> b, body |-> runs[p].body]
                   ELSE runs[p]
    IN /\ \/ Goto(p, "persist", "overlay") /\ Set(p, with("whole"))
          \/ Goto(p, "persist", "abort") /\ Set(p, with("part"))
          \/ Goto(p, "persist", "abort") /\ runs' = runs
       /\ UNCHANGED <<job, quar, recorded, reused, History>>

\* overlaySecrets reads each file back and fails when it is gone; it may have
\* written some values before it fails.
Filled(p) == IF runs[p].body = "none" THEN runs[p]
             ELSE [runs[p] EXCEPT !.body = "values"]

OverlaySecrets(p) ==
    /\ \/ Goto(p, "overlay", "relock") /\ p \notin Secretive /\ runs' = runs
       \/ /\ Goto(p, "overlay", "relock")
          /\ p \in Secretive /\ runs[p].body # "none"
          /\ Set(p, Filled(p))
       \/ /\ Goto(p, "overlay", "unwind")
          /\ p \in Secretive
          /\ runs' = runs \/ Set(p, Filled(p))
    /\ UNCHANGED <<job, quar, recorded, reused, History>>

\* The second writeLiveLock truncates the lock the run already has, with its
\* secret values on disk.
Relock(p) ==
    /\ \/ Goto(p, "relock", "rewrite") /\ Set(p, TakeLock(p))
       \/ /\ Goto(p, "relock", "unwind")
          /\ \E d \in {runs[p], MakeRoot(p)} : Set(p, d)
    /\ UNCHANGED <<job, quar, recorded, reused, History>>

\* It writes the open file, whatever became of its name meanwhile.  A write
\* that fails leaves the lock empty, a close that fails leaves it written.
RewriteLock(p) ==
    /\ \/ Goto(p, "rewrite", "host") /\ runs' = runs
       \/ /\ Goto(p, "rewrite", "unwind")
          /\ \E d \in {runs[p], EmptyLock(p)} : Set(p, d)
    /\ UNCHANGED <<job, quar, recorded, reused, History>>

\* wipeSecrets writes the Plan's bytes over every secret-bearing file; it
\* needs the directory, and may stop half way with values still in a file.
Wiped(p) == IF p \in Secretive THEN [runs[p] EXCEPT !.body = "plan"] ELSE runs[p]
CanWipe(p) == p \in Secretive => There(p)

\* abortAfterSecretWrite: a wipe that fails is recorded and isolates, without
\* clearing the lock; otherwise failExecute drops the workspace.
Unwind(p) ==
    /\ \/ /\ Goto(p, "unwind", "abort")
          /\ CanWipe(p) /\ Set(p, Wiped(p))
          /\ UNCHANGED recorded
       \/ /\ Goto(p, "unwind", "isolate")
          /\ recorded' \in {recorded, recorded \cup {p}}
          /\ runs' = runs
    /\ UNCHANGED <<job, quar, reused, History>>

\* failExecute: the record is attempted, its error ignored.
Abort(p) ==
    /\ Goto(p, "abort", "discard")
    /\ recorded' \in {recorded, recorded \cup {p}}
    /\ UNCHANGED <<job, runs, quar, reused, History>>

Discard(p) ==
    /\ pc[p] = "discard"
    /\ \/ RemoveSome(p) /\ UNCHANGED <<pc, job>>
       \/ RemoveRest(p) /\ Exit(p, "error")
       \/ UNCHANGED <<runs, job, cut>> /\ Goto(p, "discard", "isolate")
    /\ UNCHANGED <<quar, recorded, reused, judged>>

\* Mutant: a run that was isolated reports the host's result.
IsolateQuietly(p) ==
    /\ pc[p] = "isolate"
    /\ Rename(p) \/ UNCHANGED <<runs, quar>>
    /\ Exit(p, job[p].out)
    /\ UNCHANGED <<recorded, reused, History>>

\* quarantineAfterRun by the run itself, always on the way to an error.
Isolate(p) ==
    /\ pc[p] = "isolate"
    /\ Rename(p) \/ UNCHANGED <<runs, quar>>
    /\ Exit(p, "error")
    /\ UNCHANGED <<recorded, reused, History>>

-----------------------------------------------------------------------------
(* Execute: the host process and the deferred finalizer                     *)

\* The launch plan is verified and the host runs to its end.  A plan that no
\* longer reconciles, or a host that cannot be started, is recorded at once.
RunHost(p) ==
    /\ Goto(p, "host", "wipe")
    /\ \/ UNCHANGED <<job, recorded>>
       \/ /\ job' = [job EXCEPT ![p].out = "error"]
          /\ recorded' \in {recorded, recorded \cup {p}}
    /\ UNCHANGED <<runs, quar, reused, History>>

WipeSecrets(p) ==
    /\ Goto(p, "wipe", "clear")
    /\ CanWipe(p)
    /\ Set(p, Wiped(p))
    /\ UNCHANGED <<job, quar, recorded, reused, History>>

\* Mutant: a failed wipe falls through to the removal.
WipeFallsThrough(p) ==
    /\ Goto(p, "wipe", "clear")
    /\ job' = [job EXCEPT ![p].out = "error"]
    /\ UNCHANGED <<Disk, reused, History>>

WipeFails(p) ==
    /\ Goto(p, "wipe", "release")
    /\ recorded' \in {recorded, recorded \cup {p}}
    /\ UNCHANGED <<job, runs, quar, reused, History>>

\* clearLiveLock ignores its error, a lock it cannot remove stays.
ClearLock(p) ==
    /\ \/ Goto(p, "clear", "record")
       \/ Goto(p, "release", "isolate")
    /\ Set(p, EmptyLock(p)) \/ runs' = runs
    /\ UNCHANGED <<job, quar, recorded, reused, History>>

WriteRecord(p) ==
    /\ Goto(p, "record", "delete")
    /\ \/ recorded' = recorded \cup {p} /\ UNCHANGED job
       \/ job' = [job EXCEPT ![p].out = "error"] /\ UNCHANGED recorded
    /\ UNCHANGED <<runs, quar, reused, History>>

DeleteWorkspace(p) ==
    /\ pc[p] = "delete"
    /\ \/ RemoveSome(p) /\ UNCHANGED <<pc, job, recorded>>
       \/ RemoveRest(p) /\ Exit(p, job[p].out) /\ UNCHANGED recorded
       \/ /\ Goto(p, "delete", "isolate")
          /\ recorded' \in {recorded, recorded \cup {p}}
          /\ UNCHANGED <<runs, job, cut>>
    /\ UNCHANGED <<quar, reused, judged>>

-----------------------------------------------------------------------------
(* Clean and InvalidateSystem                                              *)

\* leftoverRunPaths: every path is chosen before the first is removed.
StartClean(p) ==
    /\ Goto(p, "idle", "clean")
    /\ job' = [job EXCEPT ![p] =
                 Task(p, 1, {r \in Run : There(r) /\ ~RunIsLive(r) /\ Marked(r)},
                      {})]
    /\ UNCHANGED <<Disk, reused, History>>

CleanRun(p) ==
    /\ pc[p] = "clean"
    /\ \E r \in job[p].todo :
         \/ RemoveSome(r) /\ UNCHANGED <<pc, job>>
         \/ RemoveRest(r) /\ Pass(p, r) /\ UNCHANGED pc
    /\ UNCHANGED <<quar, recorded, reused, judged>>

\* Every path removed, or the first error.
EndClean(p) ==
    /\ pc[p] = "clean"
    /\ Return(p)
    /\ UNCHANGED <<Disk, reused, History>>

\* The other paths clean lists: quarantined directories and expired records.
CleanOther(p) ==
    /\ pc[p] = "idle"
    /\ \E r \in Run :
         \/ /\ quar[r] # "none"
            /\ quar' = [quar EXCEPT ![r] = "none"] /\ UNCHANGED recorded
         \/ /\ r \in recorded
            /\ recorded' = recorded \ {r} /\ UNCHANGED quar
    /\ UNCHANGED <<pc, job, runs, reused, History>>

\* InvalidateSystem goes by the records in home/records.  Its second loop reads
\* runs/<id>/record.json, a file nothing writes, and never finds a directory.
\* What it owes is the leftovers of the system.
StartInvalidate(p, s) ==
    /\ Goto(p, "idle", "invalidate")
    /\ job' = [job EXCEPT ![p] =
                 Task(p, 1, {r \in recorded : SystemOf[r] = s},
                      {r \in Run : /\ There(r) /\ SystemOf[r] = s
                                   /\ pc[r] \in Ended /\ ~RunIsLive(r)})]
    /\ UNCHANGED <<Disk, reused, History>>

InvalidateRun(p) ==
    /\ pc[p] = "invalidate"
    /\ \E r \in job[p].todo :
         \/ /\ RunIsLive(r)
            /\ Pass(p, r)
            /\ UNCHANGED <<pc, judged>>
         \/ /\ ~RunIsLive(r) /\ Judge(r)
            /\ Goto(p, "invalidate", "purge")
            /\ Take(p, r)
    /\ UNCHANGED <<Disk, reused, cut>>

\* RemoveAll, its error ignored, then the record, whose error is not.
PurgeRun(p) ==
    LET r == job[p].cur IN
    /\ pc[p] = "purge"
    /\ \/ RemoveSome(r) /\ UNCHANGED <<pc, job, recorded>>
       \/ /\ RemoveRest(r) \/ UNCHANGED <<runs, cut>>
          /\ \/ /\ recorded' = recorded \ {r}
                /\ Goto(p, "purge", "invalidate") /\ UNCHANGED job
             \/ Return(p) /\ UNCHANGED recorded
    /\ UNCHANGED <<quar, reused, judged>>

EndInvalidate(p) ==
    /\ pc[p] = "invalidate"
    /\ job[p].todo = {}
    /\ Return(p)
    /\ UNCHANGED <<Disk, reused, History>>

-----------------------------------------------------------------------------
(* The environment                                                         *)

\* kill -9, or a signal while no host is running.  A process that has no
\* directory yet is simply replaced by another; one that dies as it rewrites
\* its lock leaves it empty.
Crash(p) ==
    /\ \/ /\ pc[p] \in CommandSteps
          /\ Return(p) /\ runs' = runs
       \/ /\ pc[p] \in OwnSteps
          /\ pc' = [pc EXCEPT ![p] = "dead"]
          /\ IF pc[p] = "rewrite" THEN Set(p, EmptyLock(p)) ELSE runs' = runs
          /\ UNCHANGED job
    /\ UNCHANGED <<quar, recorded, reused, History>>

\* The kernel gives the pid of an ended process away, or takes it back.
RecyclePid(r) ==
    /\ pc[r] \in Ended
    /\ reused' = IF r \in reused THEN reused \ {r} ELSE reused \cup {r}
    /\ UNCHANGED <<pc, job, Disk, History>>

Recovery(p) ==
    \/ StartRun(p) \/ PassLive(p) \/ Inspect(p) \/ StatBaseline(p)
    \/ RestoreBaseline(p) \/ RestoreFails(p) \/ MarkRecovered(p)
    \/ DropLeftover(p) \/ SetAside(p) \/ EndFirstScan(p) \/ Authorize(p)

Execute(p) ==
    \/ CreateRun(p) \/ LockRun(p) \/ UndoCreate(p) \/ Materialize(p)
    \/ PersistBaselines(p) \/ OverlaySecrets(p) \/ Relock(p) \/ RewriteLock(p)
    \/ Unwind(p) \/ Abort(p) \/ Discard(p) \/ Isolate(p) \/ RunHost(p) \/ WipeSecrets(p)
    \/ WipeFails(p) \/ ClearLock(p) \/ WriteRecord(p) \/ DeleteWorkspace(p)

Cleaning(p) ==
    \/ StartClean(p) \/ CleanRun(p) \/ EndClean(p) \/ CleanOther(p)
    \/ (\E s \in System : StartInvalidate(p, s))
    \/ InvalidateRun(p) \/ PurgeRun(p) \/ EndInvalidate(p)

Next == \E p \in Run :
    Recovery(p) \/ Execute(p) \/ Cleaning(p) \/ Crash(p) \/ RecyclePid(p)

Spec == Init /\ [][Next]_vars

-----------------------------------------------------------------------------
(* Properties                                                              *)

\* q has found r not live and goes on to restore, remove or set it aside.
Condemns(q, r) ==
    \/ /\ pc[q] \in {"stat", "restore", "mark", "drop", "set_aside", "purge"}
       /\ job[q].cur = r
    \/ pc[q] = "clean" /\ r \in job[q].todo

\* While the host runs, its files hold the secret values, a baseline to restore
\* them from is complete, and the directory is locked and not up for cleaning,
\* whatever other commands do; the exceptions are a directory judged between
\* BeginRun's mkdir and its live lock, and one judged while Execute rewrote it.
HostRunsWithItsSecrets ==
    \A p \in Run : pc[p] = "host" /\ p \notin judged =>
        /\ There(p) /\ Locked(p) /\ ~Marked(p)
        /\ p \in Secretive => runs[p].body = "values" /\ runs[p].base = "whole"

\* RecoverLeftovers, when it is past a dead run whose files held values, has
\* left no value of it in runs/: restored, removed or set aside.  A run whose
\* removal was begun and interrupted may keep some, its baseline being partial.
RecoverySettles ==
    \A p \in Run : pc[p] \in (CommandSteps \cup OwnSteps) \ {"invalidate", "purge"} =>
        \A r \in job[p].owed \ job[p].todo :
            Condemns(p, r) \/ r \in cut \/ runs[r].body # "values"

\* Execute never removes its workspace by the ordinary path while a file may
\* hold a secret value: a failed wipe isolates or keeps the debris.
OwnerNeverDropsValues ==
    \A p \in Run :
        pc[p] \in {"undo", "abort", "discard", "clear", "record", "delete"} =>
            runs[p].body # "values"

\* A run that reports no error has left no secret value behind, neither in its
\* directory nor in quarantine.
SuccessLeavesNoValues ==
    \A p \in Run : pc[p] = "done" /\ job[p].out = "ok" /\ p \notin judged =>
        runs[p].body # "values" /\ quar[p] # "values"

\* A step of another process that touches a live run's directory.
DisturbsLive(r) ==
    /\ Locked(r) /\ pc[r] \notin Ended /\ r \notin judged
    /\ pc[r] \notin {"undo", "discard", "delete"}
    /\ pc'[r] = pc[r]
    /\ runs'[r] # runs[r]

\* Recovery, clean and remove leave the directory of a running Execute alone
\* as long as its live.lock is there, unless one of them read it before the pid
\* was in it.
LiveRunsSpared == [][\A r \in Run : ~DisturbsLive(r)]_vars

\* BeginRun "takes the live lock immediately so a concurrent RecoverLeftovers
\* will not treat this run as leftover", and "Restore skips runs that still hold
\* a live.lock": once BeginRun has returned and until the host has, no process
\* is about to restore, remove or set aside its directory.
NotTreatedAsLeftover ==
    \A r, q \in Run : pc[r] \in PrepareSteps \cup {"host"} => ~Condemns(q, r)

\* What does hold: a directory that is locked, or about to be, is treated as a
\* leftover only if it was read before its lock was there or while that was
\* rewritten; or if the rewriting failed and the run is on its way out without.
LeftoverOnlyFromGaps ==
    \A r, q \in Run :
        /\ pc[r] \in {"lock"} \cup HeldSteps
        /\ Condemns(q, r)
        => r \in judged \/ (pc[r] = "unwind" /\ ~Locked(r))

\* EndInvalidate leaves no leftover of its system it found at the start.
InvalidateMissesNone ==
    \A p \in Run : EndInvalidate(p) =>
        \A r \in job[p].owed : RunIsLive(r) \/ ~There(r)

\* "InvalidateSystem deletes Runtime leftovers for one system."
InvalidateClearsLeftovers == [][InvalidateMissesNone]_vars

\* The places where values of r are.
Places(r) == (IF runs[r].body = "values" THEN {"run"} ELSE {})
                 \cup (IF quar[r] = "values" THEN {"quarantine"} ELSE {})

Course(r) ==
    CASE pc[r] \in {"idle", "lock"} \cup CommandSteps \cup PrepareSteps -> "starting"
      [] pc[r] = "host" -> "serving"
      [] pc[r] = "done" /\ job[r].out = "ok" -> "ok"
      [] pc[r] = "dead" \/ (pc[r] = "done" /\ job[r].out # "ok") -> "failed"
      [] OTHER -> "leaving"

\* Every run keeps the secret values it was given as Custody promises, with
\* every other process recovering, cleaning and dying around it.
Cust(r) == INSTANCE Custody WITH
    HasSecrets <- r \in Secretive, places <- Places(r), course <- Course(r),
    disturbed <- r \in judged
CustodyStep == \A r \in Run : [Cust(r)!Next]_(Cust(r)!vars)
CustodySpec == (\A r \in Run : Cust(r)!Init) /\ [][CustodyStep]_vars

\* The stage a process is at; what follows an error or the host is its way out.
Stage(p) ==
    LET visiting == {"scan", "stat", "restore", "mark", "drop", "set_aside"} IN
    CASE pc[p] \in visiting /\ job[p].scan = 1 -> "recovering"
      [] pc[p] = "authorize" -> "deciding"
      [] pc[p] = "lock" \/ (pc[p] \in visiting /\ job[p].scan = 2) -> "reserving"
      [] pc[p] \in PrepareSteps -> "holding"
      [] pc[p] = "host" -> "hosting"
      [] OTHER -> "out"

\* Every process takes the stages of a run in their order.
Protocol(p) == INSTANCE RunProtocol WITH stage <- Stage(p)
ProtocolStep == \A p \in Run : [Protocol(p)!Next]_(Stage(p))
ProtocolSpec == (\A p \in Run : Protocol(p)!Init) /\ [][ProtocolStep]_vars
=============================================================================
