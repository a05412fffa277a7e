------------------------------ MODULE HostState ------------------------------
(***************************************************************************)
(* internal/runtime/hoststate.go: how a host's sign-in outlives the run     *)
(* directory.  A run copies the declared file (Codex's auth.json) from the  *)
(* profile under auth-profiles/ into its private directory, copies it back  *)
(* at every tick while the host runs and once more after it, and drops the  *)
(* directory.  `a2h clean --host-state` deletes the profile.                *)
(*                                                                         *)
(* A copy takes the flock of <store>.lock, reads its source, writes a       *)
(* temporary file and renames it.  Contents are versions: each sign-in or   *)
(* refresh by a host makes the next one, 0 is no file.  A lock file is      *)
(* known by its inode, a flock belongs to the inode and not to the name.    *)
(***************************************************************************)
EXTENDS Naturals, FiniteSets

CONSTANTS
    Runs,       \* the runs of the host, each of which is started once
    MaxAlive,   \* how many of them run at a time (a bound of the model)
    MaxLogins,  \* how often hosts write the file (a bound of the model)
    MaxCleans   \* how often the profile is cleaned (a bound of the model)

ASSUME BoundAssumption ==
    MaxAlive \in Nat /\ MaxLogins \in Nat /\ MaxCleans \in Nat

\* The entries of the profile; a temporary file goes by its run.
StoreFile == "store"
LockFile  == "lock"

ASSUME NameAssumption == StoreFile \notin Runs /\ LockFile \notin Runs

VARIABLES
    store,     \* the version in the profile
    lockfile,  \* the inode of the lock file, 0 when there is none
    inodes,    \* how many lock files have been made
    temps,     \* the runs whose temporary file is in the profile
    cleaning,  \* what `clean` has listed and not yet removed
    latest,    \* the newest version
    cleans,    \* how many cleans there have been
    pc,        \* run -> where Execute is
    step,      \* run -> where its current copy is
    fd,        \* run -> the inode it has opened
    buf,       \* run -> what its temporary file holds
    private,   \* run -> the version in its private directory
    failed,    \* run -> the last copy back failed, and the user was told
    moved,     \* history: run -> others changed the store since it started
    killed     \* history: the runs killed before a rename

profile == <<store, lockfile, inodes, temps>>
copying == <<step, fd, buf>>
history == <<moved, killed>>
clean   == <<cleaning, cleans>>
vars == <<profile, copying, clean, history, latest, pc, private, failed>>

Steps == {"none", "open", "lock", "read", "rename"}

\* bind: execute, from the profile to the bind.  host: the host runs, and every
\* copy is the watcher's.  stop: waiting for the watcher.  save: the copy back.
Places == {"off", "bind", "host", "stop", "save", "ended", "dead"}

Init ==
    /\ store = 0 /\ lockfile = 0 /\ inodes = 0 /\ temps = {}
    /\ cleaning = {} /\ cleans = 0
    /\ latest = 0
    /\ pc = [r \in Runs |-> "off"]
    /\ step = [r \in Runs |-> "none"]
    /\ fd = [r \in Runs |-> 0]
    /\ buf = [r \in Runs |-> 0]
    /\ private = [r \in Runs |-> 0]
    /\ failed = [r \in Runs |-> FALSE]
    /\ moved = [r \in Runs |-> FALSE]
    /\ killed = {}

Alive(r) == pc[r] \notin {"off", "ended", "dead"}
Goto(r, place) == pc' = [pc EXCEPT ![r] = place]
At(r, s) == step[r] = s

-----------------------------------------------------------------------------
(* One run *)

CanStart(r) ==
    /\ pc[r] = "off"
    /\ Cardinality({o \in Runs : Alive(o)}) < MaxAlive

\* Mutant: a run finds the private directory that another one left.
StartInOldDirectory(r) ==
    /\ CanStart(r)
    /\ Goto(r, "bind")
    /\ step' = [step EXCEPT ![r] = "open"]
    /\ \E o \in Runs : ~Alive(o) /\ private' = [private EXCEPT ![r] = private[o]]
    /\ UNCHANGED <<profile, clean, history, latest, fd, buf, failed>>

\* attachAuthProfile, and the bind that follows it: the private directory is
\* new with the run.
Start(r) ==
    /\ CanStart(r)
    /\ Goto(r, "bind")
    /\ step' = [step EXCEPT ![r] = "open"]
    /\ UNCHANGED <<profile, clean, history, latest, fd, buf, private, failed>>

\* Execute starts the host once the bind is done, and though it failed.
HostStarts(r) ==
    /\ pc[r] = "bind" /\ At(r, "none")
    /\ Goto(r, "host")
    /\ UNCHANGED <<profile, copying, clean, history, latest, private, failed>>

\* The host signs in or refreshes: it writes its file.
HostLogin(r) ==
    /\ pc[r] = "host" /\ latest < MaxLogins
    /\ latest' = latest + 1
    /\ private' = [private EXCEPT ![r] = latest']
    /\ UNCHANGED <<profile, copying, clean, history, pc, failed>>

HostExits(r) ==
    /\ pc[r] = "host"
    /\ Goto(r, "stop")
    /\ UNCHANGED <<profile, copying, clean, history, latest, private, failed>>

\* Mutant: the watcher saves a first sign-in only.
TickWhileNoneIsSaved(r) ==
    /\ pc[r] = "host" /\ At(r, "none") /\ store = 0
    /\ step' = [step EXCEPT ![r] = "open"]
    /\ UNCHANGED <<profile, clean, history, latest, fd, buf, pc, private, failed>>

\* watchHostAuth: a tick begins a copy, whatever became of the last one.
Tick(r) ==
    /\ pc[r] = "host" /\ At(r, "none")
    /\ step' = [step EXCEPT ![r] = "open"]
    /\ UNCHANGED <<profile, clean, history, latest, fd, buf, pc, private, failed>>

\* Mutant: the copy back is not made when the watcher has stopped.
StopWithoutSave(r) ==
    /\ pc[r] = "stop" /\ At(r, "none")
    /\ Goto(r, "save")
    /\ UNCHANGED <<profile, copying, clean, history, latest, private, failed>>

\* stopPersist returns when the watcher has; then finalizeHostAuth begins.
StopWatch(r) ==
    /\ pc[r] = "stop" /\ At(r, "none")
    /\ Goto(r, "save")
    /\ step' = [step EXCEPT ![r] = "open"]
    /\ UNCHANGED <<profile, clean, history, latest, fd, buf, private, failed>>

\* The copy back is made or has failed.
Saved(r) == pc[r] = "save" /\ At(r, "none")

\* The run directory is deleted with the private directory in it.
Drop(r) ==
    /\ Saved(r)
    /\ Goto(r, "ended")
    /\ private' = [private EXCEPT ![r] = 0]
    /\ moved' = [moved EXCEPT ![r] = FALSE]
    /\ failed' = [failed EXCEPT ![r] = FALSE]
    /\ UNCHANGED <<profile, copying, clean, killed, latest>>

-----------------------------------------------------------------------------
(* One copy: the bind copies out of the profile, every other one into it.   *)
(* Nobody but the run sees its private directory during the bind, so there  *)
(* the temporary file is left out.                                          *)

Binding(r) == pc[r] = "bind"
Saving(r)  == pc[r] = "save"

\* Mutant: every run makes a lock file of its own.
OpenLockOfItsOwn(r) ==
    /\ At(r, "open")
    /\ lockfile' = inodes + 1 /\ inodes' = inodes + 1
    /\ fd' = [fd EXCEPT ![r] = lockfile']
    /\ step' = [step EXCEPT ![r] = "lock"]
    /\ UNCHANGED <<store, temps, clean, history, latest, buf, pc, private, failed>>

\* The lock file is made when it is not there.
OpenLock(r) ==
    /\ At(r, "open")
    /\ IF lockfile = 0 THEN lockfile' = inodes + 1 /\ inodes' = inodes + 1
                       ELSE UNCHANGED <<lockfile, inodes>>
    /\ fd' = [fd EXCEPT ![r] = lockfile']
    /\ step' = [step EXCEPT ![r] = "lock"]
    /\ UNCHANGED <<store, temps, clean, history, latest, buf, pc, private, failed>>

HoldsLock(r) == step[r] \in {"read", "rename"}

\* Mutant: the flock is asked for and not waited for.
LockWithoutWait(r) ==
    /\ At(r, "lock")
    /\ step' = [step EXCEPT ![r] = "read"]
    /\ UNCHANGED <<profile, clean, history, latest, fd, buf, pc, private, failed>>

Lock(r) ==
    /\ At(r, "lock")
    /\ \A other \in Runs \ {r} : HoldsLock(other) => fd[other] # fd[r]
    /\ step' = [step EXCEPT ![r] = "read"]
    /\ UNCHANGED <<profile, clean, history, latest, fd, buf, pc, private, failed>>

\* The file is closed, which gives the flock up.
Close(r) ==
    /\ step' = [step EXCEPT ![r] = "none"]
    /\ fd' = [fd EXCEPT ![r] = 0]
    /\ buf' = [buf EXCEPT ![r] = 0]

CopyOut(r) ==
    /\ Binding(r) /\ At(r, "read")
    /\ private' = [private EXCEPT ![r] = IF store = 0 THEN private[r] ELSE store]
    /\ Close(r)
    /\ UNCHANGED <<profile, clean, history, latest, pc, failed>>

\* A source that is not there ends the copy, and is no error.
ReadSource(r) ==
    /\ ~Binding(r) /\ At(r, "read")
    /\ IF private[r] = 0
       THEN Close(r) /\ UNCHANGED temps
       ELSE /\ temps' = temps \union {r}
            /\ buf' = [buf EXCEPT ![r] = private[r]]
            /\ step' = [step EXCEPT ![r] = "rename"]
            /\ UNCHANGED fd
    /\ UNCHANGED <<store, lockfile, inodes, clean, history, latest, pc, private, failed>>

OthersMoved(r) == moved' = [o \in Runs |-> moved[o] \/ (o # r /\ Alive(o))]

Rename(r) ==
    /\ At(r, "rename") /\ r \in temps
    /\ store' = buf[r]
    /\ temps' = temps \ {r}
    /\ OthersMoved(r)
    /\ Close(r)
    /\ UNCHANGED <<lockfile, inodes, clean, killed, latest, pc, private, failed>>

\* A copy ends with an error: the temporary file is removed and the lock
\* released.  The watcher says nothing, the last copy tells the user.
Abandon(r) ==
    /\ temps' = temps \ {r}
    /\ failed' = [failed EXCEPT ![r] = Saving(r)]
    /\ Close(r)
    /\ UNCHANGED <<store, lockfile, inodes, clean, history, latest, pc, private>>

\* The temporary file has been cleaned away.
RenameFails(r) == At(r, "rename") /\ r \notin temps /\ Abandon(r)

\* Mutant: the temporary file is left where the copy failed.
FailLeavingTemp(r) ==
    /\ step[r] \notin {"none", "lock"}
    /\ failed' = [failed EXCEPT ![r] = Saving(r)]
    /\ Close(r)
    /\ UNCHANGED <<profile, clean, history, latest, pc, private>>

\* Any step of a copy may fail, and Execute goes on.  An error of flock is taken
\* for one of the open before it.
Fail(r) == step[r] \notin {"none", "lock"} /\ Abandon(r)

\* The process is killed: its flock goes with it, its files stay.
Kill(r) ==
    /\ Alive(r)
    /\ Goto(r, "dead")
    /\ Close(r)
    /\ killed' = IF At(r, "rename") THEN killed \union {r} ELSE killed
    /\ moved' = [moved EXCEPT ![r] = FALSE]
    /\ failed' = [failed EXCEPT ![r] = FALSE]
    /\ UNCHANGED <<profile, clean, latest, private>>

-----------------------------------------------------------------------------
(* clean --host-state *)

Listed ==
    temps \union (IF store # 0 THEN {StoreFile} ELSE {})
          \union (IF lockfile # 0 THEN {LockFile} ELSE {})

CleanStart ==
    /\ cleaning = {} /\ cleans < MaxCleans
    /\ Listed # {}
    /\ cleaning' = Listed
    /\ cleans' = cleans + 1
    /\ UNCHANGED <<profile, copying, history, latest, pc, private, failed>>

\* RemoveAll takes the entries of the directory one by one.
CleanOne ==
    \E e \in cleaning :
        /\ cleaning' = cleaning \ {e}
        /\ store' = IF e = StoreFile THEN 0 ELSE store
        /\ lockfile' = IF e = LockFile THEN 0 ELSE lockfile
        /\ temps' = temps \ {e}
        /\ moved' = [r \in Runs |-> moved[r] \/ (e = StoreFile /\ Alive(r))]
        /\ UNCHANGED <<inodes, copying, cleans, killed, latest, pc, private, failed>>

-----------------------------------------------------------------------------
Copy(r) ==
    OpenLock(r) \/ Lock(r) \/ CopyOut(r) \/ ReadSource(r) \/ Rename(r) \/ RenameFails(r)

Next ==
    \/ \E r \in Runs :
          \/ Start(r) \/ HostStarts(r) \/ HostLogin(r) \/ HostExits(r)
          \/ Tick(r) \/ StopWatch(r) \/ Drop(r)
          \/ Copy(r) \/ Fail(r) \/ Kill(r)
    \/ CleanStart \/ CleanOne

Spec == Init /\ [][Next]_vars

\* The watcher and a copy are scheduled; no step of a copy fails for ever.
Fairness ==
    \A r \in Runs :
        /\ WF_vars(Tick(r))
        /\ SF_vars(OpenLock(r))
        /\ SF_vars(Lock(r))
        /\ SF_vars(CopyOut(r) \/ ReadSource(r))
        /\ SF_vars(Rename(r) \/ RenameFails(r))

FairSpec == Spec /\ Fairness

-----------------------------------------------------------------------------
(* Properties *)

\* Every variable is of its type, and only a clean makes way for another lock
\* file.
TypeOK ==
    /\ store \in 0 .. latest /\ latest \in 0 .. MaxLogins
    /\ lockfile \in 0 .. inodes /\ inodes \in 0 .. cleans + 1
    /\ temps \subseteq Runs /\ killed \subseteq Runs
    /\ cleaning \subseteq Runs \union {StoreFile, LockFile}
    /\ cleans \in 0 .. MaxCleans
    /\ pc \in [Runs -> Places] /\ step \in [Runs -> Steps]
    /\ fd \in [Runs -> 0 .. inodes]
    /\ buf \in [Runs -> 0 .. latest] /\ private \in [Runs -> 0 .. latest]
    /\ failed \in [Runs -> BOOLEAN] /\ moved \in [Runs -> BOOLEAN]

\* The sign-in of a host that has exited is in the profile when its run ends,
\* unless the user was told that it could not be saved, or another run or a
\* clean has changed the profile meanwhile.
LoginKept ==
    \A r \in Runs :
        Saved(r) /\ private[r] # 0 /\ ~failed[r] /\ ~moved[r] => store = private[r]

\* Two runs read or write the profile at once only if a clean has taken the
\* lock file from under one of them.
CopiesExclude ==
    \A r, other \in Runs :
        r # other /\ HoldsLock(r) /\ HoldsLock(other) => cleans > 0

\* A temporary copy of the sign-in stays in the profile only when a run was
\* killed while it was there: an error leaves none.
StrayOnlyIfKilled == \A r \in temps : At(r, "rename") \/ r \in killed

\* An older sign-in replaces a newer one only when the run that saves it began
\* before somebody else changed the profile: one run after another never goes
\* back.
GoesBackOnlyIfOverlapping ==
    store' # 0 /\ store' < store =>
        \E r \in Runs : At(r, "rename") /\ ~At(r, "rename")' /\ moved[r]
NeverGoesBackP == [][GoesBackOnlyIfOverlapping]_vars

\* A sign-in reaches the profile while the host still runs, so that killing
\* Agent2Host later does not lose it.
LoginReachesStore ==
    \A r \in Runs : \A v \in 1 .. MaxLogins :
        (pc[r] = "host" /\ private[r] = v) ~>
            (store = v \/ pc[r] # "host" \/ private[r] # v)

-----------------------------------------------------------------------------
(* Why they hold: the invariant the proofs strengthen them to *)

\* A run that is over copies nothing, and one not started has nothing.
Quiet ==
    \A r \in Runs :
        /\ ~Alive(r) => step[r] = "none"
        /\ pc[r] = "off" => private[r] = 0

\* While nobody else changes the profile, a run holds what is there or newer;
\* what it is about to save is what its host last left.
Newest ==
    \A r \in Runs :
        /\ At(r, "rename") => buf[r] \in 1 .. private[r]
        /\ At(r, "rename") /\ Saving(r) => buf[r] = private[r]
        /\ Alive(r) /\ ~moved[r] =>
              /\ private[r] = 0 \/ store <= private[r]
              /\ At(r, "rename") => store <= buf[r]

\* No two runs hold the flock of one inode, and until a clean there is one.
Locking ==
    /\ \A r \in Runs :
          At(r, "lock") \/ HoldsLock(r) =>
              fd[r] # 0 /\ (cleans = 0 => fd[r] = lockfile)
    /\ \A r, other \in Runs :
          r # other /\ HoldsLock(r) /\ HoldsLock(other) => fd[r] # fd[other]
    /\ cleans = 0 => cleaning = {}
    /\ LockFile \in cleaning => lockfile # 0
    /\ LockFile \in cleaning \/ lockfile = 0 => inodes <= cleans

HostInv == TypeOK /\ Quiet /\ Newest /\ Locking /\ StrayOnlyIfKilled /\ LoginKept
=============================================================================
