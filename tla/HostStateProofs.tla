--------------------------- MODULE HostStateProofs ---------------------------
(***************************************************************************)
(* What the runs of host_state show on small instances, for every number of *)
(* runs, sign-ins and cleans.                                               *)
(***************************************************************************)
EXTENDS HostState, FiniteSetTheorems, TLAPS

Step(r) ==
    \/ Start(r) \/ HostStarts(r) \/ HostLogin(r) \/ HostExits(r)
    \/ Tick(r) \/ StopWatch(r) \/ Drop(r)
    \/ Copy(r) \/ Fail(r) \/ Kill(r)

-----------------------------------------------------------------------------
(* Types, with the count of lock files that Locking bounds                  *)

LEMMA InitHostInv == Init => HostInv
<1> SUFFICES ASSUME Init PROVE HostInv
  OBVIOUS
<1>1. TypeOK
  BY BoundAssumption DEF Init, TypeOK, Places, Steps
<1>2. Quiet /\ StrayOnlyIfKilled /\ LoginKept
  BY DEF Init, Quiet, Alive, StrayOnlyIfKilled, LoginKept, Saved
<1>3. Newest
  BY DEF Init, Newest, Alive, At
<1>4. Locking
  BY DEF Init, Locking, At, HoldsLock
<1> QED BY <1>1, <1>2, <1>3, <1>4 DEF HostInv

LEMMA NextTypeOK == TypeOK /\ Locking /\ [Next]_vars => TypeOK'
<1> SUFFICES ASSUME TypeOK, Locking, [Next]_vars PROVE TypeOK'
  OBVIOUS
<1> USE BoundAssumption
<1> USE DEF TypeOK, profile, copying, clean, history, Goto, At
<1>1. ASSUME NEW r \in Runs, Start(r) PROVE TypeOK'
  BY <1>1 DEF Start, CanStart, Places, Steps
<1>2. ASSUME NEW r \in Runs, HostStarts(r) PROVE TypeOK'
  BY <1>2 DEF HostStarts, Places
<1>3. ASSUME NEW r \in Runs, HostLogin(r) PROVE TypeOK'
  BY <1>3 DEF HostLogin
<1>4. ASSUME NEW r \in Runs, HostExits(r) PROVE TypeOK'
  BY <1>4 DEF HostExits, Places
<1>5. ASSUME NEW r \in Runs, Tick(r) PROVE TypeOK'
  BY <1>5 DEF Tick, Steps
<1>6. ASSUME NEW r \in Runs, StopWatch(r) PROVE TypeOK'
  BY <1>6 DEF StopWatch, Places, Steps
<1>7. ASSUME NEW r \in Runs, Drop(r) PROVE TypeOK'
  BY <1>7 DEF Drop, Places
<1>8. ASSUME NEW r \in Runs, OpenLock(r) PROVE TypeOK'
  <2>1. CASE lockfile = 0
    BY <1>8, <2>1 DEF OpenLock, Steps, Locking
  <2>2. CASE lockfile # 0
    BY <1>8, <2>2 DEF OpenLock, Steps
  <2> QED BY <2>1, <2>2
<1>9. ASSUME NEW r \in Runs, Lock(r) PROVE TypeOK'
  BY <1>9 DEF Lock, Steps
<1>10. ASSUME NEW r \in Runs, CopyOut(r) PROVE TypeOK'
  BY <1>10 DEF CopyOut, Close, Steps
<1>11. ASSUME NEW r \in Runs, ReadSource(r) PROVE TypeOK'
  BY <1>11 DEF ReadSource, Close, Steps
<1>12. ASSUME NEW r \in Runs, Rename(r) PROVE TypeOK'
  <2>1. moved' \in [Runs -> BOOLEAN]
    BY <1>12 DEF Rename, OthersMoved
  <2>2. store' \in 0 .. latest /\ temps' \subseteq Runs
    BY <1>12 DEF Rename
  <2>3. /\ step' \in [Runs -> Steps] /\ fd' \in [Runs -> 0 .. inodes]
        /\ buf' \in [Runs -> 0 .. latest]
    BY <1>12 DEF Rename, Close, Steps
  <2>4. UNCHANGED <<lockfile, inodes, cleaning, cleans, killed, latest, pc, private, failed>>
    BY <1>12 DEF Rename
  <2> QED BY <2>1, <2>2, <2>3, <2>4
<1>13. ASSUME NEW r \in Runs, Abandon(r) PROVE TypeOK'
  <2>1. failed' \in [Runs -> BOOLEAN]
    BY <1>13, Zenon DEF Abandon, Saving
  <2> QED BY <1>13, <2>1 DEF Abandon, Close, Steps
<1>14. ASSUME NEW r \in Runs, Kill(r) PROVE TypeOK'
  BY <1>14 DEF Kill, Close, Steps, Places
<1>15. CASE CleanStart
  BY <1>15 DEF CleanStart, Listed
<1>16. CASE CleanOne
  <2> PICK e \in cleaning :
        /\ cleaning' = cleaning \ {e}
        /\ store' = IF e = StoreFile THEN 0 ELSE store
        /\ lockfile' = IF e = LockFile THEN 0 ELSE lockfile
        /\ temps' = temps \ {e}
        /\ moved' = [r \in Runs |-> moved[r] \/ (e = StoreFile /\ Alive(r))]
        /\ UNCHANGED <<inodes, copying, cleans, killed, latest, pc, private, failed>>
    BY <1>16 DEF CleanOne
  <2>1. moved' \in [Runs -> BOOLEAN]
    OBVIOUS
  <2> QED BY <2>1
<1>17. CASE UNCHANGED vars
  BY <1>17 DEF vars
<1> QED
  BY <1>1, <1>2, <1>3, <1>4, <1>5, <1>6, <1>7, <1>8, <1>9, <1>10, <1>11, <1>12,
     <1>13, <1>14, <1>15, <1>16, <1>17 DEF Next, Copy, RenameFails, Fail

-----------------------------------------------------------------------------
(* The other parts of the invariant, one action at a time *)

(* A run that is over stays so and copies nothing.                          *)
LEMMA NextQuiet == TypeOK /\ Quiet /\ [Next]_vars => Quiet'
<1> SUFFICES ASSUME TypeOK, Quiet, [Next]_vars PROVE Quiet'
  OBVIOUS
<1> USE DEF TypeOK, profile, copying, clean, history, Goto, At, Quiet, Alive
<1>1. ASSUME NEW r \in Runs, Start(r) PROVE Quiet'
  BY <1>1 DEF Start, CanStart
<1>2. ASSUME NEW r \in Runs, HostStarts(r) PROVE Quiet'
  BY <1>2 DEF HostStarts
<1>3. ASSUME NEW r \in Runs, HostLogin(r) PROVE Quiet'
  BY <1>3 DEF HostLogin
<1>4. ASSUME NEW r \in Runs, HostExits(r) PROVE Quiet'
  BY <1>4 DEF HostExits
<1>5. ASSUME NEW r \in Runs, Tick(r) PROVE Quiet'
  BY <1>5 DEF Tick
<1>6. ASSUME NEW r \in Runs, StopWatch(r) PROVE Quiet'
  BY <1>6 DEF StopWatch
<1>7. ASSUME NEW r \in Runs, Drop(r) PROVE Quiet'
  BY <1>7 DEF Drop, Saved
<1>8. ASSUME NEW r \in Runs, OpenLock(r) PROVE Quiet'
  BY <1>8 DEF OpenLock
<1>9. ASSUME NEW r \in Runs, Lock(r) PROVE Quiet'
  BY <1>9 DEF Lock
<1>10. ASSUME NEW r \in Runs, CopyOut(r) PROVE Quiet'
  BY <1>10 DEF CopyOut, Close
<1>11. ASSUME NEW r \in Runs, ReadSource(r) PROVE Quiet'
  BY <1>11 DEF ReadSource, Close
<1>12. ASSUME NEW r \in Runs, Rename(r) PROVE Quiet'
  BY <1>12 DEF Rename, Close, OthersMoved
<1>13. ASSUME NEW r \in Runs, step[r] # "none", Abandon(r) PROVE Quiet'
  BY <1>13 DEF Abandon, Close
<1>14. ASSUME NEW r \in Runs, Kill(r) PROVE Quiet'
  BY <1>14 DEF Kill, Close
<1>15. CASE CleanStart
  BY <1>15 DEF CleanStart, Listed
<1>16. CASE CleanOne
  BY <1>16 DEF CleanOne
<1>17. CASE UNCHANGED vars
  BY <1>17 DEF vars
<1> QED
  BY <1>1, <1>2, <1>3, <1>4, <1>5, <1>6, <1>7, <1>8, <1>9, <1>10, <1>11, <1>12, <1>13, <1>14, <1>15, <1>16, <1>17
     DEF Next, Copy, RenameFails, Fail

(* A temporary file comes with the step that reads and goes with the file    *)
(* closed, except in a kill.                                                *)
LEMMA NextStray == TypeOK /\ Quiet /\ StrayOnlyIfKilled /\ [Next]_vars => StrayOnlyIfKilled'
<1> SUFFICES ASSUME TypeOK, Quiet, StrayOnlyIfKilled, [Next]_vars PROVE StrayOnlyIfKilled'
  OBVIOUS
<1> USE DEF TypeOK, profile, copying, clean, history, Goto, At, StrayOnlyIfKilled
<1>1. ASSUME NEW r \in Runs, Start(r) PROVE StrayOnlyIfKilled'
  BY <1>1 DEF Start, CanStart, Quiet, Alive
<1>2. ASSUME NEW r \in Runs, HostStarts(r) PROVE StrayOnlyIfKilled'
  BY <1>2 DEF HostStarts
<1>3. ASSUME NEW r \in Runs, HostLogin(r) PROVE StrayOnlyIfKilled'
  BY <1>3 DEF HostLogin
<1>4. ASSUME NEW r \in Runs, HostExits(r) PROVE StrayOnlyIfKilled'
  BY <1>4 DEF HostExits
<1>5. ASSUME NEW r \in Runs, Tick(r) PROVE StrayOnlyIfKilled'
  BY <1>5 DEF Tick
<1>6. ASSUME NEW r \in Runs, StopWatch(r) PROVE StrayOnlyIfKilled'
  BY <1>6 DEF StopWatch
<1>7. ASSUME NEW r \in Runs, Drop(r) PROVE StrayOnlyIfKilled'
  BY <1>7 DEF Drop
<1>8. ASSUME NEW r \in Runs, OpenLock(r) PROVE StrayOnlyIfKilled'
  BY <1>8 DEF OpenLock
<1>9. ASSUME NEW r \in Runs, Lock(r) PROVE StrayOnlyIfKilled'
  BY <1>9 DEF Lock
<1>10. ASSUME NEW r \in Runs, CopyOut(r) PROVE StrayOnlyIfKilled'
  BY <1>10 DEF CopyOut, Close
<1>11. ASSUME NEW r \in Runs, ReadSource(r) PROVE StrayOnlyIfKilled'
  BY <1>11 DEF ReadSource, Close
<1>12. ASSUME NEW r \in Runs, Rename(r) PROVE StrayOnlyIfKilled'
  BY <1>12 DEF Rename, Close, OthersMoved
<1>13. ASSUME NEW r \in Runs, step[r] # "none", Abandon(r) PROVE StrayOnlyIfKilled'
  BY <1>13 DEF Abandon, Close
<1>14. ASSUME NEW r \in Runs, Kill(r) PROVE StrayOnlyIfKilled'
  BY <1>14 DEF Kill, Close
<1>15. CASE CleanStart
  BY <1>15 DEF CleanStart, Listed
<1>16. CASE CleanOne
  BY <1>16 DEF CleanOne
<1>17. CASE UNCHANGED vars
  BY <1>17 DEF vars
<1> QED
  BY <1>1, <1>2, <1>3, <1>4, <1>5, <1>6, <1>7, <1>8, <1>9, <1>10, <1>11, <1>12, <1>13, <1>14, <1>15, <1>16, <1>17
     DEF Next, Copy, RenameFails, Fail

(* The inode a run has opened is the one it locks.                          *)
LEMMA NextLocking == TypeOK /\ Locking /\ [Next]_vars => Locking'
<1> SUFFICES ASSUME TypeOK, Locking, [Next]_vars PROVE Locking'
  OBVIOUS
<1> USE NameAssumption DEF TypeOK, profile, copying, clean, history, Goto, At, Locking, HoldsLock
<1>1. ASSUME NEW r \in Runs, Start(r) PROVE Locking'
  BY <1>1 DEF Start, CanStart
<1>2. ASSUME NEW r \in Runs, HostStarts(r) PROVE Locking'
  BY <1>2 DEF HostStarts
<1>3. ASSUME NEW r \in Runs, HostLogin(r) PROVE Locking'
  BY <1>3 DEF HostLogin
<1>4. ASSUME NEW r \in Runs, HostExits(r) PROVE Locking'
  BY <1>4 DEF HostExits
<1>5. ASSUME NEW r \in Runs, Tick(r) PROVE Locking'
  BY <1>5 DEF Tick
<1>6. ASSUME NEW r \in Runs, StopWatch(r) PROVE Locking'
  BY <1>6 DEF StopWatch
<1>7. ASSUME NEW r \in Runs, Drop(r) PROVE Locking'
  BY <1>7 DEF Drop
<1>8. ASSUME NEW r \in Runs, OpenLock(r) PROVE Locking'
  BY <1>8 DEF OpenLock
<1>9. ASSUME NEW r \in Runs, Lock(r) PROVE Locking'
  BY <1>9 DEF Lock
<1>10. ASSUME NEW r \in Runs, CopyOut(r) PROVE Locking'
  BY <1>10 DEF CopyOut, Close
<1>11. ASSUME NEW r \in Runs, ReadSource(r) PROVE Locking'
  BY <1>11 DEF ReadSource, Close
<1>12. ASSUME NEW r \in Runs, Rename(r) PROVE Locking'
  BY <1>12 DEF Rename, Close, OthersMoved
<1>13. ASSUME NEW r \in Runs, step[r] # "none", Abandon(r) PROVE Locking'
  BY <1>13 DEF Abandon, Close
<1>14. ASSUME NEW r \in Runs, Kill(r) PROVE Locking'
  BY <1>14 DEF Kill, Close
<1>15. CASE CleanStart
  <2>1. LockFile \notin temps /\ LockFile # StoreFile
    BY NameAssumption DEF LockFile, StoreFile
  <2>2. LockFile \in cleaning' => lockfile # 0
    BY <1>15, <2>1 DEF CleanStart, Listed
  <2> QED BY <1>15, <2>2 DEF CleanStart
<1>16. CASE CleanOne
  BY <1>16 DEF CleanOne
<1>17. CASE UNCHANGED vars
  BY <1>17 DEF vars
<1> QED
  BY <1>1, <1>2, <1>3, <1>4, <1>5, <1>6, <1>7, <1>8, <1>9, <1>10, <1>11, <1>12, <1>13, <1>14, <1>15, <1>16, <1>17
     DEF Next, Copy, RenameFails, Fail

(* Who has not been overtaken holds the newest version there is.            *)
LEMMA NextNewest == TypeOK /\ Quiet /\ Newest /\ [Next]_vars => Newest'
<1> SUFFICES ASSUME TypeOK, Quiet, Newest, [Next]_vars PROVE Newest'
  OBVIOUS
<1> USE DEF TypeOK, profile, copying, clean, history, Goto, At, Newest, Alive, Saving
<1>1. ASSUME NEW r \in Runs, Start(r) PROVE Newest'
  BY <1>1 DEF Start, CanStart, Quiet
<1>2. ASSUME NEW r \in Runs, HostStarts(r) PROVE Newest'
  BY <1>2 DEF HostStarts
<1>3. ASSUME NEW r \in Runs, HostLogin(r) PROVE Newest'
  BY <1>3 DEF HostLogin
<1>4. ASSUME NEW r \in Runs, HostExits(r) PROVE Newest'
  BY <1>4 DEF HostExits
<1>5. ASSUME NEW r \in Runs, Tick(r) PROVE Newest'
  BY <1>5 DEF Tick
<1>6. ASSUME NEW r \in Runs, StopWatch(r) PROVE Newest'
  BY <1>6 DEF StopWatch
<1>7. ASSUME NEW r \in Runs, Drop(r) PROVE Newest'
  BY <1>7 DEF Drop, Saved
<1>8. ASSUME NEW r \in Runs, OpenLock(r) PROVE Newest'
  BY <1>8 DEF OpenLock
<1>9. ASSUME NEW r \in Runs, Lock(r) PROVE Newest'
  BY <1>9 DEF Lock
<1>10. ASSUME NEW r \in Runs, CopyOut(r) PROVE Newest'
  BY <1>10 DEF CopyOut, Close
<1>11. ASSUME NEW r \in Runs, ReadSource(r) PROVE Newest'
  BY <1>11 DEF ReadSource, Close
<1>12. ASSUME NEW r \in Runs, Rename(r) PROVE Newest'
  <2> SUFFICES ASSUME NEW o \in Runs
               PROVE  /\ step'[o] = "rename" => buf'[o] \in 1 .. private'[o]
                      /\ step'[o] = "rename" /\ pc'[o] = "save" => buf'[o] = private'[o]
                      /\ Alive(o)' /\ ~moved'[o] =>
                            /\ private'[o] = 0 \/ store' <= private'[o]
                            /\ step'[o] = "rename" => store' <= buf'[o]
    BY DEF Alive
  <2>1. CASE o = r
    <3>1. step'[o] = "none" /\ store' = buf[o] /\ private'[o] = private[o]
      BY <1>12, <2>1 DEF Rename, Close
    <3>2. buf[o] <= private[o]
      BY <1>12, <2>1 DEF Rename
    <3> QED BY <3>1, <3>2
  <2>2. CASE o # r
    <3>1. /\ step'[o] = step[o] /\ buf'[o] = buf[o]
          /\ private'[o] = private[o] /\ pc'[o] = pc[o]
      BY <1>12, <2>2 DEF Rename, Close
    <3>2. Alive(o)' => moved'[o]
      BY <1>12, <2>2, <3>1 DEF Rename, OthersMoved
    <3> QED BY <3>1, <3>2
  <2> QED BY <2>1, <2>2
<1>13. ASSUME NEW r \in Runs, step[r] # "none", Abandon(r) PROVE Newest'
  BY <1>13 DEF Abandon, Close
<1>14. ASSUME NEW r \in Runs, Kill(r) PROVE Newest'
  BY <1>14 DEF Kill, Close
<1>15. CASE CleanStart
  BY <1>15 DEF CleanStart, Listed
<1>16. CASE CleanOne
  BY <1>16 DEF CleanOne
<1>17. CASE UNCHANGED vars
  BY <1>17 DEF vars
<1> QED
  BY <1>1, <1>2, <1>3, <1>4, <1>5, <1>6, <1>7, <1>8, <1>9, <1>10, <1>11, <1>12, <1>13, <1>14, <1>15, <1>16, <1>17
     DEF Next, Copy, RenameFails, Fail

(* A save ends with the sign-in in the profile or with its failure known.   *)
LEMMA NextLoginKept == TypeOK /\ Newest /\ LoginKept /\ [Next]_vars => LoginKept'
<1> SUFFICES ASSUME TypeOK, Newest, LoginKept, [Next]_vars PROVE LoginKept'
  OBVIOUS
<1> USE DEF TypeOK, profile, copying, clean, history, Goto, At, LoginKept, Saved, Saving, Alive
<1>1. ASSUME NEW r \in Runs, Start(r) PROVE LoginKept'
  BY <1>1 DEF Start, CanStart
<1>2. ASSUME NEW r \in Runs, HostStarts(r) PROVE LoginKept'
  BY <1>2 DEF HostStarts
<1>3. ASSUME NEW r \in Runs, HostLogin(r) PROVE LoginKept'
  BY <1>3 DEF HostLogin
<1>4. ASSUME NEW r \in Runs, HostExits(r) PROVE LoginKept'
  BY <1>4 DEF HostExits
<1>5. ASSUME NEW r \in Runs, Tick(r) PROVE LoginKept'
  BY <1>5 DEF Tick
<1>6. ASSUME NEW r \in Runs, StopWatch(r) PROVE LoginKept'
  BY <1>6 DEF StopWatch
<1>7. ASSUME NEW r \in Runs, Drop(r) PROVE LoginKept'
  BY <1>7 DEF Drop
<1>8. ASSUME NEW r \in Runs, OpenLock(r) PROVE LoginKept'
  BY <1>8 DEF OpenLock
<1>9. ASSUME NEW r \in Runs, Lock(r) PROVE LoginKept'
  BY <1>9 DEF Lock
<1>10. ASSUME NEW r \in Runs, CopyOut(r) PROVE LoginKept'
  BY <1>10 DEF CopyOut, Close, Binding
<1>11. ASSUME NEW r \in Runs, ReadSource(r) PROVE LoginKept'
  BY <1>11 DEF ReadSource, Close
<1>12. ASSUME NEW r \in Runs, Rename(r) PROVE LoginKept'
  <2> SUFFICES ASSUME NEW o \in Runs, pc'[o] = "save", step'[o] = "none",
                      private'[o] # 0, ~moved'[o]
               PROVE  store' = private'[o]
    OBVIOUS
  <2>1. pc[o] = "save" /\ private'[o] = private[o]
    BY <1>12 DEF Rename
  <2>2. o = r
    BY <1>12, <2>1 DEF Rename, OthersMoved
  <2>3. buf[r] = private[r]
    BY <1>12, <2>1, <2>2 DEF Rename, Newest
  <2> QED BY <1>12, <2>1, <2>2, <2>3 DEF Rename
<1>13. ASSUME NEW r \in Runs, step[r] # "none", Abandon(r) PROVE LoginKept'
  BY <1>13 DEF Abandon, Close
<1>14. ASSUME NEW r \in Runs, Kill(r) PROVE LoginKept'
  BY <1>14 DEF Kill, Close
<1>15. CASE CleanStart
  BY <1>15 DEF CleanStart, Listed
<1>16. CASE CleanOne
  BY <1>16 DEF CleanOne
<1>17. CASE UNCHANGED vars
  BY <1>17 DEF vars
<1> QED
  BY <1>1, <1>2, <1>3, <1>4, <1>5, <1>6, <1>7, <1>8, <1>9, <1>10, <1>11, <1>12, <1>13, <1>14, <1>15, <1>16, <1>17
     DEF Next, Copy, RenameFails, Fail

-----------------------------------------------------------------------------
(* Theorems *)

LEMMA HostInvariant == Spec => []HostInv
<1>1. HostInv /\ [Next]_vars => HostInv'
  BY NextTypeOK, NextQuiet, NextStray, NextLocking, NextNewest, NextLoginKept DEF HostInv
<1> QED BY InitHostInv, <1>1, PTL DEF Spec

\* Every variable keeps its type, and there is one lock file more than cleans
\* at most (withAuthStoreFileLock opens it by name with O_CREATE).
THEOREM TypeCorrect == Spec => []TypeOK
<1>1. HostInv => TypeOK
  BY DEF HostInv
<1> QED BY HostInvariant, <1>1, PTL

\* A sign-in is saved, or its loss told, or somebody else changed the profile
\* (finalizeHostAuth after the watcher has stopped).
THEOREM LoginKeptAlways == Spec => []LoginKept
<1>1. HostInv => LoginKept
  BY DEF HostInv
<1> QED BY HostInvariant, <1>1, PTL

\* Runs exclude each other on the profile as long as nothing was cleaned: the
\* flocks they hold are of one inode (withAuthStoreFileLock).
THEOREM CopiesExcludeAlways == Spec => []CopiesExclude
<1>1. HostInv => CopiesExclude
  <2> SUFFICES ASSUME HostInv, NEW r \in Runs, NEW other \in Runs, r # other,
                      HoldsLock(r), HoldsLock(other), ~(cleans > 0)
               PROVE  FALSE
    BY DEF CopiesExclude
  <2>1. cleans = 0
    BY DEF HostInv, TypeOK
  <2>2. fd[r] = lockfile /\ fd[other] = lockfile
    BY <2>1 DEF HostInv, Locking
  <2> QED BY <2>2 DEF HostInv, Locking
<1> QED BY HostInvariant, <1>1, PTL

\* A temporary copy of a sign-in is left behind by a kill only (writeAuthFile
\* removes it on every error).
THEOREM StrayOnlyIfKilledAlways == Spec => []StrayOnlyIfKilled
<1>1. HostInv => StrayOnlyIfKilled
  BY DEF HostInv
<1> QED BY HostInvariant, <1>1, PTL

\* Only a run that began before somebody else changed the profile replaces a
\* newer sign-in by an older one (copyDeclaredAuth).
THEOREM NeverGoesBack == Spec => NeverGoesBackP
<1>1. HostInv /\ [Next]_vars => [GoesBackOnlyIfOverlapping]_vars
  <2> SUFFICES ASSUME HostInv, [Next]_vars, store' # 0, store' < store
               PROVE  \E r \in Runs : At(r, "rename") /\ step'[r] # "rename" /\ moved[r]
    BY DEF GoesBackOnlyIfOverlapping, At
  <2>1. store \in Nat
    BY DEF HostInv, TypeOK
  <2>2. PICK r \in Runs : Rename(r)
    <3>1. store' # store
      BY <2>1
    <3>2. ~CleanOne
      BY <3>1 DEF CleanOne
    <3> QED
      BY <3>1, <3>2 DEF Next, Copy, Start, HostStarts, HostLogin, HostExits, Tick,
         StopWatch, Drop, OpenLock, Lock, CopyOut, ReadSource, RenameFails, Fail, Abandon,
         Kill, CleanStart, profile, vars
  <2>3. At(r, "rename") /\ store' = buf[r] /\ step'[r] = "none"
    BY <2>2 DEF Rename, Close, HostInv, TypeOK
  <2>4. moved[r]
    <3> SUFFICES ASSUME ~moved[r] PROVE FALSE
      OBVIOUS
    <3>1. Alive(r)
      BY <2>3 DEF HostInv, Quiet, At
    <3>2. store <= buf[r]
      BY <2>3, <3>1 DEF HostInv, Newest
    <3>3. buf[r] \in Nat
      BY DEF HostInv, TypeOK
    <3> QED BY <2>1, <2>3, <3>2, <3>3
  <2> QED BY <2>3, <2>4
<1> QED BY <1>1, HostInvariant, PTL DEF Spec, NeverGoesBackP

-----------------------------------------------------------------------------
(* The lock is never left behind *)

\* A run that waits for the flock waits for one other, which is at its copy and
\* waits for nobody itself.
WaitsForWorker ==
    \A r \in Runs : At(r, "lock") =>
        \A o, other \in Runs :
            /\ HoldsLock(o) /\ fd[o] = fd[r] => Alive(o) /\ ~At(o, "lock")
            /\ HoldsLock(o) /\ fd[o] = fd[r] /\ HoldsLock(other) /\ fd[other] = fd[r]
                 => o = other

\* A killed run never leaves the profile locked, and no two runs wait for each
\* other (withAuthStoreFileLock: one flock at a time, given up with the process).
THEOREM WaitsForWorkerAlways == Spec => []WaitsForWorker
<1>1. HostInv => WaitsForWorker
  BY DEF HostInv, WaitsForWorker, Quiet, Locking, HoldsLock, At
<1> QED BY HostInvariant, <1>1, PTL

-----------------------------------------------------------------------------
(* One run after another, and no clean *)

AtMostOne == \A r, o \in Runs : Alive(r) /\ Alive(o) => r = o

\* Nobody but the run changes the profile while it is on.
Alone ==
    /\ AtMostOne
    /\ cleans = 0 /\ cleaning = {}
    /\ \A r \in Runs : ~moved[r]

\* What a host last left is in the profile when its run ends, unless the user
\* was told that it could not be saved.
SavedOrTold ==
    \A r \in Runs : Saved(r) /\ private[r] # 0 /\ ~failed[r] => store = private[r]

OnlyForward == store <= store'

\* A run starts only where no other is alive.
LEMMA StartsAlone ==
    ASSUME MaxAlive = 1, AtMostOne, NEW r \in Runs, CanStart(r)
    PROVE  \A o \in Runs : ~Alive(o)
<1> SUFFICES ASSUME NEW o \in Runs, Alive(o) PROVE FALSE
  OBVIOUS
<1>1. {x \in Runs : Alive(x)} = {o}
  BY DEF AtMostOne
<1>2. Cardinality({o}) = 1
  BY FS_Singleton
<1> QED BY <1>1, <1>2 DEF CanStart

LEMMA NextAlone ==
    ASSUME MaxAlive = 1, MaxCleans = 0, HostInv, Alone, [Next]_vars
    PROVE  Alone'
<1> USE DEF AtMostOne, Alive, profile, copying, clean, history, Goto
<1>t. /\ pc \in [Runs -> Places] /\ moved \in [Runs -> BOOLEAN]
      /\ \A r \in Runs : step[r] # "none" => Alive(r)
  BY DEF HostInv, TypeOK, Quiet
<1>1. ASSUME NEW r \in Runs, Start(r) PROVE Alone'
  <2>1. \A o \in Runs : ~Alive(o)
    BY <1>1, StartsAlone DEF Alone, Start
  <2> QED BY <1>t, <1>1, <2>1 DEF Start, Alone
<1>2. ASSUME NEW r \in Runs,
             HostStarts(r) \/ HostLogin(r) \/ HostExits(r) \/ Tick(r) \/ StopWatch(r)
      PROVE  Alone'
  BY <1>t, <1>2 DEF HostStarts, HostLogin, HostExits, Tick, StopWatch, Alone
<1>3. ASSUME NEW r \in Runs, Drop(r) \/ Kill(r) PROVE Alone'
  <2>1. \A o \in Runs : Alive(o)' => Alive(o)
    BY <1>t, <1>3 DEF Drop, Kill
  <2>2. \A o \in Runs : ~moved'[o]
    BY <1>t, <1>3 DEF Drop, Kill, Alone
  <2> QED BY <1>3, <2>1, <2>2 DEF Drop, Kill, Alone
<1>4. ASSUME NEW r \in Runs,
             OpenLock(r) \/ Lock(r) \/ CopyOut(r) \/ ReadSource(r) \/ RenameFails(r) \/ Fail(r)
      PROVE  Alone'
  BY <1>4 DEF OpenLock, Lock, CopyOut, ReadSource, RenameFails, Fail, Abandon, Alone
<1>5. ASSUME NEW r \in Runs, Rename(r) PROVE Alone'
  <2>1. Alive(r)
    BY <1>t, <1>5 DEF Rename, At
  <2>2. \A o \in Runs : ~moved'[o]
    BY <1>5, <2>1 DEF Rename, OthersMoved, Alone
  <2> QED BY <1>5, <2>2 DEF Rename, Alone
<1>6. ~CleanStart /\ ~CleanOne
  BY DEF CleanStart, CleanOne, Alone
<1>7. CASE UNCHANGED vars
  BY <1>7 DEF vars, Alone
<1> QED BY <1>1, <1>2, <1>3, <1>4, <1>5, <1>6, <1>7 DEF Next, Copy

\* One run after another and nothing cleaned: every sign-in is saved or its loss
\* told, and the profile never goes back.  This is what sharing a profile between
\* runs at the same time, or cleaning it meanwhile, gives up.
THEOREM OneAfterAnotherKeeps ==
    ASSUME MaxAlive = 1, MaxCleans = 0
    PROVE  Spec => []SavedOrTold /\ [][OnlyForward]_vars
<1>1. Init => Alone
  BY DEF Init, Alone, AtMostOne, Alive
<1>2. HostInv /\ Alone /\ [Next]_vars => Alone'
  BY NextAlone
<1>3. HostInv /\ Alone => SavedOrTold
  BY DEF HostInv, LoginKept, Alone, SavedOrTold
<1>4. HostInv /\ Alone /\ [Next]_vars => [OnlyForward]_vars
  <2> SUFFICES ASSUME HostInv, Alone, [Next]_vars PROVE store <= store'
    BY DEF OnlyForward
  <2>1. store \in Nat
    BY DEF HostInv, TypeOK
  <2>2. ASSUME NEW r \in Runs, Rename(r) PROVE store <= store'
    <3>1. Alive(r) /\ At(r, "rename")
      BY <2>2 DEF Rename, HostInv, Quiet, At
    <3> QED BY <2>2, <3>1 DEF HostInv, Newest, Alone, Rename
  <2>3. (\A r \in Runs : ~Rename(r)) => store' = store
    BY DEF Next, Copy, Start, HostStarts, HostLogin, HostExits, Tick, StopWatch, Drop,
       OpenLock, Lock, CopyOut, ReadSource, RenameFails, Fail, Abandon, Kill, CleanStart,
       CleanOne, Alone, profile, vars
  <2> QED BY <2>1, <2>2, <2>3
<1> QED BY HostInvariant, <1>1, <1>2, <1>3, <1>4, PTL DEF Spec
=============================================================================
