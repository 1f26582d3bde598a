--------------------------- MODULE LockfileProofs ---------------------------
(***************************************************************************)
(* For any number of invocations of vdr-convert on a recording, by any     *)
(* users: the types of the lock's state, and that at most one instance     *)
(* converts as long as no two of them have been in start-up at once and    *)
(* none has probed a running one that it may not signal.                   *)
(*                                                                         *)
(* Mutual exclusion is not inductive.  It needs to know what the lock file *)
(* says at each command of a starting instance: that a holder's pid is in  *)
(* the file from the first test on, that cat has read it, and that from    *)
(* "rmstale" on there is no holder left to read.                           *)
(***************************************************************************)
EXTENDS Lockfile, TLAPS

\* The commands that follow the decision to take the lock.
Taking == {"rmstale", "create", "write"}

\* At most one instance is in start-up.
OneStarter ==
  \A p, q \in Procs : pc[p] \in Startup /\ pc[q] \in Startup => p = q

\* The lock file holds the pid of every instance that converts.
Recorded ==
  \A p \in Procs : pc[p] \in Holding => lockfile # NoFile /\ content[lockfile] = p

\* Once an instance takes the lock, no other one converts.
Unheld ==
  \A p, q \in Procs : pc[p] \in Taking => pc[q] \notin Holding

\* The instance about to be refused has read the holder's pid.
HolderSeen ==
  \A p, q \in Procs : pc[p] = "probe" /\ pc[q] \in Holding => seen[p] = q

\* Nobody removes the lock file between its creation and the write of the pid.
StillLinked ==
  \A p \in Procs : pc[p] = "write" => lockfile = fd[p] /\ fd[p] # NoFile

LockInv == OneStarter /\ Recorded /\ Unheld /\ HolderSeen /\ StillLinked

IInv == TypeOK /\ (Undisturbed => LockInv)

-----------------------------------------------------------------------------

\* Every step keeps the types: in particular a redirection opens the file the
\* name refers to, or a new one, and never the absent file.
LEMMA TypeStep == TypeOK /\ [Next]_vars => TypeOK'
<1> SUFFICES ASSUME TypeOK, [Next]_vars PROVE TypeOK'
  OBVIOUS
<1> USE DEF TypeOK, Locations, Startup, Holding, Ended, Goto
<1>1. ASSUME NEW p \in Procs, Start(p) PROVE TypeOK'
  BY <1>1 DEF Start
<1>2. ASSUME NEW p \in Procs, Step(p) PROVE TypeOK'
  <2>1. CASE CheckExists(p)
    BY <2>1 DEF CheckExists
  <2>2. CASE CheckReadable(p)
    BY <2>2 DEF CheckReadable
  <2>3. CASE ReadPid(p)
    BY <2>3 DEF ReadPid
  <2>4. CASE ProbeHolder(p)
    BY <2>4 DEF ProbeHolder, RecordDenial
  <2>5. CASE RemoveStale(p)
    BY <2>5 DEF RemoveStale
  <2>6. CASE OpenLock(p)
    BY <2>6 DEF OpenLock
  <2>7. CASE WritePid(p)
    BY <2>7 DEF WritePid
  <2>8. CASE Finish(p)
    BY <2>8 DEF Finish
  <2>9. CASE RemoveLock(p)
    BY <2>9 DEF RemoveLock
  <2>10. CASE Exit(p)
    BY <2>10 DEF Exit
  <2>11. CASE OpenDenied(p)
    BY <2>11 DEF OpenDenied
  <2> QED
    BY <1>2, <2>1, <2>2, <2>3, <2>4, <2>5, <2>6, <2>7, <2>8, <2>9, <2>10, <2>11
       DEF Step
<1>3. ASSUME NEW p \in Procs, Kill(p) PROVE TypeOK'
  BY <1>3 DEF Kill
<1>4. ASSUME NEW p \in Procs, ReusePid(p) PROVE TypeOK'
  BY <1>4 DEF ReusePid
<1>5. ASSUME NEW p \in Procs, ReleasePid(p) PROVE TypeOK'
  BY <1>5 DEF ReleasePid
<1>6. CASE UNCHANGED vars
  BY <1>6 DEF vars
<1> QED
  BY <1>1, <1>2, <1>3, <1>4, <1>5, <1>6 DEF Next

\* The state of the lock keeps its types through every step of every instance.
THEOREM TypeCorrect == Spec => []TypeOK
<1>1. Init => TypeOK
  BY DEF Init, TypeOK, Locations
<1>2. TypeOK /\ [Next]_vars => TypeOK'
  BY TypeStep
<1> QED
  BY <1>1, <1>2, PTL DEF Spec

-----------------------------------------------------------------------------

\* Every step keeps what the lock file says of holders and starters, unless the
\* step lets two start-ups overlap or is a probe that is denied.
LEMMA LockStep ==
  TypeOK /\ (Undisturbed => LockInv) /\ [Next]_vars => (Undisturbed' => LockInv')
<1> SUFFICES ASSUME TypeOK, Undisturbed => LockInv, [Next]_vars, Undisturbed'
             PROVE  LockInv'
  OBVIOUS
<1> USE LockfileAssumption DEF Goto
<1>0. ~overlapped /\ ~denied /\ LockInv
  BY DEF Next, Step, Start, CheckExists, CheckReadable, ReadPid, ProbeHolder,
         RecordDenial, RemoveStale, OpenLock, OpenDenied, WritePid, Finish,
         RemoveLock, Exit, Kill, ReusePid, ReleasePid, vars, TypeOK, Undisturbed
<1>1. ASSUME NEW p \in Procs, Start(p) PROVE LockInv'
  <2> USE <1>0, <1>1 DEF TypeOK, Startup, Holding, Start, LockInv, Undisturbed
  <2>1. OneStarter'
    BY DEF OneStarter
  <2>2. Recorded' /\ Unheld' /\ HolderSeen' /\ StillLinked'
    BY DEF Recorded, Unheld, HolderSeen, StillLinked, Taking
  <2> QED
    BY <2>1, <2>2
<1>2. ASSUME NEW p \in Procs, Step(p) PROVE LockInv'
  <2> USE <1>0 DEF TypeOK, LockInv, OneStarter, Recorded, Unheld, HolderSeen,
                   StillLinked, Startup, Holding, Taking
  <2>1. CASE CheckExists(p)
    BY <2>1 DEF CheckExists
  <2>2. CASE CheckReadable(p)
    BY <2>2 DEF CheckReadable
  <2>3. CASE ReadPid(p)
    BY <2>3 DEF ReadPid
  <2>4. CASE ProbeHolder(p)
    <3>1. ASSUME NEW q \in Procs, pc[q] \in Holding PROVE Found(p) = {TRUE}
      <4>1. seen[p] = q /\ seen[p] # Empty /\ Running(q)
        BY <2>4, <3>1 DEF ProbeHolder, Running
      <4>2. MayTouch(p, q)
        BY <2>4, <4>1 DEF ProbeHolder, RecordDenial, Undisturbed
      <4> QED
        BY <4>1, <4>2 DEF Found, MayTouch
    <3>2. \E found \in Found(p) : Goto(p, IF found THEN "refused" ELSE "rmstale")
      BY <2>4 DEF ProbeHolder
    <3>3. UNCHANGED <<lockfile, content, fd, seen>> /\ pc[p] = "probe"
      BY <2>4 DEF ProbeHolder
    <3>4. CASE Goto(p, "refused")
      BY <3>3, <3>4
    <3>5. CASE Goto(p, "rmstale") /\ \A q \in Procs : pc[q] \notin Holding
      BY <3>3, <3>5
    <3>6. CASE \E q \in Procs : pc[q] \in Holding
      <4>1. Found(p) = {TRUE}
        BY ONLY <3>1, <3>6
      <4>2. Goto(p, "refused")
        BY ONLY <3>2, <4>1
      <4> QED
        BY <3>4, <4>2
    <3>7. CASE \A q \in Procs : pc[q] \notin Holding
      <4>1. PICK found \in Found(p) : Goto(p, IF found THEN "refused" ELSE "rmstale")
        BY <3>2
      <4>2. CASE found
        BY <3>4, <4>1, <4>2
      <4>3. CASE ~found
        BY <3>5, <3>7, <4>1, <4>3
      <4> QED
        BY <4>2, <4>3
    <3> QED
      BY <3>6, <3>7
  <2>5. CASE RemoveStale(p)
    BY <2>5 DEF RemoveStale
  <2>6. CASE OpenLock(p)
    BY <2>6 DEF OpenLock
  <2>7. CASE WritePid(p)
    BY <2>7 DEF WritePid
  <2>8. CASE Finish(p)
    BY <2>8 DEF Finish
  <2>9. CASE RemoveLock(p)
    BY <2>9 DEF RemoveLock
  <2>10. CASE Exit(p)
    BY <2>10 DEF Exit
  <2>11. CASE OpenDenied(p)
    BY <2>11 DEF OpenDenied
  <2> QED
    BY <1>2, <2>1, <2>2, <2>3, <2>4, <2>5, <2>6, <2>7, <2>8, <2>9, <2>10, <2>11
       DEF Step
<1>3. ASSUME NEW p \in Procs, Kill(p) PROVE LockInv'
  BY <1>0, <1>3 DEF Kill, Running, TypeOK, LockInv, OneStarter, Recorded, Unheld,
                    HolderSeen, StillLinked, Startup, Holding, Taking
<1>4. ASSUME NEW p \in Procs, ReusePid(p) \/ ReleasePid(p) PROVE LockInv'
  BY <1>0, <1>4 DEF ReusePid, ReleasePid, LockInv, OneStarter, Recorded, Unheld,
                    HolderSeen, StillLinked
<1>5. CASE UNCHANGED vars
  BY <1>0, <1>5 DEF vars, LockInv, OneStarter, Recorded, Unheld, HolderSeen,
                    StillLinked
<1> QED
  BY <1>1, <1>2, <1>3, <1>4, <1>5 DEF Next

\* The strengthened invariant holds from the first state on.
LEMMA Inductive == Spec => []IInv
<1>1. Init => IInv
  <2> SUFFICES ASSUME Init PROVE IInv
    OBVIOUS
  <2>1. TypeOK
    BY DEF Init, TypeOK, Locations
  <2>2. LockInv
    BY DEF Init, LockInv, OneStarter, Recorded, Unheld, HolderSeen, StillLinked,
           Startup, Holding, Taking
  <2> QED
    BY <2>1, <2>2 DEF IInv
<1>2. IInv /\ [Next]_vars => IInv'
  BY TypeStep, LockStep DEF IInv
<1> QED
  BY <1>1, <1>2, PTL DEF Spec

\* The main result on the lock: for any number of instances of any users,
\* through crashes, stale locks and reused pids, two instances convert a
\* recording at the same time only if two start-ups have overlapped before, or
\* one has probed a running instance of a user whose processes it may not signal.
THEOREM Exclusion == Spec => []ExclusionUnlessDisturbed
<1>1. IInv => ExclusionUnlessDisturbed
  BY DEF IInv, LockInv, Recorded, ExclusionUnlessDisturbed, MutualExclusion
<1> QED
  BY <1>1, Inductive, PTL

\* If one user starts all instances (or each user may signal the others'), the
\* kill -0 of l.1084 is exact and only overlapping start-ups remain.
THEOREM OneUserExclusion ==
  ASSUME \A p, q \in Procs : MayTouch(p, q)
  PROVE  Spec => [](~overlapped => MutualExclusion)
<1>1. Init => ~denied
  BY DEF Init
<1>2. ~denied /\ [Next]_vars => ~denied'
  BY DEF Next, Step, Start, CheckExists, CheckReadable, ReadPid, ProbeHolder,
         RecordDenial, RemoveStale, OpenLock, OpenDenied, WritePid, Finish,
         RemoveLock, Exit, Kill, ReusePid, ReleasePid, vars
<1>3. ~denied /\ ExclusionUnlessDisturbed => (~overlapped => MutualExclusion)
  BY DEF ExclusionUnlessDisturbed, Undisturbed
<1> QED
  BY <1>1, <1>2, <1>3, Exclusion, PTL DEF Spec

\* In the same runs, the lock file names the instance that converts, so that
\* every later instance is refused and quit() removes the instance's own lock.
THEOREM Recording == Spec => []HolderIsRecorded
<1>1. IInv => HolderIsRecorded
  BY DEF IInv, LockInv, Recorded, HolderIsRecorded
<1> QED
  BY <1>1, Inductive, PTL
=============================================================================
