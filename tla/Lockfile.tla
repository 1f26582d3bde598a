------------------------------ MODULE Lockfile ------------------------------
(***************************************************************************)
(* The lock of vdr-convert: the file vdr-convert.pid in the directory of   *)
(* the recording, which is meant to keep a second instance of the script   *)
(* away from a recording that is being converted.                          *)
(*                                                                         *)
(* The lock is taken by separate shell commands (test -e, test -r, cat,    *)
(* kill -0, rm -f, and a redirection that first creates or truncates the   *)
(* file and then writes the pid), and each of them is a step here: other   *)
(* instances run in between.  What happens while the lock is held is the   *)
(* subject of module VdrConvert; here it is the one state "run".           *)
(*                                                                         *)
(* A file is named by the instance whose redirection created it, so that a *)
(* write through a descriptor whose file has been removed meanwhile does   *)
(* not appear in the directory, as on a POSIX file system.                 *)
(*                                                                         *)
(* Instances may be started by several users (vdr-auto runs as VDR's user, *)
(* batch.sh as whoever calls it).  kill -0 fails with EPERM on a process   *)
(* of another user, which the script cannot tell from a process that has   *)
(* ended.  The users may all write the recording's directory and read each *)
(* other's lock files; the file itself only its owner and root may write.  *)
(***************************************************************************)
EXTENDS FiniteSets

CONSTANTS
  Procs,    \* invocations of the script on one recording, each with its pid
  Accounts, \* a set of sets of them: those that one user has started
  Root,     \* the ones root has started
  NoFile,  \* the directory holds no vdr-convert.pid
  Empty    \* the file holds no pid: it was created and not written yet

ASSUME UsersAssumption ==
  /\ \A p \in Procs : \E u \in Accounts : p \in u
  /\ \A u, v \in Accounts : u \cap v # {} => u = v
  /\ Root = {} \/ Root \in Accounts

ASSUME LockfileAssumption ==
  /\ NoFile \notin Procs
  /\ Empty \notin Procs

VARIABLES
  pc,         \* pc[p]: the command instance p executes next
  lockfile,   \* NoFile, or the file the name vdr-convert.pid refers to
  content,    \* content[f]: the pid in file f, or Empty
  fd,         \* fd[p]: the file p's redirection has opened
  seen,       \* seen[p]: what p's cat read from the lock file
  foreign,    \* pids of ended instances that an unrelated process now has
  overlapped, \* history: two instances have been in start-up at once
  denied      \* history: an instance was not allowed to signal a running one

vars == <<pc, lockfile, content, fd, seen, foreign, overlapped, denied>>

-----------------------------------------------------------------------------
(* The commands of one instance.                                           *)

Startup == {"check", "readable", "cat", "probe", "rmstale", "create", "write"}
Holding == {"run", "quit"}
Ended   == {"done", "refused", "killed"}
Locations == {"idle"} \cup Startup \cup Holding \cup {"exit"} \cup Ended

\* Instance p is of the user of instance q, or of root.
MayTouch(p, q) == p \in Root \/ \E u \in Accounts : {p, q} \subseteq u

Running(p) == pc[p] \in Startup \cup Holding \cup {"exit"}

\* What kill -0 of the pid p has read may say.  It fails without a pid, on a
\* pid no process has, and on one it may not signal; an unrelated process
\* may be of any user.
Found(p) ==
  IF seen[p] = Empty THEN {FALSE}
  ELSE IF Running(seen[p]) THEN {MayTouch(p, seen[p])}
  ELSE IF seen[p] \in foreign THEN BOOLEAN
  ELSE {FALSE}
Goto(p, l) == pc' = [pc EXCEPT ![p] = l]

Init ==
  /\ pc = [p \in Procs |-> "idle"]
  /\ lockfile = NoFile
  /\ content = [p \in Procs |-> Empty]
  /\ fd = [p \in Procs |-> NoFile]
  /\ seen = [p \in Procs |-> Empty]
  /\ foreign = {}
  /\ overlapped = FALSE
  /\ denied = FALSE

\* vdr-auto, batch.sh or a user starts the script on the recording.
Start(p) ==
  /\ pc[p] = "idle"
  /\ Goto(p, "check")
  /\ overlapped' = (overlapped \/ \E q \in Procs : pc[q] \in Startup)
  /\ UNCHANGED <<lockfile, content, fd, seen, foreign, denied>>

\* [ -e "$LOCKFILE" ]
CheckExists(p) ==
  /\ pc[p] = "check"
  /\ Goto(p, IF lockfile = NoFile THEN "create" ELSE "readable")
  /\ UNCHANGED <<lockfile, content, fd, seen, foreign, overlapped, denied>>

\* [ -r "$LOCKFILE" ] || exit 1: the file may have gone since the test.
CheckReadable(p) ==
  /\ pc[p] = "readable"
  /\ Goto(p, IF lockfile = NoFile THEN "refused" ELSE "cat")
  /\ UNCHANGED <<lockfile, content, fd, seen, foreign, overlapped, denied>>

\* Slip: the output of cat for a missing file is taken for a pid.
ReadPidUnchecked(p) ==
  /\ pc[p] = "cat"
  /\ seen' = [seen EXCEPT ![p] = IF lockfile = NoFile THEN NoFile
                                 ELSE content[lockfile]]
  /\ Goto(p, "probe")
  /\ UNCHANGED <<lockfile, content, fd, foreign, overlapped, denied>>

\* $(cat "$LOCKFILE")
ReadPid(p) ==
  /\ pc[p] = "cat"
  /\ seen' = [seen EXCEPT ![p] = IF lockfile = NoFile THEN Empty
                                 ELSE content[lockfile]]
  /\ Goto(p, "probe")
  /\ UNCHANGED <<lockfile, content, fd, foreign, overlapped, denied>>

\* Records that kill -0 fails although the pid is that of a running instance.
RecordDenial(p) ==
  denied' = (denied \/ \E q \in Procs : /\ seen[p] = q /\ Running(q)
                                        /\ ~MayTouch(p, q))

\* Slip: the refused instance leaves through quit(), which removes the lock.
ProbeHolderQuits(p) ==
  /\ pc[p] = "probe"
  /\ \E found \in Found(p) :
       IF found THEN Goto(p, "exit") /\ lockfile' = NoFile
                ELSE Goto(p, "rmstale") /\ UNCHANGED lockfile
  /\ RecordDenial(p)
  /\ UNCHANGED <<content, fd, seen, foreign, overlapped>>

\* Slip: a lock file without a pid counts as held.
ProbeHolderEmpty(p) ==
  /\ pc[p] = "probe"
  /\ \E found \in Found(p) :
       Goto(p, IF seen[p] = Empty \/ found THEN "refused" ELSE "rmstale")
  /\ RecordDenial(p)
  /\ UNCHANGED <<lockfile, content, fd, seen, foreign, overlapped>>

\* Slip: the instance waits until no process has the pid, instead of giving up.
ProbeHolderWaits(p) ==
  /\ pc[p] = "probe"
  /\ Found(p) = {FALSE}
  /\ Goto(p, "rmstale")
  /\ RecordDenial(p)
  /\ UNCHANGED <<lockfile, content, fd, seen, foreign, overlapped>>

\* kill -0: refuse when it succeeds; for whatever reason it fails, the lock
\* is taken for stale.
ProbeHolder(p) ==
  /\ pc[p] = "probe"
  /\ \E found \in Found(p) : Goto(p, IF found THEN "refused" ELSE "rmstale")
  /\ RecordDenial(p)
  /\ UNCHANGED <<lockfile, content, fd, seen, foreign, overlapped>>
\* rm -f "$LOCKFILE" of a lock whose creator is gone
RemoveStale(p) ==
  /\ pc[p] = "rmstale"
  /\ lockfile' = NoFile
  /\ Goto(p, "create")
  /\ UNCHANGED <<content, fd, seen, foreign, overlapped, denied>>

\* echo $$ >"$LOCKFILE", first half: open, creating or truncating the file
OpenLock(p) ==
  LET f == IF lockfile = NoFile THEN p ELSE lockfile
  IN /\ pc[p] = "create"
     /\ MayTouch(p, f)
     /\ lockfile' = f
     /\ fd' = [fd EXCEPT ![p] = f]
     /\ content' = [content EXCEPT ![f] = Empty]
     /\ Goto(p, "write")
     /\ UNCHANGED <<seen, foreign, overlapped, denied>>

\* || exit 1: the file is there by now, and is another user's.
OpenDenied(p) ==
  /\ pc[p] = "create"
  /\ lockfile # NoFile /\ ~MayTouch(p, lockfile)
  /\ Goto(p, "refused")
  /\ UNCHANGED <<lockfile, content, fd, seen, foreign, overlapped, denied>>

\* echo $$ >"$LOCKFILE", second half: write the pid into the opened file
WritePid(p) ==
  /\ pc[p] = "write"
  /\ content' = [content EXCEPT ![fd[p]] = p]
  /\ Goto(p, "run")
  /\ UNCHANGED <<lockfile, fd, seen, foreign, overlapped, denied>>

\* The conversion has come to a quit() of whatever status.
Finish(p) ==
  /\ pc[p] = "run"
  /\ Goto(p, "quit")
  /\ UNCHANGED <<lockfile, content, fd, seen, foreign, overlapped, denied>>

\* quit(): rm -f "$LOCKFILE", whoever's pid the file holds
RemoveLock(p) ==
  /\ pc[p] = "quit"
  /\ lockfile' = NoFile
  /\ Goto(p, "exit")
  /\ UNCHANGED <<content, fd, seen, foreign, overlapped, denied>>

\* exit $1: until then the pid is still alive
Exit(p) ==
  /\ pc[p] = "exit"
  /\ Goto(p, "done")
  /\ UNCHANGED <<lockfile, content, fd, seen, foreign, overlapped, denied>>

\* batch.sh's timeout, a shutdown or a power cut ends the instance: the
\* script traps no signal, so its lock file stays behind.
Kill(p) ==
  /\ Running(p)
  /\ Goto(p, "killed")
  /\ UNCHANGED <<lockfile, content, fd, seen, foreign, overlapped, denied>>

\* The pid of an ended instance is given to an unrelated process ...
ReusePid(p) ==
  /\ pc[p] \in Ended /\ p \notin foreign
  /\ foreign' = foreign \cup {p}
  /\ UNCHANGED <<pc, lockfile, content, fd, seen, overlapped, denied>>

\* ... which ends in its turn.
ReleasePid(p) ==
  /\ p \in foreign
  /\ foreign' = foreign \ {p}
  /\ UNCHANGED <<pc, lockfile, content, fd, seen, overlapped, denied>>

Step(p) ==
  \/ CheckExists(p) \/ CheckReadable(p) \/ ReadPid(p) \/ ProbeHolder(p)
  \/ RemoveStale(p) \/ OpenLock(p) \/ OpenDenied(p) \/ WritePid(p)
  \/ Finish(p) \/ RemoveLock(p) \/ Exit(p)

Next == \E p \in Procs :
  Start(p) \/ Step(p) \/ Kill(p) \/ ReusePid(p) \/ ReleasePid(p)

Spec == Init /\ [][Next]_vars

\* The operating system runs every started instance; a conversion that hangs
\* is ended by batch.sh's timeout, which is what fairness on Finish stands for.
FairSpec == Spec /\ \A p \in Procs : WF_vars(Step(p))

-----------------------------------------------------------------------------
(* Properties.                                                             *)

TypeOK ==
  /\ pc \in [Procs -> Locations]
  /\ lockfile \in Procs \cup {NoFile}
  /\ content \in [Procs -> Procs \cup {Empty}]
  /\ fd \in [Procs -> Procs \cup {NoFile}]
  /\ seen \in [Procs -> Procs \cup {Empty}]
  /\ foreign \subseteq Procs
  /\ overlapped \in BOOLEAN
  /\ denied \in BOOLEAN
\* No two instances convert the recording at the same time: what the comment
\* above the lock promises ("prevent multiple instances").
MutualExclusion ==
  \A p, q \in Procs : pc[p] \in Holding /\ pc[q] \in Holding => p = q

\* Every start-up so far had the lock file to itself and could tell a running
\* instance from an ended one.
Undisturbed == ~overlapped /\ ~denied

\* The lock keeps that promise, through any number of crashes, stale locks and
\* reused pids, in all runs but two kinds: an instance was started while
\* another was between its first test of the lock file and the write of its
\* pid, or one probed a running instance that it may not signal.
ExclusionUnlessDisturbed == Undisturbed => MutualExclusion

\* A recording under conversion is marked as such: in the same runs, whoever
\* holds the lock finds its own pid in the file, so that a later instance is
\* refused and quit() removes no other instance's lock.
HolderIsRecorded ==
  Undisturbed => \A p \in Procs : pc[p] \in Holding =>
                    /\ lockfile # NoFile
                    /\ content[lockfile] = p

\* Nobody but the starting instance itself is active.
Alone(p) == \A q \in Procs \ {p} : pc[q] \in {"idle"} \cup Ended

\* A lock left by a killed instance does not bar the recording for ever: an
\* instance that starts alone, and stays alone, gets to convert, unless it is
\* killed or the stale pid now belongs to another process.
StaleLockRecovered ==
  \A p \in Procs :
    (pc[p] = "check" /\ Alone(p) /\ foreign = {})
      ~> (pc[p] \in {"run", "killed"} \/ ~Alone(p) \/ foreign # {})

\* Every instance comes to an end: no order of the commands of several
\* instances leaves one waiting.
EveryInstanceEnds ==
  \A p \in Procs : pc[p] = "check" ~> pc[p] \in Ended
=============================================================================
