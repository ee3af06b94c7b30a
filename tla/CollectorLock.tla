--------------------------- MODULE CollectorLock ---------------------------
(***************************************************************************)
(* The lock file protocol of SnapshotStore.collection_lock and             *)
(* _remove_stale_lock (operations/snapshot_store.py), one action per       *)
(* system call.  A process is named by its pid, and a pid is used once:    *)
(* a pid handed to another program while the file survives is not          *)
(* modelled.  `.collector.lock' is the record lockFile: the process whose  *)
(* open() made it, the pid it reads back (NoPid before os.write), and      *)
(* whether its mtime is more than 60 seconds ago.                          *)
(***************************************************************************)
CONSTANTS
  Procs,      \* the pids of every process that ever asks for the lock
  Transient,  \* the ones that may exit after a run, or be killed anywhere
  Suspendable,\* the ones that may stall a minute between two system calls
  NoPid       \* no pid: an empty payload, or no file

ASSUME ProcsAssumption ==
  Transient \subseteq Procs /\ Suspendable \subseteq Procs /\ NoPid \notin Procs

VARIABLES
  lockFile,  \* the file at lock_path, or NoFile
  pc,        \* where each process is in collection_lock
  pid,       \* the local `pid' of _remove_stale_lock; once the verdict is
             \* "stale" (history), the process whose file was judged
  misjudged  \* history: a contender has unlinked the file of a live owner

vars == <<lockFile, pc, pid, misjudged>>

NoFile == [maker |-> NoPid, pid |-> NoPid, aged |-> FALSE]
Exists == lockFile # NoFile

Locations == {"idle", "open", "opened", "held", "release",
              "inspect", "stat", "probe", "unlink", "dead"}

\* A process between a successful open() and the end of its finally block.
Owners == {p \in Procs : pc[p] \in {"opened", "held", "release"}}

TypeOK ==
  /\ lockFile \in [maker : Procs, pid : Procs \union {NoPid}, aged : BOOLEAN]
                    \union {NoFile}
  /\ pc \in [Procs -> Locations]
  /\ pid \in [Procs -> Procs \union {NoPid}]
  /\ misjudged \in BOOLEAN
  /\ \A p \in Procs : pc[p] \in {"probe", "unlink"} => pid[p] \in Procs

Init ==
  /\ lockFile = NoFile
  /\ pc = [p \in Procs |-> "idle"]
  /\ pid = [p \in Procs |-> NoPid]
  /\ misjudged = FALSE

Goto(p, from, to) == pc[p] = from /\ pc' = [pc EXCEPT ![p] = to]

(***************************************************************************)
(* collection_lock                                                         *)
(***************************************************************************)
\* A run begins: the timer, the scheduler loop or a backup retry.
Start(p) == Goto(p, "idle", "open") /\ UNCHANGED <<lockFile, pid, misjudged>>

\* Mutant: os.open without O_EXCL.
OpenShared(p) ==
  /\ Goto(p, "open", "opened")
  /\ lockFile' = [maker |-> p, pid |-> NoPid, aged |-> FALSE]
  /\ UNCHANGED <<pid, misjudged>>

\* os.open(O_CREAT | O_EXCL) succeeds and leaves an empty file.
Open(p) ==
  /\ ~Exists
  /\ Goto(p, "open", "opened")
  /\ lockFile' = [maker |-> p, pid |-> NoPid, aged |-> FALSE]
  /\ UNCHANGED <<pid, misjudged>>

\* FileExistsError.
OpenFails(p) ==
  /\ Exists
  /\ Goto(p, "open", "inspect")
  /\ UNCHANGED <<lockFile, pid, misjudged>>

\* os.write through the descriptor: it reaches the file p made, which may no
\* longer be the one at lock_path.
Written(p) ==
  IF lockFile.maker = p THEN [lockFile EXCEPT !.pid = p, !.aged = FALSE] ELSE lockFile

WritePid(p) ==
  /\ Goto(p, "opened", "held")
  /\ lockFile' = Written(p)
  /\ UNCHANGED <<pid, misjudged>>

\* os.write raises, or what follows it does (os.fsync, os.close) and the pid is in the
\* file: straight to the finally block.
WriteFails(p) ==
  /\ Goto(p, "opened", "release")
  /\ lockFile' \in {lockFile, Written(p)}
  /\ UNCHANGED <<pid, misjudged>>

\* The body of the with statement returns or raises.
LeaveBody(p) == Goto(p, "held", "release") /\ UNCHANGED <<lockFile, pid, misjudged>>

\* finally: unlink(missing_ok=True), whatever file is at lock_path by then.
Release(p) ==
  /\ Goto(p, "release", "idle")
  /\ lockFile' = NoFile
  /\ UNCHANGED <<pid, misjudged>>

(***************************************************************************)
(* _remove_stale_lock; refusing is RunLockError, which ends the attempt    *)
(***************************************************************************)
ReadGone(p) ==
  /\ ~Exists
  /\ Goto(p, "inspect", "open")
  /\ UNCHANGED <<lockFile, pid, misjudged>>

ReadPid(p) ==
  /\ Exists /\ lockFile.pid # NoPid
  /\ Goto(p, "inspect", "probe")
  /\ pid' = [pid EXCEPT ![p] = lockFile.pid]
  /\ UNCHANGED <<lockFile, misjudged>>

\* The payload does not parse: its age decides.
ReadUnreadable(p) ==
  /\ Exists /\ lockFile.pid = NoPid
  /\ Goto(p, "inspect", "stat")
  /\ UNCHANGED <<lockFile, pid, misjudged>>

StatGone(p) ==
  /\ ~Exists
  /\ Goto(p, "stat", "open")
  /\ UNCHANGED <<lockFile, pid, misjudged>>

\* Mutant: an unreadable payload is stale whatever its age.
StatFreshIsStale(p) ==
  /\ Exists
  /\ Goto(p, "stat", "unlink")
  /\ pid' = [pid EXCEPT ![p] = lockFile.maker]
  /\ UNCHANGED <<lockFile, misjudged>>

StatFresh(p) ==
  /\ Exists /\ ~lockFile.aged
  /\ Goto(p, "stat", "idle")
  /\ UNCHANGED <<lockFile, pid, misjudged>>

StatAged(p) ==
  /\ Exists /\ lockFile.aged
  /\ Goto(p, "stat", "unlink")
  /\ pid' = [pid EXCEPT ![p] = lockFile.maker]
  /\ UNCHANGED <<lockFile, misjudged>>

\* os.kill(pid, 0) succeeds, or PermissionError.
ProbeAlive(p) ==
  /\ Goto(p, "probe", "idle")
  /\ pc[pid[p]] # "dead"
  /\ pid' = [pid EXCEPT ![p] = NoPid]
  /\ UNCHANGED <<lockFile, misjudged>>

\* Mutant: ProcessLookupError is treated like PermissionError.
ProbeDeadRefuses(p) ==
  /\ Goto(p, "probe", "idle")
  /\ pid' = [pid EXCEPT ![p] = NoPid]
  /\ UNCHANGED <<lockFile, misjudged>>

\* ProcessLookupError.
ProbeDead(p) ==
  /\ Goto(p, "probe", "unlink")
  /\ pc[pid[p]] = "dead"
  /\ UNCHANGED <<lockFile, pid, misjudged>>

\* unlink(missing_ok=True) by path, then `continue' to open() again.
UnlinkStale(p) ==
  /\ Goto(p, "unlink", "open")
  /\ lockFile' = NoFile
  /\ misjudged' = (misjudged \/ lockFile.maker \in Owners)
  /\ pid' = [pid EXCEPT ![p] = NoPid]

(***************************************************************************)
(* The environment                                                         *)
(***************************************************************************)
Exit(p) ==
  /\ p \in Transient
  /\ Goto(p, "idle", "dead")
  /\ UNCHANGED <<lockFile, pid, misjudged>>

Crash(p) ==
  /\ p \in Transient
  /\ pc[p] \notin {"idle", "dead"}
  /\ pc' = [pc EXCEPT ![p] = "dead"]
  /\ pid' = [pid EXCEPT ![p] = NoPid]
  /\ UNCHANGED <<lockFile, misjudged>>

\* A process with an empty file of its own, or between its look at an empty
\* payload and its look at the mtime.
MidStep(p) ==
  \/ p \in Owners /\ lockFile.maker = p /\ lockFile.pid = NoPid
  \/ pc[p] = "stat"

\* A minute passes, which a process that is not suspended does not spend there.
Age ==
  /\ Exists /\ ~lockFile.aged
  /\ \A p \in Procs \ Suspendable : ~MidStep(p)
  /\ lockFile' = [lockFile EXCEPT !.aged = TRUE]
  /\ UNCHANGED <<pc, pid, misjudged>>

\* What a process does as long as it lives.
Step(p) ==
  \/ Start(p) \/ Open(p) \/ OpenFails(p) \/ WritePid(p)
  \/ LeaveBody(p) \/ Release(p)
  \/ ReadGone(p) \/ ReadPid(p) \/ ReadUnreadable(p)
  \/ StatGone(p) \/ StatFresh(p) \/ StatAged(p)
  \/ ProbeAlive(p) \/ ProbeDead(p) \/ UnlinkStale(p)

Next == Age \/ \E p \in Procs : Step(p) \/ WriteFails(p) \/ Exit(p) \/ Crash(p)

\* A process that has not died keeps running (the timers restart it), and time
\* passes however often the file is looked at.  Nothing makes a write fail, a
\* process exit or a crash happen.
Fairness == SF_vars(Age) /\ \A p \in Procs : WF_vars(Step(p))

Spec == Init /\ [][Next]_vars /\ Fairness

(***************************************************************************)
(* Properties                                                              *)
(***************************************************************************)
\* "Only one collector may write a store at a time. A process lock rejects
\* overlapping runs" (docs/operational_use.md:103): never two processes in the
\* body of collection_lock.
MutualExclusion == \A p, q \in Procs : pc[p] = "held" /\ pc[q] = "held" => p = q

\* _remove_stale_lock decides to unlink only about a file whose maker has died,
\* by its pid or by the age of an empty payload: a live owner's file is never
\* condemned for its own content, unless one of the two stalls for a minute.
\* So without a death or a stall nobody unlinks the file of another.
VerdictSound ==
  \A p \in Procs : pc[p] = "unlink" =>
    pc[pid[p]] = "dead" \/ {p, pid[p]} \intersect Suspendable # {}

\* Two holders have one cause: a verdict reached about one file and carried out
\* by path on its successor.  Until that happens there is at most one owner, and
\* the file at lock_path is the owner's.
ExclusiveUnlessMisjudged ==
  ~misjudged => \A p \in Owners : lockFile.maker = p

\* "automatically recovers when the recorded process no longer exists": the file
\* a dead process left behind, empty or not, does not stay.
LeftBehind(p) == Exists /\ lockFile.maker = p /\ pc[p] = "dead"
LockRecovered == \A p \in Procs : LeftBehind(p) ~> ~LeftBehind(p)

\* Up to a misjudgement collection_lock implements the abstract mutex, whoever
\* dies or stalls in between.
holder == IF Owners = {} THEN NoPid ELSE CHOOSE p \in Owners : TRUE
M == INSTANCE Mutex WITH Nobody <- NoPid
ImplementsMutex == M!Init /\ [][misjudged' \/ M!Next]_<<misjudged, holder>>

\* The file at lock_path belongs to an owner, or to a process that died with it.
FileOwned == Exists => lockFile.maker \in Owners \/ pc[lockFile.maker] = "dead"

\* An empty file is only ever aged when its maker is dead or stalls.
EmptyAgesAlone ==
  Exists /\ lockFile.aged /\ lockFile.pid = NoPid =>
    pc[lockFile.maker] = "dead" \/ lockFile.maker \in Suspendable

\* The file does not age between the two looks of a process that does not stall: an
\* aged file at the second one is the file the first one found empty.
StatSawAged ==
  \A p \in Procs \ Suspendable :
    pc[p] = "stat" /\ Exists /\ lockFile.aged => lockFile.pid = NoPid

\* What holds in every state, whoever dies or stalls.
Safety == TypeOK /\ VerdictSound /\ FileOwned /\ EmptyAgesAlone /\ StatSawAged

\* The inductive invariant.
IInv == Safety /\ ExclusiveUnlessMisjudged
=============================================================================
