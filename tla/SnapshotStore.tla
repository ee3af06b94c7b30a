--------------------------- MODULE SnapshotStore ---------------------------
(***************************************************************************)
(* The operational snapshot store (operations/snapshot_store.py) under the *)
(* processes that use it: collectors running run_scheduler and             *)
(* run_collection (operations/collector.py), and readers such as the       *)
(* operations API.  One action per file-system effect that another process *)
(* or a crash can observe.                                                 *)
(*                                                                         *)
(* A snapshot is a number, in the order publish and publish_failure name   *)
(* them; its directory is manifest[i] and, for datasets/, i \in data.  The *)
(* checksum in a pointer is modelled by what it detects: the manifest it   *)
(* names is missing or is not the complete one that was pointed to.  The   *)
(* lock is the mutex of module Mutex (CollectorLock says when it is one),  *)
(* and a killed holder's lock is free again.  A kill keeps what was        *)
(* written; loss of power is not modelled.                                 *)
(***************************************************************************)
EXTENDS Naturals, FiniteSets

CONSTANTS
  Collectors,   \* processes that run the collection scheduler
  Looping,      \* the ones started with --interval-seconds, not --once
  Readers,      \* processes that read the latest snapshot
  Savers,       \* backups, which hold the lock and only read the store
  MaxSnapshot,  \* bound: number of snapshot directories ever named
  MaxFaults,    \* bound: number of kills and failed writes
  Nobody        \* not a process

ASSUME StoreAssumption ==
  /\ Looping \subseteq Collectors
  /\ MaxSnapshot \in Nat /\ MaxFaults \in Nat
  /\ Nobody \notin Collectors \union Savers /\ Collectors \intersect Savers = {}

VARIABLES
  manifest,   \* of each snapshot directory; "absent": no directory,
              \* "none": no manifest.json in it, "torn": an incomplete one
  data,       \* the snapshots whose datasets/ files are all there
  staging,    \* the .snapshot-<id>.tmp directories
  latest,     \* latest.json: a snapshot, or 0 where there is no file
  attempt,    \* latest_attempt.json
  next,       \* the name the next snapshot gets
  horizon,    \* snapshots up to this one are older than the retention period
  holder,     \* who holds the collection lock
  pc,         \* of each collector
  sid,        \* the snapshot_id in publish or publish_failure, or 0
  cutoff,     \* prune: the horizon when it began
  protected,  \* prune: the snapshots the pointers named
  todo,       \* prune: directories listed and not visited
  victim,     \* prune: the directory it looks at or removes, or 0
  crowded,    \* prune: collectors whose rmtree has not been alone in its directory
  abandoned,  \* snapshots in which such an rmtree has raised (history)
  reader,     \* of each reader: where it is, what its pointer named, and
              \* whether the pointer has been replaced since
  faults      \* kills and failed writes so far

storeVars == <<manifest, data, staging, latest, attempt, next, horizon>>
pruneVars == <<cutoff, protected, todo, victim, crowded, abandoned>>
vars == <<storeVars, holder, pc, sid, pruneVars, reader, faults>>

Ids == 1..MaxSnapshot
Complete(i) == manifest[i] = "error" \/ (manifest[i] = "ok" /\ i \in data)
\* _read_pointer returns a manifest.
Readable(i) == manifest[i] \in {"ok", "error"}

Writing  == {"rename", "point_attempt", "point_latest", "record"}
Failing  == {"fail_open", "fail_write", "fail_point", "fail_record"}
Locked   == {"collect", "stage", "fail_mkdir", "unlock_ok", "unlock_failed"}
              \union Writing \union Failing
Pruning  == {"protect_latest", "protect_attempt", "sweep", "read", "rmtree",
              "pruned"}

TypeOK ==
  /\ manifest \in [Ids -> {"absent", "none", "torn", "ok", "error"}]
  /\ data \subseteq Ids /\ staging \subseteq Ids
  /\ latest \in 0..MaxSnapshot /\ attempt \in 0..MaxSnapshot
  /\ next \in 1..(MaxSnapshot + 1)
  /\ horizon \in 0..MaxSnapshot
  /\ holder \in Collectors \union Savers \union {Nobody}
  /\ pc \in [Collectors -> {"idle", "prune"} \union Locked \union Pruning]
  /\ sid \in [Collectors -> 0..MaxSnapshot]
  /\ cutoff \in [Collectors -> 0..MaxSnapshot]
  /\ protected \in [Collectors -> SUBSET Ids]
  /\ todo \in [Collectors -> SUBSET Ids]
  /\ victim \in [Collectors -> 0..MaxSnapshot]
  /\ crowded \subseteq Collectors /\ abandoned \subseteq Ids
  /\ reader \in [Readers -> [at : {"idle", "manifest", "datasets", "error"},
                             id : 0..MaxSnapshot, replaced : BOOLEAN]]
  /\ faults \in 0..MaxFaults
  /\ \A c \in Collectors : pc[c] \in Writing \union Failing => sid[c] \in Ids
  /\ \A c \in Collectors : pc[c] \in {"read", "rmtree"} => victim[c] \in Ids

NoReader == [at |-> "idle", id |-> 0, replaced |-> FALSE]

Init ==
  /\ manifest = [i \in Ids |-> "absent"]
  /\ data = {} /\ staging = {}
  /\ latest = 0 /\ attempt = 0 /\ next = 1 /\ horizon = 0
  /\ holder = Nobody
  /\ pc = [c \in Collectors |-> "idle"]
  /\ sid = [c \in Collectors |-> 0]
  /\ cutoff = [c \in Collectors |-> 0]
  /\ protected = [c \in Collectors |-> {}]
  /\ todo = [c \in Collectors |-> {}]
  /\ victim = [c \in Collectors |-> 0]
  /\ crowded = {} /\ abandoned = {}
  /\ reader = [r \in Readers |-> NoReader]
  /\ faults = 0

Goto(c, from, to) == pc[c] = from /\ pc' = [pc EXCEPT ![c] = to]
Fault == faults < MaxFaults /\ faults' = faults + 1

(***************************************************************************)
(* run_scheduler and run_collection: the lock and the sources              *)
(***************************************************************************)
\* collection_lock succeeds.
BeginRun(c) ==
  /\ holder = Nobody
  /\ next <= MaxSnapshot
  /\ Goto(c, "idle", "collect")
  /\ holder' = c
  /\ UNCHANGED <<storeVars, sid, pruneVars, reader, faults>>

\* RunLockError.  A loop swallows it and prunes all the same.
RunRefused(c) ==
  /\ holder # Nobody /\ c \in Looping
  /\ Goto(c, "idle", "prune")
  /\ UNCHANGED <<storeVars, holder, sid, pruneVars, reader, faults>>

\* collect_records and build_payloads return, or one of them raises.
Collect(c) ==
  /\ Goto(c, "collect", "stage") \/ Goto(c, "collect", "fail_mkdir")
  /\ UNCHANGED <<storeVars, holder, sid, pruneVars, reader, faults>>

(***************************************************************************)
(* publish                                                                 *)
(***************************************************************************)
\* The staging directory, its datasets and its manifest are written.
Stage(c) ==
  /\ next <= MaxSnapshot
  /\ Goto(c, "stage", "rename")
  /\ sid' = [sid EXCEPT ![c] = next]
  /\ next' = next + 1
  /\ staging' = staging \union {next}
  /\ UNCHANGED <<manifest, data, latest, attempt, horizon, holder, pruneVars, reader, faults>>

\* os.replace(staging, final)
Rename(c) ==
  /\ Goto(c, "rename", "point_attempt")
  /\ manifest' = [manifest EXCEPT ![sid[c]] = "ok"]
  /\ data' = data \union {sid[c]}
  /\ staging' = staging \ {sid[c]}
  /\ UNCHANGED <<latest, attempt, next, horizon, holder, sid, pruneVars, reader, faults>>

\* _write_pointer(latest_attempt_path): a temporary file and os.replace
PointAttempt(c) ==
  /\ Goto(c, "point_attempt", "point_latest")
  /\ attempt' = sid[c]
  /\ UNCHANGED <<manifest, data, staging, latest, next, horizon, holder, sid,
                 pruneVars, reader, faults>>

\* Readers that are between the pointer and what it names.
Replaced(old, new) ==
  [r \in Readers |-> IF reader[r].at \in {"manifest", "datasets"} /\ old # new
                     THEN [reader[r] EXCEPT !.replaced = TRUE] ELSE reader[r]]

\* _write_pointer(latest_path)
PointLatest(c) ==
  /\ Goto(c, "point_latest", "record")
  /\ latest' = sid[c]
  /\ reader' = Replaced(latest, sid[c])
  /\ UNCHANGED <<manifest, data, staging, attempt, next, horizon, holder, sid, pruneVars, faults>>

\* record_run writes the run summary and the run log.
RecordRun(c) ==
  /\ Goto(c, "record", "unlock_ok")
  /\ sid' = [sid EXCEPT ![c] = 0]
  /\ UNCHANGED <<storeVars, holder, pruneVars, reader, faults>>

\* An exception in publish or in the record_run after it: the staging directory
\* is removed (it is gone once renamed) and publish_failure follows.
PublishFails(c) ==
  /\ Fault
  /\ pc[c] \in {"stage"} \union Writing
  /\ pc' = [pc EXCEPT ![c] = "fail_mkdir"]
  /\ staging' = staging \ {sid[c]}
  /\ sid' = [sid EXCEPT ![c] = 0]
  /\ UNCHANGED <<manifest, data, latest, attempt, next, horizon, holder, pruneVars, reader>>

(***************************************************************************)
(* publish_failure                                                         *)
(***************************************************************************)
FailMkdir(c) ==
  /\ next <= MaxSnapshot
  /\ Goto(c, "fail_mkdir", "fail_open")
  /\ sid' = [sid EXCEPT ![c] = next]
  /\ next' = next + 1
  /\ manifest' = [manifest EXCEPT ![next] = "none"]
  /\ UNCHANGED <<data, staging, latest, attempt, horizon, holder, pruneVars, reader, faults>>

\* Mutant: the attempt pointer is written before the manifest is.
FailOpenPointsFirst(c) ==
  /\ Goto(c, "fail_open", "fail_write")
  /\ manifest' = [manifest EXCEPT ![sid[c]] = "torn"]
  /\ attempt' = sid[c]
  /\ UNCHANGED <<data, staging, latest, next, horizon, holder, sid, pruneVars, reader, faults>>

\* open("wb") on the manifest in its final place
FailOpen(c) ==
  /\ Goto(c, "fail_open", "fail_write")
  /\ manifest' = [manifest EXCEPT ![sid[c]] = "torn"]
  /\ UNCHANGED <<data, staging, latest, attempt, next, horizon, holder, sid,
                 pruneVars, reader, faults>>

FailWrite(c) ==
  /\ Goto(c, "fail_write", "fail_point")
  /\ manifest' = [manifest EXCEPT ![sid[c]] = "error"]
  /\ UNCHANGED <<data, staging, latest, attempt, next, horizon, holder, sid,
                 pruneVars, reader, faults>>

\* Mutant: a failure replaces latest.json too.
FailPointBoth(c) ==
  /\ Goto(c, "fail_point", "fail_record")
  /\ attempt' = sid[c] /\ latest' = sid[c]
  /\ UNCHANGED <<manifest, data, staging, next, horizon, holder, sid, pruneVars, reader, faults>>

FailPoint(c) ==
  /\ Goto(c, "fail_point", "fail_record")
  /\ attempt' = sid[c]
  /\ UNCHANGED <<manifest, data, staging, latest, next, horizon, holder, sid,
                 pruneVars, reader, faults>>

\* record_run of the failed run, whatever it does: the exception is raised again.
FailRecord(c) ==
  /\ Goto(c, "fail_record", "unlock_failed")
  /\ sid' = [sid EXCEPT ![c] = 0]
  /\ UNCHANGED <<storeVars, holder, pruneVars, reader, faults>>

\* publish_failure raises half-way and leaves what it has written.
FailFails(c) ==
  /\ Fault
  /\ pc[c] \in {"fail_mkdir"} \union Failing
  /\ pc' = [pc EXCEPT ![c] = "unlock_failed"]
  /\ sid' = [sid EXCEPT ![c] = 0]
  /\ UNCHANGED <<storeVars, holder, pruneVars, reader>>

\* The lock is released; a failed run prunes only in a loop.
Unlock(c) ==
  /\ \/ Goto(c, "unlock_ok", "prune")
     \/ Goto(c, "unlock_failed", IF c \in Looping THEN "prune" ELSE "idle")
  /\ holder' = Nobody
  /\ UNCHANGED <<storeVars, sid, pruneVars, reader, faults>>

(***************************************************************************)
(* prune, which does not take the lock                                     *)
(***************************************************************************)
NoPrune(c) ==
  /\ cutoff' = [cutoff EXCEPT ![c] = 0]
  /\ protected' = [protected EXCEPT ![c] = {}]
  /\ todo' = [todo EXCEPT ![c] = {}]
  /\ victim' = [victim EXCEPT ![c] = 0]
  /\ crowded' = crowded \ {c}

\* `now' is read before the pointers are.
PruneBegin(c) ==
  /\ Goto(c, "prune", "protect_latest")
  /\ cutoff' = [cutoff EXCEPT ![c] = horizon]
  /\ UNCHANGED <<storeVars, holder, sid, protected, todo, victim, crowded,
                 abandoned, reader, faults>>

Protects(i) == IF i = 0 THEN {} ELSE {i}

\* Mutant: only the latest attempt is protected.
ProtectLatestSkipped(c) ==
  /\ Goto(c, "protect_latest", "protect_attempt")
  /\ UNCHANGED <<storeVars, holder, sid, pruneVars, reader, faults>>

ProtectLatest(c) ==
  /\ Goto(c, "protect_latest", "protect_attempt")
  /\ latest # 0 => Readable(latest)
  /\ protected' = [protected EXCEPT ![c] = Protects(latest)]
  /\ UNCHANGED <<storeVars, holder, sid, cutoff, todo, victim, crowded,
                 abandoned, reader, faults>>

ProtectAttempt(c) ==
  /\ Goto(c, "protect_attempt", "sweep")
  /\ attempt # 0 => Readable(attempt)
  /\ protected' = [protected EXCEPT ![c] = @ \union Protects(attempt)]
  /\ todo' = [todo EXCEPT ![c] = {i \in Ids : manifest[i] # "absent"}]
  /\ UNCHANGED <<storeVars, holder, sid, cutoff, victim, crowded, abandoned, reader, faults>>

\* A directory is passed over: protected, gone, or without a manifest.
Skip(c, i) ==
  /\ pc[c] = "sweep" /\ i \in todo[c]
  /\ i \in protected[c] \/ manifest[i] \in {"absent", "none"}
  /\ todo' = [todo EXCEPT ![c] = @ \ {i}]
  /\ UNCHANGED <<storeVars, holder, pc, sid, cutoff, protected, victim, crowded, abandoned,
                 reader, faults>>

Looks(c, i) ==
  /\ manifest[i] \notin {"absent", "none"}
  /\ Goto(c, "sweep", "read")
  /\ todo' = [todo EXCEPT ![c] = @ \ {i}]
  /\ victim' = [victim EXCEPT ![c] = i]
  /\ UNCHANGED <<storeVars, holder, sid, cutoff, protected, crowded, abandoned, reader, faults>>

\* Mutant: protection is not looked at.
VisitAny(c, i) == i \in todo[c] /\ Looks(c, i)

\* manifest_path.exists()
Visit(c, i) == i \in todo[c] \ protected[c] /\ Looks(c, i)

Stays(c) ==
  /\ Goto(c, "read", "sweep")
  /\ victim' = [victim EXCEPT ![c] = 0]
  /\ UNCHANGED <<storeVars, holder, sid, cutoff, protected, todo, crowded, abandoned, reader,
                 faults>>

\* Mutant: off by one at the cutoff.
KeepAtCutoff(c) ==
  /\ pc[c] = "read" /\ Readable(victim[c]) /\ victim[c] >= cutoff[c]
  /\ Stays(c)

\* The manifest is read, and the snapshot is not expired.
Keep(c) ==
  /\ pc[c] = "read" /\ Readable(victim[c]) /\ victim[c] > cutoff[c]
  /\ Stays(c)

\* The pruners that are removing a directory.
RemoversOf(i) == {d \in Collectors : pc[d] = "rmtree" /\ victim[d] = i}

\* completed_at < cutoff: shutil.rmtree begins.
Expire(c) ==
  /\ Goto(c, "read", "rmtree")
  /\ Readable(victim[c]) /\ victim[c] <= cutoff[c]
  /\ crowded' = IF RemoversOf(victim[c]) = {} THEN crowded
                ELSE crowded \union {c} \union RemoversOf(victim[c])
  /\ UNCHANGED <<storeVars, holder, sid, cutoff, protected, todo, victim, abandoned, reader,
                 faults>>

\* rmtree unlinks the files in whatever order the directory lists them.
RmtreeManifest(c) ==
  /\ pc[c] = "rmtree" /\ Readable(victim[c])
  /\ manifest' = [manifest EXCEPT ![victim[c]] = "none"]
  /\ UNCHANGED <<data, staging, latest, attempt, next, horizon, holder, pc, sid,
                 pruneVars, reader, faults>>

RmtreeData(c) ==
  /\ pc[c] = "rmtree" /\ victim[c] \in data
  /\ data' = data \ {victim[c]}
  /\ UNCHANGED <<manifest, staging, latest, attempt, next, horizon, holder, pc, sid,
                 pruneVars, reader, faults>>

\* Mutant: the emptied directory stays.
RmtreeFilesOnly(c) ==
  /\ Goto(c, "rmtree", "sweep")
  /\ manifest[victim[c]] = "none" /\ victim[c] \notin data
  /\ victim' = [victim EXCEPT ![c] = 0]
  /\ crowded' = crowded \ {c}
  /\ UNCHANGED <<storeVars, holder, sid, cutoff, protected, todo, abandoned, reader, faults>>

RmtreeDirectory(c) ==
  /\ Goto(c, "rmtree", "sweep")
  /\ manifest[victim[c]] = "none" /\ victim[c] \notin data
  /\ manifest' = [manifest EXCEPT ![victim[c]] = "absent"]
  /\ victim' = [victim EXCEPT ![c] = 0]
  /\ crowded' = crowded \ {c}
  /\ UNCHANGED <<data, staging, latest, attempt, next, horizon, holder, sid, cutoff, protected,
                 todo, abandoned, reader, faults>>

\* prune raises, outside run_scheduler's try, and the process ends: a pointer names no
\* readable manifest, or the manifest that was there a moment ago is gone or does not
\* parse, or another pruner removes the directory under rmtree.  Python before 3.13
\* raises for every missing entry, so that both of two pruners can give up.
PruneRaises(c) ==
  /\ \/ pc[c] = "protect_latest" /\ latest # 0 /\ ~Readable(latest)
     \/ pc[c] = "protect_attempt" /\ attempt # 0 /\ ~Readable(attempt)
     \/ pc[c] = "read" /\ ~Readable(victim[c])
     \/ pc[c] = "rmtree" /\ (manifest[victim[c]] = "absent" \/ c \in crowded)
  /\ pc' = [pc EXCEPT ![c] = "idle"]
  /\ abandoned' = IF pc[c] = "rmtree" THEN abandoned \union {victim[c]} ELSE abandoned
  /\ NoPrune(c)
  /\ UNCHANGED <<storeVars, holder, sid, reader, faults>>

PruneReturns(c) ==
  /\ Goto(c, "sweep", "pruned") /\ todo[c] = {}
  /\ UNCHANGED <<storeVars, holder, sid, pruneVars, reader, faults>>

\* time.sleep(interval_seconds), or the process exits until the next timer.
EndRun(c) ==
  /\ Goto(c, "pruned", "idle")
  /\ NoPrune(c)
  /\ UNCHANGED <<storeVars, holder, sid, abandoned, reader, faults>>

(***************************************************************************)
(* A reader: read_latest, then verify_snapshot                             *)
(***************************************************************************)
ReadPointer(r) ==
  /\ reader[r].at \in {"idle", "error"} /\ latest # 0
  /\ reader' = [reader EXCEPT ![r] = [at |-> "manifest", id |-> latest, replaced |-> FALSE]]
  /\ UNCHANGED <<storeVars, holder, pc, sid, pruneVars, faults>>

Unreadable(r) == [at |-> "error", id |-> 0, replaced |-> reader[r].replaced]

\* The manifest is there with the checksum the pointer gave, or storage_error.
ReadManifest(r) ==
  /\ reader[r].at = "manifest"
  /\ reader' = [reader EXCEPT ![r] =
                  IF Readable(reader[r].id) THEN [@ EXCEPT !.at = "datasets"]
                  ELSE Unreadable(r)]
  /\ UNCHANGED <<storeVars, holder, pc, sid, pruneVars, faults>>

VerifyDatasets(r) ==
  /\ reader[r].at = "datasets"
  /\ reader' = [reader EXCEPT ![r] =
                  IF reader[r].id \in data THEN NoReader
                  ELSE Unreadable(r)]
  /\ UNCHANGED <<storeVars, holder, pc, sid, pruneVars, faults>>

(***************************************************************************)
(* The environment                                                         *)
(***************************************************************************)
Kill(c) ==
  /\ Fault
  /\ pc[c] # "idle"
  /\ pc' = [pc EXCEPT ![c] = "idle"]
  /\ sid' = [sid EXCEPT ![c] = 0]
  /\ holder' = IF holder = c THEN Nobody ELSE holder
  /\ NoPrune(c)
  /\ UNCHANGED <<storeVars, abandoned, reader>>

\* What a backup does to the others: it takes the lock, and releases it when it is done,
\* gives up or is killed.  Module Backup has the whole of it.
BackupLocks(s) ==
  /\ holder = Nobody /\ holder' = s
  /\ UNCHANGED <<storeVars, pc, sid, pruneVars, reader, faults>>

BackupEnds(s) ==
  /\ holder = s /\ holder' = Nobody
  /\ UNCHANGED <<storeVars, pc, sid, pruneVars, reader, faults>>

BackupFails(s) ==
  /\ Fault
  /\ holder' = IF holder = s THEN Nobody ELSE holder
  /\ UNCHANGED <<storeVars, pc, sid, pruneVars, reader>>

\* The next snapshot passes the retention period, a day or more, which no run
\* still writing that snapshot lasts.
Expires ==
  /\ horizon + 1 < next
  /\ \A c \in Collectors : sid[c] # horizon + 1
  /\ horizon' = horizon + 1
  /\ UNCHANGED <<manifest, data, staging, latest, attempt, next, holder, pc, sid,
                 pruneVars, reader, faults>>

Publish(c) == Stage(c) \/ Rename(c) \/ PointAttempt(c) \/ PointLatest(c) \/ RecordRun(c)
PublishFailure(c) == FailMkdir(c) \/ FailOpen(c) \/ FailWrite(c) \/ FailPoint(c) \/ FailRecord(c)
Prune(c) ==
  \/ PruneBegin(c) \/ ProtectLatest(c) \/ ProtectAttempt(c)
  \/ \E i \in Ids : Skip(c, i) \/ Visit(c, i)
  \/ Keep(c) \/ Expire(c)
  \/ RmtreeManifest(c) \/ RmtreeData(c) \/ RmtreeDirectory(c)
  \/ PruneRaises(c) \/ PruneReturns(c) \/ EndRun(c)
Run(c) ==
  \/ BeginRun(c) \/ RunRefused(c) \/ Collect(c) \/ Publish(c) \/ PublishFailure(c)
  \/ PublishFails(c) \/ FailFails(c) \/ Unlock(c) \/ Prune(c) \/ Kill(c)
Read(r) == ReadPointer(r) \/ ReadManifest(r) \/ VerifyDatasets(r)

Save(s) == BackupLocks(s) \/ BackupEnds(s) \/ BackupFails(s)

StoreNext == Expires \/ (\E c \in Collectors : Run(c)) \/ (\E r \in Readers : Read(r))
Next == StoreNext \/ (\E s \in Savers : Save(s))

Spec == Init /\ [][Next]_vars

(***************************************************************************)
(* Properties                                                              *)
(***************************************************************************)
\* latest.json always names a complete successful snapshot, whatever a kill, a
\* failed write, a pruner running beside the collection or the age of that
\* snapshot does ("The latest readable snapshot ... always protected").
LatestReadable == latest # 0 => manifest[latest] = "ok" /\ latest \in data

\* latest_attempt.json always names a complete manifest, of a success or of a
\* failure, although publish_failure writes it in its final place.
AttemptReadable == attempt # 0 => Complete(attempt)

\* The attempt pointer is never behind the latest one, so a reader that compares
\* the two never takes an old failure for a newer one.
AttemptCoversLatest == latest <= attempt

\* A read of the latest snapshot fails (storage_error) only where the pointer it
\* followed has been replaced in the meantime: trying again succeeds.
ReadFailsOnlyIfReplaced ==
  \A r \in Readers : reader[r].at = "error" => reader[r].replaced

\* A snapshot that is removed, or is being removed, or in which a prune has raised because
\* another was removing it too.
Removing(i) == RemoversOf(i) # {}
Gone(i) == manifest[i] = "absent" \/ Removing(i) \/ i \in abandoned

\* "Retention removes expired unreferenced snapshots": when prune returns, every
\* snapshot that was past the retention period and not pointed to is gone, or another
\* pruner is removing it or has raised over it because it was not alone, as long as
\* nothing was killed and no write has failed.
RetentionUnlessFault ==
  faults = 0 =>
    \A c \in Collectors : pc[c] = "pruned" =>
      \A i \in 1..cutoff[c] \ protected[c] : Gone(i)

\* Directories that are not a complete snapshot and that nobody is writing or removing.
Leftovers ==
  {i \in Ids : /\ manifest[i] # "absent" /\ ~Complete(i)
               /\ ~Removing(i) /\ \A c \in Collectors : sid[c] # i}
StagingLeftovers == {i \in staging : \A c \in Collectors : sid[c] # i}

\* "prune skips it for ever" bounds the damage and does not undo it: every kill or
\* failed write leaves one incomplete directory at most, final or staging, and nothing
\* else does, except two prunes that give up over one snapshot.
LeftoversBounded ==
  Cardinality(Leftovers \ abandoned) + Cardinality(StagingLeftovers) <= faults

(***************************************************************************)
(* The inductive invariant                                                 *)
(***************************************************************************)
\* A collector is between taking and releasing the lock iff it holds it.
LockInv == \A c \in Collectors : pc[c] \in Locked <=> holder = c

\* Everything in use has been named, and directories not yet named are absent.
NamedInv ==
  /\ horizon < next /\ latest < next /\ attempt < next
  /\ \A i \in Ids : i >= next => manifest[i] = "absent" /\ i \notin data

\* What the writer has on disk at each of its steps: its own snapshot is newer
\* than the attempt pointer until it becomes the attempt, and not expired.
WriterInv ==
  \A c \in Collectors :
    /\ sid[c] # 0 => pc[c] \in Writing \union Failing /\ horizon < sid[c] /\ sid[c] < next
    /\ pc[c] \in {"rename", "point_attempt", "fail_open", "fail_write", "fail_point"}
         => attempt < sid[c]
    /\ pc[c] \in {"point_attempt", "point_latest"}
         => manifest[sid[c]] = "ok" /\ sid[c] \in data
    /\ pc[c] = "point_latest" => attempt = sid[c]
    /\ pc[c] = "fail_point" => manifest[sid[c]] = "error"

\* A snapshot that a pruner must not touch: it was protected, or is too young.
Safe(c, i) == i = 0 \/ i \in protected[c] \/ i > cutoff[c]

PrunerInv ==
  \A c \in Collectors :
    /\ cutoff[c] <= horizon
    /\ pc[c] = "protect_attempt" => Safe(c, latest)
    /\ pc[c] \in {"sweep", "read", "rmtree"} => Safe(c, latest) /\ Safe(c, attempt)
    /\ pc[c] \in {"read", "rmtree"} => victim[c] \notin protected[c]
    /\ pc[c] = "rmtree" => victim[c] <= cutoff[c]

StoreInv ==
  /\ TypeOK /\ LockInv /\ NamedInv /\ WriterInv /\ PrunerInv
  /\ LatestReadable /\ AttemptReadable /\ AttemptCoversLatest

\* A reader looks at what latest.json names, or the pointer has been replaced.
ReaderInv ==
  \A r \in Readers :
    reader[r].at \in {"manifest", "datasets"} =>
      reader[r].id # 0 /\ (reader[r].id = latest \/ reader[r].replaced)

Opening(i) == \E c \in Collectors : pc[c] = "fail_open" /\ sid[c] = i

\* Until something fails, a directory without a manifest is being removed or being
\* written, or was given up by two, and what a pruner has to remove it has still to visit
\* or to read, or another removes it, or it is gone.
VictimInv == \A c \in Collectors : victim[c] # 0 <=> pc[c] \in {"read", "rmtree"}
BareInv == \A i \in Ids : manifest[i] = "none" => Gone(i) \/ Opening(i)
Handled(c, i) ==
  \/ Gone(i)
  \/ i \in todo[c] /\ pc[c] # "pruned"
  \/ pc[c] = "read" /\ victim[c] = i
SweepInv ==
  \A c \in Collectors : pc[c] \in {"sweep", "read", "rmtree", "pruned"} =>
    \A i \in 1..cutoff[c] \ protected[c] : Handled(c, i)

RetentionInv == VictimInv /\ (faults = 0 => BareInv /\ SweepInv)

IInv == StoreInv /\ ReaderInv /\ RetentionInv /\ ReadFailsOnlyIfReplaced

\* Neither pointer ever goes back to an earlier snapshot.
NeverRegress == [][latest <= latest' /\ attempt <= attempt']_vars

\* The pointers implement AttemptLog: `latest' moves only to the newest attempt,
\* and only when that one succeeded.
Log == INSTANCE AttemptLog
         WITH outcome <- IF attempt = 0 THEN "none" ELSE manifest[attempt]
ImplementsAttemptLog == Log!Spec
=============================================================================
