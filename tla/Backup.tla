------------------------------- MODULE Backup -------------------------------
(***************************************************************************)
(* Backups of the snapshot store (operations/backup.py) beside the         *)
(* collectors that go on using it.  create_backup holds the collection     *)
(* lock; prune, which removes snapshot directories, does not.              *)
(*                                                                         *)
(* An archive is a store of its own: the pointers, the manifests and the   *)
(* datasets tarfile.add found.  Backups are numbered in order of creation; *)
(* one backup process runs at a time (a oneshot systemd unit).  Checksums  *)
(* detect what they compare: an archive that is not the one its sidecar    *)
(* describes.  Member paths and types are not modelled.                    *)
(***************************************************************************)
EXTENDS SnapshotStore, FiniteSetsExt

CONSTANTS
  Saver,         \* the backup process, of the Savers that the store knows
  MaxBackups,    \* bound: number of backups ever created
  LockAttempts   \* --lock-retry-attempts

ASSUME BackupAssumption ==
  /\ Saver \in Savers
  /\ MaxBackups \in Nat /\ LockAttempts \in Nat \ {0}

VARIABLES
  bpc,       \* where the backup process is
  tries,     \* attempts to take the lock so far
  unread,    \* snapshot directories listed and not visited yet
  entered,   \* what the directory being archived listed, see Entry
  verified,   \* the snapshots _verify_store has found sound
  temp,      \* the temporary archive
  pruned,    \* a directory was removed since _verify_store began
  backups,   \* of each backup ever started: its archive and its sidecar
  backup,    \* the number of the latest backup started
  expired,   \* backups up to this one are older than the retention period
  oldSidecars, \* prune_backups: expired pairs it has not reached
  rpc, source, restoring, target  \* a restore: where it is, which backup, what it read of
                                  \* it when it verified it, and the restored store

makeVars == <<bpc, tries, unread, entered, verified, temp, pruned>>
makeRest == <<tries, unread, entered, verified, temp, pruned>>
restoreVars == <<rpc, source, restoring, target>>
backupVars == <<makeVars, backups, backup, expired, oldSidecars, restoreVars>>
allVars == <<vars, backupVars>>

Backups == 1..MaxBackups
EmptyStore == [manifest |-> [i \in Ids |-> "absent"], data |-> {}, latest |-> 0]
Stores == [manifest : [Ids -> {"absent", "none", "torn", "ok", "error"}],
           data : SUBSET Ids, latest : 0..MaxSnapshot]
BackupRecords ==
  [archive : BOOLEAN, sidecar : BOOLEAN, content : Stores, snapshots : SUBSET Ids,
   latest_snapshot_id : 0..MaxSnapshot, snapshot_count : 0..MaxSnapshot, raced : BOOLEAN]
NoBackup == [archive |-> FALSE, sidecar |-> FALSE, content |-> EmptyStore, snapshots |-> {},
             latest_snapshot_id |-> 0, snapshot_count |-> 0, raced |-> FALSE]
Pair(b) == backups[b].archive /\ backups[b].sidecar
NothingVerified == [latest |-> 0, snapshots |-> {}]
NoEntry == [id |-> 0, manifest |-> FALSE, data |-> FALSE]

Walking == {"verify", "snapshots", "enter", "add"}
LockHeld == Walking \union {"latest"}

BackupTypeOK ==
  /\ bpc \in {"idle", "lock", "replace", "sidecar", "prune", "unlink_archive",
              "unlink_sidecar"} \union LockHeld
  /\ tries \in 0..LockAttempts
  /\ unread \subseteq Ids
  /\ verified \in [latest : 0..MaxSnapshot, snapshots : SUBSET Ids]
  /\ entered \in [id : 0..MaxSnapshot, manifest : BOOLEAN, data : BOOLEAN]
  /\ temp \in Stores
  /\ pruned \in BOOLEAN
  /\ backups \in [Backups -> BackupRecords]
  /\ backup \in 0..MaxBackups /\ expired \in 0..MaxBackups
  /\ oldSidecars \subseteq Backups
  /\ rpc \in {"idle", "extract", "check"}
  /\ source \in 0..MaxBackups
  /\ restoring \in BackupRecords
  /\ target \in Stores
  /\ (holder = Saver) = (bpc \in LockHeld)

BackupInit ==
  /\ Init
  /\ bpc = "idle" /\ tries = 0
  /\ unread = {} /\ verified = NothingVerified /\ entered = NoEntry
  /\ temp = EmptyStore /\ pruned = FALSE
  /\ backups = [b \in Backups |-> NoBackup]
  /\ backup = 0 /\ expired = 0 /\ oldSidecars = {}
  /\ rpc = "idle" /\ source = 0 /\ restoring = NoBackup /\ target = EmptyStore

To(from, to) == bpc = from /\ bpc' = to

\* create_backup is left: nothing of it stays in memory.
Forget ==
  /\ tries' = 0 /\ unread' = {} /\ entered' = NoEntry
  /\ verified' = NothingVerified /\ temp' = EmptyStore /\ pruned' = FALSE

Keeping == UNCHANGED <<backups, backup, expired, oldSidecars, restoreVars>>
StoreKept == UNCHANGED <<storeVars, pc, sid, pruneVars, reader>>
NotFaulty == UNCHANGED faults

(***************************************************************************)
(* create_backup: the lock, _verify_store and the archive                  *)
(***************************************************************************)
\* The archive gets a name that neither an archive nor a sidecar has.
StartBackup ==
  /\ backup < MaxBackups
  /\ To("idle", "lock")
  /\ backup' = backup + 1
  /\ tries' = 1
  /\ UNCHANGED <<unread, entered, verified, temp, pruned, backups, expired, oldSidecars,
                 restoreVars, holder>>
  /\ StoreKept /\ NotFaulty

\* Mutant: the archive is made without the lock.
TakeLockNot ==
  /\ To("lock", "latest")
  /\ UNCHANGED <<tries, unread, entered, verified, temp, pruned, holder>>
  /\ Keeping /\ StoreKept /\ NotFaulty

TakeLock ==
  /\ holder = Nobody
  /\ To("lock", "latest")
  /\ holder' = Saver
  /\ UNCHANGED <<tries, unread, entered, verified, temp, pruned>>
  /\ Keeping /\ StoreKept /\ NotFaulty

\* RunLockError: sleep, then the next attempt.
RetryLock ==
  /\ holder # Nobody /\ bpc = "lock" /\ tries < LockAttempts
  /\ tries' = tries + 1
  /\ UNCHANGED <<bpc, unread, entered, verified, temp, pruned, holder>>
  /\ Keeping /\ StoreKept /\ NotFaulty

LockRefused ==
  /\ holder # Nobody /\ tries = LockAttempts
  /\ To("lock", "idle")
  /\ Forget
  /\ UNCHANGED holder
  /\ Keeping /\ StoreKept /\ NotFaulty

\* BackupError, OSError or SnapshotStoreError: the temporary archive is
\* removed, the lock released, and the command exits with an error.
Abandon ==
  /\ bpc' = "idle"
  /\ holder' = IF holder = Saver THEN Nobody ELSE holder
  /\ Forget
  /\ Keeping /\ StoreKept

\* read_latest, then scan_manifests lists the directories.
VerifyLatest ==
  /\ latest # 0 /\ Readable(latest)
  /\ To("latest", "verify")
  /\ unread' = {i \in Ids : manifest[i] # "absent"}
  /\ verified' = [verified EXCEPT !.latest = latest]
  /\ UNCHANGED <<tries, entered, temp, pruned, holder>>
  /\ Keeping /\ StoreKept /\ NotFaulty

NoLatest ==
  /\ bpc = "latest" /\ ~(latest # 0 /\ Readable(latest))
  /\ Abandon /\ NotFaulty

\* scan_manifests and verify_snapshot of one directory.
VerifySnapshot(i) ==
  /\ bpc = "verify" /\ i \in unread /\ Complete(i)
  /\ unread' = unread \ {i}
  /\ verified' = [verified EXCEPT !.snapshots = @ \union {i}]
  /\ UNCHANGED <<bpc, tries, entered, temp, pruned, holder>>
  /\ Keeping /\ StoreKept /\ NotFaulty

\* A listed directory that is gone is no directory, and is passed over.
SkipVanished(i) ==
  /\ bpc = "verify" /\ i \in unread /\ manifest[i] = "absent"
  /\ unread' = unread \ {i}
  /\ UNCHANGED <<bpc, tries, entered, verified, temp, pruned, holder>>
  /\ Keeping /\ StoreKept /\ NotFaulty

\* A directory without a readable manifest, or without its datasets.
Unsound(i) ==
  /\ bpc = "verify" /\ i \in unread /\ manifest[i] # "absent" /\ ~Complete(i)
  /\ Abandon /\ NotFaulty

\* bundle.add(root): the pointers come first.
AddPointers ==
  /\ unread = {}
  /\ To("verify", "snapshots")
  /\ temp' = [temp EXCEPT !.latest = latest]
  /\ UNCHANGED <<tries, unread, entered, verified, pruned, holder>>
  /\ Keeping /\ StoreKept /\ NotFaulty

\* os.listdir(snapshots)
ListSnapshots ==
  /\ To("snapshots", "enter")
  /\ unread' = {i \in Ids : manifest[i] # "absent"}
  /\ UNCHANGED <<tries, entered, verified, temp, pruned, holder>>
  /\ Keeping /\ StoreKept /\ NotFaulty

\* The directories are visited in the order of their names; os.listdir of one.
EnterSnapshot ==
  /\ To("enter", "add")
  /\ unread # {}
  /\ LET i == Min(unread) IN
       /\ manifest[i] # "absent"
       /\ unread' = unread \ {i}
       /\ entered' = [id |-> i, manifest |-> manifest[i] # "none", data |-> i \in data]
       /\ temp' = [temp EXCEPT !.manifest[i] = "none"]
  /\ UNCHANGED <<tries, verified, pruned, holder>>
  /\ Keeping /\ StoreKept /\ NotFaulty

\* The files that were listed are still there, and are archived.
AddFiles ==
  /\ To("add", "enter")
  /\ LET i == entered.id IN
       /\ entered.manifest => manifest[i] \notin {"absent", "none"}
       /\ entered.data => i \in data
       /\ temp' = [temp EXCEPT
            !.manifest[i] = IF entered.manifest THEN manifest[i] ELSE "none",
            !.data = IF entered.data THEN @ \union {i} ELSE @]
  /\ entered' = NoEntry
  /\ UNCHANGED <<tries, unread, verified, pruned, holder>>
  /\ Keeping /\ StoreKept /\ NotFaulty

\* FileNotFoundError: what was listed is gone.
Vanished ==
  /\ \/ bpc = "enter" /\ unread # {} /\ manifest[Min(unread)] = "absent"
     \/ /\ bpc = "add"
        /\ \/ entered.manifest /\ manifest[entered.id] \in {"absent", "none"}
           \/ entered.data /\ entered.id \notin data
  /\ Abandon /\ NotFaulty

\* The archive is closed and the lock released.
CloseArchive ==
  /\ unread = {}
  /\ To("enter", "replace")
  /\ holder' = Nobody
  /\ UNCHANGED <<tries, unread, entered, verified, temp, pruned>>
  /\ Keeping /\ StoreKept /\ NotFaulty

\* os.replace(temporary, archive)
ReplaceArchive ==
  /\ To("replace", "sidecar")
  /\ backups' = [backups EXCEPT ![backup].archive = TRUE, ![backup].content = temp]
  /\ UNCHANGED <<tries, unread, entered, verified, temp, pruned, backup, expired, oldSidecars,
                 restoreVars, holder>>
  /\ StoreKept /\ NotFaulty

\* _atomic_json(sidecar, metadata)
WriteSidecar ==
  /\ To("sidecar", "prune")
  /\ backups' = [backups EXCEPT
       ![backup].sidecar = TRUE,
       ![backup].snapshots = verified.snapshots,
       ![backup].latest_snapshot_id = verified.latest,
       ![backup].snapshot_count = Cardinality(verified.snapshots),
       ![backup].raced = pruned]
  /\ Forget
  /\ UNCHANGED <<backup, expired, oldSidecars, restoreVars, holder>>
  /\ StoreKept /\ NotFaulty

(***************************************************************************)
(* prune_backups, which main calls after create_backup                     *)
(***************************************************************************)
\* Each sidecar whose metadata matches its archive and is expired.
PruneBackups ==
  /\ To("prune", "unlink_archive")
  /\ oldSidecars' = {b \in Backups : b <= expired /\ Pair(b)}
  /\ UNCHANGED <<makeRest, backups, backup, expired, restoreVars, holder>>
  /\ StoreKept /\ NotFaulty

UnlinkArchive(b) ==
  /\ b \in oldSidecars
  /\ To("unlink_archive", "unlink_sidecar")
  /\ backups' = [backups EXCEPT ![b].archive = FALSE]
  /\ UNCHANGED <<makeRest, backup, expired, oldSidecars, restoreVars, holder>>
  /\ StoreKept /\ NotFaulty

\* Mutant: the sidecar of a removed archive is only unlinked by the next prune.
UnlinkSidecarLater(b) ==
  /\ b \in oldSidecars /\ ~backups[b].archive
  /\ To("unlink_sidecar", "unlink_archive")
  /\ oldSidecars' = oldSidecars \ {b}
  /\ UNCHANGED <<makeRest, backups, backup, expired, restoreVars, holder>>
  /\ StoreKept /\ NotFaulty

UnlinkSidecar(b) ==
  /\ b \in oldSidecars /\ ~backups[b].archive
  /\ To("unlink_sidecar", "unlink_archive")
  /\ backups' = [backups EXCEPT ![b] = NoBackup]
  /\ oldSidecars' = oldSidecars \ {b}
  /\ UNCHANGED <<makeRest, backup, expired, restoreVars, holder>>
  /\ StoreKept /\ NotFaulty

BackupDone ==
  /\ oldSidecars = {}
  /\ To("unlink_archive", "idle")
  /\ UNCHANGED <<makeRest, backups, backup, expired, oldSidecars, restoreVars, holder>>
  /\ StoreKept /\ NotFaulty

\* A kill, or an error of the file system.
SavingFails ==
  /\ Fault
  /\ bpc # "idle" /\ bpc' = "idle"
  /\ holder' = IF holder = Saver THEN Nobody ELSE holder
  /\ Forget
  /\ oldSidecars' = {}
  /\ UNCHANGED <<backups, backup, expired, restoreVars>>
  /\ StoreKept

BackupExpires ==
  /\ expired < backup
  /\ backup = expired + 1 => bpc = "idle"
  /\ expired' = expired + 1
  /\ UNCHANGED <<makeVars, backups, backup, oldSidecars, restoreVars, holder>>
  /\ StoreKept /\ NotFaulty

(***************************************************************************)
(* restore_backup, into a target that does not exist                       *)
(***************************************************************************)
\* verify_backup: the archive is the one the sidecar describes.
StartRestore(b) ==
  /\ Pair(b)
  /\ rpc = "idle" /\ rpc' = "extract"
  /\ source' = b
  /\ restoring' = backups[b]
  /\ target' = EmptyStore
  /\ UNCHANGED <<makeVars, backups, backup, expired, oldSidecars, holder>>
  /\ StoreKept /\ NotFaulty

\* The archive is opened again and extracted, or prune_backups has removed it.
Extract ==
  /\ rpc = "extract"
  /\ rpc' = IF backups[source].archive THEN "check" ELSE "idle"
  /\ UNCHANGED <<makeVars, backups, backup, expired, oldSidecars, source,
                 restoring, target, holder>>
  /\ StoreKept /\ NotFaulty

\* _verify_store of an archived store.
Sound(store) ==
  /\ store.latest # 0 /\ store.manifest[store.latest] \in {"ok", "error"}
  /\ \A i \in Ids : \/ store.manifest[i] \in {"absent", "error"}
                    \/ store.manifest[i] = "ok" /\ i \in store.data

Snapshots(store) == {i \in Ids : store.manifest[i] # "absent"}

\* Mutant: the snapshot count is not compared.
MatchesLatestOnly(b) ==
  /\ Sound(b.content)
  /\ b.content.latest = b.latest_snapshot_id

\* What restore_backup asks of the extracted store.
Matches(b) ==
  /\ Sound(b.content)
  /\ b.content.latest = b.latest_snapshot_id
  /\ Cardinality(Snapshots(b.content)) = b.snapshot_count

\* os.replace(restored_root, target), or the staging directory is removed.
FinishRestore ==
  /\ rpc = "check" /\ rpc' = "idle"
  /\ target' = IF Matches(restoring) THEN restoring.content ELSE EmptyStore
  /\ UNCHANGED <<makeVars, backups, backup, expired, oldSidecars, source, restoring, holder>>
  /\ StoreKept /\ NotFaulty

(***************************************************************************)
(* The system                                                              *)
(***************************************************************************)
Saving ==
  \/ StartBackup \/ TakeLock \/ RetryLock \/ LockRefused
  \/ VerifyLatest \/ NoLatest \/ AddPointers \/ ListSnapshots \/ EnterSnapshot \/ AddFiles
  \/ Vanished \/ CloseArchive \/ ReplaceArchive \/ WriteSidecar \/ PruneBackups \/ BackupDone
  \/ \E i \in Ids : VerifySnapshot(i) \/ SkipVanished(i) \/ Unsound(i)
  \/ \E b \in Backups : UnlinkArchive(b) \/ UnlinkSidecar(b)
Restore == Extract \/ FinishRestore \/ \E b \in Backups : StartRestore(b)

\* A step of the store.  `pruned' remembers a removal under a backup.
StoreStep ==
  /\ StoreNext
  /\ pruned' = (pruned \/ (bpc \in Walking /\ \E c \in Collectors : pc[c] = "rmtree"))
  /\ UNCHANGED <<bpc, tries, unread, entered, verified, temp, backups, backup, expired,
                 oldSidecars, restoreVars>>

BackupNext == StoreStep \/ Saving \/ SavingFails \/ BackupExpires \/ Restore

BackupSpec == BackupInit /\ [][BackupNext]_allVars

(***************************************************************************)
(* Properties                                                              *)
(***************************************************************************)
\* "Backup creation holds the collector lock and verifies every retained
\* manifest and dataset checksum before writing the archive": a backup that was
\* reported and described by a sidecar can be restored.  It does not hold where a
\* pruner runs meanwhile (README, section 4).
BackupsRestore == \A b \in Backups : Pair(b) => Matches(backups[b])

\* The same where no pruner was removing a snapshot while the archive was made.
BackupsRestoreUnlessPruned == \A b \in Backups : Pair(b) => Matches(backups[b]) \/ backups[b].raced

\* A restored store holds exactly the snapshots that were found sound under the
\* lock, and its latest pointer names one of them: what a pruner removed under
\* tarfile.add is never restored as if it were the whole store.
RestoredAsVerified ==
  target # EmptyStore => /\ Snapshots(target) = restoring.snapshots
                         /\ target.latest \in Snapshots(target)
                         /\ \A i \in Snapshots(target) :
                              target.manifest[i] = "ok" => i \in target.data

\* An archive without a sidecar, or a sidecar without an archive, that nobody is writing
\* or removing: it can be neither verified nor restored, and no prune_backups takes it.
HalfPairs ==
  {b \in Backups : /\ backups[b].archive # backups[b].sidecar
                   /\ ~(bpc = "sidecar" /\ b = backup)
                   /\ b \notin oldSidecars}

\* Each kill or failed write leaves one such half at most, and nothing else does: the
\* two files of a backup come and go together however often prune_backups is stopped
\* between them and run again.
HalfPairsBounded == Cardinality(HalfPairs) <= faults

\* prune_backups never takes a backup within the retention period, whatever is
\* killed: it stays usable.
YoungBackupsKept ==
  [][\A b \in Backups : Pair(b) /\ b > expired => Pair(b)']_allVars

(***************************************************************************)
(* The inductive invariant                                                 *)
(***************************************************************************)
Listed == {i \in Ids : manifest[i] # "absent"}

\* No directory appears under the lock: an archive has no snapshot that was not verified.
MakingInv ==
  /\ bpc \notin {"snapshots", "enter", "add", "replace", "sidecar"} =>
       temp = EmptyStore /\ (bpc # "verify" => verified = NothingVerified)
  /\ bpc = "snapshots" => Snapshots(temp) = {}
  /\ bpc = "verify" => Listed \subseteq unread \union verified.snapshots
  /\ bpc = "snapshots" => Listed \subseteq verified.snapshots
  /\ bpc \in {"enter", "add"} => unread \subseteq verified.snapshots
  /\ bpc = "add" => entered.id \in verified.snapshots
  /\ bpc \in {"enter", "add", "replace", "sidecar"} => Snapshots(temp) \subseteq verified.snapshots
  /\ bpc = "sidecar" => backups[backup].content = temp

\* The member that the directory being archived does not hide is as it was verified.
Archived(i) ==
  /\ temp.manifest[i] = manifest[i]
  /\ i \in data => i \in temp.data

\* Without a removal the store stays as it was found sound, and is archived as it is.
VerifiedInv ==
  verified.latest = latest /\ latest # 0 /\ \A i \in verified.snapshots : Complete(i)
UnprunedInv ==
  ~pruned =>
    /\ bpc = "verify" => VerifiedInv /\ Readable(latest) /\ Listed = unread \union verified.snapshots
    /\ bpc \in {"snapshots", "enter", "add"} =>
         VerifiedInv /\ Readable(latest) /\ Listed = verified.snapshots /\ temp.latest = latest
    /\ bpc = "enter" => \A i \in Listed \ unread : Archived(i)
    /\ bpc = "add" => /\ \A i \in Listed \ (unread \union {entered.id}) : Archived(i)
                      /\ entered.manifest /\ (entered.id \in data => entered.data)
    /\ bpc \in {"replace", "sidecar"} =>
         /\ Sound(temp) /\ temp.latest = verified.latest
         /\ Snapshots(temp) = verified.snapshots

\* A sidecar counts what was verified, whatever is in the archive.
Describes(b) ==
  /\ Snapshots(b.content) \subseteq b.snapshots
  /\ b.snapshot_count = Cardinality(b.snapshots)
Making == LockHeld \union {"lock", "replace", "sidecar"}
BackupsInv ==
  /\ \A b \in Backups : b > backup => backups[b] = NoBackup
  /\ bpc \in Making => backup \in Backups /\ ~backups[backup].sidecar
  /\ oldSidecars \subseteq 1..expired /\ expired <= backup
  /\ \A b \in Backups : backups[b].sidecar => Describes(backups[b])
  /\ Describes(restoring)

\* What holds in every state, whoever prunes meanwhile: see RestoredAsVerified.
Safety ==
  /\ BackupTypeOK /\ MakingInv /\ UnprunedInv /\ BackupsInv
  /\ BackupsRestoreUnlessPruned /\ RestoredAsVerified
=============================================================================
