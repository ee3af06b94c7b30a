----------------------------- MODULE BackupProofs -----------------------------
(***************************************************************************)
(* Proofs about SnapshotStore and, on top of them, about Backup, for any   *)
(* collectors, readers and bounds.                                         *)
(*                                                                         *)
(* Of the store: the inductive invariant StoreInv, from it the safety of   *)
(* the two pointers, and on top of it readers and retention.  One lemma    *)
(* per operation of the store, one step per action in it; the conjuncts of *)
(* an invariant get steps of their own where an action disturbs them.      *)
(*                                                                         *)
(* Of the backup: its process is one of the Savers that SnapshotStore      *)
(* allows for, so that all that is proved of the store holds beside it,    *)
(* and what a sidecar says decides what can be restored.                   *)
(***************************************************************************)
EXTENDS Backup, FiniteSetTheorems, WellFoundedInduction, TLAPS

\* The initial store satisfies the inductive invariant.
LEMMA InitInv == Init => StoreInv
BY StoreAssumption
   DEF Init, StoreInv, TypeOK, LockInv, NamedInv, WriterInv, PrunerInv, LatestReadable,
       AttemptReadable, AttemptCoversLatest, Ids, NoReader, Locked, Writing, Failing, Pruning

\* Marking readers keeps their type.
LEMMA ReplacedType ==
  ASSUME TypeOK, NEW old, NEW new
  PROVE  Replaced(old, new) \in [Readers -> [at : {"idle", "manifest", "datasets", "error"},
                                            id : 0..MaxSnapshot, replaced : BOOLEAN]]
BY DEF Replaced, TypeOK

\* Taking and releasing the lock, and collecting, preserve StoreInv.
LEMMA RunInv ==
  ASSUME NEW c \in Collectors, StoreInv, BeginRun(c) \/ RunRefused(c) \/ Collect(c) \/ Unlock(c) \/ Kill(c)
  PROVE  StoreInv'
<1> USE StoreAssumption DEF Ids, Locked, Writing, Failing, Pruning, Safe, Goto
<1>1. ASSUME BeginRun(c) PROVE StoreInv'
  BY <1>1
  DEF BeginRun, storeVars, pruneVars, StoreInv, TypeOK, LockInv, NamedInv, WriterInv,
      PrunerInv, LatestReadable, AttemptReadable, AttemptCoversLatest, Complete,
      Readable
<1>2. ASSUME RunRefused(c) PROVE StoreInv'
  <2>1. TypeOK'
    BY <1>2
    DEF RunRefused, storeVars, pruneVars, StoreInv, TypeOK, LatestReadable, AttemptReadable,
        WriterInv, Readable
  <2>2. LockInv'
    BY <1>2
    DEF RunRefused, storeVars, pruneVars, StoreInv, TypeOK, LockInv
  <2>3. NamedInv'
    BY <1>2
    DEF RunRefused, storeVars, pruneVars, StoreInv, TypeOK, NamedInv, WriterInv, PrunerInv
  <2>4. WriterInv'
    BY <1>2
    DEF RunRefused, storeVars, pruneVars, StoreInv, TypeOK, LockInv, NamedInv, WriterInv,
        PrunerInv
  <2>5. PrunerInv'
    BY <1>2
    DEF RunRefused, storeVars, pruneVars, StoreInv, TypeOK, LockInv, NamedInv, WriterInv,
        PrunerInv
  <2>6. LatestReadable' /\ AttemptReadable' /\ AttemptCoversLatest'
    BY <1>2
    DEF RunRefused, storeVars, pruneVars, StoreInv, TypeOK, NamedInv, WriterInv, PrunerInv,
        LatestReadable, AttemptReadable, AttemptCoversLatest, Complete, Readable
  <2>7. QED BY <2>1, <2>2, <2>3, <2>4, <2>5, <2>6 DEF StoreInv
<1>3. ASSUME Collect(c) PROVE StoreInv'
  <2>1. pc[c] = "collect" /\ UNCHANGED <<storeVars, holder, sid, pruneVars, reader, faults>>
    BY <1>3 DEF Collect, Goto
  <2>2. PICK x \in {"stage", "fail_mkdir"} : pc' = [pc EXCEPT ![c] = x]
    BY <1>3 DEF Collect, Goto
  <2>3. TypeOK'
    BY <2>1, <2>2
    DEF storeVars, pruneVars, StoreInv, TypeOK, LatestReadable, AttemptReadable, WriterInv,
        Readable
  <2>4. LockInv'
    BY <2>1, <2>2
    DEF storeVars, pruneVars, StoreInv, TypeOK, LockInv
  <2>5. NamedInv'
    BY <2>1, <2>2
    DEF storeVars, pruneVars, StoreInv, TypeOK, NamedInv, WriterInv, PrunerInv
  <2>6. WriterInv'
    BY <2>1, <2>2
    DEF storeVars, pruneVars, StoreInv, TypeOK, LockInv, NamedInv, WriterInv, PrunerInv
  <2>7. PrunerInv'
    BY <2>1, <2>2
    DEF storeVars, pruneVars, StoreInv, TypeOK, LockInv, NamedInv, WriterInv, PrunerInv
  <2>8. LatestReadable' /\ AttemptReadable' /\ AttemptCoversLatest'
    BY <2>1, <2>2
    DEF storeVars, pruneVars, StoreInv, TypeOK, NamedInv, WriterInv, PrunerInv,
        LatestReadable, AttemptReadable, AttemptCoversLatest, Complete, Readable
  <2>9. QED BY <2>3, <2>4, <2>5, <2>6, <2>7, <2>8 DEF StoreInv
<1>4. ASSUME Unlock(c) PROVE StoreInv'
  <2>1. pc[c] \in {"unlock_ok", "unlock_failed"} /\ holder' = Nobody
           /\ UNCHANGED <<storeVars, sid, pruneVars, reader, faults>>
    BY <1>4 DEF Unlock, Goto
  <2>2. PICK x \in {"prune", "idle"} : pc' = [pc EXCEPT ![c] = x]
    BY <1>4 DEF Unlock, Goto
  <2>3. TypeOK'
    BY <2>1, <2>2
    DEF storeVars, pruneVars, StoreInv, TypeOK, LatestReadable, AttemptReadable, WriterInv,
        Readable
  <2>4. LockInv'
    BY <2>1, <2>2
    DEF storeVars, pruneVars, StoreInv, TypeOK, LockInv
  <2>5. NamedInv'
    BY <2>1, <2>2
    DEF storeVars, pruneVars, StoreInv, TypeOK, NamedInv, WriterInv, PrunerInv
  <2>6. WriterInv'
    BY <2>1, <2>2
    DEF storeVars, pruneVars, StoreInv, TypeOK, LockInv, NamedInv, WriterInv, PrunerInv
  <2>7. PrunerInv'
    BY <2>1, <2>2
    DEF storeVars, pruneVars, StoreInv, TypeOK, LockInv, NamedInv, WriterInv, PrunerInv
  <2>8. LatestReadable' /\ AttemptReadable' /\ AttemptCoversLatest'
    BY <2>1, <2>2
    DEF storeVars, pruneVars, StoreInv, TypeOK, NamedInv, WriterInv, PrunerInv,
        LatestReadable, AttemptReadable, AttemptCoversLatest, Complete, Readable
  <2>9. QED BY <2>3, <2>4, <2>5, <2>6, <2>7, <2>8 DEF StoreInv
<1>5. ASSUME Kill(c) PROVE StoreInv'
  BY <1>5
  DEF Kill, storeVars, Fault, NoPrune, StoreInv, TypeOK, LockInv, NamedInv, WriterInv,
      PrunerInv, LatestReadable, AttemptReadable, AttemptCoversLatest, Complete,
      Readable
<1>6. QED BY <1>1, <1>2, <1>3, <1>4, <1>5

\* publish, and the record_run after it, preserve StoreInv.
LEMMA PublishInv ==
  ASSUME NEW c \in Collectors, StoreInv, Publish(c) \/ PublishFails(c)
  PROVE  StoreInv'
<1> USE StoreAssumption DEF Ids, Locked, Writing, Failing, Pruning, Safe, Goto
<1>1. ASSUME Stage(c) PROVE StoreInv'
  <2>1. TypeOK'
    BY <1>1
    DEF Stage, pruneVars, StoreInv, TypeOK, LatestReadable, AttemptReadable, WriterInv,
        Readable
  <2>2. LockInv'
    BY <1>1
    DEF Stage, pruneVars, StoreInv, TypeOK, LockInv
  <2>3. NamedInv'
    BY <1>1
    DEF Stage, pruneVars, StoreInv, TypeOK, NamedInv, WriterInv, PrunerInv
  <2>4. WriterInv'
    BY <1>1
    DEF Stage, pruneVars, StoreInv, TypeOK, LockInv, NamedInv, WriterInv, PrunerInv
  <2>5. PrunerInv'
    BY <1>1
    DEF Stage, pruneVars, StoreInv, TypeOK, LockInv, NamedInv, WriterInv, PrunerInv
  <2>6. LatestReadable' /\ AttemptReadable' /\ AttemptCoversLatest'
    BY <1>1
    DEF Stage, pruneVars, StoreInv, TypeOK, NamedInv, WriterInv, PrunerInv, LatestReadable,
        AttemptReadable, AttemptCoversLatest, Complete, Readable
  <2>7. QED BY <2>1, <2>2, <2>3, <2>4, <2>5, <2>6 DEF StoreInv
<1>2. ASSUME Rename(c) PROVE StoreInv'
  <2>1. sid[c] \in Ids /\ sid[c] < next
    BY <1>2 DEF Rename, Goto, StoreInv, TypeOK, WriterInv, Ids, Writing
  <2>2. TypeOK'
    BY <1>2, <2>1
    DEF Rename, pruneVars, StoreInv, TypeOK, LatestReadable, AttemptReadable, WriterInv,
        Readable
  <2>3. LockInv'
    BY <1>2, <2>1
    DEF Rename, pruneVars, StoreInv, TypeOK, LockInv
  <2>4. NamedInv'
    BY <1>2, <2>1
    DEF Rename, pruneVars, StoreInv, TypeOK, NamedInv, WriterInv, PrunerInv
  <2>5. WriterInv'
    BY <1>2, <2>1
    DEF Rename, pruneVars, StoreInv, TypeOK, LockInv, NamedInv, WriterInv, PrunerInv
  <2>6. PrunerInv'
    BY <1>2, <2>1
    DEF Rename, pruneVars, StoreInv, TypeOK, LockInv, NamedInv, WriterInv, PrunerInv
  <2>7. LatestReadable' /\ AttemptReadable' /\ AttemptCoversLatest'
    BY <1>2, <2>1
    DEF Rename, pruneVars, StoreInv, TypeOK, NamedInv, WriterInv, PrunerInv, LatestReadable,
        AttemptReadable, AttemptCoversLatest, Complete, Readable
  <2>8. QED BY <2>2, <2>3, <2>4, <2>5, <2>6, <2>7 DEF StoreInv
<1>3. ASSUME PointAttempt(c) PROVE StoreInv'
  <2>1. TypeOK'
    BY <1>3
    DEF PointAttempt, pruneVars, StoreInv, TypeOK, LatestReadable, AttemptReadable, WriterInv,
        Readable
  <2>2. LockInv'
    BY <1>3
    DEF PointAttempt, pruneVars, StoreInv, TypeOK, LockInv
  <2>3. NamedInv'
    BY <1>3
    DEF PointAttempt, pruneVars, StoreInv, TypeOK, NamedInv, WriterInv, PrunerInv
  <2>4. WriterInv'
    BY <1>3
    DEF PointAttempt, pruneVars, StoreInv, TypeOK, LockInv, NamedInv, WriterInv, PrunerInv
  <2>5. PrunerInv'
    BY <1>3
    DEF PointAttempt, pruneVars, StoreInv, TypeOK, LockInv, NamedInv, WriterInv, PrunerInv
  <2>6. LatestReadable' /\ AttemptReadable' /\ AttemptCoversLatest'
    BY <1>3
    DEF PointAttempt, pruneVars, StoreInv, TypeOK, NamedInv, WriterInv, PrunerInv,
        LatestReadable, AttemptReadable, AttemptCoversLatest, Complete, Readable
  <2>7. QED BY <2>1, <2>2, <2>3, <2>4, <2>5, <2>6 DEF StoreInv
<1>4. ASSUME PointLatest(c) PROVE StoreInv'
  <2>1. reader' \in [Readers -> [at : {"idle", "manifest", "datasets", "error"},
                                id : 0..MaxSnapshot, replaced : BOOLEAN]]
    BY <1>4, ReplacedType DEF PointLatest, StoreInv, TypeOK
  <2>2. TypeOK'
    BY <1>4, <2>1
    DEF PointLatest, pruneVars, StoreInv, TypeOK, LatestReadable, AttemptReadable, WriterInv,
        Readable
  <2>3. LockInv'
    BY <1>4, <2>1
    DEF PointLatest, pruneVars, Replaced, StoreInv, TypeOK, LockInv
  <2>4. NamedInv'
    BY <1>4, <2>1
    DEF PointLatest, pruneVars, Replaced, StoreInv, TypeOK, NamedInv, WriterInv, PrunerInv
  <2>5. WriterInv'
    BY <1>4, <2>1
    DEF PointLatest, pruneVars, Replaced, StoreInv, TypeOK, LockInv, NamedInv, WriterInv,
        PrunerInv
  <2>6. PrunerInv'
    BY <1>4, <2>1
    DEF PointLatest, pruneVars, Replaced, StoreInv, TypeOK, LockInv, NamedInv, WriterInv,
        PrunerInv
  <2>7. LatestReadable' /\ AttemptReadable' /\ AttemptCoversLatest'
    BY <1>4, <2>1
    DEF PointLatest, pruneVars, Replaced, StoreInv, TypeOK, NamedInv, WriterInv, PrunerInv,
        LatestReadable, AttemptReadable, AttemptCoversLatest, Complete, Readable
  <2>8. QED BY <2>2, <2>3, <2>4, <2>5, <2>6, <2>7 DEF StoreInv
<1>5. ASSUME RecordRun(c) PROVE StoreInv'
  BY <1>5
  DEF RecordRun, storeVars, pruneVars, StoreInv, TypeOK, LockInv, NamedInv, WriterInv,
      PrunerInv, LatestReadable, AttemptReadable, AttemptCoversLatest, Complete,
      Readable
<1>6. ASSUME PublishFails(c) PROVE StoreInv'
  <2>1. staging' \subseteq Ids
    BY <1>6, StoreAssumption DEF PublishFails, StoreInv, TypeOK
  <2>2. sid' \in [Collectors -> 0..MaxSnapshot]
    BY <1>6, StoreAssumption DEF PublishFails, StoreInv, TypeOK
  <2>3. faults' \in 0..MaxFaults
    BY <1>6, StoreAssumption DEF PublishFails, Fault, StoreInv, TypeOK
  <2>4. PICK x \in {"fail_mkdir"} : pc' = [pc EXCEPT ![c] = x]
    BY <1>6, StoreAssumption DEF PublishFails
  <2>5. TypeOK'
    BY <1>6, <2>1, <2>2, <2>3, <2>4
    DEF PublishFails, pruneVars, Fault, StoreInv, TypeOK, LatestReadable, AttemptReadable,
        WriterInv, Readable
  <2>6. LockInv'
    BY <1>6, <2>1, <2>2, <2>3, <2>4
    DEF PublishFails, pruneVars, Fault, StoreInv, TypeOK, LockInv
  <2>7. NamedInv'
    BY <1>6, <2>1, <2>2, <2>3, <2>4
    DEF PublishFails, pruneVars, Fault, StoreInv, TypeOK, NamedInv, WriterInv, PrunerInv
  <2>8. WriterInv'
    BY <1>6, <2>1, <2>2, <2>3, <2>4
    DEF PublishFails, pruneVars, Fault, StoreInv, TypeOK, LockInv, NamedInv, WriterInv,
        PrunerInv
  <2>9. PrunerInv'
    BY <1>6, <2>1, <2>2, <2>3, <2>4
    DEF PublishFails, pruneVars, Fault, StoreInv, TypeOK, LockInv, NamedInv, WriterInv,
        PrunerInv
  <2>10. LatestReadable' /\ AttemptReadable' /\ AttemptCoversLatest'
    BY <1>6, <2>1, <2>2, <2>3, <2>4
    DEF PublishFails, pruneVars, Fault, StoreInv, TypeOK, NamedInv, WriterInv, PrunerInv,
        LatestReadable, AttemptReadable, AttemptCoversLatest, Complete, Readable
  <2>11. QED BY <2>5, <2>6, <2>7, <2>8, <2>9, <2>10 DEF StoreInv
<1>7. QED BY <1>1, <1>2, <1>3, <1>4, <1>5, <1>6 DEF Publish

\* publish_failure preserves StoreInv.
LEMMA PublishFailureInv ==
  ASSUME NEW c \in Collectors, StoreInv, PublishFailure(c) \/ FailFails(c)
  PROVE  StoreInv'
<1> USE StoreAssumption DEF Ids, Locked, Writing, Failing, Pruning, Safe, Goto
<1>1. ASSUME FailMkdir(c) PROVE StoreInv'
  <2>1. TypeOK'
    BY <1>1
    DEF FailMkdir, pruneVars, StoreInv, TypeOK, LatestReadable, AttemptReadable, WriterInv,
        Readable
  <2>2. LockInv'
    BY <1>1
    DEF FailMkdir, pruneVars, StoreInv, TypeOK, LockInv
  <2>3. NamedInv'
    BY <1>1
    DEF FailMkdir, pruneVars, StoreInv, TypeOK, NamedInv, WriterInv, PrunerInv
  <2>4. WriterInv'
    BY <1>1
    DEF FailMkdir, pruneVars, StoreInv, TypeOK, LockInv, NamedInv, WriterInv, PrunerInv
  <2>5. PrunerInv'
    BY <1>1
    DEF FailMkdir, pruneVars, StoreInv, TypeOK, LockInv, NamedInv, WriterInv, PrunerInv
  <2>6. LatestReadable' /\ AttemptReadable' /\ AttemptCoversLatest'
    BY <1>1
    DEF FailMkdir, pruneVars, StoreInv, TypeOK, NamedInv, WriterInv, PrunerInv,
        LatestReadable, AttemptReadable, AttemptCoversLatest, Complete, Readable
  <2>7. QED BY <2>1, <2>2, <2>3, <2>4, <2>5, <2>6 DEF StoreInv
<1>2. ASSUME FailOpen(c) PROVE StoreInv'
  <2>1. sid[c] \in Ids /\ sid[c] < next
    BY <1>2 DEF FailOpen, Goto, StoreInv, TypeOK, WriterInv, Ids, Failing
  <2>2. TypeOK'
    BY <1>2, <2>1
    DEF FailOpen, pruneVars, StoreInv, TypeOK, LatestReadable, AttemptReadable, WriterInv,
        Readable
  <2>3. LockInv'
    BY <1>2, <2>1
    DEF FailOpen, pruneVars, StoreInv, TypeOK, LockInv
  <2>4. NamedInv'
    BY <1>2, <2>1
    DEF FailOpen, pruneVars, StoreInv, TypeOK, NamedInv, WriterInv, PrunerInv
  <2>5. WriterInv'
    BY <1>2, <2>1
    DEF FailOpen, pruneVars, StoreInv, TypeOK, LockInv, NamedInv, WriterInv, PrunerInv
  <2>6. PrunerInv'
    BY <1>2, <2>1
    DEF FailOpen, pruneVars, StoreInv, TypeOK, LockInv, NamedInv, WriterInv, PrunerInv
  <2>7. LatestReadable' /\ AttemptReadable' /\ AttemptCoversLatest'
    BY <1>2, <2>1
    DEF FailOpen, pruneVars, StoreInv, TypeOK, NamedInv, WriterInv, PrunerInv,
        LatestReadable, AttemptReadable, AttemptCoversLatest, Complete, Readable
  <2>8. QED BY <2>2, <2>3, <2>4, <2>5, <2>6, <2>7 DEF StoreInv
<1>3. ASSUME FailWrite(c) PROVE StoreInv'
  <2>1. sid[c] \in Ids /\ sid[c] < next
    BY <1>3 DEF FailWrite, Goto, StoreInv, TypeOK, WriterInv, Ids, Failing
  <2>2. TypeOK'
    BY <1>3, <2>1
    DEF FailWrite, pruneVars, StoreInv, TypeOK, LatestReadable, AttemptReadable, WriterInv,
        Readable
  <2>3. LockInv'
    BY <1>3, <2>1
    DEF FailWrite, pruneVars, StoreInv, TypeOK, LockInv
  <2>4. NamedInv'
    BY <1>3, <2>1
    DEF FailWrite, pruneVars, StoreInv, TypeOK, NamedInv, WriterInv, PrunerInv
  <2>5. WriterInv'
    BY <1>3, <2>1
    DEF FailWrite, pruneVars, StoreInv, TypeOK, LockInv, NamedInv, WriterInv, PrunerInv
  <2>6. PrunerInv'
    BY <1>3, <2>1
    DEF FailWrite, pruneVars, StoreInv, TypeOK, LockInv, NamedInv, WriterInv, PrunerInv
  <2>7. LatestReadable' /\ AttemptReadable' /\ AttemptCoversLatest'
    BY <1>3, <2>1
    DEF FailWrite, pruneVars, StoreInv, TypeOK, NamedInv, WriterInv, PrunerInv,
        LatestReadable, AttemptReadable, AttemptCoversLatest, Complete, Readable
  <2>8. QED BY <2>2, <2>3, <2>4, <2>5, <2>6, <2>7 DEF StoreInv
<1>4. ASSUME FailPoint(c) PROVE StoreInv'
  <2>1. TypeOK'
    BY <1>4
    DEF FailPoint, pruneVars, StoreInv, TypeOK, LatestReadable, AttemptReadable, WriterInv,
        Readable
  <2>2. LockInv'
    BY <1>4
    DEF FailPoint, pruneVars, StoreInv, TypeOK, LockInv
  <2>3. NamedInv'
    BY <1>4
    DEF FailPoint, pruneVars, StoreInv, TypeOK, NamedInv, WriterInv, PrunerInv
  <2>4. WriterInv'
    BY <1>4
    DEF FailPoint, pruneVars, StoreInv, TypeOK, LockInv, NamedInv, WriterInv, PrunerInv
  <2>5. PrunerInv'
    BY <1>4
    DEF FailPoint, pruneVars, StoreInv, TypeOK, LockInv, NamedInv, WriterInv, PrunerInv
  <2>6. LatestReadable' /\ AttemptReadable' /\ AttemptCoversLatest'
    BY <1>4
    DEF FailPoint, pruneVars, StoreInv, TypeOK, NamedInv, WriterInv, PrunerInv,
        LatestReadable, AttemptReadable, AttemptCoversLatest, Complete, Readable
  <2>7. QED BY <2>1, <2>2, <2>3, <2>4, <2>5, <2>6 DEF StoreInv
<1>5. ASSUME FailRecord(c) PROVE StoreInv'
  BY <1>5
  DEF FailRecord, storeVars, pruneVars, StoreInv, TypeOK, LockInv, NamedInv, WriterInv,
      PrunerInv, LatestReadable, AttemptReadable, AttemptCoversLatest, Complete,
      Readable
<1>6. ASSUME FailFails(c) PROVE StoreInv'
  BY <1>6
  DEF FailFails, storeVars, pruneVars, Fault, StoreInv, TypeOK, LockInv, NamedInv, WriterInv,
      PrunerInv, LatestReadable, AttemptReadable, AttemptCoversLatest, Complete,
      Readable
<1>7. QED BY <1>1, <1>2, <1>3, <1>4, <1>5, <1>6 DEF PublishFailure

\* prune, run beside whatever holds the lock, preserves StoreInv.
LEMMA PruneInv ==
  ASSUME NEW c \in Collectors, StoreInv, Prune(c)
  PROVE  StoreInv'
<1> USE StoreAssumption DEF Ids, Locked, Writing, Failing, Pruning, Safe, Goto
<1>1. ASSUME PruneBegin(c) PROVE StoreInv'
  <2>1. TypeOK'
    BY <1>1
    DEF PruneBegin, storeVars, StoreInv, TypeOK, LatestReadable, AttemptReadable, WriterInv, Readable
  <2>2. LockInv'
    BY <1>1 DEF PruneBegin, storeVars, StoreInv, TypeOK, LockInv
  <2>3. NamedInv'
    BY <1>1 DEF PruneBegin, storeVars, StoreInv, TypeOK, NamedInv, WriterInv, PrunerInv
  <2>4. WriterInv'
    BY <1>1 DEF PruneBegin, storeVars, StoreInv, TypeOK, LockInv, NamedInv, WriterInv, PrunerInv
  <2>5. PrunerInv'
    BY <1>1 DEF PruneBegin, storeVars, StoreInv, TypeOK, LockInv, NamedInv, WriterInv, PrunerInv
  <2>6. LatestReadable' /\ AttemptReadable' /\ AttemptCoversLatest'
    BY <1>1
    DEF PruneBegin, storeVars, StoreInv, LatestReadable, AttemptReadable, AttemptCoversLatest,
        Complete, Readable
  <2>7. QED BY <2>1, <2>2, <2>3, <2>4, <2>5, <2>6 DEF StoreInv
<1>2. ASSUME ProtectLatest(c) PROVE StoreInv'
  <2>1. TypeOK'
    BY <1>2
    DEF ProtectLatest, storeVars, Protects, StoreInv, TypeOK, LatestReadable,
        AttemptReadable, WriterInv, Readable
  <2>2. LockInv'
    BY <1>2
    DEF ProtectLatest, storeVars, Protects, StoreInv, TypeOK, LockInv
  <2>3. NamedInv'
    BY <1>2
    DEF ProtectLatest, storeVars, Protects, StoreInv, TypeOK, NamedInv, WriterInv, PrunerInv
  <2>4. WriterInv'
    BY <1>2
    DEF ProtectLatest, storeVars, Protects, StoreInv, TypeOK, LockInv, NamedInv, WriterInv,
        PrunerInv
  <2>5. PrunerInv'
    BY <1>2
    DEF ProtectLatest, storeVars, Protects, StoreInv, TypeOK, LockInv, NamedInv, WriterInv,
        PrunerInv
  <2>6. LatestReadable' /\ AttemptReadable' /\ AttemptCoversLatest'
    BY <1>2
    DEF ProtectLatest, storeVars, Protects, StoreInv, TypeOK, NamedInv, WriterInv, PrunerInv,
        LatestReadable, AttemptReadable, AttemptCoversLatest, Complete, Readable
  <2>7. QED BY <2>1, <2>2, <2>3, <2>4, <2>5, <2>6 DEF StoreInv
<1>3. ASSUME ProtectAttempt(c) PROVE StoreInv'
  <2>1. TypeOK'
    BY <1>3
    DEF ProtectAttempt, storeVars, Protects, StoreInv, TypeOK, LatestReadable,
        AttemptReadable, WriterInv, Readable
  <2>2. LockInv'
    BY <1>3
    DEF ProtectAttempt, storeVars, Protects, StoreInv, TypeOK, LockInv
  <2>3. NamedInv'
    BY <1>3
    DEF ProtectAttempt, storeVars, Protects, StoreInv, TypeOK, NamedInv, WriterInv,
        PrunerInv
  <2>4. WriterInv'
    BY <1>3
    DEF ProtectAttempt, storeVars, Protects, StoreInv, TypeOK, LockInv, NamedInv, WriterInv,
        PrunerInv
  <2>5. PrunerInv'
    BY <1>3
    DEF ProtectAttempt, storeVars, Protects, StoreInv, TypeOK, LockInv, NamedInv, WriterInv,
        PrunerInv
  <2>6. LatestReadable' /\ AttemptReadable' /\ AttemptCoversLatest'
    BY <1>3
    DEF ProtectAttempt, storeVars, Protects, StoreInv, TypeOK, NamedInv, WriterInv,
        PrunerInv, LatestReadable, AttemptReadable, AttemptCoversLatest, Complete,
        Readable
  <2>7. QED BY <2>1, <2>2, <2>3, <2>4, <2>5, <2>6 DEF StoreInv
<1>4. ASSUME NEW i \in Ids, Skip(c, i) PROVE StoreInv'
  <2>1. TypeOK'
    BY <1>4
    DEF Skip, storeVars, StoreInv, TypeOK, LatestReadable, AttemptReadable, WriterInv,
        Readable
  <2>2. LockInv'
    BY <1>4
    DEF Skip, storeVars, StoreInv, TypeOK, LockInv
  <2>3. NamedInv'
    BY <1>4
    DEF Skip, storeVars, StoreInv, TypeOK, NamedInv, WriterInv, PrunerInv
  <2>4. WriterInv'
    BY <1>4
    DEF Skip, storeVars, StoreInv, TypeOK, LockInv, NamedInv, WriterInv, PrunerInv
  <2>5. PrunerInv'
    BY <1>4
    DEF Skip, storeVars, StoreInv, TypeOK, LockInv, NamedInv, WriterInv, PrunerInv
  <2>6. LatestReadable' /\ AttemptReadable' /\ AttemptCoversLatest'
    BY <1>4
    DEF Skip, storeVars, StoreInv, LatestReadable, AttemptReadable, AttemptCoversLatest,
        Complete, Readable
  <2>7. QED BY <2>1, <2>2, <2>3, <2>4, <2>5, <2>6 DEF StoreInv
<1>5. ASSUME NEW i \in Ids, Visit(c, i) PROVE StoreInv'
  <2>1. TypeOK'
    BY <1>5
    DEF Visit, Looks, storeVars, StoreInv, TypeOK, LatestReadable, AttemptReadable, WriterInv,
        Readable
  <2>2. LockInv'
    BY <1>5
    DEF Visit, Looks, storeVars, StoreInv, TypeOK, LockInv
  <2>3. NamedInv'
    BY <1>5
    DEF Visit, Looks, storeVars, StoreInv, TypeOK, NamedInv, WriterInv, PrunerInv
  <2>4. WriterInv'
    BY <1>5
    DEF Visit, Looks, storeVars, StoreInv, TypeOK, LockInv, NamedInv, WriterInv, PrunerInv
  <2>5. PrunerInv'
    BY <1>5
    DEF Visit, Looks, storeVars, StoreInv, TypeOK, LockInv, NamedInv, WriterInv, PrunerInv
  <2>6. LatestReadable' /\ AttemptReadable' /\ AttemptCoversLatest'
    BY <1>5
    DEF Visit, Looks, storeVars, StoreInv, LatestReadable, AttemptReadable, AttemptCoversLatest,
        Complete, Readable
  <2>7. QED BY <2>1, <2>2, <2>3, <2>4, <2>5, <2>6 DEF StoreInv
<1>6. ASSUME Keep(c) PROVE StoreInv'
  <2>1. TypeOK'
    BY <1>6
    DEF Keep, Stays, storeVars, StoreInv, TypeOK, LatestReadable, AttemptReadable, WriterInv,
        Readable
  <2>2. LockInv'
    BY <1>6
    DEF Keep, Stays, storeVars, StoreInv, TypeOK, LockInv
  <2>3. NamedInv'
    BY <1>6
    DEF Keep, Stays, storeVars, StoreInv, TypeOK, NamedInv, WriterInv, PrunerInv
  <2>4. WriterInv'
    BY <1>6
    DEF Keep, Stays, storeVars, StoreInv, TypeOK, LockInv, NamedInv, WriterInv, PrunerInv
  <2>5. PrunerInv'
    BY <1>6
    DEF Keep, Stays, storeVars, StoreInv, TypeOK, LockInv, NamedInv, WriterInv, PrunerInv
  <2>6. LatestReadable' /\ AttemptReadable' /\ AttemptCoversLatest'
    BY <1>6
    DEF Keep, Stays, storeVars, StoreInv, LatestReadable, AttemptReadable, AttemptCoversLatest,
        Complete, Readable
  <2>7. QED BY <2>1, <2>2, <2>3, <2>4, <2>5, <2>6 DEF StoreInv
<1>7. ASSUME Expire(c) PROVE StoreInv'
  <2>1. TypeOK'
    BY <1>7
    DEF Expire, RemoversOf, storeVars, StoreInv, TypeOK, LatestReadable, AttemptReadable, WriterInv,
        Readable
  <2>2. LockInv'
    BY <1>7
    DEF Expire, RemoversOf, storeVars, StoreInv, TypeOK, LockInv
  <2>3. NamedInv'
    BY <1>7
    DEF Expire, RemoversOf, storeVars, StoreInv, TypeOK, NamedInv, WriterInv, PrunerInv
  <2>4. WriterInv'
    BY <1>7
    DEF Expire, RemoversOf, storeVars, StoreInv, TypeOK, LockInv, NamedInv, WriterInv, PrunerInv
  <2>5. PrunerInv'
    BY <1>7
    DEF Expire, RemoversOf, storeVars, StoreInv, TypeOK, LockInv, NamedInv, WriterInv, PrunerInv
  <2>6. LatestReadable' /\ AttemptReadable' /\ AttemptCoversLatest'
    BY <1>7
    DEF Expire, RemoversOf, storeVars, StoreInv, LatestReadable, AttemptReadable, AttemptCoversLatest,
        Complete, Readable
  <2>7. QED BY <2>1, <2>2, <2>3, <2>4, <2>5, <2>6 DEF StoreInv
<1>8. ASSUME RmtreeManifest(c) PROVE StoreInv'
  <2>1. TypeOK'
    BY <1>8
    DEF RmtreeManifest, pruneVars, StoreInv, TypeOK, LatestReadable, AttemptReadable,
        WriterInv, Readable
  <2>2. LockInv'
    BY <1>8
    DEF RmtreeManifest, pruneVars, StoreInv, TypeOK, LockInv
  <2>3. NamedInv'
    BY <1>8
    DEF RmtreeManifest, pruneVars, StoreInv, TypeOK, NamedInv, WriterInv, PrunerInv
  <2>4. WriterInv'
    BY <1>8
    DEF RmtreeManifest, pruneVars, StoreInv, TypeOK, LockInv, NamedInv, WriterInv, PrunerInv
  <2>5. PrunerInv'
    BY <1>8
    DEF RmtreeManifest, pruneVars, StoreInv, TypeOK, LockInv, NamedInv, WriterInv, PrunerInv
  <2>6. LatestReadable' /\ AttemptReadable' /\ AttemptCoversLatest'
    BY <1>8
    DEF RmtreeManifest, pruneVars, StoreInv, TypeOK, NamedInv, WriterInv, PrunerInv,
        LatestReadable, AttemptReadable, AttemptCoversLatest, Complete, Readable
  <2>7. QED BY <2>1, <2>2, <2>3, <2>4, <2>5, <2>6 DEF StoreInv
<1>9. ASSUME RmtreeData(c) PROVE StoreInv'
  <2>1. TypeOK'
    BY <1>9
    DEF RmtreeData, pruneVars, StoreInv, TypeOK, LatestReadable, AttemptReadable, WriterInv,
        Readable
  <2>2. LockInv'
    BY <1>9
    DEF RmtreeData, pruneVars, StoreInv, TypeOK, LockInv
  <2>3. NamedInv'
    BY <1>9
    DEF RmtreeData, pruneVars, StoreInv, TypeOK, NamedInv, WriterInv, PrunerInv
  <2>4. WriterInv'
    BY <1>9
    DEF RmtreeData, pruneVars, StoreInv, TypeOK, LockInv, NamedInv, WriterInv, PrunerInv
  <2>5. PrunerInv'
    BY <1>9
    DEF RmtreeData, pruneVars, StoreInv, TypeOK, LockInv, NamedInv, WriterInv, PrunerInv
  <2>6. LatestReadable' /\ AttemptReadable' /\ AttemptCoversLatest'
    BY <1>9
    DEF RmtreeData, pruneVars, StoreInv, TypeOK, NamedInv, WriterInv, PrunerInv,
        LatestReadable, AttemptReadable, AttemptCoversLatest, Complete, Readable
  <2>7. QED BY <2>1, <2>2, <2>3, <2>4, <2>5, <2>6 DEF StoreInv
<1>10. ASSUME RmtreeDirectory(c) PROVE StoreInv'
  <2>1. TypeOK'
    BY <1>10
    DEF RmtreeDirectory, StoreInv, TypeOK, LatestReadable, AttemptReadable, WriterInv,
        Readable
  <2>2. LockInv'
    BY <1>10
    DEF RmtreeDirectory, StoreInv, TypeOK, LockInv
  <2>3. NamedInv'
    BY <1>10
    DEF RmtreeDirectory, StoreInv, TypeOK, NamedInv, WriterInv, PrunerInv
  <2>4. WriterInv'
    BY <1>10
    DEF RmtreeDirectory, StoreInv, TypeOK, LockInv, NamedInv, WriterInv, PrunerInv
  <2>5. PrunerInv'
    BY <1>10
    DEF RmtreeDirectory, StoreInv, TypeOK, LockInv, NamedInv, WriterInv, PrunerInv
  <2>6. LatestReadable' /\ AttemptReadable' /\ AttemptCoversLatest'
    BY <1>10
    DEF RmtreeDirectory, StoreInv, TypeOK, NamedInv, WriterInv, PrunerInv, LatestReadable,
        AttemptReadable, AttemptCoversLatest, Complete, Readable
  <2>7. QED BY <2>1, <2>2, <2>3, <2>4, <2>5, <2>6 DEF StoreInv
<1>11. ASSUME PruneRaises(c) PROVE StoreInv'
  <2>1. TypeOK'
    BY <1>11
    DEF PruneRaises, storeVars, NoPrune, StoreInv, TypeOK, LatestReadable, AttemptReadable,
        WriterInv, Readable
  <2>2. LockInv'
    BY <1>11
    DEF PruneRaises, storeVars, NoPrune, StoreInv, TypeOK, LockInv
  <2>3. NamedInv'
    BY <1>11
    DEF PruneRaises, storeVars, NoPrune, StoreInv, TypeOK, NamedInv, WriterInv, PrunerInv
  <2>4. WriterInv'
    BY <1>11
    DEF PruneRaises, storeVars, NoPrune, StoreInv, TypeOK, LockInv, NamedInv, WriterInv,
        PrunerInv
  <2>5. PrunerInv'
    BY <1>11
    DEF PruneRaises, storeVars, NoPrune, StoreInv, TypeOK, LockInv, NamedInv, WriterInv,
        PrunerInv
  <2>6. LatestReadable' /\ AttemptReadable' /\ AttemptCoversLatest'
    BY <1>11
    DEF PruneRaises, storeVars, NoPrune, StoreInv, TypeOK, NamedInv, WriterInv, PrunerInv,
        LatestReadable, AttemptReadable, AttemptCoversLatest, Complete, Readable
  <2>7. QED BY <2>1, <2>2, <2>3, <2>4, <2>5, <2>6 DEF StoreInv
<1>12. ASSUME PruneReturns(c) PROVE StoreInv'
  <2>1. TypeOK'
    BY <1>12
    DEF PruneReturns, storeVars, pruneVars, StoreInv, TypeOK, LatestReadable,
        AttemptReadable, WriterInv, Readable
  <2>2. LockInv'
    BY <1>12
    DEF PruneReturns, storeVars, pruneVars, StoreInv, TypeOK, LockInv
  <2>3. NamedInv'
    BY <1>12
    DEF PruneReturns, storeVars, pruneVars, StoreInv, TypeOK, NamedInv, WriterInv, PrunerInv
  <2>4. WriterInv'
    BY <1>12
    DEF PruneReturns, storeVars, pruneVars, StoreInv, TypeOK, LockInv, NamedInv, WriterInv,
        PrunerInv
  <2>5. PrunerInv'
    BY <1>12
    DEF PruneReturns, storeVars, pruneVars, StoreInv, TypeOK, LockInv, NamedInv, WriterInv,
        PrunerInv
  <2>6. LatestReadable' /\ AttemptReadable' /\ AttemptCoversLatest'
    BY <1>12
    DEF PruneReturns, storeVars, pruneVars, StoreInv, TypeOK, NamedInv, WriterInv, PrunerInv,
        LatestReadable, AttemptReadable, AttemptCoversLatest, Complete, Readable
  <2>7. QED BY <2>1, <2>2, <2>3, <2>4, <2>5, <2>6 DEF StoreInv
<1>13. ASSUME EndRun(c) PROVE StoreInv'
  <2>1. TypeOK'
    BY <1>13
    DEF EndRun, storeVars, NoPrune, StoreInv, TypeOK, LatestReadable, AttemptReadable,
        WriterInv, Readable
  <2>2. LockInv'
    BY <1>13
    DEF EndRun, storeVars, NoPrune, StoreInv, TypeOK, LockInv
  <2>3. NamedInv'
    BY <1>13
    DEF EndRun, storeVars, NoPrune, StoreInv, TypeOK, NamedInv, WriterInv, PrunerInv
  <2>4. WriterInv'
    BY <1>13
    DEF EndRun, storeVars, NoPrune, StoreInv, TypeOK, LockInv, NamedInv, WriterInv,
        PrunerInv
  <2>5. PrunerInv'
    BY <1>13
    DEF EndRun, storeVars, NoPrune, StoreInv, TypeOK, LockInv, NamedInv, WriterInv,
        PrunerInv
  <2>6. LatestReadable' /\ AttemptReadable' /\ AttemptCoversLatest'
    BY <1>13
    DEF EndRun, storeVars, NoPrune, StoreInv, TypeOK, NamedInv, WriterInv, PrunerInv,
        LatestReadable, AttemptReadable, AttemptCoversLatest, Complete, Readable
  <2>7. QED BY <2>1, <2>2, <2>3, <2>4, <2>5, <2>6 DEF StoreInv
<1>14. QED BY <1>1, <1>2, <1>3, <1>4, <1>5, <1>6, <1>7, <1>8, <1>9, <1>10, <1>11, <1>12, <1>13 DEF Prune

\* What a pruner removes is neither protected nor young.
LEMMA VictimIsUnsafe ==
  ASSUME StoreInv, NEW c \in Collectors, pc[c] = "rmtree" PROVE ~Safe(c, victim[c])
BY StoreAssumption DEF StoreInv, TypeOK, PrunerInv, Safe, Ids

\* Readers preserve StoreInv.
LEMMA ReadInv ==
  ASSUME NEW r \in Readers, StoreInv, Read(r)
  PROVE  StoreInv'
<1> USE StoreAssumption DEF Ids, Locked, Writing, Failing, Pruning, Safe, Goto
<1>1. ASSUME ReadPointer(r) PROVE StoreInv'
  <2>1. reader' \in [Readers -> [at : {"idle", "manifest", "datasets", "error"},
                                id : 0..MaxSnapshot, replaced : BOOLEAN]]
    BY <1>1, StoreAssumption DEF ReadPointer, StoreInv, TypeOK, Ids
  <2>2. TypeOK'
    BY <1>1, <2>1
    DEF ReadPointer, storeVars, pruneVars, StoreInv, TypeOK, LatestReadable, AttemptReadable,
        WriterInv, Readable
  <2>3. LockInv'
    BY <1>1, <2>1
    DEF ReadPointer, storeVars, pruneVars, StoreInv, TypeOK, LockInv
  <2>4. NamedInv'
    BY <1>1, <2>1
    DEF ReadPointer, storeVars, pruneVars, StoreInv, TypeOK, NamedInv, WriterInv, PrunerInv
  <2>5. WriterInv'
    BY <1>1, <2>1
    DEF ReadPointer, storeVars, pruneVars, StoreInv, TypeOK, LockInv, NamedInv, WriterInv,
        PrunerInv
  <2>6. PrunerInv'
    BY <1>1, <2>1
    DEF ReadPointer, storeVars, pruneVars, StoreInv, TypeOK, LockInv, NamedInv, WriterInv,
        PrunerInv
  <2>7. LatestReadable' /\ AttemptReadable' /\ AttemptCoversLatest'
    BY <1>1, <2>1
    DEF ReadPointer, storeVars, pruneVars, StoreInv, TypeOK, NamedInv, WriterInv, PrunerInv,
        LatestReadable, AttemptReadable, AttemptCoversLatest, Complete, Readable
  <2>8. QED BY <2>2, <2>3, <2>4, <2>5, <2>6, <2>7 DEF StoreInv
<1>2. ASSUME ReadManifest(r) PROVE StoreInv'
  <2>1. reader' \in [Readers -> [at : {"idle", "manifest", "datasets", "error"},
                                id : 0..MaxSnapshot, replaced : BOOLEAN]]
    <3> DEFINE Record == [at : {"idle", "manifest", "datasets", "error"},
                          id : 0..MaxSnapshot, replaced : BOOLEAN]
    <3>1. reader \in [Readers -> Record]
      BY DEF StoreInv, TypeOK
    <3>2. [reader[r] EXCEPT !.at = "datasets"] \in Record
      BY <3>1, StoreAssumption
    <3>3. Unreadable(r) \in Record
      BY <3>1, StoreAssumption DEF Unreadable
    <3> HIDE DEF Record
    <3>4. reader' = [reader EXCEPT ![r] = [reader[r] EXCEPT !.at = "datasets"]]
            \/ reader' = [reader EXCEPT ![r] = Unreadable(r)]
      BY <1>2, <3>1 DEF ReadManifest
    <3>5. reader' \in [Readers -> Record]
      BY <3>1, <3>2, <3>3, <3>4
    <3>6. QED BY <3>5 DEF Record
  <2>2. TypeOK'
    BY <1>2, <2>1
    DEF ReadManifest, storeVars, pruneVars, StoreInv, TypeOK, LatestReadable,
        AttemptReadable, WriterInv, Readable
  <2>3. LockInv'
    BY <1>2, <2>1
    DEF ReadManifest, storeVars, pruneVars, StoreInv, TypeOK, LockInv
  <2>4. NamedInv'
    BY <1>2, <2>1
    DEF ReadManifest, storeVars, pruneVars, StoreInv, TypeOK, NamedInv, WriterInv, PrunerInv
  <2>5. WriterInv'
    BY <1>2, <2>1
    DEF ReadManifest, storeVars, pruneVars, StoreInv, TypeOK, LockInv, NamedInv, WriterInv,
        PrunerInv
  <2>6. PrunerInv'
    BY <1>2, <2>1
    DEF ReadManifest, storeVars, pruneVars, StoreInv, TypeOK, LockInv, NamedInv, WriterInv,
        PrunerInv
  <2>7. LatestReadable' /\ AttemptReadable' /\ AttemptCoversLatest'
    BY <1>2, <2>1
    DEF ReadManifest, storeVars, pruneVars, StoreInv, TypeOK, NamedInv, WriterInv, PrunerInv,
        LatestReadable, AttemptReadable, AttemptCoversLatest, Complete, Readable
  <2>8. QED BY <2>2, <2>3, <2>4, <2>5, <2>6, <2>7 DEF StoreInv
<1>3. ASSUME VerifyDatasets(r) PROVE StoreInv'
  <2>1. reader' \in [Readers -> [at : {"idle", "manifest", "datasets", "error"},
                                id : 0..MaxSnapshot, replaced : BOOLEAN]]
    <3> DEFINE Record == [at : {"idle", "manifest", "datasets", "error"},
                          id : 0..MaxSnapshot, replaced : BOOLEAN]
    <3>1. reader \in [Readers -> Record]
      BY DEF StoreInv, TypeOK
    <3>2. NoReader \in Record
      BY <3>1, StoreAssumption DEF NoReader
    <3>3. Unreadable(r) \in Record
      BY <3>1, StoreAssumption DEF Unreadable
    <3> HIDE DEF Record
    <3>4. reader' = [reader EXCEPT ![r] = NoReader]
            \/ reader' = [reader EXCEPT ![r] = Unreadable(r)]
      BY <1>3, <3>1 DEF VerifyDatasets
    <3>5. reader' \in [Readers -> Record]
      BY <3>1, <3>2, <3>3, <3>4
    <3>6. QED BY <3>5 DEF Record
  <2>2. TypeOK'
    BY <1>3, <2>1
    DEF VerifyDatasets, storeVars, pruneVars, StoreInv, TypeOK, LatestReadable,
        AttemptReadable, WriterInv, Readable
  <2>3. LockInv'
    BY <1>3, <2>1
    DEF VerifyDatasets, storeVars, pruneVars, StoreInv, TypeOK, LockInv
  <2>4. NamedInv'
    BY <1>3, <2>1
    DEF VerifyDatasets, storeVars, pruneVars, StoreInv, TypeOK, NamedInv, WriterInv,
        PrunerInv
  <2>5. WriterInv'
    BY <1>3, <2>1
    DEF VerifyDatasets, storeVars, pruneVars, StoreInv, TypeOK, LockInv, NamedInv, WriterInv,
        PrunerInv
  <2>6. PrunerInv'
    BY <1>3, <2>1
    DEF VerifyDatasets, storeVars, pruneVars, StoreInv, TypeOK, LockInv, NamedInv, WriterInv,
        PrunerInv
  <2>7. LatestReadable' /\ AttemptReadable' /\ AttemptCoversLatest'
    BY <1>3, <2>1
    DEF VerifyDatasets, storeVars, pruneVars, StoreInv, TypeOK, NamedInv, WriterInv,
        PrunerInv, LatestReadable, AttemptReadable, AttemptCoversLatest, Complete,
        Readable
  <2>8. QED BY <2>2, <2>3, <2>4, <2>5, <2>6, <2>7 DEF StoreInv
<1>4. QED BY <1>1, <1>2, <1>3 DEF Read

\* Snapshots growing old, and steps that change nothing, preserve StoreInv.
LEMMA ExpiresInv == StoreInv /\ Expires => StoreInv'
BY StoreAssumption
DEF Expires, pruneVars, StoreInv, TypeOK, LockInv, NamedInv, WriterInv, PrunerInv, Safe,
    LatestReadable, AttemptReadable, AttemptCoversLatest, Complete, Readable, Ids,
    Locked, Writing, Failing, Pruning

\* A backup only moves the lock, and only while no collector holds it.
LEMMA SaveInv == ASSUME NEW s \in Savers, StoreInv, Save(s) PROVE StoreInv'
<1>1. /\ holder' \in Savers \union {Nobody, holder} /\ holder \in {Nobody, s, holder'}
      /\ faults' \in 0..MaxFaults /\ UNCHANGED <<storeVars, pc, sid, pruneVars, reader>>
  BY StoreAssumption DEF Save, BackupLocks, BackupEnds, BackupFails, Fault, StoreInv, TypeOK
<1>2. TypeOK'
  BY <1>1 DEF storeVars, pruneVars, StoreInv, TypeOK
<1>3. LockInv'
  BY <1>1, StoreAssumption DEF StoreInv, TypeOK, LockInv
<1>4. NamedInv' /\ WriterInv' /\ PrunerInv'
  BY <1>1 DEF storeVars, pruneVars, StoreInv, NamedInv, WriterInv, PrunerInv, Safe
<1>5. LatestReadable' /\ AttemptReadable' /\ AttemptCoversLatest'
  BY <1>1 DEF storeVars, StoreInv, LatestReadable, AttemptReadable, AttemptCoversLatest, Complete
<1>6. QED BY <1>2, <1>3, <1>4, <1>5 DEF StoreInv

LEMMA StutterInv == StoreInv /\ UNCHANGED vars => StoreInv'
BY DEF vars, storeVars, pruneVars, StoreInv, TypeOK, LockInv, NamedInv, WriterInv, PrunerInv,
       Safe, LatestReadable, AttemptReadable, AttemptCoversLatest, Complete, Readable

\* Every step of the store preserves StoreInv.
LEMMA StoreInvStep == ASSUME StoreInv, [Next]_vars PROVE StoreInv'
<1>1. CASE Expires
  BY <1>1, ExpiresInv
<1>2. ASSUME NEW c \in Collectors, Run(c) PROVE StoreInv'
  BY <1>2, RunInv, PublishInv, PublishFailureInv, PruneInv DEF Run
<1>3. ASSUME NEW r \in Readers, Read(r) PROVE StoreInv'
  BY <1>3, ReadInv
<1>4. ASSUME NEW s \in Savers, Save(s) PROVE StoreInv'
  BY <1>4, SaveInv
<1>5. CASE UNCHANGED vars
  BY <1>5, StutterInv
<1>6. QED BY <1>1, <1>2, <1>3, <1>4, <1>5 DEF Next, StoreNext

\* StoreInv holds in every state of the store: types, who holds the lock, what the
\* writer has on disk at each step, and what a pruner may still remove.
LEMMA StoreInvariant == Spec => []StoreInv
<1>1. StoreInv /\ [Next]_vars => StoreInv'
  BY StoreInvStep
<1>2. QED BY <1>1, InitInv, PTL DEF Spec

\* Type correctness of the store.
THEOREM TypeCorrect == Spec => []TypeOK
BY StoreInvariant, PTL DEF StoreInv

\* latest.json always names a complete successful snapshot: no interleaving of
\* publishing, failing, pruning and being killed removes or tears it.
THEOREM LatestAlwaysReadable == Spec => []LatestReadable
BY StoreInvariant, PTL DEF StoreInv

\* latest_attempt.json always names a complete manifest.
THEOREM AttemptAlwaysReadable == Spec => []AttemptReadable
BY StoreInvariant, PTL DEF StoreInv

\* The attempt pointer is never behind the latest one.
THEOREM AttemptNeverBehind == Spec => []AttemptCoversLatest
BY StoreInvariant, PTL DEF StoreInv

(***************************************************************************)
(* Action properties: only three steps move a pointer.                     *)
(***************************************************************************)
PointerStep(c) == PointAttempt(c) \/ PointLatest(c) \/ FailPoint(c)

\* Every other step leaves both pointers alone.
LEMMA PointersMoveBy ==
  ASSUME [Next]_vars, ~\E c \in Collectors : PointerStep(c)
  PROVE  UNCHANGED <<latest, attempt>>
<1>1. CASE Expires
  BY <1>1 DEF Expires
<1>2. ASSUME NEW c \in Collectors, Run(c) PROVE UNCHANGED <<latest, attempt>>
  <2>1. ~PointAttempt(c) /\ ~PointLatest(c) /\ ~FailPoint(c)
    BY DEF PointerStep
  <2>2. CASE Publish(c) \/ PublishFails(c)
    BY <2>1, <2>2 DEF Publish, PublishFails, Stage, Rename, RecordRun, storeVars
  <2>3. CASE PublishFailure(c) \/ FailFails(c)
    BY <2>1, <2>3 DEF PublishFailure, FailFails, FailMkdir, FailOpen, FailWrite, FailRecord,
                      storeVars
  <2>4. CASE Prune(c)
    BY <2>4 DEF Prune, PruneBegin, ProtectLatest, ProtectAttempt, Skip, Visit, Looks, Keep,
                Stays, Expire, RmtreeManifest, RmtreeData, RmtreeDirectory, PruneRaises,
                PruneReturns, EndRun, storeVars
  <2>5. CASE BeginRun(c) \/ RunRefused(c) \/ Collect(c) \/ Unlock(c) \/ Kill(c)
    BY <2>5 DEF BeginRun, RunRefused, Collect, Unlock, Kill, storeVars
  <2>6. QED BY <1>2, <2>2, <2>3, <2>4, <2>5 DEF Run
<1>3. ASSUME NEW r \in Readers, Read(r) PROVE UNCHANGED <<latest, attempt>>
  BY <1>3 DEF Read, ReadPointer, ReadManifest, VerifyDatasets, storeVars
<1>4. ASSUME NEW s \in Savers, Save(s) PROVE UNCHANGED <<latest, attempt>>
  BY <1>4 DEF Save, BackupLocks, BackupEnds, BackupFails, storeVars
<1>5. CASE UNCHANGED vars
  BY <1>5 DEF vars, storeVars
<1>6. QED BY <1>1, <1>2, <1>3, <1>4, <1>5 DEF Next, StoreNext

\* Each of the three moves its pointer forward, from what the writer has on disk.
LEMMA PointersMoveTo ==
  ASSUME StoreInv, NEW c \in Collectors, PointerStep(c)
  PROVE  \/ /\ attempt' \in Nat /\ attempt' > attempt /\ latest' = latest
            /\ attempt' \in Ids /\ manifest' = manifest /\ Readable(attempt')
         \/ /\ attempt' = attempt /\ latest' = attempt /\ attempt \in Ids
            /\ manifest' = manifest /\ manifest[attempt] = "ok"
<1> USE DEF Goto, StoreInv, TypeOK, WriterInv, Ids, Writing, Failing, Readable
<1>1. CASE PointAttempt(c)
  BY <1>1 DEF PointAttempt
<1>2. CASE PointLatest(c)
  BY <1>2 DEF PointLatest
<1>3. CASE FailPoint(c)
  BY <1>3 DEF FailPoint
<1>4. QED BY <1>1, <1>2, <1>3 DEF PointerStep

\* Neither pointer ever goes back to an earlier snapshot.
THEOREM PointersNeverRegress == Spec => NeverRegress
<1>1. StoreInv /\ [Next]_vars => latest <= latest' /\ attempt <= attempt'
  <2> SUFFICES ASSUME StoreInv, [Next]_vars PROVE latest <= latest' /\ attempt <= attempt'
    OBVIOUS
  <2>1. latest \in Nat /\ attempt \in Nat /\ latest <= attempt
    BY StoreAssumption DEF StoreInv, TypeOK, AttemptCoversLatest
  <2>2. ASSUME NEW c \in Collectors, PointerStep(c) PROVE latest <= latest' /\ attempt <= attempt'
    BY <2>1, <2>2, PointersMoveTo
  <2>3. QED BY <2>1, <2>2, PointersMoveBy
<1>2. QED BY <1>1, StoreInvariant, PTL DEF Spec, NeverRegress

(***************************************************************************)
(* Refinement of AttemptLog                                                *)
(***************************************************************************)
\* No step touches the manifest the attempt pointer names.
LEMMA AttemptManifestKept ==
  ASSUME StoreInv, [Next]_vars, attempt # 0
  PROVE  manifest'[attempt] = manifest[attempt]
<1> USE DEF Goto, StoreInv, TypeOK, Ids
<1>1. CASE Expires
  BY <1>1 DEF Expires
<1>2. ASSUME NEW c \in Collectors, Run(c) PROVE manifest'[attempt] = manifest[attempt]
  <2>a. ASSUME NEW i, NEW x, manifest' = [manifest EXCEPT ![i] = x], i # attempt
        PROVE  manifest'[attempt] = manifest[attempt]
    BY <2>a
  <2>1. CASE Publish(c) \/ PublishFails(c)
    <3>1. CASE Rename(c)
      <4>1. attempt < sid[c]
        BY <3>1 DEF Rename, WriterInv
      <4>2. sid[c] # attempt
        BY <4>1
      <4>3. QED BY <3>1, <4>2, <2>a DEF Rename
    <3>2. CASE ~Rename(c)
      BY <2>1, <3>2 DEF Publish, PublishFails, Stage, PointAttempt, PointLatest, RecordRun,
                        storeVars
    <3>3. QED BY <3>1, <3>2
  <2>2. CASE PublishFailure(c) \/ FailFails(c)
    <3>1. CASE FailMkdir(c)
      BY <3>1, <2>a DEF FailMkdir, NamedInv
    <3>2. CASE FailOpen(c) \/ FailWrite(c)
      <4>1. attempt < sid[c]
        BY <3>2 DEF FailOpen, FailWrite, WriterInv
      <4>2. sid[c] # attempt
        BY <4>1
      <4>3. QED BY <3>2, <4>2, <2>a DEF FailOpen, FailWrite
    <3>3. CASE ~FailMkdir(c) /\ ~FailOpen(c) /\ ~FailWrite(c)
      BY <2>2, <3>3 DEF PublishFailure, FailFails, FailPoint, FailRecord, storeVars
    <3>4. QED BY <3>1, <3>2, <3>3
  <2>3. CASE RmtreeManifest(c) \/ RmtreeDirectory(c)
    <3>1. ~Safe(c, victim[c]) /\ Safe(c, attempt)
      BY <2>3, VictimIsUnsafe DEF RmtreeManifest, RmtreeDirectory, Goto, PrunerInv
    <3>2. victim[c] # attempt
      BY <3>1
    <3>3. QED BY <2>3, <3>2, <2>a DEF RmtreeManifest, RmtreeDirectory
  <2>4. CASE Prune(c) /\ ~RmtreeManifest(c) /\ ~RmtreeDirectory(c)
    BY <2>4 DEF Prune, PruneBegin, ProtectLatest, ProtectAttempt, Skip, Visit, Looks, Keep,
                Stays, Expire, RmtreeData, PruneRaises, PruneReturns, EndRun, storeVars
  <2>5. CASE BeginRun(c) \/ RunRefused(c) \/ Collect(c) \/ Unlock(c) \/ Kill(c)
    BY <2>5 DEF BeginRun, RunRefused, Collect, Unlock, Kill, storeVars
  <2>6. QED BY <1>2, <2>1, <2>2, <2>3, <2>4, <2>5 DEF Run
<1>3. ASSUME NEW r \in Readers, Read(r) PROVE manifest'[attempt] = manifest[attempt]
  BY <1>3 DEF Read, ReadPointer, ReadManifest, VerifyDatasets, storeVars
<1>4. ASSUME NEW s \in Savers, Save(s) PROVE manifest'[attempt] = manifest[attempt]
  BY <1>4 DEF Save, BackupLocks, BackupEnds, BackupFails, storeVars
<1>5. CASE UNCHANGED vars
  BY <1>5 DEF vars, storeVars
<1>6. QED BY <1>1, <1>2, <1>3, <1>4, <1>5 DEF Next, StoreNext

\* The two pointers of the store behave like AttemptLog: latest.json moves only to
\* the newest attempt, and only when that attempt succeeded.
THEOREM StoreImplementsAttemptLog == Spec => ImplementsAttemptLog
<1>1. Init => Log!Init
  BY DEF Init, Log!Init
<1>2. StoreInv /\ [Next]_vars => [Log!Next]_Log!vars
  <2> SUFFICES ASSUME StoreInv, [Next]_vars PROVE [Log!Next]_Log!vars
    OBVIOUS
  <2>1. attempt \in Nat /\ latest \in Nat
    BY StoreAssumption DEF StoreInv, TypeOK
  <2>2. CASE \E c \in Collectors : PointerStep(c)
    <3>1. CASE /\ attempt' \in Nat /\ attempt' > attempt /\ latest' = latest
               /\ attempt' \in Ids /\ manifest' = manifest /\ Readable(attempt')
      BY <2>1, <3>1 DEF Log!Next, Log!Attempt, Readable
    <3>2. CASE /\ attempt' = attempt /\ latest' = attempt /\ attempt \in Ids
               /\ manifest' = manifest /\ manifest[attempt] = "ok"
      BY <2>1, <3>2 DEF Log!Next, Log!Promote, Ids
    <3>3. QED BY <2>2, <3>1, <3>2, PointersMoveTo
  <2>3. CASE ~\E c \in Collectors : PointerStep(c)
    BY <2>3, PointersMoveBy, AttemptManifestKept DEF Log!vars
  <2>4. QED BY <2>2, <2>3
<1>3. QED BY <1>1, <1>2, StoreInvariant, PTL DEF Spec, ImplementsAttemptLog, Log!Spec


(***************************************************************************)
(* Readers                                                                 *)
(***************************************************************************)
ReaderIInv == ReaderInv /\ ReadFailsOnlyIfReplaced

\* A reader is left alone, or is marked when its pointer is replaced.
LEMMA ReadersUnderRun ==
  ASSUME StoreInv, ReaderIInv, NEW c \in Collectors, Run(c)
  PROVE  ReaderIInv'
<1>1. CASE PointLatest(c)
  <2>1. /\ latest' = sid[c]
        /\ reader' = [r \in Readers |->
             IF reader[r].at \in {"manifest", "datasets"} /\ latest # sid[c]
             THEN [reader[r] EXCEPT !.replaced = TRUE] ELSE reader[r]]
    BY <1>1 DEF PointLatest, Replaced
  <2>2. \A r \in Readers :
          /\ reader'[r].at = reader[r].at /\ reader'[r].id = reader[r].id
          /\ reader[r].at = "error" => reader'[r] = reader[r]
          /\ reader[r].at \in {"manifest", "datasets"} /\ latest # sid[c] => reader'[r].replaced
          /\ reader[r].replaced => reader'[r].replaced
    BY <2>1 DEF StoreInv, TypeOK
  <2>3. QED BY <2>1, <2>2 DEF ReaderIInv, ReaderInv, ReadFailsOnlyIfReplaced
<1>2. CASE ~PointLatest(c)
  <2>1. CASE Publish(c) \/ PublishFails(c)
    BY <1>2, <2>1 DEF Publish, PublishFails, Stage, Rename, PointAttempt, RecordRun, storeVars,
                      ReaderIInv, ReaderInv, ReadFailsOnlyIfReplaced
  <2>2. CASE PublishFailure(c) \/ FailFails(c)
    BY <2>2 DEF PublishFailure, FailFails, FailMkdir, FailOpen, FailWrite, FailPoint, FailRecord,
                storeVars, ReaderIInv, ReaderInv, ReadFailsOnlyIfReplaced
  <2>3. CASE BeginRun(c) \/ RunRefused(c) \/ Collect(c) \/ Unlock(c) \/ Kill(c)
    BY <2>3 DEF BeginRun, RunRefused, Collect, Unlock, Kill, storeVars, ReaderIInv, ReaderInv,
                ReadFailsOnlyIfReplaced
  <2>4. CASE Prune(c)
    BY <2>4 DEF Prune, PruneBegin, ProtectLatest, ProtectAttempt, Skip, Visit, Looks, Keep,
                Stays, Expire, RmtreeManifest, RmtreeData, RmtreeDirectory, PruneRaises,
                PruneReturns, EndRun, storeVars,
                ReaderIInv, ReaderInv, ReadFailsOnlyIfReplaced
  <2>5. QED BY <1>2, <2>1, <2>2, <2>3, <2>4 DEF Run
<1>3. QED BY <1>1, <1>2

\* A read of what latest.json names now does not fail.
LEMMA ReadersUnderRead ==
  ASSUME StoreInv, ReaderIInv, NEW r \in Readers, Read(r)
  PROVE  ReaderIInv'
<1> USE DEF ReaderIInv, ReaderInv, ReadFailsOnlyIfReplaced
<1>1. latest' = latest /\ \A q \in Readers \ {r} : reader'[q] = reader[q]
  BY DEF Read, ReadPointer, ReadManifest, VerifyDatasets, storeVars, StoreInv, TypeOK
<1>2. CASE ReadPointer(r)
  <2>1. reader'[r] = [at |-> "manifest", id |-> latest, replaced |-> FALSE] /\ latest # 0
    BY <1>2 DEF ReadPointer, StoreInv, TypeOK
  <2>2. QED BY <1>1, <2>1
<1>3. CASE ReadManifest(r)
  <2>1. /\ reader[r].at = "manifest"
        /\ reader'[r] = IF Readable(reader[r].id) THEN [reader[r] EXCEPT !.at = "datasets"]
                        ELSE Unreadable(r)
    BY <1>3 DEF ReadManifest, StoreInv, TypeOK
  <2>2. ~Readable(reader[r].id) => reader[r].replaced
    BY <2>1 DEF StoreInv, LatestReadable, Readable
  <2>3. reader[r] \in [at : {"idle", "manifest", "datasets", "error"},
                       id : 0..MaxSnapshot, replaced : BOOLEAN]
    BY DEF StoreInv, TypeOK
  <2>4. QED BY <1>1, <2>1, <2>2, <2>3 DEF Unreadable
<1>4. CASE VerifyDatasets(r)
  <2>1. /\ reader[r].at = "datasets"
        /\ reader'[r] = IF reader[r].id \in data THEN NoReader ELSE Unreadable(r)
    BY <1>4 DEF VerifyDatasets, StoreInv, TypeOK
  <2>2. reader[r].id \notin data => reader[r].replaced
    BY <2>1 DEF StoreInv, LatestReadable
  <2>3. QED BY <1>1, <2>1, <2>2 DEF Unreadable, NoReader
<1>5. QED BY <1>2, <1>3, <1>4 DEF Read

LEMMA ReaderStep == ASSUME StoreInv, ReaderIInv, [Next]_vars PROVE ReaderIInv'
<1>1. CASE Expires \/ UNCHANGED vars \/ \E s \in Savers : Save(s)
  BY <1>1 DEF Expires, vars, storeVars, Save, BackupLocks, BackupEnds, BackupFails,
              ReaderIInv, ReaderInv, ReadFailsOnlyIfReplaced
<1>2. QED BY <1>1, ReadersUnderRun, ReadersUnderRead DEF Next, StoreNext

(***************************************************************************)
(* Retention                                                               *)
(***************************************************************************)
Judged == {"sweep", "read", "rmtree", "pruned"}

\* A pruner that goes on removing its victim keeps it removed or being removed.
LEMMA StillGone ==
  ASSUME abandoned \subseteq abandoned', NEW i, manifest[i] = "absent" => manifest'[i] = "absent",
         \A d \in Collectors : pc[d] = "rmtree" /\ victim[d] = i =>
           \/ pc'[d] = "rmtree" /\ victim'[d] = i
           \/ manifest'[i] = "absent" \/ i \in abandoned'
  PROVE  Gone(i) => Gone(i)'
BY DEF Gone, Removing, RemoversOf

\* A step of c outside prune that creates and replaces no manifest.
Elsewhere(c) ==
  /\ pc[c] \notin Judged \union {"fail_open"} /\ pc'[c] \notin Judged \union {"fail_open"}
  /\ \A d \in Collectors \ {c} : pc'[d] = pc[d] /\ sid'[d] = sid[d]
  /\ UNCHANGED <<manifest, pruneVars>>

LEMMA ElsewhereInv ==
  ASSUME StoreInv, RetentionInv, NEW c \in Collectors, Elsewhere(c), faults' = faults
  PROVE  RetentionInv'
<1> USE DEF Elsewhere, pruneVars, Judged
<1>1. VictimInv'
  BY DEF RetentionInv, VictimInv
<1>2. \A i : Gone(i) => Gone(i)'
  BY DEF Gone, Removing, RemoversOf
<1>3. ASSUME faults = 0 PROVE BareInv'
  BY <1>2, <1>3 DEF RetentionInv, BareInv, Opening
<1>4. ASSUME faults = 0 PROVE SweepInv'
  <2>1. \A d \in Collectors : pc'[d] \in Judged => pc'[d] = pc[d]
    OBVIOUS
  <2>2. QED BY <1>2, <1>4, <2>1 DEF RetentionInv, SweepInv, Handled
<1>5. QED BY <1>1, <1>3, <1>4 DEF RetentionInv

LEMMA WrittenIsYoung ==
  ASSUME StoreInv, NEW i \in Ids, horizon < i
  PROVE  \A d \in Collectors : i \notin 1..cutoff[d]
BY StoreAssumption DEF StoreInv, TypeOK, PrunerInv, Ids

\* Writing the manifest of a young snapshot.
LEMMA WritesInv ==
  ASSUME StoreInv, RetentionInv, NEW c \in Collectors, NEW i \in Ids, NEW m, horizon < i,
         manifest' = [manifest EXCEPT ![i] = m], UNCHANGED <<pruneVars, faults>>,
         \A d \in Collectors \ {c} : pc'[d] = pc[d] /\ sid'[d] = sid[d],
         pc[c] \notin Judged, pc'[c] \notin Judged,
         pc[c] = "fail_open" => sid[c] = i,
         m = "none" => pc'[c] = "fail_open" /\ sid'[c] = i
  PROVE  RetentionInv'
<1> USE DEF Judged
<1>0. manifest'[i] = m /\ \A j \in Ids \ {i} : manifest'[j] = manifest[j]
  BY DEF StoreInv, TypeOK
<1>1. VictimInv'
  BY DEF RetentionInv, VictimInv, pruneVars
<1>2. ASSUME faults = 0 PROVE BareInv'
  <2>1. ASSUME NEW j \in Ids, manifest'[j] = "none" PROVE Gone(j)' \/ Opening(j)'
    <3>1. CASE j = i
      BY <1>0, <2>1, <3>1 DEF Opening
    <3>2. CASE j # i
      <4>1. manifest'[j] = manifest[j] /\ (Gone(j) \/ Opening(j))
        BY <1>0, <1>2, <2>1, <3>2 DEF RetentionInv, BareInv
      <4>2. QED BY <3>2, <4>1 DEF Gone, Removing, RemoversOf, Opening, pruneVars
    <3>3. QED BY <3>1, <3>2
  <2>2. QED BY <2>1 DEF BareInv
<1>3. ASSUME faults = 0 PROVE SweepInv'
  <2>1. \A d \in Collectors : pc'[d] \in Judged => pc'[d] = pc[d]
    OBVIOUS
  <2>2. \A j \in Ids \ {i} : Gone(j) => Gone(j)'
    BY <1>0 DEF Gone, Removing, RemoversOf, pruneVars
  <2>3. ASSUME NEW d \in Collectors PROVE i \notin 1..cutoff[d] /\ 1..cutoff[d] \subseteq Ids
    <3>1. i \notin 1..cutoff[d]
      BY WrittenIsYoung
    <3>2. cutoff[d] \in 0..MaxSnapshot
      BY DEF StoreInv, TypeOK
    <3>3. QED BY <3>1, <3>2, StoreAssumption DEF Ids
  <2>4. ASSUME NEW d \in Collectors, pc'[d] \in Judged, NEW j \in 1..cutoff'[d] \ protected'[d]
        PROVE  Handled(d, j)'
    <3>1. cutoff' = cutoff /\ protected' = protected /\ todo' = todo /\ pc'[d] = pc[d]
      BY <2>1, <2>4 DEF pruneVars
    <3>2. Handled(d, j)
      BY <1>3, <2>4, <3>1 DEF RetentionInv, SweepInv
    <3>3. j \in Ids \ {i}
      BY <2>3, <2>4, <3>1
    <3>4. QED BY <2>2, <3>1, <3>2, <3>3 DEF Handled, pruneVars
  <2>5. QED BY <2>4 DEF SweepInv
<1>4. QED BY <1>1, <1>2, <1>3 DEF RetentionInv

\* A step that is counted as a fault.
LEMMA FaultInv ==
  ASSUME StoreInv, RetentionInv, NEW c \in Collectors,
         PublishFails(c) \/ FailFails(c) \/ Kill(c)
  PROVE  RetentionInv'
<1>1. faults' # 0
  BY DEF PublishFails, FailFails, Kill, Fault, StoreInv, TypeOK
<1>2. CASE Kill(c)
  BY <1>1, <1>2 DEF Kill, NoPrune, RetentionInv, VictimInv, StoreInv, TypeOK
<1>3. CASE PublishFails(c) \/ FailFails(c)
  <2>1. /\ pc[c] \notin Judged /\ pc'[c] \notin Judged /\ UNCHANGED victim
        /\ \A d \in Collectors \ {c} : pc'[d] = pc[d]
    BY <1>3 DEF PublishFails, FailFails, pruneVars, Writing, Failing, StoreInv, TypeOK, Judged
  <2>2. QED BY <1>1, <2>1 DEF RetentionInv, VictimInv, Judged
<1>4. QED BY <1>2, <1>3

\* The scheduler, publish and publish_failure.
LEMMA WritersRetention ==
  ASSUME StoreInv, RetentionInv, NEW c \in Collectors,
         Publish(c) \/ PublishFailure(c) \/ BeginRun(c) \/ RunRefused(c) \/ Collect(c) \/ Unlock(c)
  PROVE  RetentionInv'
<1>1. CASE Rename(c)
  <2>1. sid[c] \in Ids /\ horizon < sid[c]
    BY <1>1 DEF Rename, Goto, StoreInv, TypeOK, WriterInv, Ids, Writing, Failing
  <2>2. /\ manifest' = [manifest EXCEPT ![sid[c]] = "ok"] /\ UNCHANGED <<pruneVars, faults>>
        /\ pc[c] = "rename" /\ pc'[c] = "point_attempt"
        /\ \A d \in Collectors \ {c} : pc'[d] = pc[d] /\ sid'[d] = sid[d]
    BY <1>1 DEF Rename, Goto, StoreInv, TypeOK
  <2>3. QED BY <2>1, <2>2, WritesInv DEF Judged
<1>2. CASE FailMkdir(c)
  <2>1. next \in Ids /\ horizon < next
    BY <1>2 DEF FailMkdir, StoreInv, TypeOK, NamedInv, Ids
  <2>2. /\ manifest' = [manifest EXCEPT ![next] = "none"] /\ UNCHANGED <<pruneVars, faults>>
        /\ pc[c] = "fail_mkdir" /\ pc'[c] = "fail_open" /\ sid'[c] = next
        /\ \A d \in Collectors \ {c} : pc'[d] = pc[d] /\ sid'[d] = sid[d]
    BY <1>2 DEF FailMkdir, Goto, StoreInv, TypeOK
  <2>3. QED BY <2>1, <2>2, WritesInv DEF Judged
<1>3. CASE FailOpen(c) \/ FailWrite(c)
  <2>1. sid[c] \in Ids /\ horizon < sid[c]
    BY <1>3 DEF FailOpen, FailWrite, Goto, StoreInv, TypeOK, WriterInv, Ids, Writing, Failing
  <2>2. PICK m \in {"torn", "error"} : manifest' = [manifest EXCEPT ![sid[c]] = m]
    BY <1>3 DEF FailOpen, FailWrite
  <2>3. /\ UNCHANGED <<pruneVars, faults>>
        /\ pc[c] \in {"fail_open", "fail_write"} /\ pc'[c] \in {"fail_write", "fail_point"}
        /\ \A d \in Collectors \ {c} : pc'[d] = pc[d] /\ sid'[d] = sid[d]
    BY <1>3 DEF FailOpen, FailWrite, Goto, StoreInv, TypeOK
  <2>4. QED BY <2>1, <2>2, <2>3, WritesInv DEF Judged
<1>4. CASE Stage(c) \/ PointAttempt(c) \/ PointLatest(c) \/ RecordRun(c)
  <2>1. Elsewhere(c) /\ faults' = faults
    BY <1>4 DEF Stage, PointAttempt, PointLatest, RecordRun, Goto, Elsewhere, Judged, storeVars,
                StoreInv, TypeOK
  <2>2. QED BY <2>1, ElsewhereInv
<1>5. CASE FailPoint(c) \/ FailRecord(c)
  <2>1. Elsewhere(c) /\ faults' = faults
    BY <1>5 DEF FailPoint, FailRecord, Goto, Elsewhere, Judged, storeVars, StoreInv, TypeOK
  <2>2. QED BY <2>1, ElsewhereInv
<1>6. CASE BeginRun(c) \/ RunRefused(c) \/ Collect(c) \/ Unlock(c)
  <2>1. Elsewhere(c) /\ faults' = faults
    BY <1>6 DEF BeginRun, RunRefused, Collect, Unlock, Goto, Elsewhere, Judged, storeVars,
                StoreInv, TypeOK
  <2>2. QED BY <2>1, ElsewhereInv
<1>7. QED BY <1>1, <1>2, <1>3, <1>4, <1>5, <1>6 DEF Publish, PublishFailure

\* A step of a pruner after which everything that was gone is gone, and what a pruner still
\* had to do is done or still to do.
LEMMA RetentionKept ==
  ASSUME StoreInv, RetentionInv, UNCHANGED <<faults, sid>>, VictimInv',
         \A j \in Ids : Gone(j) => Gone(j)', \A j \in Ids : Opening(j) => Opening(j)',
         \A j \in Ids : manifest'[j] = "none" => manifest[j] = "none" \/ Gone(j)',
         \A d \in Collectors : pc'[d] \in Judged =>
           \A j \in 1..cutoff'[d] \ protected'[d] :
             \/ faults = 0 => Handled(d, j)'
             \/ /\ pc[d] \in Judged /\ j \in 1..cutoff[d] \ protected[d]
                /\ Handled(d, j) => Handled(d, j)'
  PROVE  RetentionInv'
<1>1. ASSUME faults = 0 PROVE BareInv'
  BY <1>1 DEF RetentionInv, BareInv
<1>2. ASSUME faults = 0 PROVE SweepInv'
  BY <1>2 DEF RetentionInv, SweepInv, Judged
<1>3. QED BY <1>1, <1>2 DEF RetentionInv

\* What is older than a cutoff is not being opened.
LEMMA ExpiredIsWritten ==
  ASSUME StoreInv, NEW c \in Collectors, NEW i \in 1..cutoff[c]
  PROVE  i \in Ids /\ ~Opening(i)
<1>1. i \in Ids /\ i <= horizon /\ i # 0
  BY StoreAssumption DEF StoreInv, TypeOK, PrunerInv, Ids
<1>2. \A d \in Collectors : sid[d] = 0 \/ horizon < sid[d]
  BY DEF StoreInv, WriterInv
<1>3. i \in Nat /\ horizon \in Nat /\ \A d \in Collectors : sid[d] \in Nat
  BY StoreAssumption DEF StoreInv, TypeOK, Ids
<1>4. \A a, b \in Nat : i <= a /\ a < b => b # i
  BY <1>3
<1>5. \A d \in Collectors : sid[d] # i
  BY <1>1, <1>2, <1>3, <1>4
<1>6. QED BY <1>1, <1>5 DEF Opening

\* A pruner visits what it has to remove, and gives up a directory only when it is gone
\* or another pruner removes it too.
LEMMA PruneRetention ==
  ASSUME StoreInv, RetentionInv, NEW c \in Collectors, Prune(c)
  PROVE  RetentionInv'
<1> USE DEF Goto, Judged
<1>1. VictimInv /\ (faults = 0 => BareInv /\ SweepInv)
  BY DEF RetentionInv
<1>2. faults' = faults /\ UNCHANGED sid
  BY DEF Prune, PruneBegin, ProtectLatest, ProtectAttempt, Skip, Visit, Looks, Keep, Stays, Expire,
         RmtreeManifest, RmtreeData, RmtreeDirectory, PruneRaises, PruneReturns, EndRun, storeVars,
         pruneVars
<1>3. CASE PruneBegin(c) \/ ProtectLatest(c)
  <2>1. /\ pc[c] \in {"prune", "protect_latest"} /\ pc'[c] \in {"protect_latest", "protect_attempt"}
        /\ UNCHANGED <<manifest, victim, todo, abandoned>>
        /\ \A d \in Collectors \ {c} :
             pc'[d] = pc[d] /\ cutoff'[d] = cutoff[d] /\ protected'[d] = protected[d]
    BY <1>3 DEF PruneBegin, ProtectLatest, storeVars, pruneVars, StoreInv, TypeOK
  <2>2. VictimInv'
    BY <1>1, <2>1 DEF VictimInv
  <2>3. \A j : (Gone(j) => Gone(j)') /\ (Opening(j) => Opening(j)')
    BY <1>2, <2>1 DEF Gone, Removing, RemoversOf, Opening
  <2>4. QED BY <1>2, <2>1, <2>2, <2>3, RetentionKept DEF Handled
<1>4. CASE ProtectAttempt(c)
  <2>1. /\ pc[c] = "protect_attempt" /\ pc'[c] = "sweep"
        /\ UNCHANGED <<manifest, victim, cutoff, abandoned>>
        /\ todo'[c] = {i \in Ids : manifest[i] # "absent"}
        /\ \A d \in Collectors \ {c} :
             pc'[d] = pc[d] /\ todo'[d] = todo[d] /\ protected'[d] = protected[d]
    BY <1>4 DEF ProtectAttempt, storeVars, StoreInv, TypeOK
  <2>2. VictimInv'
    BY <1>1, <2>1 DEF VictimInv
  <2>3. \A j : (Gone(j) => Gone(j)') /\ (Opening(j) => Opening(j)')
    BY <1>2, <2>1 DEF Gone, Removing, RemoversOf, Opening
  <2>4. ASSUME NEW i \in 1..cutoff[c] PROVE Handled(c, i)'
    BY <2>1, ExpiredIsWritten DEF Handled, Gone
  <2>5. QED BY <1>2, <2>1, <2>2, <2>3, <2>4, RetentionKept DEF Handled
<1>5. ASSUME NEW i \in Ids, Skip(c, i) PROVE RetentionInv'
  <2>1. /\ pc[c] = "sweep" /\ UNCHANGED <<manifest, victim, cutoff, protected, pc, abandoned>>
        /\ todo'[c] = todo[c] \ {i} /\ \A d \in Collectors \ {c} : todo'[d] = todo[d]
    BY <1>5 DEF Skip, storeVars, StoreInv, TypeOK
  <2>2. VictimInv'
    BY <1>1, <2>1 DEF VictimInv
  <2>3. \A j : (Gone(j) => Gone(j)') /\ (Opening(j) => Opening(j)')
    BY <1>2, <2>1 DEF Gone, Removing, RemoversOf, Opening
  <2>4. ASSUME faults = 0, i \in 1..cutoff[c] \ protected[c] PROVE Gone(i)
    <3>1. manifest[i] \in {"absent", "none"} /\ ~Opening(i)
      BY <1>5, <2>4, ExpiredIsWritten DEF Skip
    <3>2. QED BY <1>1, <2>4, <3>1 DEF BareInv, Gone
  <2>5. ASSUME NEW d \in Collectors, NEW j \in 1..cutoff[d] \ protected[d], Handled(d, j), faults = 0
        PROVE  Handled(d, j)'
    BY <2>1, <2>3, <2>4, <2>5 DEF Handled
  <2>6. QED BY <1>1, <1>2, <2>1, <2>2, <2>3, <2>5, RetentionKept DEF SweepInv
<1>6. ASSUME NEW i \in Ids, Visit(c, i) PROVE RetentionInv'
  <2>1. /\ pc[c] = "sweep" /\ pc'[c] = "read" /\ UNCHANGED <<manifest, cutoff, protected, abandoned>>
        /\ todo'[c] = todo[c] \ {i} /\ victim'[c] = i /\ i # 0
        /\ \A d \in Collectors \ {c} :
             todo'[d] = todo[d] /\ victim'[d] = victim[d] /\ pc'[d] = pc[d]
    BY <1>6 DEF Visit, Looks, storeVars, StoreInv, TypeOK, Ids
  <2>2. VictimInv'
    BY <1>1, <2>1 DEF VictimInv
  <2>3. \A j : (Gone(j) => Gone(j)') /\ (Opening(j) => Opening(j)')
    BY <1>2, <2>1 DEF Gone, Removing, RemoversOf, Opening
  <2>4. \A d \in Collectors : \A j \in 1..cutoff[d] : Handled(d, j) => Handled(d, j)'
    BY <2>1, <2>3 DEF Handled
  <2>5. QED BY <1>2, <2>1, <2>2, <2>3, <2>4, RetentionKept
<1>7. CASE Keep(c)
  <2>1. /\ pc[c] = "read" /\ pc'[c] = "sweep" /\ victim'[c] = 0 /\ victim[c] > cutoff[c]
        /\ UNCHANGED <<manifest, cutoff, protected, todo, abandoned>>
        /\ \A d \in Collectors \ {c} : victim'[d] = victim[d] /\ pc'[d] = pc[d]
    BY <1>7 DEF Keep, Stays, storeVars, StoreInv, TypeOK
  <2>2. VictimInv'
    BY <1>1, <2>1 DEF VictimInv
  <2>3. \A j : (Gone(j) => Gone(j)') /\ (Opening(j) => Opening(j)')
    BY <1>2, <2>1 DEF Gone, Removing, RemoversOf, Opening
  <2>4. \A j \in 1..cutoff[c] : victim[c] # j
    BY <2>1, StoreAssumption DEF StoreInv, TypeOK, Ids
  <2>5. \A d \in Collectors : \A j \in 1..cutoff[d] : Handled(d, j) => Handled(d, j)'
    BY <2>1, <2>3, <2>4 DEF Handled
  <2>6. QED BY <1>2, <2>1, <2>2, <2>3, <2>5, RetentionKept
<1>8. CASE Expire(c)
  <2>1. /\ pc[c] = "read" /\ pc'[c] = "rmtree"
        /\ UNCHANGED <<manifest, cutoff, protected, todo, victim, abandoned>>
        /\ \A d \in Collectors \ {c} : pc'[d] = pc[d]
    BY <1>8 DEF Expire, storeVars, StoreInv, TypeOK
  <2>2. VictimInv'
    BY <1>1, <2>1 DEF VictimInv
  <2>3. \A j : (Gone(j) => Gone(j)') /\ (Opening(j) => Opening(j)')
    BY <1>2, <2>1 DEF Gone, Removing, RemoversOf, Opening
  <2>4. Gone(victim[c])'
    BY <2>1 DEF Gone, Removing, RemoversOf
  <2>5. \A d \in Collectors : \A j \in 1..cutoff[d] : Handled(d, j) => Handled(d, j)'
    BY <2>1, <2>3, <2>4 DEF Handled
  <2>6. QED BY <1>2, <2>1, <2>2, <2>3, <2>5, RetentionKept
<1>9. CASE RmtreeManifest(c)
  <2>1. /\ pc[c] = "rmtree" /\ manifest[victim[c]] # "absent" /\ victim[c] \in Ids
        /\ manifest' = [manifest EXCEPT ![victim[c]] = "none"] /\ UNCHANGED <<pruneVars, pc>>
    BY <1>9 DEF RmtreeManifest, Readable, StoreInv, TypeOK
  <2>2. VictimInv'
    BY <1>1, <2>1 DEF VictimInv, pruneVars
  <2>3. \A j \in Ids : j # victim[c] => manifest'[j] = manifest[j]
    BY <2>1 DEF StoreInv, TypeOK
  <2>4. Gone(victim[c]) /\ Gone(victim[c])'
    BY <2>1 DEF Gone, Removing, RemoversOf, pruneVars
  <2>5. \A j \in Ids : (Gone(j) => Gone(j)') /\ (Opening(j) => Opening(j)')
    BY <1>2, <2>1, <2>3, <2>4 DEF Gone, Removing, RemoversOf, Opening, pruneVars
  <2>6. \A d \in Collectors : \A j \in 1..cutoff[d] : Handled(d, j) => Handled(d, j)'
    BY <2>1, <2>5, ExpiredIsWritten DEF Handled, pruneVars
  <2>7. QED BY <1>2, <2>1, <2>2, <2>3, <2>4, <2>5, <2>6, RetentionKept DEF pruneVars
<1>10. CASE RmtreeData(c) \/ PruneReturns(c)
  <2>1. /\ UNCHANGED <<manifest, pruneVars>> /\ \A d \in Collectors \ {c} : pc'[d] = pc[d]
        /\ \/ pc'[c] = pc[c]
           \/ pc[c] = "sweep" /\ pc'[c] = "pruned" /\ todo[c] = {}
    BY <1>10 DEF RmtreeData, PruneReturns, storeVars, StoreInv, TypeOK
  <2>2. VictimInv'
    BY <1>1, <2>1 DEF VictimInv, pruneVars
  <2>3. \A j : (Gone(j) => Gone(j)') /\ (Opening(j) => Opening(j)')
    BY <1>2, <2>1 DEF Gone, Removing, RemoversOf, Opening, pruneVars
  <2>4. \A d \in Collectors : \A j \in 1..cutoff[d] : Handled(d, j) => Handled(d, j)'
    BY <2>1, <2>3 DEF Handled, pruneVars
  <2>5. QED BY <1>2, <2>1, <2>2, <2>3, <2>4, RetentionKept DEF pruneVars
<1>11. CASE RmtreeDirectory(c)
  <2>1. /\ pc[c] = "rmtree" /\ pc'[c] = "sweep" /\ victim'[c] = 0
        /\ manifest' = [manifest EXCEPT ![victim[c]] = "absent"] /\ victim[c] \in Ids
        /\ UNCHANGED <<cutoff, protected, todo, abandoned>>
        /\ \A d \in Collectors \ {c} : victim'[d] = victim[d] /\ pc'[d] = pc[d]
    BY <1>11 DEF RmtreeDirectory, StoreInv, TypeOK
  <2>2. VictimInv'
    BY <1>1, <2>1 DEF VictimInv
  <2>3. manifest'[victim[c]] = "absent" /\ \A j \in Ids : j # victim[c] => manifest'[j] = manifest[j]
    BY <2>1 DEF StoreInv, TypeOK
  <2>4. ASSUME NEW j \in Ids PROVE Gone(j) => Gone(j)'
    BY <2>1, <2>3, StillGone
  <2>5. \A j \in Ids : Opening(j) => Opening(j)'
    BY <1>2, <2>1 DEF Opening
  <2>6. \A d \in Collectors : \A j \in 1..cutoff[d] : Handled(d, j) => Handled(d, j)'
    BY <2>1, <2>4, ExpiredIsWritten DEF Handled
  <2>7. \A j \in Ids : manifest'[j] = "none" => manifest[j] = "none"
    BY <2>3
  <2>8. \A d \in Collectors : pc'[d] \in Judged => pc[d] \in Judged
    BY <2>1
  <2>9. QED BY <1>2, <2>1, <2>2, <2>4, <2>5, <2>6, <2>7, <2>8, RetentionKept
<1>12. CASE PruneRaises(c) \/ EndRun(c)
  <2>1. /\ pc'[c] = "idle" /\ pc[c] # "fail_open" /\ victim'[c] = 0 /\ UNCHANGED manifest
        /\ abandoned \subseteq abandoned' /\ (pc[c] = "rmtree" => victim[c] \in abandoned')
        /\ \A d \in Collectors \ {c} :
             /\ victim'[d] = victim[d] /\ pc'[d] = pc[d] /\ cutoff'[d] = cutoff[d]
             /\ protected'[d] = protected[d] /\ todo'[d] = todo[d]
    BY <1>12 DEF PruneRaises, EndRun, NoPrune, storeVars, StoreInv, TypeOK
  <2>2. VictimInv'
    BY <1>1, <2>1 DEF VictimInv
  <2>3. ASSUME NEW j PROVE Gone(j) => Gone(j)'
    BY <2>1, StillGone
  <2>4. \A j : Opening(j) => Opening(j)'
    BY <1>2, <2>1 DEF Opening
  <2>5. \A d \in Collectors \ {c} : \A j : Handled(d, j) => Handled(d, j)'
    BY <2>1, <2>3 DEF Handled
  <2>6. QED BY <1>2, <2>1, <2>2, <2>3, <2>4, <2>5, RetentionKept
<1>13. QED BY <1>3, <1>4, <1>5, <1>6, <1>7, <1>8, <1>9, <1>10, <1>11, <1>12 DEF Prune

LEMMA RetentionStep == ASSUME StoreInv, RetentionInv, [Next]_vars PROVE RetentionInv'
<1>1. CASE Expires \/ UNCHANGED vars \/ \E r \in Readers : Read(r)
  <2>1. UNCHANGED <<manifest, pruneVars, pc, sid, faults>>
    BY <1>1 DEF Expires, vars, storeVars, Read, ReadPointer, ReadManifest, VerifyDatasets
  <2>2. QED BY <2>1 DEF pruneVars, RetentionInv, VictimInv, BareInv, SweepInv, Handled, Gone,
                        Removing, RemoversOf, Opening
<1>2. CASE \E s \in Savers : Save(s)
  <2>1. UNCHANGED <<manifest, pruneVars, pc, sid>> /\ (faults' = 0 => faults = 0)
    BY <1>2 DEF Save, BackupLocks, BackupEnds, BackupFails, Fault, storeVars, StoreInv, TypeOK
  <2>2. QED BY <2>1 DEF pruneVars, RetentionInv, VictimInv, BareInv, SweepInv, Handled, Gone,
                        Removing, RemoversOf, Opening
<1>3. QED BY <1>1, <1>2, FaultInv, WritersRetention, PruneRetention DEF Next, StoreNext, Run

\* The inductive invariant of the whole store.
THEOREM InductiveInvariant == Spec => []IInv
<1>1. Init => RetentionInv
  BY DEF Init, RetentionInv, VictimInv, BareInv, SweepInv
<1>2. StoreInv /\ RetentionInv /\ [Next]_vars => RetentionInv'
  BY RetentionStep
<1>3. Init => ReaderIInv
  BY DEF Init, NoReader, ReaderIInv, ReaderInv, ReadFailsOnlyIfReplaced
<1>4. StoreInv /\ ReaderIInv /\ [Next]_vars => ReaderIInv'
  BY ReaderStep
<1>5. StoreInv /\ RetentionInv /\ ReaderIInv => IInv
  BY DEF ReaderIInv, IInv
<1>6. QED BY <1>1, <1>2, <1>3, <1>4, <1>5, StoreInvariant, PTL DEF Spec

\* Until something fails, a prune that returns has left no expired snapshot that is not
\* pointed to, except to another pruner that is or was removing it too.
THEOREM RetentionHolds == Spec => []RetentionUnlessFault
<1>1. IInv => RetentionUnlessFault
  BY DEF IInv, RetentionInv, RetentionUnlessFault, SweepInv, Handled
<1>2. QED BY <1>1, InductiveInvariant, PTL

\* A read of the latest snapshot fails only where the pointer it followed was replaced
\* meanwhile.
THEOREM ReadsSucceedUnlessReplaced == Spec => []ReadFailsOnlyIfReplaced
BY InductiveInvariant, PTL DEF IInv

USE BackupAssumption

(***************************************************************************)
(* The store beside a backup                                               *)
(***************************************************************************)
LockTaken == (holder = Saver) <=> (bpc \in LockHeld)

\* The backup process is no collector, and nobody is not it.
LEMMA SaverIsOther == Saver \notin Collectors /\ Saver # Nobody /\ Nobody \notin Collectors
BY StoreAssumption

\* A step of the store gives the lock neither to the backup nor away from it.
LEMMA LockUnderStore == ASSUME StoreInv, StoreNext PROVE (holder' = Saver) <=> (holder = Saver)
<1>1. CASE \E c \in Collectors : BeginRun(c) \/ Unlock(c) \/ Kill(c)
  BY <1>1, SaverIsOther
  DEF BeginRun, Unlock, Kill, Goto, StoreInv, LockInv, Locked, TypeOK
<1>2. CASE \E c \in Collectors : RunRefused(c) \/ Collect(c) \/ Publish(c) \/ PublishFails(c)
  BY <1>2 DEF RunRefused, Collect, Publish, PublishFails, Stage, Rename, PointAttempt, PointLatest,
              RecordRun
<1>3. CASE \E c \in Collectors : PublishFailure(c) \/ FailFails(c)
  BY <1>3 DEF PublishFailure, FailFails, FailMkdir, FailOpen, FailWrite, FailPoint, FailRecord
<1>4. CASE \E c \in Collectors : Prune(c)
  BY <1>4 DEF Prune, PruneBegin, ProtectLatest, ProtectAttempt, Skip, Visit, Looks, Keep,
              Stays, Expire, RmtreeManifest, RmtreeData, RmtreeDirectory, PruneRaises, PruneReturns,
              EndRun
<1>5. CASE Expires \/ \E r \in Readers : Read(r)
  BY <1>5 DEF Expires, Read, ReadPointer, ReadManifest, VerifyDatasets
<1>6. QED BY <1>1, <1>2, <1>3, <1>4, <1>5 DEF StoreNext, Run

\* Under the lock of the backup the store only loses what a pruner was removing.
LEMMA StoreUnderLock ==
  ASSUME StoreInv, StoreNext, holder = Saver
  PROVE  /\ UNCHANGED latest /\ Listed' \subseteq Listed
         /\ (\A c \in Collectors : pc[c] # "rmtree") => UNCHANGED <<manifest, data>>
<1>1. \A c \in Collectors : pc[c] \notin Locked
  BY SaverIsOther DEF StoreInv, LockInv
<1>2. \A c \in Collectors : pc[c] = "rmtree" => victim[c] \in Ids
  BY DEF StoreInv, TypeOK
<1>3. CASE \E c \in Collectors : BeginRun(c) \/ RunRefused(c) \/ Collect(c) \/ Unlock(c) \/ Kill(c)
  BY <1>3 DEF BeginRun, RunRefused, Collect, Unlock, Kill, storeVars, Listed
<1>4. CASE \E c \in Collectors : Publish(c) \/ PublishFails(c) \/ PublishFailure(c) \/ FailFails(c)
  BY <1>1, <1>4 DEF Publish, PublishFails, Stage, Rename, PointAttempt, PointLatest, RecordRun,
    PublishFailure, FailFails, FailMkdir, FailOpen, FailWrite, FailPoint, FailRecord, Goto,
    Locked, Writing, Failing
<1>5. ASSUME NEW c \in Collectors, RmtreeManifest(c) \/ RmtreeData(c) \/ RmtreeDirectory(c)
      PROVE  UNCHANGED latest /\ Listed' \subseteq Listed /\ pc[c] = "rmtree"
  BY <1>2, <1>5 DEF RmtreeManifest, RmtreeData, RmtreeDirectory, Goto, Readable, Listed, StoreInv,
                    TypeOK
<1>6. ASSUME NEW c \in Collectors, Prune(c),
             ~(RmtreeManifest(c) \/ RmtreeData(c) \/ RmtreeDirectory(c))
      PROVE  UNCHANGED <<latest, manifest, data>>
  BY <1>6 DEF Prune, PruneBegin, ProtectLatest, ProtectAttempt, Skip, Visit, Looks, Keep,
              Stays, Expire, PruneRaises, PruneReturns, EndRun, storeVars
<1>7. CASE \E c \in Collectors : Prune(c)
  BY <1>5, <1>6, <1>7 DEF Listed
<1>8. CASE Expires \/ \E r \in Readers : Read(r)
  BY <1>8 DEF Expires, Read, ReadPointer, ReadManifest, VerifyDatasets, storeVars, Listed
<1>9. QED BY <1>3, <1>4, <1>7, <1>8 DEF StoreNext, Run

\* Saving and restoring: of the store and the lock, they only take and release the lock.
LEMMA SavingKeepsStore ==
  ASSUME Saving \/ SavingFails \/ BackupExpires \/ Restore
  PROVE  StoreKept
<1>1. CASE \/ StartBackup \/ TakeLock \/ RetryLock \/ LockRefused \/ VerifyLatest \/ NoLatest
           \/ AddPointers \/ ListSnapshots \/ EnterSnapshot \/ AddFiles \/ Vanished
  BY <1>1 DEF StartBackup, TakeLock, RetryLock, LockRefused, VerifyLatest, NoLatest, AddPointers,
              ListSnapshots, EnterSnapshot, AddFiles, Vanished, Abandon
<1>2. CASE \/ CloseArchive \/ ReplaceArchive \/ WriteSidecar \/ PruneBackups \/ BackupDone
           \/ \E i \in Ids : VerifySnapshot(i) \/ SkipVanished(i) \/ Unsound(i)
           \/ \E b \in Backups : UnlinkArchive(b) \/ UnlinkSidecar(b)
  BY <1>2 DEF CloseArchive, ReplaceArchive, WriteSidecar, PruneBackups, BackupDone,
              VerifySnapshot, SkipVanished, Unsound, Abandon, UnlinkArchive, UnlinkSidecar
<1>3. CASE SavingFails \/ BackupExpires \/ Restore
  BY <1>3 DEF SavingFails, BackupExpires, Restore, Extract, FinishRestore, StartRestore
<1>4. QED BY <1>1, <1>2, <1>3 DEF Saving
\* Its other steps do to the store what SnapshotStore lets a Saver do.
LEMMA SavingIsSave ==
  ASSUME StoreInv, LockTaken, Saving \/ SavingFails \/ BackupExpires \/ Restore
  PROVE  (Save(Saver) \/ UNCHANGED vars) /\ LockTaken'
<1> USE DEF LockTaken, LockHeld, Walking, To
<1>1. StoreKept /\ Saver # Nobody
  BY SavingKeepsStore, SaverIsOther
<1>2. CASE TakeLock
  BY <1>1, <1>2, SaverIsOther DEF TakeLock, NotFaulty, Save, BackupLocks, StoreKept
<1>3. CASE CloseArchive
  BY <1>1, <1>3 DEF CloseArchive, NotFaulty, Save, BackupEnds, StoreKept
<1>4. CASE NoLatest \/ Vanished \/ \E i \in Ids : Unsound(i)
  <2>1. bpc \in LockHeld /\ bpc' = "idle" /\ holder' = Nobody /\ NotFaulty
    BY <1>4 DEF NoLatest, Vanished, Unsound, Abandon
  <2>2. QED BY <1>1, <2>1 DEF NotFaulty, Save, BackupEnds, StoreKept
<1>5. CASE SavingFails
  BY <1>1, <1>5, SaverIsOther DEF SavingFails, Save, BackupFails, StoreKept
<1>6. CASE \/ StartBackup \/ RetryLock \/ LockRefused \/ VerifyLatest \/ AddPointers
           \/ ListSnapshots \/ EnterSnapshot \/ AddFiles \/ ReplaceArchive \/ WriteSidecar
  <2>1. NotFaulty /\ UNCHANGED holder /\ ((bpc' \in LockHeld) <=> (bpc \in LockHeld))
    BY <1>6 DEF StartBackup, RetryLock, LockRefused, VerifyLatest, AddPointers, ListSnapshots,
                EnterSnapshot, AddFiles, ReplaceArchive, WriteSidecar
  <2>2. QED BY <1>1, <2>1 DEF NotFaulty, StoreKept, vars
<1>7. CASE \/ PruneBackups \/ BackupDone \/ \E i \in Ids : VerifySnapshot(i) \/ SkipVanished(i)
           \/ \E b \in Backups : UnlinkArchive(b) \/ UnlinkSidecar(b)
  <2>1. NotFaulty /\ UNCHANGED holder /\ ((bpc' \in LockHeld) <=> (bpc \in LockHeld))
    BY <1>7 DEF PruneBackups, BackupDone, VerifySnapshot, SkipVanished, UnlinkArchive,
                UnlinkSidecar, makeRest
  <2>2. QED BY <1>1, <2>1 DEF NotFaulty, StoreKept, vars
<1>8. CASE BackupExpires \/ Restore
  <2>1. NotFaulty /\ UNCHANGED <<holder, bpc>>
    BY <1>8 DEF BackupExpires, Restore, Extract, FinishRestore, StartRestore, makeVars
  <2>2. QED BY <1>1, <2>1 DEF NotFaulty, StoreKept, vars
<1>9. QED BY <1>2, <1>3, <1>4, <1>5, <1>6, <1>7, <1>8 DEF Saving

\* Every step of the system is one of the store or leaves it alone.
LEMMA BackupStep ==
  ASSUME StoreInv, LockTaken, [BackupNext]_allVars
  PROVE  [Next]_vars /\ LockTaken'
<1>1. CASE StoreStep
  BY <1>1, LockUnderStore DEF StoreStep, Next, LockTaken
<1>2. CASE Saving \/ SavingFails \/ BackupExpires \/ Restore
  BY <1>2, SavingIsSave DEF Next
<1>3. CASE UNCHANGED allVars
  BY <1>3 DEF allVars, vars, backupVars, makeVars, LockTaken
<1>4. QED BY <1>1, <1>2, <1>3 DEF BackupNext

\* The store and the lock beside a backup.
LEMMA StoreBesideBackup == BackupSpec => [](StoreInv /\ LockTaken)
<1>1. BackupInit => StoreInv /\ LockTaken
  BY InitInv, SaverIsOther DEF BackupInit, Init, LockTaken, LockHeld, Walking
<1>2. StoreInv /\ LockTaken /\ [BackupNext]_allVars => (StoreInv /\ LockTaken)'
  BY BackupStep, StoreInvStep
<1>3. QED BY <1>1, <1>2, PTL DEF BackupSpec

\* The collectors, readers and pruners beside a backup behave as in SnapshotStore: what is
\* proved of the store holds whatever a backup does.
THEOREM BackupImplementsStore == BackupSpec => Spec
<1>1. BackupInit => Init
  BY DEF BackupInit
<1>2. StoreInv /\ LockTaken /\ [BackupNext]_allVars => [Next]_vars
  BY BackupStep
<1>3. QED BY <1>1, <1>2, StoreBesideBackup, PTL DEF BackupSpec, Spec

(***************************************************************************)
(* The invariant: what each step may disturb                               *)
(***************************************************************************)
\* What concerns the archive being made, and what concerns the backups that are there.
ArchiveInv == MakingInv /\ UnprunedInv
PairsInv == BackupsInv /\ BackupsRestoreUnlessPruned

LEMMA LeastId == ASSUME NEW S \in SUBSET Ids, S # {} PROVE Min(S) \in S
<1>1. S \subseteq Nat
  BY StoreAssumption DEF Ids
<1>2. PICK x \in S : \A y \in S : ~(<<y, x>> \in OpToRel(<, Nat))
  BY <1>1, NatLessThanWellFounded, WFMin
<1>3. \A y \in S : x <= y
  <2> SUFFICES ASSUME NEW y \in S PROVE x <= y
    OBVIOUS
  <2>1. x \in Nat /\ y \in Nat
    BY <1>1
  <2>2. ~(y < x)
    BY <1>2, <2>1 DEF OpToRel
  <2>3. QED BY <2>1, <2>2
<1>4. QED BY <1>3 DEF Min

\* A step of the store.
LEMMA StoreStepSafety == ASSUME StoreInv, Safety, StoreStep PROVE Safety'
<1>1. /\ UNCHANGED <<bpc, tries, unread, entered, verified, temp, backups, backup, expired>>
      /\ UNCHANGED <<oldSidecars, rpc, source, restoring, target>>
      /\ pruned' = (pruned \/ (bpc \in Walking /\ \E c \in Collectors : pc[c] = "rmtree"))
  BY DEF StoreStep, restoreVars
<1>2. /\ BackupTypeOK /\ MakingInv /\ UnprunedInv /\ BackupsInv
      /\ BackupsRestoreUnlessPruned /\ RestoredAsVerified
  BY DEF Safety
<1>3. BackupTypeOK'
  <2>1. (holder' = Saver) <=> (holder = Saver)
    BY LockUnderStore DEF StoreStep
  <2>2. QED BY <1>1, <1>2, <2>1 DEF BackupTypeOK
<1>4. MakingInv'
  <2>1. bpc \in {"verify", "snapshots"} => Listed' \subseteq Listed
    BY <1>2, StoreUnderLock DEF BackupTypeOK, LockHeld, Walking, StoreStep
  <2>2. QED BY <1>1, <1>2, <2>1 DEF MakingInv, Snapshots
<1>5. UnprunedInv'
  <2>1. CASE pruned'
    BY <2>1 DEF UnprunedInv
  <2>2. CASE ~pruned' /\ bpc \in Walking
    <3>1. UNCHANGED <<latest, manifest, data>> /\ ~pruned /\ UNCHANGED pruned
      BY <1>1, <1>2, <2>2, StoreUnderLock DEF BackupTypeOK, LockHeld, StoreStep
    <3>2. QED BY <1>1, <1>2, <3>1 DEF UnprunedInv, VerifiedInv, Listed, Archived, Complete,
                                      Readable, Sound, Snapshots
  <2>3. CASE ~pruned' /\ bpc \notin Walking
    BY <1>1, <1>2, <2>3 DEF UnprunedInv, Walking, Sound, Snapshots
  <2>4. QED BY <2>1, <2>2, <2>3
<1>6. BackupsInv' /\ BackupsRestoreUnlessPruned'
  BY <1>1, <1>2 DEF BackupsInv, BackupsRestoreUnlessPruned, Describes, Pair, Matches, Snapshots, Sound
<1>7. RestoredAsVerified'
  BY <1>1, <1>2 DEF RestoredAsVerified, Snapshots
<1>8. QED BY <1>3, <1>4, <1>5, <1>6, <1>7 DEF Safety

\* Steps that leave the backups and the restored store alone.
LEMMA KeptPairs ==
  ASSUME PairsInv, Keeping, bpc' \in Making => bpc \in Making PROVE PairsInv'
BY DEF PairsInv, Keeping, restoreVars, BackupsInv, BackupsRestoreUnlessPruned, Describes, Pair,
       Matches, Snapshots, Sound

LEMMA KeptRestored ==
  ASSUME RestoredAsVerified, UNCHANGED <<restoring, target>> PROVE RestoredAsVerified'
BY DEF RestoredAsVerified, Snapshots

\* A backup that is given up leaves nothing to be sound.
LEMMA IdleArchive ==
  ASSUME bpc' \in {"idle", "prune", "unlink_archive", "unlink_sidecar"}, temp' = EmptyStore,
         verified' = NothingVerified
  PROVE  ArchiveInv'
BY DEF ArchiveInv, MakingInv, UnprunedInv

(***************************************************************************)
(* create_backup                                                           *)
(***************************************************************************)
LEMMA Parts ==
  ASSUME Safety
  PROVE  BackupTypeOK /\ MakingInv /\ UnprunedInv /\ ArchiveInv /\ PairsInv /\ BackupsInv
         /\ RestoredAsVerified
BY DEF Safety, ArchiveInv, PairsInv

LEMMA Whole == ASSUME BackupTypeOK, ArchiveInv, PairsInv, RestoredAsVerified PROVE Safety
BY DEF Safety, ArchiveInv, PairsInv

\* What Forget leaves is of its type.
LEMMA Forgotten ==
  ASSUME Forget
  PROVE  /\ tries' \in 0..LockAttempts /\ unread' \subseteq Ids
         /\ verified' \in [latest : 0..MaxSnapshot, snapshots : SUBSET Ids]
         /\ entered' \in [id : 0..MaxSnapshot, manifest : BOOLEAN, data : BOOLEAN]
         /\ temp' \in Stores /\ pruned' \in BOOLEAN
<1>1. 0 \in 0..MaxSnapshot /\ 0 \in 0..LockAttempts
  BY StoreAssumption
<1>2. EmptyStore \in Stores
  BY <1>1 DEF EmptyStore, Stores
<1>3. /\ NoEntry \in [id : 0..MaxSnapshot, manifest : BOOLEAN, data : BOOLEAN]
      /\ NothingVerified \in [latest : 0..MaxSnapshot, snapshots : SUBSET Ids]
  BY <1>1 DEF NoEntry, NothingVerified
<1>4. QED BY <1>1, <1>2, <1>3 DEF Forget

\* The lock is taken, refused, or asked for again.
LEMMA LockingSafety ==
  ASSUME StoreInv, Safety, StartBackup \/ TakeLock \/ RetryLock \/ LockRefused PROVE Safety'
<1> USE DEF To
<1>0. BackupTypeOK /\ ArchiveInv /\ PairsInv /\ BackupsInv /\ RestoredAsVerified
  BY Parts
<1>1. CASE StartBackup
  <2>1. BackupTypeOK'
    BY <1>0, <1>1, SaverIsOther
    DEF StartBackup, BackupTypeOK, LockHeld, Walking, restoreVars
  <2>2. ArchiveInv'
    BY <1>0, <1>1 DEF StartBackup, ArchiveInv, MakingInv, UnprunedInv
  <2>3. BackupsInv'
    <3>1. /\ backup \in Nat /\ expired \in Nat /\ backup' = backup + 1 /\ backup' \in Backups
          /\ UNCHANGED <<backups, expired, oldSidecars, restoring>>
      BY <1>0, <1>1 DEF StartBackup, BackupTypeOK, restoreVars, Backups
    <3>2. backups[backup'] = NoBackup /\ \A b \in Backups : b > backup' => b > backup
      BY <1>0, <3>1 DEF BackupsInv, Backups
    <3>3. expired <= backup' /\ oldSidecars \subseteq 1..expired
      BY <1>0, <3>1 DEF BackupsInv
    <3>4. QED BY <1>0, <3>1, <3>2, <3>3 DEF BackupsInv, Describes, Snapshots, NoBackup
  <2>4. BackupsRestoreUnlessPruned'
    BY <1>0, <1>1 DEF StartBackup, PairsInv, BackupsRestoreUnlessPruned, Pair, Matches, Snapshots,
                      Sound
  <2>5. RestoredAsVerified'
    BY <1>0, <1>1, KeptRestored DEF StartBackup, restoreVars
  <2>6. QED BY <2>1, <2>2, <2>3, <2>4, <2>5 DEF Safety, ArchiveInv
<1>2. CASE TakeLock \/ RetryLock
  <2>1. /\ Keeping /\ UNCHANGED <<unread, entered, verified, temp, pruned>>
        /\ bpc = "lock" /\ bpc' \in {"lock", "latest"} /\ tries' \in 0..LockAttempts
        /\ (holder' = Saver) = (bpc' = "latest")
    BY <1>0, <1>2, SaverIsOther DEF TakeLock, RetryLock, BackupTypeOK, LockHeld, Walking
  <2>2. BackupTypeOK'
    BY <1>0, <2>1 DEF BackupTypeOK, LockHeld, Walking, Keeping, restoreVars
  <2>3. ArchiveInv'
    BY <1>0, <2>1 DEF ArchiveInv, MakingInv, UnprunedInv
  <2>4. PairsInv'
    BY <1>0, <2>1, KeptPairs DEF Making
  <2>5. RestoredAsVerified'
    BY <1>0, <2>1, KeptRestored DEF Keeping, restoreVars
  <2>6. QED BY <2>2, <2>3, <2>4, <2>5 DEF Safety, ArchiveInv, PairsInv
<1>3. CASE LockRefused
  <2>1. Keeping /\ Forget /\ bpc = "lock" /\ bpc' = "idle" /\ UNCHANGED holder
    BY <1>3 DEF LockRefused
  <2>2. BackupTypeOK'
    BY <1>0, <2>1, Forgotten DEF BackupTypeOK, LockHeld, Walking, Keeping, restoreVars
  <2>3. PairsInv'
    BY <1>0, <2>1, KeptPairs DEF Making, LockHeld, Walking
  <2>4. RestoredAsVerified'
    BY <1>0, <2>1, KeptRestored DEF Keeping, restoreVars
  <2>5. ArchiveInv'
    BY <2>1, IdleArchive DEF Forget
  <2>6. QED BY <2>2, <2>3, <2>4, <2>5 DEF Safety, ArchiveInv, PairsInv
<1>4. QED BY <1>1, <1>2, <1>3

\* The backup is given up, at whatever point.
LEMMA GivenUpSafety ==
  ASSUME StoreInv, Safety, bpc' = "idle", Forget,
         holder' = IF holder = Saver THEN Nobody ELSE holder,
         UNCHANGED <<backups, backup, expired, restoreVars>>, oldSidecars' \in {oldSidecars, {}}
  PROVE  Safety'
<1>0. BackupTypeOK /\ ArchiveInv /\ PairsInv /\ BackupsInv /\ RestoredAsVerified
  BY Parts
<1>1. oldSidecars' \subseteq oldSidecars /\ holder' # Saver
  BY SaverIsOther
<1>2. BackupTypeOK'
  BY <1>0, <1>1, Forgotten DEF BackupTypeOK, LockHeld, Walking, restoreVars
<1>3. PairsInv'
  BY <1>0, <1>1 DEF PairsInv, BackupsInv, BackupsRestoreUnlessPruned, Describes, Pair,
    Matches, Snapshots, Sound, restoreVars, Making, LockHeld, Walking
<1>4. RestoredAsVerified'
  BY <1>0, KeptRestored DEF restoreVars
<1>5. ArchiveInv'
  BY IdleArchive DEF Forget
<1>6. QED BY <1>2, <1>3, <1>4, <1>5 DEF Safety, ArchiveInv, PairsInv

LEMMA FailingSafety ==
  ASSUME StoreInv, Safety, SavingFails \/ NoLatest \/ Vanished \/ \E i \in Ids : Unsound(i)
  PROVE  Safety'
<1>1. /\ bpc' = "idle" /\ Forget /\ holder' = IF holder = Saver THEN Nobody ELSE holder
      /\ UNCHANGED <<backups, backup, expired, restoreVars>> /\ oldSidecars' \in {oldSidecars, {}}
  BY DEF SavingFails, NoLatest, Vanished, Unsound, Abandon, Keeping
<1>2. QED BY <1>1, GivenUpSafety

\* _verify_store, under the lock.
LEMMA VerifyingSafety ==
  ASSUME StoreInv, Safety, VerifyLatest \/ \E i \in Ids : VerifySnapshot(i) \/ SkipVanished(i)
  PROVE  Safety'
<1> USE DEF To
<1>0. BackupTypeOK /\ MakingInv /\ UnprunedInv /\ PairsInv /\ BackupsInv /\ RestoredAsVerified
  BY Parts
<1>1. /\ Keeping /\ UNCHANGED <<tries, entered, temp, pruned, holder>> /\ StoreKept
      /\ bpc \in {"latest", "verify"} /\ bpc' = "verify" /\ unread' \subseteq Ids
      /\ verified' \in [latest : 0..MaxSnapshot, snapshots : SUBSET Ids]
  BY <1>0 DEF VerifyLatest, VerifySnapshot, SkipVanished, BackupTypeOK, StoreInv, TypeOK
<1>2. BackupTypeOK'
  BY <1>0, <1>1 DEF BackupTypeOK, LockHeld, Walking, Keeping, restoreVars
<1>3. PairsInv' /\ RestoredAsVerified'
  BY <1>0, <1>1, KeptPairs, KeptRestored DEF Making, LockHeld, Walking, Keeping, restoreVars
<1>4. CASE VerifyLatest
  <2>1. /\ unread' = Listed /\ verified' = [verified EXCEPT !.latest = latest]
        /\ latest # 0 /\ Readable(latest) /\ UNCHANGED <<manifest, data, latest, temp, pruned>>
    BY <1>4 DEF VerifyLatest, StoreKept, storeVars, Listed
  <2>2. verified'.latest = latest /\ verified'.snapshots = verified.snapshots
    BY <1>0, <2>1 DEF BackupTypeOK
  <2>3. verified.snapshots = {} /\ temp = EmptyStore
    BY <1>0, <1>4 DEF VerifyLatest, MakingInv, NothingVerified
  <2>4. MakingInv'
    BY <1>1, <2>1, <2>2, <2>3 DEF MakingInv, Listed
  <2>5. UnprunedInv'
    BY <1>1, <2>1, <2>2, <2>3 DEF UnprunedInv, VerifiedInv, Listed, Readable
  <2>6. QED BY <1>2, <1>3, <2>4, <2>5 DEF Safety, PairsInv
<1>5. ASSUME NEW i \in Ids, VerifySnapshot(i) PROVE Safety'
  <2>1. /\ i \in unread /\ Complete(i) /\ unread' = unread \ {i} /\ bpc = "verify"
        /\ verified' = [verified EXCEPT !.snapshots = @ \union {i}]
        /\ UNCHANGED <<manifest, data, latest, temp, pruned>>
    BY <1>5 DEF VerifySnapshot, StoreKept, storeVars
  <2>2. verified'.latest = verified.latest /\ verified'.snapshots = verified.snapshots \union {i}
    BY <1>0, <2>1 DEF BackupTypeOK
  <2>3. MakingInv'
    BY <1>0, <1>1, <2>1, <2>2 DEF MakingInv, Listed
  <2>4. UnprunedInv'
    BY <1>0, <1>1, <2>1, <2>2 DEF UnprunedInv, VerifiedInv, Listed, Readable, Complete
  <2>5. QED BY <1>2, <1>3, <2>3, <2>4 DEF Safety, PairsInv
<1>6. ASSUME NEW i \in Ids, SkipVanished(i) PROVE Safety'
  <2>1. /\ i \in unread /\ i \notin Listed /\ unread' = unread \ {i} /\ bpc = "verify"
        /\ UNCHANGED <<manifest, data, latest, verified, temp, pruned>>
    BY <1>6 DEF SkipVanished, StoreKept, storeVars, Listed
  <2>2. MakingInv'
    BY <1>0, <1>1, <2>1 DEF MakingInv, Listed
  <2>3. UnprunedInv'
    BY <1>0, <1>1, <2>1 DEF UnprunedInv
  <2>4. QED BY <1>2, <1>3, <2>2, <2>3 DEF Safety, PairsInv
<1>7. QED BY <1>4, <1>5, <1>6

\* bundle.add of the pointers and of the list of directories.
LEMMA ListingSafety == ASSUME StoreInv, Safety, AddPointers \/ ListSnapshots PROVE Safety'
<1> USE DEF To
<1>0. BackupTypeOK /\ MakingInv /\ UnprunedInv /\ PairsInv /\ BackupsInv /\ RestoredAsVerified
  BY Parts
<1>1. /\ Keeping /\ UNCHANGED <<tries, entered, verified, pruned, holder>> /\ StoreKept
      /\ bpc \in {"verify", "snapshots"} /\ bpc' \in {"snapshots", "enter"}
      /\ UNCHANGED <<manifest, data, latest>>
  BY DEF AddPointers, ListSnapshots, StoreKept, storeVars
<1>2. PairsInv' /\ RestoredAsVerified'
  BY <1>0, <1>1, KeptPairs, KeptRestored DEF Making, LockHeld, Walking, Keeping, restoreVars
<1>3. CASE AddPointers
  <2>1. bpc = "verify" /\ bpc' = "snapshots" /\ unread = {} /\ UNCHANGED unread
        /\ temp' = [temp EXCEPT !.latest = latest]
    BY <1>3 DEF AddPointers
  <2>2. /\ temp' \in Stores /\ temp'.latest = latest /\ temp'.manifest = temp.manifest
    BY <1>0, <2>1 DEF BackupTypeOK, Stores, StoreInv, TypeOK
  <2>3. BackupTypeOK'
    BY <1>0, <1>1, <2>1, <2>2 DEF BackupTypeOK, LockHeld, Walking, Keeping, restoreVars
  <2>4. temp = EmptyStore
    BY <1>0, <2>1 DEF MakingInv
  <2>5. MakingInv'
    BY <1>0, <1>1, <2>1, <2>2, <2>4 DEF MakingInv, Listed, Snapshots, EmptyStore
  <2>6. UnprunedInv'
    BY <1>0, <1>1, <2>1, <2>2 DEF UnprunedInv, VerifiedInv, Listed, Readable, Complete
  <2>7. QED BY <1>2, <2>3, <2>5, <2>6 DEF Safety, PairsInv
<1>4. CASE ListSnapshots
  <2>1. bpc = "snapshots" /\ bpc' = "enter" /\ unread' = Listed /\ UNCHANGED temp
    BY <1>4 DEF ListSnapshots, Listed
  <2>2. BackupTypeOK'
    BY <1>0, <1>1, <2>1 DEF BackupTypeOK, LockHeld, Walking, Keeping, restoreVars, Listed
  <2>3. MakingInv'
    BY <1>0, <1>1, <2>1 DEF MakingInv, Listed, Snapshots
  <2>4. UnprunedInv'
    BY <1>0, <1>1, <2>1 DEF UnprunedInv, VerifiedInv, Listed, Readable, Complete
  <2>5. QED BY <1>2, <2>2, <2>3, <2>4 DEF Safety, PairsInv
<1>5. QED BY <1>3, <1>4

\* One directory is opened, and its files are archived.
LEMMA ArchivingSafety == ASSUME StoreInv, Safety, EnterSnapshot \/ AddFiles PROVE Safety'
<1> USE DEF To
<1>0. BackupTypeOK /\ MakingInv /\ UnprunedInv /\ PairsInv /\ BackupsInv /\ RestoredAsVerified
  BY Parts
<1>1. /\ Keeping /\ UNCHANGED <<tries, verified, pruned, holder>> /\ StoreKept
      /\ bpc \in {"enter", "add"} /\ bpc' \in {"enter", "add"}
      /\ UNCHANGED <<manifest, data, latest>>
  BY DEF EnterSnapshot, AddFiles, StoreKept, storeVars
<1>2. PairsInv' /\ RestoredAsVerified'
  BY <1>0, <1>1, KeptPairs, KeptRestored DEF Making, LockHeld, Walking, Keeping, restoreVars
<1>3. CASE EnterSnapshot
  <2>0. unread # {} /\ unread \subseteq Ids /\ bpc = "enter" /\ bpc' = "add"
    BY <1>0, <1>3 DEF EnterSnapshot, BackupTypeOK
  <2>1. PICK i \in unread :
          /\ manifest[i] # "absent" /\ unread' = unread \ {i}
          /\ entered' = [id |-> i, manifest |-> manifest[i] # "none", data |-> i \in data]
          /\ temp' = [temp EXCEPT !.manifest[i] = "none"]
    BY <1>3, <2>0, LeastId DEF EnterSnapshot
  <2>2. i \in Ids /\ i \in 0..MaxSnapshot
    BY <2>0, StoreAssumption DEF Ids
  <2>3. /\ temp' \in Stores /\ temp'.latest = temp.latest /\ temp'.data = temp.data
        /\ temp'.manifest = [temp.manifest EXCEPT ![i] = "none"]
        /\ temp.manifest \in [Ids -> {"absent", "none", "torn", "ok", "error"}]
    BY <1>0, <2>1, <2>2 DEF BackupTypeOK, Stores
  <2>4. temp'.manifest[i] = "none" /\ \A j \in Ids \ {i} : temp'.manifest[j] = temp.manifest[j]
    BY <2>2, <2>3
  <2>5. /\ entered' \in [id : 0..MaxSnapshot, manifest : BOOLEAN, data : BOOLEAN]
        /\ entered'.id = i /\ entered'.manifest = (manifest[i] # "none")
        /\ entered'.data = (i \in data)
    BY <2>1, <2>2
  <2>6. BackupTypeOK'
    BY <1>0, <1>1, <2>0, <2>1, <2>3, <2>5 DEF BackupTypeOK, LockHeld, Walking, Keeping, restoreVars
  <2>7. MakingInv'
    <3>1. unread \subseteq verified.snapshots /\ Snapshots(temp) \subseteq verified.snapshots
      BY <1>0, <2>0 DEF MakingInv
    <3>2. Snapshots(temp') \subseteq verified.snapshots
      BY <2>1, <2>4, <3>1 DEF Snapshots
    <3>3. Snapshots(temp)' = Snapshots(temp')
      BY DEF Snapshots
    <3>4. QED BY <1>1, <2>0, <2>1, <2>5, <3>1, <3>2, <3>3 DEF MakingInv
  <2>8. UnprunedInv'
    <3> SUFFICES ASSUME ~pruned PROVE UnprunedInv'
      BY <1>1 DEF UnprunedInv
    <3>1. /\ VerifiedInv /\ Readable(latest) /\ Listed = verified.snapshots /\ temp.latest = latest
          /\ \A j \in Listed \ unread : Archived(j)
      BY <1>0, <2>0 DEF UnprunedInv
    <3>2. VerifiedInv' /\ Readable(latest)' /\ Listed' = Listed
      BY <1>1, <3>1 DEF VerifiedInv, Readable, Listed, Complete
    <3>3. \A j \in Listed \ (unread' \union {i}) : Archived(j)'
      BY <1>1, <2>1, <2>3, <2>4, <3>1 DEF Archived, Listed
    <3>4. manifest[i] # "none"
      BY <2>1, <2>2, <3>1 DEF VerifiedInv, Listed, Complete
    <3>5. QED BY <1>1, <2>0, <2>3, <2>5, <3>1, <3>2, <3>3, <3>4 DEF UnprunedInv
  <2>9. QED BY <1>2, <2>6, <2>7, <2>8 DEF Safety, PairsInv
<1>4. CASE AddFiles
  <2> DEFINE i == entered.id
             m == IF entered.manifest THEN manifest[i] ELSE "none"
             d == IF entered.data THEN temp.data \union {i} ELSE temp.data
  <2>1. /\ bpc = "add" /\ bpc' = "enter" /\ entered' = NoEntry /\ UNCHANGED unread
        /\ entered.manifest => manifest[i] \notin {"absent", "none"}
        /\ temp' = [temp EXCEPT !.manifest[i] = m, !.data = d]
    BY <1>4 DEF AddFiles
  <2>2. i \in verified.snapshots /\ verified.snapshots \subseteq Ids
    BY <1>0, <2>1 DEF MakingInv, BackupTypeOK
  <2>3. m \in {"none", "torn", "ok", "error"} /\ d \subseteq Ids /\ temp.data \subseteq d
        /\ (entered.data => i \in d)
    BY <1>0, <2>1, <2>2 DEF BackupTypeOK, Stores, StoreInv, TypeOK
  <2> HIDE DEF m, d
  <2>4. /\ temp' \in Stores /\ temp'.latest = temp.latest /\ temp'.data = d
        /\ temp'.manifest = [temp.manifest EXCEPT ![i] = m]
        /\ temp.manifest \in [Ids -> {"absent", "none", "torn", "ok", "error"}]
    BY <1>0, <2>1, <2>2, <2>3 DEF BackupTypeOK, Stores
  <2>5. temp'.manifest[i] = m /\ \A j \in Ids \ {i} : temp'.manifest[j] = temp.manifest[j]
    BY <2>2, <2>4
  <2>6. entered' \in [id : 0..MaxSnapshot, manifest : BOOLEAN, data : BOOLEAN]
    BY <2>1, StoreAssumption DEF NoEntry
  <2>7. BackupTypeOK'
    BY <1>0, <1>1, <2>1, <2>4, <2>6 DEF BackupTypeOK, LockHeld, Walking, Keeping, restoreVars
  <2>8. MakingInv'
    <3>1. unread \subseteq verified.snapshots /\ Snapshots(temp) \subseteq verified.snapshots
      BY <1>0, <2>1 DEF MakingInv
    <3>2. Snapshots(temp)' \subseteq verified.snapshots
      BY <2>2, <2>5, <3>1 DEF Snapshots
    <3>3. QED BY <1>1, <2>1, <3>1, <3>2 DEF MakingInv
  <2>9. UnprunedInv'
    <3> SUFFICES ASSUME ~pruned PROVE UnprunedInv'
      BY <1>1 DEF UnprunedInv
    <3>1. /\ VerifiedInv /\ Readable(latest) /\ Listed = verified.snapshots /\ temp.latest = latest
          /\ \A j \in Listed \ (unread \union {i}) : Archived(j)
          /\ entered.manifest /\ (i \in data => entered.data)
      BY <1>0, <2>1 DEF UnprunedInv
    <3>2. VerifiedInv' /\ Readable(latest)' /\ Listed' = Listed
      BY <1>1, <3>1 DEF VerifiedInv, Readable, Listed, Complete
    <3>3. ASSUME NEW j \in Listed \ unread PROVE Archived(j)'
      <4>1. CASE j = i
        BY <1>1, <2>3, <2>4, <2>5, <3>1, <4>1 DEF Archived, m
      <4>2. CASE j # i
        BY <1>1, <2>3, <2>4, <2>5, <3>1, <4>2 DEF Archived, Listed
      <4>3. QED BY <4>1, <4>2
    <3>4. QED BY <1>1, <2>1, <2>4, <3>1, <3>2, <3>3 DEF UnprunedInv
  <2>10. QED BY <1>2, <2>7, <2>8, <2>9 DEF Safety, PairsInv
<1>5. QED BY <1>3, <1>4

\* What is archived without a removal is the sound store that was verified.
LEMMA ArchiveIsSound ==
  ASSUME StoreInv, BackupTypeOK, MakingInv, UnprunedInv, ~pruned, bpc = "enter", unread = {}
  PROVE  Sound(temp) /\ temp.latest = verified.latest /\ Snapshots(temp) = verified.snapshots
<1>1. /\ VerifiedInv /\ Readable(latest) /\ Listed = verified.snapshots /\ temp.latest = latest
      /\ \A i \in Listed : Archived(i)
  BY DEF UnprunedInv
<1>2. Snapshots(temp) = verified.snapshots
  BY <1>1 DEF MakingInv, Snapshots, Listed, Archived
<1>3. latest \in Listed
  BY <1>1, StoreAssumption DEF VerifiedInv, Readable, Listed, StoreInv, TypeOK, Ids
<1>4. ASSUME NEW i \in Ids
      PROVE  \/ temp.manifest[i] \in {"absent", "error"}
             \/ temp.manifest[i] = "ok" /\ i \in temp.data
  <2>1. CASE i \in Listed
    BY <1>1, <2>1 DEF VerifiedInv, Complete, Archived
  <2>2. CASE i \notin Listed
    BY <1>1, <1>2, <2>2 DEF Snapshots
  <2>3. QED BY <2>1, <2>2
<1>5. temp.latest # 0 /\ temp.manifest[temp.latest] \in {"ok", "error"}
  BY <1>1, <1>3 DEF VerifiedInv, Readable, Archived
<1>6. QED BY <1>1, <1>2, <1>4, <1>5 DEF Sound, VerifiedInv

\* The archive is closed and gets its name.
LEMMA ClosingSafety == ASSUME StoreInv, Safety, CloseArchive \/ ReplaceArchive PROVE Safety'
<1> USE DEF To
<1>0. BackupTypeOK /\ MakingInv /\ UnprunedInv /\ PairsInv /\ BackupsInv /\ RestoredAsVerified
  BY Parts
<1>1. CASE CloseArchive
  <2>1. /\ Keeping /\ UNCHANGED <<tries, unread, entered, verified, temp, pruned>>
        /\ bpc = "enter" /\ bpc' = "replace" /\ unread = {} /\ holder' # Saver
    BY <1>1, SaverIsOther DEF CloseArchive
  <2>2. BackupTypeOK'
    BY <1>0, <2>1 DEF BackupTypeOK, LockHeld, Walking, Keeping, restoreVars
  <2>3. MakingInv'
    BY <1>0, <2>1 DEF MakingInv, Snapshots
  <2>4. UnprunedInv'
    BY <1>0, <2>1, ArchiveIsSound DEF UnprunedInv, Sound, Snapshots
  <2>5. PairsInv' /\ RestoredAsVerified'
    BY <1>0, <2>1, KeptPairs, KeptRestored DEF Making, LockHeld, Walking, Keeping, restoreVars
  <2>6. QED BY <2>2, <2>3, <2>4, <2>5 DEF Safety, PairsInv
<1>2. CASE ReplaceArchive
  <2>1. /\ UNCHANGED <<tries, unread, entered, verified, temp, pruned, backup, expired, oldSidecars,
                       rpc, source, restoring, target, holder>>
        /\ bpc = "replace" /\ bpc' = "sidecar"
        /\ backups' = [backups EXCEPT ![backup].archive = TRUE, ![backup].content = temp]
    BY <1>2 DEF ReplaceArchive, restoreVars
  <2>2. backup \in Backups /\ ~backups[backup].sidecar /\ backups[backup] \in BackupRecords
        /\ temp \in Stores /\ holder # Saver
    BY <1>0, <2>1 DEF BackupsInv, Making, BackupTypeOK, LockHeld, Walking
  <2>3. PICK new : new = [backups[backup] EXCEPT !.archive = TRUE, !.content = temp]
    OBVIOUS
  <2>4. new \in BackupRecords /\ new.content = temp /\ new.sidecar = backups[backup].sidecar
    BY <2>2, <2>3 DEF BackupRecords
  <2>5. backups' = [backups EXCEPT ![backup] = new]
    BY <1>0, <2>1, <2>2, <2>3 DEF BackupTypeOK, BackupRecords
  <2>6. /\ backups' \in [Backups -> BackupRecords] /\ backups'[backup] = new
        /\ \A b \in Backups \ {backup} : backups'[b] = backups[b]
    BY <1>0, <2>2, <2>4, <2>5 DEF BackupTypeOK
  <2>7. BackupTypeOK'
    BY <1>0, <2>1, <2>2, <2>6 DEF BackupTypeOK, LockHeld, Walking
  <2>8. MakingInv'
    BY <1>0, <2>1, <2>4, <2>6 DEF MakingInv, Snapshots
  <2>9. UnprunedInv'
    BY <1>0, <2>1 DEF UnprunedInv, Sound, Snapshots
  <2>10. BackupsInv'
    <3>1. \A b \in Backups : b > backup => b # backup
      BY <1>0 DEF BackupTypeOK, Backups
    <3>2. QED BY <1>0, <2>1, <2>2, <2>4, <2>6, <3>1 DEF BackupsInv, Describes, Snapshots
  <2>11. BackupsRestoreUnlessPruned'
    BY <1>0, <2>2, <2>4, <2>6
    DEF PairsInv, BackupsRestoreUnlessPruned, Pair, Matches, Sound, Snapshots
  <2>12. RestoredAsVerified'
    BY <1>0, <2>1, KeptRestored
  <2>13. QED BY <2>7, <2>8, <2>9, <2>10, <2>11, <2>12 DEF Safety
<1>3. QED BY <1>1, <1>2

\* The fields a sidecar adds to a backup.
DescribedAs(old, S, l, n, raced) ==
  [old EXCEPT !.sidecar = TRUE, !.snapshots = S, !.latest_snapshot_id = l,
              !.snapshot_count = n, !.raced = raced]
Described(old, S, l, n, raced) ==
  [archive |-> old.archive, sidecar |-> TRUE, content |-> old.content, snapshots |-> S,
   latest_snapshot_id |-> l, snapshot_count |-> n, raced |-> raced]

LEMMA DescribedRecord ==
  ASSUME NEW old \in BackupRecords, NEW S, NEW l, NEW n, NEW raced
  PROVE  DescribedAs(old, S, l, n, raced) = Described(old, S, l, n, raced)
<1>0. PICK x : x = TRUE
  OBVIOUS
<1> DEFINE Names == {"archive", "sidecar", "content", "snapshots", "latest_snapshot_id",
                     "snapshot_count", "raced"}
           Value(f) == CASE f = "sidecar" -> x [] f = "snapshots" -> S
                         [] f = "latest_snapshot_id" -> l [] f = "snapshot_count" -> n
                         [] f = "raced" -> raced [] OTHER -> old[f]
<1>1. old = [f \in Names |-> old[f]]
  BY DEF BackupRecords
<1>2. [old EXCEPT !.sidecar = x, !.snapshots = S, !.latest_snapshot_id = l,
                  !.snapshot_count = n, !.raced = raced] = [f \in Names |-> Value(f)]
  BY <1>1
<1>3. [f \in Names |-> Value(f)]
      = [archive |-> old.archive, sidecar |-> x, content |-> old.content, snapshots |-> S,
         latest_snapshot_id |-> l, snapshot_count |-> n, raced |-> raced]
  OBVIOUS
<1>4. QED BY <1>0, <1>2, <1>3 DEF DescribedAs, Described

\* The sidecar counts what was verified, and names the latest.
LEMMA SidecarSafety == ASSUME StoreInv, Safety, WriteSidecar PROVE Safety'
<1>0. BackupTypeOK /\ MakingInv /\ UnprunedInv /\ PairsInv /\ BackupsInv /\ RestoredAsVerified
  BY Parts
<1>1. /\ UNCHANGED <<backup, expired, oldSidecars, rpc, source, restoring, target, holder>>
      /\ bpc = "sidecar" /\ bpc' = "prune" /\ Forget
      /\ backups' = [backups EXCEPT
           ![backup].sidecar = TRUE,
           ![backup].snapshots = verified.snapshots,
           ![backup].latest_snapshot_id = verified.latest,
           ![backup].snapshot_count = Cardinality(verified.snapshots),
           ![backup].raced = pruned]
  BY DEF WriteSidecar, To, restoreVars
<1>2. /\ backup \in Backups /\ backups[backup] \in BackupRecords /\ holder # Saver
      /\ verified.snapshots \in SUBSET Ids /\ verified.latest \in 0..MaxSnapshot /\ pruned \in BOOLEAN
      /\ backups[backup].content = temp /\ Snapshots(temp) \subseteq verified.snapshots
  BY <1>0, <1>1 DEF BackupsInv, Making, BackupTypeOK, LockHeld, Walking, MakingInv
<1>3. Cardinality(verified.snapshots) \in 0..MaxSnapshot
  <2>1. IsFiniteSet(Ids) /\ Cardinality(Ids) = MaxSnapshot
    <3>1. 1 \in Int /\ MaxSnapshot \in Int /\ 1 <= MaxSnapshot + 1
      BY StoreAssumption
    <3>2. IsFiniteSet(1..MaxSnapshot)
          /\ Cardinality(1..MaxSnapshot) = IF 1 > MaxSnapshot THEN 0 ELSE MaxSnapshot - 1 + 1
      BY <3>1, FS_Interval
    <3>3. QED BY <3>2, StoreAssumption DEF Ids
  <2>2. /\ IsFiniteSet(verified.snapshots)
        /\ Cardinality(verified.snapshots) <= MaxSnapshot
    BY <1>2, <2>1, FS_Subset
  <2>3. Cardinality(verified.snapshots) \in Nat
    BY <2>2, FS_CardinalityType
  <2>4. QED BY <2>2, <2>3, StoreAssumption
<1>4. PICK new : new = [archive |-> backups[backup].archive, sidecar |-> TRUE, content |-> temp,
                        snapshots |-> verified.snapshots, latest_snapshot_id |-> verified.latest,
                        snapshot_count |-> Cardinality(verified.snapshots), raced |-> pruned]
  OBVIOUS
<1>5. temp \in Stores /\ backups[backup].archive \in BOOLEAN
  BY <1>0, <1>2 DEF BackupTypeOK, BackupRecords
<1>6. /\ new \in BackupRecords /\ new.content = temp /\ new.snapshots = verified.snapshots
      /\ new.latest_snapshot_id = verified.latest /\ new.raced = pruned
      /\ new.snapshot_count = Cardinality(verified.snapshots)
  BY <1>2, <1>3, <1>4, <1>5 DEF BackupRecords
<1>7. /\ backups' \in [Backups -> BackupRecords] /\ backups'[backup] = new
      /\ \A b \in Backups \ {backup} : backups'[b] = backups[b]
  <2> DEFINE old == backups[backup]
             written == DescribedAs(old, verified.snapshots, verified.latest,
                                    Cardinality(verified.snapshots), pruned)
  <2>1. backups' = [backups EXCEPT ![backup] = written]
    BY <1>0, <1>1, <1>2 DEF BackupTypeOK, DescribedAs
  <2>2. old \in BackupRecords /\ old.content = temp
    BY <1>2
  <2> HIDE DEF old
  <2>3. written = Described(old, verified.snapshots, verified.latest,
                            Cardinality(verified.snapshots), pruned)
    BY <2>2, DescribedRecord
  <2>4. written = new
    BY <1>4, <2>2, <2>3 DEF old, Described
  <2> HIDE DEF written
  <2>5. QED BY <1>0, <1>2, <1>6, <2>1, <2>4 DEF BackupTypeOK
<1>8. BackupTypeOK'
  BY <1>0, <1>1, <1>2, <1>7, Forgotten DEF BackupTypeOK, LockHeld, Walking
<1>9. ArchiveInv'
  BY <1>1, IdleArchive DEF Forget
<1>10. BackupsInv'
  <2>1. Describes(new)
    BY <1>2, <1>6 DEF Describes
  <2>2. \A b \in Backups : b > backup => b # backup
    BY <1>0 DEF BackupTypeOK, Backups
  <2>3. \A b \in Backups : backups[b].sidecar => Describes(backups[b])
    BY <1>0 DEF BackupsInv
  <2>4. ASSUME NEW b \in Backups, backups'[b].sidecar PROVE Describes(backups'[b])
    BY <1>7, <2>1, <2>3, <2>4
  <2>5. \A b \in Backups : Describes(backups'[b]) => Describes(backups[b])'
    BY DEF Describes, Snapshots
  <2>6. Describes(restoring)'
    BY <1>0, <1>1 DEF BackupsInv, Describes, Snapshots
  <2>7. QED BY <1>0, <1>1, <1>7, <2>2, <2>4, <2>5, <2>6 DEF BackupsInv, Making, LockHeld, Walking
<1>11. BackupsRestoreUnlessPruned'
  <2>1. pruned \/ Matches(new)
    BY <1>0, <1>1, <1>6 DEF UnprunedInv, Matches
  <2>2. \A b \in Backups \ {backup} : Pair(b) => Matches(backups[b]) \/ backups[b].raced
    BY <1>0 DEF PairsInv, BackupsRestoreUnlessPruned
  <2>3. ASSUME NEW b \in Backups, Pair(b)' PROVE Matches(backups'[b]) \/ backups'[b].raced
    BY <1>6, <1>7, <2>1, <2>2, <2>3 DEF Pair
  <2>4. \A b \in Backups : Matches(backups'[b]) => Matches(backups[b])'
    BY DEF Matches, Snapshots, Sound
  <2>5. QED BY <2>3, <2>4 DEF BackupsRestoreUnlessPruned
<1>12. RestoredAsVerified'
  BY <1>0, <1>1, KeptRestored
<1>13. QED BY <1>8, <1>9, <1>10, <1>11, <1>12 DEF Safety, ArchiveInv

(***************************************************************************)
(* prune_backups                                                           *)
(***************************************************************************)
\* A record without its archive is no pair, and describes what it described.
LEMMA UnlinkedRecord ==
  ASSUME NEW old \in BackupRecords
  PROVE  /\ [old EXCEPT !.archive = FALSE] \in BackupRecords
         /\ ~[old EXCEPT !.archive = FALSE].archive
         /\ [old EXCEPT !.archive = FALSE].sidecar = old.sidecar
         /\ Describes(old) => Describes([old EXCEPT !.archive = FALSE])
<1>0. PICK x : x = FALSE
  OBVIOUS
<1>1. PICK new : new = [old EXCEPT !.archive = x]
  OBVIOUS
<1>2. /\ new \in BackupRecords /\ new.archive = x /\ new.sidecar = old.sidecar
      /\ new.content = old.content /\ new.snapshots = old.snapshots
      /\ new.snapshot_count = old.snapshot_count
  BY <1>0, <1>1 DEF BackupRecords
<1>3. Describes(old) => Describes(new)
  BY <1>2 DEF Describes
<1>4. QED BY <1>0, <1>1, <1>2, <1>3

\* No backup at all is described too: it counts no snapshot.
LEMMA NoBackupDescribed == NoBackup \in BackupRecords /\ Describes(NoBackup)
<1>1. 0 \in 0..MaxSnapshot
  BY StoreAssumption
<1>2. EmptyStore \in Stores
  BY <1>1 DEF EmptyStore, Stores
<1>3. Snapshots(EmptyStore) = {} /\ Cardinality({}) = 0
  BY FS_EmptySet DEF Snapshots, EmptyStore
<1>4. Describes(NoBackup)
  BY <1>3 DEF Describes, NoBackup
<1>5. NoBackup \in BackupRecords
  <2>1. PICK x : x = FALSE
    OBVIOUS
  <2>2. NoBackup = [archive |-> x, sidecar |-> x, content |-> EmptyStore, snapshots |-> {},
                    latest_snapshot_id |-> 0, snapshot_count |-> 0, raced |-> x]
    BY <2>1 DEF NoBackup
  <2>3. x \in BOOLEAN
    BY <2>1
  <2>4. QED BY <1>1, <1>2, <2>2, <2>3 DEF BackupRecords
<1>6. QED BY <1>4, <1>5

\* One backup loses its archive, or is gone: the others are as they were.
LEMMA OneBackupLost ==
  ASSUME BackupTypeOK, BackupsInv, BackupsRestoreUnlessPruned, NEW b \in oldSidecars,
         NEW lost \in BackupRecords,
         backups' = [backups EXCEPT ![b] = lost], ~(lost.archive /\ lost.sidecar),
         lost.sidecar => Describes(lost),
         UNCHANGED <<backup, expired, restoring>>, oldSidecars' \subseteq oldSidecars,
         bpc' \notin Making
  PROVE  /\ backups' \in [Backups -> BackupRecords] /\ oldSidecars' \subseteq Backups
         /\ BackupsInv' /\ BackupsRestoreUnlessPruned'
<1>1. b \in Backups /\ ~(b > backup)
  <2>1. b \in 1..expired /\ expired <= backup /\ expired \in Nat /\ backup \in Nat
    BY DEF BackupsInv, BackupTypeOK
  <2>2. QED BY <2>1 DEF BackupTypeOK
<1>2. /\ backups' \in [Backups -> BackupRecords] /\ backups'[b] = lost
      /\ \A a \in Backups \ {b} : backups'[a] = backups[a]
  BY <1>1 DEF BackupTypeOK
<1>3. BackupsInv'
  <2>1. \A a \in Backups : a > backup => backups'[a] = NoBackup
    BY <1>1, <1>2 DEF BackupsInv
  <2>2. ASSUME NEW a \in Backups, backups'[a].sidecar PROVE Describes(backups'[a])
    BY <1>2, <2>2 DEF BackupsInv
  <2>3. \A a \in Backups : Describes(backups'[a]) => Describes(backups[a])'
    BY DEF Describes, Snapshots
  <2>4. Describes(restoring)'
    BY DEF BackupsInv, Describes, Snapshots
  <2>5. oldSidecars' \subseteq 1..expired /\ expired <= backup
    BY DEF BackupsInv
  <2>6. QED BY <2>1, <2>2, <2>3, <2>4, <2>5 DEF BackupsInv
<1>4. BackupsRestoreUnlessPruned'
  <2>1. ASSUME NEW a \in Backups, Pair(a)' PROVE Matches(backups'[a]) \/ backups'[a].raced
    BY <1>2, <2>1 DEF Pair, BackupsRestoreUnlessPruned
  <2>2. \A a \in Backups : Matches(backups'[a]) => Matches(backups[a])'
    BY DEF Matches, Snapshots, Sound
  <2>3. QED BY <2>1, <2>2 DEF BackupsRestoreUnlessPruned
<1>5. QED BY <1>2, <1>3, <1>4 DEF BackupTypeOK

LEMMA PruningSafety ==
  ASSUME Safety,
         PruneBackups \/ BackupDone \/ \E b \in Backups : UnlinkArchive(b) \/ UnlinkSidecar(b)
  PROVE  Safety'
<1>0. BackupTypeOK /\ MakingInv /\ UnprunedInv /\ PairsInv /\ BackupsInv /\ RestoredAsVerified
      /\ BackupsRestoreUnlessPruned
  BY Parts DEF PairsInv
<1>1. /\ UNCHANGED <<tries, unread, entered, verified, temp, pruned, backup, expired>>
      /\ UNCHANGED <<rpc, source, restoring, target, holder>>
      /\ bpc \in {"prune", "unlink_archive", "unlink_sidecar"}
      /\ bpc' \in {"idle", "unlink_archive", "unlink_sidecar"}
  BY DEF PruneBackups, BackupDone, UnlinkArchive, UnlinkSidecar, To, makeRest, restoreVars
<1>2. holder # Saver /\ bpc \notin Making /\ bpc' \notin LockHeld /\ bpc' \notin Making
  BY <1>0, <1>1 DEF BackupTypeOK, LockHeld, Walking, Making
<1>3. ArchiveInv' /\ RestoredAsVerified'
  <2>1. temp = EmptyStore /\ verified = NothingVerified
    BY <1>0, <1>1 DEF MakingInv
  <2>2. QED BY <1>0, <1>1, <2>1, IdleArchive, KeptRestored
<1>4. /\ backups' \in [Backups -> BackupRecords] /\ oldSidecars' \subseteq Backups
      /\ BackupsInv' /\ BackupsRestoreUnlessPruned'
  <2>1. CASE PruneBackups \/ BackupDone
    <3>1. UNCHANGED backups /\ oldSidecars' \subseteq Backups
      BY <1>0, <2>1 DEF PruneBackups, BackupDone, BackupTypeOK
    <3>2. oldSidecars' \subseteq 1..expired
      <4>1. CASE PruneBackups
        BY <4>1 DEF PruneBackups, Backups
      <4>2. CASE BackupDone
        BY <1>0, <4>2 DEF BackupDone, BackupsInv
      <4>3. QED BY <2>1, <4>1, <4>2
    <3>3. BackupsInv'
      BY <1>0, <1>1, <1>2, <3>1, <3>2 DEF BackupsInv, Describes, Snapshots
    <3>4. BackupsRestoreUnlessPruned'
      BY <1>0, <3>1 DEF BackupsRestoreUnlessPruned, Pair, Matches, Snapshots, Sound
    <3>5. QED BY <1>0, <3>1, <3>3, <3>4 DEF BackupTypeOK
  <2>2. ASSUME NEW b \in Backups, UnlinkArchive(b)
        PROVE  /\ backups' \in [Backups -> BackupRecords] /\ oldSidecars' \subseteq Backups
               /\ BackupsInv' /\ BackupsRestoreUnlessPruned'
    <3>1. b \in oldSidecars /\ oldSidecars' = oldSidecars
          /\ backups' = [backups EXCEPT ![b].archive = FALSE]
      BY <2>2 DEF UnlinkArchive
    <3>2. backups[b] \in BackupRecords /\ (backups[b].sidecar => Describes(backups[b]))
      BY <1>0 DEF BackupTypeOK, BackupsInv
    <3>3. PICK lost : lost = [backups[b] EXCEPT !.archive = FALSE]
      OBVIOUS
    <3>4. lost \in BackupRecords /\ ~lost.archive /\ (lost.sidecar => Describes(lost))
      BY <3>2, <3>3, UnlinkedRecord
    <3>5. backups' = [backups EXCEPT ![b] = lost]
      BY <3>1, <3>3
    <3>6. QED BY <1>0, <1>1, <1>2, <3>1, <3>4, <3>5, OneBackupLost
  <2>3. ASSUME NEW b \in Backups, UnlinkSidecar(b)
        PROVE  /\ backups' \in [Backups -> BackupRecords] /\ oldSidecars' \subseteq Backups
               /\ BackupsInv' /\ BackupsRestoreUnlessPruned'
    <3>1. b \in oldSidecars /\ oldSidecars' \subseteq oldSidecars
          /\ backups' = [backups EXCEPT ![b] = NoBackup]
      BY <2>3 DEF UnlinkSidecar
    <3>2. ~NoBackup.archive
      BY DEF NoBackup
    <3>3. QED BY <1>0, <1>1, <1>2, <3>1, <3>2, NoBackupDescribed, OneBackupLost
  <2>4. QED BY <2>1, <2>2, <2>3
<1>5. BackupTypeOK'
  BY <1>0, <1>1, <1>2, <1>4 DEF BackupTypeOK, LockHeld, Walking
<1>6. QED BY <1>3, <1>4, <1>5 DEF Safety, ArchiveInv

(***************************************************************************)
(* restore_backup, and the retention period                                *)
(***************************************************************************)
\* A sidecar that matches its archive names the snapshots of the archive, one by one: what
\* was verified cannot be less, and the count says it is no more.
LEMMA MatchingIsVerified ==
  ASSUME NEW b \in BackupRecords, Describes(b), Matches(b)
  PROVE  /\ Snapshots(b.content) = b.snapshots
         /\ b.content.latest \in Snapshots(b.content)
         /\ \A i \in Ids : b.content.manifest[i] = "ok" => i \in b.content.data
<1>1. b.snapshots \subseteq Ids /\ b.content \in Stores
  BY DEF BackupRecords
<1>2. IsFiniteSet(b.snapshots)
  <2>1. 1 \in Int /\ MaxSnapshot \in Int
    BY StoreAssumption
  <2>2. IsFiniteSet(Ids)
    BY <2>1, FS_Interval DEF Ids
  <2>3. QED BY <1>1, <2>2, FS_Subset
<1>3. Snapshots(b.content) \subseteq b.snapshots
      /\ Cardinality(Snapshots(b.content)) = Cardinality(b.snapshots)
  BY DEF Describes, Matches
<1>4. Snapshots(b.content) = b.snapshots
  BY <1>2, <1>3, FS_Subset
<1>5. b.content.latest \in Ids /\ b.content.manifest[b.content.latest] # "absent"
  BY <1>1, StoreAssumption DEF Matches, Sound, Stores, Ids
<1>6. QED BY <1>4, <1>5 DEF Matches, Sound, Snapshots

LEMMA RestoreSafety == ASSUME Safety, BackupExpires \/ Restore PROVE Safety'
<1>0. BackupTypeOK /\ MakingInv /\ UnprunedInv /\ PairsInv /\ BackupsInv /\ RestoredAsVerified
      /\ BackupsRestoreUnlessPruned
  BY Parts DEF PairsInv
<1>1. /\ UNCHANGED <<bpc, tries, unread, entered, verified, temp, pruned, backups, backup>>
      /\ UNCHANGED <<oldSidecars, holder, manifest, data, latest>>
  BY DEF BackupExpires, Restore, Extract, FinishRestore, StartRestore, makeVars, StoreKept, storeVars
<1>2. ArchiveInv'
  BY <1>0, <1>1 DEF ArchiveInv, MakingInv, UnprunedInv, VerifiedInv, Listed, Archived, Complete,
                    Readable, Sound, Snapshots
<1>3. BackupsRestoreUnlessPruned'
  BY <1>0, <1>1 DEF BackupsRestoreUnlessPruned, Pair, Matches, Snapshots, Sound
<1>4. (BackupTypeOK /\ BackupsInv /\ RestoredAsVerified)'
  <2>1. CASE BackupExpires
    <3>1. /\ expired < backup /\ expired' = expired + 1 /\ UNCHANGED <<rpc, source, restoring, target>>
          /\ expired \in Nat /\ backup \in Nat /\ backup <= MaxBackups
      BY <1>0, <2>1 DEF BackupExpires, BackupTypeOK, restoreVars
    <3>2. BackupTypeOK'
      BY <1>0, <1>1, <3>1 DEF BackupTypeOK
    <3>3. 1..expired \subseteq 1..(expired + 1)
      BY <3>1
    <3>4. BackupsInv'
      BY <1>0, <1>1, <3>1, <3>3 DEF BackupsInv, Describes, Snapshots
    <3>5. QED BY <1>0, <3>1, <3>2, <3>4, KeptRestored
  <2>2. CASE Extract
    <3>1. UNCHANGED <<expired, source, restoring, target>> /\ rpc' \in {"idle", "check"}
      BY <2>2 DEF Extract
    <3>2. BackupTypeOK'
      BY <1>0, <1>1, <3>1 DEF BackupTypeOK
    <3>3. BackupsInv'
      BY <1>0, <1>1, <3>1 DEF BackupsInv, Describes, Snapshots
    <3>4. QED BY <1>0, <3>1, <3>2, <3>3, KeptRestored
  <2>3. ASSUME NEW b \in Backups, StartRestore(b)
        PROVE  (BackupTypeOK /\ BackupsInv /\ RestoredAsVerified)'
    <3>1. /\ UNCHANGED expired /\ rpc' = "extract" /\ source' = b /\ restoring' = backups[b]
          /\ target' = EmptyStore /\ backups[b].sidecar
      BY <2>3 DEF StartRestore, Pair
    <3>2. EmptyStore \in Stores
      BY NoBackupDescribed DEF NoBackup, BackupRecords
    <3>3. BackupTypeOK'
      BY <1>0, <1>1, <3>1, <3>2 DEF BackupTypeOK, Backups
    <3>4. Describes(restoring')
      BY <1>0, <3>1 DEF BackupsInv
    <3>5. BackupsInv'
      BY <1>0, <1>1, <3>1, <3>4 DEF BackupsInv, Describes, Snapshots
    <3>6. RestoredAsVerified'
      BY <3>1 DEF RestoredAsVerified
    <3>7. QED BY <3>3, <3>5, <3>6
  <2>4. CASE FinishRestore
    <3>1. /\ UNCHANGED <<expired, source, restoring>> /\ rpc' = "idle"
          /\ target' = IF Matches(restoring) THEN restoring.content ELSE EmptyStore
      BY <2>4 DEF FinishRestore
    <3>2. restoring \in BackupRecords /\ restoring.content \in Stores /\ EmptyStore \in Stores
          /\ Describes(restoring)
      BY <1>0, NoBackupDescribed DEF BackupTypeOK, BackupsInv, BackupRecords, NoBackup
    <3>3. BackupTypeOK'
      BY <1>0, <1>1, <3>1, <3>2 DEF BackupTypeOK
    <3>4. BackupsInv'
      BY <1>0, <1>1, <3>1 DEF BackupsInv, Describes, Snapshots
    <3>5. RestoredAsVerified'
      <4>1. CASE Matches(restoring)
        <5>1. /\ Snapshots(restoring.content) = restoring.snapshots
              /\ restoring.content.latest \in Snapshots(restoring.content)
              /\ \A i \in Ids : restoring.content.manifest[i] = "ok" => i \in restoring.content.data
          BY <3>2, <4>1, MatchingIsVerified
        <5>2. target' = restoring.content
          BY <3>1, <4>1
        <5>3. QED BY <3>1, <5>1, <5>2 DEF RestoredAsVerified, Snapshots
      <4>2. CASE ~Matches(restoring)
        BY <3>1, <4>2 DEF RestoredAsVerified
      <4>3. QED BY <4>1, <4>2
    <3>6. QED BY <3>3, <3>4, <3>5
  <2>5. QED BY <2>1, <2>2, <2>3, <2>4 DEF Restore
<1>5. QED BY <1>2, <1>3, <1>4 DEF Safety, ArchiveInv

(***************************************************************************)
(* The whole system                                                        *)
(***************************************************************************)
LEMMA InitSafety == BackupInit => Safety
<1> SUFFICES ASSUME BackupInit PROVE Safety
  OBVIOUS
<1>1. NoBackup \in BackupRecords /\ Describes(NoBackup) /\ EmptyStore \in Stores
  BY NoBackupDescribed DEF NoBackup, BackupRecords
<1>2. /\ 0 \in 0..MaxSnapshot /\ 0 \in 0..LockAttempts /\ 0 \in 0..MaxBackups
      /\ NoEntry \in [id : 0..MaxSnapshot, manifest : BOOLEAN, data : BOOLEAN]
      /\ NothingVerified \in [latest : 0..MaxSnapshot, snapshots : SUBSET Ids]
  BY StoreAssumption DEF NoEntry, NothingVerified
<1>3. BackupTypeOK
  <2>1. backups \in [Backups -> BackupRecords] /\ restoring \in BackupRecords
    BY <1>1 DEF BackupInit
  <2>2. (holder = Saver) = (bpc \in LockHeld)
    BY SaverIsOther DEF BackupInit, Init, LockHeld, Walking
  <2>3. /\ tries \in 0..LockAttempts /\ temp \in Stores /\ target \in Stores
        /\ verified \in [latest : 0..MaxSnapshot, snapshots : SUBSET Ids]
        /\ entered \in [id : 0..MaxSnapshot, manifest : BOOLEAN, data : BOOLEAN]
        /\ backup \in 0..MaxBackups /\ expired \in 0..MaxBackups /\ source \in 0..MaxBackups
    BY <1>1, <1>2 DEF BackupInit
  <2>4. /\ bpc = "idle" /\ rpc = "idle" /\ pruned \in BOOLEAN
        /\ unread \subseteq Ids /\ oldSidecars \subseteq Backups
    BY DEF BackupInit
  <2>5. QED BY <2>1, <2>2, <2>3, <2>4 DEF BackupTypeOK
<1>4. MakingInv /\ UnprunedInv
  BY DEF BackupInit, MakingInv, UnprunedInv
<1>5. BackupsInv
  BY <1>1 DEF BackupInit, BackupsInv, Making, LockHeld, Walking, NoBackup
<1>6. BackupsRestoreUnlessPruned /\ RestoredAsVerified
  BY DEF BackupInit, BackupsRestoreUnlessPruned, RestoredAsVerified, Pair, NoBackup
<1>7. QED BY <1>3, <1>4, <1>5, <1>6 DEF Safety

LEMMA SafetyStep == ASSUME StoreInv, Safety, [BackupNext]_allVars PROVE Safety'
<1>1. CASE StoreStep
  BY <1>1, StoreStepSafety
<1>2. CASE Saving
  <2>1. CASE StartBackup \/ TakeLock \/ RetryLock \/ LockRefused
    BY <2>1, LockingSafety
  <2>2. CASE PruneBackups \/ BackupDone \/ \E b \in Backups : UnlinkArchive(b) \/ UnlinkSidecar(b)
    BY <2>2, PruningSafety
  <2>3. CASE NoLatest \/ Vanished \/ \E i \in Ids : Unsound(i)
    BY <2>3, FailingSafety
  <2>4. CASE \/ VerifyLatest \/ AddPointers \/ ListSnapshots \/ EnterSnapshot \/ AddFiles
             \/ \E i \in Ids : VerifySnapshot(i) \/ SkipVanished(i)
    BY <2>4, VerifyingSafety, ListingSafety, ArchivingSafety
  <2>5. CASE CloseArchive \/ ReplaceArchive \/ WriteSidecar
    BY <2>5, ClosingSafety, SidecarSafety
  <2>6. QED BY <1>2, <2>1, <2>2, <2>3, <2>4, <2>5 DEF Saving
<1>3. CASE SavingFails
  BY <1>3, FailingSafety
<1>4. CASE BackupExpires \/ Restore
  BY <1>4, RestoreSafety
<1>5. CASE UNCHANGED allVars
  <2>1. /\ Keeping /\ UNCHANGED <<bpc, tries, unread, entered, verified, temp, pruned>>
        /\ UNCHANGED <<holder, manifest, data, latest>>
    BY <1>5 DEF allVars, vars, storeVars, backupVars, makeVars, Keeping
  <2>2. BackupTypeOK' /\ PairsInv' /\ RestoredAsVerified'
    BY <2>1, Parts, KeptPairs, KeptRestored DEF BackupTypeOK, Keeping, restoreVars
  <2>3. ArchiveInv'
    BY <2>1, Parts DEF ArchiveInv, MakingInv, UnprunedInv, VerifiedInv, Listed, Archived, Complete,
                       Readable, Sound, Snapshots, Keeping
  <2>4. QED BY <2>2, <2>3, Whole DEF Safety, ArchiveInv, PairsInv
<1>6. QED BY <1>1, <1>2, <1>3, <1>4, <1>5 DEF BackupNext

\* In every state, whoever prunes meanwhile: what is in a temporary archive was verified
\* under the lock, and what a restore leaves is what its sidecar counted.
THEOREM BackupIsSafe == BackupSpec => []Safety
<1>1. StoreInv /\ Safety /\ [BackupNext]_allVars => Safety'
  BY SafetyStep
<1>2. QED BY <1>1, InitSafety, StoreBesideBackup, PTL DEF BackupSpec

\* create_backup: a backup whose archive no pruner disturbed can be restored.
THEOREM BackupsCanBeRestored == BackupSpec => []BackupsRestoreUnlessPruned
BY BackupIsSafe, PTL DEF Safety

\* restore_backup: the restored store is the one whose snapshots were verified.
THEOREM RestoredIsVerified == BackupSpec => []RestoredAsVerified
BY BackupIsSafe, PTL DEF Safety

\* A step takes an archive or a sidecar away only where the retention period is over.
LEMMA YoungPairStays ==
  ASSUME Safety, [BackupNext]_allVars, NEW b \in Backups, Pair(b), b > expired
  PROVE  Pair(b)'
<1>0. BackupTypeOK /\ BackupsInv
  BY Parts
<1>1. CASE UnlinkArchive(b) \/ UnlinkSidecar(b)
  <2>1. b \in 1..expired /\ expired \in Nat
    BY <1>0, <1>1 DEF UnlinkArchive, UnlinkSidecar, BackupsInv, BackupTypeOK
  <2>2. QED BY <2>1
<1>2. ASSUME NEW a \in Backups \ {b}, UnlinkArchive(a) \/ UnlinkSidecar(a) PROVE Pair(b)'
  <2>1. PICK new : backups' = [backups EXCEPT ![a] = new]
    BY <1>2 DEF UnlinkArchive, UnlinkSidecar
  <2>2. QED BY <1>0, <2>1 DEF BackupTypeOK, Pair
<1>3. CASE ReplaceArchive \/ WriteSidecar
  <2>1. bpc \in {"replace", "sidecar"}
    BY <1>3 DEF ReplaceArchive, WriteSidecar, To
  <2>2. backup # b
    BY <1>0, <2>1 DEF BackupsInv, Making, Pair
  <2>3. PICK new : backups' = [backups EXCEPT ![backup] = new]
    BY <1>3 DEF ReplaceArchive, WriteSidecar
  <2>4. QED BY <1>0, <2>2, <2>3 DEF BackupTypeOK, Pair
<1>4. CASE \/ StartBackup \/ TakeLock \/ RetryLock \/ LockRefused \/ VerifyLatest \/ NoLatest
           \/ AddPointers \/ ListSnapshots \/ EnterSnapshot \/ AddFiles \/ Vanished
           \/ CloseArchive \/ PruneBackups \/ BackupDone
  BY <1>4 DEF StartBackup, TakeLock, RetryLock, LockRefused, VerifyLatest, NoLatest, AddPointers,
              ListSnapshots, EnterSnapshot, AddFiles, Vanished, CloseArchive, PruneBackups,
              BackupDone, Abandon, Keeping, Pair
<1>5. CASE \E i \in Ids : VerifySnapshot(i) \/ SkipVanished(i) \/ Unsound(i)
  BY <1>5 DEF VerifySnapshot, SkipVanished, Unsound, Abandon, Keeping, Pair
<1>6. CASE StoreStep \/ SavingFails \/ BackupExpires \/ Restore \/ UNCHANGED allVars
  BY <1>6 DEF StoreStep, SavingFails, BackupExpires, Restore, Extract, FinishRestore, StartRestore,
              allVars, backupVars, Pair
<1>7. QED BY <1>1, <1>2, <1>3, <1>4, <1>5, <1>6 DEF BackupNext, Saving

\* prune_backups takes no backup within the retention period, whatever is killed.
THEOREM YoungBackupsAreKept == BackupSpec => YoungBackupsKept
<1>1. Safety /\ [BackupNext]_allVars
      => [\A b \in Backups : Pair(b) /\ b > expired => Pair(b)']_allVars
  BY YoungPairStays
<1>2. QED BY <1>1, BackupIsSafe, PTL DEF BackupSpec, YoungBackupsKept
=============================================================================
