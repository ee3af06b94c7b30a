-------------------------- MODULE DataRootRelocation --------------------------
(***************************************************************************)
(* Moving the data root (operations/data_root_relocation.py).  The         *)
(* operator stops the writers, moves the tree and runs the command, again  *)
(* if need be, until it succeeds: it maps the frame paths of the           *)
(* collections below the new root, brings the checksums of both catalogs   *)
(* up to date, and replaces the documents one after the other in the order *)
(* of their paths.  A document that cannot be replaced makes it restore    *)
(* the ones before; when it is killed, nothing does.                       *)
(***************************************************************************)
EXTENDS DatasetBuild

VARIABLES
  migrating,    \* the tree is at the new root, the writers are stopped
  relocation,   \* the command: its planned changes, by document, and those written
  clean,        \* history: the preflight would have passed after the move
  interrupted,  \* history: a relocation was killed between two documents
  accepted      \* history: --refresh-artifact-checksums took files as they were

moveVars == <<migrating, relocation, clean, interrupted, accepted>>
allVars == <<vars, moveVars>>

NotRunning == [at |-> "idle", changes |-> <<>>, written |-> {}]

Documents == {DatasetCatalog, Verification, EvidenceCatalog} \union {Collection(e) : e \in Events}
Planned == DOMAIN relocation.changes
Unwritten == Planned \ relocation.written

TypeOK ==
  /\ DatasetTypeOK
  /\ {migrating, clean, interrupted, accepted} \subseteq BOOLEAN
  /\ DOMAIN relocation = {"at", "changes", "written"}
  /\ relocation.at \in {"idle", "backup", "write", "rollback"}
  /\ Planned \subseteq Documents /\ relocation.written \subseteq Planned
  /\ \A d \in Planned : DOMAIN relocation.changes[d] = {"before", "after"}

RelocationInit ==
  /\ Init
  /\ migrating = FALSE /\ relocation = NotRunning
  /\ clean = FALSE /\ interrupted = FALSE /\ accepted = FALSE

(***************************************************************************)
(* plan_data_root_relocation                                               *)
(***************************************************************************)
ChangedCollections ==
  {f \in {Collection(e) : e \in Events} : files[f] # Absent /\ files[f].root = Old}

\* _change_for_collection: the new paths, in the canonical form.
Staged ==
  [f \in Files |-> IF f \in ChangedCollections THEN CollectionOf(files[f].capturer, New, TRUE)
                   ELSE files[f]]

\* _refresh_artifact_records: a checksum that is wrong for another reason than a
\* rewritten collection is an error, unless --refresh-artifact-checksums.
ArtifactErrors(catalog, refresh) ==
  {a \in DOMAIN catalog.artifacts :
     \/ files[a] = Absent
     \/ /\ Staged[a] # catalog.artifacts[a]
        /\ a \notin ChangedCollections /\ ~refresh}

\* Mutant: the checksums are left as they are.
StagedRootOnly(catalog) == [catalog EXCEPT !.root = New]

\* _stage_catalog
StagedCatalog(catalog) ==
  [catalog EXCEPT !.root = New, !.artifacts = [a \in DOMAIN @ |-> Staged[a]]]

DatasetChanges == Dataset # Absent /\ StagedCatalog(Dataset) # Dataset
StagedReport == ReportOn(StagedCatalog(Dataset), Staged)

Preflight(refresh) ==
  /\ Dataset # Absent => ArtifactErrors(Dataset, refresh) = {}
  /\ ArtifactErrors(Evidence, refresh) = {}
  /\ DatasetChanges => StagedReport.ok

After(document) ==
  CASE document = DatasetCatalog  -> IF DatasetChanges THEN StagedCatalog(Dataset) ELSE Dataset
    [] document = Verification    -> IF DatasetChanges THEN StagedReport ELSE files[Verification]
    [] document = EvidenceCatalog -> StagedCatalog(Evidence)
    [] OTHER -> Staged[document]

Change(document) == [before |-> files[document], after |-> After(document)]
Changes == [d \in {d \in Documents : After(d) # files[d]} |-> Change(d)]

\* Mutant: the documents in the order in which they were planned.
RankAsPlanned(document) ==
  IF document \in {Collection(e) : e \in Events} THEN 0
  ELSE CASE document = DatasetCatalog -> 1 [] document = EvidenceCatalog -> 2 [] OTHER -> 3

\* By their paths: catalog/, discovery/, events/.  The events have no names, so that
\* their collections come in any order.
Rank(document) ==
  CASE document = DatasetCatalog -> 0 [] document = Verification -> 1
    [] document = EvidenceCatalog -> 2 [] OTHER -> 3
Precedes(d, e) == Rank(d) < Rank(e)

(***************************************************************************)
(* The move and the command                                                *)
(***************************************************************************)
OthersUnchanged == UNCHANGED <<root, tracked, listed, approved, build, builds, spoiled>>

\* The tree is moved; a file may be missing at the new root.
MoveTree ==
  /\ root = Old /\ build.at = "idle"
  /\ root' = New /\ migrating' = TRUE
  /\ \/ UNCHANGED <<files, faults>>
     \/ /\ Fault
        /\ \E f \in DOMAIN Evidence.artifacts : files' = [files EXCEPT ![f] = Absent]
  /\ UNCHANGED <<tracked, listed, approved, build, builds, spoiled, relocation, interrupted,
                 accepted>>
  /\ clean' = Preflight(FALSE)'

\* The command with --apply.  Without it nothing is written; when the preflight
\* finds an error nothing is written either.
Relocate ==
  /\ migrating /\ relocation.at = "idle"
  /\ \E refresh \in BOOLEAN : Preflight(refresh)
  /\ IF DOMAIN Changes = {} THEN migrating' = FALSE /\ UNCHANGED relocation
     ELSE /\ relocation' = [at |-> "backup", changes |-> Changes, written |-> {}]
          /\ UNCHANGED migrating
  /\ accepted' = (accepted \/ ~Preflight(FALSE))
  /\ OthersUnchanged /\ UNCHANGED <<files, faults, clean, interrupted>>

\* Copies of what will be replaced; no step here reads them.
Backup ==
  /\ relocation.at = "backup"
  /\ relocation' = [relocation EXCEPT !.at = "write"]
  /\ OthersUnchanged /\ UNCHANGED <<files, faults, migrating, clean, interrupted, accepted>>

WriteDocument ==
  /\ relocation.at = "write"
  /\ \E d \in Unwritten :
       /\ \A e \in Unwritten : ~Precedes(e, d)
       /\ files' = [files EXCEPT ![d] = relocation.changes[d].after]
       /\ IF Unwritten = {d}
          THEN migrating' = FALSE /\ relocation' = NotRunning
          ELSE relocation' = [relocation EXCEPT !.written = @ \union {d}] /\ UNCHANGED migrating
  /\ OthersUnchanged /\ UNCHANGED <<faults, clean, interrupted, accepted>>

\* Mutant: what was written before the failure stays.
WriteFailsForGood ==
  /\ relocation.at = "write" /\ Fault
  /\ relocation' = NotRunning
  /\ OthersUnchanged /\ UNCHANGED <<files, migrating, clean, interrupted, accepted>>

WriteFails ==
  /\ relocation.at = "write" /\ Fault
  /\ relocation' = IF relocation.written = {} THEN NotRunning
                   ELSE [relocation EXCEPT !.at = "rollback"]
  /\ OthersUnchanged /\ UNCHANGED <<files, migrating, clean, interrupted, accepted>>

\* The documents written before, the last one first; a created one is removed.
RollBack ==
  /\ relocation.at = "rollback"
  /\ \E d \in relocation.written :
       /\ \A e \in relocation.written : ~Precedes(d, e)
       /\ files' = [files EXCEPT ![d] = relocation.changes[d].before]
       /\ relocation' = IF relocation.written = {d} THEN NotRunning
                        ELSE [relocation EXCEPT !.written = @ \ {d}]
  /\ OthersUnchanged /\ UNCHANGED <<faults, migrating, clean, interrupted, accepted>>

\* A kill, or an error while the documents are restored.
RelocationKilled ==
  /\ relocation.at # "idle" /\ Fault
  /\ relocation' = NotRunning
  /\ interrupted' = (interrupted \/ relocation.written # {})
  /\ OthersUnchanged /\ UNCHANGED <<files, migrating, clean, accepted>>

RelocationStep == Relocate \/ Backup \/ WriteDocument \/ RollBack

\* Data writers are stopped for the move.
Next ==
  \/ /\ ~migrating
     /\ Start \/ BuildStep \/ BuildEnds \/ Refresh
     /\ UNCHANGED moveVars
  \/ (EditManifest \/ Forget) /\ UNCHANGED moveVars
  \/ MoveTree \/ RelocationStep \/ WriteFails \/ RelocationKilled

Spec == RelocationInit /\ [][Next]_allVars

(***************************************************************************)
(* Properties                                                              *)
(***************************************************************************)
\* The dataset catalog is the work of one build (OneBuild), whatever failed builds,
\* builds of other manifests and relocations have left; unless discovery or an edit of
\* the manifest raced with the build, or the operator had a relocation take the files as
\* it found them.
CatalogOfOneBuild == Dataset # Absent /\ ~Dataset.raced /\ ~accepted => OneBuild(Dataset)

\* "Candidate frames, event plans, collection manifests, and synchronized evidence
\* are durable and cataloged": while the writers may run, the evidence catalog
\* verifies.
EvidenceDurable == ~migrating => EvidenceVerifies

\* It does, through failures, kills and a relocation, unless a dataset build has
\* overwritten the files of a candidate since discovery last saved the catalog.
EvidenceDurableUnlessBuilt == ~migrating /\ spoiled = {} => EvidenceVerifies

\* A relocation that could succeed right after the move can still succeed after it
\* has failed or been killed at any document: the preflight does not take what it
\* has written itself for damage.
RelocationResumes ==
  migrating /\ clean /\ relocation.at = "idle"
    /\ (Dataset # Absent => tracked = Dataset.manifest) => Preflight(FALSE)

\* When the command succeeds, the collections, both catalogs and their checksums
\* agree at the new root, and so does the verification report, unless an earlier
\* attempt was killed.
RelocatedTogether ==
  [][migrating /\ ~migrating' =>
       /\ \A e \in Events : files'[Collection(e)] # Absent => files'[Collection(e)].root = New
       /\ Evidence'.root = New /\ EvidenceVerifies'
       /\ Dataset' # Absent =>
            /\ Dataset'.root = New /\ Matches(Dataset)'
            /\ ~interrupted => files'[Verification] = [catalog |-> Dataset', ok |-> TRUE]]_allVars

(***************************************************************************)
(* The inductive invariant                                                 *)
(***************************************************************************)
\* The documents before the running command has replaced any, and when it has replaced
\* all of them.
Origin == [f \in Files |-> IF f \in Planned THEN relocation.changes[f].before ELSE files[f]]
Target == [f \in Files |-> IF f \in Planned THEN relocation.changes[f].after ELSE files[f]]

\* The root of every document that names one
AllAt(disk, where) ==
  /\ disk[EvidenceCatalog].root = where
  /\ disk[DatasetCatalog] # Absent => disk[DatasetCatalog].root = where
  /\ \A e \in Events : disk[Collection(e)] # Absent => disk[Collection(e)].root = where
RootInv ==
  /\ migrating => root = New /\ build.at = "idle"
  /\ ~migrating => AllAt(files, root)
  /\ migrating /\ ~interrupted => AllAt(Origin, Old)

\* Discovery keeps what its catalog names: a listed candidate has been captured, by
\* discovery, unless a build has been there.
EvidenceSound(catalog) ==
  /\ EvidenceTyped(catalog)
  /\ ~accepted => \A c \in Candidates : catalog.artifacts[Plan(c)] \in {"captured", "emptied"}
  /\ spoiled = {} =>
       \A c \in Candidates :
         /\ c \in listed => catalog.artifacts[Plan(c)] = "captured"
         /\ migrating => files[Plan(c)] \in {catalog.artifacts[Plan(c)], Absent}
         /\ Collection(c) \in DOMAIN catalog.artifacts =>
              /\ Captured(catalog.artifacts[Collection(c)])
              /\ migrating => files[Collection(c)] = Absent \/ Captured(files[Collection(c)])
CatalogSound(catalog) ==
  catalog # Absent =>
    /\ CatalogTyped(catalog)
    /\ ~catalog.raced /\ ~accepted => OneBuild(catalog) /\ AllRecorded(catalog)
SoundInv ==
  /\ EvidenceSound(Origin[EvidenceCatalog]) /\ EvidenceSound(Target[EvidenceCatalog])
  /\ CatalogSound(Origin[DatasetCatalog]) /\ CatalogSound(Target[DatasetCatalog])

\* What the command comes to
Named(disk, catalog) ==
  \A a \in DOMAIN catalog.artifacts : disk[a] # Absent /\ disk[a] = catalog.artifacts[a]
Relocated ==
  /\ AllAt(Target, New)
  /\ Named(Target, Target[EvidenceCatalog])
  /\ Target[DatasetCatalog] # Absent =>
       /\ Named(Target, Target[DatasetCatalog])
       /\ Origin[DatasetCatalog].root = Old =>
            Target[Verification] = [catalog |-> Target[DatasetCatalog], ok |-> TRUE]
  /\ Origin[DatasetCatalog] = Absent => Target[DatasetCatalog] = Absent
  /\ \A e \in Events :
       LET before == Origin[Collection(e)] after == Target[Collection(e)] IN
         \/ after = before
         \/ /\ before \in Collections /\ before.root = Old
            /\ after = CollectionOf(before.capturer, New, TRUE)

\* The documents are replaced in their order, and restored in the opposite one.
ReplaceInv ==
  IF relocation.at = "idle" THEN relocation = NotRunning
  ELSE /\ migrating /\ Planned # {} /\ Relocated
       /\ relocation.at = "backup" => relocation.written = {}
       /\ relocation.at = "write" => Unwritten # {}
       /\ relocation.at = "rollback" => relocation.written # {}
       /\ \A d \in relocation.written, e \in Planned : Precedes(e, d) => e \in relocation.written
       /\ \A d \in Planned :
            files[d] = IF d \in relocation.written THEN relocation.changes[d].after
                       ELSE relocation.changes[d].before

\* An artifact is as its catalog says or a collection that is still to be rewritten.
Undamaged(disk, catalog) ==
  \A a \in DOMAIN catalog.artifacts :
    /\ disk[a] # Absent
    /\ \/ disk[a] = catalog.artifacts[a]
       \/ a \in {Collection(e) : e \in Events} /\ disk[a].root = Old
CleanInv ==
  clean /\ migrating =>
    /\ Undamaged(Origin, Origin[EvidenceCatalog])
    /\ Origin[DatasetCatalog] # Absent => Undamaged(Origin, Origin[DatasetCatalog])

\* A published dataset is the work of one build in every state.
Safety ==
  /\ TypeOK /\ CatalogOfOneBuild
  /\ BuildInv /\ RootInv /\ SoundInv /\ ReplaceInv /\ CleanInv
  /\ EvidenceDurableUnlessBuilt
=============================================================================
