----------------------------- MODULE DatasetBuild -----------------------------
(***************************************************************************)
(* The formal radar dataset (pipelines/dataset_build.py): a build turns    *)
(* the events of the tracked manifest into plans, collections of frames,   *)
(* tensors, evaluations and one archive for each split, may train and      *)
(* assess the weighted model, and catalogs each of these artifacts with    *)
(* its checksum.  An event that discovery has found passes a gate on its   *)
(* review first, and its plan and its collection are the very files that   *)
(* the event evidence catalog names.                                       *)
(*                                                                         *)
(* A file is its content, which stands for its checksum, and an absent one *)
(* is Absent: the content of a file that is computed from others names     *)
(* theirs.  No lock is held: a discovery run (EventDiscovery, here one     *)
(* step) and the operator's edits of the manifest come in between.         *)
(***************************************************************************)
EXTENDS Naturals, Sequences, SequencesExt, FiniteSets

CONSTANTS
  Events,      \* of all manifests
  Candidates,  \* the ones that discovery has found, under the same name
  Manifests,   \* bound: what the tracked manifest may be
  Roots,       \* where the data root may be: the old and the new one
  MaxBuilds,   \* bound: builds
  MaxFaults,   \* bound: failures, edits and forgotten frames
  Absent       \* no such file

Splits == {"train", "validation", "test"}
Old == "old"
New == "new"

\* The content of a collection: who has captured it, the root that the absolute paths of
\* its frames are below, and whether its keys are sorted.
Collections == [capturer : {"build", "discovery"}, root : Roots, sorted : BOOLEAN]

\* A manifest: its events in order, each once and in one split, the settings of
\* the dataset, and the candidates it names with the window and the regime reviewed.
ValidManifest(m) ==
  /\ IsInjective(m.events)
  /\ m.split \in [ToSet(m.events) -> Splits]
  /\ \A s \in Splits : \E e \in ToSet(m.events) : m.split[e] = s

ASSUME DatasetAssumption ==
  /\ Candidates \subseteq Events
  /\ \A m \in Manifests :
       /\ ValidManifest(m) /\ m.events \in Seq(Events)
       /\ m.reviewed \subseteq Candidates
  /\ Manifests # {} /\ Roots = {Old, New} /\ {MaxBuilds, MaxFaults} \subseteq Nat
  /\ Absent \notin {"captured", "emptied", "built", "frames"} \union Collections

VARIABLES
  root,      \* where the data root is
  files,     \* the content of every file below it
  tracked,   \* the manifest in the repository
  listed,    \* the events whose frames the source still lists
  approved,  \* the candidates with an approved review
  build,     \* the build
  builds,    \* number of builds so far
  faults,    \* number of faults so far
  spoiled    \* history: candidates whose evidence a build has overwritten

vars == <<root, files, tracked, listed, approved, build, builds, faults, spoiled>>

(***************************************************************************)
(* Artifacts                                                               *)
(***************************************************************************)
History == <<"history_index">>
Plan(e) == <<"event_plan", e>>
Collection(e) == <<"event_collection", e>>
Frames(e, capturer) == <<"raw_radar_frames", e, capturer>>
Tensor(e) == <<"tensor_archive", e>>
Persistence(e) == <<"persistence_evaluation", e>>
OpticalFlow(e) == <<"optical_flow_evaluation", e>>
Combined(s) == <<"combined_tensor_archive", s>>
Checkpoint == <<"model_checkpoint">>
Comparison(e) == <<"weighted_tiny_unet_evaluation", e>>
DatasetCatalog == <<"dataset_catalog">>
Verification == <<"dataset_verification">>
EvidenceCatalog == <<"event_evidence_catalog">>

Files ==
  {History, Checkpoint, DatasetCatalog, Verification, EvidenceCatalog}
    \union {Combined(s) : s \in Splits}
    \union UNION {{Plan(e), Collection(e), Frames(e, "build"), Frames(e, "discovery"), Tensor(e),
                   Persistence(e), OpticalFlow(e), Comparison(e)} : e \in Events}

\* Its keys are sorted (canonical_json_bytes), unless it is a build that writes it.
CollectionOf(capturer, where, sorted) ==
  [capturer |-> capturer, root |-> where, sorted |-> sorted]

\* What a catalog may name
Artifacts == Files \ {DatasetCatalog, Verification, EvidenceCatalog}
Names(catalog, artifact) == artifact \in DOMAIN catalog.artifacts
\* A file of another content has another checksum.
Matches(catalog) == \A a \in DOMAIN catalog.artifacts : files[a] = catalog.artifacts[a]

Dataset == files[DatasetCatalog]

\* verify_event_evidence_catalog
Evidence == files[EvidenceCatalog]
EvidenceVerifies == Matches(Evidence)
CompleteIn(evidence, c) == Names(evidence, Collection(c))

\* A collection of the candidate's own frames; another one does not count.
Captured(content) == content # Absent /\ content.capturer = "discovery"
EvidenceOf(where, capture) ==
  LET captured == {c \in Candidates : Captured(capture[Collection(c)])} IN
    [root |-> where,
     artifacts |-> [a \in {Plan(c) : c \in Candidates} \union {Collection(c) : c \in captured}
                            \union {Frames(c, "discovery") : c \in captured} |-> capture[a]]]

Idle == [at |-> "idle", manifest |-> CHOOSE m \in Manifests : TRUE, todo |-> <<>>, left |-> {},
         skip |-> FALSE, train |-> FALSE, index |-> {}, capturer |-> "build",
         artifacts |-> <<>>, raced |-> FALSE]
Places == {"idle", "history", "plan", "collection", "tensor",
           "record", "combine", "catalog", "checkpoint", "compare", "attach", "verify"}
EventPlaces == {"history", "plan", "collection", "tensor", "record"}

EvidenceTyped(catalog) ==
  /\ DOMAIN catalog = {"root", "artifacts"} /\ catalog.root \in Roots
  /\ {Plan(c) : c \in Candidates} \subseteq DOMAIN catalog.artifacts
  /\ DOMAIN catalog.artifacts \subseteq {Plan(c) : c \in Candidates}
       \union {Collection(c) : c \in Candidates} \union {Frames(c, "discovery") : c \in Candidates}
CatalogTyped(catalog) ==
  /\ DOMAIN catalog = {"root", "manifest", "split", "config", "artifacts", "ready", "raced"}
  /\ catalog.root \in Roots /\ catalog.manifest \in Manifests
  /\ DOMAIN catalog.artifacts \subseteq Artifacts

BuildTypeOK ==
  /\ DOMAIN build = DOMAIN Idle /\ build.at \in Places /\ build.manifest \in Manifests
  /\ build.left \subseteq Events /\ build.capturer \in {"build", "discovery"}
  /\ DOMAIN build.artifacts \subseteq Artifacts
  /\ build.at \in EventPlaces =>
       /\ build.todo \in Seq(Events) \ {<<>>} /\ IsInjective(build.todo)
       /\ ToSet(build.todo) \subseteq DOMAIN build.manifest.split
  /\ build.at \in {"combine", "catalog"} => build.todo = <<>>
  /\ build.at \in {"checkpoint", "compare", "attach", "verify"} =>
       CatalogTyped(Dataset) /\ Dataset.root = root
FilesTypeOK ==
  /\ DOMAIN files = Files
  /\ \A e \in Events :
       /\ files[Plan(e)] \in {Absent, "captured", "emptied", "built"}
       /\ files[Collection(e)] \in Collections \union {Absent}
       /\ e \notin Candidates /\ files[Collection(e)] # Absent =>
            files[Collection(e)].capturer = "build"
  /\ EvidenceTyped(Evidence)
  /\ Dataset # Absent => CatalogTyped(Dataset)
DatasetTypeOK ==
  /\ root \in Roots /\ tracked \in Manifests
  /\ listed \subseteq Events /\ approved \subseteq Candidates /\ spoiled \subseteq Candidates
  /\ faults \in 0..MaxFaults /\ builds \in 0..MaxBuilds
  /\ BuildTypeOK /\ FilesTypeOK

\* Discovery has captured its candidates.
Init ==
  /\ root = Old
  /\ tracked \in Manifests
  /\ LET captured == [f \in Files |->
           IF \E c \in Candidates : f = Plan(c) THEN "captured"
           ELSE IF \E c \in Candidates : f = Collection(c) THEN CollectionOf("discovery", Old, TRUE)
           ELSE IF \E c \in Candidates : f = Frames(c, "discovery") THEN "frames"
           ELSE Absent] IN
       files = [captured EXCEPT ![EvidenceCatalog] = EvidenceOf(Old, captured)]
  /\ listed = Events
  /\ approved \in SUBSET Candidates
  /\ build = Idle
  /\ builds = 0 /\ faults = 0 /\ spoiled = {}

(***************************************************************************)
(* What happens around a build                                             *)
(***************************************************************************)
Fault == faults < MaxFaults /\ faults' = faults + 1

\* What may come between two builds is a fault during one.
Aside == IF build.at = "idle" THEN UNCHANGED faults ELSE Fault

\* The manifest is edited.  The source forgets an event: between two builds, the
\* second of which may read the index of the first again.
EditManifest ==
  /\ Aside
  /\ \E m \in Manifests \ {tracked} : tracked' = m
  /\ build' = [build EXCEPT !.raced = @ \/ build.at # "idle"]
  /\ UNCHANGED <<root, files, listed, approved, builds, spoiled>>
Forget ==
  /\ Fault /\ build.at = "idle"
  /\ \E e \in listed : listed' = listed \ {e}
  /\ UNCHANGED <<root, files, tracked, approved, build, builds, spoiled>>

\* A discovery run refreshes each candidate: a plan or a collection that is not the
\* catalogued one is dropped and captured again from what the source still lists.
Intact(f) == files[f] = IF Names(Evidence, f) THEN Evidence.artifacts[f] ELSE Absent
RefreshedPlan(c) ==
  IF c \in listed THEN "captured" ELSE IF Intact(Plan(c)) THEN files[Plan(c)] ELSE "emptied"
RefreshedCollection(c) ==
  IF Intact(Collection(c)) /\ Captured(files[Collection(c)]) THEN files[Collection(c)]
  ELSE IF c \in listed THEN CollectionOf("discovery", root, TRUE)
  ELSE IF Intact(Collection(c)) THEN files[Collection(c)] ELSE Absent
Refreshed ==
  [f \in Files |-> IF \E c \in Candidates : f = Plan(c) THEN RefreshedPlan(f[2])
                  ELSE IF \E c \in Candidates : f = Collection(c) THEN RefreshedCollection(f[2])
                  ELSE files[f]]

\* It ends in an error, after this, if an approved candidate is then incomplete.
Refresh ==
  LET valid == \A c \in approved : Captured(Refreshed[Collection(c)]) IN
    /\ Aside /\ Evidence.root = root
    /\ files' = IF valid THEN [Refreshed EXCEPT ![EvidenceCatalog] = EvidenceOf(root, Refreshed)]
                ELSE Refreshed
    /\ files' # files
    /\ spoiled' = IF valid THEN {} ELSE spoiled
    /\ build' = [build EXCEPT !.raced = @ \/ build.at # "idle"]
    /\ UNCHANGED <<root, tracked, listed, approved, builds>>

(***************************************************************************)
(* The build                                                               *)
(***************************************************************************)
World == UNCHANGED <<root, tracked, listed, approved, builds, faults>>
Event == Head(build.todo)
Manifest == build.manifest
EventsIn(m, s) == {e \in DOMAIN m.split : m.split[e] = s}

\* validate_candidate_promotion_gate
PromotionGate(m) ==
  LET referenced == Candidates \intersect ToSet(m.events) IN
    referenced # {} =>
      /\ Evidence.root = root /\ EvidenceVerifies
      /\ \A c \in referenced : c \in approved /\ c \in m.reviewed /\ CompleteIn(Evidence, c)

\* With --history-index the index of an earlier build is read again.
Start ==
  /\ build.at = "idle" /\ PromotionGate(tracked)
  /\ \E skip, train \in BOOLEAN :
       build' = [Idle EXCEPT !.at = "history", !.manifest = tracked, !.todo = tracked.events,
                             !.skip = skip, !.train = train]
  /\ builds < MaxBuilds /\ builds' = builds + 1
  /\ UNCHANGED <<root, files, tracked, listed, approved, faults, spoiled>>

FetchHistory ==
  /\ build.at = "history"
  /\ files' = [files EXCEPT ![History] = listed]
  /\ build' = [build EXCEPT !.at = "plan", !.index = listed]
  /\ World /\ UNCHANGED spoiled
LoadHistory ==
  /\ build.at = "history" /\ files[History] # Absent
  /\ build' = [build EXCEPT !.at = "plan", !.index = files[History]]
  /\ World /\ UNCHANGED <<files, spoiled>>

Write(file, content, next) ==
  /\ files' = [files EXCEPT ![file] = content]
  /\ build' = [build EXCEPT !.at = next]
  /\ World

\* The plan lists every frame of the window, or the build ends.
WritePlan ==
  /\ build.at = "plan" /\ Event \in build.index
  /\ Write(Plan(Event), "built", "collection")
  /\ spoiled' = spoiled \union ({Event} \intersect Candidates)

\* --skip-download takes the collection that is there.
Kept == /\ files[Collection(Event)] # Absent
        /\ files[Collection(Event)].root = root
        /\ files[Frames(Event, files[Collection(Event)].capturer)] # Absent
KeepCollection ==
  /\ build.at = "collection" /\ build.skip /\ Kept
  /\ build' = [build EXCEPT !.at = "tensor", !.capturer = files[Collection(Event)].capturer]
  /\ World /\ UNCHANGED <<files, spoiled>>

\* download_event_frames: a frame that is there is not requested again.
Downloadable == Event \in listed \/ files[Frames(Event, "build")] # Absent
DownloadCollection ==
  /\ build.at = "collection" /\ ~build.skip /\ Downloadable
  /\ files' = [files EXCEPT ![Frames(Event, "build")] = "frames",
                            ![Collection(Event)] = CollectionOf("build", root, FALSE)]
  /\ build' = [build EXCEPT !.at = "tensor", !.capturer = "build"]
  /\ spoiled' = spoiled \union ({Event} \intersect Candidates)
  /\ World

\* Both evaluations score a forecast from the windows of one archive with that archive.
PersistenceOf(tensor) == [of |-> tensor]
OpticalFlowOf(tensor) == [of |-> tensor]

\* Convert's three files, which nothing reads in between: the tensors, and on them
\* the evaluations of Persistence and of optical flow.
Converted(tensor) ==
  /\ files[Collection(Event)] # Absent
  /\ files' = [files EXCEPT ![Tensor(Event)] = tensor,
                            ![Persistence(Event)] = PersistenceOf(tensor),
                            ![OpticalFlow(Event)] = OpticalFlowOf(tensor)]
  /\ build' = [build EXCEPT !.at = "record"]
  /\ World /\ UNCHANGED spoiled

\* convert_source: the windows over the collected frames, with the split as metadata.
TensorOf(collection) ==
  [capturer |-> collection.capturer, split |-> Manifest.split[Event], config |-> Manifest.config]

\* Mutant: a tensor that is there is not converted again.
ConvertMissing ==
  /\ build.at = "tensor"
  /\ Converted(IF files[Tensor(Event)] # Absent THEN files[Tensor(Event)]
               ELSE TensorOf(files[Collection(Event)]))

Convert ==
  /\ build.at = "tensor"
  /\ Converted(TensorOf(files[Collection(Event)]))

Recorded(artifacts) ==
  [a \in DOMAIN build.artifacts \union artifacts |->
     IF a \in artifacts THEN files[a] ELSE build.artifacts[a]]

\* The checksums of the event's files, as they are by now.
RecordEvent ==
  /\ build.at = "record"
  /\ files[Collection(Event)] # Absent
  /\ LET recorded == {Plan(Event), Collection(Event), Tensor(Event), Persistence(Event),
                      OpticalFlow(Event), Frames(Event, build.capturer)}
         rest == Tail(build.todo) IN
       build' = [build EXCEPT !.at = IF rest = <<>> THEN "combine" ELSE "plan",
                              !.todo = rest,
                              !.artifacts = Recorded(recorded)]
  /\ World /\ UNCHANGED <<files, spoiled>>

\* combine_split_archives: the tensors of the split's events
Archive(s) == [e \in EventsIn(Manifest, s) |-> files[Tensor(e)]]

Combine ==
  /\ build.at = "combine"
  /\ LET combined == {Combined(s) : s \in Splits} IN
       /\ files' = [f \in Files |-> IF f \in combined THEN Archive(f[2]) ELSE files[f]]
       /\ build' = [build EXCEPT
            !.at = "catalog",
            !.artifacts = [f \in DOMAIN @ \union combined |->
                             IF f \in combined THEN Archive(f[2]) ELSE @[f]]]
  /\ World /\ UNCHANGED spoiled

\* The history index and the tracked manifest are recorded last, as they are then.
WriteCatalog ==
  /\ build.at = "catalog"
  /\ files' = [files EXCEPT ![DatasetCatalog] =
       [root |-> root, manifest |-> tracked, split |-> Manifest.split, config |-> Manifest.config,
        artifacts |-> Recorded({History}), ready |-> FALSE, raced |-> build.raced]]
  /\ build' = [build EXCEPT !.at = IF build.train THEN "checkpoint" ELSE "verify"]
  /\ World /\ UNCHANGED spoiled

(***************************************************************************)
(* attach_weighted_model_assessment                                        *)
(***************************************************************************)
\* train_tiny_unet_archive: the weights and the normalization come from the train
\* archive, the epoch whose weights are kept from the validation archive.
Fitted(train, validation, config) ==
  [train |-> train, validation |-> validation, config |-> config]

\* evaluate_torch_baseline_comparison: the windows of the event, with the weights and
\* the normalization of the checkpoint; `beats' is whether it is better than
\* Persistence in both scores, on the whole and at every lead time.
Compared(tensor, checkpoint, beats) == [of |-> tensor, by |-> checkpoint, beats |-> beats]

\* The manifest is read again, the archives are the ones on disk.
Train ==
  /\ build.at = "checkpoint"
  /\ files' = [files EXCEPT ![Checkpoint] =
       Fitted(files[Combined("train")], files[Combined("validation")], tracked.config)]
  /\ build' = [build EXCEPT !.at = "compare", !.manifest = tracked,
                 !.left = EventsIn(tracked, "validation") \union EventsIn(tracked, "test")]
  /\ World /\ UNCHANGED spoiled

\* No evaluation reads another one: their order does not matter.
Compare ==
  /\ build.at = "compare"
  /\ \E e \in build.left, beats \in BOOLEAN :
       /\ files[Tensor(e)] # Absent
       /\ files' = [files EXCEPT ![Comparison(e)] =
                      Compared(files[Tensor(e)], files[Checkpoint], beats)]
       /\ build' = [build EXCEPT !.at = IF build.left = {e} THEN "attach" ELSE "compare",
                                 !.left = @ \ {e}]
  /\ World /\ UNCHANGED spoiled

\* DatasetCatalog: the assessment is about the splits of the catalog.
Assessed(s, catalog) == EventsIn(Manifest, s) = EventsIn(catalog, s)

\* The comparisons of the assessment, by their split
ComparisonsOf(s) == {Comparison(e) : e \in EventsIn(Manifest, s)}

\* promotion_gate_failures: none
GatePassed ==
  /\ ComparisonsOf("validation") # {} /\ ComparisonsOf("test") # {}
  /\ \A f \in ComparisonsOf("validation") \union ComparisonsOf("test") : files[f].beats

Attach ==
  /\ build.at = "attach"
  /\ LET catalog == files[DatasetCatalog]
         recorded == {Checkpoint} \union ComparisonsOf("validation") \union ComparisonsOf("test") IN
       /\ \A s \in Splits : Assessed(s, catalog)
       /\ files' = [files EXCEPT ![DatasetCatalog] =
            [catalog EXCEPT !.ready = GatePassed, !.raced = build.raced,
                            !.artifacts = [a \in DOMAIN @ \union recorded |->
                                             IF a \in recorded THEN files[a] ELSE @[a]]]]
  /\ build' = [build EXCEPT !.at = "verify"]
  /\ World /\ UNCHANGED spoiled

(***************************************************************************)
(* verify_dataset_catalog                                                  *)
(***************************************************************************)
\* build_dataset_verification_report, over the given contents of the files
ReportOn(catalog, disk) ==
  [catalog |-> catalog,
   ok |-> /\ tracked = catalog.manifest
          /\ \A a \in DOMAIN catalog.artifacts :
               disk[a] # Absent /\ disk[a] = catalog.artifacts[a]]

\* The report is written whatever it says.
Verify ==
  /\ build.at = "verify"
  /\ files' = [files EXCEPT ![Verification] = ReportOn(files[DatasetCatalog], files)]
  /\ build' = Idle
  /\ World /\ UNCHANGED spoiled

\* Any step may raise, and the process may be killed: what was written stays.
BuildEnds ==
  /\ Fault /\ build.at # "idle"
  /\ build' = Idle
  /\ UNCHANGED <<root, files, tracked, listed, approved, builds, spoiled>>

\* The errors that need no fault: a frame the index or the source no longer has, no
\* collection to keep, an assessment of other splits.
BuildRefused ==
  /\ \/ build.at = "plan" /\ Event \notin build.index
     \/ build.at = "collection" /\ IF build.skip THEN ~Kept ELSE ~Downloadable
     \/ build.at \in {"tensor", "record"} /\ files[Collection(Event)] = Absent
     \/ build.at = "compare" /\ \E e \in build.left : files[Tensor(e)] = Absent
     \/ build.at = "attach" /\ \E s \in Splits : ~Assessed(s, files[DatasetCatalog])
  /\ build' = Idle
  /\ World /\ UNCHANGED <<files, spoiled>>

BuildStep ==
  \/ FetchHistory \/ LoadHistory \/ WritePlan \/ KeepCollection \/ DownloadCollection
  \/ Convert \/ RecordEvent \/ Combine
  \/ WriteCatalog \/ Train \/ Compare \/ Attach \/ Verify \/ BuildRefused

(***************************************************************************)
(* What a build has made                                                   *)
(***************************************************************************)
\* The tensors of an event come from the catalogued collection, with the split and the
\* settings of `of' (a manifest or a catalog), its evaluations from these tensors.
EventMade(of, made, e) ==
  /\ made[Tensor(e)] = [capturer |-> made[Collection(e)].capturer,
                        split |-> of.split[e], config |-> of.config]
  /\ made[Persistence(e)] = PersistenceOf(made[Tensor(e)])
  /\ made[OpticalFlow(e)] = OpticalFlowOf(made[Tensor(e)])

\* A catalog is the work of one build: its events as above under the catalogued
\* manifest, each archive from these tensors; and a forecast that may be published
\* comes from a model trained on the archives of the catalog, and better than
\* Persistence on each of its other events.
OneBuild(catalog) ==
  LET made == catalog.artifacts IN
    /\ catalog.split = catalog.manifest.split /\ catalog.config = catalog.manifest.config
    /\ \A e \in DOMAIN catalog.split :
         /\ EventMade(catalog, made, e)
         /\ made[Combined(catalog.split[e])][e] = made[Tensor(e)]
    /\ catalog.ready =>
         /\ made[Checkpoint] = [train |-> made[Combined("train")], config |-> catalog.config,
                                validation |-> made[Combined("validation")]]
         /\ \A e \in DOMAIN catalog.split : catalog.split[e] # "train" =>
              made[Comparison(e)] = [of |-> made[Tensor(e)], by |-> made[Checkpoint], beats |-> TRUE]

\* All of it is recorded; and the plans are those of a build, and so are the
\* collections of the events that discovery does not know.
EventRecorded(made, e) ==
  /\ {Plan(e), Collection(e), Tensor(e), Persistence(e), OpticalFlow(e)} \subseteq DOMAIN made
  /\ made[Plan(e)] = "built"
  /\ e \notin Candidates => made[Collection(e)].capturer = "build"
AllRecorded(catalog) ==
  /\ \A e \in DOMAIN catalog.split : EventRecorded(catalog.artifacts, e)
  /\ {Combined(s) : s \in Splits} \subseteq DOMAIN catalog.artifacts
  /\ catalog.ready =>
       /\ Checkpoint \in DOMAIN catalog.artifacts
       /\ \A e \in DOMAIN catalog.split : catalog.split[e] # "train" =>
            Comparison(e) \in DOMAIN catalog.artifacts

\* Before the catalog: the events that are done are recorded, and what is combined from
\* their tensors is still there; the event at hand is as far as the build is.
GatherInv ==
  /\ build.at \in EventPlaces \union {"combine", "catalog"} =>
       \A e \in DOMAIN Manifest.split \ ToSet(build.todo) :
           /\ EventMade(Manifest, build.artifacts, e) /\ EventRecorded(build.artifacts, e)
           /\ files[Tensor(e)] = build.artifacts[Tensor(e)]
  /\ build.at \in {"collection", "tensor", "record"} => files[Plan(Event)] = "built"
  /\ build.at = "record" =>
       /\ files[Tensor(Event)] = TensorOf(files[Collection(Event)])
       /\ files[Persistence(Event)] = PersistenceOf(files[Tensor(Event)])
       /\ files[OpticalFlow(Event)] = OpticalFlowOf(files[Tensor(Event)])
  /\ build.at = "catalog" =>
       \A s \in Splits :
         /\ Combined(s) \in DOMAIN build.artifacts
         /\ build.artifacts[Combined(s)] = Archive(s) /\ files[Combined(s)] = Archive(s)

\* After it: the catalog is of this manifest, its tensors and archives are still there,
\* and so is what the assessment has made of them.
AssessInv ==
  /\ build.at \in {"checkpoint", "compare", "attach"} =>
       /\ ~Dataset.raced /\ Dataset.manifest = Manifest
       /\ OneBuild(Dataset) /\ AllRecorded(Dataset)
       /\ \A e \in DOMAIN Manifest.split : files[Tensor(e)] = Dataset.artifacts[Tensor(e)]
       /\ \A s \in Splits : files[Combined(s)] = Dataset.artifacts[Combined(s)]
  /\ build.at \in {"compare", "attach"} =>
       /\ files[Checkpoint] =
            Fitted(files[Combined("train")], files[Combined("validation")], Manifest.config)
       /\ \A e \in DOMAIN Manifest.split :
            Manifest.split[e] # "train" =>
              \/ build.at = "compare" /\ e \in build.left
              \/ \E beats \in BOOLEAN :
                   files[Comparison(e)] = Compared(files[Tensor(e)], files[Checkpoint], beats)

\* Unless discovery or an edit of the manifest has come in between
BuildInv ==
  build.at # "idle" /\ ~build.raced => tracked = Manifest /\ GatherInv /\ AssessInv
=============================================================================
