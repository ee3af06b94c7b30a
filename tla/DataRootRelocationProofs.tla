----------------------- MODULE DataRootRelocationProofs -----------------------
(***************************************************************************)
(* Proofs about the dataset build and the relocation of the data root.     *)
(***************************************************************************)
EXTENDS DataRootRelocation, TLAPS

(***************************************************************************)
(* Files                                                                   *)
(***************************************************************************)
\* The paths of two artifacts differ in their kind, their event or their split.
LEMMA Kinds ==
  /\ History[1] = "history_index" /\ Checkpoint[1] = "model_checkpoint"
  /\ DatasetCatalog[1] = "dataset_catalog" /\ Verification[1] = "dataset_verification"
  /\ EvidenceCatalog[1] = "event_evidence_catalog"
  /\ \A e : /\ Plan(e)[1] = "event_plan" /\ Plan(e)[2] = e
            /\ Collection(e)[1] = "event_collection" /\ Collection(e)[2] = e
            /\ Tensor(e)[1] = "tensor_archive" /\ Tensor(e)[2] = e
            /\ Persistence(e)[1] = "persistence_evaluation" /\ Persistence(e)[2] = e
            /\ OpticalFlow(e)[1] = "optical_flow_evaluation" /\ OpticalFlow(e)[2] = e
            /\ Comparison(e)[1] = "weighted_tiny_unet_evaluation" /\ Comparison(e)[2] = e
            /\ Combined(e)[1] = "combined_tensor_archive" /\ Combined(e)[2] = e
  /\ \A e, by : /\ Frames(e, by)[1] = "raw_radar_frames" /\ Frames(e, by)[2] = e
                /\ Frames(e, by)[3] = by
BY DEF History, Checkpoint, DatasetCatalog, Verification, EvidenceCatalog, Plan, Collection,
       Tensor, Persistence, OpticalFlow, Comparison, Combined, Frames

LEMMA InFiles ==
  /\ {History, Checkpoint, DatasetCatalog, Verification, EvidenceCatalog} \subseteq Files
  /\ \A s \in Splits : Combined(s) \in Files
  /\ \A e \in Events :
       {Plan(e), Collection(e), Frames(e, "build"), Frames(e, "discovery"), Tensor(e),
        Persistence(e), OpticalFlow(e), Comparison(e)} \subseteq Files
BY DEF Files

LEMMA InArtifacts ==
  /\ {History, Checkpoint} \subseteq Artifacts
  /\ \A s \in Splits : Combined(s) \in Artifacts
  /\ \A e \in Events :
       {Plan(e), Collection(e), Frames(e, "build"), Frames(e, "discovery"), Tensor(e),
        Persistence(e), OpticalFlow(e), Comparison(e)} \subseteq Artifacts
BY InFiles, Kinds DEF Artifacts

LEMMA Constants ==
  /\ Candidates \subseteq Events /\ Manifests # {} /\ Roots = {Old, New} /\ Old # New
  /\ MaxBuilds \in Nat /\ MaxFaults \in Nat
  /\ Absent \notin {"captured", "emptied", "built", "frames"} \union Collections
  /\ \A m \in Manifests : /\ ValidManifest(m) /\ DOMAIN m.split = ToSet(m.events)
                          /\ DOMAIN m.split \subseteq Events
                          /\ \A e \in DOMAIN m.split : m.split[e] \in Splits
<1>1. ASSUME NEW m \in Manifests
      PROVE  /\ ValidManifest(m) /\ DOMAIN m.split = ToSet(m.events)
             /\ DOMAIN m.split \subseteq Events
             /\ \A e \in DOMAIN m.split : m.split[e] \in Splits
  <2>1. ValidManifest(m) /\ m.events \in Seq(Events)
    BY DatasetAssumption
  <2>2. ToSet(m.events) \subseteq Events
    BY <2>1 DEF ToSet
  <2>3. QED BY <2>1, <2>2 DEF ValidManifest
<1>2. QED BY <1>1, DatasetAssumption DEF Old, New

\* What discovery saves names the plans, and the collections it has captured.
LEMMA EvidenceOfDisk ==
  ASSUME NEW where \in Roots, NEW disk, NEW catalog, catalog = EvidenceOf(where, disk)
  PROVE  /\ EvidenceTyped(catalog) /\ catalog.root = where
         /\ \A a \in DOMAIN catalog.artifacts : catalog.artifacts[a] = disk[a]
         /\ \A c \in Candidates :
              /\ catalog.artifacts[Plan(c)] = disk[Plan(c)]
              /\ Collection(c) \in DOMAIN catalog.artifacts => Captured(disk[Collection(c)])
<1> DEFINE captured == {c \in Candidates : Captured(disk[Collection(c)])}
           names == {Plan(c) : c \in Candidates} \union {Collection(c) : c \in captured}
                      \union {Frames(c, "discovery") : c \in captured}
<1>1. catalog = [root |-> where, artifacts |-> [a \in names |-> disk[a]]]
  BY DEF EvidenceOf
<1>2. catalog.root = where /\ DOMAIN catalog = {"root", "artifacts"}
      /\ catalog.artifacts = [a \in names |-> disk[a]]
  BY <1>1
<1>3. ASSUME NEW c \in Candidates, Collection(c) \in names PROVE Captured(disk[Collection(c)])
  BY <1>3, Kinds
<1>4. EvidenceTyped(catalog)
  BY <1>2 DEF EvidenceTyped
<1>5. QED BY <1>2, <1>3, <1>4

(***************************************************************************)
(* The initial states                                                      *)
(***************************************************************************)
\* While no command runs, nothing is planned.
LEMMA AtRest ==
  ASSUME relocation = NotRunning
  PROVE  /\ Planned = {} /\ \A f \in Files : Origin[f] = files[f] /\ Target[f] = files[f]
         /\ Origin[EvidenceCatalog] = Evidence /\ Target[EvidenceCatalog] = Evidence
         /\ Origin[DatasetCatalog] = Dataset /\ Target[DatasetCatalog] = Dataset
<1>1. Planned = {}
  BY DEF NotRunning, Planned
<1>2. QED BY <1>1, InFiles DEF Origin, Target, Evidence, Dataset

LEMMA InitSafe == RelocationInit => Safety
<1> SUFFICES ASSUME RelocationInit PROVE Safety
  OBVIOUS
<1>1. /\ root = Old /\ tracked \in Manifests /\ listed = Events /\ approved \subseteq Candidates
      /\ build = Idle /\ builds = 0 /\ faults = 0 /\ spoiled = {}
      /\ migrating = FALSE /\ relocation = NotRunning
      /\ clean = FALSE /\ interrupted = FALSE /\ accepted = FALSE
  BY DEF RelocationInit, Init
<1>a. PICK disk :
        /\ disk = [f \in Files |->
             IF \E c \in Candidates : f = Plan(c) THEN "captured"
             ELSE IF \E c \in Candidates : f = Collection(c) THEN CollectionOf("discovery", Old, TRUE)
             ELSE IF \E c \in Candidates : f = Frames(c, "discovery") THEN "frames"
             ELSE Absent]
        /\ files = [disk EXCEPT ![EvidenceCatalog] = EvidenceOf(Old, disk)]
  BY DEF RelocationInit, Init
<1>b. ASSUME NEW f \in Files, NEW c \in Candidates
      PROVE  /\ f = Plan(c) => disk[f] = "captured"
             /\ f = Collection(c) => disk[f] = CollectionOf("discovery", Old, TRUE)
  <2>1. disk[f] = IF \E x \in Candidates : f = Plan(x) THEN "captured"
                  ELSE IF \E x \in Candidates : f = Collection(x)
                       THEN CollectionOf("discovery", Old, TRUE)
                  ELSE IF \E x \in Candidates : f = Frames(x, "discovery") THEN "frames"
                  ELSE Absent
    BY <1>a
  <2>2. f = Collection(c) => ~\E x \in Candidates : f = Plan(x)
    BY Kinds
  <2>3. QED BY <2>1, <2>2
<1>c. ASSUME NEW f \in Files, f[1] \notin {"event_plan", "event_collection", "raw_radar_frames"}
      PROVE  disk[f] = Absent
  <2>1. disk[f] = IF \E x \in Candidates : f = Plan(x) THEN "captured"
                  ELSE IF \E x \in Candidates : f = Collection(x)
                       THEN CollectionOf("discovery", Old, TRUE)
                  ELSE IF \E x \in Candidates : f = Frames(x, "discovery") THEN "frames"
                  ELSE Absent
    BY <1>a
  <2>2. \A x : f # Plan(x) /\ f # Collection(x) /\ f # Frames(x, "discovery")
    BY <1>c, Kinds
  <2>3. QED BY <2>1, <2>2
<1>d. ASSUME NEW f \in Files, NEW e \in Events \ Candidates, f = Plan(e) \/ f = Collection(e)
      PROVE  disk[f] = Absent
  <2>1. disk[f] = IF \E x \in Candidates : f = Plan(x) THEN "captured"
                  ELSE IF \E x \in Candidates : f = Collection(x)
                       THEN CollectionOf("discovery", Old, TRUE)
                  ELSE IF \E x \in Candidates : f = Frames(x, "discovery") THEN "frames"
                  ELSE Absent
    BY <1>a
  <2>2. \A x \in Candidates : f # Plan(x) /\ f # Collection(x) /\ f # Frames(x, "discovery")
    BY <1>d, Kinds
  <2>3. QED BY <2>1, <2>2
<1>2. /\ DOMAIN files = Files /\ Evidence = EvidenceOf(Old, disk) /\ Dataset = Absent
      /\ \A a \in Artifacts : files[a] = disk[a]
  <2>1. /\ DatasetCatalog # EvidenceCatalog /\ \A a \in Artifacts : a # EvidenceCatalog /\ a \in Files
    BY Kinds DEF Artifacts
  <2>2. disk[DatasetCatalog] = Absent
    BY <1>c, InFiles, Kinds
  <2>3. QED BY <1>a, <2>1, <2>2, InFiles DEF Evidence, Dataset
<1>3. \A c \in Candidates : /\ files[Plan(c)] = "captured"
                            /\ files[Collection(c)] = CollectionOf("discovery", Old, TRUE)
  <2> TAKE c \in Candidates
  <2>1. Plan(c) \in Artifacts /\ Collection(c) \in Artifacts /\ Plan(c) \in Files /\ Collection(c) \in Files
    BY InArtifacts, InFiles, Constants
  <2>2. disk[Plan(c)] = "captured"
    BY <1>b, <2>1
  <2>3. disk[Collection(c)] = CollectionOf("discovery", Old, TRUE)
    BY <1>b, <2>1
  <2>4. QED BY <1>2, <2>1, <2>2, <2>3
<1>4. \A e \in Events \ Candidates : files[Plan(e)] = Absent /\ files[Collection(e)] = Absent
  <2> TAKE e \in Events \ Candidates
  <2>1. Plan(e) \in Artifacts /\ Collection(e) \in Artifacts /\ Plan(e) \in Files /\ Collection(e) \in Files
    BY InArtifacts, InFiles
  <2>2. disk[Plan(e)] = Absent
    BY <1>d, <2>1
  <2>3. disk[Collection(e)] = Absent
    BY <1>d, <2>1
  <2>4. QED BY <1>2, <2>1, <2>2, <2>3
<1>5. Old \in Roots
  BY Constants
<1>6. /\ EvidenceTyped(Evidence) /\ Evidence.root = Old
      /\ \A a \in DOMAIN Evidence.artifacts : Evidence.artifacts[a] = disk[a]
      /\ \A c \in Candidates : Evidence.artifacts[Plan(c)] = disk[Plan(c)]
  BY <1>2, <1>5, EvidenceOfDisk
<1>7. Matches(Evidence)
  <2>1. DOMAIN Evidence.artifacts \subseteq Artifacts
    BY <1>6, InArtifacts, Constants DEF EvidenceTyped
  <2>2. QED BY <1>2, <1>6, <2>1 DEF Matches
<1>8. CollectionOf("discovery", Old, TRUE) \in Collections
      /\ CollectionOf("discovery", Old, TRUE).root = Old
      /\ CollectionOf("discovery", Old, TRUE).capturer = "discovery"
  BY <1>5 DEF CollectionOf, Collections
<1>9. TypeOK
  <2>1. build.at = "idle" /\ build.manifest \in Manifests /\ DOMAIN build.artifacts = {} /\ build.left = {}
        /\ DOMAIN build = DOMAIN Idle /\ build.capturer = "build"
    BY <1>1, Constants DEF Idle
  <2>2. ASSUME NEW e \in Events
        PROVE  /\ files[Plan(e)] \in {Absent, "captured", "emptied", "built"}
               /\ files[Collection(e)] \in Collections \union {Absent}
               /\ e \notin Candidates /\ files[Collection(e)] # Absent =>
                    files[Collection(e)].capturer = "build"
    BY <1>3, <1>4, <1>8
  <2>a. BuildTypeOK
    BY <2>1 DEF BuildTypeOK, Places, EventPlaces
  <2>b. FilesTypeOK
    BY <1>2, <1>6, <2>2 DEF FilesTypeOK
  <2>3. DatasetTypeOK
    BY <1>1, <1>5, <2>a, <2>b, Constants DEF DatasetTypeOK
  <2>4. /\ relocation.changes = <<>> /\ relocation.written = {} /\ relocation.at = "idle"
        /\ DOMAIN relocation = {"at", "changes", "written"}
    BY <1>1 DEF NotRunning
  <2>5. Planned = {}
    BY <2>4 DEF Planned
  <2>6. QED BY <1>1, <2>3, <2>4, <2>5 DEF TypeOK
<1>10. RootInv
  <2>1. AllAt(files, Old)
    BY <1>2, <1>3, <1>4, <1>6, <1>8 DEF AllAt, Evidence, Dataset
  <2>2. QED BY <1>1, <2>1 DEF RootInv
<1>11. EvidenceSound(Evidence)
  <2>1. \A c \in Candidates : Evidence.artifacts[Plan(c)] = "captured"
    BY <1>2, <1>3, <1>6, InArtifacts, Constants
  <2>2. ASSUME NEW c \in Candidates, Collection(c) \in DOMAIN Evidence.artifacts
        PROVE  Captured(Evidence.artifacts[Collection(c)])
    BY <1>3, <1>7, <1>8, <2>2, Constants DEF Matches, Captured
  <2>3. QED BY <1>1, <1>6, <2>1, <2>2 DEF EvidenceSound
<1>12. SoundInv /\ ReplaceInv /\ CleanInv
  BY <1>1, <1>2, <1>11, AtRest DEF SoundInv, CatalogSound, ReplaceInv, CleanInv, NotRunning
<1>13. BuildInv /\ CatalogOfOneBuild /\ EvidenceDurableUnlessBuilt
  BY <1>1, <1>2, <1>7 DEF BuildInv, Idle, CatalogOfOneBuild, EvidenceDurableUnlessBuilt, EvidenceVerifies
<1>14. QED BY <1>9, <1>10, <1>12, <1>13 DEF Safety

(***************************************************************************)
(* The steps of a build                                                    *)
(***************************************************************************)
LEMMA AtRestNext ==
  ASSUME relocation' = NotRunning
  PROVE  /\ Planned' = {} /\ \A f \in Files : Origin'[f] = files'[f] /\ Target'[f] = files'[f]
         /\ Origin'[EvidenceCatalog] = Evidence' /\ Target'[EvidenceCatalog] = Evidence'
         /\ Origin'[DatasetCatalog] = Dataset' /\ Target'[DatasetCatalog] = Dataset'
<1>1. Planned' = {}
  BY DEF NotRunning, Planned
<1>2. QED BY <1>1, InFiles DEF Origin, Target, Evidence, Dataset

\* What is known while the writers may run
LEMMA Running ==
  ASSUME Safety, ~migrating
  PROVE  /\ DatasetTypeOK /\ BuildInv /\ relocation = NotRunning /\ AllAt(files, root)
         /\ EvidenceSound(Evidence) /\ CatalogSound(Dataset)
         /\ spoiled = {} => EvidenceVerifies
         /\ {migrating, clean, interrupted, accepted} \subseteq BOOLEAN
<1>1. relocation = NotRunning
  BY DEF Safety, ReplaceInv
<1>2. QED BY <1>1, AtRest DEF Safety, TypeOK, RootInv, SoundInv, EvidenceDurableUnlessBuilt

\* A step that writes no document but the dataset catalog, captures frames below the root,
\* and marks the candidates whose evidence it overwrites.
LEMMA QuietSafe ==
  ASSUME Safety, ~migrating, UNCHANGED <<moveVars, root, listed>>,
         DatasetTypeOK', BuildInv', Evidence' = Evidence, CatalogSound(Dataset)',
         Dataset' # Absent => Dataset'.root = root,
         spoiled \subseteq spoiled',
         \A e \in Events :
           \/ files'[Collection(e)] = files[Collection(e)]
           \/ files'[Collection(e)].root = root,
         \A c \in Candidates :
           /\ files'[Frames(c, "discovery")] = files[Frames(c, "discovery")]
           /\ c \notin spoiled' => files'[Plan(c)] = files[Plan(c)]
           /\ c \notin spoiled' => files'[Collection(c)] = files[Collection(c)]
  PROVE  Safety'
<1>1. /\ relocation = NotRunning /\ relocation' = NotRunning /\ ~migrating' /\ AllAt(files, root)
      /\ EvidenceSound(Evidence) /\ (spoiled = {} => EvidenceVerifies)
      /\ {migrating, clean, interrupted, accepted} \subseteq BOOLEAN
  BY Running DEF moveVars
<1>2. TypeOK'
  <2>1. /\ relocation'.written = {} /\ relocation'.at = "idle" /\ Planned' = {}
        /\ DOMAIN relocation' = {"at", "changes", "written"}
    BY <1>1, AtRestNext DEF NotRunning
  <2>2. QED BY <1>1, <2>1 DEF TypeOK, moveVars
<1>3. RootInv'
  BY <1>1 DEF RootInv, AllAt, Evidence, Dataset
<1>4. EvidenceSound(Evidence)'
  BY <1>1 DEF EvidenceSound, moveVars
<1>5. SoundInv'
  <2>1. EvidenceSound(Origin[EvidenceCatalog])' /\ EvidenceSound(Target[EvidenceCatalog])'
    BY <1>1, <1>4, AtRestNext DEF EvidenceSound
  <2>2. CatalogSound(Origin[DatasetCatalog])' /\ CatalogSound(Target[DatasetCatalog])'
    BY <1>1, AtRestNext DEF CatalogSound
  <2>3. QED BY <2>1, <2>2 DEF SoundInv
<1>6. ReplaceInv' /\ CleanInv'
  BY <1>1 DEF ReplaceInv, CleanInv, NotRunning
<1>7. CatalogOfOneBuild'
  BY DEF CatalogOfOneBuild, CatalogSound
<1>8. ASSUME spoiled' = {} PROVE EvidenceVerifies'
  <2>1. /\ Matches(Evidence) /\ EvidenceTyped(Evidence)
    BY <1>1, <1>8 DEF EvidenceVerifies, EvidenceSound
  <2>2. ASSUME NEW a \in DOMAIN Evidence.artifacts PROVE files'[a] = Evidence.artifacts[a]
    BY <1>8, <2>1 DEF Matches, EvidenceTyped
  <2>3. QED BY <2>2 DEF EvidenceVerifies, Matches
<1>9. QED BY <1>2, <1>3, <1>5, <1>6, <1>7, <1>8 DEF Safety, EvidenceDurableUnlessBuilt

LEMMA Fields ==
  /\ DOMAIN Idle = {"at", "manifest", "todo", "left", "skip", "train", "index", "capturer",
                    "artifacts", "raced"}
  /\ Idle.at = "idle" /\ Idle.left = {} /\ Idle.capturer = "build" /\ ~Idle.raced
  /\ Idle.manifest \in Manifests /\ DOMAIN Idle.artifacts = {}
BY Constants DEF Idle

\* A step of a build that writes, of what the catalogs and the relocation are about, only
\* plans and collections.
LEMMA EventStepSafe ==
  ASSUME Safety, ~migrating, UNCHANGED <<moveVars, root, tracked, listed, approved>>,
         faults' \in 0..MaxFaults, builds' \in 0..MaxBuilds,
         BuildTypeOK', BuildInv',
         DOMAIN files' = Files, Evidence' = Evidence, Dataset' = Dataset,
         spoiled' \subseteq Candidates, spoiled \subseteq spoiled',
         \A e \in Events :
           /\ files'[Plan(e)] \in {files[Plan(e)], "built"}
           /\ files'[Collection(e)] \in {files[Collection(e)], CollectionOf("build", root, FALSE)},
         \A c \in Candidates :
           /\ files'[Frames(c, "discovery")] = files[Frames(c, "discovery")]
           /\ c \notin spoiled' => files'[Plan(c)] = files[Plan(c)]
           /\ c \notin spoiled' => files'[Collection(c)] = files[Collection(c)]
  PROVE  Safety'
<1>1. DatasetTypeOK /\ CatalogSound(Dataset) /\ AllAt(files, root)
  BY Running
<1>2. /\ CollectionOf("build", root, FALSE) \in Collections
      /\ CollectionOf("build", root, FALSE).root = root
      /\ CollectionOf("build", root, FALSE).capturer = "build"
  BY <1>1 DEF DatasetTypeOK, CollectionOf, Collections
<1>3. FilesTypeOK /\ EvidenceTyped(Evidence) /\ (Dataset # Absent => CatalogTyped(Dataset))
  BY <1>1 DEF DatasetTypeOK, FilesTypeOK
<1>4. FilesTypeOK'
  <2>1. ASSUME NEW e \in Events
        PROVE  /\ files'[Plan(e)] \in {Absent, "captured", "emptied", "built"}
               /\ files'[Collection(e)] \in Collections \union {Absent}
               /\ e \notin Candidates /\ files'[Collection(e)] # Absent =>
                    files'[Collection(e)].capturer = "build"
    BY <1>2, <1>3 DEF FilesTypeOK
  <2>2. QED BY <1>3, <2>1 DEF FilesTypeOK
<1>5. DatasetTypeOK'
  BY <1>1, <1>4 DEF DatasetTypeOK
<1>6. CatalogSound(Dataset)'
  BY <1>1 DEF CatalogSound, moveVars
<1>7. Dataset' # Absent => Dataset'.root = root
  BY <1>1 DEF AllAt, Dataset
<1>8. QED BY <1>2, <1>5, <1>6, <1>7, QuietSafe

\* A step that writes no plan, collection or frame of discovery.
LEMMA OtherFilesSafe ==
  ASSUME Safety, ~migrating, UNCHANGED <<moveVars, root, tracked, listed, approved, spoiled>>,
         faults' \in 0..MaxFaults, builds' \in 0..MaxBuilds, BuildTypeOK', BuildInv',
         DOMAIN files' = Files, Evidence' = Evidence, Dataset' = Dataset,
         \A e \in Events :
           /\ files'[Plan(e)] = files[Plan(e)] /\ files'[Collection(e)] = files[Collection(e)]
           /\ files'[Frames(e, "discovery")] = files[Frames(e, "discovery")]
  PROVE  Safety'
<1>1. spoiled' \subseteq Candidates
  BY Running DEF DatasetTypeOK
<1>2. /\ \A e \in Events :
           /\ files'[Plan(e)] \in {files[Plan(e)], "built"}
           /\ files'[Collection(e)] \in {files[Collection(e)], CollectionOf("build", root, FALSE)}
      /\ \A c \in Candidates :
           /\ files'[Frames(c, "discovery")] = files[Frames(c, "discovery")]
           /\ c \notin spoiled' => files'[Plan(c)] = files[Plan(c)]
           /\ c \notin spoiled' => files'[Collection(c)] = files[Collection(c)]
  BY Constants
<1>3. QED BY <1>1, <1>2, EventStepSafe

\* A step that writes no file at all.
LEMMA SameFilesSafe ==
  ASSUME Safety, ~migrating, UNCHANGED <<moveVars, root, files, tracked, listed, approved, spoiled>>,
         faults' \in 0..MaxFaults, builds' \in 0..MaxBuilds, BuildTypeOK', BuildInv'
  PROVE  Safety'
<1>1. DOMAIN files = Files
  BY Running DEF DatasetTypeOK, FilesTypeOK
<1>2. Evidence' = Evidence /\ Dataset' = Dataset
  BY DEF Evidence, Dataset
<1>3. QED BY <1>1, <1>2, OtherFilesSafe

\* Once a build has ended, nothing is left of it but the files.
LEMMA BackToIdle == build' = Idle => BuildTypeOK' /\ BuildInv'
<1> SUFFICES ASSUME build' = Idle PROVE BuildTypeOK' /\ BuildInv'
  OBVIOUS
<1>1. BuildTypeOK'
  BY Fields DEF BuildTypeOK, Places, EventPlaces
<1>2. QED BY <1>1, Fields DEF BuildInv

LEMMA BuildEndsSafe ==
  Safety /\ ~migrating /\ (BuildEnds \/ BuildRefused) /\ UNCHANGED moveVars => Safety'
<1> SUFFICES ASSUME Safety, ~migrating, BuildEnds \/ BuildRefused, UNCHANGED moveVars PROVE Safety'
  OBVIOUS
<1>1. faults \in 0..MaxFaults /\ builds \in 0..MaxBuilds
  BY Running DEF DatasetTypeOK
<1>2. /\ build' = Idle /\ UNCHANGED <<root, files, tracked, listed, approved, builds, spoiled>>
      /\ faults' \in 0..MaxFaults
  BY <1>1, Constants DEF BuildEnds, BuildRefused, Fault, World
<1>3. QED BY <1>1, <1>2, BackToIdle, SameFilesSafe

\* The events of a manifest are the ones it begins with.
LEMMA StartSafe == Safety /\ ~migrating /\ Start /\ UNCHANGED moveVars => Safety'
<1> SUFFICES ASSUME Safety, ~migrating, Start, UNCHANGED moveVars PROVE Safety'
  OBVIOUS
<1>1. tracked \in Manifests /\ faults \in 0..MaxFaults /\ builds \in 0..MaxBuilds
  BY Running DEF DatasetTypeOK
<1>2. PICK skip \in BOOLEAN, train \in BOOLEAN :
        build' = [Idle EXCEPT !.at = "history", !.manifest = tracked, !.todo = tracked.events,
                              !.skip = skip, !.train = train]
  BY DEF Start
<1>3. /\ UNCHANGED <<root, files, tracked, listed, approved, faults, spoiled>>
      /\ builds' \in 0..MaxBuilds
  BY <1>1, Constants DEF Start
<1>4. /\ DOMAIN build' = DOMAIN Idle /\ build'.at = "history" /\ build'.manifest = tracked
      /\ build'.todo = tracked.events /\ build'.left = {} /\ build'.capturer = "build"
      /\ DOMAIN build'.artifacts = {}
  BY <1>2, Fields
<1>5. /\ tracked.events \in Seq(Events) /\ IsInjective(tracked.events)
      /\ DOMAIN tracked.split = ToSet(tracked.events) /\ tracked.events # <<>>
  <2>1. /\ tracked.events \in Seq(Events) /\ IsInjective(tracked.events)
        /\ DOMAIN tracked.split = ToSet(tracked.events)
        /\ \E e \in ToSet(tracked.events) : tracked.split[e] = "train"
    BY <1>1, Constants, DatasetAssumption DEF ValidManifest, Splits
  <2>2. tracked.events # <<>>
    BY <2>1 DEF ToSet
  <2>3. QED BY <2>1, <2>2
<1>6. BuildTypeOK'
  BY <1>1, <1>4, <1>5 DEF BuildTypeOK, Places, EventPlaces
<1>7. BuildInv'
  BY <1>3, <1>4, <1>5 DEF BuildInv, GatherInv, AssessInv, Manifest
<1>8. QED BY <1>1, <1>3, <1>6, <1>7, SameFilesSafe

LEMMA HeadTail ==
  ASSUME NEW s \in Seq(Events), s # <<>>, IsInjective(s)
  PROVE  /\ Head(s) \in Events /\ Tail(s) \in Seq(Events) /\ IsInjective(Tail(s))
         /\ ToSet(s) = {Head(s)} \union ToSet(Tail(s)) /\ Head(s) \notin ToSet(Tail(s))
<1>1. /\ Len(s) \in Nat /\ Len(s) > 0 /\ DOMAIN s = 1..Len(s) /\ Head(s) = s[1] /\ s[1] \in Events
  OBVIOUS
<1>2. /\ Tail(s) \in Seq(Events) /\ DOMAIN Tail(s) = 1..(Len(s) - 1)
      /\ \A i \in 1..(Len(s) - 1) : Tail(s)[i] = s[i + 1]
  OBVIOUS
<1>3. \A i, j \in 1..Len(s) : s[i] = s[j] => i = j
  BY <1>1 DEF IsInjective
<1>4. IsInjective(Tail(s))
  BY <1>1, <1>2, <1>3 DEF IsInjective
<1>5. Head(s) \notin ToSet(Tail(s))
  BY <1>1, <1>2, <1>3 DEF ToSet
<1>6. ASSUME NEW x PROVE x \in ToSet(s) <=> x = Head(s) \/ x \in ToSet(Tail(s))
  <2>1. ASSUME x \in ToSet(s) PROVE x = Head(s) \/ x \in ToSet(Tail(s))
    <3>1. PICK i \in 1..Len(s) : x = s[i]
      BY <1>1, <2>1 DEF ToSet
    <3>2. CASE i = 1
      BY <1>1, <3>1, <3>2
    <3>3. CASE i # 1
      <4>1. i - 1 \in 1..(Len(s) - 1) /\ Tail(s)[i - 1] = x
        BY <1>1, <1>2, <3>1, <3>3
      <4>2. QED BY <1>2, <4>1 DEF ToSet
    <3>4. QED BY <3>2, <3>3
  <2>2. ASSUME x \in ToSet(Tail(s)) PROVE x \in ToSet(s)
    <3>1. PICK i \in 1..(Len(s) - 1) : x = s[i + 1]
      BY <1>2, <2>2 DEF ToSet
    <3>2. i + 1 \in DOMAIN s
      BY <1>1, <3>1
    <3>3. QED BY <3>1, <3>2 DEF ToSet
  <2>3. x = Head(s) => x \in ToSet(s)
    BY <1>1 DEF ToSet
  <2>4. QED BY <2>1, <2>2, <2>3
<1>7. QED BY <1>1, <1>2, <1>4, <1>5, <1>6

\* The event at hand
LEMMA AtHand ==
  ASSUME BuildTypeOK, build.at \in EventPlaces
  PROVE  /\ build.todo \in Seq(Events) /\ build.todo # <<>> /\ IsInjective(build.todo)
         /\ Event \in Events /\ Event \in DOMAIN Manifest.split /\ Event \in ToSet(build.todo)
         /\ ToSet(build.todo) \subseteq DOMAIN Manifest.split
<1>1. /\ build.todo \in Seq(Events) /\ build.todo # <<>> /\ IsInjective(build.todo)
      /\ ToSet(build.todo) \subseteq DOMAIN Manifest.split
  BY DEF BuildTypeOK, Manifest
<1>2. QED BY <1>1, HeadTail DEF Event

LEMMA SplitEvents ==
  ASSUME BuildTypeOK
  PROVE  /\ Manifest \in Manifests /\ DOMAIN Manifest.split \subseteq Events
         /\ \A e \in DOMAIN Manifest.split : Manifest.split[e] \in Splits
BY Constants DEF BuildTypeOK, Manifest

LEMMA HistorySafe ==
  Safety /\ ~migrating /\ (FetchHistory \/ LoadHistory) /\ UNCHANGED moveVars => Safety'
<1> SUFFICES ASSUME Safety, ~migrating, FetchHistory \/ LoadHistory, UNCHANGED moveVars
             PROVE  Safety'
  OBVIOUS
<1>1. /\ DatasetTypeOK /\ BuildTypeOK /\ FilesTypeOK /\ BuildInv
      /\ faults \in 0..MaxFaults /\ builds \in 0..MaxBuilds
  BY Running DEF DatasetTypeOK
<1>2. /\ build.at = "history" /\ UNCHANGED <<root, tracked, listed, approved, builds, faults, spoiled>>
      /\ \E index : build' = [build EXCEPT !.at = "plan", !.index = index]
      /\ files' = files \/ files' = [files EXCEPT ![History] = listed]
  BY DEF FetchHistory, LoadHistory, World
<1>3. /\ DOMAIN build' = DOMAIN Idle /\ build'.at = "plan" /\ build'.manifest = build.manifest
      /\ build'.todo = build.todo /\ build'.left = build.left /\ build'.capturer = build.capturer
      /\ build'.artifacts = build.artifacts /\ build'.raced = build.raced
  BY <1>1, <1>2, Fields DEF BuildTypeOK
<1>4. /\ DOMAIN files' = Files /\ Evidence' = Evidence /\ Dataset' = Dataset
      /\ \A e \in Events :
           /\ files'[Plan(e)] = files[Plan(e)] /\ files'[Collection(e)] = files[Collection(e)]
           /\ files'[Tensor(e)] = files[Tensor(e)]
           /\ files'[Frames(e, "discovery")] = files[Frames(e, "discovery")]
  BY <1>1, <1>2, InFiles, Kinds DEF FilesTypeOK, Evidence, Dataset
<1>5. BuildTypeOK'
  BY <1>1, <1>2, <1>3 DEF BuildTypeOK, Places, EventPlaces
<1>6. BuildInv'
  BY <1>1, <1>2, <1>3, <1>4, SplitEvents DEF BuildInv, GatherInv, AssessInv, Manifest, EventPlaces
<1>7. QED BY <1>1, <1>2, <1>4, <1>5, <1>6, OtherFilesSafe

LEMMA WritePlanSafe == Safety /\ ~migrating /\ WritePlan /\ UNCHANGED moveVars => Safety'
<1> SUFFICES ASSUME Safety, ~migrating, WritePlan, UNCHANGED moveVars PROVE Safety'
  OBVIOUS
<1>1. /\ DatasetTypeOK /\ BuildTypeOK /\ FilesTypeOK /\ BuildInv
      /\ faults \in 0..MaxFaults /\ builds \in 0..MaxBuilds
  BY Running DEF DatasetTypeOK
<1>2. /\ build.at = "plan" /\ UNCHANGED <<root, tracked, listed, approved, builds, faults>>
      /\ build' = [build EXCEPT !.at = "collection"]
      /\ files' = [files EXCEPT ![Plan(Event)] = "built"]
      /\ spoiled' = spoiled \union ({Event} \intersect Candidates)
  BY DEF WritePlan, Write, World
<1>3. /\ DOMAIN build' = DOMAIN Idle /\ build'.at = "collection" /\ build'.manifest = build.manifest
      /\ build'.todo = build.todo /\ build'.left = build.left /\ build'.capturer = build.capturer
      /\ build'.artifacts = build.artifacts /\ build'.raced = build.raced
  BY <1>1, <1>2, Fields DEF BuildTypeOK
<1>4. Event \in Events /\ Plan(Event) \in Files
  BY <1>1, <1>2, AtHand, InFiles DEF EventPlaces
<1>5. /\ DOMAIN files' = Files /\ Evidence' = Evidence /\ Dataset' = Dataset
      /\ files'[Plan(Event)] = "built"
      /\ \A e \in Events :
           /\ e # Event => files'[Plan(e)] = files[Plan(e)]
           /\ files'[Collection(e)] = files[Collection(e)]
           /\ files'[Tensor(e)] = files[Tensor(e)]
           /\ files'[Frames(e, "discovery")] = files[Frames(e, "discovery")]
  BY <1>1, <1>2, <1>4, InFiles, Kinds DEF FilesTypeOK, Evidence, Dataset
<1>6. BuildTypeOK'
  BY <1>1, <1>2, <1>3 DEF BuildTypeOK, Places, EventPlaces
<1>7. BuildInv'
  BY <1>1, <1>2, <1>3, <1>5, SplitEvents
     DEF BuildInv, GatherInv, AssessInv, Manifest, Event, EventPlaces
<1>8. spoiled' \subseteq Candidates
  BY <1>1, <1>2 DEF DatasetTypeOK
<1>9. /\ \A e \in Events :
           /\ files'[Plan(e)] \in {files[Plan(e)], "built"}
           /\ files'[Collection(e)] \in {files[Collection(e)], CollectionOf("build", root, FALSE)}
      /\ \A c \in Candidates :
           /\ files'[Frames(c, "discovery")] = files[Frames(c, "discovery")]
           /\ c \notin spoiled' => files'[Plan(c)] = files[Plan(c)]
           /\ c \notin spoiled' => files'[Collection(c)] = files[Collection(c)]
  BY <1>2, <1>5, Constants
<1>10. QED BY <1>1, <1>2, <1>5, <1>6, <1>7, <1>8, <1>9, EventStepSafe

LEMMA KeepCollectionSafe == Safety /\ ~migrating /\ KeepCollection /\ UNCHANGED moveVars => Safety'
<1> SUFFICES ASSUME Safety, ~migrating, KeepCollection, UNCHANGED moveVars PROVE Safety'
  OBVIOUS
<1>1. /\ DatasetTypeOK /\ BuildTypeOK /\ FilesTypeOK /\ BuildInv
      /\ faults \in 0..MaxFaults /\ builds \in 0..MaxBuilds
  BY Running DEF DatasetTypeOK
<1>2. /\ build.at = "collection" /\ files[Collection(Event)] # Absent
      /\ build' = [build EXCEPT !.at = "tensor", !.capturer = files[Collection(Event)].capturer]
      /\ UNCHANGED <<root, files, tracked, listed, approved, builds, faults, spoiled>>
  BY DEF KeepCollection, Kept, World
<1>3. files[Collection(Event)].capturer \in {"build", "discovery"}
  BY <1>1, <1>2, AtHand DEF FilesTypeOK, Collections, EventPlaces
<1>4. /\ DOMAIN build' = DOMAIN Idle /\ build'.at = "tensor" /\ build'.manifest = build.manifest
      /\ build'.todo = build.todo /\ build'.left = build.left
      /\ build'.capturer = files[Collection(Event)].capturer
      /\ build'.artifacts = build.artifacts /\ build'.raced = build.raced
  BY <1>1, <1>2, Fields DEF BuildTypeOK
<1>5. BuildTypeOK'
  BY <1>1, <1>2, <1>3, <1>4 DEF BuildTypeOK, Places, EventPlaces
<1>6. BuildInv'
  BY <1>1, <1>2, <1>4 DEF BuildInv, GatherInv, AssessInv, Manifest, Event, EventPlaces
<1>7. QED BY <1>1, <1>2, <1>5, <1>6, SameFilesSafe

LEMMA DownloadCollectionSafe ==
  Safety /\ ~migrating /\ DownloadCollection /\ UNCHANGED moveVars => Safety'
<1> SUFFICES ASSUME Safety, ~migrating, DownloadCollection, UNCHANGED moveVars PROVE Safety'
  OBVIOUS
<1>1. /\ DatasetTypeOK /\ BuildTypeOK /\ FilesTypeOK /\ BuildInv
      /\ faults \in 0..MaxFaults /\ builds \in 0..MaxBuilds
  BY Running DEF DatasetTypeOK
<1>2. /\ build.at = "collection" /\ UNCHANGED <<root, tracked, listed, approved, builds, faults>>
      /\ build' = [build EXCEPT !.at = "tensor", !.capturer = "build"]
      /\ spoiled' = spoiled \union ({Event} \intersect Candidates)
  BY DEF DownloadCollection, World
<1>3. /\ DOMAIN build' = DOMAIN Idle /\ build'.at = "tensor" /\ build'.manifest = build.manifest
      /\ build'.todo = build.todo /\ build'.left = build.left /\ build'.capturer = "build"
      /\ build'.artifacts = build.artifacts /\ build'.raced = build.raced
  BY <1>1, <1>2, Fields DEF BuildTypeOK
<1>4. Event \in Events /\ Collection(Event) \in Files /\ Frames(Event, "build") \in Files
  BY <1>1, <1>2, AtHand, InFiles DEF EventPlaces
<1>5. /\ DOMAIN files' = Files /\ Evidence' = Evidence /\ Dataset' = Dataset
      /\ files'[Collection(Event)] = CollectionOf("build", root, FALSE)
      /\ \A e \in Events :
           /\ e # Event => files'[Collection(e)] = files[Collection(e)]
           /\ files'[Plan(e)] = files[Plan(e)]
           /\ files'[Tensor(e)] = files[Tensor(e)]
           /\ files'[Frames(e, "discovery")] = files[Frames(e, "discovery")]
  <2>1. PICK captured : /\ captured = [files EXCEPT ![Frames(Event, "build")] = "frames"]
                        /\ files' = [captured EXCEPT ![Collection(Event)] =
                                                         CollectionOf("build", root, FALSE)]
    BY DEF DownloadCollection
  <2>2. /\ DOMAIN captured = Files /\ captured[EvidenceCatalog] = files[EvidenceCatalog]
        /\ captured[DatasetCatalog] = files[DatasetCatalog]
        /\ \A e \in Events :
             /\ captured[Collection(e)] = files[Collection(e)]
             /\ captured[Plan(e)] = files[Plan(e)] /\ captured[Tensor(e)] = files[Tensor(e)]
             /\ captured[Frames(e, "discovery")] = files[Frames(e, "discovery")]
    BY <1>1, <2>1, InFiles, Kinds DEF FilesTypeOK
  <2>3. /\ DOMAIN files' = Files /\ files'[EvidenceCatalog] = captured[EvidenceCatalog]
        /\ files'[DatasetCatalog] = captured[DatasetCatalog]
        /\ files'[Collection(Event)] = CollectionOf("build", root, FALSE)
    <3>1. Collection(Event) # EvidenceCatalog /\ Collection(Event) # DatasetCatalog
      BY Kinds
    <3>2. {EvidenceCatalog, DatasetCatalog} \subseteq Files
      BY InFiles
    <3>3. QED BY <1>4, <2>1, <2>2, <3>1, <3>2
  <2>4. ASSUME NEW e \in Events
        PROVE  /\ e # Event => files'[Collection(e)] = captured[Collection(e)]
               /\ files'[Plan(e)] = captured[Plan(e)] /\ files'[Tensor(e)] = captured[Tensor(e)]
               /\ files'[Frames(e, "discovery")] = captured[Frames(e, "discovery")]
    <3>1. /\ Collection(e) \in Files /\ Plan(e) \in Files /\ Tensor(e) \in Files
          /\ Frames(e, "discovery") \in Files
      BY InFiles
    <3>2. /\ Plan(e) # Collection(Event) /\ Tensor(e) # Collection(Event)
          /\ Frames(e, "discovery") # Collection(Event)
      BY Kinds
    <3>3. e # Event => Collection(e) # Collection(Event)
      BY Kinds
    <3>4. QED BY <2>1, <2>2, <3>1, <3>2, <3>3
  <2>5. QED BY <2>2, <2>3, <2>4 DEF Evidence, Dataset
<1>6. BuildTypeOK'
  BY <1>1, <1>2, <1>3 DEF BuildTypeOK, Places, EventPlaces
<1>7. BuildInv'
  <2> SUFFICES ASSUME ~build'.raced PROVE BuildInv'
    BY DEF BuildInv
  <2>1. tracked = Manifest /\ GatherInv
    BY <1>1, <1>2, <1>3 DEF BuildInv
  <2>2. tracked' = Manifest' /\ AssessInv' /\ Event' = Event /\ Manifest' = Manifest
    BY <1>2, <1>3, <2>1 DEF AssessInv, Manifest, Event
  <2>3. ASSUME NEW e \in DOMAIN Manifest.split \ ToSet(build.todo)
        PROVE  /\ EventMade(Manifest, build.artifacts, e) /\ EventRecorded(build.artifacts, e)
               /\ files'[Tensor(e)] = build.artifacts[Tensor(e)]
    BY <1>1, <1>2, <1>5, <2>1, <2>3, SplitEvents DEF GatherInv, EventPlaces
  <2>4. Event \in Events /\ files'[Plan(Event)] = "built"
    BY <1>2, <1>4, <1>5, <2>1 DEF GatherInv
  <2>5. GatherInv'
    BY <1>3, <2>2, <2>3, <2>4 DEF GatherInv, EventPlaces
  <2>6. QED BY <2>2, <2>5 DEF BuildInv
<1>8. /\ spoiled' \subseteq Candidates /\ spoiled \subseteq spoiled'
      /\ faults' \in 0..MaxFaults /\ builds' \in 0..MaxBuilds
  BY <1>1, <1>2 DEF DatasetTypeOK
<1>9. \A e \in Events :
        /\ files'[Plan(e)] \in {files[Plan(e)], "built"}
        /\ files'[Collection(e)] \in {files[Collection(e)], CollectionOf("build", root, FALSE)}
  BY <1>5
<1>10. ASSUME NEW c \in Candidates
       PROVE  /\ files'[Frames(c, "discovery")] = files[Frames(c, "discovery")]
              /\ c \notin spoiled' => files'[Plan(c)] = files[Plan(c)]
              /\ c \notin spoiled' => files'[Collection(c)] = files[Collection(c)]
  <2>1. c \in Events /\ (c = Event => c \in spoiled')
    BY <1>2, Constants
  <2>2. QED BY <1>5, <2>1
<1>11. UNCHANGED <<moveVars, root, tracked, listed, approved>>
  BY <1>2
<1>12. /\ DOMAIN files' = Files /\ Evidence' = Evidence /\ Dataset' = Dataset
  BY <1>5
<1>13. QED BY <1>6, <1>7, <1>8, <1>9, <1>10, <1>11, <1>12, EventStepSafe

LEMMA ConvertSafe == Safety /\ ~migrating /\ Convert /\ UNCHANGED moveVars => Safety'
<1> SUFFICES ASSUME Safety, ~migrating, Convert, UNCHANGED moveVars PROVE Safety'
  OBVIOUS
<1>1. /\ DatasetTypeOK /\ BuildTypeOK /\ FilesTypeOK /\ BuildInv
      /\ faults \in 0..MaxFaults /\ builds \in 0..MaxBuilds
  BY Running DEF DatasetTypeOK
<1>2. PICK tensor :
        /\ tensor = TensorOf(files[Collection(Event)])
        /\ files' = [files EXCEPT ![Tensor(Event)] = tensor,
                                  ![Persistence(Event)] = PersistenceOf(tensor),
                                  ![OpticalFlow(Event)] = OpticalFlowOf(tensor)]
  BY DEF Convert, Converted
<1>3. /\ build.at = "tensor" /\ build' = [build EXCEPT !.at = "record"]
      /\ UNCHANGED <<root, tracked, listed, approved, builds, faults, spoiled>>
  BY DEF Convert, Converted, World
<1>4. /\ DOMAIN build' = DOMAIN Idle /\ build'.at = "record" /\ build'.manifest = build.manifest
      /\ build'.todo = build.todo /\ build'.left = build.left /\ build'.capturer = build.capturer
      /\ build'.artifacts = build.artifacts /\ build'.raced = build.raced
  BY <1>1, <1>3, Fields DEF BuildTypeOK
<1>5. Event \in Events /\ DOMAIN files = Files /\ build.at \in EventPlaces
  BY <1>1, <1>3, AtHand DEF EventPlaces, FilesTypeOK
<1>6. /\ DOMAIN files' = Files
      /\ \A f \in Files :
           files'[f] = IF f = OpticalFlow(Event) THEN OpticalFlowOf(tensor)
                       ELSE IF f = Persistence(Event) THEN PersistenceOf(tensor)
                       ELSE IF f = Tensor(Event) THEN tensor ELSE files[f]
  BY <1>2, <1>5
<1>7. /\ Evidence' = Evidence /\ Dataset' = Dataset
      /\ \A e \in Events :
           /\ files'[Plan(e)] = files[Plan(e)] /\ files'[Collection(e)] = files[Collection(e)]
           /\ files'[Frames(e, "discovery")] = files[Frames(e, "discovery")]
           /\ e # Event => files'[Tensor(e)] = files[Tensor(e)]
  BY <1>6, InFiles, Kinds DEF Evidence, Dataset
<1>8. /\ files'[Tensor(Event)] = tensor /\ files'[Persistence(Event)] = PersistenceOf(tensor)
      /\ files'[OpticalFlow(Event)] = OpticalFlowOf(tensor)
  BY <1>5, <1>6, InFiles, Kinds
<1>9. BuildTypeOK'
  BY <1>1, <1>3, <1>4 DEF BuildTypeOK, Places, EventPlaces
<1>10. BuildInv'
  <2> SUFFICES ASSUME ~build'.raced PROVE BuildInv'
    BY DEF BuildInv
  <2>1. tracked = Manifest /\ GatherInv
    BY <1>1, <1>3, <1>4 DEF BuildInv
  <2>2. tracked' = Manifest' /\ AssessInv' /\ Event' = Event /\ Manifest' = Manifest
    BY <1>3, <1>4, <2>1 DEF AssessInv, Manifest, Event
  <2>3. ASSUME NEW e \in DOMAIN Manifest.split \ ToSet(build.todo)
        PROVE  /\ EventMade(Manifest, build.artifacts, e) /\ EventRecorded(build.artifacts, e)
               /\ files'[Tensor(e)] = build.artifacts[Tensor(e)]
    <3>1. e # Event /\ e \in Events
      BY <1>1, <1>5, AtHand, SplitEvents
    <3>2. QED BY <1>5, <1>7, <2>1, <2>3, <3>1 DEF GatherInv
  <2>4. TensorOf(files[Collection(Event)])' = tensor
    BY <1>2, <1>5, <1>7, <2>2 DEF TensorOf
  <2>5. GatherInv'
    BY <1>3, <1>4, <1>5, <1>7, <1>8, <2>1, <2>2, <2>3, <2>4 DEF GatherInv, EventPlaces
  <2>6. QED BY <2>2, <2>5 DEF BuildInv
<1>11. QED BY <1>1, <1>3, <1>6, <1>7, <1>9, <1>10, OtherFilesSafe

LEMMA RecordEventSafe == Safety /\ ~migrating /\ RecordEvent /\ UNCHANGED moveVars => Safety'
<1> SUFFICES ASSUME Safety, ~migrating, RecordEvent, UNCHANGED moveVars PROVE Safety'
  OBVIOUS
<1>1. /\ DatasetTypeOK /\ BuildTypeOK /\ FilesTypeOK /\ BuildInv
      /\ faults \in 0..MaxFaults /\ builds \in 0..MaxBuilds
  BY Running DEF DatasetTypeOK
<1>2. PICK recorded, rest, made :
        /\ recorded = {Plan(Event), Collection(Event), Tensor(Event), Persistence(Event),
                       OpticalFlow(Event), Frames(Event, build.capturer)}
        /\ rest = Tail(build.todo)
        /\ made = [a \in DOMAIN build.artifacts \union recorded |->
                     IF a \in recorded THEN files[a] ELSE build.artifacts[a]]
        /\ build' = [build EXCEPT !.at = IF rest = <<>> THEN "combine" ELSE "plan",
                                  !.todo = rest, !.artifacts = made]
  BY DEF RecordEvent, Recorded
<1>3. /\ build.at = "record" /\ files[Collection(Event)] # Absent
      /\ UNCHANGED <<root, files, tracked, listed, approved, builds, faults, spoiled>>
  BY DEF RecordEvent, World
<1>4. /\ DOMAIN build' = DOMAIN Idle /\ build'.at = IF rest = <<>> THEN "combine" ELSE "plan"
      /\ build'.manifest = build.manifest /\ build'.todo = rest /\ build'.left = build.left
      /\ build'.capturer = build.capturer /\ build'.artifacts = made /\ build'.raced = build.raced
  BY <1>1, <1>2, Fields DEF BuildTypeOK
<1>5. /\ Event \in Events /\ Event \in DOMAIN Manifest.split
      /\ ToSet(build.todo) \subseteq DOMAIN Manifest.split
      /\ rest \in Seq(Events) /\ IsInjective(rest)
      /\ ToSet(build.todo) = {Event} \union ToSet(rest) /\ Event \notin ToSet(rest)
  BY <1>1, <1>2, <1>3, AtHand, HeadTail DEF EventPlaces, Event
<1>6. recorded \subseteq Artifacts
  BY <1>1, <1>2, <1>5, InArtifacts DEF BuildTypeOK
<1>7. DOMAIN made \subseteq Artifacts
  BY <1>1, <1>2, <1>6 DEF BuildTypeOK
<1>8. BuildTypeOK'
  BY <1>1, <1>4, <1>5, <1>7 DEF BuildTypeOK, Places, EventPlaces, Manifest
<1>9. BuildInv'
  <2> SUFFICES ASSUME ~build'.raced PROVE BuildInv'
    BY DEF BuildInv
  <2>1. tracked = Manifest /\ GatherInv
    BY <1>1, <1>3, <1>4 DEF BuildInv
  <2>2. tracked' = Manifest' /\ AssessInv' /\ Manifest' = Manifest
    BY <1>3, <1>4, <2>1 DEF AssessInv, Manifest
  <2>3. ASSUME NEW e \in DOMAIN Manifest.split \ ToSet(rest)
        PROVE  /\ EventMade(Manifest, made, e) /\ EventRecorded(made, e)
               /\ files[Tensor(e)] = made[Tensor(e)]
    <3>1. CASE e = Event
      <4>1. \A a \in recorded : a \in DOMAIN made /\ made[a] = files[a]
        BY <1>2
      <4>2. /\ {Plan(e), Collection(e), Tensor(e), Persistence(e), OpticalFlow(e)} \subseteq DOMAIN made
            /\ made[Plan(e)] = files[Plan(e)] /\ made[Collection(e)] = files[Collection(e)]
            /\ made[Tensor(e)] = files[Tensor(e)] /\ made[Persistence(e)] = files[Persistence(e)]
            /\ made[OpticalFlow(e)] = files[OpticalFlow(e)]
        BY <1>2, <3>1, <4>1
      <4>3. /\ files[Plan(e)] = "built" /\ files[Tensor(e)] = TensorOf(files[Collection(e)])
            /\ files[Persistence(e)] = PersistenceOf(files[Tensor(e)])
            /\ files[OpticalFlow(e)] = OpticalFlowOf(files[Tensor(e)])
        BY <1>3, <2>1, <3>1 DEF GatherInv
      <4>4. e \notin Candidates => files[Collection(e)].capturer = "build"
        BY <1>1, <1>3, <1>5, <3>1 DEF FilesTypeOK
      <4>5. EventRecorded(made, e)
        BY <4>2, <4>3, <4>4 DEF EventRecorded
      <4>6. EventMade(Manifest, made, e)
        BY <3>1, <4>2, <4>3 DEF EventMade, TensorOf
      <4>7. QED BY <4>2, <4>5, <4>6
    <3>2. CASE e # Event
      <4>1. e \in DOMAIN Manifest.split \ ToSet(build.todo)
        BY <1>5, <3>2
      <4>2. /\ EventMade(Manifest, build.artifacts, e) /\ EventRecorded(build.artifacts, e)
            /\ files[Tensor(e)] = build.artifacts[Tensor(e)]
        BY <1>3, <2>1, <4>1 DEF GatherInv, EventPlaces
      <4>3. {Plan(e), Collection(e), Tensor(e), Persistence(e), OpticalFlow(e)}
              \subseteq DOMAIN build.artifacts
        BY <4>2 DEF EventRecorded
      <4>4. /\ Plan(e) \notin recorded /\ Collection(e) \notin recorded /\ Tensor(e) \notin recorded
            /\ Persistence(e) \notin recorded /\ OpticalFlow(e) \notin recorded
        BY <1>2, <3>2, Kinds
      <4>5. /\ {Plan(e), Collection(e), Tensor(e), Persistence(e), OpticalFlow(e)} \subseteq DOMAIN made
            /\ made[Plan(e)] = build.artifacts[Plan(e)]
            /\ made[Collection(e)] = build.artifacts[Collection(e)]
            /\ made[Tensor(e)] = build.artifacts[Tensor(e)]
            /\ made[Persistence(e)] = build.artifacts[Persistence(e)]
            /\ made[OpticalFlow(e)] = build.artifacts[OpticalFlow(e)]
        BY <1>2, <4>3, <4>4
      <4>6. QED BY <4>2, <4>5 DEF EventMade, EventRecorded
    <3>3. QED BY <3>1, <3>2
  <2>4. GatherInv'
    BY <1>3, <1>4, <2>2, <2>3 DEF GatherInv, EventPlaces
  <2>5. QED BY <2>2, <2>4 DEF BuildInv
<1>10. QED BY <1>1, <1>3, <1>8, <1>9, SameFilesSafe

LEMMA CombineSafe == Safety /\ ~migrating /\ Combine /\ UNCHANGED moveVars => Safety'
<1> SUFFICES ASSUME Safety, ~migrating, Combine, UNCHANGED moveVars PROVE Safety'
  OBVIOUS
<1>1. /\ DatasetTypeOK /\ BuildTypeOK /\ FilesTypeOK /\ BuildInv
      /\ faults \in 0..MaxFaults /\ builds \in 0..MaxBuilds
  BY Running DEF DatasetTypeOK
<1>2. PICK combined, made :
        /\ combined = {Combined(s) : s \in Splits}
        /\ made = [f \in DOMAIN build.artifacts \union combined |->
                     IF f \in combined THEN Archive(f[2]) ELSE build.artifacts[f]]
        /\ files' = [f \in Files |-> IF f \in combined THEN Archive(f[2]) ELSE files[f]]
        /\ build' = [build EXCEPT !.at = "catalog", !.artifacts = made]
  <2>1. DOMAIN build = DOMAIN Idle
    BY <1>1 DEF BuildTypeOK
  <2>2. QED BY <2>1, Fields DEF Combine
<1>3. /\ build.at = "combine" /\ UNCHANGED <<root, tracked, listed, approved, builds, faults, spoiled>>
  BY DEF Combine, World
<1>4. /\ DOMAIN build' = DOMAIN Idle /\ build'.at = "catalog" /\ build'.manifest = build.manifest
      /\ build'.todo = build.todo /\ build'.left = build.left /\ build'.capturer = build.capturer
      /\ build'.artifacts = made /\ build'.raced = build.raced
  BY <1>1, <1>2, Fields DEF BuildTypeOK
<1>5. \A f \in Files : f \notin combined => files'[f] = files[f]
  BY <1>2
<1>6. /\ \A e : /\ Plan(e) \notin combined /\ Collection(e) \notin combined
                /\ Tensor(e) \notin combined /\ Persistence(e) \notin combined
                /\ OpticalFlow(e) \notin combined /\ Frames(e, "discovery") \notin combined
      /\ EvidenceCatalog \notin combined /\ DatasetCatalog \notin combined
  BY <1>2, Kinds
<1>7. /\ DOMAIN files' = Files /\ Evidence' = Evidence /\ Dataset' = Dataset
      /\ \A e \in Events :
           /\ files'[Plan(e)] = files[Plan(e)] /\ files'[Collection(e)] = files[Collection(e)]
           /\ files'[Frames(e, "discovery")] = files[Frames(e, "discovery")]
           /\ files'[Tensor(e)] = files[Tensor(e)]
  BY <1>2, <1>5, <1>6, InFiles DEF Evidence, Dataset
<1>8. DOMAIN made \subseteq Artifacts
  BY <1>1, <1>2, InArtifacts DEF BuildTypeOK
<1>9. BuildTypeOK'
  BY <1>1, <1>3, <1>4, <1>8 DEF BuildTypeOK, Places, EventPlaces
<1>10. BuildInv'
  <2> SUFFICES ASSUME ~build'.raced PROVE BuildInv'
    BY DEF BuildInv
  <2>1. tracked = Manifest /\ GatherInv
    BY <1>1, <1>3, <1>4 DEF BuildInv
  <2>2. tracked' = Manifest' /\ AssessInv' /\ Manifest' = Manifest
    BY <1>3, <1>4, <2>1 DEF AssessInv, Manifest
  <2>3. ASSUME NEW e \in DOMAIN Manifest.split \ ToSet(build.todo)
        PROVE  /\ EventMade(Manifest, made, e) /\ EventRecorded(made, e)
               /\ files'[Tensor(e)] = made[Tensor(e)]
    <3>1. /\ EventMade(Manifest, build.artifacts, e) /\ EventRecorded(build.artifacts, e)
          /\ files[Tensor(e)] = build.artifacts[Tensor(e)] /\ e \in Events
      BY <1>1, <1>3, <2>1, <2>3, SplitEvents DEF GatherInv
    <3>2. {Plan(e), Collection(e), Tensor(e), Persistence(e), OpticalFlow(e)}
            \subseteq DOMAIN build.artifacts
      BY <3>1 DEF EventRecorded
    <3>3. /\ {Plan(e), Collection(e), Tensor(e), Persistence(e), OpticalFlow(e)} \subseteq DOMAIN made
          /\ made[Plan(e)] = build.artifacts[Plan(e)]
          /\ made[Collection(e)] = build.artifacts[Collection(e)]
          /\ made[Tensor(e)] = build.artifacts[Tensor(e)]
          /\ made[Persistence(e)] = build.artifacts[Persistence(e)]
          /\ made[OpticalFlow(e)] = build.artifacts[OpticalFlow(e)]
      BY <1>2, <1>6, <3>2
    <3>4. QED BY <1>7, <3>1, <3>3 DEF EventMade, EventRecorded
  <2>4. ASSUME NEW s \in Splits
        PROVE  /\ Combined(s) \in DOMAIN made /\ made[Combined(s)] = Archive(s)'
               /\ files'[Combined(s)] = Archive(s)'
    <3>1. Combined(s) \in combined /\ Combined(s) \in Files /\ Combined(s)[2] = s
      BY <1>2, InFiles, Kinds
    <3>2. /\ Combined(s) \in DOMAIN made /\ made[Combined(s)] = Archive(s)
          /\ files'[Combined(s)] = Archive(s)
      BY <1>2, <3>1
    <3>3. EventsIn(Manifest, s) \subseteq Events
      BY <1>1, SplitEvents DEF EventsIn
    <3>4. Archive(s)' = Archive(s)
      BY <1>7, <2>2, <3>3 DEF Archive
    <3>5. QED BY <3>2, <3>4
  <2>5. GatherInv'
    BY <1>3, <1>4, <2>2, <2>3, <2>4 DEF GatherInv, EventPlaces
  <2>6. QED BY <2>2, <2>5 DEF BuildInv
<1>11. QED BY <1>1, <1>3, <1>7, <1>9, <1>10, OtherFilesSafe

LEMMA TrainSafe == Safety /\ ~migrating /\ Train /\ UNCHANGED moveVars => Safety'
<1> SUFFICES ASSUME Safety, ~migrating, Train, UNCHANGED moveVars PROVE Safety'
  OBVIOUS
<1>1. /\ DatasetTypeOK /\ BuildTypeOK /\ FilesTypeOK /\ BuildInv /\ tracked \in Manifests
      /\ faults \in 0..MaxFaults /\ builds \in 0..MaxBuilds
  BY Running DEF DatasetTypeOK
<1>2. PICK left : left = EventsIn(tracked, "validation") \union EventsIn(tracked, "test")
  OBVIOUS
<1>3. PICK weights :
        weights = Fitted(files[Combined("train")], files[Combined("validation")], tracked.config)
  OBVIOUS
<1>4. /\ build.at = "checkpoint" /\ UNCHANGED <<root, tracked, listed, approved, builds, faults, spoiled>>
      /\ build' = [build EXCEPT !.at = "compare", !.manifest = tracked, !.left = left]
      /\ files' = [files EXCEPT ![Checkpoint] = weights]
  BY <1>2, <1>3 DEF Train, World
<1>5. /\ DOMAIN build' = DOMAIN Idle /\ build'.at = "compare" /\ build'.manifest = tracked
      /\ build'.todo = build.todo /\ build'.left = left /\ build'.capturer = build.capturer
      /\ build'.artifacts = build.artifacts /\ build'.raced = build.raced
  BY <1>1, <1>4, Fields DEF BuildTypeOK
<1>6. \A f \in Files : files'[f] = IF f = Checkpoint THEN weights ELSE files[f]
  BY <1>1, <1>4 DEF FilesTypeOK
<1>7. /\ DOMAIN files' = Files /\ Evidence' = Evidence /\ Dataset' = Dataset
      /\ files'[Checkpoint] = weights
      /\ \A e \in Events :
           /\ files'[Plan(e)] = files[Plan(e)] /\ files'[Collection(e)] = files[Collection(e)]
           /\ files'[Frames(e, "discovery")] = files[Frames(e, "discovery")]
           /\ files'[Tensor(e)] = files[Tensor(e)]
      /\ \A s \in Splits : files'[Combined(s)] = files[Combined(s)]
  BY <1>1, <1>4, <1>6, InFiles, Kinds DEF FilesTypeOK, Evidence, Dataset
<1>8. left \subseteq Events
  BY <1>1, <1>2, Constants DEF EventsIn
<1>9. BuildTypeOK'
  BY <1>1, <1>4, <1>5, <1>7, <1>8 DEF BuildTypeOK, Places, EventPlaces
<1>10. BuildInv'
  <2> SUFFICES ASSUME ~build'.raced PROVE BuildInv'
    BY DEF BuildInv
  <2>1. tracked = Manifest /\ AssessInv
    BY <1>1, <1>4, <1>5 DEF BuildInv
  <2>2. tracked' = Manifest' /\ Manifest' = Manifest
    BY <1>4, <1>5, <2>1 DEF Manifest
  <2>3. GatherInv'
    BY <1>5 DEF GatherInv, EventPlaces
  <2>4. /\ ~Dataset.raced /\ Dataset.manifest = Manifest
        /\ OneBuild(Dataset) /\ AllRecorded(Dataset)
        /\ \A e \in DOMAIN Manifest.split : files[Tensor(e)] = Dataset.artifacts[Tensor(e)]
        /\ \A s \in Splits : files[Combined(s)] = Dataset.artifacts[Combined(s)]
    BY <1>4, <2>1 DEF AssessInv
  <2>5. ASSUME NEW e \in DOMAIN Manifest.split, Manifest.split[e] # "train" PROVE e \in left
    BY <1>1, <1>2, <2>1, <2>5, SplitEvents DEF EventsIn, Splits
  <2>6. weights = Fitted(files'[Combined("train")], files'[Combined("validation")], Manifest.config)
    BY <1>3, <1>7, <2>1 DEF Splits
  <2>7. OneBuild(Dataset') /\ AllRecorded(Dataset')
    BY <1>7, <2>4
  <2>8. AssessInv'
    <3>1. \A e \in DOMAIN Manifest.split : e \in Events
      BY <1>1, SplitEvents
    <3>2. /\ \A e \in DOMAIN Manifest.split : files'[Tensor(e)] = Dataset'.artifacts[Tensor(e)]
          /\ \A s \in Splits : files'[Combined(s)] = Dataset'.artifacts[Combined(s)]
      BY <1>7, <2>4, <3>1
    <3>3. QED BY <1>5, <1>7, <2>2, <2>4, <2>5, <2>6, <2>7, <3>2 DEF AssessInv
  <2>9. QED BY <2>2, <2>3, <2>8 DEF BuildInv
<1>11. QED BY <1>1, <1>4, <1>7, <1>9, <1>10, OtherFilesSafe

LEMMA CompareSafe == Safety /\ ~migrating /\ Compare /\ UNCHANGED moveVars => Safety'
<1> SUFFICES ASSUME Safety, ~migrating, Compare, UNCHANGED moveVars PROVE Safety'
  OBVIOUS
<1>1. /\ DatasetTypeOK /\ BuildTypeOK /\ FilesTypeOK /\ BuildInv
      /\ faults \in 0..MaxFaults /\ builds \in 0..MaxBuilds
  BY Running DEF DatasetTypeOK
<1>2. PICK e \in build.left, beats \in BOOLEAN :
        /\ files' = [files EXCEPT ![Comparison(e)] =
                       Compared(files[Tensor(e)], files[Checkpoint], beats)]
        /\ build' = [build EXCEPT !.at = IF build.left = {e} THEN "attach" ELSE "compare",
                                  !.left = @ \ {e}]
  BY DEF Compare
<1>3. /\ build.at = "compare" /\ UNCHANGED <<root, tracked, listed, approved, builds, faults, spoiled>>
  BY DEF Compare, World
<1>4. /\ DOMAIN build' = DOMAIN Idle /\ build'.manifest = build.manifest
      /\ build'.at = IF build.left = {e} THEN "attach" ELSE "compare"
      /\ build'.todo = build.todo /\ build'.left = build.left \ {e}
      /\ build'.capturer = build.capturer
      /\ build'.artifacts = build.artifacts /\ build'.raced = build.raced
  BY <1>1, <1>2, Fields DEF BuildTypeOK
<1>5. \A f \in Files : files'[f] = IF f = Comparison(e)
                                   THEN Compared(files[Tensor(e)], files[Checkpoint], beats)
                                   ELSE files[f]
  BY <1>1, <1>2 DEF FilesTypeOK
<1>6. /\ DOMAIN files' = Files /\ Evidence' = Evidence /\ Dataset' = Dataset
      /\ files'[Checkpoint] = files[Checkpoint]
      /\ \A x \in Events :
           /\ files'[Plan(x)] = files[Plan(x)] /\ files'[Collection(x)] = files[Collection(x)]
           /\ files'[Frames(x, "discovery")] = files[Frames(x, "discovery")]
           /\ files'[Tensor(x)] = files[Tensor(x)]
           /\ x # e => files'[Comparison(x)] = files[Comparison(x)]
      /\ \A s \in Splits : files'[Combined(s)] = files[Combined(s)]
  BY <1>1, <1>2, <1>5, InFiles, Kinds DEF FilesTypeOK, Evidence, Dataset
<1>7. e \in Events /\ files'[Comparison(e)] = Compared(files'[Tensor(e)], files'[Checkpoint], beats)
  BY <1>1, <1>5, <1>6, InFiles DEF BuildTypeOK
<1>8. BuildTypeOK'
  BY <1>1, <1>3, <1>4, <1>6 DEF BuildTypeOK, Places, EventPlaces
<1>9. BuildInv'
  <2> SUFFICES ASSUME ~build'.raced PROVE BuildInv'
    BY DEF BuildInv
  <2>1. tracked = Manifest /\ AssessInv
    BY <1>1, <1>3, <1>4 DEF BuildInv
  <2>2. tracked' = Manifest' /\ Manifest' = Manifest
    BY <1>3, <1>4, <2>1 DEF Manifest
  <2>3. GatherInv'
    BY <1>4 DEF GatherInv, EventPlaces
  <2>4. /\ ~Dataset.raced /\ Dataset.manifest = Manifest
        /\ OneBuild(Dataset) /\ AllRecorded(Dataset)
        /\ \A x \in DOMAIN Manifest.split : files[Tensor(x)] = Dataset.artifacts[Tensor(x)]
        /\ \A s \in Splits : files[Combined(s)] = Dataset.artifacts[Combined(s)]
        /\ files[Checkpoint] =
             Fitted(files[Combined("train")], files[Combined("validation")], Manifest.config)
    BY <1>3, <2>1 DEF AssessInv
  <2>5. OneBuild(Dataset') /\ AllRecorded(Dataset')
    BY <1>6, <2>4
  <2>6. /\ \A x \in DOMAIN Manifest.split : files'[Tensor(x)] = Dataset'.artifacts[Tensor(x)]
        /\ \A s \in Splits : files'[Combined(s)] = Dataset'.artifacts[Combined(s)]
        /\ files'[Checkpoint] =
             Fitted(files'[Combined("train")], files'[Combined("validation")], Manifest.config)
    BY <1>1, <1>6, <2>4, SplitEvents DEF Splits
  <2>7. ASSUME NEW x \in DOMAIN Manifest.split, Manifest.split[x] # "train"
        PROVE  \/ build'.at = "compare" /\ x \in build'.left
               \/ \E b \in BOOLEAN : files'[Comparison(x)] =
                                       Compared(files'[Tensor(x)], files'[Checkpoint], b)
    <3>1. CASE x = e
      BY <1>7, <3>1
    <3>2. CASE x # e
      <4>1. \/ x \in build.left
            \/ \E b \in BOOLEAN : files[Comparison(x)] =
                                    Compared(files[Tensor(x)], files[Checkpoint], b)
        BY <1>3, <2>1, <2>7 DEF AssessInv
      <4>2. x \in build.left => build'.at = "compare" /\ x \in build'.left
        BY <1>4, <3>2
      <4>3. x \in Events
        BY <1>1, SplitEvents
      <4>4. QED BY <1>6, <3>2, <4>1, <4>2, <4>3
    <3>3. QED BY <3>1, <3>2
  <2>8. AssessInv'
    <3>1. /\ ~Dataset'.raced /\ Dataset'.manifest = Manifest
      BY <1>6, <2>4
    <3>2. QED BY <2>2, <2>5, <2>6, <2>7, <3>1 DEF AssessInv
  <2>9. QED BY <2>2, <2>3, <2>8 DEF BuildInv
<1>10. QED BY <1>1, <1>3, <1>6, <1>8, <1>9, OtherFilesSafe

LEMMA VerifySafe == Safety /\ ~migrating /\ Verify /\ UNCHANGED moveVars => Safety'
<1> SUFFICES ASSUME Safety, ~migrating, Verify, UNCHANGED moveVars PROVE Safety'
  OBVIOUS
<1>1. FilesTypeOK /\ faults \in 0..MaxFaults /\ builds \in 0..MaxBuilds
  BY Running DEF DatasetTypeOK
<1>2. PICK report : /\ report = ReportOn(files[DatasetCatalog], files)
                    /\ files' = [files EXCEPT ![Verification] = report]
  BY DEF Verify
<1>3. build' = Idle /\ UNCHANGED <<root, tracked, listed, approved, builds, faults, spoiled>>
  BY DEF Verify, World
<1>4. \A f \in Files : files'[f] = IF f = Verification THEN report ELSE files[f]
  BY <1>1, <1>2 DEF FilesTypeOK
<1>5. /\ DOMAIN files' = Files /\ Evidence' = Evidence /\ Dataset' = Dataset
      /\ \A e \in Events :
           /\ files'[Plan(e)] = files[Plan(e)] /\ files'[Collection(e)] = files[Collection(e)]
           /\ files'[Frames(e, "discovery")] = files[Frames(e, "discovery")]
  BY <1>1, <1>2, <1>4, InFiles, Kinds DEF FilesTypeOK, Evidence, Dataset
<1>6. QED BY <1>1, <1>3, <1>5, BackToIdle, OtherFilesSafe

\* A step that writes nothing but the dataset catalog.
LEMMA CatalogStepSafe ==
  ASSUME Safety, ~migrating, UNCHANGED <<moveVars, root, tracked, listed, approved, spoiled>>,
         faults' \in 0..MaxFaults, builds' \in 0..MaxBuilds, BuildTypeOK', BuildInv',
         NEW catalog, files' = [files EXCEPT ![DatasetCatalog] = catalog],
         CatalogTyped(catalog), catalog.root = root,
         ~catalog.raced => OneBuild(catalog) /\ AllRecorded(catalog)
  PROVE  Safety'
<1>1. DatasetTypeOK /\ FilesTypeOK
  BY Running DEF DatasetTypeOK
<1>2. \A f \in Files : files'[f] = IF f = DatasetCatalog THEN catalog ELSE files[f]
  BY <1>1 DEF FilesTypeOK
<1>3. /\ DOMAIN files' = Files /\ Evidence' = Evidence /\ Dataset' = catalog
      /\ \A e \in Events :
           /\ files'[Plan(e)] = files[Plan(e)] /\ files'[Collection(e)] = files[Collection(e)]
           /\ files'[Frames(e, "discovery")] = files[Frames(e, "discovery")]
  BY <1>1, <1>2, InFiles, Kinds DEF FilesTypeOK, Evidence, Dataset
<1>4. FilesTypeOK'
  BY <1>1, <1>3 DEF FilesTypeOK
<1>5. DatasetTypeOK'
  BY <1>1, <1>4 DEF DatasetTypeOK
<1>6. CatalogSound(Dataset)'
  BY <1>3 DEF CatalogSound
<1>7. QED BY <1>3, <1>5, <1>6, QuietSafe, Constants

LEMMA WriteCatalogSafe == Safety /\ ~migrating /\ WriteCatalog /\ UNCHANGED moveVars => Safety'
<1> SUFFICES ASSUME Safety, ~migrating, WriteCatalog, UNCHANGED moveVars PROVE Safety'
  OBVIOUS
<1>1. /\ DatasetTypeOK /\ BuildTypeOK /\ FilesTypeOK /\ BuildInv
      /\ root \in Roots /\ tracked \in Manifests
      /\ faults \in 0..MaxFaults /\ builds \in 0..MaxBuilds
  BY Running DEF DatasetTypeOK
<1>2. PICK made, catalog :
        /\ made = [a \in DOMAIN build.artifacts \union {History} |->
                     IF a \in {History} THEN files[a] ELSE build.artifacts[a]]
        /\ catalog = [root |-> root, manifest |-> tracked, split |-> Manifest.split,
                      config |-> Manifest.config, artifacts |-> made, ready |-> FALSE,
                      raced |-> build.raced]
        /\ files' = [files EXCEPT ![DatasetCatalog] = catalog]
  BY DEF WriteCatalog, Recorded
<1>3. /\ build.at = "catalog" /\ UNCHANGED <<root, tracked, listed, approved, builds, faults, spoiled>>
      /\ build' = [build EXCEPT !.at = IF build.train THEN "checkpoint" ELSE "verify"]
  BY DEF WriteCatalog, World
<1>4. /\ DOMAIN build' = DOMAIN Idle /\ build'.at \in {"checkpoint", "verify"}
      /\ build'.manifest = build.manifest
      /\ build'.todo = build.todo /\ build'.left = build.left /\ build'.capturer = build.capturer
      /\ build'.artifacts = build.artifacts /\ build'.raced = build.raced
  BY <1>1, <1>3, Fields DEF BuildTypeOK
<1>5. /\ DOMAIN catalog = {"root", "manifest", "split", "config", "artifacts", "ready", "raced"}
      /\ catalog.root = root /\ catalog.manifest = tracked /\ catalog.split = Manifest.split
      /\ catalog.config = Manifest.config /\ catalog.artifacts = made /\ catalog.ready = FALSE
      /\ catalog.raced = build.raced
  BY <1>2
<1>6. /\ Dataset' = catalog /\ \A f \in Files : f # DatasetCatalog => files'[f] = files[f]
  BY <1>1, <1>2, InFiles DEF FilesTypeOK, Dataset
<1>7. CatalogTyped(catalog)
  <2>1. DOMAIN made \subseteq Artifacts
    BY <1>1, <1>2, InArtifacts DEF BuildTypeOK
  <2>2. QED BY <1>1, <1>5, <2>1 DEF CatalogTyped
<1>8. BuildTypeOK'
  BY <1>1, <1>3, <1>4, <1>5, <1>6, <1>7 DEF BuildTypeOK, Places, EventPlaces
<1>9. ASSUME ~build.raced
      PROVE  /\ tracked = Manifest /\ OneBuild(catalog) /\ AllRecorded(catalog)
             /\ \A e \in DOMAIN Manifest.split : files[Tensor(e)] = made[Tensor(e)]
             /\ \A s \in Splits : files[Combined(s)] = made[Combined(s)]
  <2>1. tracked = Manifest /\ GatherInv /\ build.todo = <<>>
    BY <1>1, <1>3, <1>9 DEF BuildInv, BuildTypeOK
  <2>2. ASSUME NEW e \in DOMAIN Manifest.split
        PROVE  /\ EventMade(Manifest, made, e) /\ EventRecorded(made, e)
               /\ files[Tensor(e)] = made[Tensor(e)]
    <3>1. e \in DOMAIN Manifest.split \ ToSet(build.todo)
      BY <2>1 DEF ToSet
    <3>2. /\ EventMade(Manifest, build.artifacts, e) /\ EventRecorded(build.artifacts, e)
          /\ files[Tensor(e)] = build.artifacts[Tensor(e)]
      BY <1>3, <2>1, <3>1 DEF GatherInv
    <3>3. {Plan(e), Collection(e), Tensor(e), Persistence(e), OpticalFlow(e)}
            \subseteq DOMAIN build.artifacts
      BY <3>2 DEF EventRecorded
    <3>4. History \notin {Plan(e), Collection(e), Tensor(e), Persistence(e), OpticalFlow(e)}
      BY Kinds
    <3>5. /\ {Plan(e), Collection(e), Tensor(e), Persistence(e), OpticalFlow(e)} \subseteq DOMAIN made
          /\ made[Plan(e)] = build.artifacts[Plan(e)]
          /\ made[Collection(e)] = build.artifacts[Collection(e)]
          /\ made[Tensor(e)] = build.artifacts[Tensor(e)]
          /\ made[Persistence(e)] = build.artifacts[Persistence(e)]
          /\ made[OpticalFlow(e)] = build.artifacts[OpticalFlow(e)]
      BY <1>2, <3>3, <3>4
    <3>6. QED BY <3>2, <3>5 DEF EventMade, EventRecorded
  <2>3. ASSUME NEW s \in Splits
        PROVE  /\ Combined(s) \in DOMAIN made /\ made[Combined(s)] = Archive(s)
               /\ files[Combined(s)] = made[Combined(s)]
    <3>1. /\ Combined(s) \in DOMAIN build.artifacts
          /\ build.artifacts[Combined(s)] = Archive(s) /\ files[Combined(s)] = Archive(s)
      BY <1>3, <2>1 DEF GatherInv
    <3>2. Combined(s) # History
      BY Kinds
    <3>3. QED BY <1>2, <3>1, <3>2
  <2>4. ASSUME NEW e \in DOMAIN Manifest.split
        PROVE  made[Combined(Manifest.split[e])][e] = made[Tensor(e)]
    <3>1. Manifest.split[e] \in Splits /\ e \in EventsIn(Manifest, Manifest.split[e])
      BY <1>1, SplitEvents DEF EventsIn
    <3>2. Archive(Manifest.split[e])[e] = files[Tensor(e)]
      BY <3>1 DEF Archive
    <3>3. QED BY <2>2, <2>3, <3>1, <3>2
  <2>5. \A e \in DOMAIN Manifest.split : EventMade(catalog, made, e)
    BY <1>5, <2>2 DEF EventMade
  <2>6. OneBuild(catalog)
    BY <1>5, <2>1, <2>4, <2>5 DEF OneBuild
  <2>7. AllRecorded(catalog)
    BY <1>5, <2>2, <2>3 DEF AllRecorded
  <2>8. QED BY <2>1, <2>2, <2>3, <2>6, <2>7
<1>10. BuildInv'
  <2> SUFFICES ASSUME ~build'.raced PROVE BuildInv'
    BY DEF BuildInv
  <2>1. /\ tracked = Manifest /\ OneBuild(catalog) /\ AllRecorded(catalog)
        /\ \A e \in DOMAIN Manifest.split : files[Tensor(e)] = made[Tensor(e)]
        /\ \A s \in Splits : files[Combined(s)] = made[Combined(s)]
    BY <1>4, <1>9
  <2>2. tracked' = Manifest' /\ Manifest' = Manifest
    BY <1>3, <1>4, <2>1 DEF Manifest
  <2>3. GatherInv'
    BY <1>4 DEF GatherInv, EventPlaces
  <2>4. \A e \in DOMAIN Manifest.split : files'[Tensor(e)] = made[Tensor(e)]
    BY <1>1, <1>6, <2>1, SplitEvents, InFiles, Kinds
  <2>5. \A s \in Splits : files'[Combined(s)] = made[Combined(s)]
    BY <1>6, <2>1, InFiles, Kinds
  <2>6. AssessInv'
    BY <1>4, <1>5, <1>6, <2>1, <2>2, <2>4, <2>5 DEF AssessInv
  <2>7. QED BY <2>2, <2>3, <2>6 DEF BuildInv
<1>11. ~catalog.raced => OneBuild(catalog) /\ AllRecorded(catalog)
  BY <1>5, <1>9
<1>12. QED BY <1>1, <1>2, <1>3, <1>5, <1>7, <1>8, <1>10, <1>11, CatalogStepSafe

LEMMA AttachSafe == Safety /\ ~migrating /\ Attach /\ UNCHANGED moveVars => Safety'
<1> SUFFICES ASSUME Safety, ~migrating, Attach, UNCHANGED moveVars PROVE Safety'
  OBVIOUS
<1>1. /\ DatasetTypeOK /\ BuildTypeOK /\ FilesTypeOK /\ BuildInv /\ AllAt(files, root)
      /\ faults \in 0..MaxFaults /\ builds \in 0..MaxBuilds
  BY Running DEF DatasetTypeOK
<1>2. PICK recorded, made, ready, catalog :
        /\ recorded = {Checkpoint} \union ComparisonsOf("validation") \union ComparisonsOf("test")
        /\ made = [a \in DOMAIN Dataset.artifacts \union recorded |->
                     IF a \in recorded THEN files[a] ELSE Dataset.artifacts[a]]
        /\ ready = GatePassed
        /\ catalog = [Dataset EXCEPT !.ready = ready, !.raced = build.raced, !.artifacts = made]
        /\ files' = [files EXCEPT ![DatasetCatalog] = catalog]
  <2>1. DOMAIN Dataset.artifacts \subseteq Artifacts /\ "artifacts" \in DOMAIN Dataset
    BY <1>1 DEF Attach, BuildTypeOK, CatalogTyped
  <2>2. QED BY <2>1 DEF Attach, Dataset
<1>3. /\ build.at = "attach" /\ UNCHANGED <<root, tracked, listed, approved, builds, faults, spoiled>>
      /\ build' = [build EXCEPT !.at = "verify"] /\ CatalogTyped(Dataset) /\ Dataset.root = root
  BY <1>1 DEF Attach, World, BuildTypeOK
<1>4. /\ DOMAIN build' = DOMAIN Idle /\ build'.at = "verify" /\ build'.manifest = build.manifest
      /\ build'.todo = build.todo /\ build'.left = build.left /\ build'.capturer = build.capturer
      /\ build'.artifacts = build.artifacts /\ build'.raced = build.raced
  BY <1>1, <1>3, Fields DEF BuildTypeOK
<1>5. /\ DOMAIN catalog = {"root", "manifest", "split", "config", "artifacts", "ready", "raced"}
      /\ catalog.root = Dataset.root /\ catalog.manifest = Dataset.manifest
      /\ catalog.split = Dataset.split /\ catalog.config = Dataset.config
      /\ catalog.artifacts = made /\ catalog.ready = ready /\ catalog.raced = build.raced
  BY <1>2, <1>3 DEF CatalogTyped
<1>6. DOMAIN made \subseteq Artifacts
  BY <1>1, <1>2, <1>3, InArtifacts, SplitEvents DEF CatalogTyped, ComparisonsOf, EventsIn
<1>7. CatalogTyped(catalog)
  BY <1>3, <1>5, <1>6 DEF CatalogTyped
<1>8. Dataset' = catalog
  BY <1>1, <1>2, InFiles DEF FilesTypeOK, Dataset
<1>9. BuildTypeOK'
  BY <1>1, <1>3, <1>4, <1>5, <1>7, <1>8 DEF BuildTypeOK, Places, EventPlaces
<1>10. BuildInv'
  <2>1. GatherInv' /\ AssessInv'
    BY <1>4 DEF GatherInv, AssessInv, EventPlaces
  <2>2. ~build'.raced => tracked' = Manifest'
    BY <1>1, <1>3, <1>4 DEF BuildInv, Manifest
  <2>3. QED BY <2>1, <2>2 DEF BuildInv
<1>11. ASSUME ~build.raced PROVE OneBuild(catalog) /\ AllRecorded(catalog)
  <2>1. tracked = Manifest /\ AssessInv
    BY <1>1, <1>3, <1>11 DEF BuildInv
  <2>2. /\ Dataset.manifest = Manifest
        /\ OneBuild(Dataset) /\ AllRecorded(Dataset)
        /\ \A s \in Splits : files[Combined(s)] = Dataset.artifacts[Combined(s)]
        /\ \A e \in DOMAIN Manifest.split : files[Tensor(e)] = Dataset.artifacts[Tensor(e)]
        /\ files[Checkpoint] =
             Fitted(files[Combined("train")], files[Combined("validation")], Manifest.config)
    BY <1>3, <2>1 DEF AssessInv
  <2>3. Dataset.split = Manifest.split /\ Dataset.config = Manifest.config
    BY <2>2 DEF OneBuild
  <2>4. /\ \A s \in Splits : Combined(s) \notin recorded
        /\ \A e : {Plan(e), Collection(e), Tensor(e), Persistence(e), OpticalFlow(e)}
                    \intersect recorded = {}
    BY <1>2, Kinds DEF ComparisonsOf
  <2>5. ASSUME NEW e \in DOMAIN Manifest.split
        PROVE  /\ {Plan(e), Collection(e), Tensor(e), Persistence(e), OpticalFlow(e)} \subseteq DOMAIN made
               /\ made[Plan(e)] = Dataset.artifacts[Plan(e)]
               /\ made[Collection(e)] = Dataset.artifacts[Collection(e)]
               /\ made[Tensor(e)] = Dataset.artifacts[Tensor(e)]
               /\ made[Persistence(e)] = Dataset.artifacts[Persistence(e)]
               /\ made[OpticalFlow(e)] = Dataset.artifacts[OpticalFlow(e)]
    <3>1. {Plan(e), Collection(e), Tensor(e), Persistence(e), OpticalFlow(e)}
            \subseteq DOMAIN Dataset.artifacts
      BY <2>2, <2>3 DEF AllRecorded, EventRecorded
    <3>2. QED BY <1>2, <2>4, <3>1
  <2>6. ASSUME NEW s \in Splits
        PROVE  Combined(s) \in DOMAIN made /\ made[Combined(s)] = Dataset.artifacts[Combined(s)]
    BY <1>2, <2>2, <2>4 DEF AllRecorded
  <2>7. Checkpoint \in DOMAIN made /\ made[Checkpoint] = files[Checkpoint]
    BY <1>2
  <2>8. ASSUME NEW e \in DOMAIN Manifest.split, Manifest.split[e] # "train"
        PROVE  /\ Comparison(e) \in DOMAIN made
               /\ ready => made[Comparison(e)] = Compared(made[Tensor(e)], made[Checkpoint], TRUE)
    <3>1. Manifest.split[e] \in {"validation", "test"}
      BY <1>1, <2>8, SplitEvents DEF Splits
    <3>2. Comparison(e) \in ComparisonsOf("validation") \union ComparisonsOf("test")
      BY <3>1 DEF ComparisonsOf, EventsIn
    <3>3. Comparison(e) \in DOMAIN made /\ made[Comparison(e)] = files[Comparison(e)]
      BY <1>2, <3>2
    <3>4. PICK beats \in BOOLEAN :
            files[Comparison(e)] = Compared(files[Tensor(e)], files[Checkpoint], beats)
      BY <1>3, <2>1, <2>8 DEF AssessInv
    <3>5. ready => files[Comparison(e)].beats
      BY <1>2, <3>2 DEF GatePassed
    <3>6. files[Comparison(e)].beats = beats
      BY <3>4 DEF Compared
    <3>7. made[Tensor(e)] = files[Tensor(e)]
      BY <2>2, <2>5
    <3>8. QED BY <2>7, <3>3, <3>4, <3>5, <3>6, <3>7
  <2>9. OneBuild(catalog)
    <3>1. \A e \in DOMAIN Manifest.split :
            /\ EventMade(catalog, made, e)
            /\ made[Combined(Manifest.split[e])][e] = made[Tensor(e)]
      <4> TAKE e \in DOMAIN Manifest.split
      <4>1. /\ EventMade(Dataset, Dataset.artifacts, e) /\ Manifest.split[e] \in Splits
            /\ Dataset.artifacts[Combined(Manifest.split[e])][e] = Dataset.artifacts[Tensor(e)]
        BY <1>1, <2>2, <2>3, SplitEvents DEF OneBuild
      <4>2. EventMade(catalog, made, e)
        BY <1>5, <2>5, <4>1 DEF EventMade
      <4>3. QED BY <2>5, <2>6, <4>1, <4>2
    <3>2. made[Checkpoint] = Fitted(made[Combined("train")], made[Combined("validation")], Manifest.config)
      BY <2>2, <2>6, <2>7 DEF Splits
    <3>3. /\ catalog.split = catalog.manifest.split /\ catalog.config = catalog.manifest.config
      BY <1>5, <2>2, <2>3
    <3>4. ready => \A e \in DOMAIN Manifest.split : Manifest.split[e] # "train" =>
             made[Comparison(e)] = [of |-> made[Tensor(e)], by |-> made[Checkpoint], beats |-> TRUE]
      BY <2>8 DEF Compared
    <3>5. made[Checkpoint] = [train |-> made[Combined("train")], config |-> Manifest.config,
                              validation |-> made[Combined("validation")]]
      BY <3>2 DEF Fitted
    <3>6. QED BY <1>5, <2>3, <3>1, <3>3, <3>4, <3>5 DEF OneBuild
  <2>10. AllRecorded(catalog)
    <3>1. \A e \in DOMAIN Manifest.split : EventRecorded(made, e)
      BY <2>2, <2>3, <2>5 DEF AllRecorded, EventRecorded
    <3>2. QED BY <1>5, <2>3, <2>6, <2>7, <2>8, <3>1 DEF AllRecorded
  <2>11. QED BY <2>9, <2>10
<1>12. catalog.root = root
  BY <1>3, <1>5
<1>13. ~catalog.raced => OneBuild(catalog) /\ AllRecorded(catalog)
  BY <1>5, <1>11
<1>14. QED BY <1>1, <1>2, <1>3, <1>7, <1>9, <1>10, <1>12, <1>13, CatalogStepSafe

(***************************************************************************)
(* The steps around a build                                                *)
(***************************************************************************)
\* An edit of the manifest and an event that the source forgets change no file.
LEMMA AsideSafe == Safety /\ (EditManifest \/ Forget) /\ UNCHANGED moveVars => Safety'
<1> SUFFICES ASSUME Safety, EditManifest \/ Forget, UNCHANGED moveVars PROVE Safety'
  OBVIOUS
<1>1. /\ TypeOK /\ DatasetTypeOK /\ BuildTypeOK /\ FilesTypeOK /\ BuildInv /\ RootInv /\ SoundInv
      /\ ReplaceInv /\ CleanInv /\ CatalogOfOneBuild /\ EvidenceDurableUnlessBuilt
  BY DEF Safety, TypeOK, DatasetTypeOK
<1>2. /\ UNCHANGED <<root, files, approved, builds, spoiled>>
      /\ tracked' \in Manifests /\ listed' \subseteq listed /\ faults' \in 0..MaxFaults
  BY <1>1, Constants DEF EditManifest, Forget, Aside, Fault, DatasetTypeOK
<1>3. \/ build' = [build EXCEPT !.raced = @ \/ build.at # "idle"]
      \/ build' = build /\ tracked' = tracked
  BY DEF EditManifest, Forget
<1>4. /\ DOMAIN build' = DOMAIN Idle /\ build'.at = build.at /\ build'.manifest = build.manifest
      /\ build'.todo = build.todo /\ build'.left = build.left /\ build'.capturer = build.capturer
      /\ build'.artifacts = build.artifacts
      /\ (build' = build /\ tracked' = tracked) \/ build.at = "idle" \/ build'.raced
  BY <1>1, <1>3, Fields DEF BuildTypeOK
<1>5. Evidence' = Evidence /\ Dataset' = Dataset /\ Planned' = Planned /\ Origin' = Origin /\ Target' = Target
  BY <1>2 DEF Evidence, Dataset, Planned, Origin, Target, moveVars
<1>6. BuildTypeOK' /\ FilesTypeOK'
  BY <1>1, <1>2, <1>4, <1>5 DEF BuildTypeOK, FilesTypeOK, Places, EventPlaces
<1>7. TypeOK'
  <2>1. DatasetTypeOK'
    BY <1>1, <1>2, <1>6 DEF DatasetTypeOK
  <2>2. QED BY <1>1, <1>5, <2>1 DEF TypeOK, moveVars
<1>8. BuildInv'
  <2>1. CASE build' = build /\ tracked' = tracked
    <3>1. GatherInv => GatherInv'
      BY <1>2, <2>1 DEF GatherInv, Manifest, Event, Archive, TensorOf
    <3>2. AssessInv => AssessInv'
      BY <1>2, <1>5, <2>1 DEF AssessInv, Manifest
    <3>3. QED BY <1>1, <2>1, <3>1, <3>2 DEF BuildInv, Manifest
  <2>2. QED BY <1>4, <2>1 DEF BuildInv
<1>9. RootInv'
  BY <1>1, <1>2, <1>4, <1>5 DEF RootInv, moveVars
<1>10. SoundInv'
  <2>1. \A catalog : EvidenceSound(catalog) => EvidenceSound(catalog)'
    BY <1>2 DEF EvidenceSound, moveVars
  <2>2. \A catalog : CatalogSound(catalog) => CatalogSound(catalog)'
    BY DEF CatalogSound, moveVars
  <2>3. QED BY <1>1, <1>5, <2>1, <2>2 DEF SoundInv
<1>11. ReplaceInv'
  BY <1>1, <1>2, <1>5 DEF ReplaceInv, Relocated, Unwritten, moveVars
<1>12. CleanInv'
  BY <1>1, <1>5 DEF CleanInv, moveVars
<1>13. CatalogOfOneBuild' /\ EvidenceDurableUnlessBuilt'
  BY <1>1, <1>2, <1>5
     DEF CatalogOfOneBuild, EvidenceDurableUnlessBuilt, EvidenceVerifies, Matches, moveVars
<1>14. QED BY <1>7, <1>8, <1>9, <1>10, <1>11, <1>12, <1>13 DEF Safety

\* A discovery run gives each candidate what its catalog says or what it captures anew; with
\* nothing spoiled, it changes nothing that the catalog names.
LEMMA RefreshSafe == Safety /\ ~migrating /\ Refresh /\ UNCHANGED moveVars => Safety'
<1> SUFFICES ASSUME Safety, ~migrating, Refresh, UNCHANGED moveVars PROVE Safety'
  OBVIOUS
<1>1. /\ DatasetTypeOK /\ BuildTypeOK /\ FilesTypeOK /\ BuildInv /\ relocation = NotRunning
      /\ AllAt(files, root) /\ EvidenceSound(Evidence) /\ CatalogSound(Dataset)
      /\ (spoiled = {} => EvidenceVerifies)
      /\ {migrating, clean, interrupted, accepted} \subseteq BOOLEAN
      /\ root \in Roots /\ listed \subseteq Events /\ spoiled \subseteq Candidates
  BY Running DEF DatasetTypeOK
<1> DEFINE valid == \A c \in approved : Captured(Refreshed[Collection(c)])
<1>2. PICK after :
        /\ after = Refreshed
        /\ files' = IF valid THEN [after EXCEPT ![EvidenceCatalog] = EvidenceOf(root, after)] ELSE after
        /\ spoiled' = IF valid THEN {} ELSE spoiled
  BY DEF Refresh
<1> HIDE DEF valid
<1>3. /\ UNCHANGED <<root, tracked, listed, approved, builds>> /\ Evidence.root = root
      /\ build' = [build EXCEPT !.raced = @ \/ build.at # "idle"] /\ faults' \in 0..MaxFaults
  BY <1>1, Constants DEF Refresh, Aside, Fault, DatasetTypeOK
<1>4. /\ DOMAIN after = Files
      /\ \A f \in Files :
           after[f] = IF \E c \in Candidates : f = Plan(c) THEN RefreshedPlan(f[2])
                      ELSE IF \E c \in Candidates : f = Collection(c) THEN RefreshedCollection(f[2])
                      ELSE files[f]
  BY <1>2 DEF Refreshed
<1>5. ASSUME NEW c \in Candidates
      PROVE  after[Plan(c)] = RefreshedPlan(c) /\ after[Collection(c)] = RefreshedCollection(c)
  <2>1. /\ Plan(c) \in Files /\ Collection(c) \in Files /\ Plan(c)[2] = c /\ Collection(c)[2] = c
        /\ \A x : Collection(c) # Plan(x)
    BY InFiles, Constants, Kinds
  <2>2. QED BY <1>4, <2>1
<1>6. ASSUME NEW f \in Files, \A c \in Candidates : f # Plan(c) /\ f # Collection(c)
      PROVE  after[f] = files[f]
  BY <1>4, <1>6
<1>7. /\ after[DatasetCatalog] = Dataset /\ after[EvidenceCatalog] = Evidence
      /\ \A c \in Candidates : after[Frames(c, "discovery")] = files[Frames(c, "discovery")]
      /\ \A e \in Events \ Candidates :
           after[Plan(e)] = files[Plan(e)] /\ after[Collection(e)] = files[Collection(e)]
  BY <1>6, InFiles, Kinds, Constants DEF Dataset, Evidence
<1>8. /\ DOMAIN files' = Files /\ Dataset' = Dataset
      /\ Evidence' = IF valid THEN EvidenceOf(root, after) ELSE Evidence
      /\ \A a \in Artifacts : files'[a] = after[a]
  BY <1>2, <1>4, <1>7, InFiles, Kinds DEF Dataset, Evidence, Artifacts
<1>9. ASSUME NEW c \in Candidates
      PROVE  /\ after[Plan(c)] \in {"captured", "emptied"} \/ after[Plan(c)] = Evidence.artifacts[Plan(c)]
             /\ c \in listed => after[Plan(c)] = "captured"
             /\ after[Plan(c)] \in {Absent, "captured", "emptied", "built"}
  <2>1. Plan(c) \in DOMAIN Evidence.artifacts /\ c \in Events
    BY <1>1, Constants DEF FilesTypeOK, EvidenceTyped
  <2>2. files[Plan(c)] \in {Absent, "captured", "emptied", "built"}
    BY <1>1, <2>1 DEF FilesTypeOK
  <2>3. Intact(Plan(c)) => files[Plan(c)] = Evidence.artifacts[Plan(c)]
    BY <2>1 DEF Intact, Names
  <2>4. QED BY <1>5, <2>2, <2>3 DEF RefreshedPlan
<1>10. ASSUME NEW c \in Candidates
       PROVE  \/ after[Collection(c)] = files[Collection(c)]
              \/ after[Collection(c)] = CollectionOf("discovery", root, TRUE)
              \/ after[Collection(c)] = Absent
  BY <1>5 DEF RefreshedCollection
<1>11. /\ CollectionOf("discovery", root, TRUE) \in Collections
       /\ CollectionOf("discovery", root, TRUE).root = root
  BY <1>1 DEF CollectionOf, Collections
<1>12. ASSUME NEW e \in Events
       PROVE  /\ files'[Plan(e)] \in {Absent, "captured", "emptied", "built"}
              /\ files'[Collection(e)] \in Collections \union {Absent}
              /\ e \notin Candidates /\ files'[Collection(e)] # Absent =>
                   files'[Collection(e)].capturer = "build"
              /\ files'[Collection(e)] # Absent => files'[Collection(e)].root = root
  <2>1. /\ files'[Plan(e)] = after[Plan(e)] /\ files'[Collection(e)] = after[Collection(e)]
    BY <1>8, InArtifacts
  <2>2. /\ files[Plan(e)] \in {Absent, "captured", "emptied", "built"}
        /\ files[Collection(e)] \in Collections \union {Absent}
        /\ e \notin Candidates /\ files[Collection(e)] # Absent => files[Collection(e)].capturer = "build"
        /\ files[Collection(e)] # Absent => files[Collection(e)].root = root
    BY <1>1 DEF FilesTypeOK, AllAt
  <2>3. CASE e \in Candidates
    BY <1>9, <1>10, <1>11, <2>1, <2>2, <2>3
  <2>4. CASE e \notin Candidates
    BY <1>7, <2>1, <2>2, <2>4
  <2>5. QED BY <2>3, <2>4
<1>13. valid => /\ EvidenceTyped(Evidence') /\ Evidence'.root = root
                /\ \A a \in DOMAIN Evidence'.artifacts : Evidence'.artifacts[a] = after[a]
                /\ \A c \in Candidates :
                     /\ Evidence'.artifacts[Plan(c)] = after[Plan(c)]
                     /\ Collection(c) \in DOMAIN Evidence'.artifacts => Captured(after[Collection(c)])
  <2> SUFFICES ASSUME valid
               PROVE  /\ EvidenceTyped(Evidence') /\ Evidence'.root = root
                      /\ \A a \in DOMAIN Evidence'.artifacts : Evidence'.artifacts[a] = after[a]
                      /\ \A c \in Candidates :
                           /\ Evidence'.artifacts[Plan(c)] = after[Plan(c)]
                           /\ Collection(c) \in DOMAIN Evidence'.artifacts =>
                                Captured(after[Collection(c)])
    OBVIOUS
  <2>1. PICK catalog : catalog = EvidenceOf(root, after) /\ Evidence' = catalog
    BY <1>8
  <2>2. /\ EvidenceTyped(catalog) /\ catalog.root = root
        /\ \A a \in DOMAIN catalog.artifacts : catalog.artifacts[a] = after[a]
        /\ \A c \in Candidates :
             /\ catalog.artifacts[Plan(c)] = after[Plan(c)]
             /\ Collection(c) \in DOMAIN catalog.artifacts => Captured(after[Collection(c)])
    BY <1>1, <2>1, EvidenceOfDisk
  <2>3. QED BY <2>1, <2>2
<1>14. EvidenceTyped(Evidence') /\ Evidence'.root = root
  BY <1>1, <1>3, <1>8, <1>13 DEF EvidenceSound
<1>15. /\ DOMAIN build' = DOMAIN Idle /\ build'.at = build.at /\ build'.manifest = build.manifest
       /\ build'.todo = build.todo /\ build'.left = build.left /\ build'.capturer = build.capturer
       /\ build'.artifacts = build.artifacts /\ (build.at = "idle" \/ build'.raced)
  BY <1>1, <1>3, Fields DEF BuildTypeOK
<1>16. BuildTypeOK' /\ BuildInv'
  BY <1>1, <1>3, <1>8, <1>15 DEF BuildTypeOK, BuildInv, Places, EventPlaces
<1>17. FilesTypeOK'
  BY <1>1, <1>8, <1>12, <1>14 DEF FilesTypeOK
<1>18. TypeOK'
  <2>1. DatasetTypeOK'
    BY <1>1, <1>2, <1>3, <1>16, <1>17 DEF DatasetTypeOK
  <2>2. /\ relocation'.written = {} /\ relocation'.at = "idle" /\ Planned' = {}
        /\ DOMAIN relocation' = {"at", "changes", "written"}
    BY <1>1, AtRestNext DEF NotRunning, moveVars
  <2>3. QED BY <1>1, <2>1, <2>2 DEF TypeOK, moveVars
<1>19. RootInv'
  <2>1. AllAt(files', root)
    BY <1>1, <1>8, <1>12, <1>14 DEF AllAt, Evidence, Dataset
  <2>2. QED BY <1>3, <2>1 DEF RootInv, moveVars
<1>20. ASSUME spoiled' = {}
       PROVE  /\ EvidenceVerifies'
              /\ \A c \in Candidates :
                   /\ c \in listed => Evidence'.artifacts[Plan(c)] = "captured"
                   /\ Collection(c) \in DOMAIN Evidence'.artifacts =>
                        Captured(Evidence'.artifacts[Collection(c)])
  <2>1. CASE valid
    <3>1. DOMAIN Evidence'.artifacts \subseteq Artifacts
      BY <1>14, InArtifacts, Constants DEF EvidenceTyped
    <3>2. EvidenceVerifies'
      BY <1>8, <1>13, <2>1, <3>1 DEF EvidenceVerifies, Matches
    <3>3. QED BY <1>9, <1>13, <2>1, <3>2
  <2>2. CASE ~valid
    <3>1. /\ Evidence' = Evidence /\ Matches(Evidence) /\ EvidenceTyped(Evidence)
          /\ \A c \in Candidates :
               /\ c \in listed => Evidence.artifacts[Plan(c)] = "captured"
               /\ Collection(c) \in DOMAIN Evidence.artifacts =>
                    Captured(Evidence.artifacts[Collection(c)])
      BY <1>1, <1>2, <1>8, <1>20, <2>2 DEF EvidenceVerifies, EvidenceSound
    <3>2. ASSUME NEW c \in Candidates PROVE after[Plan(c)] = Evidence.artifacts[Plan(c)]
      <4>1. /\ Plan(c) \in DOMAIN Evidence.artifacts
            /\ files[Plan(c)] = Evidence.artifacts[Plan(c)]
        BY <3>1 DEF EvidenceTyped, Matches
      <4>2. Intact(Plan(c))
        BY <4>1 DEF Intact, Names
      <4>3. QED BY <1>5, <3>1, <4>1, <4>2 DEF RefreshedPlan
    <3>3. ASSUME NEW c \in Candidates, Collection(c) \in DOMAIN Evidence.artifacts
          PROVE  after[Collection(c)] = Evidence.artifacts[Collection(c)]
      <4>1. /\ files[Collection(c)] = Evidence.artifacts[Collection(c)]
            /\ Captured(files[Collection(c)])
        BY <3>1, <3>3 DEF Matches
      <4>2. Intact(Collection(c))
        BY <3>3, <4>1 DEF Intact, Names
      <4>3. QED BY <1>5, <4>1, <4>2 DEF RefreshedCollection
    <3>4. ASSUME NEW a \in DOMAIN Evidence.artifacts PROVE files'[a] = Evidence.artifacts[a]
      <4>1. a \in Artifacts /\ files[a] = Evidence.artifacts[a]
        BY <3>1, InArtifacts, Constants DEF EvidenceTyped, Matches
      <4>2. CASE \E c \in Candidates : a = Plan(c)
        BY <1>8, <3>2, <4>1, <4>2
      <4>3. CASE \E c \in Candidates : a = Collection(c)
        BY <1>8, <3>3, <4>1, <4>3
      <4>4. CASE \A c \in Candidates : a # Plan(c) /\ a # Collection(c)
        BY <1>6, <1>8, <4>1, <4>4 DEF Artifacts
      <4>5. QED BY <4>2, <4>3, <4>4
    <3>5. QED BY <3>1, <3>4 DEF EvidenceVerifies, Matches
  <2>3. QED BY <2>1, <2>2
<1>21. ASSUME ~accepted, NEW c \in Candidates
       PROVE  Evidence'.artifacts[Plan(c)] \in {"captured", "emptied"}
  <2>1. Evidence.artifacts[Plan(c)] \in {"captured", "emptied"}
    BY <1>1, <1>21 DEF EvidenceSound
  <2>2. QED BY <1>8, <1>9, <1>13, <2>1
<1>22. SoundInv'
  <2>1. EvidenceSound(Evidence)'
    BY <1>3, <1>14, <1>20, <1>21 DEF EvidenceSound, moveVars
  <2>2. EvidenceSound(Origin[EvidenceCatalog])' /\ EvidenceSound(Target[EvidenceCatalog])'
    BY <1>1, <2>1, AtRestNext DEF EvidenceSound, moveVars
  <2>3. CatalogSound(Origin[DatasetCatalog])' /\ CatalogSound(Target[DatasetCatalog])'
    BY <1>1, <1>8, AtRestNext DEF CatalogSound, moveVars
  <2>4. QED BY <2>2, <2>3 DEF SoundInv
<1>23. ReplaceInv' /\ CleanInv'
  BY <1>1 DEF ReplaceInv, CleanInv, NotRunning, moveVars
<1>24. CatalogOfOneBuild' /\ EvidenceDurableUnlessBuilt'
  BY <1>1, <1>8, <1>20 DEF CatalogOfOneBuild, CatalogSound, EvidenceDurableUnlessBuilt, moveVars
<1>25. QED BY <1>16, <1>18, <1>19, <1>22, <1>23, <1>24 DEF Safety

(***************************************************************************)
(* The move                                                                *)
(***************************************************************************)
\* What the preflight accepts without --refresh-artifact-checksums is undamaged.
LEMMA AcceptedUndamaged ==
  ASSUME NEW catalog, ArtifactErrors(catalog, FALSE) = {}, DOMAIN catalog.artifacts \subseteq Artifacts
  PROVE  Undamaged(files, catalog)
<1>1. ASSUME NEW a \in DOMAIN catalog.artifacts
      PROVE  /\ files[a] # Absent /\ (Staged[a] = catalog.artifacts[a] \/ a \in ChangedCollections)
  BY DEF ArtifactErrors
<1>2. ASSUME NEW a \in Files, a \notin ChangedCollections PROVE Staged[a] = files[a]
  BY <1>2 DEF Staged
<1>3. \A a \in ChangedCollections : a \in {Collection(e) : e \in Events} /\ files[a].root = Old
  BY DEF ChangedCollections
<1>4. QED BY <1>1, <1>2, <1>3 DEF Undamaged, Artifacts

LEMMA AcceptedUndamagedNext ==
  ASSUME NEW catalog, ArtifactErrors(catalog, FALSE)' = {}, DOMAIN catalog.artifacts \subseteq Artifacts
  PROVE  Undamaged(files', catalog)
<1>1. ASSUME NEW a \in DOMAIN catalog.artifacts
      PROVE  /\ files'[a] # Absent /\ (Staged'[a] = catalog.artifacts[a] \/ a \in ChangedCollections')
  BY DEF ArtifactErrors
<1>2. ASSUME NEW a \in Files, a \notin ChangedCollections' PROVE Staged'[a] = files'[a]
  BY <1>2 DEF Staged
<1>3. \A a \in ChangedCollections' : a \in {Collection(e) : e \in Events} /\ files'[a].root = Old
  BY DEF ChangedCollections
<1>4. QED BY <1>1, <1>2, <1>3 DEF Undamaged, Artifacts

\* A catalog names no document but collections.
LEMMA NamedArtifacts ==
  /\ \A catalog : EvidenceTyped(catalog) => DOMAIN catalog.artifacts \subseteq Artifacts
  /\ \A catalog : CatalogTyped(catalog) => DOMAIN catalog.artifacts \subseteq Artifacts
  /\ {EvidenceCatalog, DatasetCatalog, Verification} \intersect Artifacts = {}
BY InArtifacts, Constants DEF EvidenceTyped, CatalogTyped, Artifacts

LEMMA MoveTreeSafe == Safety /\ MoveTree => Safety'
<1> SUFFICES ASSUME Safety, MoveTree PROVE Safety'
  OBVIOUS
<1>1. ~migrating /\ root = Old
  BY Constants DEF Safety, RootInv, MoveTree
<1>2. /\ DatasetTypeOK /\ BuildTypeOK /\ FilesTypeOK /\ relocation = NotRunning
      /\ AllAt(files, Old) /\ EvidenceSound(Evidence) /\ CatalogSound(Dataset)
      /\ (spoiled = {} => EvidenceVerifies)
      /\ {migrating, clean, interrupted, accepted} \subseteq BOOLEAN
  BY <1>1, Running DEF DatasetTypeOK
<1>3. /\ build.at = "idle" /\ root' = New /\ migrating' = TRUE /\ clean' = Preflight(FALSE)'
      /\ UNCHANGED <<tracked, listed, approved, build, builds, spoiled, relocation, interrupted, accepted>>
  BY DEF MoveTree
<1>4. \/ files' = files /\ faults' = faults
      \/ faults' \in 0..MaxFaults /\ \E f \in DOMAIN Evidence.artifacts : files' = [files EXCEPT ![f] = Absent]
  BY <1>2, Constants DEF MoveTree, Fault, DatasetTypeOK
<1>5. EvidenceTyped(Evidence) /\ DOMAIN Evidence.artifacts \subseteq Artifacts
  BY <1>2, NamedArtifacts DEF EvidenceSound
<1>6. /\ DOMAIN files' = Files
      /\ \A f \in Files : files'[f] = files[f] \/ (files'[f] = Absent /\ f \in Artifacts)
  BY <1>2, <1>4, <1>5 DEF FilesTypeOK
<1>7. Evidence' = Evidence /\ Dataset' = Dataset
  BY <1>6, InFiles, NamedArtifacts DEF Evidence, Dataset
<1>8. ASSUME NEW e \in Events
      PROVE  /\ files'[Plan(e)] \in {files[Plan(e)], Absent}
             /\ files'[Collection(e)] \in {files[Collection(e)], Absent}
  BY <1>6, InFiles
<1>9. BuildTypeOK' /\ BuildInv'
  BY <1>2, <1>3 DEF BuildTypeOK, BuildInv, EventPlaces
<1>10. FilesTypeOK'
  BY <1>2, <1>6, <1>7, <1>8 DEF FilesTypeOK
<1>11. TypeOK'
  <2>1. DatasetTypeOK'
    BY <1>2, <1>3, <1>4, <1>9, <1>10, Constants DEF DatasetTypeOK
  <2>2. /\ relocation'.written = {} /\ relocation'.at = "idle" /\ Planned' = {}
        /\ DOMAIN relocation' = {"at", "changes", "written"}
    BY <1>2, <1>3, AtRestNext DEF NotRunning
  <2>3. clean' \in BOOLEAN
    BY <1>3 DEF Preflight
  <2>4. QED BY <1>2, <1>3, <2>1, <2>2, <2>3 DEF TypeOK
<1>12. RootInv'
  <2>1. AllAt(files', Old)
    BY <1>2, <1>7, <1>8 DEF AllAt, Evidence, Dataset
  <2>2. /\ Origin'[EvidenceCatalog] = files'[EvidenceCatalog]
        /\ Origin'[DatasetCatalog] = files'[DatasetCatalog]
        /\ \A e \in Events : Origin'[Collection(e)] = files'[Collection(e)]
    BY <1>2, <1>3, AtRestNext, InFiles
  <2>3. AllAt(Origin', Old)
    BY <2>1, <2>2 DEF AllAt
  <2>4. QED BY <1>3, <2>3 DEF RootInv
<1>13. EvidenceSound(Evidence)'
  <2>1. ASSUME spoiled = {}, NEW c \in Candidates
        PROVE  /\ files'[Plan(c)] \in {Evidence.artifacts[Plan(c)], Absent}
               /\ Collection(c) \in DOMAIN Evidence.artifacts =>
                    files'[Collection(c)] = Absent \/ Captured(files'[Collection(c)])
    <3>1. c \in Events /\ Plan(c) \in DOMAIN Evidence.artifacts
      BY <1>5, Constants DEF EvidenceTyped
    <3>2. files[Plan(c)] = Evidence.artifacts[Plan(c)]
      BY <1>2, <2>1, <3>1 DEF EvidenceVerifies, Matches
    <3>3. Collection(c) \in DOMAIN Evidence.artifacts => Captured(files[Collection(c)])
      BY <1>2, <2>1 DEF EvidenceVerifies, Matches, EvidenceSound
    <3>4. QED BY <1>8, <3>1, <3>2, <3>3
  <2>2. QED BY <1>2, <1>3, <1>7, <2>1 DEF EvidenceSound
<1>14. SoundInv'
  <2>1. EvidenceSound(Origin[EvidenceCatalog])' /\ EvidenceSound(Target[EvidenceCatalog])'
    BY <1>2, <1>3, <1>13, AtRestNext DEF EvidenceSound
  <2>2. CatalogSound(Origin[DatasetCatalog])' /\ CatalogSound(Target[DatasetCatalog])'
    BY <1>2, <1>3, <1>7, AtRestNext DEF CatalogSound
  <2>3. QED BY <2>1, <2>2 DEF SoundInv
<1>15. ReplaceInv'
  BY <1>2, <1>3 DEF ReplaceInv, NotRunning
<1>16. CleanInv'
  <2> SUFFICES ASSUME clean' PROVE CleanInv'
    BY DEF CleanInv
  <2>1. /\ Undamaged(files', Evidence) /\ (Dataset # Absent => Undamaged(files', Dataset))
    <3>1. /\ ArtifactErrors(Evidence, FALSE)' = {}
          /\ Dataset' # Absent => ArtifactErrors(Dataset, FALSE)' = {}
      BY <1>3 DEF Preflight
    <3>2. PICK evidence, catalog : evidence = Evidence /\ catalog = Dataset
      OBVIOUS
    <3>3. /\ ArtifactErrors(evidence, FALSE)' = {}
          /\ Dataset # Absent => ArtifactErrors(catalog, FALSE)' = {}
      BY <1>7, <3>1, <3>2 DEF ArtifactErrors
    <3>4. Dataset # Absent => DOMAIN catalog.artifacts \subseteq Artifacts
      BY <1>2, <3>2, NamedArtifacts DEF CatalogSound
    <3>5. QED BY <1>5, <3>2, <3>3, <3>4, AcceptedUndamagedNext
  <2>2. /\ Origin'[EvidenceCatalog] = Evidence /\ Origin'[DatasetCatalog] = Dataset
        /\ \A f \in Files : Origin'[f] = files'[f]
    BY <1>2, <1>3, <1>7, AtRestNext
  <2>3. \A a \in Artifacts : Origin'[a] = files'[a]
    BY <2>2 DEF Artifacts
  <2>4. Undamaged(Origin', Evidence)
    BY <1>5, <2>1, <2>3 DEF Undamaged
  <2>5. Dataset # Absent => Undamaged(Origin', Dataset)
    BY <1>2, <2>1, <2>3, NamedArtifacts DEF Undamaged, CatalogSound
  <2>6. QED BY <2>2, <2>4, <2>5 DEF CleanInv
<1>17. CatalogOfOneBuild' /\ EvidenceDurableUnlessBuilt'
  BY <1>2, <1>3, <1>7 DEF CatalogOfOneBuild, CatalogSound, EvidenceDurableUnlessBuilt
<1>18. QED BY <1>9, <1>11, <1>12, <1>14, <1>15, <1>16, <1>17 DEF Safety

(***************************************************************************)
(* What the command plans                                                  *)
(***************************************************************************)
\* A collection below the old root is rewritten, with the same frames below the new one.
LEMMA StagedFiles ==
  ASSUME FilesTypeOK
  PROVE  /\ \A f \in Files : f \notin ChangedCollections => Staged[f] = files[f]
         /\ \A e \in Events :
              LET before == files[Collection(e)] after == Staged[Collection(e)] IN
                /\ before = Absent => after = Absent
                /\ before # Absent => /\ after \in Collections /\ after # Absent /\ after.root = New
                                      /\ after.capturer = before.capturer
                /\ \/ after = before
                   \/ /\ before \in Collections /\ before.root = Old
                      /\ after = CollectionOf(before.capturer, New, TRUE)
<1>1. \A f \in Files : Staged[f] = IF f \in ChangedCollections
                                   THEN CollectionOf(files[f].capturer, New, TRUE) ELSE files[f]
  BY DEF Staged
<1>2. ASSUME NEW e \in Events, NEW before, before = files[Collection(e)],
             NEW after, after = Staged[Collection(e)]
      PROVE  /\ before = Absent => after = Absent
             /\ before # Absent => /\ after \in Collections /\ after # Absent /\ after.root = New
                                   /\ after.capturer = before.capturer
             /\ \/ after = before
                \/ /\ before \in Collections /\ before.root = Old
                   /\ after = CollectionOf(before.capturer, New, TRUE)
  <2>1. Collection(e) \in Files /\ before \in Collections \union {Absent}
    BY <1>2, InFiles DEF FilesTypeOK
  <2>2. CASE Collection(e) \in ChangedCollections
    <3>1. before # Absent /\ before.root = Old /\ before \in Collections
      BY <1>2, <2>1, <2>2 DEF ChangedCollections
    <3>2. after = CollectionOf(before.capturer, New, TRUE)
      BY <1>1, <1>2, <2>1, <2>2
    <3>3. after \in Collections /\ after.root = New /\ after.capturer = before.capturer
      BY <3>1, <3>2, Constants DEF CollectionOf, Collections
    <3>4. QED BY <3>1, <3>2, <3>3, Constants
  <2>3. CASE Collection(e) \notin ChangedCollections
    <3>1. after = before
      BY <1>1, <1>2, <2>1, <2>3
    <3>2. before # Absent => before.root # Old
      BY <1>2, <2>3 DEF ChangedCollections
    <3>3. before \in Collections => before.root \in {Old, New}
      BY Constants DEF Collections
    <3>4. QED BY <2>1, <3>1, <3>2, <3>3
  <2>4. QED BY <2>2, <2>3
<1>3. QED BY <1>1, <1>2

LEMMA StagedCatalogs ==
  ASSUME NEW catalog, NEW staged, staged = StagedCatalog(catalog)
  PROVE  /\ EvidenceTyped(catalog) =>
              /\ EvidenceTyped(staged) /\ staged.root = New
              /\ DOMAIN staged.artifacts = DOMAIN catalog.artifacts
              /\ \A a \in DOMAIN catalog.artifacts : staged.artifacts[a] = Staged[a]
         /\ CatalogTyped(catalog) =>
              /\ CatalogTyped(staged) /\ staged.root = New
              /\ DOMAIN staged.artifacts = DOMAIN catalog.artifacts
              /\ \A a \in DOMAIN catalog.artifacts : staged.artifacts[a] = Staged[a]
              /\ staged.manifest = catalog.manifest /\ staged.split = catalog.split
              /\ staged.config = catalog.config /\ staged.ready = catalog.ready
              /\ staged.raced = catalog.raced
<1>1. PICK names : names = [a \in DOMAIN catalog.artifacts |-> Staged[a]]
  OBVIOUS
<1>2. ASSUME {"root", "artifacts"} \subseteq DOMAIN catalog
      PROVE  staged = [catalog EXCEPT !.root = New, !.artifacts = names]
  BY <1>1, <1>2 DEF StagedCatalog
<1>3. ASSUME EvidenceTyped(catalog)
      PROVE  /\ EvidenceTyped(staged) /\ staged.root = New
             /\ DOMAIN staged.artifacts = DOMAIN catalog.artifacts
             /\ \A a \in DOMAIN catalog.artifacts : staged.artifacts[a] = Staged[a]
  <2>1. DOMAIN staged = DOMAIN catalog /\ staged.root = New /\ staged.artifacts = names
    BY <1>2, <1>3 DEF EvidenceTyped
  <2>2. QED BY <1>1, <1>3, <2>1, Constants DEF EvidenceTyped
<1>4. ASSUME CatalogTyped(catalog)
      PROVE  /\ CatalogTyped(staged) /\ staged.root = New
             /\ DOMAIN staged.artifacts = DOMAIN catalog.artifacts
             /\ \A a \in DOMAIN catalog.artifacts : staged.artifacts[a] = Staged[a]
             /\ staged.manifest = catalog.manifest /\ staged.split = catalog.split
             /\ staged.config = catalog.config /\ staged.ready = catalog.ready
             /\ staged.raced = catalog.raced
  <2>1. /\ DOMAIN staged = DOMAIN catalog /\ staged.root = New /\ staged.artifacts = names
        /\ staged.manifest = catalog.manifest /\ staged.split = catalog.split
        /\ staged.config = catalog.config /\ staged.ready = catalog.ready
        /\ staged.raced = catalog.raced
    BY <1>2, <1>4 DEF CatalogTyped
  <2>2. QED BY <1>1, <1>4, <2>1, Constants DEF CatalogTyped
<1>5. QED BY <1>3, <1>4

LEMMA Afters ==
  /\ After(EvidenceCatalog) = StagedCatalog(Evidence)
  /\ After(DatasetCatalog) = IF Dataset = Absent THEN Absent ELSE StagedCatalog(Dataset)
  /\ After(Verification) = IF DatasetChanges THEN StagedReport ELSE files[Verification]
  /\ \A e \in Events : After(Collection(e)) = Staged[Collection(e)]
<1>1. After(EvidenceCatalog) = StagedCatalog(Evidence)
  BY Kinds DEF After
<1>2. After(DatasetCatalog) = IF DatasetChanges THEN StagedCatalog(Dataset) ELSE Dataset
  BY Kinds DEF After
<1>3. After(Verification) = IF DatasetChanges THEN StagedReport ELSE files[Verification]
  BY Kinds DEF After
<1>4. ASSUME NEW e \in Events PROVE After(Collection(e)) = Staged[Collection(e)]
  <2>1. /\ Collection(e) # DatasetCatalog /\ Collection(e) # Verification
        /\ Collection(e) # EvidenceCatalog
    BY Kinds
  <2>2. QED BY <2>1 DEF After
<1>5. QED BY <1>1, <1>2, <1>3, <1>4 DEF DatasetChanges

\* When the preflight passes, the planned documents agree at the new root.
LEMMA PlanAgrees ==
  ASSUME FilesTypeOK, NEW refresh \in BOOLEAN, Preflight(refresh),
         NEW target, target = [f \in Files |-> IF f \in Documents THEN After(f) ELSE files[f]]
  PROVE  /\ AllAt(target, New) /\ Named(target, target[EvidenceCatalog])
         /\ EvidenceTyped(target[EvidenceCatalog])
         /\ DOMAIN target[EvidenceCatalog].artifacts = DOMAIN Evidence.artifacts
         /\ target[DatasetCatalog] # Absent =>
              /\ Dataset # Absent /\ CatalogTyped(target[DatasetCatalog])
              /\ target[DatasetCatalog] = StagedCatalog(Dataset)
              /\ Named(target, target[DatasetCatalog])
              /\ Dataset.root = Old =>
                   target[Verification] = [catalog |-> target[DatasetCatalog], ok |-> TRUE]
         /\ \A a \in Artifacts : target[a] = Staged[a]
<1>1. /\ target[EvidenceCatalog] = StagedCatalog(Evidence)
      /\ target[DatasetCatalog] = IF Dataset = Absent THEN Absent ELSE StagedCatalog(Dataset)
      /\ target[Verification] = IF DatasetChanges THEN StagedReport ELSE files[Verification]
      /\ \A e \in Events : target[Collection(e)] = Staged[Collection(e)]
  <2>1. \A f \in Documents : f \in Files /\ target[f] = After(f)
    BY InFiles DEF Documents
  <2>2. QED BY <2>1, Afters DEF Documents
<1>2. ASSUME NEW a \in Artifacts PROVE target[a] = Staged[a] /\ a \in Files
  <2>1. a \in Files /\ a \notin {DatasetCatalog, Verification, EvidenceCatalog}
    BY DEF Artifacts
  <2>2. CASE a \in {Collection(e) : e \in Events}
    BY <1>1, <2>1, <2>2
  <2>3. CASE a \notin {Collection(e) : e \in Events}
    <3>1. a \notin Documents /\ a \notin ChangedCollections
      BY <2>1, <2>3 DEF Documents, ChangedCollections
    <3>2. target[a] = files[a] /\ Staged[a] = files[a]
      BY <2>1, <3>1, StagedFiles
    <3>3. QED BY <2>1, <3>2
  <2>4. QED BY <2>2, <2>3
<1>3. EvidenceTyped(Evidence) /\ (Dataset # Absent => CatalogTyped(Dataset))
  BY DEF FilesTypeOK
<1>4. /\ EvidenceTyped(target[EvidenceCatalog]) /\ target[EvidenceCatalog].root = New
      /\ DOMAIN target[EvidenceCatalog].artifacts = DOMAIN Evidence.artifacts
      /\ \A a \in DOMAIN Evidence.artifacts : target[EvidenceCatalog].artifacts[a] = Staged[a]
  BY <1>1, <1>3, StagedCatalogs
<1>5. target[DatasetCatalog] # Absent =>
        /\ Dataset # Absent /\ target[DatasetCatalog] = StagedCatalog(Dataset)
        /\ CatalogTyped(target[DatasetCatalog]) /\ target[DatasetCatalog].root = New
        /\ DOMAIN target[DatasetCatalog].artifacts = DOMAIN Dataset.artifacts
        /\ \A a \in DOMAIN Dataset.artifacts : target[DatasetCatalog].artifacts[a] = Staged[a]
  BY <1>1, <1>3, StagedCatalogs
<1>6. ASSUME NEW a \in Artifacts, files[a] # Absent PROVE Staged[a] # Absent
  <2>1. CASE a \in {Collection(e) : e \in Events}
    BY <1>6, <2>1, StagedFiles
  <2>2. CASE a \notin {Collection(e) : e \in Events}
    <3>1. a \notin ChangedCollections /\ a \in Files
      BY <2>2 DEF ChangedCollections, Artifacts
    <3>2. QED BY <1>6, <3>1, StagedFiles
  <2>3. QED BY <2>1, <2>2
<1>7. ASSUME NEW staged,
             \A a \in DOMAIN staged.artifacts :
               a \in Artifacts /\ files[a] # Absent /\ staged.artifacts[a] = Staged[a]
      PROVE  Named(target, staged)
  <2>1. ASSUME NEW a \in DOMAIN staged.artifacts
        PROVE  target[a] # Absent /\ target[a] = staged.artifacts[a]
    BY <1>2, <1>6, <1>7
  <2>2. QED BY <2>1 DEF Named
<1>8. Named(target, target[EvidenceCatalog])
  <2>1. ArtifactErrors(Evidence, refresh) = {} /\ DOMAIN Evidence.artifacts \subseteq Artifacts
    BY <1>3, NamedArtifacts DEF Preflight
  <2>2. \A a \in DOMAIN Evidence.artifacts : files[a] # Absent
    BY <2>1 DEF ArtifactErrors
  <2>3. \A a \in DOMAIN target[EvidenceCatalog].artifacts :
          a \in Artifacts /\ files[a] # Absent /\ target[EvidenceCatalog].artifacts[a] = Staged[a]
    BY <1>4, <2>1, <2>2
  <2>4. QED BY <1>7, <2>3
<1>9. ASSUME target[DatasetCatalog] # Absent PROVE Named(target, target[DatasetCatalog])
  <2>1. ArtifactErrors(Dataset, refresh) = {} /\ DOMAIN Dataset.artifacts \subseteq Artifacts
    BY <1>3, <1>5, <1>9, NamedArtifacts DEF Preflight
  <2>2. \A a \in DOMAIN Dataset.artifacts : files[a] # Absent
    BY <2>1 DEF ArtifactErrors
  <2>3. \A a \in DOMAIN target[DatasetCatalog].artifacts :
          a \in Artifacts /\ files[a] # Absent /\ target[DatasetCatalog].artifacts[a] = Staged[a]
    BY <1>5, <1>9, <2>1, <2>2
  <2>4. QED BY <1>7, <2>3
<1>10. AllAt(target, New)
  <2>1. \A e \in Events : target[Collection(e)] # Absent => target[Collection(e)].root = New
    BY <1>1, StagedFiles
  <2>2. QED BY <1>4, <1>5, <2>1 DEF AllAt
<1>11. ASSUME target[DatasetCatalog] # Absent, Dataset.root = Old
       PROVE  target[Verification] = [catalog |-> target[DatasetCatalog], ok |-> TRUE]
  <2>1. DatasetChanges
    BY <1>5, <1>11, Constants DEF DatasetChanges
  <2>2. StagedReport.ok /\ target[Verification] = StagedReport
    BY <1>1, <2>1 DEF Preflight
  <2>3. PICK ok \in BOOLEAN : StagedReport = [catalog |-> StagedCatalog(Dataset), ok |-> ok]
    BY DEF StagedReport, ReportOn
  <2>4. ok = TRUE
    BY <2>2, <2>3
  <2>5. QED BY <1>5, <1>11, <2>2, <2>3, <2>4
<1>12. QED BY <1>2, <1>4, <1>5, <1>8, <1>9, <1>10, <1>11

\* A dataset that did not race with discovery holds no candidate, when both catalogs verify:
\* its plan would be the one of a build in one catalog, and of discovery in the other.  The
\* collections of the other events have one capturer.
LEMMA StagedDatasetSound ==
  ASSUME FilesTypeOK, Preflight(FALSE), EvidenceSound(Evidence), CatalogSound(Dataset), ~accepted,
         Dataset # Absent, ~Dataset.raced, NEW staged, staged = StagedCatalog(Dataset)
  PROVE  OneBuild(staged) /\ AllRecorded(staged)
<1>1. CatalogTyped(Dataset) /\ OneBuild(Dataset) /\ AllRecorded(Dataset)
  BY DEF CatalogSound
<1>2. /\ DOMAIN staged.artifacts = DOMAIN Dataset.artifacts
      /\ \A a \in DOMAIN Dataset.artifacts : staged.artifacts[a] = Staged[a]
      /\ staged.manifest = Dataset.manifest /\ staged.split = Dataset.split
      /\ staged.config = Dataset.config /\ staged.ready = Dataset.ready
      /\ DOMAIN Dataset.artifacts \subseteq Artifacts
  BY <1>1, StagedCatalogs, NamedArtifacts
<1>3. DOMAIN Dataset.split \subseteq Events /\ \A e \in DOMAIN Dataset.split : Dataset.split[e] \in Splits
  BY <1>1, Constants DEF OneBuild, CatalogTyped
<1>4. ASSUME NEW a \in DOMAIN Dataset.artifacts, \A e : a # Collection(e)
      PROVE  staged.artifacts[a] = Dataset.artifacts[a]
  <2>1. a \notin ChangedCollections
    BY <1>4 DEF ChangedCollections
  <2>2. Staged[a] = Dataset.artifacts[a]
    BY <2>1 DEF Preflight, ArtifactErrors
  <2>3. QED BY <1>2, <2>2
<1>5. ASSUME NEW e \in DOMAIN Dataset.split PROVE e \notin Candidates
  <2> SUFFICES ASSUME e \in Candidates PROVE FALSE
    OBVIOUS
  <2>1. /\ Plan(e) \in DOMAIN Dataset.artifacts /\ Dataset.artifacts[Plan(e)] = "built"
    BY <1>1 DEF AllRecorded, EventRecorded
  <2>2. /\ Plan(e) \in DOMAIN Evidence.artifacts
        /\ Evidence.artifacts[Plan(e)] \in {"captured", "emptied"}
    BY DEF EvidenceSound, EvidenceTyped
  <2>3. Plan(e) \notin ChangedCollections
    BY Kinds DEF ChangedCollections
  <2>4. Staged[Plan(e)] = Dataset.artifacts[Plan(e)] /\ Staged[Plan(e)] = Evidence.artifacts[Plan(e)]
    BY <2>1, <2>2, <2>3 DEF Preflight, ArtifactErrors
  <2>5. QED BY <2>1, <2>2, <2>4
<1>6. ASSUME NEW e \in DOMAIN Dataset.split
      PROVE  staged.artifacts[Collection(e)].capturer = Dataset.artifacts[Collection(e)].capturer
  <2>1. /\ Collection(e) \in DOMAIN Dataset.artifacts
        /\ Dataset.artifacts[Collection(e)].capturer = "build"
    BY <1>1, <1>5 DEF AllRecorded, EventRecorded
  <2>2. files[Collection(e)] # Absent
    BY <2>1 DEF Preflight, ArtifactErrors
  <2>3. files[Collection(e)].capturer = "build"
    BY <1>3, <1>5, <2>2 DEF FilesTypeOK
  <2>4. Staged[Collection(e)].capturer = "build"
    BY <1>3, <2>2, <2>3, StagedFiles
  <2>5. QED BY <1>2, <2>1, <2>4
<1>7. ASSUME NEW e \in DOMAIN Dataset.split
      PROVE  /\ {Plan(e), Collection(e), Tensor(e), Persistence(e), OpticalFlow(e)}
                  \subseteq DOMAIN Dataset.artifacts
             /\ staged.artifacts[Plan(e)] = Dataset.artifacts[Plan(e)]
             /\ staged.artifacts[Tensor(e)] = Dataset.artifacts[Tensor(e)]
             /\ staged.artifacts[Persistence(e)] = Dataset.artifacts[Persistence(e)]
             /\ staged.artifacts[OpticalFlow(e)] = Dataset.artifacts[OpticalFlow(e)]
  <2>1. {Plan(e), Collection(e), Tensor(e), Persistence(e), OpticalFlow(e)}
          \subseteq DOMAIN Dataset.artifacts
    BY <1>1 DEF AllRecorded, EventRecorded
  <2>2. \A x : /\ Plan(e) # Collection(x) /\ Tensor(e) # Collection(x)
               /\ Persistence(e) # Collection(x) /\ OpticalFlow(e) # Collection(x)
    BY Kinds
  <2>3. QED BY <1>4, <2>1, <2>2
<1>8. ASSUME NEW s \in Splits
      PROVE  /\ Combined(s) \in DOMAIN Dataset.artifacts
             /\ staged.artifacts[Combined(s)] = Dataset.artifacts[Combined(s)]
  <2>1. Combined(s) \in DOMAIN Dataset.artifacts /\ \A x : Combined(s) # Collection(x)
    BY <1>1, Kinds DEF AllRecorded
  <2>2. QED BY <1>4, <2>1
<1>9. ASSUME Dataset.ready
      PROVE  /\ Checkpoint \in DOMAIN Dataset.artifacts
             /\ staged.artifacts[Checkpoint] = Dataset.artifacts[Checkpoint]
             /\ \A e \in DOMAIN Dataset.split : Dataset.split[e] # "train" =>
                  /\ Comparison(e) \in DOMAIN Dataset.artifacts
                  /\ staged.artifacts[Comparison(e)] = Dataset.artifacts[Comparison(e)]
  <2>1. \A x, e : Checkpoint # Collection(x) /\ Comparison(e) # Collection(x)
    BY Kinds
  <2>2. /\ Checkpoint \in DOMAIN Dataset.artifacts
        /\ \A e \in DOMAIN Dataset.split : Dataset.split[e] # "train" =>
             Comparison(e) \in DOMAIN Dataset.artifacts
    BY <1>1, <1>9 DEF AllRecorded
  <2>3. QED BY <1>4, <2>1, <2>2
<1>10. AllRecorded(staged)
  <2>1. ASSUME NEW e \in DOMAIN Dataset.split PROVE EventRecorded(staged.artifacts, e)
    <3>1. EventRecorded(Dataset.artifacts, e)
      BY <1>1 DEF AllRecorded
    <3>2. QED BY <1>2, <1>6, <1>7, <3>1 DEF EventRecorded
  <2>2. QED BY <1>2, <1>8, <1>9, <2>1 DEF AllRecorded
<1>11. OneBuild(staged)
  <2>1. ASSUME NEW e \in DOMAIN Dataset.split
        PROVE  /\ EventMade(staged, staged.artifacts, e)
               /\ staged.artifacts[Combined(Dataset.split[e])][e] = staged.artifacts[Tensor(e)]
    <3>1. /\ EventMade(Dataset, Dataset.artifacts, e)
          /\ Dataset.artifacts[Combined(Dataset.split[e])][e] = Dataset.artifacts[Tensor(e)]
      BY <1>1 DEF OneBuild
    <3>2. EventMade(staged, staged.artifacts, e)
      BY <1>2, <1>6, <1>7, <3>1 DEF EventMade
    <3>3. QED BY <1>3, <1>7, <1>8, <3>1, <3>2
  <2>2. ASSUME Dataset.ready
        PROVE  /\ staged.artifacts[Checkpoint] =
                    [train |-> staged.artifacts[Combined("train")], config |-> staged.config,
                     validation |-> staged.artifacts[Combined("validation")]]
               /\ \A e \in DOMAIN Dataset.split : Dataset.split[e] # "train" =>
                    staged.artifacts[Comparison(e)] =
                      [of |-> staged.artifacts[Tensor(e)], by |-> staged.artifacts[Checkpoint],
                       beats |-> TRUE]
    <3>1. /\ Dataset.artifacts[Checkpoint] =
                    [train |-> Dataset.artifacts[Combined("train")], config |-> Dataset.config,
                     validation |-> Dataset.artifacts[Combined("validation")]]
          /\ \A e \in DOMAIN Dataset.split : Dataset.split[e] # "train" =>
               Dataset.artifacts[Comparison(e)] =
                 [of |-> Dataset.artifacts[Tensor(e)], by |-> Dataset.artifacts[Checkpoint],
                  beats |-> TRUE]
      BY <1>1, <2>2 DEF OneBuild
    <3>2. /\ staged.artifacts[Combined("train")] = Dataset.artifacts[Combined("train")]
          /\ staged.artifacts[Combined("validation")] = Dataset.artifacts[Combined("validation")]
      BY <1>8 DEF Splits
    <3>3. QED BY <1>2, <1>7, <1>9, <2>2, <3>1, <3>2
  <2>3. staged.split = staged.manifest.split /\ staged.config = staged.manifest.config
    BY <1>1, <1>2 DEF OneBuild
  <2>4. QED BY <1>2, <2>1, <2>2, <2>3 DEF OneBuild
<1>12. QED BY <1>10, <1>11

\* What is known while the tree is at the new root and no command runs
LEMMA Moved ==
  ASSUME Safety, migrating, relocation.at = "idle"
  PROVE  /\ DatasetTypeOK /\ FilesTypeOK /\ BuildTypeOK /\ relocation = NotRunning
         /\ root = New /\ build.at = "idle"
         /\ (~interrupted => AllAt(files, Old))
         /\ EvidenceSound(Evidence) /\ CatalogSound(Dataset)
         /\ {migrating, clean, interrupted, accepted} \subseteq BOOLEAN
<1>1. relocation = NotRunning
  BY DEF Safety, ReplaceInv
<1>2. ~interrupted => AllAt(files, Old)
  <2>1. ~interrupted => AllAt(Origin, Old)
    BY DEF Safety, RootInv
  <2>2. \A e \in Events : Origin[Collection(e)] = files[Collection(e)]
    BY <1>1, AtRest, InFiles
  <2>3. QED BY <1>1, <2>1, <2>2, AtRest DEF AllAt, Evidence, Dataset
<1>3. QED BY <1>1, <1>2, AtRest DEF Safety, TypeOK, RootInv, SoundInv, DatasetTypeOK

LEMMA RelocateSafe == Safety /\ Relocate => Safety'
<1> SUFFICES ASSUME Safety, Relocate PROVE Safety'
  OBVIOUS
<1>1. migrating /\ relocation.at = "idle"
  BY DEF Relocate
<1>2. /\ DatasetTypeOK /\ FilesTypeOK /\ BuildTypeOK /\ relocation = NotRunning
      /\ root = New /\ build.at = "idle" /\ (~interrupted => AllAt(files, Old))
      /\ EvidenceSound(Evidence) /\ CatalogSound(Dataset)
      /\ {migrating, clean, interrupted, accepted} \subseteq BOOLEAN
  BY <1>1, Moved
<1>3. PICK refresh \in BOOLEAN : Preflight(refresh)
  BY DEF Relocate
<1>4. PICK target : target = [f \in Files |-> IF f \in Documents THEN After(f) ELSE files[f]]
  OBVIOUS
<1>5. /\ AllAt(target, New) /\ Named(target, target[EvidenceCatalog])
      /\ EvidenceTyped(target[EvidenceCatalog])
      /\ DOMAIN target[EvidenceCatalog].artifacts = DOMAIN Evidence.artifacts
      /\ target[DatasetCatalog] # Absent =>
           /\ Dataset # Absent /\ CatalogTyped(target[DatasetCatalog])
           /\ target[DatasetCatalog] = StagedCatalog(Dataset)
           /\ Named(target, target[DatasetCatalog])
           /\ Dataset.root = Old =>
                target[Verification] = [catalog |-> target[DatasetCatalog], ok |-> TRUE]
      /\ \A a \in Artifacts : target[a] = Staged[a]
  BY <1>2, <1>3, <1>4, PlanAgrees
<1>6. /\ UNCHANGED <<root, files, tracked, listed, approved, build, builds, faults, spoiled, clean,
                     interrupted>>
      /\ accepted' = (accepted \/ ~Preflight(FALSE))
  BY DEF Relocate, OthersUnchanged
<1>7. PICK changes :
        /\ changes = Changes
        /\ IF DOMAIN changes = {} THEN migrating' = FALSE /\ relocation' = relocation
           ELSE /\ relocation' = [at |-> "backup", changes |-> changes, written |-> {}]
                /\ migrating' = migrating
  BY DEF Relocate
<1>8. /\ DOMAIN changes \subseteq Documents
      /\ \A d \in Documents : d \in DOMAIN changes <=> After(d) # files[d]
      /\ \A d \in DOMAIN changes : /\ DOMAIN changes[d] = {"before", "after"}
                                   /\ changes[d].before = files[d] /\ changes[d].after = After(d)
  BY <1>7 DEF Changes, Change
<1>9. Documents \subseteq Files
  BY InFiles DEF Documents
<1>10. /\ Planned' \subseteq Documents /\ Planned' = DOMAIN changes
       /\ relocation'.changes = changes \/ DOMAIN changes = {}
       /\ relocation'.written = {} /\ DOMAIN relocation' = {"at", "changes", "written"}
       /\ relocation'.at = IF DOMAIN changes = {} THEN "idle" ELSE "backup"
  <2>1. CASE DOMAIN changes = {}
    BY <1>2, <1>7, <1>8, <2>1 DEF Planned, NotRunning
  <2>2. CASE DOMAIN changes # {}
    BY <1>7, <1>8, <2>2 DEF Planned
  <2>3. QED BY <2>1, <2>2
<1>11. ASSUME NEW f \in Files PROVE Origin'[f] = files[f] /\ Target'[f] = target[f]
  <2>1. /\ Origin'[f] = IF f \in Planned' THEN relocation'.changes[f].before ELSE files'[f]
        /\ Target'[f] = IF f \in Planned' THEN relocation'.changes[f].after ELSE files'[f]
    BY DEF Origin, Target
  <2>2. target[f] = IF f \in Documents THEN After(f) ELSE files[f]
    BY <1>4
  <2>3. QED BY <1>6, <1>8, <1>10, <2>1, <2>2
<1>12. /\ Origin'[EvidenceCatalog] = Evidence /\ Target'[EvidenceCatalog] = target[EvidenceCatalog]
       /\ Origin'[DatasetCatalog] = Dataset /\ Target'[DatasetCatalog] = target[DatasetCatalog]
       /\ Target'[Verification] = target[Verification]
       /\ Evidence' = Evidence /\ Dataset' = Dataset
       /\ \A e \in Events : /\ Origin'[Collection(e)] = files[Collection(e)]
                            /\ Target'[Collection(e)] = target[Collection(e)]
       /\ \A a \in Artifacts : Origin'[a] = files[a] /\ Target'[a] = target[a]
  BY <1>6, <1>11, InFiles DEF Evidence, Dataset, Artifacts
<1>13. DOMAIN changes = {} => \A f \in Files : target[f] = files[f]
  BY <1>4, <1>8
<1>14. TypeOK' /\ BuildInv'
  <2>1. DatasetTypeOK'
    BY <1>2, <1>6, <1>12
       DEF DatasetTypeOK, BuildTypeOK, FilesTypeOK, Places, EventPlaces
  <2>2. {migrating', clean', interrupted', accepted'} \subseteq BOOLEAN
    <3>1. migrating' = FALSE \/ migrating' = migrating
      BY <1>7
    <3>2. clean' = clean /\ interrupted' = interrupted
      BY <1>6
    <3>3. accepted' \in BOOLEAN
      BY <1>6
    <3>4. QED BY <1>2, <3>1, <3>2, <3>3
  <2>3. \A d \in Planned' : DOMAIN relocation'.changes[d] = {"before", "after"}
    BY <1>8, <1>10
  <2>4. TypeOK'
    BY <1>10, <2>1, <2>2, <2>3 DEF TypeOK
  <2>5. QED BY <1>2, <1>6, <2>4 DEF BuildInv
<1>15. RootInv'
  <2>1. ASSUME ~migrating' PROVE AllAt(files, New)
    <3>1. \A f \in Files : target[f] = files[f]
      BY <1>1, <1>7, <1>13, <2>1
    <3>2. \A e \in Events : target[Collection(e)] = files[Collection(e)]
      BY <3>1, InFiles
    <3>3. QED BY <1>5, <3>1, <3>2, InFiles DEF AllAt
  <2>2. ~interrupted => AllAt(Origin', Old)
    BY <1>2, <1>12 DEF AllAt, Evidence, Dataset
  <2>3. QED BY <1>2, <1>6, <2>1, <2>2 DEF RootInv
<1>16. EvidenceSound(target[EvidenceCatalog])'
  <2>1. ASSUME NEW c \in Candidates
        PROVE  /\ Plan(c) \in DOMAIN Evidence.artifacts /\ c \in Events
               /\ target[EvidenceCatalog].artifacts[Plan(c)] = files[Plan(c)]
               /\ files[Plan(c)] # Absent
               /\ Plan(c) \notin ChangedCollections /\ Staged[Plan(c)] = files[Plan(c)]
    <3>1. Plan(c) \in DOMAIN Evidence.artifacts /\ c \in Events /\ Plan(c) \in Files
      BY <1>2, Constants, InFiles DEF EvidenceSound, EvidenceTyped
    <3>2. Plan(c) \notin ChangedCollections
      BY Kinds DEF ChangedCollections
    <3>3. Staged[Plan(c)] = files[Plan(c)]
      BY <1>2, <3>1, <3>2, StagedFiles
    <3>4. target[Plan(c)] # Absent /\ target[Plan(c)] = target[EvidenceCatalog].artifacts[Plan(c)]
      BY <1>5, <3>1 DEF Named
    <3>5. target[Plan(c)] = Staged[Plan(c)]
      BY <1>5, <3>1, InArtifacts
    <3>6. QED BY <3>1, <3>2, <3>3, <3>4, <3>5
  <2>2. ASSUME ~accepted', NEW c \in Candidates
        PROVE  target[EvidenceCatalog].artifacts[Plan(c)] \in {"captured", "emptied"}
    <3>1. ~accepted /\ ArtifactErrors(Evidence, FALSE) = {}
      BY <1>6, <2>2 DEF Preflight
    <3>2. Staged[Plan(c)] = Evidence.artifacts[Plan(c)]
      BY <2>1, <3>1 DEF ArtifactErrors
    <3>3. QED BY <1>2, <2>1, <3>1, <3>2 DEF EvidenceSound
  <2>3. ASSUME spoiled = {}, NEW c \in Candidates
        PROVE  /\ c \in listed => target[EvidenceCatalog].artifacts[Plan(c)] = "captured"
               /\ files[Plan(c)] = target[EvidenceCatalog].artifacts[Plan(c)]
               /\ Collection(c) \in DOMAIN target[EvidenceCatalog].artifacts =>
                    /\ Captured(target[EvidenceCatalog].artifacts[Collection(c)])
                    /\ files[Collection(c)] = Absent \/ Captured(files[Collection(c)])
    <3>1. /\ c \in listed => Evidence.artifacts[Plan(c)] = "captured"
          /\ files[Plan(c)] \in {Evidence.artifacts[Plan(c)], Absent}
          /\ Collection(c) \in DOMAIN Evidence.artifacts =>
               files[Collection(c)] = Absent \/ Captured(files[Collection(c)])
      BY <1>1, <1>2, <2>3 DEF EvidenceSound
    <3>2. ASSUME Collection(c) \in DOMAIN Evidence.artifacts
          PROVE  Captured(target[EvidenceCatalog].artifacts[Collection(c)])
      <4>1. /\ target[Collection(c)] # Absent
            /\ target[Collection(c)] = target[EvidenceCatalog].artifacts[Collection(c)]
        BY <1>5, <3>2 DEF Named
      <4>2. target[Collection(c)] = Staged[Collection(c)]
        BY <1>5, <2>1, InArtifacts
      <4>3. files[Collection(c)] # Absent
        BY <1>2, <2>1, <4>1, <4>2, StagedFiles
      <4>4. /\ Captured(files[Collection(c)]) /\ Staged[Collection(c)] # Absent
            /\ Staged[Collection(c)].capturer = files[Collection(c)].capturer
        BY <1>2, <2>1, <3>1, <3>2, <4>3, StagedFiles
      <4>5. QED BY <4>1, <4>2, <4>4 DEF Captured
    <3>3. QED BY <1>5, <2>1, <3>1, <3>2
  <2>4. PICK catalog : catalog = target[EvidenceCatalog]
    OBVIOUS
  <2>5. EvidenceSound(catalog)'
    BY <1>5, <1>6, <2>2, <2>3, <2>4 DEF EvidenceSound
  <2>6. QED BY <2>4, <2>5
<1>17. EvidenceSound(Evidence)'
  <2>1. accepted => accepted'
    BY <1>6
  <2>2. migrating' => migrating
    BY <1>1
  <2>3. QED BY <1>2, <1>6, <1>12, <2>1, <2>2 DEF EvidenceSound
<1>18. CatalogSound(Dataset)' /\ CatalogSound(target[DatasetCatalog])'
  <2>1. CatalogSound(Dataset)'
    BY <1>2, <1>6, <1>12 DEF CatalogSound
  <2>2. ASSUME target[DatasetCatalog] # Absent, ~target[DatasetCatalog].raced, ~accepted'
        PROVE  OneBuild(target[DatasetCatalog]) /\ AllRecorded(target[DatasetCatalog])
    <3>1. ~accepted /\ Preflight(FALSE) /\ Dataset # Absent
      BY <1>5, <1>6, <2>2
    <3>2. target[DatasetCatalog].raced = Dataset.raced
      BY <1>2, <1>5, <2>2, <3>1, StagedCatalogs DEF CatalogSound
    <3>3. QED BY <1>2, <1>5, <2>2, <3>1, <3>2, StagedDatasetSound
  <2>3. PICK catalog : catalog = target[DatasetCatalog]
    OBVIOUS
  <2>4. CatalogSound(catalog)'
    BY <1>5, <2>2, <2>3 DEF CatalogSound
  <2>5. QED BY <2>1, <2>3, <2>4
<1>19. SoundInv'
  <2>1. EvidenceSound(Origin[EvidenceCatalog])' /\ EvidenceSound(Target[EvidenceCatalog])'
    BY <1>12, <1>16, <1>17 DEF EvidenceSound
  <2>2. CatalogSound(Origin[DatasetCatalog])' /\ CatalogSound(Target[DatasetCatalog])'
    BY <1>12, <1>18 DEF CatalogSound
  <2>3. QED BY <2>1, <2>2 DEF SoundInv
<1>20. ReplaceInv'
  <2>1. CASE DOMAIN changes = {}
    BY <1>2, <1>7, <2>1 DEF ReplaceInv, NotRunning
  <2>2. CASE DOMAIN changes # {}
    <3>1. AllAt(Target', New) /\ Named(Target', Target'[EvidenceCatalog])
      <4>1. AllAt(Target', New)
        BY <1>5, <1>12 DEF AllAt
      <4>2. DOMAIN target[EvidenceCatalog].artifacts \subseteq Artifacts
        BY <1>5, NamedArtifacts
      <4>3. QED BY <1>5, <1>12, <4>1, <4>2 DEF Named
    <3>2. Target'[DatasetCatalog] # Absent =>
            /\ Named(Target', Target'[DatasetCatalog])
            /\ Origin'[DatasetCatalog].root = Old =>
                 Target'[Verification] = [catalog |-> Target'[DatasetCatalog], ok |-> TRUE]
      <4>1. target[DatasetCatalog] # Absent => DOMAIN target[DatasetCatalog].artifacts \subseteq Artifacts
        BY <1>5, NamedArtifacts
      <4>2. target[DatasetCatalog] # Absent => Named(Target', target[DatasetCatalog])
        BY <1>5, <1>12, <4>1 DEF Named
      <4>3. QED BY <1>5, <1>12, <4>2
    <3>3. Origin'[DatasetCatalog] = Absent => Target'[DatasetCatalog] = Absent
      BY <1>5, <1>12
    <3>4. ASSUME NEW e \in Events
          PROVE  \/ Target'[Collection(e)] = Origin'[Collection(e)]
                 \/ /\ Origin'[Collection(e)] \in Collections /\ Origin'[Collection(e)].root = Old
                    /\ Target'[Collection(e)] = CollectionOf(Origin'[Collection(e)].capturer, New, TRUE)
      <4>1. /\ Origin'[Collection(e)] = files[Collection(e)]
            /\ Target'[Collection(e)] = Staged[Collection(e)]
        BY <1>5, <1>12, InArtifacts
      <4>2. QED BY <1>2, <4>1, StagedFiles
    <3>5. Relocated'
      BY <3>1, <3>2, <3>3, <3>4 DEF Relocated
    <3>6. /\ migrating' /\ relocation'.at = "backup" /\ relocation'.written = {}
          /\ relocation'.changes = changes /\ Planned' = DOMAIN changes
      BY <1>1, <1>7, <1>10, <2>2
    <3>7. \A d \in Planned' : files'[d] = relocation'.changes[d].before
      BY <1>6, <1>8, <3>6
    <3>8. QED BY <2>2, <3>5, <3>6, <3>7 DEF ReplaceInv
  <2>3. QED BY <2>1, <2>2
<1>21. CleanInv'
  <2>1. clean => /\ Undamaged(files, Evidence) /\ (Dataset # Absent => Undamaged(files, Dataset))
    <3>1. Origin[EvidenceCatalog] = Evidence /\ Origin[DatasetCatalog] = Dataset
          /\ \A a \in Artifacts : Origin[a] = files[a]
      BY <1>2, AtRest DEF Artifacts
    <3>2. /\ DOMAIN Evidence.artifacts \subseteq Artifacts
          /\ Dataset # Absent => DOMAIN Dataset.artifacts \subseteq Artifacts
      BY <1>2, NamedArtifacts DEF EvidenceSound, CatalogSound
    <3>3. QED BY <1>1, <3>1, <3>2 DEF Safety, CleanInv, Undamaged
  <2>2. /\ DOMAIN Evidence.artifacts \subseteq Artifacts
        /\ Dataset # Absent => DOMAIN Dataset.artifacts \subseteq Artifacts
    BY <1>2, NamedArtifacts DEF EvidenceSound, CatalogSound
  <2>3. clean => /\ Undamaged(Origin', Evidence) /\ (Dataset # Absent => Undamaged(Origin', Dataset))
    BY <1>12, <2>1, <2>2 DEF Undamaged
  <2>4. QED BY <1>6, <1>12, <2>3 DEF CleanInv
<1>22. CatalogOfOneBuild'
  BY <1>12, <1>18 DEF CatalogOfOneBuild, CatalogSound
<1>23. EvidenceDurableUnlessBuilt'
  <2> SUFFICES ASSUME ~migrating' PROVE EvidenceVerifies'
    BY DEF EvidenceDurableUnlessBuilt
  <2>1. \A f \in Files : target[f] = files[f]
    BY <1>1, <1>7, <1>13
  <2>2. target[EvidenceCatalog] = Evidence /\ \A a \in Artifacts : target[a] = files[a]
    BY <2>1, InFiles DEF Evidence, Artifacts
  <2>3. DOMAIN Evidence.artifacts \subseteq Artifacts
    BY <1>2, NamedArtifacts DEF EvidenceSound
  <2>4. \A a \in DOMAIN Evidence.artifacts : files[a] = Evidence.artifacts[a]
    BY <1>5, <2>2, <2>3 DEF Named
  <2>5. QED BY <1>6, <1>12, <2>4 DEF EvidenceVerifies, Matches
<1>24. QED BY <1>14, <1>15, <1>19, <1>20, <1>21, <1>22, <1>23 DEF Safety

(***************************************************************************)
(* The steps of the command                                                *)
(***************************************************************************)
\* While it runs, a written document is as planned, another file as it was.
LEMMA InProgress ==
  ASSUME Safety, relocation.at # "idle"
  PROVE  /\ migrating /\ root = New /\ build.at = "idle" /\ Relocated /\ Planned # {}
         /\ DatasetTypeOK /\ FilesTypeOK /\ BuildTypeOK
         /\ Planned \subseteq Documents /\ Documents \subseteq Files
         /\ relocation.written \subseteq Planned
         /\ DOMAIN relocation = {"at", "changes", "written"}
         /\ \A d \in Planned : DOMAIN relocation.changes[d] = {"before", "after"}
         /\ {migrating, clean, interrupted, accepted} \subseteq BOOLEAN
         /\ EvidenceSound(Origin[EvidenceCatalog]) /\ EvidenceSound(Target[EvidenceCatalog])
         /\ CatalogSound(Origin[DatasetCatalog]) /\ CatalogSound(Target[DatasetCatalog])
         /\ \A d \in relocation.written, e \in Planned : Precedes(e, d) => e \in relocation.written
         /\ (~interrupted => AllAt(Origin, Old))
         /\ \A f \in Files :
              /\ files[f] = IF f \in relocation.written THEN Target[f] ELSE Origin[f]
              /\ f \notin Planned => Origin[f] = files[f] /\ Target[f] = files[f]
              /\ f \in Planned => /\ Origin[f] = relocation.changes[f].before
                                  /\ Target[f] = relocation.changes[f].after
<1>1. /\ migrating /\ Planned # {} /\ Relocated
      /\ \A d \in relocation.written, e \in Planned : Precedes(e, d) => e \in relocation.written
      /\ \A d \in Planned : files[d] = IF d \in relocation.written THEN relocation.changes[d].after
                                       ELSE relocation.changes[d].before
  BY DEF Safety, ReplaceInv
<1>2. /\ TypeOK /\ DatasetTypeOK /\ FilesTypeOK /\ BuildTypeOK /\ relocation.written \subseteq Planned
      /\ Planned \subseteq Documents
  BY DEF Safety, TypeOK, DatasetTypeOK
<1>3. ASSUME NEW f \in Files
      PROVE  /\ files[f] = IF f \in relocation.written THEN Target[f] ELSE Origin[f]
             /\ f \notin Planned => Origin[f] = files[f] /\ Target[f] = files[f]
             /\ f \in Planned => /\ Origin[f] = relocation.changes[f].before
                                 /\ Target[f] = relocation.changes[f].after
  BY <1>1, <1>2 DEF Origin, Target
<1>4. Documents \subseteq Files
  BY InFiles DEF Documents
<1>5. /\ root = New /\ build.at = "idle" /\ (~interrupted => AllAt(Origin, Old))
  BY <1>1 DEF Safety, RootInv
<1>6. /\ EvidenceSound(Origin[EvidenceCatalog]) /\ EvidenceSound(Target[EvidenceCatalog])
      /\ CatalogSound(Origin[DatasetCatalog]) /\ CatalogSound(Target[DatasetCatalog])
  BY DEF Safety, SoundInv
<1>7. /\ DOMAIN relocation = {"at", "changes", "written"}
      /\ \A d \in Planned : DOMAIN relocation.changes[d] = {"before", "after"}
      /\ {migrating, clean, interrupted, accepted} \subseteq BOOLEAN
  BY <1>2 DEF TypeOK
<1>8. QED BY <1>1, <1>2, <1>3, <1>4, <1>5, <1>6, <1>7

\* Whatever documents a step leaves replaced
LEMMA MixTyped ==
  ASSUME Safety, relocation.at # "idle", NEW W \in SUBSET Planned,
         DOMAIN files' = Files,
         \A f \in Files : files'[f] = IF f \in W THEN Target[f] ELSE Origin[f],
         UNCHANGED <<root, tracked, listed, approved, build, builds, spoiled, accepted>>,
         faults' \in 0..MaxFaults
  PROVE  /\ DatasetTypeOK' /\ BuildInv'
         /\ Evidence' \in {Origin[EvidenceCatalog], Target[EvidenceCatalog]}
         /\ Dataset' \in {Origin[DatasetCatalog], Target[DatasetCatalog]}
         /\ \A catalog \in {Origin[EvidenceCatalog], Target[EvidenceCatalog]} : EvidenceSound(catalog)'
         /\ \A catalog \in {Origin[DatasetCatalog], Target[DatasetCatalog]} : CatalogSound(catalog)'
         /\ CatalogOfOneBuild'
<1>1. /\ migrating /\ build.at = "idle" /\ Relocated /\ DatasetTypeOK /\ FilesTypeOK /\ BuildTypeOK
      /\ Planned \subseteq Documents
      /\ EvidenceSound(Origin[EvidenceCatalog]) /\ EvidenceSound(Target[EvidenceCatalog])
      /\ CatalogSound(Origin[DatasetCatalog]) /\ CatalogSound(Target[DatasetCatalog])
      /\ \A f \in Files :
           /\ files[f] = IF f \in relocation.written THEN Target[f] ELSE Origin[f]
           /\ f \notin Planned => Origin[f] = files[f] /\ Target[f] = files[f]
  BY InProgress
<1>2. /\ Evidence' \in {Origin[EvidenceCatalog], Target[EvidenceCatalog]}
      /\ Dataset' \in {Origin[DatasetCatalog], Target[DatasetCatalog]}
  BY InFiles DEF Evidence, Dataset
<1>3. ASSUME NEW e \in Events PROVE files'[Plan(e)] = files[Plan(e)]
  <2>1. Plan(e) \in Files /\ Plan(e) \notin Documents
    BY InFiles, Kinds DEF Documents
  <2>2. QED BY <1>1, <2>1
<1>4. ASSUME NEW e \in Events
      PROVE  \/ files'[Collection(e)] = files[Collection(e)]
             \/ /\ files'[Collection(e)] \in Collections /\ files[Collection(e)] \in Collections
                /\ files'[Collection(e)].capturer = files[Collection(e)].capturer
  <2>1. PICK before, after : /\ before = Origin[Collection(e)] /\ after = Target[Collection(e)]
    OBVIOUS
  <2>2. /\ files'[Collection(e)] \in {before, after} /\ files[Collection(e)] \in {before, after}
        /\ files[Collection(e)] \in Collections \union {Absent}
    BY <1>1, <2>1, InFiles DEF FilesTypeOK
  <2>3. \/ after = before
        \/ before \in Collections /\ after = CollectionOf(before.capturer, New, TRUE)
    BY <1>1, <2>1 DEF Relocated
  <2>4. CASE after = before
    BY <2>2, <2>4
  <2>5. CASE before \in Collections /\ after = CollectionOf(before.capturer, New, TRUE)
    <3>1. after \in Collections /\ after.capturer = before.capturer
      BY <2>5, Constants DEF CollectionOf, Collections
    <3>2. QED BY <2>2, <2>5, <3>1
  <2>6. QED BY <2>3, <2>4, <2>5
<1>5. FilesTypeOK'
  <2>1. EvidenceTyped(Evidence')
    BY <1>1, <1>2 DEF EvidenceSound
  <2>2. Dataset' # Absent => CatalogTyped(Dataset')
    BY <1>1, <1>2 DEF CatalogSound
  <2>3. ASSUME NEW e \in Events
        PROVE  /\ files'[Plan(e)] \in {Absent, "captured", "emptied", "built"}
               /\ files'[Collection(e)] \in Collections \union {Absent}
               /\ e \notin Candidates /\ files'[Collection(e)] # Absent =>
                    files'[Collection(e)].capturer = "build"
    <3>1. /\ files[Plan(e)] \in {Absent, "captured", "emptied", "built"}
          /\ files[Collection(e)] \in Collections \union {Absent}
          /\ e \notin Candidates /\ files[Collection(e)] # Absent =>
               files[Collection(e)].capturer = "build"
      BY <1>1 DEF FilesTypeOK
    <3>2. files'[Plan(e)] = files[Plan(e)]
      BY <1>3
    <3>3. QED BY <1>4, <3>1, <3>2, Constants
  <2>4. QED BY <2>1, <2>2, <2>3 DEF FilesTypeOK
<1>6. DatasetTypeOK' /\ BuildInv'
  <2>1. BuildTypeOK'
    BY <1>1 DEF BuildTypeOK, EventPlaces
  <2>2. QED BY <1>1, <1>5, <2>1 DEF DatasetTypeOK, BuildInv
<1>7. ASSUME NEW catalog, EvidenceSound(catalog) PROVE EvidenceSound(catalog)'
  <2>1. ASSUME NEW c \in Candidates
        PROVE  /\ files'[Plan(c)] = files[Plan(c)]
               /\ files[Collection(c)] = Absent \/ Captured(files[Collection(c)]) =>
                    files'[Collection(c)] = Absent \/ Captured(files'[Collection(c)])
    BY <1>3, <1>4, Constants DEF Captured
  <2>2. QED BY <1>1, <1>7, <2>1 DEF EvidenceSound
<1>8. ASSUME NEW catalog, CatalogSound(catalog) PROVE CatalogSound(catalog)'
  BY <1>8 DEF CatalogSound
<1>9. CatalogOfOneBuild'
  BY <1>1, <1>2 DEF CatalogOfOneBuild, CatalogSound
<1>10. QED BY <1>1, <1>2, <1>6, <1>7, <1>8, <1>9

\* The command goes on: what it has planned stays the plan.
LEMMA StillReplacing ==
  ASSUME Safety, relocation.at # "idle",
         UNCHANGED <<root, tracked, listed, approved, build, builds, spoiled, migrating, clean,
                     interrupted, accepted>>,
         faults' \in 0..MaxFaults, DOMAIN files' = Files,
         DOMAIN relocation' = DOMAIN relocation, relocation'.changes = relocation.changes,
         relocation'.at \in {"write", "rollback"}, relocation'.written \subseteq Planned,
         relocation'.at = "write" => relocation'.written # Planned,
         relocation'.at = "rollback" => relocation'.written # {},
         \A d \in relocation'.written, e \in Planned : Precedes(e, d) => e \in relocation'.written,
         \A f \in Files : files'[f] = IF f \in relocation'.written THEN Target[f] ELSE Origin[f]
  PROVE  Safety'
<1>1. /\ migrating /\ root = New /\ build.at = "idle" /\ Relocated /\ Planned # {}
      /\ Planned \subseteq Documents /\ Documents \subseteq Files
      /\ DOMAIN relocation = {"at", "changes", "written"}
      /\ \A d \in Planned : DOMAIN relocation.changes[d] = {"before", "after"}
      /\ {migrating, clean, interrupted, accepted} \subseteq BOOLEAN
      /\ (~interrupted => AllAt(Origin, Old))
      /\ \A f \in Files :
           /\ f \notin Planned => Origin[f] = files[f] /\ Target[f] = files[f]
           /\ f \in Planned => /\ Origin[f] = relocation.changes[f].before
                               /\ Target[f] = relocation.changes[f].after
  BY InProgress
<1>2. PICK W \in SUBSET Planned : W = relocation'.written
  OBVIOUS
<1>3. /\ DatasetTypeOK' /\ BuildInv'
      /\ \A catalog \in {Origin[EvidenceCatalog], Target[EvidenceCatalog]} : EvidenceSound(catalog)'
      /\ \A catalog \in {Origin[DatasetCatalog], Target[DatasetCatalog]} : CatalogSound(catalog)'
      /\ CatalogOfOneBuild'
  BY <1>2, MixTyped
<1>4. Planned' = Planned
  BY DEF Planned
<1>5. Origin' = Origin /\ Target' = Target
  <2>1. ASSUME NEW f \in Files, f \notin Planned PROVE files'[f] = files[f]
    BY <1>1, <1>2, <2>1
  <2>2. Origin' = Origin
    BY <1>4, <2>1 DEF Origin
  <2>3. Target' = Target
    BY <1>4, <2>1 DEF Target
  <2>4. QED BY <2>2, <2>3
<1>6. TypeOK'
  BY <1>1, <1>3, <1>4 DEF TypeOK
<1>7. RootInv' /\ CleanInv' /\ EvidenceDurableUnlessBuilt'
  BY <1>1, <1>5 DEF RootInv, CleanInv, EvidenceDurableUnlessBuilt, Safety
<1>8. SoundInv'
  BY <1>3, <1>5 DEF SoundInv
<1>9. Relocated'
  BY <1>1, <1>5 DEF Relocated
<1>10. ReplaceInv'
  <2>1. \A d \in Planned' :
          files'[d] = IF d \in relocation'.written THEN relocation'.changes[d].after
                      ELSE relocation'.changes[d].before
    BY <1>1, <1>4
  <2>2. relocation'.at = "write" => Unwritten' # {}
    BY <1>4 DEF Unwritten
  <2>3. QED BY <1>1, <1>4, <1>9, <2>1, <2>2 DEF ReplaceInv
<1>11. QED BY <1>3, <1>6, <1>7, <1>8, <1>10 DEF Safety

LEMMA BackupSafe == Safety /\ Backup => Safety'
<1> SUFFICES ASSUME Safety, Backup PROVE Safety'
  OBVIOUS
<1>1. relocation.at = "backup" /\ relocation' = [relocation EXCEPT !.at = "write"]
  BY DEF Backup
<1>2. /\ UNCHANGED <<root, tracked, listed, approved, build, builds, spoiled, migrating, clean,
                    interrupted, accepted>>
      /\ files' = files /\ faults' = faults
  BY DEF Backup, OthersUnchanged
<1>3. /\ Planned # {} /\ DatasetTypeOK /\ FilesTypeOK
      /\ DOMAIN relocation = {"at", "changes", "written"}
      /\ \A f \in Files : files[f] = IF f \in relocation.written THEN Target[f] ELSE Origin[f]
  BY <1>1, InProgress
<1>4. relocation.written = {}
  BY <1>1 DEF Safety, ReplaceInv
<1>5. /\ DOMAIN relocation' = DOMAIN relocation /\ relocation'.changes = relocation.changes
      /\ relocation'.at = "write" /\ relocation'.written = {}
  BY <1>1, <1>3, <1>4
<1>6. faults' \in 0..MaxFaults /\ DOMAIN files' = Files
  BY <1>2, <1>3 DEF DatasetTypeOK, FilesTypeOK
<1>7. QED BY <1>1, <1>2, <1>3, <1>4, <1>5, <1>6, StillReplacing

\* The command stops before the end, with nothing replaced, or interrupted: of the documents
\* that name an artifact, those before a replaced one have been replaced too.
LEMMA StopSafe ==
  ASSUME Safety, relocation.at # "idle",
         UNCHANGED <<root, tracked, listed, approved, build, builds, spoiled, migrating, clean,
                     accepted>>,
         faults' \in 0..MaxFaults, DOMAIN files' = Files, relocation' = NotRunning,
         NEW W \in SUBSET Planned, \A d \in W, e \in Planned : Precedes(e, d) => e \in W,
         interrupted' \in BOOLEAN, interrupted => interrupted', W # {} => interrupted',
         \A f \in Files : files'[f] = IF f \in W THEN Target[f] ELSE Origin[f]
  PROVE  Safety'
<1>1. /\ migrating /\ root = New /\ build.at = "idle" /\ Relocated
      /\ {migrating, clean, interrupted, accepted} \subseteq BOOLEAN
      /\ EvidenceSound(Origin[EvidenceCatalog]) /\ EvidenceSound(Target[EvidenceCatalog])
      /\ CatalogSound(Origin[DatasetCatalog]) /\ CatalogSound(Target[DatasetCatalog])
      /\ (~interrupted => AllAt(Origin, Old)) /\ Planned \subseteq Documents
      /\ \A f \in Files : f \notin Planned => Origin[f] = Target[f]
  BY InProgress
<1>2. /\ DatasetTypeOK' /\ BuildInv'
      /\ Evidence' \in {Origin[EvidenceCatalog], Target[EvidenceCatalog]}
      /\ Dataset' \in {Origin[DatasetCatalog], Target[DatasetCatalog]}
      /\ \A catalog \in {Origin[EvidenceCatalog], Target[EvidenceCatalog]} : EvidenceSound(catalog)'
      /\ \A catalog \in {Origin[DatasetCatalog], Target[DatasetCatalog]} : CatalogSound(catalog)'
      /\ CatalogOfOneBuild'
  BY MixTyped
<1>3. /\ Planned' = {}
      /\ \A f \in Files : Origin'[f] = files'[f] /\ Target'[f] = files'[f]
      /\ Origin'[EvidenceCatalog] = Evidence' /\ Target'[EvidenceCatalog] = Evidence'
      /\ Origin'[DatasetCatalog] = Dataset' /\ Target'[DatasetCatalog] = Dataset'
  BY AtRestNext
<1>4. TypeOK'
  BY <1>1, <1>2, <1>3 DEF TypeOK, NotRunning
<1>5. RootInv'
  <2>1. ASSUME ~interrupted' PROVE AllAt(Origin', Old)
    <3>1. W = {} /\ ~interrupted
      BY <2>1
    <3>2. \A f \in Files : Origin'[f] = Origin[f]
      BY <1>3, <3>1
    <3>3. \A e \in Events : Origin'[Collection(e)] = Origin[Collection(e)]
      BY <3>2, InFiles
    <3>4. QED BY <1>1, <3>1, <3>2, <3>3, InFiles DEF AllAt
  <2>2. QED BY <1>1, <2>1 DEF RootInv
<1>6. SoundInv'
  <2>1. PICK evidence, catalog : evidence = Evidence' /\ catalog = Dataset'
    OBVIOUS
  <2>2. EvidenceSound(evidence)' /\ CatalogSound(catalog)'
    BY <1>2, <2>1
  <2>3. EvidenceSound(Origin[EvidenceCatalog])' /\ EvidenceSound(Target[EvidenceCatalog])'
    BY <1>3, <2>1, <2>2 DEF EvidenceSound
  <2>4. CatalogSound(Origin[DatasetCatalog])' /\ CatalogSound(Target[DatasetCatalog])'
    BY <1>3, <2>1, <2>2 DEF CatalogSound
  <2>5. QED BY <2>3, <2>4 DEF SoundInv
<1>7. ReplaceInv'
  BY DEF ReplaceInv, NotRunning
<1>8. ASSUME clean, NEW d \in {EvidenceCatalog, DatasetCatalog}, NEW catalog, catalog = files'[d],
             DOMAIN Origin[d].artifacts \subseteq Artifacts, DOMAIN Target[d].artifacts \subseteq Artifacts,
             Undamaged(Origin, Origin[d]), Named(Target, Target[d])
      PROVE  Undamaged(files', catalog)
  <2>1. d \in Files /\ d \in Documents
    BY InFiles DEF Documents
  <2>2. ASSUME NEW a \in Artifacts
        PROVE  /\ files'[a] = Target[a] \/ files'[a] = Origin[a]
               /\ \/ Target[a] = Origin[a]
                  \/ /\ a \in {Collection(e) : e \in Events}
                     /\ Origin[a] # Absent /\ Origin[a].root = Old
    <3>1. a \in Files
      BY DEF Artifacts
    <3>2. CASE a \in {Collection(e) : e \in Events}
      <4>1. \/ Target[a] = Origin[a]
            \/ Origin[a] \in Collections /\ Origin[a].root = Old
        BY <1>1, <3>2 DEF Relocated
      <4>2. QED BY <1>1, <3>1, <3>2, <4>1, Constants
    <3>3. CASE a \notin {Collection(e) : e \in Events}
      <4>1. a \notin Documents
        BY <3>3 DEF Documents, Artifacts
      <4>2. QED BY <1>1, <3>1, <4>1
    <3>4. QED BY <3>1, <3>2, <3>3
  <2>3. CASE catalog = Target[d]
    <3>1. ASSUME NEW a \in DOMAIN catalog.artifacts
          PROVE  /\ files'[a] # Absent
                 /\ \/ files'[a] = catalog.artifacts[a]
                    \/ a \in {Collection(e) : e \in Events} /\ files'[a].root = Old
      <4>1. a \in Artifacts /\ Target[a] # Absent /\ Target[a] = catalog.artifacts[a]
        BY <1>8, <2>3 DEF Named
      <4>2. QED BY <2>2, <4>1
    <3>2. QED BY <3>1 DEF Undamaged
  <2>4. CASE catalog # Target[d]
    <3>1. d \in Planned /\ d \notin W /\ catalog = Origin[d]
      BY <1>1, <1>8, <2>1, <2>4
    <3>2. ASSUME NEW e \in Events PROVE Collection(e) \notin W
      <4>1. Precedes(d, Collection(e))
        BY Kinds DEF Precedes, Rank
      <4>2. QED BY <3>1, <4>1
    <3>3. ASSUME NEW a \in Artifacts PROVE files'[a] = Origin[a]
      <4>1. a \in Files
        BY DEF Artifacts
      <4>2. a \notin W
        BY <1>1, <3>2 DEF Documents, Artifacts
      <4>3. QED BY <4>1, <4>2
    <3>4. QED BY <1>8, <3>1, <3>3 DEF Undamaged
  <2>5. QED BY <2>3, <2>4
<1>9. CleanInv'
  <2> SUFFICES ASSUME clean PROVE CleanInv'
    BY DEF CleanInv
  <2>1. /\ Undamaged(Origin, Origin[EvidenceCatalog])
        /\ Origin[DatasetCatalog] # Absent => Undamaged(Origin, Origin[DatasetCatalog])
    BY <1>1 DEF Safety, CleanInv
  <2>2. /\ DOMAIN Origin[EvidenceCatalog].artifacts \subseteq Artifacts
        /\ DOMAIN Target[EvidenceCatalog].artifacts \subseteq Artifacts
        /\ Origin[DatasetCatalog] # Absent => DOMAIN Origin[DatasetCatalog].artifacts \subseteq Artifacts
        /\ Target[DatasetCatalog] # Absent => DOMAIN Target[DatasetCatalog].artifacts \subseteq Artifacts
    BY <1>1, NamedArtifacts DEF EvidenceSound, CatalogSound
  <2>3. /\ Named(Target, Target[EvidenceCatalog])
        /\ Target[DatasetCatalog] # Absent => Named(Target, Target[DatasetCatalog])
        /\ Origin[DatasetCatalog] = Absent => Target[DatasetCatalog] = Absent
    BY <1>1 DEF Relocated
  <2>4. Undamaged(files', Evidence')
    BY <1>8, <2>1, <2>2, <2>3 DEF Evidence
  <2>5. ASSUME Dataset' # Absent PROVE Undamaged(files', Dataset')
    <3>1. CASE Target[DatasetCatalog] # Absent
      BY <1>8, <2>1, <2>2, <2>3, <3>1 DEF Dataset
    <3>2. CASE Target[DatasetCatalog] = Absent
      <4>1. Dataset' = Origin[DatasetCatalog] /\ Origin[DatasetCatalog] # Absent
        BY <1>2, <2>5, <3>2
      <4>2. DatasetCatalog \notin W /\ (DatasetCatalog \in Planned => W = {})
        <5>1. DatasetCatalog \notin W
          BY <2>5, <3>2, InFiles DEF Dataset
        <5>2. ASSUME DatasetCatalog \in Planned, NEW x \in W PROVE FALSE
          <6>1. x \in Documents /\ x # DatasetCatalog
            BY <1>1, <5>1
          <6>2. Precedes(DatasetCatalog, x)
            BY <6>1, Kinds DEF Documents, Precedes, Rank
          <6>3. QED BY <5>1, <5>2, <6>2
        <5>3. QED BY <5>1, <5>2
      <4>3. DatasetCatalog \in Planned
        BY <1>1, <3>2, <4>1, InFiles
      <4>4. \A a \in Artifacts : files'[a] = Origin[a]
        BY <4>2, <4>3 DEF Artifacts
      <4>5. QED BY <2>1, <2>2, <4>1, <4>4 DEF Undamaged
    <3>3. QED BY <3>1, <3>2
  <2>6. \A a \in Artifacts : Origin'[a] = files'[a]
    BY <1>3 DEF Artifacts
  <2>7. /\ DOMAIN Evidence'.artifacts \subseteq Artifacts
        /\ Dataset' # Absent => DOMAIN Dataset'.artifacts \subseteq Artifacts
    BY <1>2, <2>2
  <2>8. Undamaged(Origin', Evidence') /\ (Dataset' # Absent => Undamaged(Origin', Dataset'))
    BY <2>4, <2>5, <2>6, <2>7 DEF Undamaged
  <2>9. QED BY <1>3, <2>8 DEF CleanInv
<1>10. EvidenceDurableUnlessBuilt'
  BY <1>1 DEF EvidenceDurableUnlessBuilt
<1>11. QED BY <1>2, <1>4, <1>5, <1>6, <1>7, <1>9, <1>10 DEF Safety

LEMMA StopsSafe == Safety /\ (WriteFails \/ RelocationKilled) => Safety'
<1> SUFFICES ASSUME Safety, WriteFails \/ RelocationKilled PROVE Safety'
  OBVIOUS
<1>1. /\ relocation.at # "idle"
      /\ UNCHANGED <<root, files, tracked, listed, approved, build, builds, spoiled, migrating, clean,
                     accepted>>
  BY DEF WriteFails, RelocationKilled, OthersUnchanged
<1>2. /\ DatasetTypeOK /\ FilesTypeOK /\ relocation.written \subseteq Planned
      /\ DOMAIN relocation = {"at", "changes", "written"}
      /\ {migrating, clean, interrupted, accepted} \subseteq BOOLEAN
      /\ \A d \in relocation.written, e \in Planned : Precedes(e, d) => e \in relocation.written
      /\ \A f \in Files : files[f] = IF f \in relocation.written THEN Target[f] ELSE Origin[f]
  BY <1>1, InProgress
<1>3. faults' \in 0..MaxFaults /\ DOMAIN files' = Files
  BY <1>1, <1>2, Constants DEF WriteFails, RelocationKilled, Fault, DatasetTypeOK, FilesTypeOK
<1>4. PICK W \in SUBSET Planned : W = relocation.written
  BY <1>2
<1>5. CASE RelocationKilled
  <2>1. /\ relocation' = NotRunning /\ interrupted' = (interrupted \/ W # {})
    BY <1>4, <1>5 DEF RelocationKilled
  <2>2. interrupted' \in BOOLEAN /\ (interrupted => interrupted') /\ (W # {} => interrupted')
    BY <1>2, <2>1
  <2>3. QED BY <1>1, <1>2, <1>3, <1>4, <2>1, <2>2, StopSafe
<1>6. CASE WriteFails /\ W = {}
  <2>1. relocation' = NotRunning /\ interrupted' = interrupted
    BY <1>4, <1>6 DEF WriteFails
  <2>2. QED BY <1>1, <1>2, <1>3, <1>4, <1>6, <2>1, StopSafe
<1>7. CASE WriteFails /\ W # {}
  <2>1. relocation' = [relocation EXCEPT !.at = "rollback"] /\ interrupted' = interrupted
    BY <1>4, <1>7 DEF WriteFails
  <2>2. /\ DOMAIN relocation' = DOMAIN relocation /\ relocation'.changes = relocation.changes
        /\ relocation'.at = "rollback" /\ relocation'.written = W
    BY <1>2, <1>4, <2>1
  <2>3. QED BY <1>1, <1>2, <1>3, <1>4, <1>7, <2>1, <2>2, StillReplacing
<1>8. QED BY <1>5, <1>6, <1>7

LEMMA RollBackSafe == Safety /\ RollBack => Safety'
<1> SUFFICES ASSUME Safety, RollBack PROVE Safety'
  OBVIOUS
<1>1. /\ relocation.at = "rollback"
      /\ UNCHANGED <<root, tracked, listed, approved, build, builds, spoiled, faults, migrating, clean,
                     interrupted, accepted>>
  BY DEF RollBack, OthersUnchanged
<1>2. /\ DatasetTypeOK /\ FilesTypeOK /\ relocation.written \subseteq Planned
      /\ Planned \subseteq Documents /\ Documents \subseteq Files
      /\ DOMAIN relocation = {"at", "changes", "written"}
      /\ {migrating, clean, interrupted, accepted} \subseteq BOOLEAN
      /\ \A d \in relocation.written, e \in Planned : Precedes(e, d) => e \in relocation.written
      /\ \A f \in Files : /\ files[f] = IF f \in relocation.written THEN Target[f] ELSE Origin[f]
                          /\ f \in Planned => Origin[f] = relocation.changes[f].before
  BY <1>1, InProgress
<1>3. PICK d \in relocation.written :
        /\ \A e \in relocation.written : ~Precedes(d, e)
        /\ files' = [files EXCEPT ![d] = relocation.changes[d].before]
        /\ relocation' = IF relocation.written = {d} THEN NotRunning
                         ELSE [relocation EXCEPT !.written = @ \ {d}]
  BY DEF RollBack
<1>4. PICK W \in SUBSET Planned : W = relocation.written \ {d}
  BY <1>2
<1>5. \A x \in W, e \in Planned : Precedes(e, x) => e \in W
  BY <1>2, <1>3, <1>4
<1>6. /\ DOMAIN files' = Files
      /\ \A f \in Files : files'[f] = IF f \in W THEN Target[f] ELSE Origin[f]
  <2>1. d \in Files /\ d \in Planned /\ DOMAIN files = Files
    BY <1>2 DEF FilesTypeOK
  <2>2. ASSUME NEW f \in Files PROVE files'[f] = IF f \in W THEN Target[f] ELSE Origin[f]
    BY <1>2, <1>3, <1>4, <2>1
  <2>3. QED BY <1>3, <2>1, <2>2
<1>7. faults' \in 0..MaxFaults
  BY <1>1, <1>2 DEF DatasetTypeOK
<1>8. CASE W = {}
  <2>1. relocation' = NotRunning
    BY <1>3, <1>4, <1>8
  <2>2. QED BY <1>1, <1>2, <1>5, <1>6, <1>7, <1>8, <2>1, StopSafe
<1>9. CASE W # {}
  <2>1. relocation' = [relocation EXCEPT !.written = W]
    BY <1>3, <1>4, <1>9
  <2>2. /\ DOMAIN relocation' = DOMAIN relocation /\ relocation'.changes = relocation.changes
        /\ relocation'.at = "rollback" /\ relocation'.written = W
    BY <1>1, <1>2, <2>1
  <2>3. QED BY <1>1, <1>4, <1>5, <1>6, <1>7, <1>9, <2>2, StillReplacing
<1>10. QED BY <1>8, <1>9

\* The last document completes the relocation: every file is as planned.
LEMMA LastDocument ==
  ASSUME Safety, WriteDocument, relocation' = NotRunning
  PROVE  /\ relocation.at # "idle" /\ ~migrating'
         /\ DOMAIN files' = Files /\ \A f \in Files : files'[f] = Target[f]
         /\ UNCHANGED <<root, tracked, listed, approved, build, builds, spoiled, faults, clean,
                        interrupted, accepted>>
<1>1. /\ relocation.at = "write"
      /\ UNCHANGED <<root, tracked, listed, approved, build, builds, spoiled, faults, clean,
                     interrupted, accepted>>
  BY DEF WriteDocument, OthersUnchanged
<1>2. /\ FilesTypeOK /\ relocation.written \subseteq Planned
      /\ DOMAIN relocation = {"at", "changes", "written"}
      /\ Planned \subseteq Documents /\ Documents \subseteq Files
      /\ \A f \in Files : /\ files[f] = IF f \in relocation.written THEN Target[f] ELSE Origin[f]
                          /\ f \notin Planned => Target[f] = files[f]
                          /\ f \in Planned => Target[f] = relocation.changes[f].after
  BY <1>1, InProgress
<1>3. PICK d \in Unwritten :
        /\ files' = [files EXCEPT ![d] = relocation.changes[d].after]
        /\ IF Unwritten = {d}
           THEN migrating' = FALSE /\ relocation' = NotRunning
           ELSE relocation' = [relocation EXCEPT !.written = @ \union {d}] /\ UNCHANGED migrating
  BY DEF WriteDocument
<1>4. Unwritten = {d}
  <2> SUFFICES ASSUME Unwritten # {d} PROVE FALSE
    OBVIOUS
  <2>1. relocation'.at = "write"
    BY <1>1, <1>2, <1>3
  <2>2. QED BY <2>1 DEF NotRunning
<1>5. /\ d \in Planned /\ d \in Files /\ DOMAIN files = Files
      /\ \A f \in Planned : f = d \/ f \in relocation.written
  BY <1>2, <1>4 DEF Unwritten, FilesTypeOK
<1>6. ASSUME NEW f \in Files PROVE files'[f] = Target[f]
  BY <1>2, <1>3, <1>5
<1>7. QED BY <1>1, <1>3, <1>4, <1>5, <1>6

LEMMA WriteDocumentSafe == Safety /\ WriteDocument => Safety'
<1> SUFFICES ASSUME Safety, WriteDocument PROVE Safety'
  OBVIOUS
<1>1. /\ relocation.at = "write"
      /\ UNCHANGED <<root, tracked, listed, approved, build, builds, spoiled, faults, clean,
                     interrupted, accepted>>
  BY DEF WriteDocument, OthersUnchanged
<1>2. /\ migrating /\ root = New /\ build.at = "idle" /\ Relocated
      /\ DatasetTypeOK /\ FilesTypeOK /\ relocation.written \subseteq Planned
      /\ DOMAIN relocation = {"at", "changes", "written"}
      /\ Planned \subseteq Documents /\ Documents \subseteq Files
      /\ {migrating, clean, interrupted, accepted} \subseteq BOOLEAN
      /\ EvidenceSound(Target[EvidenceCatalog])
      /\ \A x \in relocation.written, e \in Planned : Precedes(e, x) => e \in relocation.written
      /\ \A f \in Files : /\ files[f] = IF f \in relocation.written THEN Target[f] ELSE Origin[f]
                          /\ f \in Planned => Target[f] = relocation.changes[f].after
  BY <1>1, InProgress
<1>3. PICK d \in Unwritten :
        /\ \A e \in Unwritten : ~Precedes(e, d)
        /\ files' = [files EXCEPT ![d] = relocation.changes[d].after]
        /\ IF Unwritten = {d}
           THEN migrating' = FALSE /\ relocation' = NotRunning
           ELSE relocation' = [relocation EXCEPT !.written = @ \union {d}] /\ UNCHANGED migrating
  BY DEF WriteDocument
<1>4. faults' \in 0..MaxFaults
  BY <1>1, <1>2 DEF DatasetTypeOK
<1>5. CASE Unwritten = {d}
  <2>1. relocation' = NotRunning /\ ~migrating' /\ migrating' \in BOOLEAN
    BY <1>3, <1>5
  <2>2. DOMAIN files' = Files /\ \A f \in Files : files'[f] = Target[f]
    BY <2>1, LastDocument
  <2>3. PICK W \in SUBSET Planned : W = Planned
    OBVIOUS
  <2>4. \A f \in Files : files'[f] = IF f \in W THEN Target[f] ELSE Origin[f]
    <3>1. \A f \in Files : f \notin Planned => Origin[f] = Target[f]
      BY DEF Origin, Target
    <3>2. QED BY <2>2, <2>3, <3>1
  <2>5. /\ DatasetTypeOK' /\ BuildInv'
        /\ \A catalog \in {Origin[EvidenceCatalog], Target[EvidenceCatalog]} : EvidenceSound(catalog)'
        /\ \A catalog \in {Origin[DatasetCatalog], Target[DatasetCatalog]} : CatalogSound(catalog)'
        /\ CatalogOfOneBuild'
    BY <1>1, <1>4, <2>2, <2>4, MixTyped
  <2>6. Evidence' = Target[EvidenceCatalog] /\ Dataset' = Target[DatasetCatalog]
    BY <2>2, InFiles DEF Evidence, Dataset
  <2>7. /\ Planned' = {}
        /\ \A f \in Files : Origin'[f] = files'[f] /\ Target'[f] = files'[f]
        /\ Origin'[EvidenceCatalog] = Evidence' /\ Target'[EvidenceCatalog] = Evidence'
        /\ Origin'[DatasetCatalog] = Dataset' /\ Target'[DatasetCatalog] = Dataset'
    BY <2>1, AtRestNext
  <2>8. TypeOK'
    BY <1>1, <1>2, <2>1, <2>5, <2>7 DEF TypeOK, NotRunning
  <2>9. RootInv'
    <3>1. \A e \in Events : files'[Collection(e)] = Target[Collection(e)]
      BY <2>2, InFiles
    <3>2. AllAt(files', New)
      BY <1>2, <2>6, <3>1 DEF AllAt, Evidence, Dataset, Relocated
    <3>3. QED BY <1>1, <1>2, <2>1, <3>2 DEF RootInv
  <2>10. SoundInv'
    <3>1. PICK evidence, catalog : evidence = Evidence' /\ catalog = Dataset'
      OBVIOUS
    <3>2. EvidenceSound(evidence)' /\ CatalogSound(catalog)'
      BY <2>5, <2>6, <3>1
    <3>3. EvidenceSound(Origin[EvidenceCatalog])' /\ EvidenceSound(Target[EvidenceCatalog])'
      BY <2>7, <3>1, <3>2 DEF EvidenceSound
    <3>4. CatalogSound(Origin[DatasetCatalog])' /\ CatalogSound(Target[DatasetCatalog])'
      BY <2>7, <3>1, <3>2 DEF CatalogSound
    <3>5. QED BY <3>3, <3>4 DEF SoundInv
  <2>11. ReplaceInv' /\ CleanInv'
    BY <2>1 DEF ReplaceInv, CleanInv, NotRunning
  <2>12. EvidenceVerifies'
    <3>1. Named(Target, Target[EvidenceCatalog])
      BY <1>2 DEF Relocated
    <3>2. DOMAIN Target[EvidenceCatalog].artifacts \subseteq Files
      BY <1>2, NamedArtifacts DEF EvidenceSound, Artifacts
    <3>3. QED BY <2>2, <2>6, <3>1, <3>2 DEF EvidenceVerifies, Matches, Named
  <2>13. QED BY <2>5, <2>8, <2>9, <2>10, <2>11, <2>12 DEF Safety, EvidenceDurableUnlessBuilt
<1>6. CASE Unwritten # {d}
  <2>1. PICK W : W = relocation.written \union {d}
    OBVIOUS
  <2>2. /\ d \in Planned /\ W \subseteq Planned /\ W # Planned
    BY <1>2, <1>6, <2>1 DEF Unwritten
  <2>3. /\ DOMAIN relocation' = DOMAIN relocation /\ relocation'.changes = relocation.changes
        /\ relocation'.at = "write" /\ relocation'.written = W /\ migrating' = migrating
    BY <1>1, <1>2, <1>3, <1>6, <2>1
  <2>4. \A x \in W, e \in Planned : Precedes(e, x) => e \in W
    BY <1>2, <1>3, <2>1 DEF Unwritten
  <2>5. d \in Files /\ DOMAIN files = Files
    BY <1>2, <2>2 DEF FilesTypeOK
  <2>6. ASSUME NEW f \in Files PROVE files'[f] = IF f \in W THEN Target[f] ELSE Origin[f]
    BY <1>2, <1>3, <2>1, <2>2, <2>5
  <2>7. DOMAIN files' = Files
    BY <1>3, <2>5
  <2>8. QED BY <1>1, <1>4, <2>2, <2>3, <2>4, <2>6, <2>7, StillReplacing
<1>7. QED BY <1>5, <1>6

(***************************************************************************)
(* Theorems                                                                *)
(***************************************************************************)
LEMMA NextSafe == Safety /\ [Next]_allVars => Safety'
<1> SUFFICES ASSUME Safety, [Next]_allVars PROVE Safety'
  OBVIOUS
<1>1. CASE ~migrating /\ (Start \/ BuildStep \/ BuildEnds \/ Refresh) /\ UNCHANGED moveVars
  <2>1. CASE BuildStep
    BY <1>1, <2>1, HistorySafe, WritePlanSafe, KeepCollectionSafe, DownloadCollectionSafe,
       ConvertSafe, RecordEventSafe, CombineSafe, WriteCatalogSafe, TrainSafe, CompareSafe,
       AttachSafe, VerifySafe, BuildEndsSafe
       DEF BuildStep
  <2>2. QED BY <1>1, <2>1, StartSafe, BuildEndsSafe, RefreshSafe
<1>2. CASE (EditManifest \/ Forget) /\ UNCHANGED moveVars
  BY <1>2, AsideSafe
<1>3. CASE MoveTree \/ RelocationStep \/ WriteFails \/ RelocationKilled
  BY <1>3, MoveTreeSafe, RelocateSafe, BackupSafe, WriteDocumentSafe, RollBackSafe, StopsSafe
     DEF RelocationStep
<1>4. CASE UNCHANGED allVars
  <2>1. UNCHANGED <<root, files, tracked, listed, approved, build, builds, faults, spoiled,
                    migrating, relocation, clean, interrupted, accepted>>
    BY <1>4 DEF allVars, vars, moveVars
  <2>2. Planned' = Planned /\ Origin' = Origin /\ Target' = Target /\ Evidence' = Evidence /\ Dataset' = Dataset
    BY <2>1 DEF Planned, Origin, Target, Evidence, Dataset
  <2>3. TypeOK'
    BY <2>1, <2>2 DEF Safety, TypeOK, DatasetTypeOK, BuildTypeOK, FilesTypeOK
  <2>4. BuildInv'
    BY <2>1, <2>2 DEF Safety, BuildInv, GatherInv, AssessInv, Manifest, Event, Archive, TensorOf
  <2>5. RootInv' /\ CleanInv' /\ CatalogOfOneBuild' /\ EvidenceDurableUnlessBuilt'
    BY <2>1, <2>2 DEF Safety, RootInv, CleanInv, CatalogOfOneBuild, EvidenceDurableUnlessBuilt,
                      EvidenceVerifies, Matches
  <2>6. SoundInv'
    BY <2>1, <2>2 DEF Safety, SoundInv, EvidenceSound, CatalogSound
  <2>7. ReplaceInv'
    BY <2>1, <2>2 DEF Safety, ReplaceInv, Relocated, Unwritten
  <2>8. QED BY <2>3, <2>4, <2>5, <2>6, <2>7 DEF Safety
<1>5. QED BY <1>1, <1>2, <1>3, <1>4 DEF Next

\* In every reachable state, for any events, manifests, failures, edits, discovery runs and
\* relocations: the files, the build and the relocation are well formed, the unraced dataset
\* catalog is the work of one build, what a running build has made and recorded is still
\* there, the documents of a running relocation are replaced in order, and the evidence
\* catalog verifies unless a build has overwritten a candidate.
THEOREM DatasetIsSafe == Spec => []Safety
<1>1. RelocationInit => Safety
  BY InitSafe
<1>2. Safety /\ [Next]_allVars => Safety'
  BY NextSafe
<1>3. QED BY <1>1, <1>2, PTL DEF Spec

\* While the writers may run, the evidence catalog verifies, unless a build has overwritten
\* the files of a candidate since discovery last saved it.
THEOREM EvidenceIsDurable == Spec => []EvidenceDurableUnlessBuilt
<1>1. Safety => EvidenceDurableUnlessBuilt
  BY DEF Safety
<1>2. QED BY <1>1, DatasetIsSafe, PTL

LEMMA Resumes == Safety => RelocationResumes
<1> SUFFICES ASSUME Safety, migrating, clean, relocation.at = "idle",
                    Dataset # Absent => tracked = Dataset.manifest
             PROVE  Preflight(FALSE)
  BY DEF RelocationResumes
<1>1. FilesTypeOK /\ relocation = NotRunning /\ EvidenceTyped(Evidence)
      /\ (Dataset # Absent => CatalogTyped(Dataset))
      /\ DOMAIN Evidence.artifacts \subseteq Artifacts
      /\ (Dataset # Absent => DOMAIN Dataset.artifacts \subseteq Artifacts)
  BY Moved, NamedArtifacts DEF FilesTypeOK
<1>2. Undamaged(files, Evidence) /\ (Dataset # Absent => Undamaged(files, Dataset))
  <2>1. /\ Undamaged(Origin, Origin[EvidenceCatalog])
        /\ Origin[DatasetCatalog] # Absent => Undamaged(Origin, Origin[DatasetCatalog])
    BY DEF Safety, CleanInv
  <2>2. Undamaged(Origin, Evidence) /\ (Dataset # Absent => Undamaged(Origin, Dataset))
    BY <1>1, <2>1, AtRest
  <2>3. \A a \in Artifacts : Origin[a] = files[a]
    BY <1>1, AtRest DEF Artifacts
  <2>4. QED BY <1>1, <2>2, <2>3 DEF Undamaged
<1>3. ASSUME NEW catalog, Undamaged(files, catalog), DOMAIN catalog.artifacts \subseteq Artifacts
      PROVE  /\ ArtifactErrors(catalog, FALSE) = {}
             /\ \A a \in DOMAIN catalog.artifacts : Staged[a] # Absent
  <2>1. ASSUME NEW a \in DOMAIN catalog.artifacts
        PROVE  /\ files[a] # Absent /\ Staged[a] # Absent
               /\ Staged[a] = catalog.artifacts[a] \/ a \in ChangedCollections
    <3>1. /\ a \in Files /\ files[a] # Absent
          /\ \/ files[a] = catalog.artifacts[a]
             \/ a \in {Collection(e) : e \in Events} /\ files[a].root = Old
      BY <1>3 DEF Undamaged, Artifacts
    <3>2. CASE a \in ChangedCollections
      BY <1>1, <3>1, <3>2, StagedFiles DEF ChangedCollections
    <3>3. CASE a \notin ChangedCollections
      <4>1. Staged[a] = files[a]
        BY <1>1, <3>1, <3>3, StagedFiles
      <4>2. files[a] = catalog.artifacts[a]
        BY <3>1, <3>3 DEF ChangedCollections
      <4>3. QED BY <3>1, <4>1, <4>2
    <3>4. QED BY <3>1, <3>2, <3>3
  <2>2. QED BY <2>1 DEF ArtifactErrors
<1>4. ASSUME Dataset # Absent PROVE StagedReport.ok
  <2>1. PICK staged : staged = StagedCatalog(Dataset)
    OBVIOUS
  <2>2. /\ staged.manifest = Dataset.manifest /\ DOMAIN staged.artifacts = DOMAIN Dataset.artifacts
        /\ \A a \in DOMAIN Dataset.artifacts : staged.artifacts[a] = Staged[a]
    BY <1>1, <1>4, <2>1, StagedCatalogs
  <2>3. \A a \in DOMAIN staged.artifacts : Staged[a] # Absent /\ Staged[a] = staged.artifacts[a]
    BY <1>1, <1>2, <1>3, <1>4, <2>2
  <2>4. tracked = staged.manifest
    BY <1>4, <2>2
  <2>5. QED BY <2>1, <2>3, <2>4 DEF StagedReport, ReportOn
<1>5. ArtifactErrors(Evidence, FALSE) = {} /\ (Dataset # Absent => ArtifactErrors(Dataset, FALSE) = {})
  BY <1>1, <1>2, <1>3
<1>6. QED BY <1>4, <1>5 DEF Preflight, DatasetChanges

\* A relocation whose preflight would have passed right after the move can be run again after
\* it has failed, been rolled back or been killed between any two documents: what it has
\* written itself is never taken for damage.
THEOREM RelocationsResume == Spec => []RelocationResumes
BY Resumes, DatasetIsSafe, PTL

(***************************************************************************)
(* What a relocation that succeeds has done                                *)
(***************************************************************************)
LEMMA SuccessTogether ==
  ASSUME NEW disk, NEW first, AllAt(disk, New), Named(disk, disk[EvidenceCatalog]),
         disk[DatasetCatalog] # Absent =>
           /\ Named(disk, disk[DatasetCatalog])
           /\ first => disk[Verification] = [catalog |-> disk[DatasetCatalog], ok |-> TRUE],
         EvidenceTyped(disk[EvidenceCatalog]),
         disk[DatasetCatalog] # Absent => CatalogTyped(disk[DatasetCatalog]),
         \A f \in Files : files'[f] = disk[f]
  PROVE  /\ \A e \in Events : files'[Collection(e)] # Absent => files'[Collection(e)].root = New
         /\ Evidence'.root = New /\ EvidenceVerifies'
         /\ Dataset' # Absent =>
              /\ Dataset'.root = New /\ Matches(Dataset)'
              /\ first => files'[Verification] = [catalog |-> Dataset', ok |-> TRUE]
<1>1. /\ Evidence' = disk[EvidenceCatalog] /\ Dataset' = disk[DatasetCatalog]
      /\ files'[Verification] = disk[Verification]
      /\ \A e \in Events : files'[Collection(e)] = disk[Collection(e)]
  BY InFiles DEF Evidence, Dataset
<1>2. ASSUME NEW catalog, Named(disk, catalog), DOMAIN catalog.artifacts \subseteq Artifacts
      PROVE  \A a \in DOMAIN catalog.artifacts : files'[a] = catalog.artifacts[a]
  BY <1>2 DEF Named, Artifacts
<1>3. EvidenceVerifies'
  <2>1. DOMAIN disk[EvidenceCatalog].artifacts \subseteq Artifacts
    BY NamedArtifacts
  <2>2. \A a \in DOMAIN Evidence'.artifacts : files'[a] = Evidence'.artifacts[a]
    BY <1>1, <1>2, <2>1
  <2>3. QED BY <2>2 DEF EvidenceVerifies, Matches
<1>4. ASSUME Dataset' # Absent PROVE Matches(Dataset)'
  <2>1. DOMAIN disk[DatasetCatalog].artifacts \subseteq Artifacts /\ Named(disk, disk[DatasetCatalog])
    BY <1>1, <1>4, NamedArtifacts
  <2>2. \A a \in DOMAIN Dataset'.artifacts : files'[a] = Dataset'.artifacts[a]
    BY <1>1, <1>2, <2>1
  <2>3. QED BY <2>2 DEF Matches
<1>5. QED BY <1>1, <1>3, <1>4 DEF AllAt

LEMMA RelocateTogether ==
  ASSUME Safety, Relocate, ~migrating'
  PROVE  /\ \A e \in Events : files'[Collection(e)] # Absent => files'[Collection(e)].root = New
         /\ Evidence'.root = New /\ EvidenceVerifies'
         /\ Dataset' # Absent =>
              /\ Dataset'.root = New /\ Matches(Dataset)'
              /\ ~interrupted => files'[Verification] = [catalog |-> Dataset', ok |-> TRUE]
<1>1. migrating /\ relocation.at = "idle" /\ files' = files
  BY DEF Relocate
<1>2. FilesTypeOK /\ (~interrupted => AllAt(files, Old))
  BY <1>1, Moved
<1>3. PICK refresh \in BOOLEAN : Preflight(refresh)
  BY DEF Relocate
<1>4. PICK target : target = [f \in Files |-> IF f \in Documents THEN After(f) ELSE files[f]]
  OBVIOUS
<1>5. /\ AllAt(target, New) /\ Named(target, target[EvidenceCatalog])
      /\ EvidenceTyped(target[EvidenceCatalog])
      /\ target[DatasetCatalog] # Absent =>
           /\ Dataset # Absent /\ CatalogTyped(target[DatasetCatalog])
           /\ Named(target, target[DatasetCatalog])
           /\ Dataset.root = Old =>
                target[Verification] = [catalog |-> target[DatasetCatalog], ok |-> TRUE]
  BY <1>2, <1>3, <1>4, PlanAgrees
<1>6. \A d \in Documents : After(d) = files[d]
  <2>1. DOMAIN Changes = {}
    BY <1>1 DEF Relocate
  <2>2. QED BY <2>1 DEF Changes
<1>7. \A f \in Files : files'[f] = target[f]
  BY <1>1, <1>4, <1>6
<1>8. ~interrupted /\ Dataset # Absent => Dataset.root = Old
  BY <1>2 DEF AllAt, Dataset
<1>9. PICK first \in BOOLEAN : first = ~interrupted
  OBVIOUS
<1>10. target[DatasetCatalog] # Absent /\ first =>
         target[Verification] = [catalog |-> target[DatasetCatalog], ok |-> TRUE]
  BY <1>5, <1>8, <1>9
<1>11. QED BY <1>5, <1>7, <1>9, <1>10, SuccessTogether

LEMMA LastDocumentTogether ==
  ASSUME Safety, WriteDocument, ~migrating'
  PROVE  /\ \A e \in Events : files'[Collection(e)] # Absent => files'[Collection(e)].root = New
         /\ Evidence'.root = New /\ EvidenceVerifies'
         /\ Dataset' # Absent =>
              /\ Dataset'.root = New /\ Matches(Dataset)'
              /\ ~interrupted => files'[Verification] = [catalog |-> Dataset', ok |-> TRUE]
<1>1. relocation.at # "idle"
  BY DEF WriteDocument
<1>2. /\ migrating /\ Relocated /\ (~interrupted => AllAt(Origin, Old))
      /\ EvidenceTyped(Target[EvidenceCatalog])
      /\ Target[DatasetCatalog] # Absent => CatalogTyped(Target[DatasetCatalog])
  BY <1>1, InProgress DEF EvidenceSound, CatalogSound
<1>3. relocation' = NotRunning
  BY <1>2 DEF WriteDocument
<1>4. \A f \in Files : files'[f] = Target[f]
  BY <1>3, LastDocument
<1>5. PICK first \in BOOLEAN : first = ~interrupted
  OBVIOUS
<1>6. Target[DatasetCatalog] # Absent /\ first =>
        Target[Verification] = [catalog |-> Target[DatasetCatalog], ok |-> TRUE]
  BY <1>2, <1>5 DEF Relocated, AllAt
<1>7. QED BY <1>2, <1>4, <1>5, <1>6, SuccessTogether DEF Relocated

\* When the command succeeds, after whatever attempts, the collections, both catalogs and
\* their checksums agree at the new root, and so does the verification report unless an
\* attempt was killed between two documents.
THEOREM RelocatesTogether == Spec => RelocatedTogether
<1>1. ASSUME Safety, [Next]_allVars, migrating, ~migrating'
      PROVE  /\ \A e \in Events : files'[Collection(e)] # Absent => files'[Collection(e)].root = New
             /\ Evidence'.root = New /\ EvidenceVerifies'
             /\ Dataset' # Absent =>
                  /\ Dataset'.root = New /\ Matches(Dataset)'
                  /\ ~interrupted => files'[Verification] = [catalog |-> Dataset', ok |-> TRUE]
  <2>1. Relocate \/ WriteDocument
    BY <1>1 DEF Next, RelocationStep, MoveTree, Backup, RollBack, WriteFails, RelocationKilled,
                moveVars, allVars
  <2>2. QED BY <1>1, <2>1, RelocateTogether, LastDocumentTogether
<1>2. Safety /\ [Next]_allVars =>
        [migrating /\ ~migrating' =>
           /\ \A e \in Events : files'[Collection(e)] # Absent => files'[Collection(e)].root = New
           /\ Evidence'.root = New /\ EvidenceVerifies'
           /\ Dataset' # Absent =>
                /\ Dataset'.root = New /\ Matches(Dataset)'
                /\ ~interrupted => files'[Verification] = [catalog |-> Dataset', ok |-> TRUE]]_allVars
  BY <1>1
<1>3. QED BY <1>2, DatasetIsSafe, PTL DEF Spec, RelocatedTogether
=============================================================================
