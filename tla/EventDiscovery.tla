--------------------------- MODULE EventDiscovery ---------------------------
(***************************************************************************)
(* The event evidence catalog: discovery runs that scan the radar history  *)
(* of the Central Weather Administration for frames above the threshold,   *)
(* group them into candidates and preserve the frames of their windows     *)
(* (pipelines/event_discovery*.py), and the human review of a candidate    *)
(* (pipelines/event_review.py).                                            *)
(*                                                                         *)
(* Both hold one flock, so no two of them overlap, and both replace the    *)
(* catalog atomically at their end; a run has rewritten the plan, the      *)
(* collection, the frames and the evidence of its candidates before that.  *)
(* Times are counted in cadences, a file is its content: a plan and a      *)
(* collection the times of their frames, so that equal contents stand for  *)
(* equal checksums.  A candidate is known by its first trigger, and its    *)
(* three evidence sources of one time stand as one: ok when all are.       *)
(***************************************************************************)
EXTENDS Integers, Sequences

CONSTANTS
  MaxTime,    \* bound: the last frame of the source
  Storms,     \* bound: the sets of frames tried as above the threshold
  Retained,   \* how long the history index lists a frame
  Lookback,   \* initial_lookback_minutes
  MergeGap,   \* merge_gap_minutes
  Before,     \* before_minutes
  After,      \* after_minutes
  MaxWindow,  \* max_candidate_window_minutes
  Alignment,  \* evidence_max_alignment_minutes
  MaxFaults,  \* bound: failures of the source, of runs and of files
  Absent,     \* no such file
  Damaged     \* a file whose checksum is not the catalog's

Times == 0..MaxTime

ASSUME DiscoveryAssumption ==
  /\ {MaxTime, Retained, Lookback, MergeGap, Before, After} \subseteq Nat \ {0}
  /\ MaxWindow \in Nat /\ MaxWindow >= Before + After
  /\ MaxTime \in Nat /\ Alignment \in Nat /\ MaxFaults \in Nat
  /\ Absent # Damaged /\ \A times \in SUBSET Times : times \notin {Absent, Damaged}
  /\ {"frame", "context", "ok", "stale"} \intersect {Absent, Damaged} = {}
  /\ Storms \subseteq SUBSET (Before..(MaxTime - After))

VARIABLES
  storm,      \* the frames with candidate_trigger_label, every window in Times
  now,        \* the time of the latest frame
  published,  \* the frames the source has ever listed
  catalog,    \* event_evidence_catalog.json: the cursor and the candidates
  files,      \* of each candidate: plan, collection, frames and evidence
  run,        \* the discovery run: where it is, its history index, its candidates,
              \* the one it is at and the frames collected for it
  faults,     \* how many of each kind
  missed      \* history: frames that left the index, or lay before the first
              \* lookback, and that no run has scanned

vars == <<storm, now, published, catalog, files, run, faults, missed>>

NoTime == -1
History == {t \in published : t > now - Retained}

Earliest(times) == CHOOSE t \in times : \A u \in times : t <= u
Latest(times) == CHOOSE t \in times : \A u \in times : u <= t
FirstTrigger(c) == Earliest(c.triggers)
LastTrigger(c) == Latest(c.triggers)

\* expected_data_times
Window(c) == (FirstTrigger(c) - Before)..(LastTrigger(c) + After)
Complete(c) == Window(c) \subseteq c.frames

Content == (SUBSET Times) \union {Absent}
Capture == {"none", "ok", "stale", "error"}
FaultKinds == {"source", "abort", "evidence", "damage"}
NoFiles == [plan |-> Absent, collection |-> Absent, context |-> Absent,
            frames |-> [t \in Times |-> Absent], evidence |-> [t \in Times |-> Absent]]
NewCandidate(t) ==
  [triggers |-> {t}, plan |-> Absent, collection |-> Absent, frames |-> {},
   evidence |-> [u \in Times |-> "none"], review |-> "pending",
   context |-> FALSE]
Idle == [at |-> "idle", history |-> {}, cursor |-> NoTime, triggers |-> {}, work |-> <<>>,
         i |-> 0, collected |-> {}]

Candidate == [triggers : (SUBSET Times) \ {{}}, plan : Content, collection : Content,
              frames : SUBSET Times, evidence : [Times -> Capture],
              review : {"pending", "approved", "rejected"}, context : BOOLEAN]
Files == [plan : Content, collection : Content \union {Damaged},
          context : {"context", Absent, Damaged},
          frames : [Times -> {"frame", Absent, Damaged}],
          evidence : [Times -> {"ok", "stale", Absent, Damaged}]]

Runs == [at : {"idle", "scan", "plan", "validate", "download", "collect", "capture", "publish"},
         history : SUBSET Times, cursor : Times \union {NoTime}, triggers : SUBSET Times,
         work : Seq(Candidate), i : Nat, collected : SUBSET Times]

TypeOK ==
  /\ storm \in Storms /\ published \subseteq 0..now /\ missed \subseteq published
  /\ now \in Times
  /\ catalog \in [cursor : Times \union {NoTime}, candidates : Seq(Candidate)]
  /\ files \in [Times -> Files]
  /\ run \in Runs
  /\ faults \in [FaultKinds -> 0..MaxFaults]

Init ==
  /\ storm \in Storms
  /\ now = 0 /\ published = {0}
  /\ catalog = [cursor |-> NoTime, candidates |-> <<>>]
  /\ files = [t \in Times |-> NoFiles]
  /\ run = Idle
  /\ faults = [k \in FaultKinds |-> 0]
  /\ missed = {}

Happened == faults["source"] + faults["abort"] + faults["evidence"] + faults["damage"]
Fault(kind) == Happened < MaxFaults /\ faults' = [faults EXCEPT ![kind] = @ + 1]

(***************************************************************************)
(* The source                                                              *)
(***************************************************************************)
\* The next frame, or a gap.  Between runs: a frame that leaves the index while
\* one is running fails to download, which is Abort.
Publish ==
  /\ run.at = "idle" /\ now < MaxTime
  /\ now' = now + 1
  /\ \/ published' = published \union {now + 1} /\ UNCHANGED faults
     \/ Fault("source") /\ UNCHANGED published
  /\ missed' = missed \union {t \in published : t = now + 1 - Retained /\ t > catalog.cursor}
  /\ UNCHANGED <<storm, catalog, files, run>>

\* A file of a catalogued candidate is damaged.
Damage ==
  /\ run.at = "idle" /\ Fault("damage")
  /\ \E i \in DOMAIN catalog.candidates :
       LET c == catalog.candidates[i] IN
         \/ files' = [files EXCEPT ![FirstTrigger(c)].collection = Damaged]
         \/ c.context /\ files' = [files EXCEPT ![FirstTrigger(c)].context = Damaged]
         \/ \E t \in c.frames : files' = [files EXCEPT ![FirstTrigger(c)].frames[t] = Damaged]
         \/ \E t \in Times :
              /\ c.evidence[t] \in {"ok", "stale"}
              /\ files' = [files EXCEPT ![FirstTrigger(c)].evidence[t] = Damaged]
  /\ UNCHANGED <<storm, now, published, catalog, run, missed>>

(***************************************************************************)
(* Triggers                                                                *)
(***************************************************************************)
\* Mutant: the window is measured from its first trigger.
FitsWithoutBefore(c, t) ==
  /\ c.review = "pending"
  /\ t - LastTrigger(c) \in 1..MergeGap
  /\ (t + After) - FirstTrigger(c) <= MaxWindow

\* Mutant: a reviewed candidate is extended.
FitsReviewed(c, t) ==
  /\ t - LastTrigger(c) \in 1..MergeGap
  /\ (t + After) - (FirstTrigger(c) - Before) <= MaxWindow

\* A trigger extends a pending candidate that ends close enough before it and
\* stays short enough.
Fits(c, t) ==
  /\ c.review = "pending"
  /\ t - LastTrigger(c) \in 1..MergeGap
  /\ (t + After) - (FirstTrigger(c) - Before) <= MaxWindow

\* One turn of apply_trigger_metrics: the latest candidate it fits, or a new one.
AddTrigger(candidates, t) ==
  LET fitting == {i \in DOMAIN candidates : Fits(candidates[i], t)} IN
    IF \E i \in DOMAIN candidates : t \in candidates[i].triggers THEN candidates
    ELSE IF fitting = {} THEN Append(candidates, NewCandidate(t))
    ELSE [candidates EXCEPT ![Latest(fitting)].triggers = @ \union {t}]

\* scan_files
Scanned ==
  {t \in History : IF catalog.cursor # NoTime THEN t > catalog.cursor
                   ELSE t >= Latest(History) - Lookback}

(***************************************************************************)
(* The artifacts of the catalog                                            *)
(***************************************************************************)
EvidenceMatches(c, disk, t) ==
  c.evidence[t] \in {"ok", "stale"} => disk.evidence[t] = c.evidence[t]

\* verify_event_evidence_catalog; a file of another content has another checksum
Verified(candidates) ==
  \A i \in DOMAIN candidates :
    LET c == candidates[i] disk == files[FirstTrigger(c)] IN
      /\ c.plan # Absent => disk.plan = c.plan
      /\ c.collection # Absent => disk.collection = c.collection
      /\ c.context => disk.context = "context"
      /\ \A t \in c.frames : disk.frames[t] = "frame"
      /\ \A t \in Times : EvidenceMatches(c, disk, t)

\* EventReviewRecord.validate_review
ReviewBacked(c) == c.review = "approved" => c.context

\* EventCandidate.validate_candidate, which every load of the catalog runs
Valid(c) ==
  /\ c.review # "pending" => Complete(c)
  /\ ReviewBacked(c)
  /\ c.review = "approved" => \E t \in Times : c.evidence[t] = "ok"
ValidAll(candidates) == \A i \in DOMAIN candidates : Valid(candidates[i])
Loadable == ValidAll(catalog.candidates)

(***************************************************************************)
(* run_event_discovery                                                     *)
(***************************************************************************)
World == UNCHANGED <<storm, now, published>>
Subject == run.work[run.i]
Disk == files[FirstTrigger(Subject)]
Current == run.history \intersect Window(Subject)

\* The catalog, the history index and the scanned frames.
Begin ==
  /\ run.at = "idle" /\ Loadable
  /\ run' = [at |-> "scan", history |-> History,
             cursor |-> IF Scanned = {} THEN catalog.cursor ELSE Latest(Scanned),
             triggers |-> Scanned \intersect storm, work |-> catalog.candidates, i |-> 1,
             collected |-> {}]
  /\ World /\ UNCHANGED <<catalog, files, faults, missed>>

\* apply_trigger_metrics, one trigger after the other.  Any failure up to here leaves
\* nothing behind.
Scan ==
  /\ run.at = "scan"
  /\ LET t == Earliest(run.triggers) IN
       run' = IF run.triggers = {}
              THEN [run EXCEPT !.at = IF run.work = <<>> THEN "publish" ELSE "plan"]
              ELSE [run EXCEPT !.work = AddTrigger(@, t), !.triggers = @ \ {t}]
  /\ World /\ UNCHANGED <<catalog, files, faults, missed>>

\* _mark_corrupt_evidence: evidence that is not what the catalog names is an error.
Corrupt(c) == {t \in Times : ~EvidenceMatches(c, Disk, t)}

\* The frames of the plan on disk stay in it, unless it is not the one the catalog
\* names.
MergedPlan(c) ==
  Current \union
    IF Disk.plan = Absent \/ (c.plan # Absent /\ Disk.plan # c.plan) THEN {} ELSE Disk.plan

\* The evidence is looked at, and the plan written.
WritePlan ==
  /\ run.at = "plan"
  /\ LET c == Subject corrupt == Corrupt(c) IN
       /\ files' = [files EXCEPT
            ![FirstTrigger(c)].plan = MergedPlan(c),
            ![FirstTrigger(c)].evidence = [t \in Times |-> IF t \in corrupt THEN Absent ELSE @[t]]]
       /\ run' = [run EXCEPT
            !.at = "validate",
            !.work[run.i].evidence = [t \in Times |-> IF t \in corrupt THEN "error" ELSE @[t]]]
  /\ World /\ UNCHANGED <<catalog, faults, missed>>

\* Mutant: what earlier runs have collected is not read.
ForgetFrames ==
  /\ run.at = "validate"
  /\ run' = [run EXCEPT !.at = "download", !.collected = {}]
  /\ World /\ UNCHANGED <<catalog, files, faults, missed>>

\* _valid_previous_frames: frames and a collection that the catalog does not vouch
\* for are unlinked, and without a collection no frame counts.
ValidateFrames ==
  /\ run.at = "validate"
  /\ LET c == Subject
         vouched == c.collection # Absent /\ Disk.collection = c.collection
         intact == {t \in c.frames : Disk.frames[t] = "frame"} IN
       /\ files' = [files EXCEPT
            ![FirstTrigger(c)].collection =
              IF c.collection # Absent /\ ~vouched THEN Absent ELSE @,
            ![FirstTrigger(c)].frames =
              [t \in Times |-> IF t \in c.frames \ intact THEN Absent ELSE @[t]]]
       /\ run' = [run EXCEPT !.at = "download",
                             !.collected = IF vouched THEN c.collection \intersect intact ELSE {}]
  /\ World /\ UNCHANGED <<catalog, faults, missed>>

Fetch(times) ==
  files' = [files EXCEPT ![FirstTrigger(Subject)].frames =
              [t \in Times |-> IF t \in times /\ @[t] = Absent THEN "frame" ELSE @[t]]]

\* _extended_collection: what earlier runs have collected, and the frames of now.
Extended == run.collected \union Current

\* download_event_frames with skip_existing.
Download ==
  /\ run.at = "download"
  /\ Fetch(Current)
  /\ run' = [run EXCEPT !.at = "collect", !.collected = Extended]
  /\ World /\ UNCHANGED <<catalog, faults, missed>>

\* A frame cannot be had: the run fails, the frames of the other workers stay.
DownloadFails ==
  /\ run.at = "download" /\ Current # {} /\ Fault("abort")
  /\ \E times \in SUBSET Current : times # Current /\ Fetch(times)
  /\ run' = Idle
  /\ World /\ UNCHANGED <<catalog, missed>>

\* The collection, and the candidate with its artifacts.
WriteCollection ==
  /\ run.at = "collect"
  /\ LET c == Subject collected == run.collected IN
       /\ files' = IF collected = {} THEN files
                   ELSE [files EXCEPT ![FirstTrigger(c)].collection = collected]
       /\ run' = [run EXCEPT !.at = "capture",
            !.work[run.i].plan = Disk.plan,
            !.work[run.i].collection = IF collected = {} THEN Absent ELSE collected,
            !.work[run.i].frames = collected \intersect Window(c)]
  /\ World /\ UNCHANGED <<catalog, faults, missed>>

\* retry_targets
Targets ==
  LET c == Subject IN
    {t \in Times : c.evidence[t] = "error"}
      \union (IF c.evidence[LastTrigger(c)] = "none" THEN {LastTrigger(c)} ELSE {})

\* Present evidence is what the sources say now, so late evidence is stale.
Collected(t) ==
  IF Disk.evidence[t] # Absent THEN Disk.evidence[t]
  ELSE IF now - t <= Alignment THEN "ok" ELSE "stale"

\* _capture_evidence of every target: a file that is there is used, a source that
\* fails leaves an error.
CaptureEvidence ==
  /\ run.at = "capture"
  /\ \E failed \in SUBSET {t \in Targets : Disk.evidence[t] = Absent} :
       /\ IF failed = {} THEN UNCHANGED faults ELSE Fault("evidence")
       /\ files' = [files EXCEPT ![FirstTrigger(Subject)].evidence =
            [t \in Times |-> IF t \in Targets \ failed THEN Collected(t) ELSE @[t]]]
       /\ run' = [run EXCEPT
            !.at = IF run.i < Len(run.work) THEN "plan" ELSE "publish",
            !.i = IF run.i < Len(run.work) THEN @ + 1 ELSE @,
            !.collected = {},
            !.work[run.i].evidence =
              [t \in Times |-> IF t \in failed THEN "error"
                               ELSE IF t \in Targets THEN Collected(t) ELSE @[t]]]
  /\ World /\ UNCHANGED <<catalog, missed>>

\* The last lines of the run: what the catalog would say is verified, and if it
\* says anything new every candidate is validated.
Publishable ==
  /\ Verified(run.work)
  /\ catalog # [cursor |-> run.cursor, candidates |-> run.work] => ValidAll(run.work)

PublishWork ==
  /\ catalog' = [cursor |-> run.cursor, candidates |-> run.work]
  /\ missed' = missed \union
       IF catalog.cursor # NoTime \/ run.cursor = NoTime THEN {}
       ELSE {t \in run.history : t < run.cursor - Lookback}
  /\ run' = Idle
  /\ World /\ UNCHANGED <<files, faults>>

WriteCatalog ==
  run.at = "publish" /\ Publishable /\ PublishWork

\* The run raises: what it has done to the files stays, the catalog does not know.
WriteCatalogFails ==
  /\ run.at = "publish" /\ ~Publishable
  /\ run' = Idle
  /\ World /\ UNCHANGED <<catalog, files, faults, missed>>

\* The run is killed or raises.
Abort ==
  /\ run.at # "idle" /\ Fault("abort")
  /\ run' = Idle
  /\ World /\ UNCHANGED <<catalog, files, missed>>

(***************************************************************************)
(* review_event_candidate                                                  *)
(***************************************************************************)
\* An approval comes with a readable context file, a rejection may come with one.
Contexts(decision) == IF decision = "approved" THEN {TRUE} ELSE BOOLEAN

\* _persist_official_context: a context file has a name of its contents, and is
\* written over one that is damaged.
Persisted(c, given) ==
  IF given THEN [files EXCEPT ![FirstTrigger(c)].context = "context"] ELSE files

\* A review of a candidate that has one already is refused, or is the same review.
\* One that does not validate leaves its context behind; the verification after it
\* only adds the context just written.
Review(i, decision, given) ==
  LET c == catalog.candidates[i]
      reviewed == [c EXCEPT !.review = decision, !.context = given] IN
    /\ run.at = "idle" /\ Loadable /\ Verified(catalog.candidates)
    /\ c.review = "pending" /\ Complete(c)
    /\ given \in Contexts(decision)
    /\ files' = Persisted(c, given)
    /\ catalog' = IF Valid(reviewed) THEN [catalog EXCEPT !.candidates[i] = reviewed]
                  ELSE catalog
    /\ UNCHANGED <<storm, now, published, run, faults, missed>>

Discover ==
  \/ Begin \/ Scan \/ WritePlan \/ ValidateFrames \/ Download
  \/ WriteCollection \/ CaptureEvidence \/ WriteCatalog \/ WriteCatalogFails

Next ==
  \/ Publish \/ Damage \/ Discover \/ DownloadFails \/ Abort
  \/ \E i \in DOMAIN catalog.candidates, decision \in {"approved", "rejected"},
        given \in BOOLEAN : Review(i, decision, given)

Spec == Init /\ [][Next]_vars

\* The timer starts discovery again and again, and a run goes on until it ends.
FairSpec == Spec /\ WF_vars(Discover)

(***************************************************************************)
(* Properties                                                              *)
(***************************************************************************)
\* "one candidate can contain at most" MaxWindow, "a qualifying frame that would
\* exceed the limit starts a new candidate": windows are short enough, triggers of
\* one candidate close enough, and two triggers that close are in different
\* candidates only where the limit or a review stands between them.
Merged(candidates) ==
  \A i \in DOMAIN candidates :
    LET c == candidates[i] IN
      /\ LastTrigger(c) + After - (FirstTrigger(c) - Before) <= MaxWindow
      /\ \A t \in c.triggers \ {FirstTrigger(c)} : \E u \in c.triggers : t - u \in 1..MergeGap
      /\ \A j \in DOMAIN candidates \ {i} :
           LET d == candidates[j] IN
             /\ c.triggers \intersect d.triggers = {}
             /\ FirstTrigger(d) - LastTrigger(c) \in 1..MergeGap =>
                  \/ c.review # "pending"
                  \/ FirstTrigger(d) + After - (FirstTrigger(c) - Before) > MaxWindow
MergedAsConfigured == Merged(catalog.candidates)

\* Every frame of a storm that the cursor has passed has triggered a candidate,
\* whatever failed before, unless it left the index before any run could read it.
StormCounted ==
  \A t \in storm \intersect published :
    t <= catalog.cursor /\ t \notin missed =>
      \E i \in DOMAIN catalog.candidates : t \in catalog.candidates[i].triggers

FramesStay ==
  \A i \in DOMAIN catalog.candidates :
    catalog.candidates[i].frames \subseteq catalog'.candidates[i].frames

\* "Candidate frames, event plans, collection manifests ... are durable",
\* "Interrupted downloads resume from complete atomic files": no interrupted run
\* makes a later one give up a frame that is on disk as the catalog says.  It does
\* not hold (README, section 4).
FramesDurable == [][faults["damage"] = 0 => FramesStay]_vars

\* As long as no run is interrupted and no file damaged, a catalogued frame stays
\* catalogued, although the index forgets it and the window is extended.
FramesKeptUnlessAborted ==
  [][faults["abort"] = 0 /\ faults["damage"] = 0 => FramesStay]_vars

\* A reviewed candidate keeps its decision, the context it rests on and its window,
\* and no later trigger changes it.
ReviewFinal ==
  [][\A i \in DOMAIN catalog.candidates :
       LET c == catalog.candidates[i] d == catalog'.candidates[i] IN
         c.review # "pending" => /\ d.review = c.review /\ d.context = c.context
                                  /\ d.triggers = c.triggers]_vars

\* A catalog on disk can always be read again, by the next run, the review and the
\* queue, whatever was interrupted, refused or damaged before.
CatalogLoads == Loadable

\* A run that comes to its end saves what it has found as long as no file was
\* damaged: what interrupted runs and failing sources leave behind never makes a
\* later catalog unverifiable or a reviewed candidate invalid.
PublishesUnlessDamaged == run.at = "publish" /\ faults["damage"] = 0 => Publishable

\* "A reviewed candidate may be temporarily invalid while its corrupt evidence is
\* retried": a later run finds it valid again.  It does not hold under FairSpec
\* (README, section 4).
InvalidOnlyTemporarily ==
  run.at = "publish" /\ ~ValidAll(run.work) ~> run.at = "publish" /\ ValidAll(run.work)

(***************************************************************************)
(* The inductive invariant                                                 *)
(***************************************************************************)
\* What a candidate of the run was when the run began, and how far the run is with it.
Original(i) == IF i \in DOMAIN catalog.candidates THEN catalog.candidates[i]
             ELSE NewCandidate(FirstTrigger(run.work[i]))
Running == run.at # "idle"
Gathering == run.at \in {"download", "collect"}
Planned(i) == i < run.i \/ (i = run.i /\ run.at \notin {"scan", "plan"})
Written(i) == i < run.i \/ (i = run.i /\ run.at \in {"capture", "publish"})

\* A candidate has the frames of its collection, and these are of its window.
Collects(c) ==
  /\ c.frames \subseteq Window(c)
  /\ c.collection = IF c.frames = {} THEN Absent ELSE c.frames

\* Where a run is: the triggers before the candidates, the candidates one by one.
RunInv ==
  /\ run.at = "scan" => run.i = 1
  /\ run.at \in {"plan", "validate", "download", "collect", "capture"} => run.i \in DOMAIN run.work
  /\ run.at = "publish" => Len(run.work) <= run.i
  /\ Running => /\ run.history = History /\ catalog.cursor <= run.cursor /\ run.cursor <= now
                 /\ Merged(run.work)
  /\ run.at # "scan" => run.triggers = {}
  /\ Gathering => run.collected \subseteq Window(Subject)

\* The triggers of the catalog are frames of the storm up to the cursor; what the run
\* adds comes after them.
Counted(candidates) == UNION {candidates[i].triggers : i \in DOMAIN candidates}
Forgotten == IF catalog.cursor = NoTime /\ run.cursor # NoTime
             THEN {t \in run.history : t < run.cursor - Lookback} ELSE {}
TriggerInv ==
  /\ catalog.cursor <= now
  /\ \A t \in published : catalog.cursor < t /\ t <= now - Retained => t \in missed
  /\ \A t \in Counted(catalog.candidates) : t \in storm /\ t <= catalog.cursor
  /\ Running =>
       /\ run.triggers \subseteq storm
       /\ \A t \in Counted(run.work) : t \in storm /\ t <= run.cursor
       /\ \A t \in Counted(run.work), u \in run.triggers : t < u
       /\ \A t \in run.triggers : catalog.cursor < t /\ t <= run.cursor
       /\ \A t \in storm \intersect published :
            t <= run.cursor /\ t \notin missed \union Forgotten =>
              t \in run.triggers \union Counted(run.work)

\* What a run has made of a candidate so far: triggers are added to pending ones only.
Extends(c, d) ==
  /\ FirstTrigger(d) = FirstTrigger(c) /\ c.triggers \subseteq d.triggers
  /\ d.review = c.review /\ d.context = c.context
  /\ c.review # "pending" => d.triggers = c.triggers
Worked(c, d, planned, written) ==
  /\ Extends(c, d) /\ Collects(d)
  /\ ~planned => d.evidence = c.evidence
  /\ ~written => d.frames = c.frames /\ d.collection = c.collection
WorkInv ==
  /\ \A i \in DOMAIN catalog.candidates : Collects(catalog.candidates[i])
  /\ Running =>
       /\ Len(catalog.candidates) <= Len(run.work)
       /\ \A i \in DOMAIN run.work :
            Worked(Original(i), run.work[i], Planned(i), Written(i))

\* Damaged evidence is of a catalogued candidate, until the run has unlinked it.
Explained(f, t) ==
  \E i \in DOMAIN catalog.candidates :
    /\ FirstTrigger(catalog.candidates[i]) = f
    /\ catalog.candidates[i].evidence[t] \in {"ok", "stale"}
Unlinked(disk) == \A t \in Times : disk.evidence[t] # Damaged
DamageInv ==
  /\ \A f \in Times, t \in Times : files[f].evidence[t] = Damaged => Explained(f, t)
  /\ Running => \A i \in DOMAIN run.work : Planned(i) => Unlinked(files[FirstTrigger(run.work[i])])

\* Without damage the files of a candidate are what the catalog says, except for the plan
\* and the collection an interrupted run has left to a pending one; those of a reviewed one
\* stay complete.
Reviewed(c) == c.review # "pending"
Intact(c, disk) ==
  /\ c.context => disk.context = "context"
  /\ \A t \in c.frames : disk.frames[t] = "frame"
  /\ \A t \in Times : EvidenceMatches(c, disk, t)
Preserved(c, disk) ==
  Intact(c, disk) /\ (Reviewed(c) => disk.collection = c.collection)
Prepared(c, d, disk, written) ==
  /\ Intact(d, disk)
  /\ \A t \in Times : c.evidence[t] = "ok" => d.evidence[t] = "ok"
  /\ written => /\ disk.plan = d.plan
                /\ d.collection # Absent => disk.collection = d.collection
  /\ Reviewed(d) => Complete(d)
Gathered(d, disk, times) ==
  /\ \A t \in times : disk.frames[t] = "frame"
  /\ Reviewed(d) => Window(d) \subseteq times
Undamaged == faults["damage"] = 0
UndamagedInv ==
  Undamaged =>
    /\ \A f \in Times, t \in Times : files[f].frames[t] # Damaged
    /\ \A i \in DOMAIN catalog.candidates :
         Preserved(catalog.candidates[i], files[FirstTrigger(catalog.candidates[i])])
    /\ Running => \A i \in DOMAIN run.work :
         Prepared(Original(i), run.work[i], files[FirstTrigger(run.work[i])], Written(i))
    /\ Gathering => Gathered(Subject, Disk, run.collected)

\* Without an interruption either, so are the collections, and no frame is given up.
Uninterrupted == Undamaged /\ faults["abort"] = 0
Vouched(c, disk) == c.collection # Absent => disk.collection = c.collection
FramesInv ==
  Uninterrupted =>
    /\ \A i \in DOMAIN catalog.candidates : (Running => ~Written(i)) =>
         Vouched(catalog.candidates[i], files[FirstTrigger(catalog.candidates[i])])
    /\ Running => \A i \in DOMAIN run.work : Original(i).frames \subseteq run.work[i].frames
    /\ Gathering => Original(run.i).frames \subseteq run.collected

\* What holds in every state, whatever was interrupted or damaged.
Safety ==
  /\ TypeOK /\ CatalogLoads /\ MergedAsConfigured /\ StormCounted
  /\ RunInv /\ TriggerInv /\ WorkInv /\ DamageInv /\ UndamagedInv /\ FramesInv
=============================================================================
