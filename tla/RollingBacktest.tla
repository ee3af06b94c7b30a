--------------------------- MODULE RollingBacktest ---------------------------
(***************************************************************************)
(* The rolling backtest of radar forecasts (pipelines/rolling_backtest.py) *)
(* and the replay that reads what it leaves (research/replay.py).  A run   *)
(* issues a forecast for every origin of an event, at most MaxNew new ones *)
(* at a time, and scores each lead whose target was observed by `as_of';   *)
(* later runs with an expanded manifest score what was pending.            *)
(*                                                                         *)
(* An event's observations are the multiples of the cadence, counted from  *)
(* one.  A frame is its content, which stands for its checksum; an array   *)
(* is the inputs it was computed from.  The kernel lock admits one run at  *)
(* a time, of whatever configuration, and is free when the run dies.       *)
(* Frames are read and replaced without it, and a command reads the        *)
(* manifest before it takes the lock.  One configuration is modelled:      *)
(* another has forecasts and scores of its own, and replaces latest.json.  *)
(***************************************************************************)
EXTENDS Naturals, Sequences, FiniteSetsExt

CONSTANTS
  MaxTime,      \* bound: observations of the event
  Contents,     \* what a frame may hold
  Captured,     \* bound: what it may hold when it is captured
  Blank,        \* the ones without a valid pixel
  Regridded,    \* the ones on another grid
  InputLength, Horizon,  \* of the configuration
  MaxNew,       \* max_new_windows
  MaxFaults     \* bound: kills, overtaken commands, lost, damaged and revised files

Times == 1..MaxTime
Leads == 1..Horizon
Absent == "absent"
Damaged == "damaged"

ASSUME BacktestAssumption ==
  /\ MaxTime \in Nat /\ InputLength \in Nat \ {0} /\ Horizon \in Nat \ {0}
  /\ MaxNew \in Nat /\ MaxFaults \in Nat
  /\ Blank \subseteq Contents /\ Regridded \subseteq Contents /\ Captured \subseteq Contents
  /\ Contents \intersect {Absent, Damaged} = {}

VARIABLES
  clock,     \* the last observation time that has passed
  manifest,  \* the frame the operator's manifest names for a time
  files,     \* what is at that frame's path
  array,     \* forecast.npz of an origin: the inputs it was computed from
  record,    \* forecast.json, which commits the array: its inputs
  scores,    \* scores/<lead>.json of an origin
  latest,    \* latest.json
  run,       \* the run that holds the lock
  command,   \* what a command has read that has not asked for the lock yet
  faults,    \* number of faults so far
  spoiled    \* a frame or a record is not what it was

stored == <<array, record, scores>>
world == <<clock, manifest, files>>
vars == <<world, stored, latest, run, command, faults, spoiled>>

Inputs(frames, o) == [i \in 1..InputLength |-> frames[o - InputLength + i]]
HasInputs(frames, o) ==
  /\ o >= InputLength
  /\ Absent \notin {Inputs(frames, o)[i] : i \in 1..InputLength}
Grid(frame) == frame \in Regridded

\* lead_metrics: the latest input and the target have a valid pixel in common.
Outcome(inputs, target) ==
  IF inputs[InputLength] \in Blank \/ target \in Blank
  THEN "no_common_valid_pixels" ELSE "scored"

None == <<>>
Broken == <<Damaged>>
NoScore == [forecast |-> None, target |-> Absent, result |-> "none"]
NoWindow == [status |-> "none", leads |-> <<>>]
NoReport == [as_of |-> 0, frames |-> [t \in Times |-> Absent],
             windows |-> [t \in Times |-> NoWindow]]
Idle == [at |-> "idle", frames |-> [t \in Times |-> Absent], cutoff |-> 0, origin |-> 0,
         new |-> 0, seen |-> {}, windows |-> [t \in Times |-> NoWindow]]

NoCommand == [frames |-> [t \in Times |-> Absent], cutoff |-> 0]

Statuses == {"pending", "target_file_missing", "no_common_valid_pixels", "scored"}
Frames == [Times -> Contents \union {Absent}]
Commands == [frames : Frames, cutoff : 0..MaxTime]
Windows == [Times -> [status : {"none", "input_gap", "input_file_missing", "open", "issued"},
                      leads : Seq(Statuses)]]
Arrays == {None, Broken} \union [1..InputLength -> Contents]
Scores == [forecast : Arrays, target : Contents \union {Absent},
           result : Statuses \union {"none", Damaged}]

Reports == [as_of : 0..MaxTime, frames : Frames, windows : Windows]
Runs == [at : {"idle", "window", "array", "record", "score", "report"}, frames : Frames,
         cutoff : 0..MaxTime, origin : 0..MaxTime, new : 0..MaxNew, seen : SUBSET Times,
         windows : Windows]

TypeOK ==
  /\ clock \in 0..MaxTime
  /\ manifest \in Frames
  /\ files \in [Times -> Contents \union {Absent, Damaged}]
  /\ array \in [Times -> Arrays] /\ record \in [Times -> Arrays]
  /\ scores \in [Times -> [Leads -> Scores]]
  /\ latest \in Reports
  /\ run \in Runs /\ command \in Commands
  /\ faults \in 0..MaxFaults /\ spoiled \in BOOLEAN

Init ==
  /\ clock = 0
  /\ manifest = [t \in Times |-> Absent]
  /\ files = [t \in Times |-> Absent]
  /\ array = [o \in Times |-> None]
  /\ record = [o \in Times |-> None]
  /\ scores = [o \in Times |-> [l \in Leads |-> NoScore]]
  /\ latest = NoReport
  /\ run = Idle /\ command = NoCommand
  /\ faults = 0 /\ spoiled = FALSE

(***************************************************************************)
(* The environment                                                         *)
(***************************************************************************)
Tick ==
  /\ clock < MaxTime
  /\ clock' = clock + 1
  /\ UNCHANGED <<manifest, files, stored, latest, run, command, faults, spoiled>>

\* The archive gets a frame, perhaps late, and the manifest is expanded by it.
Capture ==
  /\ \E t \in 1..clock, c \in Captured :
       /\ manifest[t] = Absent
       /\ manifest' = [manifest EXCEPT ![t] = c]
       /\ files' = [files EXCEPT ![t] = c]
       /\ spoiled' = (spoiled \/ \E u \in Times : /\ manifest[u] # Absent
                                                  /\ Grid(manifest[u]) # Grid(c))
  /\ UNCHANGED <<clock, stored, latest, run, command, faults>>

Fault == faults < MaxFaults /\ faults' = faults + 1

\* A frame goes missing; its file may come back.
LoseFile ==
  /\ Fault
  /\ \E t \in Times : files[t] # Absent /\ files' = [files EXCEPT ![t] = Absent]
  /\ UNCHANGED <<clock, manifest, stored, latest, run, command, spoiled>>
FileReturns ==
  /\ \E t \in Times : /\ files[t] = Absent /\ manifest[t] # Absent
                      /\ files' = [files EXCEPT ![t] = manifest[t]]
  /\ UNCHANGED <<clock, manifest, stored, latest, run, command, faults, spoiled>>

\* The archive and the manifest replace a frame by another of the same time.
Revise ==
  /\ Fault
  /\ \E t \in Times, c \in Contents :
       /\ manifest[t] \notin {Absent, c}
       /\ manifest' = [manifest EXCEPT ![t] = c]
       /\ files' = [files EXCEPT ![t] = c]
  /\ spoiled' = TRUE
  /\ UNCHANGED <<clock, stored, latest, run, command>>

DamageFrame ==
  /\ Fault /\ spoiled' = TRUE
  /\ \E t \in Times : files[t] \in Contents /\ files' = [files EXCEPT ![t] = Damaged]
  /\ UNCHANGED <<clock, manifest, stored, latest, run, command>>

\* An array, a record or a score is damaged between two runs.
DamageStored ==
  /\ Fault /\ spoiled' = TRUE /\ run = Idle
  /\ \E o \in Times :
       \/ array[o] # None /\ array' = [array EXCEPT ![o] = Broken] /\ UNCHANGED <<record, scores>>
       \/ record[o] # None /\ record' = [record EXCEPT ![o] = Broken] /\ UNCHANGED <<array, scores>>
       \/ /\ \E l \in Leads :
               /\ scores[o][l] # NoScore
               /\ scores' = [scores EXCEPT ![o][l] = [NoScore EXCEPT !.result = Damaged]]
          /\ UNCHANGED <<array, record>>
  /\ UNCHANGED <<world, latest, run, command>>

Kill ==
  /\ Fault /\ run # Idle
  /\ run' = Idle
  /\ UNCHANGED <<world, stored, latest, command, spoiled>>

(***************************************************************************)
(* The run                                                                 *)
(***************************************************************************)
\* The loop of `execute': the next captured time up to the cutoff is an origin.
\* Of the frames read before, the ones a later window needs are still remembered.
ToOrigin(r) ==
  LET later == {t \in Times : t > r.origin /\ t <= r.cutoff /\ r.frames[t] # Absent} IN
    IF later = {} THEN [r EXCEPT !.at = "report", !.origin = 0, !.seen = {}]
    ELSE [r EXCEPT !.at = "window", !.origin = Min(later),
                   !.seen = {t \in @ : t > Min(later) - InputLength}]

\* The run has the lock; the manifest is copied to manifests/<checksum>.
Begin(frames, cutoff) ==
  /\ run = Idle
  /\ run' = ToOrigin([Idle EXCEPT !.frames = frames, !.cutoff = cutoff])
  /\ UNCHANGED <<world, stored, latest, spoiled>>

\* The manifest is read and validated, and nothing happens before the lock is taken.
StartAsOf(cutoff) ==
  /\ manifest # NoCommand.frames
  /\ Begin(manifest, cutoff)
  /\ UNCHANGED <<command, faults>>

\* Without --as-of the cutoff is the present.  With it, it may also be to come.
Start == StartAsOf(clock)
StartWithAsOf == \E cutoff \in Times \ {clock} : StartAsOf(cutoff)

\* A command reads the manifest, and may be overtaken before it asks for the lock.
Invoke ==
  /\ Fault
  /\ command = NoCommand /\ manifest # NoCommand.frames
  /\ \E cutoff \in Times : command' = [frames |-> manifest, cutoff |-> cutoff]
  /\ UNCHANGED <<world, stored, latest, run, spoiled>>
BeginOvertaken ==
  /\ command # NoCommand /\ Begin(command.frames, command.cutoff)
  /\ command' = NoCommand /\ UNCHANGED faults
\* RuntimeError: the lock is held by another run.
AlreadyRunning ==
  /\ command # NoCommand /\ run # Idle
  /\ command' = NoCommand
  /\ UNCHANGED <<world, stored, latest, run, faults, spoiled>>

\* A ValueError ends the run: no report is written, what was saved stays.
Abort ==
  /\ run' = Idle
  /\ UNCHANGED <<world, stored, latest, command, faults, spoiled>>

Continue(r) ==
  /\ run' = r
  /\ UNCHANGED <<world, latest, command, faults, spoiled>>

\* The reader verifies a file by the manifest once, then remembers it.
Readable(t) == t \in run.seen \/ files[t] = run.frames[t]
\* Mutant: a file that is gone is taken for a damaged one.
MissingIsUnsound(t) == FALSE
Missing(t) == t \notin run.seen /\ files[t] = Absent
Unsound(t) == ~Readable(t) /\ ~Missing(t)

Origin == run.origin
InputTimes == (Origin - InputLength + 1)..Origin
Expected == Inputs(run.frames, Origin)
\* Mutant: a forecast of other inputs is issued again.
CommittedToInputs == record[Origin] = Expected
Committed == record[Origin] # None
\* _read_forecast: the record is about these inputs, the array is the record's.
Cached == record[Origin] = Expected /\ array[Origin] = record[Origin]

\* Mutant: forecasts found count against the limit as well.
WindowOpensCountingCached ==
  /\ run.at = "window" /\ HasInputs(run.frames, Origin)
  /\ Cardinality({o \in Times : run.windows[o].status = "issued"}) < MaxNew

WindowOpens ==
  /\ run.at = "window"
  /\ HasInputs(run.frames, Origin)
  /\ Committed \/ run.new < MaxNew

Exclude(reason, seen) ==
  Continue(ToOrigin([run EXCEPT !.windows[Origin].status = reason, !.seen = @ \union seen]))

InputGap ==
  /\ run.at = "window" /\ ~HasInputs(run.frames, Origin)
  /\ Exclude("input_gap", {}) /\ UNCHANGED stored

Defer ==
  /\ run.at = "window" /\ HasInputs(run.frames, Origin) /\ ~WindowOpens
  /\ Continue(ToOrigin(run)) /\ UNCHANGED stored

\* Inputs are read in the order of time up to the first that fails.
FirstFailure == {t \in InputTimes : ~Readable(t) /\ \A u \in InputTimes : u < t => Readable(u)}
InputFileMissing ==
  /\ WindowOpens /\ (Committed => Cached)
  /\ \E t \in FirstFailure :
       Missing(t) /\ Exclude("input_file_missing", {u \in InputTimes : u < t})
  /\ UNCHANGED stored

InputRefused ==
  /\ WindowOpens
  /\ \/ Committed /\ ~Cached
     \/ \E t \in FirstFailure : Unsound(t)
     \/ FirstFailure = {} /\ Cardinality({Grid(run.frames[t]) : t \in InputTimes}) > 1
  /\ Abort

Issue(at) ==
  /\ WindowOpens /\ FirstFailure = {}
  /\ Cardinality({Grid(run.frames[t]) : t \in InputTimes}) = 1
  /\ Continue([run EXCEPT !.at = at, !.seen = @ \union InputTimes,
                          !.windows[Origin].status = "open"])
  /\ UNCHANGED stored
CachedForecast == WindowOpens /\ Committed /\ Cached /\ Issue("score")
NewForecast == WindowOpens /\ ~Committed /\ Issue("array")

\* The array, then the record that commits it.
WriteArray ==
  /\ run.at = "array"
  /\ array' = [array EXCEPT ![Origin] = Expected]
  /\ Continue([run EXCEPT !.at = "record"]) /\ UNCHANGED <<record, scores>>
WriteRecord ==
  /\ run.at = "record"
  /\ record' = [record EXCEPT ![Origin] = Expected]
  /\ Continue([run EXCEPT !.at = "score", !.new = @ + 1]) /\ UNCHANGED <<array, scores>>

Lead == Len(run.windows[Origin].leads) + 1
Target == Origin + Lead
\* The run holds the forecast itself; it was verified to be of these inputs.
Forecast == Expected
Observed == /\ Target <= run.cutoff /\ Target \in Times
            /\ run.frames[Target] # Absent
Saved == scores[Origin][Lead]
\* Mutant: the target is not part of the score's context.
SavedMatchesForecast == Saved.forecast = Forecast
SavedMatches == Saved.forecast = Forecast /\ Saved.target = run.frames[Target]

\* The status of the lead; after the last one the window is complete.
LeadIs(status, seen) ==
  LET r == [run EXCEPT !.windows[Origin].leads = Append(@, status),
                       !.seen = @ \union seen] IN
    Continue(IF Lead < Horizon THEN r
             ELSE ToOrigin([r EXCEPT !.windows[Origin].status = "issued"]))

ScorePending ==
  /\ run.at = "score" /\ ~Observed
  /\ LeadIs("pending", {}) /\ UNCHANGED stored

\* Nothing is saved: the file may come back.
TargetFileMissing ==
  /\ run.at = "score" /\ Observed /\ Missing(Target)
  /\ LeadIs("target_file_missing", {}) /\ UNCHANGED stored

Comparable == Readable(Target) /\ Grid(run.frames[Target]) = Grid(Forecast[1])
TargetRefused ==
  /\ run.at = "score" /\ Observed /\ ~Missing(Target)
  /\ Comparable => Saved # NoScore /\ ~SavedMatches
  /\ Abort

ScoreCached ==
  /\ run.at = "score" /\ Observed /\ Comparable
  /\ Saved # NoScore /\ SavedMatches
  /\ LeadIs(Saved.result, {Target}) /\ UNCHANGED stored

ScoreNew ==
  /\ run.at = "score" /\ Observed /\ Comparable /\ Saved = NoScore
  /\ LET result == Outcome(Forecast, run.frames[Target]) IN
       /\ scores' = [scores EXCEPT ![Origin][Lead] =
            [forecast |-> Forecast, target |-> run.frames[Target], result |-> result]]
       /\ LeadIs(result, {Target})
  /\ UNCHANGED <<array, record>>

\* runs/<digest>.json, a copy nothing reads, and then latest.json.
Report ==
  /\ run.at = "report"
  /\ latest' = [as_of |-> run.cutoff, frames |-> run.frames, windows |-> run.windows]
  /\ run' = Idle
  /\ UNCHANGED <<world, stored, command, faults, spoiled>>

Step ==
  \/ InputGap \/ Defer \/ InputFileMissing \/ InputRefused \/ CachedForecast \/ NewForecast
  \/ WriteArray \/ WriteRecord
  \/ ScorePending \/ TargetFileMissing \/ TargetRefused \/ ScoreCached \/ ScoreNew
  \/ Report

Next ==
  \/ Tick \/ Capture \/ LoseFile \/ FileReturns \/ Revise \/ DamageFrame \/ DamageStored \/ Kill
  \/ Start \/ StartWithAsOf \/ Invoke \/ BeginOvertaken \/ AlreadyRunning \/ Step

\* The command is repeated, sometimes without --as-of, and runs on.
Fairness == WF_vars(Step) /\ SF_vars(Start)
Spec == Init /\ [][Next]_vars /\ Fairness

(***************************************************************************)
(* The replay of latest.json                                               *)
(***************************************************************************)
Available(t) ==
  t <= latest.as_of /\ latest.frames[t] # Absent /\ files[t] = latest.frames[t]

\* `_forecast': the record, the array and every input are what the report says.
ReplayForecast(o) ==
  /\ latest.windows[o].status = "issued"
  /\ record[o] = Inputs(latest.frames, o) /\ array[o] = record[o]
  /\ \A t \in (o - InputLength + 1)..o : Available(t)

\* `_observation': a target without a reference, after as_of or without its file is
\* missing, one that is not what the manifest says is invalid.
TargetStatus(t) ==
  IF t \in Times /\ Available(t) THEN "available"
  ELSE IF /\ t \in Times /\ t <= latest.as_of /\ latest.frames[t] # Absent
          /\ files[t] # Absent THEN "invalid" ELSE "missing"

\* `_score' and `lead': what is displayed for a lead of a window.
Shown(o, l) ==
  LET status == latest.windows[o].leads[l]
      target == o + l
      settled == status \in {"scored", "no_common_valid_pixels"} IN
    IF \/ ~ReplayForecast(o)
       \/ settled /\ scores[o][l] # [forecast |-> record[o], result |-> status,
                                     target |-> latest.frames[target]]
       \/ TargetStatus(target) = "available"
            /\ Grid(latest.frames[target]) # Grid(record[o][1])
    THEN "invalid"
    ELSE IF status = "scored" /\ TargetStatus(target) # "available" THEN TargetStatus(target)
    ELSE status

(***************************************************************************)
(* Properties                                                              *)
(***************************************************************************)
\* A report is what its manifest and its as_of imply, whatever earlier runs saw,
\* were interrupted in, or had damaged under them: no origin and no target after
\* as_of is used, a lead is pending only if its target was not captured by then,
\* and a cached forecast or score is about the very frames the manifest names.
\* Only a file that is missing may keep a window or a lead out of it.
LeadsMatch(frames, as_of, o, leads) ==
  \A l \in DOMAIN leads :
    LET observed == o + l <= as_of /\ o + l \in Times /\ frames[o + l] # Absent IN
      /\ leads[l] = "pending" <=> ~observed
      /\ leads[l] \in {"scored", "no_common_valid_pixels"} =>
           leads[l] = Outcome(Inputs(frames, o), frames[o + l])
ReportMatchesManifest ==
  \A o \in Times :
    LET w == latest.windows[o] IN
      /\ w.status # "none" => o <= latest.as_of /\ latest.frames[o] # Absent
      /\ w.status = "input_gap" <=> /\ o <= latest.as_of /\ latest.frames[o] # Absent
                                    /\ ~HasInputs(latest.frames, o)
      /\ w.status = "issued" => Len(w.leads) = Horizon
      /\ LeadsMatch(latest.frames, latest.as_of, o, w.leads)

\* Whatever runs were killed before, a report can be replayed in full: while no
\* frame or record has changed, every lead is shown with the status it was
\* reported with once the lost files are back.
ReportReplays ==
  ~spoiled /\ (\A t \in Times : manifest[t] # Absent => files[t] = manifest[t]) =>
    \A o \in Times : \A l \in DOMAIN latest.windows[o].leads :
      Shown(o, l) = latest.windows[o].leads[l]

\* No run changes a committed forecast, its array or a saved score.
CommittedIsImmutable ==
  [][\A o \in Times :
       \/ spoiled' /\ run' = run
       \/ /\ record[o] # None => record'[o] = record[o] /\ array'[o] = array[o]
          /\ \A l \in Leads : scores[o][l] # NoScore => scores'[o][l] = scores[o][l]]_stored

\* "An expanded manifest may score pending leads on later invocations": a run ends
\* in a ValueError only if something was revised, damaged or put on another grid;
\* kills, lost files and frames that come late are none of these.
FailsOnlyIfSpoiled ==
  [][run.at \notin {"idle", "report"} /\ run' = Idle /\ faults' = faults => spoiled]_vars

\* Repeated runs come through all deferred origins and score every lead that can be.
Settled ==
  \A o \in Times : manifest[o] # Absent =>
    /\ latest.windows[o].status # "none"
    /\ \A l \in DOMAIN latest.windows[o].leads :
         latest.windows[o].leads[l] = "pending" => o + l \notin Times \/ manifest[o + l] = Absent
EventuallySettled == []<>(spoiled \/ Settled)

(***************************************************************************)
(* The inductive invariant                                                 *)
(***************************************************************************)
\* A window of a report, finished or not: what it says was issued and scored is stored.
Settling == {"scored", "no_common_valid_pixels"}
WindowSound(frames, as_of, o, w, forecast, results) ==
  /\ w.status # "none" => o <= as_of /\ frames[o] # Absent
  /\ w.status = "input_gap" => ~HasInputs(frames, o)
  /\ w.status = "issued" => HasInputs(frames, o) /\ forecast # None /\ Len(w.leads) = Horizon
  /\ w.leads # <<>> => w.status \in {"open", "issued"}
  /\ Len(w.leads) <= Horizon
  /\ LeadsMatch(frames, as_of, o, w.leads)
  /\ \A l \in DOMAIN w.leads : w.leads[l] \in Settling => results[l] # NoScore
GapListed(frames, as_of, o, w) ==
  o <= as_of /\ frames[o] # Absent /\ ~HasInputs(frames, o) => w.status = "input_gap"
LatestInv ==
  \A o \in Times :
    LET w == latest.windows[o] IN
      /\ WindowSound(latest.frames, latest.as_of, o, w, record[o], scores[o])
      /\ w.status # "open" /\ GapListed(latest.frames, latest.as_of, o, w)

\* Where a run is: the origins ahead of it have no window yet, the one it is at is open.
Opened == {"array", "record", "score"}
Ahead(r, o) == r.at # "report" /\ (o > r.origin \/ (o = r.origin /\ r.at = "window"))
RunSound(r) ==
  /\ r.at = "idle" => r = Idle
  /\ r.origin <= r.cutoff
  /\ r.at \in {"window"} \union Opened => r.origin \in Times /\ r.frames[r.origin] # Absent
  /\ r.at \in Opened => HasInputs(r.frames, r.origin)
WindowsSound(r, forecasts, results) ==
  \A o \in Times :
    LET w == r.windows[o] IN
      /\ WindowSound(r.frames, r.cutoff, o, w, forecasts[o], results[o])
      /\ w.status = "open" <=> o = r.origin /\ r.at \in Opened
      /\ Ahead(r, o) => w = NoWindow
      /\ ~Ahead(r, o) => GapListed(r.frames, r.cutoff, o, w)
RunInv ==
  /\ RunSound(run) /\ WindowsSound(run, record, scores)
  /\ run.at \in {"array", "record"} =>
       record[Origin] = None /\ run.new < MaxNew /\ run.windows[Origin].leads = <<>>
  /\ run.at = "record" => array[Origin] = Expected
  /\ run.at = "score" => record[Origin] # None /\ Len(run.windows[Origin].leads) < Horizon

\* A score is about what it says it was computed from.
ScoresInv ==
  \A o \in Times, l \in Leads :
    scores[o][l].forecast # None =>
      scores[o][l].result = Outcome(scores[o][l].forecast, scores[o][l].target)

\* Until something is spoiled, what is stored is about the frames of the manifest, which
\* are on one grid, and every manifest that was read is part of it.
ScoreOf(o, l) ==
  [forecast |-> Inputs(manifest, o), target |-> manifest[o + l],
   result |-> Outcome(Inputs(manifest, o), manifest[o + l])]
Known(frames) == \A t \in Times : frames[t] # Absent => manifest[t] = frames[t]
UnspoiledInv ==
  ~spoiled =>
    /\ \A t \in Times : files[t] \in {Absent, manifest[t]}
    /\ \A t, u \in Times : manifest[t] # Absent /\ manifest[u] # Absent =>
                             Grid(manifest[t]) = Grid(manifest[u])
    /\ \A o \in Times : record[o] # None => /\ HasInputs(manifest, o)
                                            /\ record[o] = Inputs(manifest, o)
                                            /\ array[o] = record[o]
    /\ \A o \in Times, l \in Leads :
         scores[o][l] # NoScore => /\ HasInputs(manifest, o) /\ o + l \in Times
                                   /\ manifest[o + l] # Absent
                                   /\ scores[o][l] = ScoreOf(o, l)
    /\ Known(run.frames) /\ Known(command.frames) /\ Known(latest.frames)

IInv == TypeOK /\ LatestInv /\ RunInv /\ ScoresInv /\ UnspoiledInv

\* Every report is right, and can be replayed.
Safety == IInv /\ ReportMatchesManifest /\ ReportReplays
=============================================================================
