------------------------- MODULE RollingBacktestProofs -------------------------
(***************************************************************************)
(* Proofs about RollingBacktest for any event, contents, configuration and *)
(* faults: no run changes what was committed, every report is what its     *)
(* manifest and its cutoff imply, and while nothing is spoiled a run fails *)
(* on nothing and its report can be replayed in full.                      *)
(***************************************************************************)
EXTENDS RollingBacktest, FiniteSetTheorems, WellFoundedInduction, TLAPS

USE BacktestAssumption

(***************************************************************************)
(* Inputs, and the next origin                                             *)
(***************************************************************************)
LEMMA LeastTime == ASSUME NEW S \in SUBSET Times, S # {} PROVE Min(S) \in S /\ \A t \in S : Min(S) <= t
<1>1. S \subseteq Nat
  BY DEF Times
<1>2. PICK x \in S : \A y \in S : ~(<<y, x>> \in OpToRel(<, Nat))
  BY <1>1, NatLessThanWellFounded, WFMin
<1>3. \A y \in S : x <= y
  <2> SUFFICES ASSUME NEW y \in S PROVE x <= y
    OBVIOUS
  <2>1. x \in Nat /\ y \in Nat /\ ~(y < x)
    BY <1>1, <1>2 DEF OpToRel
  <2>2. QED BY <2>1
<1>4. QED BY <1>3 DEF Min

\* A configuration has inputs, and none of them is absent.
LEMMA InputsSound ==
  ASSUME NEW f \in Frames, NEW o \in Times, HasInputs(f, o)
  PROVE  /\ Inputs(f, o) \in [1..InputLength -> Contents]
         /\ Inputs(f, o) # None /\ Inputs(f, o) # Broken
         /\ \A i \in 1..InputLength :
              /\ o - InputLength + i \in Times /\ f[o - InputLength + i] # Absent
              /\ Inputs(f, o)[i] = f[o - InputLength + i]
<1>1. \A i \in 1..InputLength : o - InputLength + i \in Times
  BY DEF Times, HasInputs
<1>2. \A i \in 1..InputLength : Inputs(f, o)[i] = f[o - InputLength + i]
  BY DEF Inputs
<1>3. \A i \in 1..InputLength : f[o - InputLength + i] # Absent
  BY <1>2 DEF HasInputs
<1>4. Inputs(f, o) \in [1..InputLength -> Contents]
  BY <1>1, <1>3 DEF Inputs, Frames
<1>5. 1 \in 1..InputLength
  OBVIOUS
<1>6. Inputs(f, o) # None
  BY <1>4, <1>5 DEF None
<1>7. Inputs(f, o) # Broken
  BY <1>4, <1>5 DEF Broken, Damaged
<1>8. QED BY <1>1, <1>2, <1>3, <1>4, <1>6, <1>7

\* The manifest names every input that a part of it names.
LEMMA InputsKnown ==
  ASSUME NEW f \in Frames, NEW g \in Frames, NEW o \in Times, HasInputs(f, o),
         \A t \in Times : f[t] # Absent => g[t] = f[t]
  PROVE  HasInputs(g, o) /\ Inputs(g, o) = Inputs(f, o)
<1>1. Inputs(g, o) = Inputs(f, o)
  BY InputsSound DEF Inputs
<1>2. QED BY <1>1 DEF HasInputs

\* ToOrigin passes over nothing that was captured by the cutoff.
LEMMA NextOrigin ==
  ASSUME NEW r \in Runs, NEW q, q = ToOrigin(r)
  PROVE  /\ q \in Runs
         /\ q.frames = r.frames /\ q.cutoff = r.cutoff /\ q.new = r.new /\ q.windows = r.windows
         /\ q.seen \subseteq r.seen
         /\ \/ /\ q.at = "report" /\ q.origin = 0
               /\ \A o \in Times : o > r.origin /\ o <= r.cutoff => r.frames[o] = Absent
            \/ /\ q.at = "window" /\ q.origin \in Times /\ q.origin > r.origin
               /\ q.origin <= r.cutoff /\ r.frames[q.origin] # Absent
               /\ \A o \in Times : o > r.origin /\ o < q.origin /\ o <= r.cutoff =>
                                     r.frames[o] = Absent
<1> DEFINE later == {t \in Times : t > r.origin /\ t <= r.cutoff /\ r.frames[t] # Absent}
<1>1. CASE later = {}
  <2>1. q = [r EXCEPT !.at = "report", !.origin = 0, !.seen = {}]
    BY <1>1 DEF ToOrigin
  <2>2. q \in Runs /\ q.at = "report" /\ q.origin = 0 /\ q.seen = {}
    <3>1. PICK nothing : nothing = {}
      OBVIOUS
    <3>2. q = [r EXCEPT !.at = "report", !.origin = 0, !.seen = nothing]
      BY <2>1, <3>1
    <3>3. 0 \in 0..MaxTime /\ nothing \in SUBSET Times
      BY <3>1
    <3>4. q \in Runs /\ q.at = "report" /\ q.origin = 0 /\ q.seen = nothing
      BY <3>2, <3>3 DEF Runs
    <3>5. QED BY <3>1, <3>4
  <2>3. q.frames = r.frames /\ q.cutoff = r.cutoff /\ q.new = r.new /\ q.windows = r.windows
    BY <2>1 DEF Runs
  <2>4. QED BY <1>1, <2>2, <2>3
<1>2. CASE later # {}
  <2>1. PICK m \in later : m = Min(later) /\ \A t \in later : m <= t
    BY <1>2, LeastTime
  <2>2. q = [r EXCEPT !.at = "window", !.origin = m,
                      !.seen = {t \in r.seen : t > m - InputLength}]
    BY <1>2, <2>1 DEF ToOrigin
  <2>3. m \in Times /\ m \in 0..MaxTime
    BY <2>1 DEF Times
  <2>4. q.at = "window" /\ q.origin = m /\ q.seen = {t \in r.seen : t > m - InputLength}
    BY <2>2 DEF Runs
  <2>5. q.frames = r.frames /\ q.cutoff = r.cutoff /\ q.new = r.new /\ q.windows = r.windows
    BY <2>2 DEF Runs
  <2>6. q \in Runs
    <3>1. q.seen \in SUBSET Times
      BY <2>4 DEF Runs
    <3>2. q = [r EXCEPT !.at = "window", !.origin = m, !.seen = q.seen]
      BY <2>2, <2>4
    <3>3. QED BY <2>3, <3>1, <3>2 DEF Runs
  <2>7. ASSUME NEW o \in Times, o > r.origin, o < m, o <= r.cutoff PROVE r.frames[o] = Absent
    <3>1. o \in Nat /\ m \in Nat /\ ~(m <= o)
      BY <2>3, <2>7 DEF Times
    <3>2. QED BY <2>1, <2>7, <3>1
  <2>8. QED BY <2>1, <2>3, <2>4, <2>5, <2>6, <2>7
<1>3. QED BY <1>1, <1>2

\* The invariant of a run that has finished the origin r was at.
LEMMA Advance ==
  ASSUME NEW r \in Runs, NEW forecasts, NEW results, NEW q, q = ToOrigin(r),
         \A o \in Times :
           LET w == r.windows[o] IN
             /\ WindowSound(r.frames, r.cutoff, o, w, forecasts[o], results[o])
             /\ w.status # "open"
             /\ o > r.origin => w = NoWindow
             /\ o <= r.origin => GapListed(r.frames, r.cutoff, o, w)
  PROVE  RunSound(q) /\ WindowsSound(q, forecasts, results) /\ q \in Runs
         /\ q.at \in {"window", "report"} /\ q.frames = r.frames /\ q.cutoff = r.cutoff
         /\ q.seen \subseteq r.seen
<1>1. /\ q \in Runs
      /\ q.frames = r.frames /\ q.cutoff = r.cutoff /\ q.windows = r.windows
      /\ q.seen \subseteq r.seen
  BY NextOrigin
<1>2. /\ r.origin \in Nat /\ r.cutoff \in Nat /\ q.origin \in Nat /\ Times \subseteq Nat
  BY <1>1 DEF Runs, Times
<1>3. CASE q.at = "report"
  <2>1. q.origin = 0 /\ \A o \in Times : o > r.origin /\ o <= r.cutoff => r.frames[o] = Absent
    BY <1>3, NextOrigin
  <2>2. RunSound(q)
    BY <1>1, <1>2, <1>3, <2>1 DEF RunSound, Opened
  <2>3. \A o \in Times : GapListed(r.frames, r.cutoff, o, r.windows[o])
    BY <1>2, <2>1 DEF GapListed
  <2>4. WindowsSound(q, forecasts, results)
    BY <1>1, <1>3, <2>3 DEF WindowsSound, Ahead, Opened
  <2>5. QED BY <1>1, <1>3, <2>2, <2>4
<1>4. CASE q.at = "window"
  <2>1. /\ q.origin \in Times /\ q.origin > r.origin /\ q.origin <= r.cutoff
        /\ r.frames[q.origin] # Absent
        /\ \A o \in Times : o > r.origin /\ o < q.origin /\ o <= r.cutoff => r.frames[o] = Absent
    BY <1>4, NextOrigin
  <2>2. RunSound(q)
    BY <1>1, <1>4, <2>1 DEF RunSound, Opened
  <2>3. ASSUME NEW o \in Times, o < q.origin PROVE GapListed(r.frames, r.cutoff, o, r.windows[o])
    BY <1>2, <2>1, <2>3 DEF GapListed
  <2>4. ASSUME NEW o \in Times, o >= q.origin PROVE r.windows[o] = NoWindow
    BY <1>2, <2>1, <2>4
  <2>5. ASSUME NEW o \in Times
        PROVE /\ WindowSound(q.frames, q.cutoff, o, q.windows[o], forecasts[o], results[o])
              /\ q.windows[o].status # "open"
              /\ Ahead(q, o) => q.windows[o] = NoWindow
              /\ ~Ahead(q, o) => GapListed(q.frames, q.cutoff, o, q.windows[o])
    BY <1>1, <1>2, <1>4, <2>3, <2>4 DEF Ahead
  <2>6. WindowsSound(q, forecasts, results)
    BY <1>4, <2>5 DEF WindowsSound, Opened
  <2>7. QED BY <1>1, <1>4, <2>2, <2>6
<1>5. QED BY <1>3, <1>4, NextOrigin

(***************************************************************************)
(* The environment                                                         *)
(***************************************************************************)
\* What is stored, the report and the run are as they were.
LEMMA WorldKept ==
  ASSUME IInv, UNCHANGED stored, UNCHANGED latest, UNCHANGED run
  PROVE  LatestInv' /\ RunInv' /\ ScoresInv'
<1>1. UNCHANGED <<array, record, scores, latest, run>>
  BY DEF stored
<1>2. LatestInv'
  BY <1>1 DEF IInv, LatestInv
<1>3. ScoresInv'
  BY <1>1 DEF IInv, ScoresInv
<1>4. RunInv'
  BY <1>1 DEF IInv, RunInv, Expected, Origin
<1>5. QED BY <1>2, <1>3, <1>4

\* Frames that are kept, and a manifest that only grows, leave what is stored sound.
LEMMA ManifestGrows ==
  ASSUME IInv, ~spoiled, UNCHANGED stored, UNCHANGED latest, UNCHANGED <<run, command>>, manifest' \in Frames,
         \A t \in Times : manifest[t] # Absent => manifest'[t] = manifest[t],
         \A t \in Times : files'[t] \in {Absent, manifest'[t]},
         \A t, u \in Times : manifest'[t] # Absent /\ manifest'[u] # Absent =>
                               Grid(manifest'[t]) = Grid(manifest'[u])
  PROVE  UnspoiledInv'
<1>1. UNCHANGED <<array, record, scores, latest, run, command>> /\ manifest \in Frames
  BY DEF stored, IInv, TypeOK
<1>2. /\ \A o \in Times : record[o] # None => /\ HasInputs(manifest, o)
                                              /\ record[o] = Inputs(manifest, o)
                                              /\ array[o] = record[o]
      /\ \A o \in Times, l \in Leads :
           scores[o][l] # NoScore => /\ HasInputs(manifest, o) /\ o + l \in Times
                                     /\ manifest[o + l] # Absent
                                     /\ scores[o][l] = ScoreOf(o, l)
      /\ Known(run.frames) /\ Known(command.frames) /\ Known(latest.frames)
  BY DEF IInv, UnspoiledInv
<1>3. \A o \in Times : HasInputs(manifest, o) =>
                         HasInputs(manifest', o) /\ Inputs(manifest', o) = Inputs(manifest, o)
  BY <1>1, InputsKnown
<1>4. Known(run.frames)' /\ Known(command.frames)' /\ Known(latest.frames)'
  BY <1>1, <1>2 DEF Known
<1>5. \A o \in Times : record'[o] # None => /\ HasInputs(manifest', o)
                                            /\ record'[o] = Inputs(manifest', o)
                                            /\ array'[o] = record'[o]
  BY <1>1, <1>2, <1>3
<1>6. ASSUME NEW o \in Times, NEW l \in Leads, scores'[o][l] # NoScore
      PROVE  /\ HasInputs(manifest', o) /\ o + l \in Times /\ manifest'[o + l] # Absent
             /\ scores'[o][l] = ScoreOf(o, l)'
  <2>1. /\ HasInputs(manifest, o) /\ o + l \in Times /\ manifest[o + l] # Absent
        /\ scores[o][l] = ScoreOf(o, l)
    BY <1>1, <1>2, <1>6
  <2>2. manifest'[o + l] = manifest[o + l] /\ HasInputs(manifest', o)
        /\ Inputs(manifest', o) = Inputs(manifest, o)
    BY <1>3, <2>1
  <2>3. ScoreOf(o, l)' = ScoreOf(o, l)
    BY <2>2 DEF ScoreOf
  <2>4. QED BY <1>1, <2>1, <2>2, <2>3
<1>7. QED BY <1>4, <1>5, <1>6 DEF UnspoiledInv

LEMMA SpoiledIsSound == spoiled' => UnspoiledInv'
BY DEF UnspoiledInv

LEMMA WorldSafety ==
  ASSUME IInv, Tick \/ Capture \/ LoseFile \/ FileReturns \/ Revise \/ DamageFrame PROVE IInv'
<1>0. TypeOK /\ UnspoiledInv
  BY DEF IInv
<1>1. CASE Tick
  <2>1. UNCHANGED <<manifest, files, stored, latest, run, command, faults, spoiled>>
        /\ clock' = clock + 1 /\ clock < MaxTime /\ clock \in 0..MaxTime
    BY <1>0, <1>1 DEF Tick, TypeOK
  <2>2. TypeOK'
    BY <1>0, <2>1 DEF TypeOK, stored
  <2>3. UnspoiledInv'
    BY <1>0, <2>1, ManifestGrows DEF UnspoiledInv, TypeOK
  <2>4. QED BY <2>1, <2>2, <2>3, WorldKept DEF IInv
<1>2. CASE Capture
  <2>1. PICK t \in 1..clock, c \in Captured :
          /\ manifest[t] = Absent
          /\ manifest' = [manifest EXCEPT ![t] = c] /\ files' = [files EXCEPT ![t] = c]
          /\ spoiled' = (spoiled \/ \E u \in Times : /\ manifest[u] # Absent
                                                     /\ Grid(manifest[u]) # Grid(c))
    BY <1>2 DEF Capture
  <2>2. UNCHANGED <<clock, stored, latest, run, command, faults>> /\ t \in Times /\ c \in Contents
    BY <1>0, <1>2, <2>1 DEF Capture, TypeOK, Times
  <2>3. manifest' \in Frames /\ files' \in [Times -> Contents \union {Absent, Damaged}]
    BY <1>0, <2>1, <2>2 DEF TypeOK, Frames
  <2>4. spoiled' \in BOOLEAN
    BY <2>1
  <2>5. TypeOK'
    BY <1>0, <2>2, <2>3, <2>4 DEF TypeOK, stored
  <2>6. ASSUME ~spoiled' PROVE UnspoiledInv'
    <3>1. ~spoiled /\ \A u \in Times : manifest[u] # Absent => Grid(manifest[u]) = Grid(c)
      BY <2>1, <2>6 DEF Grid
    <3>2. /\ manifest'[t] = c /\ \A u \in Times \ {t} : manifest'[u] = manifest[u]
          /\ files'[t] = c /\ \A u \in Times \ {t} : files'[u] = files[u]
      BY <1>0, <2>1, <2>2 DEF TypeOK, Frames
    <3>3. \A u \in Times : manifest[u] # Absent => manifest'[u] = manifest[u]
      BY <2>1, <3>2
    <3>4. \A u \in Times : files'[u] \in {Absent, manifest'[u]}
      BY <1>0, <3>1, <3>2 DEF UnspoiledInv
    <3>5. \A u \in Times : manifest'[u] # Absent => Grid(manifest'[u]) = Grid(c)
      BY <3>1, <3>2
    <3>6. QED BY <2>2, <2>3, <3>1, <3>3, <3>4, <3>5, ManifestGrows
  <2>7. UnspoiledInv'
    BY <2>6, SpoiledIsSound
  <2>8. QED BY <2>2, <2>5, <2>7, WorldKept DEF IInv
<1>3. CASE LoseFile \/ FileReturns
  <2>1. UNCHANGED <<clock, manifest, stored, latest, run, command, spoiled>> /\ faults' \in 0..MaxFaults
    BY <1>0, <1>3 DEF LoseFile, FileReturns, Fault, TypeOK
  <2>2. PICK t \in Times : \E c \in {Absent, manifest[t]} : files' = [files EXCEPT ![t] = c]
    BY <1>3 DEF LoseFile, FileReturns
  <2>3. /\ files' \in [Times -> Contents \union {Absent, Damaged}]
        /\ files'[t] \in {Absent, manifest[t]} /\ \A u \in Times \ {t} : files'[u] = files[u]
    BY <1>0, <2>2 DEF TypeOK, Frames
  <2>4. TypeOK'
    BY <1>0, <2>1, <2>3 DEF TypeOK, stored
  <2>5. ASSUME ~spoiled PROVE UnspoiledInv'
    <3>1. \A u \in Times : files'[u] \in {Absent, manifest'[u]}
      BY <1>0, <2>1, <2>3, <2>5 DEF UnspoiledInv
    <3>2. \A u, v \in Times : manifest'[u] # Absent /\ manifest'[v] # Absent =>
                               Grid(manifest'[u]) = Grid(manifest'[v])
      BY <1>0, <2>1, <2>5 DEF UnspoiledInv
    <3>3. QED BY <1>0, <2>1, <2>5, <3>1, <3>2, ManifestGrows DEF TypeOK
  <2>6. UnspoiledInv'
    BY <2>1, <2>5, SpoiledIsSound
  <2>7. QED BY <2>1, <2>4, <2>6, WorldKept DEF IInv
<1>4. CASE Revise \/ DamageFrame
  <2>1. UNCHANGED <<clock, stored, latest, run, command>> /\ spoiled' = TRUE /\ faults' \in 0..MaxFaults
    BY <1>0, <1>4 DEF Revise, DamageFrame, Fault, TypeOK
  <2>2. manifest' \in Frames /\ files' \in [Times -> Contents \union {Absent, Damaged}]
    <3>1. CASE Revise
      <4>1. PICK t \in Times, c \in Contents : /\ manifest' = [manifest EXCEPT ![t] = c]
                                              /\ files' = [files EXCEPT ![t] = c]
        BY <3>1 DEF Revise
      <4>2. QED BY <1>0, <4>1 DEF TypeOK, Frames
    <3>2. CASE DamageFrame
      <4>1. PICK t \in Times : files' = [files EXCEPT ![t] = Damaged] /\ UNCHANGED manifest
        BY <3>2 DEF DamageFrame
      <4>2. QED BY <1>0, <4>1 DEF TypeOK
    <3>3. QED BY <1>4, <3>1, <3>2
  <2>3. TypeOK'
    BY <1>0, <2>1, <2>2 DEF TypeOK, stored
  <2>4. QED BY <2>1, <2>3, WorldKept DEF IInv, UnspoiledInv
<1>5. QED BY <1>1, <1>2, <1>3, <1>4

(***************************************************************************)
(* What is stored only grows                                               *)
(***************************************************************************)
\* A window stays sound where no record and no score is taken away.
LEMMA WindowKept ==
  ASSUME NEW f, NEW as_of, NEW o, NEW w, w.leads \in Seq(Statuses),
         NEW old, NEW new, NEW oldScores, NEW newScores,
         WindowSound(f, as_of, o, w, old, oldScores), old # None => new # None,
         \A l \in Leads : oldScores[l] # NoScore => newScores[l] # NoScore
  PROVE  WindowSound(f, as_of, o, w, new, newScores)
<1>1. DOMAIN w.leads \subseteq Leads
  <2>1. Len(w.leads) <= Horizon /\ DOMAIN w.leads = 1..Len(w.leads) /\ Len(w.leads) \in Nat
    BY DEF WindowSound
  <2>2. QED BY <2>1 DEF Leads
<1>2. QED BY <1>1 DEF WindowSound

\* No record and no score is taken away.
Grows == \A o \in Times : /\ record[o] # None => record'[o] # None
                          /\ \A l \in Leads : scores[o][l] # NoScore => scores'[o][l] # NoScore

LEMMA LatestKept == ASSUME IInv, Grows, UNCHANGED latest PROVE LatestInv'
<1>1. latest \in Reports
  BY DEF IInv, TypeOK
<1>2. ASSUME NEW o \in Times
      PROVE  WindowSound(latest.frames, latest.as_of, o, latest.windows[o], record'[o], scores'[o])
  <2>1. WindowSound(latest.frames, latest.as_of, o, latest.windows[o], record[o], scores[o])
    BY DEF IInv, LatestInv
  <2>2. latest.windows[o].leads \in Seq(Statuses)
    BY <1>1 DEF Reports, Windows
  <2>3. QED BY <2>1, <2>2, WindowKept DEF Grows
<1>3. QED BY <1>2 DEF IInv, LatestInv

LEMMA WindowsKept ==
  ASSUME Grows, NEW r \in Runs, WindowsSound(r, record, scores)
  PROVE  WindowsSound(r, record', scores')
<1>1. ASSUME NEW o \in Times
      PROVE  WindowSound(r.frames, r.cutoff, o, r.windows[o], record'[o], scores'[o])
  <2>1. WindowSound(r.frames, r.cutoff, o, r.windows[o], record[o], scores[o])
    BY DEF WindowsSound
  <2>2. r.windows[o].leads \in Seq(Statuses)
    BY DEF Runs, Windows
  <2>3. QED BY <2>1, <2>2, WindowKept DEF Grows
<1>2. QED BY <1>1 DEF WindowsSound

\* Where nothing is done, nothing is claimed.
LEMMA NothingSound ==
  ASSUME NEW f, NEW as_of, NEW o, NEW forecast, NEW results
  PROVE  WindowSound(f, as_of, o, NoWindow, forecast, results)
<1>1. NoWindow.status = "none" /\ NoWindow.leads = <<>>
  BY DEF NoWindow
<1>2. Len(<<>>) = 0 /\ DOMAIN <<>> = {}
  OBVIOUS
<1>3. QED BY <1>1, <1>2 DEF WindowSound, LeadsMatch

LEMMA NothingStored ==
  /\ NoWindow \in [status : {"none", "input_gap", "input_file_missing", "open", "issued"},
                   leads : Seq(Statuses)]
  /\ Idle \in Runs /\ Idle.at = "idle" /\ Idle.cutoff = 0 /\ Idle.origin = 0 /\ Idle.seen = {}
  /\ \A t \in Times : Idle.frames[t] = Absent /\ Idle.windows[t] = NoWindow
  /\ NoCommand \in Commands /\ \A t \in Times : NoCommand.frames[t] = Absent
<1>1. <<>> \in Seq(Statuses)
  OBVIOUS
<1>2. NoWindow \in [status : {"none", "input_gap", "input_file_missing", "open", "issued"},
                    leads : Seq(Statuses)]
  BY <1>1 DEF NoWindow
<1>3. PICK f, w, nothing : f = [t \in Times |-> Absent] /\ w = [t \in Times |-> NoWindow]
                           /\ nothing = {}
  OBVIOUS
<1>4. f \in Frames /\ w \in Windows /\ nothing \in SUBSET Times
  BY <1>2, <1>3 DEF Frames, Windows
<1>5. Idle = [at |-> "idle", frames |-> f, cutoff |-> 0, origin |-> 0, new |-> 0,
              seen |-> nothing, windows |-> w]
  BY <1>3 DEF Idle
<1>6. 0 \in 0..MaxTime /\ 0 \in 0..MaxNew
  OBVIOUS
<1>7. Idle \in Runs
  BY <1>4, <1>5, <1>6 DEF Runs
<1>8. NoCommand = [frames |-> f, cutoff |-> 0]
  BY <1>3 DEF NoCommand
<1>9. NoCommand \in Commands
  BY <1>4, <1>6, <1>8 DEF Commands
<1>10. QED BY <1>2, <1>3, <1>5, <1>7, <1>8, <1>9

LEMMA IdleSound ==
  ASSUME NEW forecasts, NEW results PROVE RunSound(Idle) /\ WindowsSound(Idle, forecasts, results)
<1>1. RunSound(Idle)
  BY NothingStored DEF RunSound, Opened
<1>2. ASSUME NEW o \in Times
      PROVE  /\ WindowSound(Idle.frames, Idle.cutoff, o, Idle.windows[o], forecasts[o], results[o])
             /\ Idle.windows[o].status # "open" /\ Ahead(Idle, o)
  <2>1. o \in Nat /\ o > 0 /\ NoWindow.status # "open"
    BY DEF Times, NoWindow
  <2>2. QED BY <2>1, NothingStored, NothingSound DEF Ahead
<1>3. Idle.at \notin Opened /\ \A o \in Times : Idle.windows[o] = NoWindow
  BY NothingStored DEF Opened
<1>4. WindowsSound(Idle, forecasts, results)
  BY <1>2, <1>3 DEF WindowsSound
<1>5. QED BY <1>1, <1>4

(***************************************************************************)
(* A run that ends, and what is damaged after it                           *)
(***************************************************************************)
\* What is stored is about the frames of the manifest.
StoredSound ==
  /\ \A o \in Times : record[o] # None => /\ HasInputs(manifest, o)
                                          /\ record[o] = Inputs(manifest, o)
                                          /\ array[o] = record[o]
  /\ \A o \in Times, l \in Leads :
       scores[o][l] # NoScore => /\ HasInputs(manifest, o) /\ o + l \in Times
                                 /\ manifest[o + l] # Absent
                                 /\ scores[o][l] = ScoreOf(o, l)

\* What a command has read is part of the manifest.
CommandMoves ==
  \/ UNCHANGED command
  \/ command' \in Commands /\ \A t \in Times : command'.frames[t] \in {Absent, manifest[t]}

\* A step of the run, or of what befalls it and what it stored.
LEMMA Moves ==
  ASSUME IInv, UNCHANGED world, UNCHANGED latest, CommandMoves, faults' \in 0..MaxFaults,
         spoiled' \in BOOLEAN, spoiled => spoiled', ~spoiled' => StoredSound',
         array' \in [Times -> Arrays], record' \in [Times -> Arrays],
         scores' \in [Times -> [Leads -> Scores]], Grows, ScoresInv',
         NEW r \in Runs, run' = r,
         RunSound(r), WindowsSound(r, record', scores'),
         r.at \in {"array", "record"} =>
           record'[r.origin] = None /\ r.new < MaxNew /\ r.windows[r.origin].leads = <<>>,
         r.at = "record" => array'[r.origin] = Inputs(r.frames, r.origin),
         r.at = "score" => record'[r.origin] # None /\ Len(r.windows[r.origin].leads) < Horizon,
         \A t \in Times : r.frames[t] # Absent =>
                             r.frames[t] \in {run.frames[t], command.frames[t], manifest[t]}
  PROVE  IInv'
<1>1. UNCHANGED <<clock, manifest, files, latest>>
  BY DEF world
<1>2. TypeOK'
  BY <1>1 DEF IInv, TypeOK, CommandMoves
<1>3. LatestInv'
  BY LatestKept
<1>4. RunInv'
  BY <1>1 DEF RunInv, Expected, Origin
<1>5. UnspoiledInv'
  <2>1. CASE spoiled'
    BY <2>1, SpoiledIsSound
  <2>2. CASE ~spoiled'
    <3>1. Known(run.frames) /\ Known(command.frames) /\ Known(latest.frames)
      BY <2>2 DEF IInv, UnspoiledInv
    <3>2. Known(r.frames)' /\ Known(command.frames)' /\ Known(latest.frames)'
      BY <1>1, <3>1 DEF Known, CommandMoves
    <3>3. /\ \A t \in Times : files[t] \in {Absent, manifest[t]}
          /\ \A t, u \in Times : manifest[t] # Absent /\ manifest[u] # Absent =>
                                   Grid(manifest[t]) = Grid(manifest[u])
      BY <2>2 DEF IInv, UnspoiledInv
    <3>4. /\ \A t \in Times : files'[t] \in {Absent, manifest'[t]}
          /\ \A t, u \in Times : manifest'[t] # Absent /\ manifest'[u] # Absent =>
                                   Grid(manifest'[t]) = Grid(manifest'[u])
      BY <1>1, <3>3
    <3>5. QED BY <2>2, <3>2, <3>4 DEF UnspoiledInv, StoredSound
  <2>3. QED BY <2>1, <2>2
<1>6. QED BY <1>2, <1>3, <1>4, <1>5 DEF IInv

\* A step of the run that stores nothing.
LEMMA Stays ==
  ASSUME IInv, UNCHANGED world, UNCHANGED stored, UNCHANGED latest, UNCHANGED spoiled, CommandMoves,
         faults' \in 0..MaxFaults, NEW r \in Runs, run' = r,
         RunSound(r), WindowsSound(r, record, scores),
         r.at \in {"array", "record"} =>
           record[r.origin] = None /\ r.new < MaxNew /\ r.windows[r.origin].leads = <<>>,
         r.at = "record" => array[r.origin] = Inputs(r.frames, r.origin),
         r.at = "score" => record[r.origin] # None /\ Len(r.windows[r.origin].leads) < Horizon,
         \A t \in Times : r.frames[t] # Absent =>
                             r.frames[t] \in {run.frames[t], command.frames[t], manifest[t]}
  PROVE  IInv'
<1>1. UNCHANGED <<array, record, scores, manifest>>
  BY DEF world, stored
<1>2. Grows
  BY <1>1 DEF Grows
<1>3. ScoresInv'
  BY <1>1 DEF IInv, ScoresInv
<1>4. ~spoiled => StoredSound
  BY DEF IInv, UnspoiledInv, StoredSound
<1>5. StoredSound => StoredSound'
  BY <1>1 DEF StoredSound, ScoreOf
<1>6. /\ array' \in [Times -> Arrays] /\ record' \in [Times -> Arrays]
      /\ scores' \in [Times -> [Leads -> Scores]] /\ spoiled' \in BOOLEAN
  BY <1>1 DEF IInv, TypeOK
<1>7. QED BY <1>1, <1>2, <1>3, <1>4, <1>5, <1>6, Moves DEF CommandMoves

\* The run is killed, or ends in a ValueError.
LEMMA EndedSafety ==
  ASSUME IInv, UNCHANGED world, UNCHANGED stored, UNCHANGED latest, UNCHANGED spoiled, CommandMoves,
         faults' \in 0..MaxFaults, run' = Idle
  PROVE  IInv'
<1>1. PICK r : r = Idle
  OBVIOUS
<1>2. r \in Runs /\ r.at = "idle" /\ r.cutoff = 0 /\ r.seen = {}
      /\ \A t \in Times : r.frames[t] = Absent
  BY <1>1, NothingStored
<1>3. RunSound(r) /\ WindowsSound(r, record, scores)
  BY <1>1, IdleSound
<1>4. r.seen \subseteq Times
  BY <1>2 DEF IInv, TypeOK
<1>5. QED BY <1>1, <1>2, <1>3, <1>4, Stays DEF CommandMoves

\* An array, a record or a score is damaged.
LEMMA DamageSafety == ASSUME IInv, DamageStored PROVE IInv'
<1>0. UNCHANGED world /\ UNCHANGED latest /\ UNCHANGED run /\ UNCHANGED command /\ spoiled' = TRUE /\ run = Idle
      /\ faults' \in 0..MaxFaults /\ TypeOK /\ ScoresInv
  BY DEF DamageStored, Fault, IInv, TypeOK
<1>1. Broken \in Arrays /\ None \in Arrays /\ Broken # None
  BY DEF Arrays, Broken, None
<1>2. PICK bad : bad = [NoScore EXCEPT !.result = Damaged]
  OBVIOUS
<1>3. bad \in Scores /\ bad # NoScore /\ bad.forecast = None
  <2>1. bad = [forecast |-> None, target |-> Absent, result |-> Damaged]
    BY <1>2 DEF NoScore
  <2>2. bad.result = Damaged /\ NoScore.result = "none" /\ Damaged # "none"
    BY <2>1 DEF NoScore, Damaged
  <2>3. QED BY <1>1, <2>1, <2>2 DEF Scores
<1>4. /\ array' \in [Times -> Arrays] /\ record' \in [Times -> Arrays]
      /\ scores' \in [Times -> [Leads -> Scores]] /\ Grows /\ ScoresInv'
  <2>1. CASE \E o \in Times : /\ array[o] # None /\ array' = [array EXCEPT ![o] = Broken]
                              /\ UNCHANGED <<record, scores>>
    BY <1>0, <1>1, <2>1 DEF TypeOK, Grows, ScoresInv
  <2>2. CASE \E o \in Times : /\ record[o] # None /\ record' = [record EXCEPT ![o] = Broken]
                              /\ UNCHANGED <<array, scores>>
    BY <1>0, <1>1, <2>2 DEF TypeOK, Grows, ScoresInv
  <2>3. CASE \E o \in Times : /\ \E l \in Leads :
                                   /\ scores[o][l] # NoScore
                                   /\ scores' = [scores EXCEPT ![o][l] =
                                                   [NoScore EXCEPT !.result = Damaged]]
                              /\ UNCHANGED <<array, record>>
    <3>1. PICK o \in Times, l \in Leads : scores' = [scores EXCEPT ![o][l] = bad]
      BY <1>2, <2>3
    <3>2. UNCHANGED <<array, record>>
      BY <2>3
    <3>3. /\ scores' \in [Times -> [Leads -> Scores]] /\ scores'[o][l] = bad
          /\ \A a \in Times, k \in Leads : a # o \/ k # l => scores'[a][k] = scores[a][k]
      BY <1>0, <1>3, <3>1 DEF TypeOK
    <3>4. Grows
      BY <1>3, <3>2, <3>3 DEF Grows
    <3>5. ScoresInv'
      BY <1>0, <1>3, <3>3 DEF ScoresInv
    <3>6. QED BY <1>0, <3>2, <3>3, <3>4, <3>5 DEF TypeOK
  <2>4. QED BY <2>1, <2>2, <2>3 DEF DamageStored
<1>5. PICK r : r = Idle
  OBVIOUS
<1>6. r \in Runs /\ r.at = "idle" /\ r.cutoff = 0 /\ r.seen = {}
      /\ \A t \in Times : r.frames[t] = Absent
  BY <1>5, NothingStored
<1>7. RunSound(r) /\ WindowsSound(r, record', scores')
  BY <1>5, IdleSound
<1>8. r.seen \subseteq Times
  BY <1>0, <1>6 DEF TypeOK
<1>9. QED BY <1>0, <1>4, <1>5, <1>6, <1>7, <1>8, Moves DEF CommandMoves

(***************************************************************************)
(* The run, from origin to origin                                          *)
(***************************************************************************)
WindowType == [status : {"none", "input_gap", "input_file_missing", "open", "issued"},
               leads : Seq(Statuses)]

LEMMA StartSafety == ASSUME IInv, Start \/ StartWithAsOf \/ BeginOvertaken PROVE IInv'
<1>0. TypeOK /\ NoCommand \in Commands /\ \A t \in Times : NoCommand.frames[t] = Absent
  BY NothingStored DEF IInv
<1>1. PICK frames, cutoff :
        /\ cutoff \in 0..MaxTime /\ Begin(frames, cutoff) /\ frames \in {manifest, command.frames}
        /\ command' \in {command, NoCommand} /\ UNCHANGED faults
  <2>1. CASE Start \/ StartWithAsOf
    <3>1. PICK cutoff : StartAsOf(cutoff) /\ cutoff \in 0..MaxTime
      <4>1. CASE Start
        BY <1>0, <4>1 DEF Start, TypeOK
      <4>2. CASE StartWithAsOf
        BY <4>2 DEF StartWithAsOf, Times
      <4>3. QED BY <2>1, <4>1, <4>2
    <3>2. QED BY <3>1 DEF StartAsOf
  <2>2. CASE BeginOvertaken
    BY <1>0, <2>2 DEF BeginOvertaken, TypeOK, Commands
  <2>3. QED BY <2>1, <2>2
<1>2. PICK r : r = [Idle EXCEPT !.frames = frames, !.cutoff = cutoff]
  OBVIOUS
<1>3. PICK q : q = ToOrigin(r)
  OBVIOUS
<1>4. run' = q /\ UNCHANGED world /\ UNCHANGED stored /\ UNCHANGED latest /\ UNCHANGED spoiled
      /\ faults' \in 0..MaxFaults
  BY <1>0, <1>1, <1>2, <1>3 DEF Begin, TypeOK
<1>5. /\ r \in Runs /\ r.frames = frames /\ r.cutoff = cutoff /\ r.origin = 0 /\ r.seen = {}
      /\ \A o \in Times : r.windows[o] = NoWindow
  <2>1. Idle \in Runs /\ frames \in Frames /\ cutoff \in 0..MaxTime
    BY <1>0, <1>1, NothingStored DEF TypeOK, Commands
  <2>2. r \in Runs /\ r.frames = frames /\ r.cutoff = cutoff
    BY <1>2, <2>1 DEF Runs
  <2>3. r.origin = Idle.origin /\ r.seen = Idle.seen /\ r.windows = Idle.windows
    BY <1>2, <2>1 DEF Runs
  <2>4. QED BY <2>2, <2>3, NothingStored
<1>6. \A o \in Times :
        /\ WindowSound(r.frames, r.cutoff, o, r.windows[o], record[o], scores[o])
        /\ r.windows[o].status # "open" /\ ~(o <= r.origin)
  <2>1. NoWindow.status # "open" /\ \A o \in Times : ~(o <= 0)
    BY DEF NoWindow, Times
  <2>2. QED BY <1>5, <2>1, NothingSound
<1>7. /\ RunSound(q) /\ WindowsSound(q, record, scores) /\ q \in Runs
      /\ q.at \in {"window", "report"} /\ q.frames = r.frames /\ q.cutoff = r.cutoff
      /\ q.seen \subseteq r.seen
  BY <1>3, <1>5, <1>6, Advance
<1>8. CommandMoves
  BY <1>0, <1>1 DEF CommandMoves
<1>9. QED BY <1>1, <1>4, <1>5, <1>7, <1>8, Stays DEF CommandMoves

\* A command reads the manifest, or finds the lock held.
LEMMA CommandSafety == ASSUME IInv, Invoke \/ AlreadyRunning PROVE IInv'
<1>1. TypeOK /\ NoCommand \in Commands /\ \A t \in Times : NoCommand.frames[t] = Absent
  BY NothingStored DEF IInv
<1>2. /\ UNCHANGED world /\ UNCHANGED stored /\ UNCHANGED latest /\ UNCHANGED spoiled
      /\ UNCHANGED run /\ faults' \in 0..MaxFaults
  BY <1>1 DEF Invoke, AlreadyRunning, Fault, TypeOK
<1>3. command' \in Commands /\ \A t \in Times : command'.frames[t] \in {Absent, manifest[t]}
  <2>1. CASE Invoke
    <3>1. PICK cutoff \in Times : command' = [frames |-> manifest, cutoff |-> cutoff]
      BY <2>1 DEF Invoke
    <3>2. QED BY <1>1, <3>1 DEF TypeOK, Commands, Times
  <2>2. CASE AlreadyRunning
    BY <1>1, <2>2 DEF AlreadyRunning
  <2>3. QED BY <2>1, <2>2
<1>4. /\ run \in Runs /\ RunSound(run) /\ WindowsSound(run, record, scores)
      /\ run.at \in {"array", "record"} =>
           record[run.origin] = None /\ run.new < MaxNew /\ run.windows[run.origin].leads = <<>>
      /\ run.at = "record" => array[run.origin] = Inputs(run.frames, run.origin)
      /\ run.at = "score" =>
           record[run.origin] # None /\ Len(run.windows[run.origin].leads) < Horizon
  BY <1>1 DEF IInv, TypeOK, RunInv, Origin, Expected
<1>5. CommandMoves
  BY <1>3 DEF CommandMoves
<1>6. QED BY <1>2, <1>4, <1>5, Stays DEF CommandMoves

\* r is the run with the window of its origin finished: w.
Finished(r, w, results) ==
  /\ run.at \in {"window"} \union Opened /\ w \in WindowType
  /\ r \in Runs /\ r.frames = run.frames /\ r.cutoff = run.cutoff /\ r.origin = Origin
  /\ r.windows[Origin] = w /\ \A o \in Times \ {Origin} : r.windows[o] = run.windows[o]
  /\ WindowsSound(run, record, results)
  /\ WindowSound(run.frames, run.cutoff, Origin, w, record[Origin], results[Origin])
  /\ w.status # "open" /\ GapListed(run.frames, run.cutoff, Origin, w)
WentOn(r, q, results) ==
  /\ RunSound(q) /\ WindowsSound(q, record, results) /\ q \in Runs
  /\ q.at \in {"window", "report"} /\ q.frames = run.frames /\ q.cutoff = run.cutoff
  /\ q.seen \subseteq r.seen

\* The window of the origin is finished, and the run goes on to the next one.
LEMMA Finish ==
  ASSUME IInv, NEW w, NEW results, NEW r, Finished(r, w, results), NEW q, q = ToOrigin(r)
  PROVE  WentOn(r, q, results)
<1> USE DEF Finished
<1>1. Origin \in Times /\ run.windows \in Windows /\ run.at # "report"
  BY DEF IInv, RunInv, RunSound, TypeOK, Runs, Origin, Opened
<1>2. r.windows[Origin] = w /\ \A o \in Times \ {Origin} : r.windows[o] = run.windows[o]
  OBVIOUS
<1>3. ASSUME NEW o \in Times \ {Origin}
      PROVE  /\ WindowSound(r.frames, r.cutoff, o, r.windows[o], record[o], results[o])
             /\ r.windows[o].status # "open"
             /\ o > r.origin => r.windows[o] = NoWindow
             /\ o <= r.origin => GapListed(r.frames, r.cutoff, o, r.windows[o])
  <2>1. o \in Nat /\ Origin \in Nat /\ o # Origin /\ run.origin = Origin
    BY <1>1 DEF Times, Origin
  <2>2. /\ WindowSound(run.frames, run.cutoff, o, run.windows[o], record[o], results[o])
        /\ run.windows[o].status = "open" <=> o = run.origin /\ run.at \in Opened
        /\ Ahead(run, o) => run.windows[o] = NoWindow
        /\ ~Ahead(run, o) => GapListed(run.frames, run.cutoff, o, run.windows[o])
    BY DEF WindowsSound
  <2>3. Ahead(run, o) <=> o > Origin
    BY <1>1, <2>1 DEF Ahead
  <2>4. o <= Origin <=> ~(o > Origin)
    BY <2>1
  <2>5. QED BY <1>2, <2>1, <2>2, <2>3, <2>4
<1>4. \A o \in Times :
        /\ WindowSound(r.frames, r.cutoff, o, r.windows[o], record[o], results[o])
        /\ r.windows[o].status # "open"
        /\ o > r.origin => r.windows[o] = NoWindow
        /\ o <= r.origin => GapListed(r.frames, r.cutoff, o, r.windows[o])
  <2>1. ~(Origin > Origin)
    BY <1>1 DEF Times
  <2>2. QED BY <1>2, <1>3, <2>1
<1>5. /\ RunSound(q) /\ WindowsSound(q, record, results) /\ q \in Runs
      /\ q.at \in {"window", "report"} /\ q.frames = r.frames /\ q.cutoff = r.cutoff
      /\ q.seen \subseteq r.seen
  BY <1>4, Advance
<1>6. QED BY <1>5 DEF WentOn

\* The window the run is about to open is still empty.
LEMMA AtWindow ==
  ASSUME IInv, run.at = "window"
  PROVE  /\ run \in Runs /\ Origin \in Times /\ run.origin = Origin /\ run.frames \in Frames
         /\ run.windows \in Windows
         /\ run.frames[Origin] # Absent /\ Origin <= run.cutoff
         /\ run.seen \subseteq Times /\ run.windows[Origin] = NoWindow
         /\ WindowsSound(run, record, scores)
<1>1. /\ run \in Runs /\ run.origin = Origin /\ RunSound(run) /\ WindowsSound(run, record, scores)
      /\ run.seen \subseteq Times
  BY DEF IInv, TypeOK, RunInv, Runs, Origin
<1>2. Origin \in Times /\ run.frames[Origin] # Absent /\ Origin <= run.cutoff
  BY <1>1 DEF RunSound, Origin
<1>3. Ahead(run, Origin)
  BY <1>1 DEF Ahead
<1>4. run.windows[Origin] = NoWindow
  BY <1>1, <1>2, <1>3 DEF WindowsSound
<1>5. run.frames \in Frames /\ run.windows \in Windows
  BY <1>1 DEF Runs
<1>6. QED BY <1>1, <1>2, <1>4, <1>5

\* Its inputs are times of the event.
LEMMA InputsAreTimes ==
  ASSUME IInv, run.at = "window", HasInputs(run.frames, Origin) PROVE InputTimes \subseteq Times
<1>1. Origin \in Times /\ Origin >= InputLength
  BY AtWindow DEF HasInputs
<1>2. QED BY <1>1 DEF InputTimes, Times

\* A window is excluded, or deferred to a later run.
LEMMA LeaveSafety == ASSUME IInv, InputGap \/ Defer \/ InputFileMissing PROVE IInv'
<1>1. run.at = "window"
  BY DEF InputGap, Defer, InputFileMissing, WindowOpens
<1>2. /\ UNCHANGED world /\ UNCHANGED stored /\ UNCHANGED latest /\ UNCHANGED spoiled
      /\ UNCHANGED command
      /\ faults' \in 0..MaxFaults
  BY DEF InputGap, Defer, InputFileMissing, Exclude, Continue, IInv, TypeOK
<1>3. /\ run \in Runs /\ Origin \in Times /\ run.origin = Origin /\ run.frames \in Frames
      /\ run.windows \in Windows
      /\ run.frames[Origin] # Absent /\ Origin <= run.cutoff
      /\ run.seen \subseteq Times /\ run.windows[Origin] = NoWindow
      /\ WindowsSound(run, record, scores)
  BY <1>1, AtWindow
<1>4. ASSUME NEW status \in {"none", "input_gap", "input_file_missing"}, NEW seen \in SUBSET Times,
             status = "input_gap" <=> ~HasInputs(run.frames, Origin),
             run' = ToOrigin([run EXCEPT !.windows[Origin].status = status, !.seen = seen])
      PROVE  IInv'
  <2>1. PICK w : w = [status |-> status, leads |-> <<>>]
    OBVIOUS
  <2>2. w \in WindowType /\ w.status = status /\ w.leads = <<>>
    BY <2>1 DEF WindowType
  <2>3. [run.windows[Origin] EXCEPT !.status = status] = w
    BY <1>3, <2>1 DEF NoWindow
  <2>4. PICK r : r = [run EXCEPT !.windows[Origin].status = status, !.seen = seen]
    OBVIOUS
  <2>5. r = [run EXCEPT !.windows = [run.windows EXCEPT ![Origin] = w], !.seen = seen]
    BY <1>3, <2>3, <2>4 DEF Runs, Windows
  <2>6. [run.windows EXCEPT ![Origin] = w] \in Windows
    BY <1>3, <2>2 DEF Windows, WindowType
  <2>7. seen \in SUBSET Times
    BY <1>3 DEF Times
  <2>8. /\ r \in Runs /\ r.frames = run.frames /\ r.cutoff = run.cutoff /\ r.origin = Origin
        /\ r.windows = [run.windows EXCEPT ![Origin] = w] /\ r.seen = seen
    BY <1>3, <2>5, <2>6, <2>7 DEF Runs
  <2>9. r.windows[Origin] = w /\ \A o \in Times \ {Origin} : r.windows[o] = run.windows[o]
    BY <1>3, <2>8 DEF Windows
  <2>10. WindowSound(run.frames, run.cutoff, Origin, w, record[Origin], scores[Origin])
    <3>1. Len(<<>>) = 0 /\ DOMAIN <<>> = {}
      OBVIOUS
    <3>2. QED BY <1>3, <1>4, <2>2, <3>1 DEF WindowSound, LeadsMatch
  <2>11. w.status # "open" /\ GapListed(run.frames, run.cutoff, Origin, w)
    BY <1>4, <2>2 DEF GapListed
  <2>12. PICK q : q = ToOrigin(r)
    OBVIOUS
  <2>13. Finished(r, w, scores)
    BY <1>1, <1>3, <2>2, <2>8, <2>10, <2>11, <2>9 DEF Finished
  <2>14. WentOn(r, q, scores)
    BY <2>12, <2>13, Finish
  <2>15. q.seen \subseteq Times /\ run' = q
    BY <1>4, <2>4, <2>8, <2>12, <2>14 DEF WentOn
  <2>16. QED BY <1>2, <1>3, <2>15, <2>14, Stays DEF WentOn, CommandMoves
<1>5. CASE InputGap
  <2>1. run' = ToOrigin([run EXCEPT !.windows[Origin].status = "input_gap", !.seen = @ \union {}])
        /\ ~HasInputs(run.frames, Origin)
    BY <1>5 DEF InputGap, Exclude, Continue
  <2>2. run.seen \union {} \in SUBSET Times
    BY <1>3
  <2>3. QED BY <1>4, <2>1, <2>2
<1>6. CASE Defer
  <2>1. run' = ToOrigin(run) /\ HasInputs(run.frames, Origin)
    BY <1>6 DEF Defer, Continue
  <2>2. [run EXCEPT !.windows[Origin].status = "none", !.seen = run.seen] = run
    <3>1. [run.windows[Origin] EXCEPT !.status = "none"] = run.windows[Origin]
      BY <1>3 DEF NoWindow
    <3>2. [run.windows EXCEPT ![Origin].status = "none"] = run.windows
      BY <1>3, <3>1 DEF Windows
    <3>3. QED BY <1>3, <3>2 DEF Runs
  <2>3. QED BY <1>3, <1>4, <2>1, <2>2
<1>7. CASE InputFileMissing
  <2>1. PICK t \in FirstFailure :
          Exclude("input_file_missing", {u \in InputTimes : u < t})
    BY <1>7 DEF InputFileMissing
  <2>2. PICK read : read = run.seen \union {u \in InputTimes : u < t}
    OBVIOUS
  <2>3. run' = ToOrigin([run EXCEPT !.windows[Origin].status = "input_file_missing", !.seen = read])
    BY <2>1, <2>2 DEF Exclude, Continue
  <2>4. HasInputs(run.frames, Origin)
    BY <1>7 DEF InputFileMissing, WindowOpens
  <2>5. read \in SUBSET Times
    BY <1>1, <1>3, <2>2, <2>4, InputsAreTimes
  <2>6. QED BY <1>4, <2>3, <2>4, <2>5
<1>8. QED BY <1>5, <1>6, <1>7

(***************************************************************************)
(* The forecast of a window                                                *)
(***************************************************************************)
\* r is the run at an open window of the same origin.
Open(r, forecasts, results) ==
  /\ run.at \in {"window"} \union Opened
  /\ r \in Runs /\ r.at \in Opened
  /\ r.frames = run.frames /\ r.cutoff = run.cutoff /\ r.origin = Origin
  /\ r.windows[Origin].status = "open" /\ HasInputs(run.frames, Origin)
  /\ \A o \in Times \ {Origin} : r.windows[o] = run.windows[o]
  /\ WindowsSound(run, forecasts, results)
  /\ WindowSound(run.frames, run.cutoff, Origin, r.windows[Origin], forecasts[Origin],
                 results[Origin])

LEMMA OpenSound ==
  ASSUME IInv, NEW r, NEW forecasts, NEW results, Open(r, forecasts, results)
  PROVE  RunSound(r) /\ WindowsSound(r, forecasts, results)
<1> USE DEF Open
<1>1. /\ Origin \in Times /\ run.origin = Origin /\ run.frames[Origin] # Absent
      /\ Origin <= run.cutoff /\ run.at # "report" /\ r.at \notin {"idle", "window", "report"}
  BY DEF IInv, RunInv, RunSound, TypeOK, Runs, Origin, Opened
<1>2. RunSound(r)
  BY <1>1 DEF RunSound
<1>3. ASSUME NEW o \in Times \ {Origin}
      PROVE  /\ WindowSound(r.frames, r.cutoff, o, r.windows[o], forecasts[o], results[o])
             /\ r.windows[o].status # "open"
             /\ Ahead(r, o) => r.windows[o] = NoWindow
             /\ ~Ahead(r, o) => GapListed(r.frames, r.cutoff, o, r.windows[o])
  <2>1. /\ WindowSound(run.frames, run.cutoff, o, run.windows[o], forecasts[o], results[o])
        /\ run.windows[o].status = "open" <=> o = run.origin /\ run.at \in Opened
        /\ Ahead(run, o) => run.windows[o] = NoWindow
        /\ ~Ahead(run, o) => GapListed(run.frames, run.cutoff, o, run.windows[o])
    BY DEF WindowsSound
  <2>2. (Ahead(run, o) <=> o > Origin) /\ (Ahead(r, o) <=> o > Origin)
    BY <1>1 DEF Ahead
  <2>3. QED BY <1>1, <2>1, <2>2
<1>4. ~Ahead(r, Origin) /\ GapListed(r.frames, r.cutoff, Origin, r.windows[Origin])
  BY <1>1 DEF Ahead, GapListed, Times
<1>5. WindowsSound(r, forecasts, results)
  BY <1>1, <1>3, <1>4 DEF WindowsSound
<1>6. QED BY <1>2, <1>5

\* What is known of the window that is open.
LEMMA AtOpen ==
  ASSUME IInv, run.at \in Opened
  PROVE  /\ run \in Runs /\ Origin \in Times /\ run.origin = Origin /\ run.frames \in Frames
         /\ run.windows \in Windows /\ run.windows[Origin] \in WindowType
         /\ HasInputs(run.frames, Origin) /\ run.windows[Origin].status = "open"
         /\ Origin <= run.cutoff
         /\ run.seen \subseteq Times /\ WindowsSound(run, record, scores)
         /\ WindowSound(run.frames, run.cutoff, Origin, run.windows[Origin], record[Origin],
                        scores[Origin])
<1>1. /\ run \in Runs /\ run.origin = Origin /\ RunSound(run) /\ WindowsSound(run, record, scores)
      /\ run.seen \subseteq Times
  BY DEF IInv, TypeOK, RunInv, Runs, Origin
<1>2. Origin \in Times /\ Origin <= run.cutoff /\ HasInputs(run.frames, Origin)
  BY <1>1 DEF RunSound, Origin, Opened
<1>3. run.frames \in Frames /\ run.windows \in Windows
  BY <1>1 DEF Runs
<1>4. run.windows[Origin] \in WindowType
  BY <1>2, <1>3 DEF Windows, WindowType
<1>5. /\ WindowSound(run.frames, run.cutoff, Origin, run.windows[Origin], record[Origin],
                     scores[Origin])
      /\ run.windows[Origin].status = "open"
  BY <1>1, <1>2 DEF WindowsSound
<1>6. QED BY <1>1, <1>2, <1>3, <1>4, <1>5

\* The window of the origin is opened: its forecast is at hand, or has to be made.
LEMMA IssueSafety == ASSUME IInv, CachedForecast \/ NewForecast PROVE IInv'
<1>1. PICK at \in {"array", "score"} :
        /\ Issue(at) /\ (at = "array" <=> record[Origin] = None) /\ WindowOpens
  BY DEF CachedForecast, NewForecast, Committed
<1>2. /\ run.at = "window" /\ HasInputs(run.frames, Origin)
      /\ record[Origin] # None \/ run.new < MaxNew
  BY <1>1 DEF WindowOpens, Committed
<1>3. /\ UNCHANGED world /\ UNCHANGED stored /\ UNCHANGED latest /\ UNCHANGED spoiled
      /\ UNCHANGED command
      /\ faults' \in 0..MaxFaults
  BY <1>1 DEF Issue, Continue, IInv, TypeOK
<1>4. /\ run \in Runs /\ Origin \in Times /\ run.origin = Origin /\ run.frames \in Frames
      /\ run.windows \in Windows
      /\ run.frames[Origin] # Absent /\ Origin <= run.cutoff
      /\ run.seen \subseteq Times /\ run.windows[Origin] = NoWindow
      /\ WindowsSound(run, record, scores)
  BY <1>2, AtWindow
<1>5. PICK w : w = [status |-> "open", leads |-> <<>>]
  OBVIOUS
<1>6. w \in WindowType /\ w.status = "open" /\ w.leads = <<>>
  BY <1>5 DEF WindowType
<1>7. [run.windows[Origin] EXCEPT !.status = "open"] = w
  BY <1>4, <1>5 DEF NoWindow
<1>8. PICK read : read = run.seen \union InputTimes
  OBVIOUS
<1>9. read \in SUBSET Times
  BY <1>2, <1>4, <1>8, InputsAreTimes DEF Times
<1>10. PICK windows : windows = [run.windows EXCEPT ![Origin] = w]
  OBVIOUS
<1>11. /\ windows \in Windows /\ windows[Origin] = w
       /\ \A o \in Times \ {Origin} : windows[o] = run.windows[o]
  BY <1>4, <1>6, <1>10 DEF Windows, WindowType
<1>12. PICK r : r = [run EXCEPT !.at = at, !.seen = read, !.windows = windows]
  OBVIOUS
<1>13. run' = r
  <2>1. run' = [run EXCEPT !.at = at, !.seen = read, !.windows[Origin].status = "open"]
    BY <1>1, <1>8 DEF Issue, Continue
  <2>2. windows = [run.windows EXCEPT ![Origin].status = "open"]
    BY <1>4, <1>7, <1>10 DEF Windows
  <2>3. QED BY <1>4, <1>12, <2>1, <2>2 DEF Runs
<1>14. /\ r \in Runs /\ r.at = at /\ r.frames = run.frames /\ r.cutoff = run.cutoff
       /\ r.origin = Origin /\ r.new = run.new /\ r.seen = read /\ r.windows = windows
  BY <1>1, <1>4, <1>9, <1>11, <1>12 DEF Runs
<1>15. Len(w.leads) = 0 /\ DOMAIN w.leads = {}
  BY <1>6
<1>16. WindowSound(run.frames, run.cutoff, Origin, w, record[Origin], scores[Origin])
  BY <1>2, <1>4, <1>6, <1>15 DEF WindowSound, LeadsMatch
<1>17. Open(r, record, scores)
  BY <1>2, <1>4, <1>6, <1>11, <1>14, <1>16 DEF Open, Opened
<1>18. RunSound(r) /\ WindowsSound(r, record, scores)
  BY <1>17, OpenSound
<1>19. /\ r.at \in {"array", "record"} =>
            record[r.origin] = None /\ r.new < MaxNew /\ r.windows[r.origin].leads = <<>>
       /\ r.at # "record"
       /\ r.at = "score" => record[r.origin] # None /\ Len(r.windows[r.origin].leads) < Horizon
  BY <1>1, <1>2, <1>6, <1>11, <1>14, <1>15
<1>20. QED BY <1>3, <1>4, <1>9, <1>13, <1>14, <1>18, <1>19, Stays DEF CommandMoves

\* The forecast of known frames is the forecast of the manifest.
LEMMA ForecastKnown ==
  ASSUME IInv, run.at \in Opened, ~spoiled
  PROVE  HasInputs(manifest, Origin) /\ Expected = Inputs(manifest, Origin)
<1>1. Known(run.frames) /\ manifest \in Frames
  BY DEF IInv, UnspoiledInv, TypeOK
<1>2. Origin \in Times /\ run.frames \in Frames /\ HasInputs(run.frames, Origin)
  BY AtOpen
<1>3. QED BY <1>1, <1>2, InputsKnown DEF Known, Expected

\* The array, and then its record.
LEMMA WriteSafety == ASSUME IInv, WriteArray \/ WriteRecord PROVE IInv'
<1>1. run.at \in Opened /\ run.at \in {"array", "record"} /\ record[Origin] = None
      /\ run.new < MaxNew /\ run.windows[Origin].leads = <<>>
  BY DEF WriteArray, WriteRecord, Opened, IInv, RunInv
<1>2. /\ UNCHANGED world /\ UNCHANGED latest /\ UNCHANGED command /\ UNCHANGED spoiled /\ UNCHANGED scores
      /\ faults' \in 0..MaxFaults
  BY DEF WriteArray, WriteRecord, Continue, IInv, TypeOK
<1>3. /\ run \in Runs /\ Origin \in Times /\ run.origin = Origin /\ run.frames \in Frames
      /\ run.windows \in Windows /\ run.windows[Origin] \in WindowType
      /\ HasInputs(run.frames, Origin) /\ run.windows[Origin].status = "open"
      /\ Origin <= run.cutoff
      /\ run.seen \subseteq Times /\ WindowsSound(run, record, scores)
      /\ WindowSound(run.frames, run.cutoff, Origin, run.windows[Origin], record[Origin],
                     scores[Origin])
  BY <1>1, AtOpen
<1>4. Expected \in [1..InputLength -> Contents] /\ Expected # None
  BY <1>3, InputsSound DEF Expected
<1>5. Expected \in Arrays
  BY <1>4 DEF Arrays
<1>6. /\ array \in [Times -> Arrays] /\ record \in [Times -> Arrays]
      /\ scores' \in [Times -> [Leads -> Scores]] /\ spoiled' \in BOOLEAN /\ ScoresInv
  BY <1>2 DEF IInv, TypeOK
<1>7. PICK at \in {"record", "score"}, new \in 0..MaxNew :
        /\ run' = [run EXCEPT !.at = at, !.new = new]
        /\ at = "record" => /\ array' = [array EXCEPT ![Origin] = Expected] /\ record' = record
                            /\ new < MaxNew
        /\ at = "score" => /\ record' = [record EXCEPT ![Origin] = Expected] /\ array' = array
                           /\ array[Origin] = Expected
  <2>1. CASE WriteArray
    <3>1. run' = [run EXCEPT !.at = "record", !.new = run.new] /\ run.new \in 0..MaxNew
      BY <1>3, <2>1 DEF WriteArray, Continue, Runs
    <3>2. QED BY <1>1, <2>1, <3>1 DEF WriteArray
  <2>2. CASE WriteRecord
    <3>1. run' = [run EXCEPT !.at = "score", !.new = run.new + 1] /\ run.new + 1 \in 0..MaxNew
      BY <1>1, <1>3, <2>2 DEF WriteRecord, Continue, Runs
    <3>2. array[Origin] = Expected
      BY <2>2 DEF WriteRecord, IInv, RunInv
    <3>3. QED BY <2>2, <3>1, <3>2 DEF WriteRecord
  <2>3. QED BY <2>1, <2>2
<1>8. PICK r : r = [run EXCEPT !.at = at, !.new = new]
  OBVIOUS
<1>9. /\ r \in Runs /\ r.at = at /\ r.frames = run.frames /\ r.cutoff = run.cutoff
      /\ r.origin = Origin /\ r.new = new /\ r.seen = run.seen /\ r.windows = run.windows
  BY <1>3, <1>7, <1>8 DEF Runs
<1>10. /\ array' \in [Times -> Arrays] /\ record' \in [Times -> Arrays]
       /\ \A o \in Times \ {Origin} : array'[o] = array[o] /\ record'[o] = record[o]
       /\ at = "record" => array'[Origin] = Expected /\ record'[Origin] = None
       /\ at = "score" => array'[Origin] = Expected /\ record'[Origin] = Expected
  BY <1>1, <1>3, <1>5, <1>6, <1>7
<1>11. Grows
  BY <1>1, <1>2, <1>10 DEF Grows
<1>12. ScoresInv'
  BY <1>2, <1>6 DEF ScoresInv
<1>13. ASSUME ~spoiled' PROVE StoredSound'
  <2>1. HasInputs(manifest, Origin) /\ Expected = Inputs(manifest, Origin) /\ UnspoiledInv
        /\ UNCHANGED manifest
    BY <1>1, <1>2, <1>13, ForecastKnown DEF world, IInv
  <2>2. \A o \in Times : record'[o] # None => /\ HasInputs(manifest, o)
                                              /\ record'[o] = Inputs(manifest, o)
                                              /\ array'[o] = record'[o]
    BY <1>2, <1>10, <1>13, <2>1 DEF UnspoiledInv
  <2>3. \A o \in Times, l \in Leads :
          scores'[o][l] # NoScore => /\ HasInputs(manifest, o) /\ o + l \in Times
                                    /\ manifest[o + l] # Absent
                                    /\ scores'[o][l] = ScoreOf(o, l)
    BY <1>2, <1>13, <2>1 DEF UnspoiledInv
  <2>4. \A o \in Times, l \in Leads : ScoreOf(o, l)' = ScoreOf(o, l)
    BY <2>1 DEF ScoreOf
  <2>5. QED BY <2>1, <2>2, <2>3, <2>4 DEF StoredSound
<1>14. WindowsSound(run, record', scores')
  BY <1>3, <1>11, WindowsKept
<1>15. WindowSound(run.frames, run.cutoff, Origin, run.windows[Origin], record'[Origin],
                   scores'[Origin])
  BY <1>3, <1>14 DEF WindowsSound
<1>16. Open(r, record', scores')
  BY <1>1, <1>3, <1>7, <1>9, <1>14, <1>15 DEF Open, Opened
<1>17. RunSound(r) /\ WindowsSound(r, record', scores')
  BY <1>16, OpenSound
<1>18. /\ r.at \in {"array", "record"} =>
            record'[r.origin] = None /\ r.new < MaxNew /\ r.windows[r.origin].leads = <<>>
       /\ r.at = "record" => array'[r.origin] = Inputs(r.frames, r.origin)
       /\ r.at = "score" => record'[r.origin] # None /\ Len(r.windows[r.origin].leads) < Horizon
  BY <1>1, <1>4, <1>7, <1>9, <1>10 DEF Expected
<1>19. QED BY <1>2, <1>3, <1>6, <1>7, <1>8, <1>9, <1>10, <1>11, <1>12, <1>13, <1>17, <1>18, Moves DEF CommandMoves

(***************************************************************************)
(* The scores of a window                                                  *)
(***************************************************************************)
\* The run after a lead got its status.
AfterLead(status, seen) ==
  LET r == [run EXCEPT !.windows[Origin].leads = Append(@, status), !.seen = @ \union seen] IN
    IF Lead < Horizon THEN r ELSE ToOrigin([r EXCEPT !.windows[Origin].status = "issued"])
\* What a status says of the target, and of the score.
StatusRight(status, results) ==
  /\ status \in Statuses
  /\ status = "pending" <=> ~Observed
  /\ status \in Settling =>
       /\ status = Outcome(Expected, run.frames[Target])
       /\ results[Origin][Lead] # NoScore
LeadAdded(q, results) ==
  /\ q \in Runs /\ RunSound(q) /\ WindowsSound(q, record, results)
  /\ q.cutoff = run.cutoff /\ q.frames = run.frames /\ q.seen \subseteq Times
  /\ q.at \in {"window", "score", "report"}
  /\ q.at = "score" => q.origin = Origin /\ Len(q.windows[Origin].leads) < Horizon

LEMMA AddLead ==
  ASSUME IInv, run.at = "score", NEW status, NEW results, StatusRight(status, results),
         NEW seen \in SUBSET Times, WindowsSound(run, record, results),
         NEW q, q = AfterLead(status, seen)
  PROVE  LeadAdded(q, results)
<1>1. /\ run \in Runs /\ Origin \in Times /\ run.origin = Origin
      /\ run.windows \in Windows /\ run.windows[Origin] \in WindowType
      /\ HasInputs(run.frames, Origin) /\ run.windows[Origin].status = "open"
      /\ Origin <= run.cutoff
      /\ run.seen \subseteq Times /\ run.at \in Opened
  BY AtOpen DEF Opened
<1>2. record[Origin] # None /\ Len(run.windows[Origin].leads) < Horizon
  BY DEF IInv, RunInv
<1>3. PICK leads : leads = run.windows[Origin].leads
  OBVIOUS
<1>4. PICK more : more = Append(leads, status)
  OBVIOUS
<1>5. leads \in Seq(Statuses) /\ Len(leads) \in Nat /\ status \in Statuses
      /\ DOMAIN leads = 1..Len(leads)
  BY <1>1, <1>3 DEF WindowType, StatusRight
<1>6. Lead = Len(leads) + 1 /\ Lead \in Nat /\ Lead >= 1 /\ Lead <= Horizon
  BY <1>2, <1>3, <1>5 DEF Lead
<1>7. /\ more \in Seq(Statuses) /\ Len(more) = Lead /\ DOMAIN more = 1..Lead /\ more # <<>>
      /\ \A l \in DOMAIN leads : more[l] = leads[l]
      /\ more[Lead] = status
      /\ \A l \in DOMAIN more : l \in DOMAIN leads \/ l = Lead
  <2>1. more \in Seq(Statuses) /\ Len(more) = Len(leads) + 1
        /\ \A l \in 1..Len(leads) : more[l] = leads[l]
    BY <1>4, <1>5
  <2>2. more[Len(leads) + 1] = status
    BY <1>4, <1>5
  <2>3. DOMAIN more = 1..Len(more)
    BY <2>1
  <2>4. more # <<>>
    BY <1>5, <2>1
  <2>5. \A l \in 1..Lead : l \in 1..Len(leads) \/ l = Lead
    BY <1>5, <1>6
  <2>6. QED BY <1>5, <1>6, <2>1, <2>2, <2>3, <2>4, <2>5
<1>8. WindowSound(run.frames, run.cutoff, Origin, run.windows[Origin], record[Origin],
                  results[Origin])
  BY <1>1 DEF WindowsSound
<1>9. LeadsMatch(run.frames, run.cutoff, Origin, more)
  <2>1. LeadsMatch(run.frames, run.cutoff, Origin, leads)
    BY <1>3, <1>8 DEF WindowSound
  <2>2. ASSUME NEW l \in DOMAIN more
        PROVE  LET observed == /\ Origin + l <= run.cutoff /\ Origin + l \in Times
                               /\ run.frames[Origin + l] # Absent IN
                 /\ more[l] = "pending" <=> ~observed
                 /\ more[l] \in {"scored", "no_common_valid_pixels"} =>
                      more[l] = Outcome(Inputs(run.frames, Origin), run.frames[Origin + l])
    <3>1. CASE l \in DOMAIN leads
      BY <1>7, <2>1, <3>1 DEF LeadsMatch
    <3>2. CASE l = Lead
      BY <1>7, <3>2 DEF StatusRight, Observed, Target, Settling, Expected
    <3>3. QED BY <1>7, <3>1, <3>2
  <2>3. QED BY <2>2 DEF LeadsMatch
<1>10. \A l \in DOMAIN more : more[l] \in Settling => results[Origin][l] # NoScore
  <2>1. \A l \in DOMAIN leads : leads[l] \in Settling => results[Origin][l] # NoScore
    BY <1>3, <1>8 DEF WindowSound
  <2>2. status \in Settling => results[Origin][Lead] # NoScore
    BY DEF StatusRight
  <2>3. QED BY <1>7, <2>1, <2>2
<1>11. run.frames[Origin] # Absent
  BY <1>1 DEF IInv, RunInv, RunSound
<1>12. PICK read : read = run.seen \union seen
  OBVIOUS
<1>13. read \in SUBSET Times
  <2>1. seen \subseteq Times /\ run.seen \subseteq Times
    BY <1>1
  <2>2. read \subseteq Times
    BY <1>12, <2>1
  <2>3. Times \subseteq Times
    BY <1>1 DEF Times
  <2>4. QED BY <2>2, <2>3
<1>14. PICK w : w = [run.windows[Origin] EXCEPT !.leads = more]
  OBVIOUS
<1>15. w \in WindowType /\ w.status = "open" /\ w.leads = more
  BY <1>1, <1>7, <1>14 DEF WindowType
<1>16. PICK r : r = [run EXCEPT !.windows[Origin].leads = Append(@, status), !.seen = @ \union seen]
  OBVIOUS
<1>17. r = [run EXCEPT !.windows = [run.windows EXCEPT ![Origin] = w], !.seen = read]
  BY <1>1, <1>3, <1>4, <1>12, <1>14, <1>16 DEF Runs, Windows
<1>18. /\ [run.windows EXCEPT ![Origin] = w] \in Windows
       /\ [run.windows EXCEPT ![Origin] = w][Origin] = w
       /\ \A o \in Times \ {Origin} : [run.windows EXCEPT ![Origin] = w][o] = run.windows[o]
  BY <1>1, <1>15 DEF Windows, WindowType
<1>19. /\ r \in Runs /\ r.at = "score" /\ r.frames = run.frames /\ r.cutoff = run.cutoff
       /\ r.origin = Origin /\ r.seen = read /\ r.windows[Origin] = w
       /\ \A o \in Times \ {Origin} : r.windows[o] = run.windows[o]
  BY <1>1, <1>13, <1>17, <1>18 DEF Runs
<1>20. WindowSound(run.frames, run.cutoff, Origin, w, record[Origin], results[Origin])
  BY <1>1, <1>6, <1>7, <1>9, <1>10, <1>11, <1>15 DEF WindowSound
<1>21. CASE Lead < Horizon
  <2>1. q = r
    BY <1>16, <1>21 DEF AfterLead
  <2>2. Open(r, record, results)
    BY <1>1, <1>15, <1>19, <1>20 DEF Open, Opened
  <2>3. RunSound(r) /\ WindowsSound(r, record, results)
    BY <2>2, OpenSound
  <2>4. QED BY <1>7, <1>13, <1>15, <1>19, <1>21, <2>1, <2>3 DEF LeadAdded
<1>22. CASE ~(Lead < Horizon)
  <2>1. Lead = Horizon
    BY <1>6, <1>22
  <2>2. PICK z : z = [w EXCEPT !.status = "issued"]
    OBVIOUS
  <2>3. z \in WindowType /\ z.status = "issued" /\ z.leads = more
    BY <1>15, <2>2 DEF WindowType
  <2>4. PICK p : p = [r EXCEPT !.windows[Origin].status = "issued"]
    OBVIOUS
  <2>5. p = [r EXCEPT !.windows = [r.windows EXCEPT ![Origin] = z]] /\ r.windows \in Windows
    BY <1>19, <2>2, <2>4 DEF Runs, Windows
  <2>6. /\ [r.windows EXCEPT ![Origin] = z] \in Windows
        /\ [r.windows EXCEPT ![Origin] = z][Origin] = z
        /\ \A o \in Times \ {Origin} : [r.windows EXCEPT ![Origin] = z][o] = r.windows[o]
    BY <1>1, <2>3, <2>5 DEF Windows, WindowType
  <2>7. /\ p \in Runs /\ p.frames = run.frames /\ p.cutoff = run.cutoff /\ p.origin = Origin
        /\ p.seen = read /\ p.windows[Origin] = z
        /\ \A o \in Times \ {Origin} : p.windows[o] = run.windows[o]
    BY <1>19, <2>5, <2>6 DEF Runs
  <2>8. WindowSound(run.frames, run.cutoff, Origin, z, record[Origin], results[Origin])
    BY <1>1, <1>2, <1>7, <1>9, <1>10, <1>11, <2>1, <2>3 DEF WindowSound
  <2>9. z.status # "open" /\ GapListed(run.frames, run.cutoff, Origin, z)
    BY <1>1, <2>3 DEF GapListed
  <2>10. Finished(p, z, results)
    BY <1>1, <2>3, <2>7, <2>8, <2>9 DEF Finished
  <2>11. q = ToOrigin(p)
    BY <1>16, <1>22, <2>4 DEF AfterLead
  <2>12. WentOn(p, q, results)
    BY <2>10, <2>11, Finish
  <2>13. QED BY <1>13, <2>7, <2>12 DEF WentOn, LeadAdded
<1>23. QED BY <1>21, <1>22

\* The lead that is scored next, and its target.
LEMMA AtScore ==
  ASSUME IInv, run.at = "score"
  PROVE  /\ Lead \in Leads /\ Target = Origin + Lead /\ Origin \in Times
         /\ Expected \in [1..InputLength -> Contents] /\ Expected # None /\ Forecast = Expected
         /\ run.at \in Opened /\ record[Origin] # None
         /\ Observed => /\ Target \in Times
                        /\ run.frames[Target] \in Contents
<1>1. /\ run \in Runs /\ Origin \in Times /\ run.frames \in Frames
      /\ run.windows[Origin] \in WindowType /\ HasInputs(run.frames, Origin)
      /\ run.at \in Opened
  BY AtOpen DEF Opened
<1>2. record[Origin] # None /\ Len(run.windows[Origin].leads) < Horizon
  BY DEF IInv, RunInv
<1>3. Len(run.windows[Origin].leads) \in Nat
  BY <1>1 DEF WindowType
<1>4. Lead \in Leads
  BY <1>2, <1>3 DEF Lead, Leads
<1>5. Expected \in [1..InputLength -> Contents] /\ Expected # None /\ Forecast = Expected
  BY <1>1, InputsSound DEF Expected, Forecast
<1>6. ASSUME Observed
      PROVE  Target \in Times /\ run.frames[Target] \in Contents
  <2>1. Target \in Times /\ Target <= run.cutoff /\ run.frames[Target] # Absent
    BY <1>6 DEF Observed
  <2>2. run.frames[Target] \in Contents
    BY <1>1, <2>1 DEF Frames
  <2>3. QED BY <2>1, <2>2
<1>7. QED BY <1>1, <1>2, <1>4, <1>5, <1>6 DEF Target

\* A lead that stores nothing: it is pending, its target is gone, or its score is there.
LEMMA LeadSafety == ASSUME IInv, ScorePending \/ TargetFileMissing \/ ScoreCached PROVE IInv'
<1>1. run.at = "score"
  BY DEF ScorePending, TargetFileMissing, ScoreCached
<1>2. /\ UNCHANGED world /\ UNCHANGED stored /\ UNCHANGED latest /\ UNCHANGED spoiled
      /\ UNCHANGED command
      /\ faults' \in 0..MaxFaults
  BY DEF ScorePending, TargetFileMissing, ScoreCached, LeadIs, Continue, IInv, TypeOK
<1>3. WindowsSound(run, record, scores)
  BY <1>1 DEF IInv, RunInv
<1>4. ASSUME NEW status, StatusRight(status, scores), NEW seen \in SUBSET Times,
             LeadIs(status, seen)
      PROVE  IInv'
  <2>1. PICK q : q = AfterLead(status, seen)
    OBVIOUS
  <2>2. run' = q
    BY <1>4, <2>1 DEF LeadIs, Continue, AfterLead
  <2>3. LeadAdded(q, scores)
    BY <1>1, <1>3, <1>4, <2>1, AddLead
  <2>4. /\ q \in Runs /\ RunSound(q) /\ WindowsSound(q, record, scores)
        /\ q.seen \subseteq Times /\ q.frames = run.frames
        /\ q.at \in {"window", "score", "report"}
        /\ q.at = "score" => /\ record[q.origin] # None
                             /\ Len(q.windows[q.origin].leads) < Horizon
    BY <1>1, <1>3, <2>3, AtScore DEF LeadAdded
  <2>5. q.at \notin {"array", "record"}
    BY <2>4
  <2>6. QED BY <1>2, <2>2, <2>4, <2>5, Stays DEF CommandMoves
<1>5. CASE ScorePending
  <2>1. StatusRight("pending", scores)
    BY <1>5 DEF ScorePending, StatusRight, Statuses, Settling
  <2>2. LeadIs("pending", {})
    BY <1>5 DEF ScorePending
  <2>3. QED BY <1>4, <2>1, <2>2
<1>6. CASE TargetFileMissing
  <2>1. StatusRight("target_file_missing", scores)
    BY <1>6 DEF TargetFileMissing, StatusRight, Statuses, Settling
  <2>2. LeadIs("target_file_missing", {})
    BY <1>6 DEF TargetFileMissing
  <2>3. QED BY <1>4, <2>1, <2>2
<1>7. CASE ScoreCached
  <2>1. /\ Saved # NoScore /\ Saved.forecast = Expected /\ Saved.target = run.frames[Target]
        /\ LeadIs(Saved.result, {Target}) /\ Observed
    BY <1>1, <1>7, AtScore DEF ScoreCached, SavedMatches
  <2>2. Lead \in Leads /\ Origin \in Times /\ Expected # None /\ Target \in Times
    BY <1>1, <2>1, AtScore
  <2>3. Saved.result = Outcome(Saved.forecast, Saved.target)
    BY <2>1, <2>2 DEF IInv, ScoresInv, Saved
  <2>4. Saved.result \in Settling
    BY <2>3 DEF Outcome, Settling
  <2>5. Saved.result \in Statuses /\ Saved.result # "pending"
    BY <2>4 DEF Settling, Statuses
  <2>6. StatusRight(Saved.result, scores)
    BY <2>1, <2>3, <2>4, <2>5 DEF StatusRight, Saved
  <2>7. {Target} \in SUBSET Times
    BY <2>2
  <2>8. QED BY <1>4, <2>1, <2>6, <2>7
<1>8. QED BY <1>5, <1>6, <1>7

\* A new score is computed from the forecast and the target, and saved.
LEMMA ScoreSafety == ASSUME IInv, ScoreNew PROVE IInv'
<1>1. /\ run.at = "score" /\ Observed /\ Saved = NoScore
      /\ UNCHANGED array /\ UNCHANGED record
  BY DEF ScoreNew
<1>2. /\ UNCHANGED world /\ UNCHANGED latest /\ UNCHANGED command /\ UNCHANGED spoiled /\ faults' \in 0..MaxFaults
  BY DEF ScoreNew, LeadIs, Continue, IInv, TypeOK
<1>3. /\ WindowsSound(run, record, scores) /\ run \in Runs
      /\ array \in [Times -> Arrays] /\ record \in [Times -> Arrays]
      /\ scores \in [Times -> [Leads -> Scores]] /\ spoiled \in BOOLEAN /\ ScoresInv
  BY <1>1 DEF IInv, RunInv, TypeOK
<1>4. /\ Lead \in Leads /\ Target = Origin + Lead /\ Origin \in Times
      /\ Expected \in [1..InputLength -> Contents] /\ Expected # None /\ Forecast = Expected
      /\ run.at \in Opened /\ record[Origin] # None
      /\ Target \in Times /\ run.frames[Target] \in Contents
  BY <1>1, AtScore
<1>5. PICK result : result = Outcome(Expected, run.frames[Target])
  OBVIOUS
<1>6. result \in Settling /\ result \in Statuses /\ result # "pending"
  BY <1>5 DEF Outcome, Settling, Statuses
<1>7. PICK score : score = [forecast |-> Expected, target |-> run.frames[Target], result |-> result]
  OBVIOUS
<1>8. score \in Scores /\ score # NoScore /\ score.forecast = Expected
      /\ score.target = run.frames[Target] /\ score.result = result
  BY <1>4, <1>6, <1>7 DEF Scores, Arrays, NoScore
<1>9. scores' = [scores EXCEPT ![Origin][Lead] = score] /\ LeadIs(result, {Target})
  BY <1>4, <1>5, <1>7 DEF ScoreNew
<1>10. /\ scores' \in [Times -> [Leads -> Scores]] /\ scores'[Origin][Lead] = score
       /\ \A o \in Times, l \in Leads : o # Origin \/ l # Lead => scores'[o][l] = scores[o][l]
  BY <1>3, <1>4, <1>8, <1>9
<1>11. Grows
  BY <1>1, <1>8, <1>10 DEF Grows
<1>12. ScoresInv'
  BY <1>3, <1>5, <1>8, <1>10 DEF ScoresInv
<1>13. ASSUME ~spoiled' PROVE StoredSound'
  <2>1. HasInputs(manifest, Origin) /\ Expected = Inputs(manifest, Origin) /\ UnspoiledInv
        /\ UNCHANGED manifest /\ ~spoiled
    BY <1>2, <1>4, <1>13, ForecastKnown DEF world, IInv
  <2>2. manifest[Target] = run.frames[Target] /\ run.frames[Target] # Absent
    BY <1>1, <1>4, <2>1 DEF UnspoiledInv, Known, Observed
  <2>3. score = ScoreOf(Origin, Lead)
    BY <1>4, <1>5, <1>7, <2>1, <2>2 DEF ScoreOf
  <2>4. \A o \in Times : record'[o] # None => /\ HasInputs(manifest, o)
                                              /\ record'[o] = Inputs(manifest, o)
                                              /\ array'[o] = record'[o]
    BY <1>1, <2>1 DEF UnspoiledInv
  <2>5. ASSUME NEW o \in Times, NEW l \in Leads, scores'[o][l] # NoScore
        PROVE  /\ HasInputs(manifest, o) /\ o + l \in Times /\ manifest[o + l] # Absent
               /\ scores'[o][l] = ScoreOf(o, l)
    <3>1. CASE o = Origin /\ l = Lead
      BY <1>4, <1>10, <2>1, <2>2, <2>3, <3>1
    <3>2. CASE o # Origin \/ l # Lead
      <4>1. scores'[o][l] = scores[o][l]
        BY <1>10, <3>2
      <4>2. QED BY <2>1, <2>5, <4>1 DEF UnspoiledInv
    <3>3. QED BY <3>1, <3>2
  <2>6. \A o \in Times, l \in Leads : ScoreOf(o, l)' = ScoreOf(o, l)
    BY <2>1 DEF ScoreOf
  <2>7. QED BY <2>1, <2>4, <2>5, <2>6 DEF StoredSound
<1>14. WindowsSound(run, record, scores')
  BY <1>1, <1>3, <1>11, WindowsKept
<1>15. StatusRight(result, scores')
  BY <1>1, <1>5, <1>6, <1>8, <1>10 DEF StatusRight
<1>16. {Target} \in SUBSET Times
  BY <1>4
<1>17. PICK q : q = AfterLead(result, {Target})
  OBVIOUS
<1>18. run' = q
  BY <1>9, <1>17 DEF LeadIs, Continue, AfterLead
<1>19. LeadAdded(q, scores')
  BY <1>1, <1>14, <1>15, <1>16, <1>17, AddLead
<1>20. /\ q \in Runs /\ RunSound(q) /\ WindowsSound(q, record', scores')
       /\ q.seen \subseteq Times /\ q.frames = run.frames
       /\ q.at \in {"window", "score", "report"}
       /\ q.at = "score" => /\ record'[q.origin] # None
                            /\ Len(q.windows[q.origin].leads) < Horizon
  BY <1>1, <1>3, <1>4, <1>19 DEF LeadAdded
<1>21. q.at \notin {"array", "record"} /\ array' \in [Times -> Arrays]
       /\ record' \in [Times -> Arrays] /\ spoiled' \in BOOLEAN /\ (spoiled => spoiled')
  BY <1>1, <1>2, <1>3, <1>20
<1>22. QED BY <1>2, <1>10, <1>11, <1>12, <1>13, <1>18, <1>20, <1>21, Moves DEF CommandMoves

(***************************************************************************)
(* The report, and the invariant                                           *)
(***************************************************************************)
LEMMA ReportSafety == ASSUME IInv, Report PROVE IInv'
<1>1. /\ run.at = "report" /\ UNCHANGED world /\ UNCHANGED stored /\ UNCHANGED faults
      /\ UNCHANGED spoiled /\ UNCHANGED command /\ run' = Idle
  BY DEF Report
<1>2. UNCHANGED <<clock, manifest, files, array, record, scores>>
  BY <1>1 DEF world, stored
<1>3. TypeOK /\ run \in Runs /\ RunSound(run) /\ WindowsSound(run, record, scores)
  BY DEF IInv, TypeOK, RunInv
<1>4. /\ latest' \in Reports /\ latest'.as_of = run.cutoff /\ latest'.frames = run.frames
      /\ latest'.windows = run.windows
  <2>1. latest' = [as_of |-> run.cutoff, frames |-> run.frames, windows |-> run.windows]
    BY DEF Report
  <2>2. QED BY <1>3, <2>1 DEF Runs, Reports
<1>5. TypeOK'
  BY <1>1, <1>2, <1>3, <1>4, NothingStored DEF TypeOK
<1>6. LatestInv'
  <2>1. ASSUME NEW o \in Times
        PROVE  LET w == run.windows[o] IN
                 /\ WindowSound(run.frames, run.cutoff, o, w, record[o], scores[o])
                 /\ w.status # "open" /\ GapListed(run.frames, run.cutoff, o, w)
    <3>1. run.at \notin Opened /\ ~Ahead(run, o)
      BY <1>1 DEF Opened, Ahead
    <3>2. QED BY <1>3, <3>1 DEF WindowsSound
  <2>2. QED BY <1>2, <1>4, <2>1 DEF LatestInv
<1>7. RunInv'
  <2>1. PICK r : r = Idle
    OBVIOUS
  <2>2. r \in Runs /\ r.at = "idle" /\ r.cutoff = 0 /\ r.seen = {}
    BY <2>1, NothingStored
  <2>3. RunSound(r) /\ WindowsSound(r, record', scores')
    BY <2>1, IdleSound
  <2>4. run' = r
    BY <1>1, <1>2, <1>3, <2>1
  <2>5. QED BY <2>2, <2>3, <2>4 DEF RunInv
<1>8. ScoresInv'
  BY <1>2 DEF IInv, ScoresInv
<1>9. UnspoiledInv'
  <2>1. CASE spoiled'
    BY <2>1, SpoiledIsSound
  <2>2. CASE ~spoiled'
    <3>1. Known(run.frames) /\ Known(command.frames) /\ ~spoiled /\ UnspoiledInv
      BY <1>1, <2>2 DEF IInv, UnspoiledInv
    <3>2. Known(latest.frames)'
      BY <1>2, <1>4, <3>1 DEF Known
    <3>3. \A t \in Times : run'.frames[t] = Absent
      BY <1>1, NothingStored
    <3>4. Known(run.frames)' /\ Known(command.frames)'
      BY <1>1, <1>2, <3>1, <3>3 DEF Known
    <3>5. StoredSound /\ (StoredSound => StoredSound')
      BY <1>2, <3>1 DEF UnspoiledInv, StoredSound, ScoreOf
    <3>6. /\ \A t \in Times : files'[t] \in {Absent, manifest'[t]}
          /\ \A t, u \in Times : manifest'[t] # Absent /\ manifest'[u] # Absent =>
                                   Grid(manifest'[t]) = Grid(manifest'[u])
      BY <1>2, <3>1 DEF UnspoiledInv
    <3>7. QED BY <3>2, <3>4, <3>5, <3>6 DEF UnspoiledInv, StoredSound
  <2>3. QED BY <2>1, <2>2
<1>10. QED BY <1>5, <1>6, <1>7, <1>8, <1>9 DEF IInv

LEMMA IInvInit == Init => IInv
<1> SUFFICES ASSUME Init PROVE IInv
  OBVIOUS
<1>1. /\ \A t \in Times : manifest[t] = Absent /\ files[t] = Absent
      /\ \A o \in Times : array[o] = None /\ record[o] = None
      /\ \A o \in Times, l \in Leads : scores[o][l] = NoScore
      /\ latest.as_of = 0 /\ \A o \in Times : latest.frames[o] = Absent
      /\ \A o \in Times : latest.windows[o] = NoWindow
      /\ run = Idle /\ command = NoCommand /\ clock = 0
  BY DEF Init, NoReport
<1>2. None \in Arrays /\ NoScore \in Scores /\ NoScore.forecast = None
  BY DEF Arrays, Scores, NoScore
<1>3. NoReport \in Reports
  <2>1. PICK f, w : f = [t \in Times |-> Absent] /\ w = [t \in Times |-> NoWindow]
    OBVIOUS
  <2>2. f \in Frames /\ w \in Windows
    BY <2>1, NothingStored DEF Frames, Windows
  <2>3. NoReport = [as_of |-> 0, frames |-> f, windows |-> w] /\ 0 \in 0..MaxTime
    BY <2>1 DEF NoReport
  <2>4. QED BY <2>2, <2>3 DEF Reports
<1>4. TypeOK
  <2>1. clock \in 0..MaxTime /\ faults \in 0..MaxFaults /\ spoiled \in BOOLEAN
    <3>1. clock = 0 /\ faults = 0 /\ 0 \in 0..MaxTime /\ 0 \in 0..MaxFaults
      BY DEF Init
    <3>2. spoiled \in BOOLEAN
      BY DEF Init
    <3>3. QED BY <3>1, <3>2
  <2>2. manifest \in Frames /\ files \in [Times -> Contents \union {Absent, Damaged}]
    BY DEF Init, Frames
  <2>3. /\ array \in [Times -> Arrays] /\ record \in [Times -> Arrays]
        /\ scores \in [Times -> [Leads -> Scores]]
    BY <1>2 DEF Init
  <2>4. latest \in Reports /\ run \in Runs /\ command \in Commands
    BY <1>3, NothingStored DEF Init
  <2>5. QED BY <2>1, <2>2, <2>3, <2>4 DEF TypeOK
<1>5. LatestInv
  <2>1. NoWindow.status # "open"
    BY DEF NoWindow
  <2>2. QED BY <1>1, <2>1, NothingSound DEF LatestInv, GapListed
<1>6. RunInv
  <2>1. PICK r : r = Idle
    OBVIOUS
  <2>2. r \in Runs /\ r.at = "idle" /\ r.cutoff = 0 /\ r.seen = {}
    BY <2>1, NothingStored
  <2>3. RunSound(r) /\ WindowsSound(r, record, scores)
    BY <2>1, IdleSound
  <2>4. QED BY <1>1, <2>1, <2>2, <2>3 DEF RunInv
<1>7. ScoresInv
  BY <1>1, <1>2 DEF ScoresInv
<1>8. UnspoiledInv
  <2>1. Known(run.frames) /\ Known(command.frames) /\ Known(latest.frames)
    BY <1>1, NothingStored DEF Known
  <2>2. QED BY <1>1, <2>1 DEF UnspoiledInv
<1>9. QED BY <1>4, <1>5, <1>6, <1>7, <1>8 DEF IInv

LEMMA IInvStep == IInv /\ [Next]_vars => IInv'
<1> SUFFICES ASSUME IInv, [Next]_vars PROVE IInv'
  OBVIOUS
<1>1. CASE Tick \/ Capture \/ LoseFile \/ FileReturns \/ Revise \/ DamageFrame
  BY <1>1, WorldSafety
<1>2. CASE DamageStored
  BY <1>2, DamageSafety
<1>3. CASE Kill \/ InputRefused \/ TargetRefused
  <2>1. /\ UNCHANGED world /\ UNCHANGED stored /\ UNCHANGED latest /\ UNCHANGED spoiled
        /\ UNCHANGED command
        /\ run' = Idle /\ faults' \in 0..MaxFaults
    BY <1>3 DEF Kill, InputRefused, TargetRefused, Abort, Fault, IInv, TypeOK
  <2>2. QED BY <2>1, EndedSafety DEF CommandMoves
<1>4. CASE Start \/ StartWithAsOf \/ BeginOvertaken
  BY <1>4, StartSafety
<1>5. CASE InputGap \/ Defer \/ InputFileMissing
  BY <1>5, LeaveSafety
<1>6. CASE CachedForecast \/ NewForecast
  BY <1>6, IssueSafety
<1>7. CASE WriteArray \/ WriteRecord
  BY <1>7, WriteSafety
<1>8. CASE ScorePending \/ TargetFileMissing \/ ScoreCached
  BY <1>8, LeadSafety
<1>9. CASE ScoreNew
  BY <1>9, ScoreSafety
<1>10. CASE Report
  BY <1>10, ReportSafety
<1>11. CASE UNCHANGED vars
  <2>1. /\ UNCHANGED <<clock, manifest, files, array, record, scores, latest, run, command, faults, spoiled>>
    BY <1>11 DEF vars, world, stored
  <2>2. TypeOK' /\ LatestInv' /\ ScoresInv'
    BY <2>1 DEF IInv, TypeOK, LatestInv, ScoresInv
  <2>3. RunInv'
    BY <2>1 DEF IInv, RunInv, Expected, Origin
  <2>4. UnspoiledInv'
    BY <2>1 DEF IInv, UnspoiledInv, Known, ScoreOf
  <2>5. QED BY <2>2, <2>3, <2>4 DEF IInv
<1>12. CASE Invoke \/ AlreadyRunning
  BY <1>12, CommandSafety
<1>13. QED
  BY <1>1, <1>2, <1>3, <1>4, <1>5, <1>6, <1>7, <1>8, <1>9, <1>10, <1>11, <1>12 DEF Next, Step

(***************************************************************************)
(* What the invariant says of a report                                     *)
(***************************************************************************)
LEMMA ReportIsRight == IInv => ReportMatchesManifest
<1> SUFFICES ASSUME IInv, NEW o \in Times
             PROVE  LET w == latest.windows[o] IN
                      /\ w.status # "none" => o <= latest.as_of /\ latest.frames[o] # Absent
                      /\ w.status = "input_gap" <=> /\ o <= latest.as_of
                                                    /\ latest.frames[o] # Absent
                                                    /\ ~HasInputs(latest.frames, o)
                      /\ w.status = "issued" => Len(w.leads) = Horizon
                      /\ LeadsMatch(latest.frames, latest.as_of, o, w.leads)
  BY DEF ReportMatchesManifest
<1>1. /\ WindowSound(latest.frames, latest.as_of, o, latest.windows[o], record[o], scores[o])
      /\ GapListed(latest.frames, latest.as_of, o, latest.windows[o])
  BY DEF IInv, LatestInv
<1>2. QED BY <1>1 DEF WindowSound, GapListed

LEMMA ReportIsReplayed == IInv => ReportReplays
<1> SUFFICES ASSUME IInv, ~spoiled,
                    \A t \in Times : manifest[t] # Absent => files[t] = manifest[t],
                    NEW o \in Times, NEW l \in DOMAIN latest.windows[o].leads
             PROVE  Shown(o, l) = latest.windows[o].leads[l]
  BY DEF ReportReplays
<1>1. PICK w : w = latest.windows[o]
  OBVIOUS
<1>2. /\ WindowSound(latest.frames, latest.as_of, o, w, record[o], scores[o])
      /\ w.status # "open" /\ latest \in Reports /\ manifest \in Frames
  BY <1>1 DEF IInv, LatestInv, TypeOK
<1>3. latest.frames \in Frames /\ w.leads \in Seq(Statuses) /\ latest.as_of \in Nat /\ o \in Nat
  BY <1>1, <1>2 DEF Reports, Windows, Times
<1>4. w.leads # <<>> /\ l \in Leads /\ l \in DOMAIN w.leads
  <2>1. Len(w.leads) <= Horizon /\ DOMAIN w.leads = 1..Len(w.leads) /\ Len(w.leads) \in Nat
    BY <1>2, <1>3 DEF WindowSound
  <2>2. QED BY <1>1, <2>1 DEF Leads
<1>5. /\ w.status = "issued" /\ HasInputs(latest.frames, o) /\ record[o] # None
      /\ o <= latest.as_of /\ LeadsMatch(latest.frames, latest.as_of, o, w.leads)
      /\ w.leads[l] \in Settling => scores[o][l] # NoScore
  BY <1>2, <1>4 DEF WindowSound
<1>6. \A t \in Times : latest.frames[t] # Absent =>
                         manifest[t] = latest.frames[t] /\ files[t] = latest.frames[t]
  BY DEF IInv, UnspoiledInv, Known
<1>7. HasInputs(manifest, o) /\ Inputs(manifest, o) = Inputs(latest.frames, o)
  BY <1>2, <1>3, <1>5, <1>6, InputsKnown
<1>8. record[o] = Inputs(latest.frames, o) /\ array[o] = record[o]
  BY <1>5, <1>7 DEF IInv, UnspoiledInv
<1>9. \A i \in 1..InputLength : /\ o - InputLength + i \in Times
                                /\ latest.frames[o - InputLength + i] # Absent
                                /\ record[o][i] = latest.frames[o - InputLength + i]
  <2>1. PICK f \in Frames : f = latest.frames
    BY <1>3
  <2>2. HasInputs(f, o)
    BY <1>5, <2>1
  <2>3. \A i \in 1..InputLength : /\ o - InputLength + i \in Times /\ f[o - InputLength + i] # Absent
                                   /\ Inputs(f, o)[i] = f[o - InputLength + i]
    BY <2>2, InputsSound
  <2>4. record[o] = Inputs(f, o)
    BY <1>8, <2>1
  <2>5. QED BY <2>1, <2>3, <2>4
<1>10. ASSUME NEW t \in (o - InputLength + 1)..o PROVE Available(t)
  <2>1. t - o + InputLength \in 1..InputLength /\ o - InputLength + (t - o + InputLength) = t
        /\ t <= latest.as_of
    BY <1>3, <1>5
  <2>2. t \in Times /\ latest.frames[t] # Absent
    BY <1>9, <2>1
  <2>3. QED BY <1>6, <2>1, <2>2 DEF Available
<1>11. ReplayForecast(o)
  BY <1>1, <1>5, <1>8, <1>10 DEF ReplayForecast
<1>12. ASSUME w.leads[l] \in Settling
       PROVE  /\ o + l \in Times /\ Available(o + l)
              /\ scores[o][l] = [forecast |-> record[o], result |-> w.leads[l],
                                 target |-> latest.frames[o + l]]
  <2>1. /\ o + l <= latest.as_of /\ o + l \in Times /\ latest.frames[o + l] # Absent
        /\ w.leads[l] = Outcome(Inputs(latest.frames, o), latest.frames[o + l])
    <3>1. w.leads[l] # "pending"
      BY <1>12 DEF Settling
    <3>2. QED BY <1>4, <1>5, <1>12, <3>1 DEF LeadsMatch, Settling
  <2>2. scores[o][l] = ScoreOf(o, l)
    BY <1>4, <1>5, <1>12 DEF IInv, UnspoiledInv
  <2>3. manifest[o + l] = latest.frames[o + l] /\ files[o + l] = latest.frames[o + l]
    BY <1>6, <2>1
  <2>4. QED BY <1>7, <1>8, <2>1, <2>2, <2>3 DEF ScoreOf, Available
<1>13. ASSUME o + l \in Times, Available(o + l)
       PROVE  Grid(latest.frames[o + l]) = Grid(record[o][1])
  <2>1. 1 \in 1..InputLength
    OBVIOUS
  <2>2. PICK u \in Times : latest.frames[u] # Absent /\ record[o][1] = latest.frames[u]
    BY <1>9, <2>1
  <2>3. latest.frames[o + l] # Absent
    BY <1>13 DEF Available
  <2>4. manifest[u] = latest.frames[u] /\ manifest[o + l] = latest.frames[o + l]
    BY <1>6, <1>13, <2>2, <2>3
  <2>5. Grid(manifest[o + l]) = Grid(manifest[u])
    BY <1>13, <2>2, <2>3, <2>4 DEF IInv, UnspoiledInv
  <2>6. QED BY <2>2, <2>4, <2>5
<1>14. QED
  <2>1. /\ ReplayForecast(o)
        /\ ~(/\ w.leads[l] \in {"scored", "no_common_valid_pixels"}
             /\ scores[o][l] # [forecast |-> record[o], result |-> w.leads[l],
                                target |-> latest.frames[o + l]])
        /\ ~(/\ TargetStatus(o + l) = "available"
             /\ Grid(latest.frames[o + l]) # Grid(record[o][1]))
        /\ ~(w.leads[l] = "scored" /\ TargetStatus(o + l) # "available")
    BY <1>11, <1>12, <1>13 DEF Settling, TargetStatus
  <2>2. QED BY <1>1, <2>1 DEF Shown

(***************************************************************************)
(* What a step may never do                                                *)
(***************************************************************************)
\* Only damage changes what was committed.
Immutable ==
  \A o \in Times :
    \/ spoiled' /\ run' = run
    \/ /\ record[o] # None => record'[o] = record[o] /\ array'[o] = array[o]
       /\ \A l \in Leads : scores[o][l] # NoScore => scores'[o][l] = scores[o][l]

LEMMA CommittedKept == IInv /\ [Next]_vars => [Immutable]_stored
<1> SUFFICES ASSUME IInv, [Next]_vars, ~UNCHANGED stored PROVE Immutable
  OBVIOUS
<1>1. DamageStored \/ WriteArray \/ WriteRecord \/ ScoreNew
  BY DEF Next, Step, vars, Tick, Capture, LoseFile, FileReturns, Revise, DamageFrame, Kill,
         Start, StartWithAsOf, StartAsOf, Begin, Invoke, BeginOvertaken, AlreadyRunning, InputGap, Defer, InputFileMissing, InputRefused, Abort,
         CachedForecast, NewForecast, Issue, ScorePending, TargetFileMissing, TargetRefused,
         ScoreCached, Report
<1>2. CASE DamageStored
  BY <1>2 DEF DamageStored, Immutable
<1>3. TypeOK
  BY DEF IInv
<1>4. CASE WriteArray \/ WriteRecord
  <2>1. record[Origin] = None /\ UNCHANGED scores
    BY <1>4 DEF WriteArray, WriteRecord, IInv, RunInv
  <2>2. \A o \in Times \ {Origin} : record'[o] = record[o] /\ array'[o] = array[o]
    BY <1>3, <1>4 DEF WriteArray, WriteRecord, TypeOK
  <2>3. QED BY <2>1, <2>2 DEF Immutable
<1>5. CASE ScoreNew
  <2>1. PICK score : scores' = [scores EXCEPT ![Origin][Lead] = score]
    BY <1>5 DEF ScoreNew
  <2>2. scores[Origin][Lead] = NoScore /\ UNCHANGED array /\ UNCHANGED record
    BY <1>5 DEF ScoreNew, Saved
  <2>3. \A o \in Times, l \in Leads : o # Origin \/ l # Lead => scores'[o][l] = scores[o][l]
    BY <1>3, <2>1 DEF TypeOK
  <2>4. QED BY <2>2, <2>3 DEF Immutable
<1>6. QED BY <1>1, <1>2, <1>4, <1>5

\* A run that goes on is not idle.
LEMMA GoesOn == ASSUME NEW r, "at" \in DOMAIN r PROVE ToOrigin(r).at \in {"window", "report"}
<1> DEFINE later == {t \in Times : t > r.origin /\ t <= r.cutoff /\ r.frames[t] # Absent}
<1>1. CASE later = {}
  BY <1>1 DEF ToOrigin
<1>2. CASE later # {}
  <2>1. ToOrigin(r) = [r EXCEPT !.at = "window", !.origin = Min(later),
                                !.seen = {t \in @ : t > Min(later) - InputLength}]
    BY <1>2 DEF ToOrigin
  <2>2. QED BY <2>1
<1>3. QED BY <1>1, <1>2

LEMMA NotIdle ==
  ASSUME IInv,
         Start \/ StartWithAsOf \/ BeginOvertaken \/ InputGap \/ Defer \/ InputFileMissing \/ CachedForecast \/ NewForecast
         \/ WriteArray \/ WriteRecord \/ ScorePending \/ TargetFileMissing \/ ScoreCached \/ ScoreNew
  PROVE  run' # Idle
<1> SUFFICES run'.at # "idle"
  BY NothingStored
<1>1. run \in Runs /\ "at" \in DOMAIN run
  <2>1. run \in Runs
    BY DEF IInv, TypeOK
  <2>2. QED BY <2>1 DEF Runs
<1>2. CASE Start \/ StartWithAsOf \/ BeginOvertaken
  <2>1. PICK frames, cutoff : Begin(frames, cutoff)
    BY <1>2 DEF Start, StartWithAsOf, StartAsOf, BeginOvertaken
  <2>2. PICK r : r = [Idle EXCEPT !.frames = frames, !.cutoff = cutoff]
    OBVIOUS
  <2>3. "at" \in DOMAIN r
    BY <2>2 DEF Idle
  <2>4. QED BY <2>1, <2>2, <2>3, GoesOn DEF Begin
<1>3. CASE InputGap \/ InputFileMissing
  <2>1. PICK reason, seen : Exclude(reason, seen)
    BY <1>3 DEF InputGap, InputFileMissing
  <2>2. PICK r : r = [run EXCEPT !.windows[Origin].status = reason, !.seen = @ \union seen]
    OBVIOUS
  <2>3. "at" \in DOMAIN r
    BY <1>1, <2>2
  <2>4. QED BY <2>1, <2>2, <2>3, GoesOn DEF Exclude, Continue
<1>4. CASE Defer
  BY <1>1, <1>4, GoesOn DEF Defer, Continue
<1>5. CASE CachedForecast \/ NewForecast
  <2>1. PICK at \in {"array", "score"} : Issue(at)
    BY <1>5 DEF CachedForecast, NewForecast
  <2>2. run'.at = at
    BY <1>1, <2>1 DEF Issue, Continue
  <2>3. QED BY <2>1, <2>2
<1>6. CASE WriteArray \/ WriteRecord
  BY <1>1, <1>6 DEF WriteArray, WriteRecord, Continue
<1>7. CASE ScorePending \/ TargetFileMissing \/ ScoreCached \/ ScoreNew
  <2>1. PICK status, seen : LeadIs(status, seen) /\ run.at = "score"
    BY <1>7 DEF ScorePending, TargetFileMissing, ScoreCached, ScoreNew
  <2>2. PICK r : r = [run EXCEPT !.windows[Origin].leads = Append(@, status),
                                 !.seen = @ \union seen]
    OBVIOUS
  <2>3. "at" \in DOMAIN r /\ r.at = "score"
    BY <1>1, <2>1, <2>2
  <2>4. PICK p : p = [r EXCEPT !.windows[Origin].status = "issued"]
    OBVIOUS
  <2>5. "at" \in DOMAIN p
    BY <2>3, <2>4
  <2>6. run' = r \/ run' = ToOrigin(p)
    BY <2>1, <2>2, <2>4 DEF LeadIs, Continue
  <2>7. QED BY <2>3, <2>5, <2>6, GoesOn
<1>8. QED BY <1>2, <1>3, <1>4, <1>5, <1>6, <1>7

\* What a run knows of the inputs of an origin, while nothing is spoiled.
LEMMA InputsRead ==
  ASSUME IInv, ~spoiled, run.at \in {"window", "score"}, HasInputs(run.frames, Origin)
  PROVE  /\ HasInputs(manifest, Origin) /\ Expected = Inputs(manifest, Origin)
         /\ \A t \in Times : run.frames[t] # Absent =>
              manifest[t] = run.frames[t] /\ files[t] \in {Absent, run.frames[t]}
         /\ \A t \in InputTimes : t \in Times /\ run.frames[t] # Absent
         /\ Origin \in InputTimes /\ \E t \in Times : /\ run.frames[t] # Absent
                                                      /\ Expected[1] = run.frames[t]
<1>1. Origin \in Times /\ run.frames \in Frames /\ manifest \in Frames
  BY DEF IInv, RunInv, RunSound, TypeOK, Runs, Origin, Opened
<1>2. \A t \in Times : run.frames[t] # Absent =>
        manifest[t] = run.frames[t] /\ files[t] \in {Absent, run.frames[t]}
  BY DEF IInv, UnspoiledInv, Known
<1>3. HasInputs(manifest, Origin) /\ Expected = Inputs(manifest, Origin)
  BY <1>1, <1>2, InputsKnown DEF Expected
<1>4. \A i \in 1..InputLength : /\ Origin - InputLength + i \in Times
                                /\ run.frames[Origin - InputLength + i] # Absent
                                /\ Expected[i] = run.frames[Origin - InputLength + i]
  <2>1. PICK f \in Frames, o \in Times : f = run.frames /\ o = Origin
    BY <1>1
  <2>2. \A i \in 1..InputLength : /\ o - InputLength + i \in Times /\ f[o - InputLength + i] # Absent
                                  /\ Inputs(f, o)[i] = f[o - InputLength + i]
    BY <2>1, InputsSound
  <2>3. QED BY <2>1, <2>2 DEF Expected
<1>5. ASSUME NEW t \in InputTimes PROVE t \in Times /\ run.frames[t] # Absent
  <2>1. Origin \in Nat /\ t \in Int /\ t - Origin + InputLength \in 1..InputLength
        /\ Origin - InputLength + (t - Origin + InputLength) = t
    BY <1>1, <1>5 DEF InputTimes, Times
  <2>2. QED BY <1>4, <2>1
<1>6. Origin \in InputTimes /\ 1 \in 1..InputLength
  BY <1>1 DEF InputTimes, Times
<1>7. QED BY <1>2, <1>3, <1>4, <1>5, <1>6

LEMMA InputsAccepted == ASSUME IInv, ~spoiled PROVE ~InputRefused
<1> SUFFICES ASSUME InputRefused PROVE FALSE
  OBVIOUS
<1>1. run.at = "window" /\ HasInputs(run.frames, Origin)
  BY DEF InputRefused, WindowOpens
<1>2. /\ HasInputs(manifest, Origin) /\ Expected = Inputs(manifest, Origin)
      /\ \A t \in Times : run.frames[t] # Absent =>
           manifest[t] = run.frames[t] /\ files[t] \in {Absent, run.frames[t]}
      /\ \A t \in InputTimes : t \in Times /\ run.frames[t] # Absent
      /\ Origin \in InputTimes
  BY <1>1, InputsRead
<1>3. CASE Committed /\ ~Cached
  <2>1. Origin \in Times /\ record[Origin] # None
    BY <1>2, <1>3 DEF Committed
  <2>2. record[Origin] = Inputs(manifest, Origin) /\ array[Origin] = record[Origin]
    BY <2>1 DEF IInv, UnspoiledInv
  <2>3. QED BY <1>2, <1>3, <2>2 DEF Cached
<1>4. CASE \E t \in FirstFailure : Unsound(t)
  BY <1>2, <1>4 DEF FirstFailure, Unsound, Missing, Readable
<1>5. CASE Cardinality({Grid(run.frames[t]) : t \in InputTimes}) > 1
  <2>1. PICK g : g = Grid(run.frames[Origin])
    OBVIOUS
  <2>2. \A t \in InputTimes : Grid(run.frames[t]) = g
    <3>1. ASSUME NEW t \in InputTimes PROVE Grid(run.frames[t]) = Grid(run.frames[Origin])
      <4>1. /\ t \in Times /\ Origin \in Times
            /\ manifest[t] = run.frames[t] /\ manifest[t] # Absent
            /\ manifest[Origin] = run.frames[Origin] /\ manifest[Origin] # Absent
        BY <1>2
      <4>2. Grid(manifest[t]) = Grid(manifest[Origin])
        BY <4>1 DEF IInv, UnspoiledInv
      <4>3. QED BY <4>1, <4>2
    <3>2. QED BY <2>1, <3>1
  <2>3. PICK grids : grids = {Grid(run.frames[t]) : t \in InputTimes}
    OBVIOUS
  <2>4. grids = {g}
    BY <1>2, <2>1, <2>2, <2>3
  <2>5. Cardinality(grids) = 1
    BY <2>4, FS_Singleton
  <2>6. Cardinality(grids) > 1
    BY <1>5, <2>3
  <2>7. QED BY <2>5, <2>6
<1>6. QED BY <1>3, <1>4, <1>5 DEF InputRefused

LEMMA TargetAccepted == ASSUME IInv, ~spoiled PROVE ~TargetRefused
<1> SUFFICES ASSUME TargetRefused PROVE FALSE
  OBVIOUS
<1>1. /\ run.at = "score" /\ Observed /\ ~Missing(Target)
      /\ Comparable => Saved # NoScore /\ ~SavedMatches
  BY DEF TargetRefused
<1>2. /\ Lead \in Leads /\ Target = Origin + Lead /\ Origin \in Times /\ Forecast = Expected
      /\ Target \in Times /\ run.frames[Target] \in Contents /\ run.at \in Opened
  BY <1>1, AtScore
<1>3. HasInputs(run.frames, Origin)
  BY <1>2, AtOpen
<1>4. /\ HasInputs(manifest, Origin) /\ Expected = Inputs(manifest, Origin)
      /\ \A t \in Times : run.frames[t] # Absent =>
           manifest[t] = run.frames[t] /\ files[t] \in {Absent, run.frames[t]}
  BY <1>1, <1>3, InputsRead
<1>5. PICK u \in Times : run.frames[u] # Absent /\ Expected[1] = run.frames[u]
  BY <1>1, <1>3, InputsRead
<1>6. run.frames[Target] # Absent
  BY <1>1 DEF Observed
<1>7. Readable(Target)
  BY <1>1, <1>2, <1>4, <1>6 DEF Readable, Missing
<1>8. Grid(run.frames[Target]) = Grid(Forecast[1])
  <2>1. manifest[u] = run.frames[u] /\ manifest[Target] = run.frames[Target]
    BY <1>2, <1>4, <1>5, <1>6
  <2>2. Grid(manifest[Target]) = Grid(manifest[u])
    BY <1>2, <1>5, <1>6, <2>1 DEF IInv, UnspoiledInv
  <2>3. QED BY <1>2, <1>5, <2>1, <2>2
<1>9. Saved # NoScore /\ ~SavedMatches
  BY <1>1, <1>7, <1>8 DEF Comparable
<1>10. Saved = ScoreOf(Origin, Lead)
  BY <1>2, <1>9 DEF IInv, UnspoiledInv, Saved
<1>11. manifest[Target] = run.frames[Target]
  BY <1>2, <1>4, <1>6
<1>12. SavedMatches
  BY <1>2, <1>4, <1>10, <1>11 DEF SavedMatches, ScoreOf
<1>13. QED BY <1>9, <1>12

\* A run that is not spoiled ends in a report or is killed.
LEMMA FailureExplained ==
  ASSUME IInv, [Next]_vars, run.at \notin {"idle", "report"}, run' = Idle, faults' = faults
  PROVE  spoiled
<1>1. run # Idle /\ faults \in Nat
  BY NothingStored DEF IInv, TypeOK
<1>2. ~(\/ Tick \/ Capture \/ LoseFile \/ FileReturns \/ Revise \/ DamageFrame \/ DamageStored
        \/ Invoke \/ AlreadyRunning \/ UNCHANGED vars)
  BY <1>1 DEF Tick, Capture, LoseFile, FileReturns, Revise, DamageFrame, DamageStored,
              Invoke, AlreadyRunning, vars
<1>3. ~Kill
  BY <1>1 DEF Kill, Fault
<1>4. ~Report
  BY DEF Report
<1>5. InputRefused \/ TargetRefused
  BY <1>2, <1>3, <1>4, NotIdle DEF Next, Step
<1>6. QED BY <1>5, InputsAccepted, TargetAccepted

(***************************************************************************)
(* Theorems                                                                *)
(***************************************************************************)
\* The inductive invariant: where a run is, what its windows and the report claim of
\* what is stored, and that what is stored is about the manifest until it is spoiled.
THEOREM InductiveInvariant == Spec => []IInv
BY IInvInit, IInvStep, PTL DEF Spec

\* Every report is what its manifest and its cutoff imply, whatever earlier runs saw,
\* were interrupted in or had damaged under them; and unless a frame or a record has
\* changed, it can be replayed with the statuses it was written with.
THEOREM ReportsAreSafe == Spec => []Safety
<1>1. IInv => Safety
  BY ReportIsRight, ReportIsReplayed DEF Safety
<1>2. QED BY <1>1, InductiveInvariant, PTL

\* No run changes a committed forecast, its array or a saved score.
THEOREM CommitmentsHold == Spec => CommittedIsImmutable
<1>1. IInv /\ [Next]_vars =>
        [\A o \in Times :
           \/ spoiled' /\ run' = run
           \/ /\ record[o] # None => record'[o] = record[o] /\ array'[o] = array[o]
              /\ \A l \in Leads : scores[o][l] # NoScore => scores'[o][l] = scores[o][l]]_stored
  BY CommittedKept DEF Immutable
<1>2. QED BY <1>1, InductiveInvariant, PTL DEF Spec, CommittedIsImmutable

\* Kills, lost files and frames that come late make no run fail.
THEOREM RunsFailOnlyIfSpoiled == Spec => FailsOnlyIfSpoiled
<1>1. IInv /\ [Next]_vars =>
        (run.at \notin {"idle", "report"} /\ run' = Idle /\ faults' = faults => spoiled)
  BY FailureExplained
<1>2. QED BY <1>1, InductiveInvariant, PTL DEF Spec, FailsOnlyIfSpoiled
=============================================================================
