------------------------------- MODULE AuditsMC -------------------------------
(***************************************************************************)
(* The programs that only read: each state is an input of one of them,     *)
(* grown by one attempt of a collection, reference of a frame, candidate   *)
(* or epoch at a time.                                                     *)
(***************************************************************************)
EXTENDS ReadinessReports, ArchiveCoverage, ReviewQueue, ModelTraining, TLC

CONSTANTS
  MaxTime, MaxHistory,       \* bounds: of the timeline
  MaxReferences,             \* bound: references of an archive
  MaxCandidates, MaxEpochs   \* bounds: of the queue and of the training

VARIABLES subject, input

auditVars == <<subject, input>>

(***************************************************************************)
(* Collections over time                                                   *)
(***************************************************************************)
Healthy ==
  [id |-> 0, at |-> Undated, live |-> TRUE, ok |-> TRUE, ready |-> TRUE,
   damaged |-> FALSE, unready |-> <<>>]
AttemptKinds ==
  {Healthy, [Healthy EXCEPT !.damaged = TRUE], [Healthy EXCEPT !.live = FALSE],
   [Healthy EXCEPT !.ready = FALSE, !.unready = "gauges" :> "stale"],
   [Healthy EXCEPT !.ready = FALSE, !.unready = "features" :> "stale"],
   [Healthy EXCEPT !.ok = FALSE, !.ready = FALSE]}

Period(from, to) == [from |-> from, to |-> to, confirmed |-> TRUE, complete |-> TRUE]
Evidence == {{Period(2, 4)}, {Period(2, 4), Period(4, 4)}}

Timeline ==
  /\ subject = "gaps"
  /\ \E evidence \in Evidence : input = [history |-> {}, evidence |-> evidence, now |-> 0]

Complete ==
  /\ subject = "gaps" /\ Cardinality(input.history) < MaxHistory
  /\ \E kind \in AttemptKinds, at \in {input.now, Undated} :
       /\ at = Undated \/ ~kind.live => input.history = {}
       /\ input' = [input EXCEPT !.history =
                      @ \union {[kind EXCEPT !.id = Cardinality(input.history), !.at = at]}]
  /\ UNCHANGED subject

Wait ==
  /\ subject = "gaps" /\ input.now < MaxTime
  /\ input' = [input EXCEPT !.now = @ + 1]
  /\ UNCHANGED subject

GapsAccounted ==
  subject = "gaps" => ReportsAgree(input.history, input.evidence, input.now)

(***************************************************************************)
(* Archives                                                                *)
(***************************************************************************)
Archive ==
  /\ subject = "coverage"
  /\ \E collections \in {<<"verified", "declared">>, <<"damaged", "declared">>},
        limit \in 1..2, budget \in {1, 3} :
       /\ limit = 1 => collections[1] = "verified"
       /\ input = [entries |-> [i \in DOMAIN collections |->
                        [collection |-> collections[i], slots |-> 3, frames |-> <<>>]],
                   limit |-> limit, budget |-> budget]

Refer ==
  /\ subject = "coverage"
  /\ FoldLeft(LAMBDA n, e : n + Len(e.frames), 0, input.entries) < MaxReferences
  /\ \E e \in DOMAIN input.entries, time \in 0..3, grid \in {"g", "h"},
        is \in {"path_escape", "probe_error", "file_missing", "stat_error",
                "invalid_source", "usable"} :
       /\ e <= input.limit /\ input.entries[Len(input.entries)].frames # <<>> => e = 2
       /\ grid = "h" \/ time = 3 => is = "usable"
       /\ input' = [input EXCEPT !.entries[e].frames =
                      Append(@, [time |-> time, is |-> is, grid |-> grid])]
  /\ UNCHANGED subject

CoverageAccounted ==
  subject = "coverage" => CoverageSound(input.entries, input.limit, input.budget)

(***************************************************************************)
(* Candidates                                                              *)
(***************************************************************************)
Ok == [qpe |-> "ok", gauges |-> "ok", warnings |-> "ok", parses |-> TRUE,
       records |-> 0, gauge |-> 5, rain |-> 5]
Captures ==
  {<<>>, <<Ok>>, <<[Ok EXCEPT !.records = 1]>>, <<[Ok EXCEPT !.gauge = 8]>>,
   <<[Ok EXCEPT !.gauges = "stale", !.gauge = Unknown], [Ok EXCEPT !.rain = 8]>>,
   <<[Ok EXCEPT !.parses = FALSE, !.rain = Unknown]>>}

Catalog == subject = "queue" /\ input = <<>>

Find ==
  /\ subject = "queue" /\ Len(input) < MaxCandidates
  /\ \E status \in {"pending", "approved"}, intact \in BOOLEAN, captures \in Captures,
        local \in 0..1, peak \in {Unknown, -5, 40}, first \in 0..1 :
       /\ status = "approved" => intact /\ captures = <<Ok>> /\ first = 0
       /\ local = 1 => peak = 40
       /\ input' = Append(input, [id |-> Len(input), status |-> status, complete |-> TRUE,
                                  intact |-> intact, captures |-> captures, local |-> local,
                                  peak |-> peak, first |-> first])
  /\ UNCHANGED subject

QueueRanked == subject = "queue" => RankedByPolicy(input)

(***************************************************************************)
(* Epochs                                                                  *)
(***************************************************************************)
Training ==
  /\ subject = "training"
  /\ \E patience \in 0..3 :
       input = [losses |-> <<>>, patience |-> patience, run |-> Untrained]

Validate ==
  /\ subject = "training" /\ Due(input.run, MaxEpochs)
  /\ \E loss \in 0..2 :
       input' = [input EXCEPT !.losses = Append(@, loss),
                              !.run = Epoch(@, loss, input.patience)]
  /\ UNCHANGED subject

BestEpoch == subject = "training" => BestEpochKept(input.losses, input.run, input.patience)

AuditInit == Timeline \/ Archive \/ Catalog \/ Training
AuditNext == Complete \/ Wait \/ Refer \/ Find \/ Validate
AuditSpec == AuditInit /\ [][AuditNext]_auditVars
=============================================================================
