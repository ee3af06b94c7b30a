----------------------------- MODULE Operations -----------------------------
(***************************************************************************)
(* From the sources to a readiness answer: run_collection fetches the      *)
(* upstream datasets one after another and derives the location reference  *)
(* and the region feature from them (operations/collector.py), health is   *)
(* assessed when a snapshot is made and again whenever it is read          *)
(* (operations/health.py), and the API answers from the snapshot store     *)
(* while time goes on (operations/api.py).                                 *)
(*                                                                         *)
(* One collector at a time, by the collection lock, and a store whose      *)
(* pointers name complete snapshots (SnapshotStore).  Time is counted in   *)
(* the steps freshness distinguishes; records are their newest timestamp.  *)
(* The API keeps nothing between requests: one client asks at a time.      *)
(***************************************************************************)
EXTENDS Naturals, Sequences, SequencesExt

CONSTANTS
  Order,        \* the upstream datasets in the order they are fetched
  MayBeEmpty,   \* the ones whose empty answer is valid (rainfall_alerts)
  Located,      \* the ones the location reference and coverage are made of
  ApiOnly,      \* source "api": request failures are fatal
  ScraperOnly,  \* source "scraper"
  Slow,         \* datasets with the longer freshness limit
  Switched,     \* datasets whose records may be disabled (flood_sensors)
  FastAge, SlowAge,  \* max_age_minutes and flood_max_age_minutes
  Modes,        \* what the collector may be run as: "live", "demo"
  MaxClock,     \* bound: time
  MaxSnapshot   \* bound: number of attempts

Upstreams == ToSet(Order)
Derived == {"location_reference", "region_features"}
Datasets == Upstreams \union Derived
Clock == 0..MaxClock
Snapshots == 1..MaxSnapshot

ASSUME OperationsAssumption ==
  /\ Order \in Seq(Upstreams) /\ Upstreams \intersect Derived = {}
  /\ MayBeEmpty \subseteq Upstreams /\ Located \subseteq Upstreams
  /\ ApiOnly \union ScraperOnly \subseteq Upstreams
  /\ ApiOnly \intersect ScraperOnly = {}
  /\ Switched \subseteq Upstreams /\ Switched \intersect MayBeEmpty = {}
  /\ FastAge \in Nat \ {0} /\ SlowAge \in Nat \ {0}
  /\ Modes \subseteq {"live", "demo"}
  /\ MaxClock \in Nat /\ MaxSnapshot \in Nat

VARIABLES
  clock,
  run,        \* the collection run: where it is, its mode and its `now', and the
              \* datasets it has fetched
  snapshots,  \* what each attempt left behind
  latest, attempt,  \* the pointers
  status,     \* a status request: where it is, its `now', what it read, its answer
  response    \* the answer to the latest dataset request

vars == <<clock, run, snapshots, latest, attempt, status, response>>

MaxAge(d) == IF d \in Slow THEN SlowAge ELSE FastAge

\* A fetched dataset: source_kind, outcome, the newest observation of its records
\* and of the enabled ones, and whether a timestamp of it does not parse.
Kinds == {"api", "scraper_fallback", "demo_fixture"}
Fetches == [kind : Kinds,
            outcome : {"ok", "empty", "stale", "fallback"},
            observed : Clock, enabled : Clock, bad_timestamp : BOOLEAN]

States == {"invalid", "demo", "stale", "degraded", "upstream_unhealthy",
           "coverage_missing", "healthy"}
\* `persistent' is persistent_state, "" where there is none.
Healths == [observed : Clock, state : States, ready : BOOLEAN, invalid : BOOLEAN,
            persistent : {"", "stale", "degraded", "upstream_unhealthy", "coverage_missing"}]
NoAttempt == [status |-> "none", mode |-> "", feature |-> <<>>, health |-> <<>>,
              source |-> <<>>]
FailedAttempt == [NoAttempt EXCEPT !.status = "error"]
Successes == [status : {"ok"}, mode : Modes, feature : [data_ready : BOOLEAN],
              health : [Datasets -> Healths],
              source : [Upstreams -> [kind : Kinds, enabled : Clock]]]
Idle == [at |-> "idle", mode |-> "", now |-> 0, fetched |-> <<>>]
NoStatus == [at |-> "idle", now |-> 0, latest |-> 0, attempt |-> 0,
             state |-> "uninitialized", ready |-> FALSE]
NoResponse == [snapshot |-> 0, dataset |-> "", at |-> 0, ready |-> FALSE]

Runs == [at : {"idle", "fetch", "build", "fail", "latest"}, mode : Modes \union {""},
         now : Clock, fetched : Seq(Fetches)]
StatusRequests ==
  [at : {"idle", "attempt", "answer"}, now : Clock, latest : 0..MaxSnapshot,
   attempt : 0..MaxSnapshot, ready : BOOLEAN,
   state : {"uninitialized", "collector_error", "demo", "healthy", "unhealthy"}]
Responses == [snapshot : 0..MaxSnapshot, dataset : Datasets \union {""}, at : Clock,
              ready : BOOLEAN]

TypeOK ==
  /\ clock \in Clock
  /\ run \in Runs
  /\ snapshots \in [Snapshots -> {NoAttempt, FailedAttempt} \union Successes]
  /\ latest \in 0..MaxSnapshot /\ attempt \in 0..MaxSnapshot
  /\ status \in StatusRequests
  /\ response \in Responses

Init ==
  /\ clock = 0
  /\ run = Idle
  /\ snapshots = [i \in Snapshots |-> NoAttempt]
  /\ latest = 0 /\ attempt = 0
  /\ status = NoStatus
  /\ response = NoResponse

\* An answer is in the client's hands when anything else happens.
Answered ==
  /\ response' = NoResponse
  /\ status' = IF status.at = "idle" THEN NoStatus ELSE status

Tick ==
  /\ clock < MaxClock
  /\ clock' = clock + 1
  /\ UNCHANGED <<run, snapshots, latest, attempt>>
  /\ Answered

(***************************************************************************)
(* collect_records                                                         *)
(***************************************************************************)
\* `now' is read before the lock is taken and the sources are asked.
StartRun ==
  /\ run = Idle /\ attempt < MaxSnapshot
  /\ \E mode \in Modes :
       run' = [at |-> IF Order = <<>> THEN "build" ELSE "fetch",
               mode |-> mode, now |-> clock, fetched |-> <<>>]
  /\ UNCHANGED <<clock, snapshots, latest, attempt>>
  /\ Answered

Age(now, observed) == IF observed > now THEN 0 ELSE now - observed
Current == Order[Len(run.fetched) + 1]
Fetched(f) ==
  /\ run.at = "fetch"
  /\ run' = [run EXCEPT !.fetched = Append(@, f),
                        !.at = IF Len(run.fetched) + 1 = Len(Order) THEN "build" ELSE "fetch"]
  /\ UNCHANGED <<clock, snapshots, latest, attempt>>
  /\ Answered

\* The official adapter of the dataset is asked, unless the page is chosen.
Official ==
  /\ run.mode = "live" /\ run.at = "fetch" /\ Current \notin ScraperOnly

\* What an adapter returns: old observations are stale.
Answer(newest, enabled) ==
  [kind |-> "api", observed |-> newest, enabled |-> enabled, bad_timestamp |-> FALSE,
   outcome |-> IF Age(run.now, enabled) > MaxAge(Current) THEN "stale" ELSE "ok"]

\* The stations of the county; its warnings in the same way.
FetchApi ==
  /\ Official /\ Current \notin Switched
  /\ \E t \in 0..clock : Fetched(Answer(t, t))

\* The sensors joined with the catalog: all of them are records, and one of them
\* at least is enabled.
FetchSensors ==
  /\ Official /\ Current \in Switched
  /\ \E t \in 0..clock : \E e \in 0..t : Fetched(Answer(t, e))

\* No warning of the county is a valid answer, observed when it was asked for.
FetchEmpty ==
  /\ Official /\ Current \in MayBeEmpty
  /\ Fetched([Answer(run.now, run.now) EXCEPT !.outcome = "empty"])

\* The page: chosen, or after a SourceRequestError of the adapter in "auto".  It
\* does not say which sensors are disabled.
Scrape ==
  /\ run.mode = "live" /\ run.at = "fetch" /\ Current \notin ApiOnly
  /\ \E t \in 0..clock, bad \in BOOLEAN :
       Fetched([kind |-> "scraper_fallback", observed |-> t, enabled |-> t,
                bad_timestamp |-> bad, outcome |-> "fallback"])

\* The alert fixture bears the time it is made, the others a date in the past.
FetchDemo ==
  /\ run.mode = "demo" /\ run.at = "fetch"
  /\ \E t \in {0, clock} :
       Fetched([kind |-> "demo_fixture", observed |-> t, enabled |-> t,
                bad_timestamp |-> FALSE, outcome |-> "ok"])

\* A schema error, a request error in "api", an empty page or a scraper error
\* while fetching, and a validation report with errors after it.
CollectFails ==
  /\ run.at \in {"fetch", "build"}
  /\ run' = [run EXCEPT !.at = "fail", !.fetched = <<>>]
  /\ UNCHANGED <<clock, snapshots, latest, attempt>>
  /\ Answered

(***************************************************************************)
(* build_payloads                                                          *)
(***************************************************************************)
\* assess_dataset, for a dataset with records or with empty_observed_at.
Assess(d, mode, bad, observed, now) ==
  IF bad THEN "invalid"
  ELSE IF mode = "demo" THEN "demo"
  ELSE IF Age(now, observed) > MaxAge(d) THEN "stale"
  ELSE "healthy"

Health(observed, state, invalid, persistent) ==
  [observed |-> observed, state |-> state, ready |-> state = "healthy",
   invalid |-> invalid, persistent |-> persistent]

\* Mutant: the newest record decides, disabled or not.
NewestOfAll(f) == f.observed

\* freshness_observed_at: a disabled sensor does not make the dataset fresh.
FreshnessObserved(f) == f.enabled

\* Mutant: a stale source is blocked only while it is published.
SourceHealthForgets(d, mode, f, now) ==
  LET observed == FreshnessObserved(f)
      state == Assess(d, mode, f.bad_timestamp, observed, now) IN
    CASE f.kind = "scraper_fallback" ->
           Health(observed, IF state = "healthy" THEN "degraded" ELSE state,
                  f.bad_timestamp, "")
      [] OTHER -> Health(observed, state, f.bad_timestamp, "")

\* The health a dataset is published with, its source taken into account.
SourceHealth(d, mode, f, now) ==
  LET observed == FreshnessObserved(f)
      state == Assess(d, mode, f.bad_timestamp, observed, now) IN
    IF mode = "live" /\ f.kind = "scraper_fallback"
    THEN Health(observed, IF state = "healthy" THEN "degraded" ELSE state,
                f.bad_timestamp, "degraded")
    ELSE IF mode = "live" /\ f.outcome = "stale" /\ state = "healthy"
    THEN Health(observed, "stale", f.bad_timestamp, "stale")
    ELSE Health(observed, state, f.bad_timestamp, "")

\* _derived_source of the location reference, made of records seen at `now'.
LocationFetch(f, now) ==
  LET inputs == {f[i] : i \in {j \in DOMAIN f : Order[j] \in Located}}
      kinds == {g.kind : g \in inputs} IN
    [observed |-> now, enabled |-> now, bad_timestamp |-> FALSE,
     kind |-> IF inputs # {} /\ kinds = {"demo_fixture"} THEN "demo_fixture"
              ELSE IF "scraper_fallback" \in kinds THEN "scraper_fallback" ELSE "api",
     outcome |-> IF inputs # {} /\ kinds = {"demo_fixture"} THEN "ok"
                 ELSE IF "scraper_fallback" \in kinds THEN "fallback"
                 ELSE IF \E g \in inputs : g.outcome = "stale" THEN "stale" ELSE "ok"]

Position(d) == CHOOSE i \in DOMAIN Order : Order[i] = d

\* The health of everything the region feature is derived from.
UpstreamHealth(mode, f, now) ==
  [d \in Upstreams \union {"location_reference"} |->
     IF d = "location_reference" THEN SourceHealth(d, mode, LocationFetch(f, now), now)
     ELSE SourceHealth(d, mode, f[Position(d)], now)]

\* Mutant: the upstreams are not looked at.
FeatureOfItself(mode, upstream, now, covered) ==
  LET state == Assess("region_features", mode, FALSE, now, now) IN
    IF covered THEN Health(now, state, FALSE, "")
    ELSE Health(now, "coverage_missing", FALSE, "coverage_missing")

FeatureHealth(mode, upstream, now, covered) ==
  LET state == Assess("region_features", mode, FALSE, now, now) IN
    IF mode = "live" /\ \E d \in DOMAIN upstream : upstream[d].state # "healthy"
    THEN Health(now, "upstream_unhealthy", FALSE, "upstream_unhealthy")
    ELSE IF mode = "live" /\ ~covered
    THEN Health(now, "coverage_missing", FALSE, "coverage_missing")
    ELSE Health(now, state, FALSE, "")

\* build_region_feature, the record of the region: data_ready, whatever the mode
RegionFeature(upstream, covered) ==
  [data_ready |-> covered /\ \A d \in DOMAIN upstream : upstream[d].state = "healthy"]

\* The payloads are built and published; `covered' is whether the region has the
\* gauges and sensors its profile requires.  The attempt pointer moves first.
Publish ==
  /\ run.at = "build"
  /\ \E covered \in BOOLEAN :
       LET upstream == UpstreamHealth(run.mode, run.fetched, run.now) IN
         snapshots' = [snapshots EXCEPT ![attempt + 1] =
           [status |-> "ok", mode |-> run.mode, feature |-> RegionFeature(upstream, covered),
            health |-> [d \in Datasets |->
                          IF d = "region_features" THEN FeatureHealth(run.mode, upstream, run.now, covered)
                          ELSE upstream[d]],
            source |-> [d \in Upstreams |->
              LET f == run.fetched[Position(d)] IN
                [kind |-> f.kind, enabled |-> f.enabled]]]]
  /\ attempt' = attempt + 1
  /\ run' = [run EXCEPT !.at = "latest", !.fetched = <<>>]
  /\ UNCHANGED <<clock, latest>>
  /\ Answered

\* The latest pointer moves, unless it cannot be written.  This failure, and one of
\* writing the run summary after it, is published as a failed attempt.
PointLatest ==
  /\ run.at = "latest"
  /\ \/ latest' = attempt /\ run' = Idle
     \/ /\ attempt < MaxSnapshot
        /\ latest' \in {latest, attempt} /\ run' = [run EXCEPT !.at = "fail"]
  /\ UNCHANGED <<clock, snapshots, attempt>>
  /\ Answered

\* The collector dies, perhaps between the two pointers.
KillRun ==
  /\ run # Idle /\ run' = Idle
  /\ UNCHANGED <<clock, snapshots, latest, attempt>>
  /\ Answered

PublishFailure ==
  /\ run.at = "fail"
  /\ snapshots' = [snapshots EXCEPT ![attempt + 1] = FailedAttempt]
  /\ attempt' = attempt + 1
  /\ run' = Idle
  /\ UNCHANGED <<clock, latest>>
  /\ Answered

(***************************************************************************)
(* The API                                                                 *)
(***************************************************************************)
\* Mutant: the answer takes the health the snapshot was published with.
RefreshStored(h, d, mode, now) == [h EXCEPT !.ready = (h.state = "healthy")]

\* refresh_dataset_health
Refresh(h, d, mode, now) ==
  LET state == IF h.invalid THEN "invalid"
               ELSE IF mode = "demo" THEN "demo"
               ELSE IF Age(now, h.observed) > MaxAge(d) THEN "stale"
               ELSE IF h.persistent # "" THEN h.persistent
               ELSE "healthy" IN
    Health(h.observed, state, h.invalid, h.persistent)

\* A dataset of a snapshot as it is served at `now'.
Served(i, d, now) == Refresh(snapshots[i].health[d], d, snapshots[i].mode, now)

\* aggregate_health of a snapshot read at `now'.
Aggregate(i, now) ==
  IF snapshots[i].mode = "demo" THEN "demo"
  ELSE IF \A d \in Datasets : Served(i, d, now).state = "healthy"
       THEN "healthy" ELSE "unhealthy"

\* status_payload takes its `now' and reads the latest pointer.
StatusLatest ==
  /\ status.at = "idle"
  /\ status' = [NoStatus EXCEPT !.at = "attempt", !.now = clock, !.latest = latest]
  /\ response' = NoResponse
  /\ UNCHANGED <<clock, run, snapshots, latest, attempt>>

\* It reads the attempt pointer, which may have moved since.
StatusAttempt ==
  /\ status.at = "attempt"
  /\ status' = [status EXCEPT !.at = "answer", !.attempt = attempt]
  /\ UNCHANGED <<clock, run, snapshots, latest, attempt, response>>

\* Mutant: a failed attempt is not looked at.
StatusIgnoresAttempt ==
  /\ status.at = "answer"
  /\ LET state == IF status.latest = 0 THEN "uninitialized"
                  ELSE Aggregate(status.latest, status.now) IN
       status' = [status EXCEPT !.at = "idle", !.state = state, !.ready = (state = "healthy")]
  /\ UNCHANGED <<clock, run, snapshots, latest, attempt, response>>

StatusAnswer ==
  /\ status.at = "answer"
  /\ LET failed == /\ status.attempt # 0
                   /\ snapshots[status.attempt].status = "error"
                   /\ status.attempt # status.latest
         state == IF failed THEN "collector_error"
                  ELSE IF status.latest = 0 THEN "uninitialized"
                  ELSE Aggregate(status.latest, status.now) IN
       status' = [status EXCEPT !.at = "idle", !.state = state, !.ready = (state = "healthy")]
  /\ UNCHANGED <<clock, run, snapshots, latest, attempt, response>>

\* dataset_payload; the handler answers "dataset unavailable" before the first.
GetDataset(d) ==
  /\ latest # 0 /\ status.at = "idle"
  /\ status' = NoStatus
  /\ response' = [snapshot |-> latest, dataset |-> d, at |-> clock,
                  ready |-> Served(latest, d, clock).ready]
  /\ UNCHANGED <<clock, run, snapshots, latest, attempt>>

Collect == FetchApi \/ FetchSensors \/ FetchEmpty \/ Scrape \/ FetchDemo \/ CollectFails
Next ==
  \/ Tick \/ StartRun \/ Collect \/ Publish \/ PointLatest \/ PublishFailure \/ KillRun
  \/ StatusLatest \/ StatusAttempt \/ StatusAnswer
  \/ \E d \in Datasets : GetDataset(d)

Spec == Init /\ [][Next]_vars

(***************************************************************************)
(* Properties                                                              *)
(***************************************************************************)
HealthOf(i, d) == snapshots[i].health[d]

\* Whether the newest enabled record is within the limit at `now'.
Fresh(i, d, now) == Age(now, snapshots[i].source[d].enabled) <= MaxAge(d)

\* A ready status stands on live data only ("Demo snapshots are always marked
\* demo and ready=false"): when the request came in, the enabled records of every
\* upstream of the snapshot it names were within the freshness limit (a "disabled
\* flood sensor cannot make dataset fresh"), from an official source and with
\* readable timestamps ("any page-scraped fallback is visible as degraded and not
\* ready").
ReadyStandsOnFreshSources ==
  status.ready =>
    /\ snapshots[status.latest].mode = "live"
    /\ \A d \in Upstreams : /\ Fresh(status.latest, d, status.now)
                            /\ snapshots[status.latest].source[d].kind = "api"
                            /\ ~HealthOf(status.latest, d).invalid

\* A status is ready only if the attempt it saw did not fail, and never where the
\* attempt is older than the snapshot: the two reads are not one.
ReadyAfterSuccess ==
  status.ready => /\ snapshots[status.attempt].status = "ok"
                  /\ status.latest <= status.attempt

\* A dataset that was published not ready is never served as ready, however the
\* clock and the collections go on.
BlockedStaysBlocked ==
  response.ready => HealthOf(response.snapshot, response.dataset).ready

\* "The feature is marked ready only when every upstream live dataset is healthy":
\* a ready feature is served only from a snapshot whose upstreams were all healthy
\* when it was published, and whose record says so itself.  An upstream may have
\* grown stale since.
FeatureReadyAtPublication ==
  response.ready /\ response.dataset = "region_features" =>
    /\ \A d \in Upstreams : HealthOf(response.snapshot, d).ready
    /\ snapshots[response.snapshot].feature.data_ready

(***************************************************************************)
(* The inductive invariant                                                 *)
(***************************************************************************)
\* The run: what it has fetched, and that its attempt has a place.
RunInv ==
  /\ run.now <= clock
  /\ run.at # "idle" => run.mode \in Modes
  /\ run.at \in {"fetch", "build", "fail"} => attempt < MaxSnapshot
  /\ run.at = "fetch" => Len(run.fetched) < Len(Order)
  /\ run.at = "build" => Len(run.fetched) = Len(Order)
  /\ run.at = "latest" => attempt # 0 /\ snapshots[attempt].status = "ok"
  /\ run.mode = "live" =>
       \A i \in DOMAIN run.fetched : run.fetched[i].kind # "demo_fixture"

\* The pointers: attempts follow one another, and the latest is one that succeeded.
PointerInv ==
  /\ latest <= attempt
  /\ latest # 0 => snapshots[latest].status = "ok"
  /\ \A i \in Snapshots : snapshots[i] = NoAttempt <=> i > attempt

\* A status request on its way: what it has read was there, in the order it was read.
StatusInv ==
  /\ status.now <= clock
  /\ status.at # "idle" => /\ ~status.ready /\ status.latest <= attempt
                           /\ status.latest # 0 => snapshots[status.latest].status = "ok"
  /\ status.at = "answer" => status.latest <= status.attempt /\ status.attempt <= attempt

\* A published snapshot: a source other than the official one leaves a persistent state,
SourcesRecorded(i) ==
  \A d \in Upstreams :
    /\ HealthOf(i, d).observed = snapshots[i].source[d].enabled
    /\ snapshots[i].mode = "live" /\ snapshots[i].source[d].kind # "api" =>
         HealthOf(i, d).persistent # ""

\* whatever is not ready has a reason to stay so,
BlockedForGood(i) ==
  \A d \in Datasets : ~HealthOf(i, d).ready =>
    \/ snapshots[i].mode = "demo" \/ HealthOf(i, d).invalid
    \/ HealthOf(i, d).persistent # "" \/ Age(clock, HealthOf(i, d).observed) > MaxAge(d)

\* and the feature was judged with its upstreams.
FeatureJudged(i) ==
  HealthOf(i, "region_features").ready =>
    snapshots[i].feature.data_ready /\ \A d \in Upstreams : HealthOf(i, d).ready

PublishedInv ==
  \A i \in Snapshots : snapshots[i].status = "ok" =>
    SourcesRecorded(i) /\ BlockedForGood(i) /\ FeatureJudged(i)

\* What holds of the collection, the store and the requests in every state.
Safety ==
  TypeOK /\ RunInv /\ PointerInv /\ StatusInv /\ PublishedInv /\ FeatureReadyAtPublication

IInv == Safety /\ ReadyStandsOnFreshSources /\ ReadyAfterSuccess /\ BlockedStaysBlocked
=============================================================================
