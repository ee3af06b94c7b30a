-------------------------- MODULE OperationsProofs --------------------------
(***************************************************************************)
(* Proofs about Operations for any datasets, freshness limits and modes:   *)
(* the inductive invariant IInv, and what a ready answer stands on; and    *)
(* about the audits for any history, catalog and losses (AuditInv): the    *)
(* gap and readiness reports agree, the review queue is ranked, a training *)
(* keeps its best epoch.                                                   *)
(***************************************************************************)
EXTENDS Operations, AuditsMC, SequenceTheorems, FunctionTheorems, FiniteSetTheorems,
        WellFoundedInduction, TLAPS

USE OperationsAssumption

(***************************************************************************)
(* Operators                                                               *)
(***************************************************************************)
\* Data do not get younger.
LEMMA AgeGrows ==
  ASSUME NEW a \in Clock, NEW b \in Clock, a <= b, NEW observed \in Clock
  PROVE  Age(a, observed) \in Nat /\ Age(b, observed) \in Nat
           /\ Age(a, observed) <= Age(b, observed)
BY DEF Age, Clock

LEMMA MaxAgeType == ASSUME NEW d PROVE MaxAge(d) \in Nat
BY DEF MaxAge

\* Every upstream is fetched at one position.
LEMMA PositionOf ==
  ASSUME NEW d \in Upstreams
  PROVE  Position(d) \in 1..Len(Order) /\ Order[Position(d)] = d
BY DEF Position, Upstreams, ToSet

\* A health whose readiness is its state, and which has a reason that does not go away
\* when it is not ready at `now'.
SoundHealth(h, d, mode, now) ==
  /\ h \in Healths
  /\ h.ready <=> h.state = "healthy"
  /\ ~h.ready => \/ mode = "demo" \/ h.invalid \/ h.persistent # ""
                 \/ Age(now, h.observed) > MaxAge(d)

\* The health a source is published with is sound, of the enabled records, and persistent
\* where the source is not the official one.
LEMMA SourceHealthSound ==
  ASSUME NEW d, NEW mode \in Modes, NEW f \in Fetches, NEW now \in Clock,
         mode = "live" => f.kind # "demo_fixture"
  PROVE  /\ SoundHealth(SourceHealth(d, mode, f, now), d, mode, now)
         /\ SourceHealth(d, mode, f, now).observed = f.enabled
         /\ mode = "live" /\ f.kind # "api" => SourceHealth(d, mode, f, now).persistent # ""
<1>1. f.enabled \in Clock /\ f.bad_timestamp \in BOOLEAN
  BY DEF Fetches
<1>2. Assess(d, mode, f.bad_timestamp, f.enabled, now) \in {"invalid", "demo", "stale", "healthy"}
  BY DEF Assess
<1>3. QED
  BY <1>1, <1>2, ZenonT(40)
     DEF SoundHealth, SourceHealth, Health, FreshnessObserved, Healths, States, Assess, Fetches, Kinds

\* The location reference has demo records only where the run fetched some.
LEMMA LocationFetchType ==
  ASSUME NEW f \in Seq(Fetches), NEW now \in Clock
  PROVE  /\ LocationFetch(f, now) \in Fetches
         /\ (\A i \in DOMAIN f : f[i].kind # "demo_fixture")
              => LocationFetch(f, now).kind # "demo_fixture"
BY SMTT(60) DEF LocationFetch, Fetches, Kinds

\* So is the health of every upstream of the feature.
LEMMA UpstreamHealthSource ==
  ASSUME NEW mode \in Modes, NEW f \in Seq(Fetches), Len(f) = Len(Order), NEW now \in Clock,
         mode = "live" => \A i \in DOMAIN f : f[i].kind # "demo_fixture",
         NEW d \in Upstreams
  PROVE  /\ f[Position(d)] \in Fetches
         /\ SoundHealth(UpstreamHealth(mode, f, now)[d], d, mode, now)
         /\ UpstreamHealth(mode, f, now)[d].observed = f[Position(d)].enabled
         /\ mode = "live" /\ f[Position(d)].kind # "api" =>
              UpstreamHealth(mode, f, now)[d].persistent # ""
<1>1. Position(d) \in DOMAIN f /\ f[Position(d)] \in Fetches
  BY PositionOf
<1>2. UpstreamHealth(mode, f, now)[d] = SourceHealth(d, mode, f[Position(d)], now)
  <2>1. d # "location_reference"
    BY DEF Derived
  <2>2. QED BY <2>1 DEF UpstreamHealth
<1>3. mode = "live" => f[Position(d)].kind # "demo_fixture"
  BY <1>1
<1>4. /\ SoundHealth(SourceHealth(d, mode, f[Position(d)], now), d, mode, now)
      /\ SourceHealth(d, mode, f[Position(d)], now).observed = f[Position(d)].enabled
      /\ mode = "live" /\ f[Position(d)].kind # "api" =>
            SourceHealth(d, mode, f[Position(d)], now).persistent # ""
  <2> DEFINE g == f[Position(d)]
  <2>1. g \in Fetches /\ (mode = "live" => g.kind # "demo_fixture")
    BY <1>1, <1>3
  <2> HIDE DEF g
  <2>2. /\ SoundHealth(SourceHealth(d, mode, g, now), d, mode, now)
        /\ SourceHealth(d, mode, g, now).observed = g.enabled
        /\ mode = "live" /\ g.kind # "api" => SourceHealth(d, mode, g, now).persistent # ""
    BY <2>1, SourceHealthSound
  <2>3. QED BY <2>2 DEF g
<1>5. QED BY <1>1, <1>2, <1>4

LEMMA LocationHealthSound ==
  ASSUME NEW mode \in Modes, NEW f \in Seq(Fetches), Len(f) = Len(Order), NEW now \in Clock,
         mode = "live" => \A i \in DOMAIN f : f[i].kind # "demo_fixture"
  PROVE  SoundHealth(UpstreamHealth(mode, f, now)["location_reference"],
                     "location_reference", mode, now)
<1>1. UpstreamHealth(mode, f, now)["location_reference"]
        = SourceHealth("location_reference", mode, LocationFetch(f, now), now)
  BY DEF UpstreamHealth
<1>2. /\ LocationFetch(f, now) \in Fetches
      /\ mode = "live" => LocationFetch(f, now).kind # "demo_fixture"
  BY LocationFetchType
<1>3. SoundHealth(SourceHealth("location_reference", mode, LocationFetch(f, now), now),
                  "location_reference", mode, now)
  BY <1>2, SourceHealthSound
<1>4. QED BY <1>1, <1>3

\* The feature is ready only with its upstreams, and then its record says so.
LEMMA FeatureHealthSound ==
  ASSUME NEW mode \in Modes, NEW upstream, NEW now \in Clock, NEW covered \in BOOLEAN
  PROVE  /\ SoundHealth(FeatureHealth(mode, upstream, now, covered), "region_features", mode, now)
         /\ FeatureHealth(mode, upstream, now, covered).ready =>
              /\ RegionFeature(upstream, covered).data_ready
              /\ \A d \in DOMAIN upstream : upstream[d].state = "healthy"
<1>1. Age(now, now) = 0 /\ ~(Age(now, now) > MaxAge("region_features"))
  BY MaxAgeType DEF Age, Clock
<1>2. Assess("region_features", mode, FALSE, now, now) = IF mode = "demo" THEN "demo" ELSE "healthy"
  BY <1>1 DEF Assess
<1>3. QED BY <1>2 DEF SoundHealth, FeatureHealth, Health, Healths, States, RegionFeature

(***************************************************************************)
(* What an action leaves alone                                             *)
(***************************************************************************)
\* The counters are naturals.
LEMMA Counters ==
  ASSUME TypeOK
  PROVE  /\ clock \in Nat /\ latest \in Nat /\ attempt \in Nat
         /\ status.now \in Nat /\ status.latest \in Nat /\ status.attempt \in Nat
         /\ status.latest <= MaxSnapshot /\ status.attempt <= MaxSnapshot
<1>1. status.now \in Clock /\ status.latest \in 0..MaxSnapshot /\ status.attempt \in 0..MaxSnapshot
  BY DEF TypeOK, StatusRequests
<1>2. clock \in Clock /\ latest \in 0..MaxSnapshot /\ attempt \in 0..MaxSnapshot
  BY DEF TypeOK
<1>3. QED BY <1>1, <1>2 DEF Clock

\* While anything but a request happens no answer is ready, and what a request on its
\* way has read stays as it was.
LEMMA AnsweredInv ==
  ASSUME TypeOK, StatusInv, Answered,
         clock' \in Clock, clock <= clock', attempt' \in 0..MaxSnapshot, attempt <= attempt',
         \A i \in Snapshots : i <= attempt => snapshots'[i] = snapshots[i]
  PROVE  /\ status' \in StatusRequests /\ response' \in Responses
         /\ StatusInv' /\ FeatureReadyAtPublication'
         /\ ReadyStandsOnFreshSources' /\ ReadyAfterSuccess' /\ BlockedStaysBlocked'
<1>1. response' = NoResponse /\ response' \in Responses
  <2>1. 0 \in 0..MaxSnapshot /\ 0 \in Clock
    BY DEF Clock
  <2>2. QED BY <2>1 DEF Answered, NoResponse, Responses
<1>2. status' \in StatusRequests /\ ~status'.ready
  <2>1. CASE status.at = "idle"
    BY <2>1 DEF Answered, NoStatus, StatusRequests, Clock
  <2>2. CASE status.at # "idle"
    BY <2>2 DEF Answered, StatusInv, TypeOK, StatusRequests
  <2>3. QED BY <2>1, <2>2
<1>3. StatusInv'
  <2>1. CASE status.at = "idle"
    BY <2>1 DEF Answered, NoStatus, StatusInv, Clock
  <2>2. CASE status.at # "idle"
    <3>1. status' = status
      BY <2>2 DEF Answered
    <3>2. status.latest # 0 => status.latest \in Snapshots /\ status.latest <= attempt
      BY <2>2, Counters DEF StatusInv, Snapshots
    <3>3. attempt' \in Nat /\ clock' \in Nat
      BY DEF Clock
    <3>4. QED BY <2>2, <3>1, <3>2, <3>3, Counters DEF StatusInv
  <2>3. QED BY <2>1, <2>2
<1>4. QED
  BY <1>1, <1>2, <1>3 DEF NoResponse, FeatureReadyAtPublication, ReadyStandsOnFreshSources,
    ReadyAfterSuccess, BlockedStaysBlocked

\* A success is what it was published as: a health for every dataset.
LEMMA SuccessType ==
  ASSUME TypeOK, NEW i \in Snapshots, snapshots[i].status = "ok"
  PROVE  /\ snapshots[i] \in Successes /\ snapshots[i].mode \in Modes
         /\ \A d \in Datasets : HealthOf(i, d) \in Healths
         /\ \A d \in Upstreams : snapshots[i].source[d] \in [kind : Kinds, enabled : Clock]
<1>1. snapshots[i] \in {NoAttempt, FailedAttempt} \union Successes
  BY DEF TypeOK
<1>2. NoAttempt.status = "none" /\ FailedAttempt.status = "error"
  BY DEF NoAttempt, FailedAttempt
<1>3. snapshots[i] \in Successes
  BY <1>1, <1>2
<1>4. QED BY <1>3 DEF Successes, HealthOf

\* What was published stays as it was published, however old it gets.
LEMMA PublishedStays ==
  ASSUME TypeOK, PublishedInv, clock' \in Clock, clock <= clock', snapshots' = snapshots
  PROVE  PublishedInv'
<1> SUFFICES ASSUME NEW i \in Snapshots, snapshots[i].status = "ok",
                    NEW d \in Datasets, ~HealthOf(i, d).ready,
                    Age(clock, HealthOf(i, d).observed) > MaxAge(d)
             PROVE  Age(clock', HealthOf(i, d).observed) > MaxAge(d)
  BY DEF PublishedInv, SourcesRecorded, BlockedForGood, FeatureJudged, HealthOf
<1>1. HealthOf(i, d).observed \in Clock
  BY SuccessType DEF Healths
<1>2. clock \in Clock
  BY DEF TypeOK
<1>3. Age(clock, HealthOf(i, d).observed) <= Age(clock', HealthOf(i, d).observed)
       /\ Age(clock, HealthOf(i, d).observed) \in Nat
       /\ Age(clock', HealthOf(i, d).observed) \in Nat
  BY <1>1, <1>2, AgeGrows
<1>4. QED BY <1>3, MaxAgeType

\* A step of the run that publishes nothing keeps everything but the run.
LEMMA RunStep ==
  ASSUME IInv, Answered, clock' \in Clock, clock <= clock',
         UNCHANGED <<snapshots, latest, attempt>>,
         run' \in Runs, RunInv'
  PROVE  IInv'
<1>1. TypeOK /\ StatusInv /\ PublishedInv /\ PointerInv
  BY DEF IInv, Safety
<1>2. attempt' \in 0..MaxSnapshot /\ attempt <= attempt'
  BY <1>1, Counters DEF TypeOK
<1>3. PublishedInv' /\ PointerInv'
  BY <1>1, PublishedStays DEF PointerInv
<1>4. TypeOK'
  BY <1>1, <1>2, AnsweredInv DEF TypeOK
<1>5. QED BY <1>1, <1>2, <1>3, <1>4, AnsweredInv DEF IInv, Safety

(***************************************************************************)
(* The actions                                                             *)
(***************************************************************************)
LEMMA InitInv == Init => IInv
<1> SUFFICES ASSUME Init PROVE IInv
  OBVIOUS
<1>1. 0 \in Clock /\ 0 \in 0..MaxSnapshot /\ <<>> \in Seq(Fetches)
  BY DEF Clock
<1>2. TypeOK
  BY <1>1 DEF Init, TypeOK, Idle, Runs, NoStatus, StatusRequests, NoResponse, Responses
<1>3. RunInv
  <2>1. run.at = "idle" /\ run.mode = "" /\ run.now = 0 /\ clock = 0
    BY DEF Init, Idle
  <2>2. run.at \notin {"fetch", "build", "fail", "latest"} /\ run.mode # "live"
    BY <2>1
  <2>3. run.now <= clock
    <3>1. 0 <= 0
      OBVIOUS
    <3>2. QED BY <2>1, <3>1
  <2>4. QED BY <2>1, <2>2, <2>3 DEF RunInv
<1>4. PointerInv
  BY DEF Init, PointerInv, Snapshots
<1>5. StatusInv
  BY DEF Init, StatusInv, NoStatus
<1>6. PublishedInv
  BY DEF Init, PublishedInv, NoAttempt
<1>7. QED
  BY <1>2, <1>3, <1>4, <1>5, <1>6 DEF Init, NoStatus, NoResponse, IInv, Safety,
    FeatureReadyAtPublication, ReadyStandsOnFreshSources, ReadyAfterSuccess, BlockedStaysBlocked

LEMMA TickInv == ASSUME IInv, Tick PROVE IInv'
<1>1. TypeOK /\ RunInv
  BY DEF IInv, Safety
<1>2. clock' \in Clock /\ clock <= clock'
  BY <1>1 DEF Tick, TypeOK, Clock
<1>3. run' \in Runs
  BY <1>1 DEF Tick, TypeOK
<1>4. run.now \in Nat /\ clock \in Nat /\ clock' \in Nat
  <2>1. run.now \in Clock
    BY <1>1 DEF TypeOK, Runs
  <2>2. QED BY <1>1, <1>2, <2>1, Counters DEF Clock
<1>5. RunInv'
  BY <1>1, <1>2, <1>4 DEF Tick, RunInv
<1>6. QED BY <1>2, <1>3, <1>5, RunStep DEF Tick

LEMMA StartRunInv == ASSUME IInv, StartRun PROVE IInv'
<1>1. TypeOK /\ RunInv
  BY DEF IInv, Safety
<1> PICK mode \in Modes :
      run' = [at |-> IF Order = <<>> THEN "build" ELSE "fetch",
              mode |-> mode, now |-> clock, fetched |-> <<>>]
  BY DEF StartRun
<1>2. clock \in Clock /\ clock \in Nat /\ <<>> \in Seq(Fetches)
  BY <1>1, Counters DEF TypeOK
<1>3. run' \in Runs
  BY <1>2 DEF Runs
<1>4. Order # <<>> => 0 < Len(Order)
  BY EmptySeq, LenProperties
<1>5. RunInv'
  BY <1>2, <1>4 DEF StartRun, RunInv
<1>6. QED BY <1>2, <1>3, <1>5, RunStep DEF StartRun

\* A fetched dataset takes its place after the others.
LEMMA FetchedInv ==
  ASSUME IInv, NEW f \in Fetches, Fetched(f), run.mode = "live" => f.kind # "demo_fixture"
  PROVE  IInv'
<1>1. TypeOK /\ RunInv
  BY DEF IInv, Safety
<1>2. clock \in Clock /\ clock \in Nat /\ run \in Runs
  BY <1>1, Counters DEF TypeOK
<1>3. /\ run'.at = (IF Len(run.fetched) + 1 = Len(Order) THEN "build" ELSE "fetch")
      /\ run'.fetched = Append(run.fetched, f)
      /\ run'.mode = run.mode /\ run'.now = run.now
      /\ run' \in Runs
  <2> DEFINE next == IF Len(run.fetched) + 1 = Len(Order) THEN "build" ELSE "fetch"
  <2>1. Append(run.fetched, f) \in Seq(Fetches)
    BY <1>2, AppendProperties DEF Runs
  <2>2. next \in {"build", "fetch"}
    OBVIOUS
  <2>3. run' = [run EXCEPT !.fetched = Append(run.fetched, f), !.at = next]
    BY DEF Fetched
  <2> HIDE DEF next
  <2>4. /\ run'.at = next /\ run'.fetched = Append(run.fetched, f)
        /\ run'.mode = run.mode /\ run'.now = run.now /\ run' \in Runs
    BY <1>2, <2>1, <2>2, <2>3 DEF Runs
  <2>5. QED BY <2>4 DEF next
<1>4. /\ run.fetched \in Seq(Fetches)
      /\ Len(run'.fetched) = Len(run.fetched) + 1
      /\ \A i \in DOMAIN run'.fetched :
           \/ i \in DOMAIN run.fetched /\ run'.fetched[i] = run.fetched[i]
           \/ run'.fetched[i] = f
  <2>1. run.fetched \in Seq(Fetches)
    BY <1>2 DEF Runs
  <2>2. QED BY <1>3, <2>1, AppendProperties, LenProperties
<1>5. Len(run.fetched) < Len(Order) /\ Len(run.fetched) \in Nat /\ Len(Order) \in Nat
  <2>1. Len(run.fetched) \in Nat /\ Len(Order) \in Nat
    BY <1>4, LenProperties
  <2>2. QED BY <1>1, <2>1 DEF Fetched, RunInv
<1>6. RunInv'
  <2>1. /\ run'.at \in {"fetch", "build"}
        /\ run'.at = "fetch" => Len(run'.fetched) < Len(Order)
        /\ run'.at = "build" => Len(run'.fetched) = Len(Order)
    BY <1>3, <1>4, <1>5
  <2>2. run'.mode = "live" => \A i \in DOMAIN run'.fetched : run'.fetched[i].kind # "demo_fixture"
    BY <1>1, <1>3, <1>4 DEF RunInv
  <2>3. run.now <= clock /\ run.mode \in Modes /\ attempt < MaxSnapshot
    BY <1>1 DEF RunInv, Fetched
  <2>4. clock' = clock /\ attempt' = attempt
    BY DEF Fetched
  <2>5. QED BY <1>3, <2>1, <2>2, <2>3, <2>4 DEF RunInv
<1>7. QED BY <1>2, <1>3, <1>6, RunStep DEF Fetched

LEMMA CollectInv == ASSUME IInv, Collect PROVE IInv'
<1>1. TypeOK /\ RunInv
  BY DEF IInv, Safety
<1>2. clock \in Clock /\ clock \in Nat /\ run \in Runs
  BY <1>1, Counters DEF TypeOK
<1>3. \A t \in 0..clock : t \in Clock /\ \A e \in 0..t : e \in Clock
  BY <1>2 DEF Clock
<1>4. \A t, e \in Clock : Answer(t, e) \in Fetches /\ Answer(t, e).kind = "api"
  BY DEF Answer, Fetches, Kinds
<1>5. CASE FetchApi
  BY <1>3, <1>4, <1>5, FetchedInv DEF FetchApi
<1>6. CASE FetchSensors
  BY <1>3, <1>4, <1>6, FetchedInv DEF FetchSensors
<1>7. CASE FetchEmpty
  <2> DEFINE f == [Answer(run.now, run.now) EXCEPT !.outcome = "empty"]
  <2>1. run.now \in Clock
    BY <1>2 DEF Runs
  <2>2. f \in Fetches /\ f.kind = "api"
    BY <2>1 DEF Answer, Fetches, Kinds
  <2>3. QED BY <1>7, <2>2, FetchedInv DEF FetchEmpty
<1>8. CASE Scrape
  <2> PICK t \in 0..clock, bad \in BOOLEAN :
        Fetched([kind |-> "scraper_fallback", observed |-> t, enabled |-> t,
                 bad_timestamp |-> bad, outcome |-> "fallback"])
    BY <1>8 DEF Scrape
  <2> DEFINE f == [kind |-> "scraper_fallback", observed |-> t, enabled |-> t,
                   bad_timestamp |-> bad, outcome |-> "fallback"]
  <2>1. f \in Fetches /\ f.kind # "demo_fixture"
    BY <1>3 DEF Fetches, Kinds
  <2>2. QED BY <2>1, FetchedInv
<1>9. CASE FetchDemo
  <2> PICK t \in {0, clock} :
        Fetched([kind |-> "demo_fixture", observed |-> t, enabled |-> t,
                 bad_timestamp |-> FALSE, outcome |-> "ok"])
    BY <1>9 DEF FetchDemo
  <2> DEFINE f == [kind |-> "demo_fixture", observed |-> t, enabled |-> t,
                   bad_timestamp |-> FALSE, outcome |-> "ok"]
  <2>1. t \in Clock
    BY <1>2 DEF Clock
  <2>2. f \in Fetches /\ run.mode # "live"
    BY <1>9, <2>1 DEF Fetches, Kinds, FetchDemo
  <2>3. QED BY <2>2, FetchedInv
<1>10. CASE CollectFails
  <2>1. /\ run'.at = "fail" /\ run'.fetched = <<>>
        /\ run'.mode = run.mode /\ run'.now = run.now /\ run' \in Runs
    <3>1. <<>> \in Seq(Fetches)
      OBVIOUS
    <3>2. QED BY <1>2, <1>10, <3>1 DEF CollectFails, Runs
  <2>2. RunInv'
    BY <1>1, <1>10, <2>1 DEF CollectFails, RunInv
  <2>3. QED BY <1>2, <1>10, <2>1, <2>2, RunStep DEF CollectFails
<1>11. QED BY <1>5, <1>6, <1>7, <1>8, <1>9, <1>10 DEF Collect

\* The attempt pointer moves to an attempt that was just written.
LEMMA NextAttempt ==
  ASSUME IInv, Answered, attempt < MaxSnapshot, attempt' = attempt + 1,
         NEW published \in {FailedAttempt} \union Successes,
         snapshots' = [snapshots EXCEPT ![attempt + 1] = published],
         UNCHANGED <<clock, latest>>
  PROVE  /\ attempt + 1 \in Snapshots /\ snapshots'[attempt + 1] = published
         /\ \A i \in Snapshots : i # attempt + 1 => snapshots'[i] = snapshots[i]
         /\ run' \in Runs => TypeOK'
         /\ StatusInv' /\ PointerInv' /\ FeatureReadyAtPublication'
         /\ ReadyStandsOnFreshSources' /\ ReadyAfterSuccess' /\ BlockedStaysBlocked'
<1>1. TypeOK /\ StatusInv /\ PointerInv
  BY DEF IInv, Safety
<1>2. attempt \in Nat /\ latest \in Nat /\ clock \in Nat /\ clock \in Clock
  BY <1>1, Counters DEF TypeOK
<1>3. attempt + 1 \in Snapshots /\ attempt' \in 0..MaxSnapshot /\ attempt <= attempt'
  BY <1>2 DEF Snapshots
<1>4. /\ snapshots' \in [Snapshots -> {NoAttempt, FailedAttempt} \union Successes]
      /\ snapshots'[attempt + 1] = published
      /\ \A i \in Snapshots : i # attempt + 1 => snapshots'[i] = snapshots[i]
  BY <1>1, <1>3 DEF TypeOK
<1>5. \A i \in Snapshots : i <= attempt => snapshots'[i] = snapshots[i]
  BY <1>2, <1>4 DEF Snapshots
<1>6. PointerInv'
  <2>1. published # NoAttempt
    <3>1. published.status \in {"ok", "error"} /\ NoAttempt.status = "none"
      BY DEF NoAttempt, FailedAttempt, Successes
    <3>2. QED BY <3>1
  <2>2. latest <= attempt /\ latest # 0 => latest \in Snapshots
    BY <1>1, <1>2 DEF TypeOK, Snapshots
  <2>3. latest' <= attempt'
    BY <1>1, <1>2 DEF PointerInv
  <2>4. latest' # 0 => snapshots'[latest'].status = "ok"
    BY <1>1, <1>2, <1>5, <2>2 DEF PointerInv
  <2>5. ASSUME NEW i \in Snapshots
        PROVE  snapshots'[i] = NoAttempt <=> i > attempt'
    <3>1. i \in Nat
      BY DEF Snapshots
    <3>2. CASE i = attempt + 1
      BY <1>2, <1>4, <2>1, <3>1, <3>2
    <3>3. CASE i # attempt + 1
      BY <1>1, <1>2, <1>4, <3>1, <3>3 DEF PointerInv
    <3>4. QED BY <3>2, <3>3
  <2>6. QED BY <2>3, <2>4, <2>5 DEF PointerInv
<1>7. clock' \in Clock /\ clock <= clock'
  BY <1>2
<1>8. /\ status' \in StatusRequests /\ response' \in Responses
      /\ StatusInv' /\ FeatureReadyAtPublication'
      /\ ReadyStandsOnFreshSources' /\ ReadyAfterSuccess' /\ BlockedStaysBlocked'
  BY <1>1, <1>3, <1>5, <1>7, AnsweredInv
<1>9. run' \in Runs => TypeOK'
  BY <1>1, <1>3, <1>4, <1>7, <1>8 DEF TypeOK
<1>10. QED BY <1>3, <1>4, <1>6, <1>8, <1>9

\* A snapshot is published as its run assessed it, and time has passed since.
LEMMA PublishInv == ASSUME IInv, Publish PROVE IInv'
<1>1. TypeOK /\ RunInv /\ PublishedInv
  BY DEF IInv, Safety
<1>2. /\ attempt < MaxSnapshot /\ run.mode \in Modes /\ run.now <= clock
      /\ Len(run.fetched) = Len(Order)
      /\ run.mode = "live" => \A i \in DOMAIN run.fetched : run.fetched[i].kind # "demo_fixture"
  BY <1>1 DEF Publish, RunInv
<1>3. /\ run \in Runs /\ run.fetched \in Seq(Fetches) /\ run.now \in Clock /\ clock \in Clock
      /\ attempt \in Nat
  BY <1>1, Counters DEF TypeOK, Runs
<1> DEFINE upstream == UpstreamHealth(run.mode, run.fetched, run.now)
           feature(c) == FeatureHealth(run.mode, upstream, run.now, c)
           healths(c) == [d \in Datasets |-> IF d = "region_features" THEN feature(c) ELSE upstream[d]]
           sources == [d \in Upstreams |-> LET f == run.fetched[Position(d)] IN
                                             [kind |-> f.kind, enabled |-> f.enabled]]
           published(c) == [status |-> "ok", mode |-> run.mode, feature |-> RegionFeature(upstream, c),
                            health |-> healths(c), source |-> sources]
<1>17. PICK covered \in BOOLEAN : snapshots' = [snapshots EXCEPT ![attempt + 1] = published(covered)]
  BY DEF Publish
<1>4. /\ \A d \in Upstreams :
            /\ run.fetched[Position(d)] \in Fetches
            /\ SoundHealth(upstream[d], d, run.mode, run.now)
            /\ upstream[d].observed = run.fetched[Position(d)].enabled
            /\ run.mode = "live" /\ run.fetched[Position(d)].kind # "api" =>
                 upstream[d].persistent # ""
      /\ SoundHealth(upstream["location_reference"], "location_reference", run.mode, run.now)
  <2>1. \A d \in Upstreams :
          /\ run.fetched[Position(d)] \in Fetches
          /\ SoundHealth(upstream[d], d, run.mode, run.now)
          /\ upstream[d].observed = run.fetched[Position(d)].enabled
          /\ run.mode = "live" /\ run.fetched[Position(d)].kind # "api" =>
               upstream[d].persistent # ""
    BY <1>2, <1>3, UpstreamHealthSource, ZenonT(40)
  <2>2. SoundHealth(upstream["location_reference"], "location_reference", run.mode, run.now)
    BY <1>2, <1>3, LocationHealthSound
  <2>3. QED BY <2>1, <2>2
<1>5. /\ SoundHealth(feature(covered), "region_features", run.mode, run.now)
      /\ feature(covered).ready => /\ RegionFeature(upstream, covered).data_ready
                                  /\ \A d \in DOMAIN upstream : upstream[d].state = "healthy"
  BY <1>2, <1>3, FeatureHealthSound
<1>6. DOMAIN upstream = Upstreams \union {"location_reference"}
  BY DEF UpstreamHealth
<1> HIDE DEF upstream, feature
<1>7. /\ "region_features" \notin Upstreams /\ Upstreams \subseteq Datasets
      /\ Datasets = Upstreams \union {"location_reference", "region_features"}
  BY DEF Derived, Datasets
<1>8. \A d \in Datasets : SoundHealth(healths(covered)[d], d, run.mode, run.now)
  BY <1>4, <1>5, <1>7
<1>9. \A d \in Upstreams : /\ sources[d].kind = run.fetched[Position(d)].kind
                           /\ sources[d].enabled = run.fetched[Position(d)].enabled
                           /\ healths(covered)[d] = upstream[d]
  BY <1>7
<1>10. published(covered) \in Successes
  <2>1. healths(covered) \in [Datasets -> Healths]
    BY <1>8 DEF SoundHealth
  <2>2. sources \in [Upstreams -> [kind : Kinds, enabled : Clock]]
    BY <1>4 DEF Fetches
  <2>3. RegionFeature(upstream, covered) \in [data_ready : BOOLEAN]
    BY DEF RegionFeature
  <2>4. QED BY <1>2, <2>1, <2>2, <2>3 DEF Successes
<1>11. /\ run'.at = "latest" /\ run'.fetched = <<>> /\ run'.mode = run.mode /\ run'.now = run.now
       /\ run' \in Runs
  <2>1. <<>> \in Seq(Fetches)
    OBVIOUS
  <2>2. QED BY <1>3, <2>1 DEF Publish, Runs
<1> DEFINE new == published(covered)
<1>12. /\ new.status = "ok" /\ new.mode = run.mode /\ new.health = healths(covered)
       /\ new.source = sources /\ new.feature = RegionFeature(upstream, covered)
  OBVIOUS
<1> HIDE DEF new, published, sources, healths
<1>13. /\ attempt + 1 \in Snapshots /\ snapshots'[attempt + 1] = new
       /\ \A i \in Snapshots : i # attempt + 1 => snapshots'[i] = snapshots[i]
       /\ TypeOK' /\ StatusInv' /\ PointerInv' /\ FeatureReadyAtPublication'
       /\ ReadyStandsOnFreshSources' /\ ReadyAfterSuccess' /\ BlockedStaysBlocked'
  BY <1>2, <1>10, <1>11, <1>17, NextAttempt DEF Publish, new
<1>14. RunInv'
  BY <1>1, <1>2, <1>3, <1>11, <1>12, <1>13 DEF Publish, RunInv
<1>15. ASSUME NEW i \in Snapshots, snapshots'[i].status = "ok"
       PROVE  SourcesRecorded(i)' /\ BlockedForGood(i)' /\ FeatureJudged(i)'
  <2>1. CASE i # attempt + 1
    <3>1. snapshots'[i] = snapshots[i] /\ clock' = clock
      BY <1>13, <2>1 DEF Publish
    <3>2. SourcesRecorded(i) /\ BlockedForGood(i) /\ FeatureJudged(i)
      BY <1>1, <1>15, <3>1 DEF PublishedInv
    <3>3. QED BY <3>1, <3>2 DEF SourcesRecorded, BlockedForGood, FeatureJudged, HealthOf
  <2>2. CASE i = attempt + 1
    <3>1. /\ snapshots'[i].mode = run.mode /\ snapshots'[i].source = sources
          /\ snapshots'[i].feature = RegionFeature(upstream, covered)
          /\ snapshots'[i].health = healths(covered)
      BY <1>12, <1>13, <2>2
    <3>2. SourcesRecorded(i)'
      <4> SUFFICES ASSUME NEW d \in Upstreams
                   PROVE  /\ healths(covered)[d].observed = sources[d].enabled
                          /\ run.mode = "live" /\ sources[d].kind # "api" =>
                               healths(covered)[d].persistent # ""
        BY <3>1 DEF SourcesRecorded, HealthOf
      <4>1. QED BY <1>4, <1>9
    <3>3. BlockedForGood(i)'
      <4> SUFFICES ASSUME NEW d \in Datasets,
                          Age(run.now, healths(covered)[d].observed) > MaxAge(d)
                   PROVE  Age(clock, healths(covered)[d].observed) > MaxAge(d)
        BY <1>8, <3>1 DEF SoundHealth, BlockedForGood, HealthOf, Publish
      <4>1. healths(covered)[d].observed \in Clock
        BY <1>8 DEF SoundHealth, Healths
      <4>2. QED BY <1>2, <1>3, <4>1, AgeGrows, MaxAgeType
    <3>4. FeatureJudged(i)'
      <4>1. healths(covered)["region_features"] = feature(covered)
        BY <1>7 DEF healths
      <4>2. \A d \in Upstreams : SoundHealth(upstream[d], d, run.mode, run.now)
        BY <1>4
      <4> SUFFICES ASSUME feature(covered).ready
                   PROVE  /\ RegionFeature(upstream, covered).data_ready
                          /\ \A d \in Upstreams : healths(covered)[d].ready
        BY <3>1, <4>1 DEF FeatureJudged, HealthOf
      <4>3. QED BY <1>5, <1>6, <1>9, <4>2 DEF SoundHealth
    <3>5. QED BY <3>2, <3>3, <3>4
  <2>3. QED BY <2>1, <2>2
<1>16. QED BY <1>13, <1>14, <1>15 DEF IInv, Safety, PublishedInv

\* The latest pointer follows a successful attempt.
LEMMA PointLatestInv == ASSUME IInv, PointLatest PROVE IInv'
<1>1. /\ TypeOK /\ RunInv /\ PointerInv /\ StatusInv /\ PublishedInv
  BY DEF IInv, Safety
<1>2. /\ attempt \in Nat /\ clock \in Clock /\ clock \in Nat /\ attempt \in 0..MaxSnapshot
      /\ run \in Runs /\ snapshots[attempt].status = "ok"
  BY <1>1, Counters DEF TypeOK, RunInv, PointLatest
<1>3. /\ clock' = clock /\ attempt' = attempt /\ snapshots' = snapshots
      /\ latest' \in {latest, attempt} /\ Answered
  BY DEF PointLatest
<1>4. run' \in Runs /\ RunInv'
  <2>1. CASE run' = Idle
    <3>1. <<>> \in Seq(Fetches) /\ 0 \in Clock /\ 0 <= clock
      BY <1>2 DEF Clock
    <3>2. /\ run' \in Runs /\ run'.at = "idle" /\ run'.now = 0 /\ run'.mode = ""
      BY <2>1, <3>1 DEF Idle, Runs
    <3>3. run'.now <= clock' /\ run'.mode # "live"
      BY <1>3, <3>1, <3>2
    <3>4. QED BY <3>2, <3>3 DEF RunInv
  <2>2. CASE attempt < MaxSnapshot /\ run' = [run EXCEPT !.at = "fail"]
    <3>1. /\ run' \in Runs /\ run'.at = "fail" /\ run'.now = run.now /\ run'.mode = run.mode
          /\ run'.fetched = run.fetched
      BY <1>2, <2>2 DEF Runs
    <3>2. QED BY <1>1, <1>3, <2>2, <3>1 DEF RunInv, PointLatest
  <2>3. QED BY <2>1, <2>2 DEF PointLatest
<1>5. PublishedInv'
  BY <1>1, <1>2, <1>3, PublishedStays
<1>6. PointerInv'
  BY <1>1, <1>2, <1>3 DEF PointerInv
<1>7. /\ status' \in StatusRequests /\ response' \in Responses
      /\ StatusInv' /\ FeatureReadyAtPublication'
      /\ ReadyStandsOnFreshSources' /\ ReadyAfterSuccess' /\ BlockedStaysBlocked'
  BY <1>1, <1>2, <1>3, AnsweredInv
<1>8. TypeOK'
  BY <1>1, <1>2, <1>3, <1>4, <1>7 DEF TypeOK
<1>9. QED BY <1>4, <1>5, <1>6, <1>7, <1>8 DEF IInv, Safety

\* A kill ends the run and leaves every published thing where it was.
LEMMA KillRunInv == ASSUME IInv, KillRun PROVE IInv'
<1>1. /\ TypeOK /\ RunInv /\ PointerInv /\ StatusInv /\ PublishedInv
  BY DEF IInv, Safety
<1>2. clock \in Clock /\ clock \in Nat /\ attempt \in 0..MaxSnapshot /\ attempt \in Nat
  BY <1>1, Counters DEF TypeOK
<1>3. /\ clock' = clock /\ attempt' = attempt /\ snapshots' = snapshots /\ latest' = latest
      /\ Answered
  BY DEF KillRun
<1>4. run' \in Runs /\ RunInv'
  <2>1. <<>> \in Seq(Fetches) /\ 0 \in Clock /\ 0 <= clock
    BY <1>2 DEF Clock
  <2>2. /\ run' \in Runs /\ run'.at = "idle" /\ run'.now = 0 /\ run'.mode = ""
    BY <2>1 DEF KillRun, Idle, Runs
  <2>3. run'.now <= clock' /\ run'.mode # "live"
    BY <1>3, <2>1, <2>2
  <2>4. QED BY <2>2, <2>3 DEF RunInv
<1>5. PublishedInv'
  BY <1>1, <1>2, <1>3, PublishedStays
<1>6. PointerInv'
  BY <1>1, <1>2, <1>3 DEF PointerInv
<1>7. /\ status' \in StatusRequests /\ response' \in Responses
      /\ StatusInv' /\ FeatureReadyAtPublication'
      /\ ReadyStandsOnFreshSources' /\ ReadyAfterSuccess' /\ BlockedStaysBlocked'
  BY <1>1, <1>2, <1>3, AnsweredInv
<1>8. TypeOK'
  BY <1>1, <1>2, <1>3, <1>4, <1>7 DEF TypeOK
<1>9. QED BY <1>4, <1>5, <1>6, <1>7, <1>8 DEF IInv, Safety

\* A failure leaves an attempt, and the latest snapshot where it was.
LEMMA PublishFailureInv == ASSUME IInv, PublishFailure PROVE IInv'
<1>1. TypeOK /\ RunInv /\ PublishedInv
  BY DEF IInv, Safety
<1>2. attempt < MaxSnapshot /\ clock \in Nat
  BY <1>1, Counters DEF PublishFailure, RunInv
<1>3. run' \in Runs /\ RunInv'
  <2>1. <<>> \in Seq(Fetches) /\ 0 \in Clock /\ 0 <= clock
    BY <1>2 DEF Clock
  <2>2. /\ run' \in Runs /\ run'.at = "idle" /\ run'.now = 0 /\ run'.mode = ""
    BY <2>1 DEF PublishFailure, Idle, Runs
  <2>3. run'.now <= clock' /\ run'.mode # "live"
    BY <2>1, <2>2 DEF PublishFailure
  <2>4. QED BY <2>2, <2>3 DEF RunInv
<1>4. /\ attempt + 1 \in Snapshots /\ snapshots'[attempt + 1] = FailedAttempt
      /\ \A i \in Snapshots : i # attempt + 1 => snapshots'[i] = snapshots[i]
      /\ TypeOK' /\ StatusInv' /\ PointerInv' /\ FeatureReadyAtPublication'
      /\ ReadyStandsOnFreshSources' /\ ReadyAfterSuccess' /\ BlockedStaysBlocked'
  BY <1>2, <1>3, NextAttempt DEF PublishFailure
<1>5. ASSUME NEW i \in Snapshots, snapshots'[i].status = "ok"
      PROVE  SourcesRecorded(i)' /\ BlockedForGood(i)' /\ FeatureJudged(i)'
  <2>1. FailedAttempt.status # "ok"
    BY DEF FailedAttempt, NoAttempt
  <2>2. snapshots'[i] = snapshots[i] /\ clock' = clock
    BY <1>4, <1>5, <2>1 DEF PublishFailure
  <2>3. SourcesRecorded(i) /\ BlockedForGood(i) /\ FeatureJudged(i)
    BY <1>1, <1>5, <2>2 DEF PublishedInv
  <2>4. QED BY <2>2, <2>3 DEF SourcesRecorded, BlockedForGood, FeatureJudged, HealthOf
<1>6. QED BY <1>3, <1>4, <1>5 DEF IInv, Safety, PublishedInv

(***************************************************************************)
(* The requests                                                            *)
(***************************************************************************)
\* A request changes only itself and its answer.
LEMMA RequestStep ==
  ASSUME IInv, UNCHANGED <<clock, run, snapshots, latest, attempt>>,
         status' \in StatusRequests, response' \in Responses, StatusInv',
         FeatureReadyAtPublication', ReadyStandsOnFreshSources', ReadyAfterSuccess',
         BlockedStaysBlocked'
  PROVE  IInv'
<1>1. TypeOK /\ RunInv /\ PointerInv /\ PublishedInv
  BY DEF IInv, Safety
<1>2. TypeOK' /\ RunInv' /\ PointerInv'
  BY <1>1 DEF TypeOK, RunInv, PointerInv
<1>3. PublishedInv'
  BY <1>1, <1>2, PublishedStays, Counters DEF TypeOK
<1>4. QED BY <1>2, <1>3 DEF IInv, Safety

LEMMA StatusLatestInv == ASSUME IInv, StatusLatest PROVE IInv'
<1>1. TypeOK /\ PointerInv
  BY DEF IInv, Safety
<1>2. clock \in Clock /\ clock \in Nat /\ latest \in 0..MaxSnapshot /\ 0 \in 0..MaxSnapshot
      /\ 0 \in Clock
  BY <1>1, Counters DEF TypeOK, Clock
<1>3. /\ status' \in StatusRequests /\ status'.at = "attempt" /\ status'.now = clock
      /\ status'.latest = latest /\ ~status'.ready
  BY <1>2 DEF StatusLatest, NoStatus, StatusRequests
<1>4. response' \in Responses /\ ~response'.ready
  BY <1>2 DEF StatusLatest, NoResponse, Responses
<1>5. StatusInv'
  BY <1>1, <1>2, <1>3 DEF StatusLatest, StatusInv, PointerInv
<1>6. QED
  BY <1>3, <1>4, <1>5, RequestStep DEF StatusLatest, FeatureReadyAtPublication,
    ReadyStandsOnFreshSources, ReadyAfterSuccess, BlockedStaysBlocked

LEMMA StatusAttemptInv == ASSUME IInv, StatusAttempt PROVE IInv'
<1>1. /\ TypeOK /\ StatusInv /\ FeatureReadyAtPublication /\ BlockedStaysBlocked
  BY DEF IInv, Safety
<1>2. /\ status \in StatusRequests /\ attempt \in 0..MaxSnapshot /\ attempt \in Nat
      /\ response \in Responses
  BY <1>1, Counters DEF TypeOK
<1>3. /\ status' \in StatusRequests /\ status'.at = "answer" /\ status'.now = status.now
      /\ status'.latest = status.latest /\ status'.ready = status.ready
      /\ status'.attempt = attempt
  BY <1>2 DEF StatusAttempt, StatusRequests
<1>4. StatusInv' /\ ~status'.ready
  BY <1>1, <1>2, <1>3 DEF StatusAttempt, StatusInv
<1>5. response' = response
  BY DEF StatusAttempt
<1>6. FeatureReadyAtPublication' /\ BlockedStaysBlocked'
  BY <1>1, <1>5 DEF StatusAttempt, FeatureReadyAtPublication, BlockedStaysBlocked, HealthOf
<1>7. QED
  BY <1>2, <1>3, <1>4, <1>5, <1>6, RequestStep DEF StatusAttempt,
    ReadyStandsOnFreshSources, ReadyAfterSuccess

\* A dataset served as healthy is live, readable, fresh at `now' and without a
\* persistent state; and it was ready when it was published if that was a while ago.
LEMMA ServedHealthy ==
  ASSUME NEW i, NEW d, NEW now, Served(i, d, now).state = "healthy" \/ Served(i, d, now).ready
  PROVE  /\ snapshots[i].mode # "demo" /\ ~HealthOf(i, d).invalid
         /\ ~(Age(now, HealthOf(i, d).observed) > MaxAge(d))
         /\ HealthOf(i, d).persistent \in {"", "healthy"}
<1>1. HealthOf(i, d) = snapshots[i].health[d]
  BY DEF HealthOf
<1>2. QED BY <1>1 DEF Served, Refresh, Health

\* The answer is ready only if the attempt read did not fail and every dataset of the
\* snapshot read is healthy now.
LEMMA StatusAnswerInv == ASSUME IInv, StatusAnswer PROVE IInv'
<1>1. /\ TypeOK /\ StatusInv /\ PointerInv /\ PublishedInv
      /\ FeatureReadyAtPublication /\ BlockedStaysBlocked
  BY DEF IInv, Safety
<1>2. status \in StatusRequests /\ response \in Responses
  BY <1>1 DEF TypeOK
<1> DEFINE failed == /\ status.attempt # 0
                     /\ snapshots[status.attempt].status = "error"
                     /\ status.attempt # status.latest
           answer == IF failed THEN "collector_error"
                     ELSE IF status.latest = 0 THEN "uninitialized"
                     ELSE Aggregate(status.latest, status.now)
<1>3. answer \in {"uninitialized", "collector_error", "demo", "healthy", "unhealthy"}
  BY DEF Aggregate
<1>4. status' = [status EXCEPT !.at = "idle", !.state = answer, !.ready = (answer = "healthy")]
  BY DEF StatusAnswer
<1>5. (answer = "healthy") \in BOOLEAN
  OBVIOUS
<1>6. answer = "healthy" => ~failed /\ status.latest # 0 /\ Aggregate(status.latest, status.now) = "healthy"
  OBVIOUS
<1> HIDE DEF answer
<1>7. /\ status' \in StatusRequests /\ status'.at = "idle" /\ status'.now = status.now
      /\ status'.latest = status.latest /\ status'.attempt = status.attempt
      /\ status'.ready = (answer = "healthy")
  BY <1>2, <1>3, <1>4, <1>5 DEF StatusRequests
<1>8. /\ response' = response /\ UNCHANGED <<clock, run, snapshots, latest, attempt>>
      /\ status.at = "answer"
  BY DEF StatusAnswer
<1>9. StatusInv'
  BY <1>1, <1>7, <1>8 DEF StatusInv
<1>10. ASSUME answer = "healthy"
       PROVE  /\ ReadyStandsOnFreshSources' /\ ReadyAfterSuccess'
  <2> DEFINE i == status.latest
  <2>1. i # 0 /\ i \in Snapshots /\ snapshots[i].status = "ok" /\ i <= status.attempt
        /\ status.attempt \in Snapshots /\ status.attempt <= attempt /\ status.attempt \in Nat
    BY <1>1, <1>6, <1>8, <1>10, Counters DEF StatusInv, Snapshots
  <2>2. snapshots[i].mode # "demo" /\ \A d \in Datasets : Served(i, d, status.now).state = "healthy"
    BY <1>6, <1>10 DEF Aggregate
  <2>3. snapshots[i].mode = "live"
    BY <2>1, <2>2, <1>1, SuccessType
  <2>4. ASSUME NEW d \in Upstreams
        PROVE  /\ Fresh(i, d, status.now) /\ snapshots[i].source[d].kind = "api"
               /\ ~HealthOf(i, d).invalid
    <3>1. d \in Datasets
      BY DEF Datasets
    <3>2. /\ ~HealthOf(i, d).invalid
          /\ ~(Age(status.now, HealthOf(i, d).observed) > MaxAge(d))
          /\ HealthOf(i, d).persistent \in {"", "healthy"}
      BY <2>2, <3>1, ServedHealthy
    <3>3. HealthOf(i, d) \in Healths
      BY <1>1, <2>1, <3>1, SuccessType
    <3>4. HealthOf(i, d).persistent = ""
      BY <3>2, <3>3 DEF Healths
    <3>5. /\ HealthOf(i, d).observed = snapshots[i].source[d].enabled
          /\ snapshots[i].source[d].kind # "api" => HealthOf(i, d).persistent # ""
      BY <1>1, <2>1, <2>3 DEF PublishedInv, SourcesRecorded
    <3>6. HealthOf(i, d).observed \in Clock /\ status.now \in Clock
      BY <1>2, <3>3 DEF Healths, StatusRequests
    <3>7. Age(status.now, HealthOf(i, d).observed) \in Nat /\ MaxAge(d) \in Nat
      BY <3>6, MaxAgeType DEF Age, Clock
    <3>8. Age(status.now, HealthOf(i, d).observed) <= MaxAge(d)
      <4>1. \A a, m \in Nat : ~(a > m) => a <= m
        OBVIOUS
      <4>2. QED BY <3>2, <3>7, <4>1
    <3>9. Age(status.now, snapshots[i].source[d].enabled) <= MaxAge(d)
      BY <3>5, <3>8
    <3>10. QED BY <3>2, <3>4, <3>5, <3>9 DEF Fresh
  <2>5. ReadyStandsOnFreshSources'
    BY <1>7, <1>8, <2>3, <2>4 DEF ReadyStandsOnFreshSources, Fresh, HealthOf
  <2>6. snapshots[status.attempt].status = "ok"
    <3>1. CASE status.attempt = status.latest
      BY <2>1, <3>1
    <3>2. CASE status.attempt # status.latest
      <4>1. status.attempt # 0
        BY <2>1 DEF Snapshots
      <4>2. snapshots[status.attempt].status # "error"
        BY <1>6, <1>10, <3>2, <4>1
      <4>3. snapshots[status.attempt] # NoAttempt
        BY <1>1, <2>1, Counters DEF PointerInv
      <4>4. snapshots[status.attempt] \in {NoAttempt, FailedAttempt} \union Successes
        BY <1>1, <2>1 DEF TypeOK
      <4>5. FailedAttempt.status = "error"
        BY DEF FailedAttempt, NoAttempt
      <4>6. QED BY <4>2, <4>3, <4>4, <4>5 DEF Successes
    <3>3. QED BY <3>1, <3>2
  <2>7. ReadyAfterSuccess'
    BY <1>7, <1>8, <2>1, <2>6 DEF ReadyAfterSuccess
  <2>8. QED BY <2>5, <2>7
<1>11. ReadyStandsOnFreshSources' /\ ReadyAfterSuccess'
  BY <1>7, <1>10 DEF ReadyStandsOnFreshSources, ReadyAfterSuccess
<1>12. FeatureReadyAtPublication' /\ BlockedStaysBlocked'
  BY <1>1, <1>8 DEF FeatureReadyAtPublication, BlockedStaysBlocked, HealthOf
<1>13. QED BY <1>2, <1>7, <1>8, <1>9, <1>11, <1>12, RequestStep

\* A dataset served as ready was published as ready: its reasons would still hold.
LEMMA GetDatasetInv == ASSUME IInv, NEW d \in Datasets, GetDataset(d) PROVE IInv'
<1>1. TypeOK /\ PointerInv /\ PublishedInv
  BY DEF IInv, Safety
<1>2. latest \in Snapshots /\ latest \in 0..MaxSnapshot /\ snapshots[latest].status = "ok" /\ clock \in Clock
  BY <1>1, Counters DEF GetDataset, TypeOK, PointerInv, Snapshots
<1> DEFINE ready == Served(latest, d, clock).ready
<1>3. ready \in BOOLEAN
  BY DEF Served, Refresh, Health
<1>4. ready => HealthOf(latest, d).ready
  <2> SUFFICES ASSUME ready, ~HealthOf(latest, d).ready PROVE FALSE
    OBVIOUS
  <2>1. /\ snapshots[latest].mode # "demo" /\ ~HealthOf(latest, d).invalid
        /\ ~(Age(clock, HealthOf(latest, d).observed) > MaxAge(d))
        /\ HealthOf(latest, d).persistent \in {"", "healthy"}
    BY ServedHealthy
  <2>2. HealthOf(latest, d) \in Healths
    BY <1>1, <1>2, SuccessType
  <2>3. HealthOf(latest, d).persistent = ""
    BY <2>1, <2>2 DEF Healths
  <2>4. BlockedForGood(latest)
    BY <1>1, <1>2 DEF PublishedInv
  <2>5. QED BY <2>1, <2>3, <2>4 DEF BlockedForGood
<1>5. response' = [snapshot |-> latest, dataset |-> d, at |-> clock, ready |-> ready]
      /\ status' = NoStatus /\ UNCHANGED <<clock, run, snapshots, latest, attempt>>
  BY DEF GetDataset
<1> HIDE DEF ready
<1>6. /\ response' \in Responses /\ response'.snapshot = latest /\ response'.dataset = d
      /\ response'.ready = ready
  BY <1>2, <1>3, <1>5 DEF Responses
<1>7. /\ status' \in StatusRequests /\ status'.at = "idle" /\ status'.now = 0 /\ ~status'.ready
  <2>1. 0 \in Clock /\ 0 \in 0..MaxSnapshot
    BY DEF Clock
  <2>2. QED BY <1>5, <2>1 DEF NoStatus, StatusRequests
<1>8. StatusInv'
  <2>1. 0 <= clock
    BY <1>2 DEF Clock
  <2>2. status'.now <= clock'
    BY <1>5, <1>7, <2>1
  <2>3. QED BY <1>7, <2>2 DEF StatusInv
<1>9. BlockedStaysBlocked'
  BY <1>4, <1>5, <1>6 DEF BlockedStaysBlocked, HealthOf
<1>10. FeatureReadyAtPublication'
  <2>1. FeatureJudged(latest)
    BY <1>1, <1>2 DEF PublishedInv
  <2>2. QED BY <1>4, <1>5, <1>6, <2>1 DEF FeatureReadyAtPublication, FeatureJudged, HealthOf
<1>11. QED
  BY <1>5, <1>6, <1>7, <1>8, <1>9, <1>10, RequestStep
    DEF ReadyStandsOnFreshSources, ReadyAfterSuccess

LEMMA NextInv == ASSUME IInv, [Next]_vars PROVE IInv'
<1>1. CASE Next
  BY <1>1, TickInv, StartRunInv, CollectInv, PublishInv, PointLatestInv, PublishFailureInv,
    KillRunInv, StatusLatestInv, StatusAttemptInv, StatusAnswerInv, GetDatasetInv DEF Next
<1>2. CASE UNCHANGED vars
  <2>1. TypeOK' /\ StatusInv'
    BY <1>2 DEF vars, IInv, Safety, TypeOK, StatusInv
  <2>2. /\ FeatureReadyAtPublication' /\ ReadyStandsOnFreshSources' /\ ReadyAfterSuccess'
        /\ BlockedStaysBlocked'
    BY <1>2 DEF vars, IInv, Safety, FeatureReadyAtPublication, ReadyStandsOnFreshSources,
      ReadyAfterSuccess, BlockedStaysBlocked, HealthOf, Fresh
  <2>3. QED BY <1>2, <2>1, <2>2, RequestStep DEF vars, TypeOK
<1>3. QED BY <1>1, <1>2

(***************************************************************************)
(* The theorems                                                            *)
(***************************************************************************)
\* The invariant the others follow from holds in every state.
THEOREM InductiveInvariant == Spec => []IInv
BY InitInv, NextInv, PTL DEF Spec

\* The collection, the pointers, the requests on their way and the published
\* snapshots are what the code takes them for; a ready feature was judged with its
\* upstreams and its record says so (operations/collector.py, health.py, api.py).
THEOREM PublishedAsAssessed == Spec => []Safety
BY InductiveInvariant, PTL DEF IInv

\* A ready status stands on live, official, readable data, fresh when it was asked for.
THEOREM ReadyIsFresh == Spec => []ReadyStandsOnFreshSources
BY InductiveInvariant, PTL DEF IInv

\* A ready status saw no failed attempt, nor one older than its snapshot, whichever
\* way the collector moves the pointers between the two reads.
THEOREM ReadyIsCurrent == Spec => []ReadyAfterSuccess
BY InductiveInvariant, PTL DEF IInv

\* What was published as not ready is never served as ready.
THEOREM BlockedForever == Spec => []BlockedStaysBlocked
BY InductiveInvariant, PTL DEF IInv

HIDE OperationsAssumption

(***************************************************************************)
(* The audits: extremes of sets of integers, which the reports take        *)
(***************************************************************************)
\* A set of integers with a lower bound has a least member,
LEMMA LeastOf ==
  ASSUME NEW S \in SUBSET Int, S # {}, NEW b \in Int, \A s \in S : b <= s
  PROVE  Min(S) \in S /\ \A s \in S : Min(S) <= s
<1> DEFINE T == {s - b : s \in S}
<1>1. T \subseteq Nat /\ T # {}
  <2>1. \A s \in S : s - b \in Nat
    OBVIOUS
  <2>2. QED BY <2>1
<1> HIDE DEF T
<1>2. PICK x \in T : \A y \in T : ~(<<y, x>> \in OpToRel(<, Nat))
  BY <1>1, NatLessThanWellFounded, WFMin
<1>3. \A y \in T : x <= y
  <2> SUFFICES ASSUME NEW y \in T PROVE x <= y
    OBVIOUS
  <2>1. x \in Nat /\ y \in Nat /\ ~(y < x)
    BY <1>1, <1>2 DEF OpToRel
  <2>2. QED BY <2>1
<1>4. PICK m \in S : x = m - b
  BY DEF T
<1>5. \A s \in S : m <= s
  <2> SUFFICES ASSUME NEW s \in S PROVE m <= s
    OBVIOUS
  <2>1. x <= s - b
    BY <1>3 DEF T
  <2>2. QED BY <2>1, <1>4
<1>6. QED BY <1>5 DEF Min

\* and one with an upper bound has a greatest.
LEMMA GreatestOf ==
  ASSUME NEW S \in SUBSET Int, S # {}, NEW b \in Int, \A s \in S : s <= b
  PROVE  Max(S) \in S /\ \A s \in S : s <= Max(S)
<1> DEFINE T == {0 - s : s \in S}
<1>1. T \in SUBSET Int /\ T # {} /\ 0 - b \in Int
  <2>1. T \subseteq Int
    <3>1. \A s \in S : s \in Int
      OBVIOUS
    <3>2. \A s \in S : 0 - s \in Int
      BY <3>1
    <3>3. QED BY <3>2
  <2>2. T # {}
    OBVIOUS
  <2>3. 0 - b \in Int
    OBVIOUS
  <2>4. QED BY <2>1, <2>2, <2>3
<1>2. \A s \in T : 0 - b <= s
  <2>1. ASSUME NEW s \in S PROVE 0 - b <= 0 - s
    <3>1. s \in Int /\ s <= b
      OBVIOUS
    <3>2. QED BY <3>1
  <2>2. QED BY <2>1
<1>3. Min(T) \in T /\ \A s \in T : Min(T) <= s
  <2> HIDE DEF T
  <2>1. QED BY <1>1, <1>2, LeastOf
<1>4. PICK m \in S : Min(T) = 0 - m
  BY <1>3
<1>5. \A s \in S : s <= m
  <2> SUFFICES ASSUME NEW s \in S PROVE s <= m
    OBVIOUS
  <2>1. 0 - m <= 0 - s
    BY <1>3, <1>4
  <2>2. QED BY <2>1
<1>6. QED BY <1>5 DEF Max

\* Around a stretch that holds no member of a bounded set lie two neighbours in it.
LEMMA Neighbours ==
  ASSUME NEW T \in SUBSET Int, NEW a \in Int, NEW b \in Int, \A t \in T : a <= t /\ t <= b,
         NEW lo \in Int, NEW hi \in Int, lo < hi,
         \E t \in T : t <= lo, \E t \in T : hi <= t,
         \A t \in T : ~(lo < t /\ t < hi)
  PROVE  \E t, u \in T : t <= lo /\ hi <= u /\ \A v \in T : ~(t < v /\ v < u)
<1> DEFINE L == {t \in T : t <= lo}
           H == {t \in T : hi <= t}
<1>1. L \in SUBSET Int /\ L # {} /\ \A t \in L : t <= b
  OBVIOUS
<1>2. H \in SUBSET Int /\ H # {} /\ \A t \in H : a <= t
  OBVIOUS
<1>3. Max(L) \in L /\ \A t \in L : t <= Max(L)
  <2> HIDE DEF L
  <2>1. QED BY <1>1, GreatestOf
<1>4. Min(H) \in H /\ \A t \in H : Min(H) <= t
  <2> HIDE DEF H
  <2>1. QED BY <1>2, LeastOf
<1>5. PICK t \in T : t <= lo /\ \A v \in T : v <= lo => v <= t
  BY <1>3
<1>6. PICK u \in T : hi <= u /\ \A v \in T : hi <= v => u <= v
  BY <1>4
<1>7. \A v \in T : ~(t < v /\ v < u)
  <2> SUFFICES ASSUME NEW v \in T, t < v, v < u PROVE FALSE
    OBVIOUS
  <2>1. v \in Int /\ t \in Int /\ u \in Int
    OBVIOUS
  <2>2. ~(v <= lo) /\ ~(hi <= v)
    BY <2>1, <1>5, <1>6
  <2>3. QED BY <2>1, <2>2
<1>8. QED BY <1>5, <1>6, <1>7

\* A stretch after the first ready attempt that holds no ready attempt lies in exactly
\* one window.
LEMMA WindowAround ==
  ASSUME NEW ready \in SUBSET Int, NEW now \in Int, NEW b \in Int,
         \A t \in ready : b <= t /\ t <= now,
         NEW x \in Int, NEW y \in Int, x < y, y <= now,
         \E t \in ready : t <= x, \A t \in ready : ~(x < t /\ t < y)
  PROVE  \E w \in GapWindows(ready, now) :
           /\ w[1] <= x /\ y <= w[2]
           /\ \A v \in GapWindows(ready, now) : v[1] <= x /\ y <= v[2] => v = w
<1> DEFINE T == ready \union {now}
<1>1. PICK t \in T, u \in T : t <= x /\ y <= u /\ \A v \in T : ~(t < v /\ v < u)
  <2>1. T \in SUBSET Int /\ (\A v \in T : (IF b <= now THEN b ELSE now) <= v /\ v <= now)
    OBVIOUS
  <2>2. (\E v \in T : v <= x) /\ (\E v \in T : y <= v) /\ \A v \in T : ~(x < v /\ v < y)
    OBVIOUS
  <2>3. (IF b <= now THEN b ELSE now) \in Int
    OBVIOUS
  <2> HIDE DEF T
  <2>4. QED BY <2>1, <2>2, <2>3, Neighbours
<1>2. t \in ready /\ t < u
  <2>1. t \in Int /\ u \in Int /\ t # now
    BY <1>1
  <2>2. t < u
    BY <2>1, <1>1
  <2>3. QED BY <2>1, <2>2
<1>3. <<t, u>> \in GapWindows(ready, now)
  BY <1>1, <1>2 DEF GapWindows
<1>4. ASSUME NEW v \in GapWindows(ready, now), v[1] <= x, y <= v[2]
      PROVE  v = <<t, u>>
  <2>1. /\ v = <<v[1], v[2]>> /\ v[1] \in ready /\ v[2] \in T
        /\ \A w \in ready : ~(v[1] < w /\ w < v[2])
    BY <1>4 DEF GapWindows
  <2>2. v[1] \in Int /\ v[2] \in Int /\ t \in Int /\ u \in Int /\ v[2] <= now /\ u <= now
    BY <2>1
  <2>3. v[1] = t
    <3>1. ~(v[1] < t) /\ ~(t < v[1])
      BY <2>1, <2>2, <1>1, <1>2, <1>4
    <3>2. QED BY <3>1, <2>2
  <2>4. v[2] = u
    <3>1. ~(v[2] < u)
      BY <2>1, <2>2, <1>1, <1>2, <1>4
    <3>2. ~(u < v[2])
      BY <2>1, <2>2, <1>1, <1>2, <1>4
    <3>3. QED BY <3>1, <3>2, <2>2
  <2>5. QED BY <2>1, <2>3, <2>4
<1>5. QED BY <1>1, <1>3, <1>4

\* What the reports read: dated attempts, or Undated ones, and periods with both ends.
ReportInputs(history, evidence, now) ==
  /\ now \in Int
  /\ \A a \in history : a.at \in Int
  /\ \A p \in evidence : p.from \in Int /\ p.to \in Int

LEMMA ReadyBounds ==
  ASSUME NEW history, NEW evidence, NEW now, ReportInputs(history, evidence, now)
  PROVE  /\ ReadyTimes(history, now) \in SUBSET Int
         /\ now \in Int /\ now - Lookback \in Int
         /\ \A t \in ReadyTimes(history, now) : now - Lookback <= t /\ t <= now
<1>1. now \in Int /\ Lookback \in Int
  BY ReadinessAssumption DEF ReportInputs
<1>2. \A a \in Live(history, now) : a.at \in Int /\ now - Lookback <= a.at /\ a.at <= now
  BY DEF Live, ReportInputs
<1>3. QED BY <1>1, <1>2 DEF ReadyTimes

\* The two selections of attempts come to the same.
LEMMA SameReadyTimes ==
  ASSUME NEW history, NEW now
  PROVE  ShadowReadyTimes(history, now) = ReadyTimes(history, now)
<1>1. AttemptsInWindow(history, now) = Live(history, now)
  BY DEF AttemptsInWindow, Live
<1>2. ReadyAttempts(Live(history, now)) = {b \in Live(history, now) : Ready(b)}
  BY DEF ReadyAttempts, Successful, Ready, Readable
<1>3. QED BY <1>1, <1>2 DEF ShadowReadyTimes, ReadyTimes

\* The class of the attempts of a gap accounts for each of them.
LEMMA ClassAccounts ==
  ASSUME NEW attempts
  PROVE  LET class == Classification(attempts) IN
           /\ class = "no_completed_attempts" => attempts = {}
           /\ class \in {"source_data_stale", "successful_but_not_ready"} =>
                \A a \in attempts : Readable(a)
           /\ class = "collection_failure" => \A a \in attempts : ~a.ok
           /\ class \in {"mixed_collection_and_readiness_failure", "collection_failure"} =>
                \E a \in attempts : ~a.ok
           /\ class = "source_data_stale" => StaleSources(attempts) # {}
<1> DEFINE successful == {a \in attempts : a.ok}
           failed == attempts \ successful
<1>1. failed = {} => successful = attempts
  OBVIOUS
<1>2. CASE attempts = {}
  BY <1>2 DEF Classification
<1>3. CASE attempts # {} /\ \E a \in successful : a.damaged
  BY <1>3 DEF Classification
<1>4. CASE /\ attempts # {} /\ ~ \E a \in successful : a.damaged
           /\ failed = {} /\ StaleSources(successful) # {}
  <2>1. Classification(attempts) = "source_data_stale"
    BY <1>4 DEF Classification
  <2>2. \A a \in attempts : Readable(a)
    BY <1>4 DEF Readable
  <2>3. StaleSources(attempts) # {}
    BY <1>1, <1>4
  <2>4. QED BY <2>1, <2>2, <2>3
<1>5. CASE /\ attempts # {} /\ ~ \E a \in successful : a.damaged
           /\ ~(failed = {} /\ StaleSources(successful) # {}) /\ successful = {}
  <2>1. Classification(attempts) = "collection_failure"
    BY <1>5 DEF Classification
  <2>2. QED BY <2>1, <1>5
<1>6. CASE /\ attempts # {} /\ ~ \E a \in successful : a.damaged
           /\ ~(failed = {} /\ StaleSources(successful) # {}) /\ successful # {}
           /\ failed # {}
  <2>1. Classification(attempts) = "mixed_collection_and_readiness_failure"
    BY <1>6 DEF Classification
  <2>2. QED BY <2>1, <1>6
<1>7. CASE /\ attempts # {} /\ ~ \E a \in successful : a.damaged
           /\ ~(failed = {} /\ StaleSources(successful) # {}) /\ successful # {}
           /\ failed = {}
  <2>1. Classification(attempts) = "successful_but_not_ready"
    BY <1>7 DEF Classification
  <2>2. \A a \in attempts : Readable(a)
    BY <1>7 DEF Readable
  <2>3. QED BY <2>1, <2>2
<1>8. QED BY <1>2, <1>3, <1>4, <1>5, <1>6, <1>7

\* An incident is of a window longer than the maximum gap, with all attempts in it.
LEMMA IncidentOf ==
  ASSUME NEW history, NEW now, NEW i \in Incidents(history, now)
  PROVE  \E w \in GapWindows(ReadyTimes(history, now), now) :
           /\ i = Incident(Live(history, now), w) /\ w[2] - w[1] > MaxGap
           /\ i.start = w[1] /\ i.end = w[2]
           /\ i.attempts = AttemptsDuring(Live(history, now), w)
           /\ i.class = Classification(i.attempts)
           /\ i.affected = IF i.class = "source_data_stale" THEN StaleSources(i.attempts) ELSE {}
BY DEF Incidents, Incident

\* Clauses of ReportsAgree: every long stretch is in one incident.
LEMMA StretchInOneIncident ==
  ASSUME NEW history, NEW evidence, NEW now, ReportInputs(history, evidence, now),
         NEW x \in Int, NEW y \in Int, y <= now, y - x > MaxGap,
         \E t \in ReadyTimes(history, now) : t <= x,
         ~ \E t \in ReadyTimes(history, now) : x < t /\ t < y
  PROVE  Cardinality({i \in Incidents(history, now) : i.start <= x /\ y <= i.end}) = 1
<1> DEFINE ready == ReadyTimes(history, now)
<1>1. /\ ready \in SUBSET Int /\ now \in Int /\ now - Lookback \in Int
      /\ \A t \in ready : now - Lookback <= t /\ t <= now
  BY ReadyBounds
<1>2. MaxGap \in Int /\ MaxGap > 0
  BY ReadinessAssumption
<1>3. x < y
  BY <1>2
<1>4. PICK w \in GapWindows(ready, now) :
        /\ w[1] <= x /\ y <= w[2]
        /\ \A v \in GapWindows(ready, now) : v[1] <= x /\ y <= v[2] => v = w
  <2> HIDE DEF ready
  <2>1. (\E t \in ready : t <= x) /\ \A t \in ready : ~(x < t /\ t < y)
    BY DEF ready
  <2>2. QED BY <1>1, <1>3, <2>1, WindowAround
<1>5. w[1] \in Int /\ w[2] \in Int
  BY <1>1 DEF GapWindows
<1>6. w[2] - w[1] > MaxGap
  BY <1>2, <1>4, <1>5
<1> DEFINE i == Incident(Live(history, now), w)
<1>7. i \in Incidents(history, now) /\ i.start = w[1] /\ i.end = w[2]
  BY <1>6 DEF Incidents, Incident
<1>8. {j \in Incidents(history, now) : j.start <= x /\ y <= j.end} = {i}
  <2>1. ASSUME NEW j \in Incidents(history, now), j.start <= x, y <= j.end PROVE j = i
    BY <2>1, <1>4, IncidentOf
  <2>2. QED BY <2>1, <1>4, <1>7
<1>9. QED BY <1>8, FS_Singleton

\* No incident holds a ready attempt, and its class accounts for the ones it holds.
LEMMA IncidentAccounts ==
  ASSUME NEW history, NEW now, NEW i \in Incidents(history, now)
  PROVE  /\ \A a \in Live(history, now) :
              i.start < a.at /\ a.at < i.end =>
                /\ ~Ready(a)
                /\ i.class # "no_completed_attempts"
                /\ i.class \in {"source_data_stale", "successful_but_not_ready"} => Readable(a)
                /\ i.class = "collection_failure" => ~a.ok
         /\ i.class = "source_data_stale" <=> i.affected # {}
         /\ i.class \in {"mixed_collection_and_readiness_failure", "collection_failure"} =>
              \E a \in i.attempts : (i.start < a.at /\ a.at < i.end) /\ ~a.ok
<1>1. PICK w \in GapWindows(ReadyTimes(history, now), now) :
        /\ i.start = w[1] /\ i.end = w[2]
        /\ i.attempts = AttemptsDuring(Live(history, now), w)
        /\ i.class = Classification(i.attempts)
        /\ i.affected = IF i.class = "source_data_stale" THEN StaleSources(i.attempts) ELSE {}
  BY IncidentOf
<1>2. i.attempts = {a \in Live(history, now) : i.start < a.at /\ a.at < i.end}
  BY <1>1 DEF AttemptsDuring
<1>3. \A a \in i.attempts : ~Ready(a)
  BY <1>1, <1>2 DEF GapWindows, ReadyTimes
<1>4. QED BY <1>1, <1>2, <1>3, ClassAccounts

LEMMA OfTwo ==
  ASSUME NEW a \in Int, NEW b \in Int
  PROVE  /\ Min({a, b}) \in {a, b} /\ Min({a, b}) <= a /\ Min({a, b}) <= b
         /\ Max({a, b}) \in {a, b} /\ Max({a, b}) >= a /\ Max({a, b}) >= b
<1>1. {a, b} \in SUBSET Int /\ {a, b} # {}
  OBVIOUS
<1>2. PICK l \in Int : \A s \in {a, b} : l <= s
  <2>1. CASE a <= b
    BY <2>1
  <2>2. CASE b <= a
    BY <2>2
  <2>3. QED BY <2>1, <2>2
<1>3. PICK g \in Int : \A s \in {a, b} : s <= g
  <2>1. CASE a <= b
    BY <2>1
  <2>2. CASE b <= a
    BY <2>2
  <2>3. QED BY <2>1, <2>2
<1>4. Min({a, b}) \in {a, b} /\ \A s \in {a, b} : Min({a, b}) <= s
  BY <1>1, <1>2, LeastOf
<1>5. Max({a, b}) \in {a, b} /\ \A s \in {a, b} : s <= Max({a, b})
  BY <1>1, <1>3, GreatestOf
<1>6. QED BY <1>4, <1>5

\* The shadow gate sees a gap exactly when there is an incident.
LEMMA GateSeesGaps ==
  ASSUME NEW history, NEW evidence, NEW now, ReportInputs(history, evidence, now),
         ReadyTimes(history, now) # {}
  PROVE  Incidents(history, now) = {} <=> MaximumGap(ReadyTimes(history, now), now) <= MaxGap
<1> DEFINE ready == ReadyTimes(history, now)
           last == Max(ready)
           D == Differences(ready) \union {now - last}
<1>1. /\ ready \in SUBSET Int /\ now \in Int /\ now - Lookback \in Int
      /\ \A t \in ready : now - Lookback <= t /\ t <= now
  BY ReadyBounds
<1>2. MaxGap \in Int /\ MaxGap > 0 /\ Lookback \in Int
  BY ReadinessAssumption
<1>3. last \in ready /\ \A t \in ready : t <= last
  BY <1>1, GreatestOf
<1> HIDE DEF ready, last
<1>4. ASSUME NEW t \in ready, NEW u \in ready
      PROVE  t \in Int /\ u \in Int /\ u - t \in Int /\ u - t <= Lookback
  <2>1. /\ t \in Int /\ u \in Int /\ now \in Int /\ Lookback \in Int
        /\ now - Lookback <= t /\ u <= now
    BY <1>1, <1>2
  <2>2. QED BY <2>1
<1>5. \A p \in ready \X ready : p[2] - p[1] \in Int /\ p[2] - p[1] <= Lookback
  BY <1>4
<1>6. now - last \in Int /\ now - last <= Lookback
  <2>1. last \in Int /\ now \in Int /\ Lookback \in Int /\ now - Lookback <= last
    BY <1>1, <1>2, <1>3
  <2>2. QED BY <2>1
<1>7. D \in SUBSET Int /\ D # {} /\ \A d \in D : d <= Lookback
  BY <1>5, <1>6 DEF Differences
<1>8. Max(D) \in D /\ \A d \in D : d <= Max(D)
  <2> HIDE DEF D
  <2>1. QED BY <1>2, <1>7, GreatestOf
<1>9. Max(D) <= MaxGap <=> \A d \in D : d <= MaxGap
  <2> HIDE DEF D
  <2>1. D \subseteq Int /\ Max(D) \in Int
    BY <1>7, <1>8
  <2>2. ASSUME Max(D) <= MaxGap, NEW d \in D PROVE d <= MaxGap
    <3>1. d \in Int /\ d <= Max(D)
      BY <1>8, <2>1
    <3>2. QED BY <3>1, <2>1, <2>2, <1>2
  <2>3. QED BY <1>8, <2>2
<1>10. ASSUME Incidents(history, now) = {}, NEW d \in D PROVE d <= MaxGap
  <2>1. ASSUME NEW w \in GapWindows(ready, now) PROVE ~(w[2] - w[1] > MaxGap)
    BY <1>10 DEF Incidents, ready
  <2>2. CASE d = now - last
    <3>1. SUFFICES ASSUME last < now PROVE d <= MaxGap
      <4>1. last \in Int
        BY <1>1, <1>3
      <4>2. last <= now
        BY <1>1, <1>3
      <4>3. QED BY <4>1, <4>2, <2>2, <1>1, <1>2
    <3>2. <<last, now>> \in GapWindows(ready, now)
      <4>1. \A v \in ready : ~(last < v /\ v < now)
        <5> SUFFICES ASSUME NEW v \in ready PROVE ~(last < v)
          OBVIOUS
        <5>1. v \in Int /\ last \in Int /\ v <= last
          BY <1>1, <1>3
        <5>2. QED BY <5>1
      <4>2. QED BY <4>1, <3>1, <1>3 DEF GapWindows
    <3>3. ~(now - last > MaxGap)
      BY <2>1, <3>2
    <3>4. QED BY <3>3, <2>2, <1>2, <1>6
  <2>3. CASE d \in Differences(ready)
    <3>1. PICK p \in ready \X ready :
            /\ d = p[2] - p[1] /\ p[1] < p[2]
            /\ ~ \E v \in ready : p[1] < v /\ v < p[2]
      BY <2>3 DEF Differences
    <3>2. p \in GapWindows(ready, now)
      BY <3>1 DEF GapWindows
    <3>3. QED BY <2>1, <3>1, <3>2, <1>2, <1>5
  <2>4. QED BY <2>2, <2>3
<1>11. ASSUME \A d \in D : d <= MaxGap, NEW i \in Incidents(history, now) PROVE FALSE
  <2>1. PICK w \in GapWindows(ready, now) : w[2] - w[1] > MaxGap
    BY <1>11, IncidentOf DEF ready
  <2>2. /\ w[1] \in ready /\ w[2] \in ready \union {now} /\ w[1] < w[2]
        /\ ~ \E v \in ready : w[1] < v /\ v < w[2]
    BY <2>1 DEF GapWindows
  <2>3. CASE w[2] \in ready
    <3>1. w[2] - w[1] \in Differences(ready)
      <4>1. w \in ready \X ready
        BY <2>1, <2>3 DEF GapWindows
      <4>2. QED BY <4>1, <2>2 DEF Differences
    <3>2. w[2] - w[1] \in D
      BY <3>1
    <3>3. w[2] - w[1] \in Int /\ w[2] - w[1] <= MaxGap
      BY <3>2, <1>7, <1>11
    <3>4. QED BY <3>3, <2>1, <1>2
  <2>4. CASE w[2] = now /\ now \notin ready
    <3>1. w[1] = last
      <4>1. w[1] \in Int /\ last \in Int /\ w[1] <= last /\ last < now
        <5>1. w[1] \in Int /\ w[1] <= last
          BY <2>2, <1>1, <1>3
        <5>2. last \in Int /\ last <= now /\ last # now
          BY <2>4, <1>1, <1>3
        <5>3. QED BY <5>1, <5>2, <1>1
      <4>2. ~(w[1] < last)
        BY <2>2, <2>4, <4>1, <1>3
      <4>3. QED BY <4>1, <4>2
    <3>2. now - last \in D /\ now - last <= MaxGap
      BY <1>11
    <3>3. QED BY <3>1, <3>2, <2>1, <2>4, <1>2, <1>6
  <2>5. QED BY <2>2, <2>3, <2>4
<1>12. MaximumGap(ready, now) = Max(D)
  BY DEF MaximumGap, last
<1> HIDE DEF D
<1>13. QED BY <1>9, <1>10, <1>11, <1>12 DEF ready

\* No period of heavy rain counts as covered in which an incident takes longer than the
\* maximum gap.
LEMMA CoveredPeriodHasNoGap ==
  ASSUME NEW history, NEW evidence, NEW now, ReportInputs(history, evidence, now),
         NEW p \in Confirmed(evidence), NEW i \in Incidents(history, now),
         Covered(p, ReadyTimes(history, now))
  PROVE  Min({i.end, p.to}) - Max({i.start, p.from}) <= MaxGap
<1> DEFINE ready == ReadyTimes(history, now)
           T == {t \in ready : p.from <= t /\ t <= p.to} \union {p.from, p.to}
           lo == Max({i.start, p.from})
           hi == Min({i.end, p.to})
<1>1. ready \in SUBSET Int /\ now \in Int
  BY ReadyBounds
<1>2. MaxGap \in Int /\ MaxGap > 0
  BY ReadinessAssumption
<1>3. p.from \in Int /\ p.to \in Int /\ p.from < p.to
  BY DEF Confirmed, ReportInputs
<1>4. /\ i.start \in Int /\ i.end \in Int
      /\ \A v \in ready : ~(i.start < v /\ v < i.end)
  BY <1>1, IncidentOf DEF GapWindows
<1>5. /\ lo \in Int /\ i.start <= lo /\ p.from <= lo /\ hi \in Int /\ hi <= i.end /\ hi <= p.to
      /\ lo \in {i.start, p.from} /\ hi \in {i.end, p.to}
  BY <1>3, <1>4, OfTwo
<1>6. \A gap \in Differences(T) : gap <= MaxGap
  BY DEF Covered
<1> HIDE DEF lo, hi
<1>7. SUFFICES ASSUME lo < hi PROVE hi - lo <= MaxGap
  <2>1. CASE lo < hi
    BY <1>7, <2>1 DEF lo, hi
  <2>2. CASE ~(lo < hi)
    <3>1. hi - lo <= MaxGap
      BY <2>2, <1>2, <1>5
    <3>2. QED BY <3>1 DEF lo, hi
  <2>3. QED BY <2>1, <2>2
<1>8. \A t \in T : t \in Int /\ p.from <= t /\ t <= p.to
  BY <1>1, <1>3
<1>9. \A t \in T : ~(lo < t /\ t < hi)
  <2> SUFFICES ASSUME NEW t \in T, lo < t, t < hi PROVE FALSE
    OBVIOUS
  <2>1. t \in Int
    BY <1>8
  <2>2. t # p.from /\ t # p.to
    BY <1>3, <1>5, <2>1
  <2>3. t \in ready
    BY <2>2
  <2>4. i.start < t /\ t < i.end
    BY <2>1, <1>4, <1>5
  <2>5. QED BY <2>3, <2>4, <1>4
<1>10. PICK t \in T, u \in T : t <= lo /\ hi <= u /\ \A v \in T : ~(t < v /\ v < u)
  <2>1. T \in SUBSET Int /\ \A v \in T : p.from <= v /\ v <= p.to
    BY <1>8
  <2>2. (\E v \in T : v <= lo) /\ \E v \in T : hi <= v
    BY <1>5
  <2> HIDE DEF T
  <2>3. QED BY <2>1, <2>2, <1>3, <1>5, <1>7, <1>9, Neighbours
<1>11. t \in Int /\ u \in Int /\ t < u
  <2>1. t \in Int /\ u \in Int
    BY <1>8
  <2>2. QED BY <2>1, <1>5, <1>7, <1>10
<1>12. u - t \in Differences(T)
  <2> HIDE DEF T
  <2>1. <<t, u>> \in T \X T
    OBVIOUS
  <2>2. QED BY <2>1, <1>10, <1>11 DEF Differences
<1>13. u - t <= MaxGap
  BY <1>6, <1>12
<1>14. QED BY <1>2, <1>5, <1>10, <1>11, <1>13

\* The gap incidents and the shadow gate agree on whatever the store holds
\* (operations/gap_incidents.py, shadow.py).
THEOREM ReportsAlwaysAgree ==
  ASSUME NEW history, NEW evidence, NEW now, ReportInputs(history, evidence, now)
  PROVE  ReportsAgree(history, evidence, now)
<1> DEFINE ready == ReadyTimes(history, now)
           seen == ShadowReadyTimes(history, now)
           incidents == Incidents(history, now)
           first == IF ready = {} THEN now ELSE Min(ready)
<1>1. /\ ready \in SUBSET Int /\ now \in Int /\ now - Lookback \in Int
      /\ \A t \in ready : now - Lookback <= t /\ t <= now
  BY ReadyBounds
<1>2. MaxGap \in Int /\ MaxGap > 0
  BY ReadinessAssumption
<1>3. first \in Int /\ (first = now \/ first \in ready)
  BY <1>1, LeastOf
<1>4. ASSUME NEW x \in first..now, NEW y \in first..now, y - x > MaxGap,
             ~ \E t \in ready : x < t /\ t < y
      PROVE  Cardinality({i \in incidents : i.start <= x /\ y <= i.end}) = 1
  <2>1. x \in Int /\ y \in Int /\ y <= now /\ first <= x
    BY <1>1, <1>3
  <2>2. first \in ready
    BY <2>1, <1>1, <1>2, <1>3, <1>4
  <2>3. QED BY <2>1, <2>2, <1>4, StretchInOneIncident
<1>5. seen # {} => (incidents = {} <=> MaximumGap(seen, now) <= MaxGap)
  BY GateSeesGaps, SameReadyTimes
<1>6. \A p \in Confirmed(evidence), i \in incidents :
        Covered(p, seen) => Min({i.end, p.to}) - Max({i.start, p.from}) <= MaxGap
  BY CoveredPeriodHasNoGap, SameReadyTimes
<1>7. ShadowGate(history, evidence, now) => incidents = {}
  <2>1. ShadowGate(history, evidence, now) => seen # {} /\ MaximumGap(seen, now) <= MaxGap
    BY DEF ShadowGate
  <2>2. QED BY <2>1, <1>5
<1>8. \A i \in incidents :
        /\ \A a \in Live(history, now) :
              i.start < a.at /\ a.at < i.end =>
                /\ ~Ready(a)
                /\ i.class # "no_completed_attempts"
                /\ i.class \in {"source_data_stale", "successful_but_not_ready"} => Readable(a)
                /\ i.class = "collection_failure" => ~a.ok
        /\ i.class = "source_data_stale" <=> i.affected # {}
        /\ i.class \in {"mixed_collection_and_readiness_failure", "collection_failure"} =>
             \E a \in i.attempts : (i.start < a.at /\ a.at < i.end) /\ ~a.ok
  BY IncidentAccounts
<1>9. seen = {} <=> ready = {}
  BY SameReadyTimes
<1> HIDE DEF ready, seen, incidents, first
<1>10. QED BY <1>4, <1>5, <1>6, <1>7, <1>8, <1>9 DEF ReportsAgree, ready, seen, incidents, first

(***************************************************************************)
(* Training                                                                *)
(***************************************************************************)
TrainingRuns == [epoch : Nat, best : Nat, loss : Int, without : Nat, stopped : BOOLEAN]

\* The inductive invariant of the epochs: the run holds the best epoch of all, and at
\* none before the last was the patience exhausted.
RunSound(losses, r, patience) ==
  /\ losses \in Seq(Int) /\ r \in TrainingRuns /\ patience \in Nat
  /\ r.epoch = Len(losses)
  /\ r.epoch = 0 => r.best = NoEpoch /\ ~r.stopped
  /\ r.epoch # 0 =>
       /\ r.best \in 1..r.epoch /\ Best(losses, r.epoch, r.best)
       /\ r.loss = losses[r.best] /\ r.without = r.epoch - r.best
       /\ r.stopped <=> patience > 0 /\ r.without >= patience
  /\ \A n \in 1..(r.epoch - 1) : \E e \in 1..n :
       Best(losses, n, e) /\ ~(patience > 0 /\ n - e >= patience)

LEMMA BestIsUnique ==
  ASSUME NEW losses \in Seq(Int), NEW n \in 0..Len(losses), NEW e \in 1..n, NEW f \in 1..n,
         Best(losses, n, e), Best(losses, n, f)
  PROVE  e = f
<1>1. losses[e] \in Int /\ losses[f] \in Int
  OBVIOUS
<1>2. ~(e < f) /\ ~(f < e)
  BY <1>1 DEF Best
<1>3. QED BY <1>2

\* An epoch keeps it.
LEMMA EpochSound ==
  ASSUME NEW losses, NEW r, NEW patience, RunSound(losses, r, patience), ~r.stopped,
         NEW loss \in Int
  PROVE  RunSound(Append(losses, loss), Epoch(r, loss, patience), patience)
<1> DEFINE new == Append(losses, loss)
           n == Len(losses)
           s == Epoch(r, loss, patience)
<1>1. /\ n \in Nat /\ losses \in Seq(Int) /\ r \in TrainingRuns /\ patience \in Nat /\ r.epoch = n
  BY DEF RunSound
<1>2. /\ new \in Seq(Int) /\ Len(new) = n + 1 /\ new[n + 1] = loss
      /\ \A i \in 1..n : new[i] = losses[i] /\ losses[i] \in Int
  BY <1>1
<1>3. ASSUME NEW m \in 1..n, NEW e \in 1..m, Best(losses, m, e) PROVE Best(new, m, e)
  BY <1>1, <1>2, <1>3 DEF Best
<1>4. \A m \in 1..n : \E e \in 1..m : Best(new, m, e) /\ ~(patience > 0 /\ m - e >= patience)
  <2> SUFFICES ASSUME NEW m \in 1..n
               PROVE  \E e \in 1..m : Best(new, m, e) /\ ~(patience > 0 /\ m - e >= patience)
    OBVIOUS
  <2>1. CASE m = n
    <3>1. /\ r.best \in 1..m /\ Best(losses, m, r.best)
          /\ ~(patience > 0 /\ m - r.best >= patience)
      BY <1>1, <2>1 DEF RunSound
    <3>2. Best(new, m, r.best)
      BY <1>3, <3>1
    <3>3. QED BY <3>1, <3>2
  <2>2. CASE m # n
    <3>1. m \in 1..(r.epoch - 1)
      BY <1>1, <2>2
    <3>2. PICK e \in 1..m : Best(losses, m, e) /\ ~(patience > 0 /\ m - e >= patience)
      BY <3>1 DEF RunSound
    <3>3. Best(new, m, e)
      BY <1>3, <3>2
    <3>4. QED BY <3>2, <3>3
  <2>3. QED BY <2>1, <2>2
<1>5. CASE Improves(r, loss)
  <2>1. /\ s = [epoch |-> n + 1, best |-> n + 1, loss |-> loss, without |-> 0, stopped |-> FALSE]
    BY <1>1, <1>5 DEF Epoch
  <2>2. Best(new, n + 1, n + 1)
    <3>1. CASE n = 0
      BY <1>1, <1>2, <3>1 DEF Best
    <3>2. CASE n # 0
      <4>1. /\ r.best \in 1..n /\ Best(losses, n, r.best) /\ loss < losses[r.best]
        BY <1>1, <1>5, <3>2 DEF RunSound, Improves, NoEpoch
      <4>2. \A f \in 1..n : loss < new[f]
        BY <4>1, <1>2 DEF Best
      <4>3. QED BY <4>2, <1>1, <1>2 DEF Best
    <3>3. QED BY <3>1, <3>2
  <2>3. s \in TrainingRuns /\ s.epoch = n + 1
    BY <1>1, <2>1 DEF TrainingRuns
  <2> HIDE DEF new, s
  <2>4. QED BY <1>1, <1>2, <1>4, <2>1, <2>2, <2>3 DEF RunSound, new, s
<1>6. CASE ~Improves(r, loss)
  <2>1. /\ n # 0 /\ r.best \in 1..n /\ Best(losses, n, r.best) /\ r.loss = losses[r.best]
        /\ r.without = n - r.best /\ r.loss <= loss
    BY <1>1, <1>6 DEF RunSound, Improves, NoEpoch, TrainingRuns
  <2>2. s = [r EXCEPT !.epoch = n + 1, !.without = r.without + 1,
                      !.stopped = patience > 0 /\ r.without + 1 >= patience]
    BY <1>1, <1>6 DEF Epoch
  <2>3. /\ s \in TrainingRuns /\ s.epoch = n + 1 /\ s.best = r.best /\ s.loss = r.loss
        /\ s.without = n + 1 - r.best
        /\ s.stopped <=> patience > 0 /\ s.without >= patience
    <3>1. /\ r.epoch \in Nat /\ r.best \in Nat /\ r.loss \in Int /\ r.without \in Nat
          /\ DOMAIN r = {"epoch", "best", "loss", "without", "stopped"}
      BY <1>1 DEF TrainingRuns
    <3> DEFINE over == patience > 0 /\ r.without + 1 >= patience
    <3>2. over \in BOOLEAN /\ n + 1 \in Nat /\ r.without + 1 = n + 1 - r.best
          /\ r.without + 1 \in Nat
      BY <1>1, <2>1, <3>1
    <3> HIDE DEF over
    <3>3. s = [epoch |-> n + 1, best |-> r.best, loss |-> r.loss, without |-> r.without + 1,
               stopped |-> over]
      BY <1>1, <2>2 DEF over, TrainingRuns
    <3>4. s.stopped = over /\ s.without = r.without + 1
      BY <3>3
    <3>5. s.stopped <=> patience > 0 /\ s.without >= patience
      BY <3>4 DEF over
    <3> HIDE DEF s
    <3>6. s \in TrainingRuns
      BY <3>1, <3>2, <3>3 DEF TrainingRuns
    <3>7. s.epoch = n + 1 /\ s.best = r.best /\ s.loss = r.loss /\ s.without = r.without + 1
      BY <3>3
    <3>8. s.without = n + 1 - r.best
      BY <3>2, <3>7
    <3>9. QED BY <3>5, <3>6, <3>7, <3>8, Zenon
  <2>4. Best(new, n + 1, r.best)
    <3> HIDE DEF new, n
    <3>1. /\ r.best \in Int /\ 1 <= r.best /\ r.best <= n /\ n \in Nat
          /\ new[r.best] = losses[r.best] /\ new[r.best] <= new[n + 1] /\ new[r.best] \in Int
      BY <1>1, <1>2, <2>1
    <3>2. \A f \in 1..n : new[r.best] <= new[f]
      BY <1>2, <2>1, <3>1 DEF Best
    <3>3. \A f \in 1..(r.best - 1) : new[r.best] < new[f]
      <4>1. SUFFICES ASSUME NEW f \in 1..(r.best - 1) PROVE new[r.best] < new[f]
        OBVIOUS
      <4>2. f \in 1..n /\ losses[r.best] < losses[f]
        BY <2>1, <3>1 DEF Best
      <4>3. QED BY <1>2, <3>1, <4>2
    <3>4. \A f \in 1..(n + 1) : f \in 1..n \/ f = n + 1
      BY <3>1
    <3>5. QED BY <3>1, <3>2, <3>3, <3>4 DEF Best
  <2>5. new[r.best] = losses[r.best] /\ r.best \in 1..(n + 1)
    BY <1>1, <1>2, <2>1
  <2> HIDE DEF new, s
  <2>6. new[s.best] = s.loss /\ s.best \in 1..(n + 1) /\ Best(new, n + 1, s.best)
    <3>1. s.best = r.best /\ s.loss = losses[r.best]
      BY <2>1, <2>3
    <3>2. QED BY <2>4, <2>5, <3>1, Zenon
  <2>7. \A m \in 1..(s.epoch - 1) : \E e \in 1..m :
          Best(new, m, e) /\ ~(patience > 0 /\ m - e >= patience)
    BY <1>1, <1>4, <2>3
  <2>8. s.epoch = Len(new) /\ s.epoch # 0 /\ s.without = s.epoch - s.best
    <3>1. s.epoch = Len(new)
      BY <1>2, <2>3
    <3>2. n + 1 # 0
      BY <1>1
    <3>3. s.without = s.epoch - s.best
      <4>1. n \in Int /\ r.best \in Int
        BY <1>1, <2>1
      <4>2. s.epoch - s.best = (n + 1) - r.best
        BY <2>3
      <4> HIDE DEF n
      <4>3. QED BY <2>3, <4>1, <4>2
    <3>4. QED BY <2>3, <3>1, <3>2, <3>3
  <2>9. RunSound(new, s, patience)
    <3>1. /\ new \in Seq(Int) /\ s \in TrainingRuns /\ patience \in Nat /\ s.epoch = Len(new)
          /\ s.epoch # 0
      BY <1>1, <1>2, <2>3, <2>8
    <3>2. s.best \in 1..s.epoch /\ Best(new, s.epoch, s.best)
      BY <2>3, <2>6
    <3>3. s.loss = new[s.best] /\ s.without = s.epoch - s.best
      BY <2>6, <2>8
    <3> HIDE DEF new, s
    <3>4. QED BY <2>3, <2>7, <3>1, <3>2, <3>3 DEF RunSound
  <2>10. QED BY <2>9 DEF new, s
<1>7. QED BY <1>5, <1>6

LEMMA RunKeepsBest ==
  ASSUME NEW losses, NEW r, NEW patience, RunSound(losses, r, patience)
  PROVE  BestEpochKept(losses, r, patience)
<1> DEFINE exhausted(n) ==
             \E e \in 1..n : Best(losses, n, e) /\ patience > 0 /\ n - e >= patience
<1>1. SUFFICES ASSUME losses # <<>>
               PROVE  /\ r.epoch = Len(losses)
                      /\ Checkpointed(r) \in 1..r.epoch
                      /\ Best(losses, r.epoch, Checkpointed(r))
                      /\ \A n \in 1..(r.epoch - 1) : ~exhausted(n)
                      /\ r.stopped <=> exhausted(r.epoch)
  BY DEF BestEpochKept
<1>2. /\ losses \in Seq(Int) /\ r.epoch = Len(losses) /\ r.epoch \in Nat /\ r.epoch # 0
      /\ patience \in Nat
  BY <1>1 DEF RunSound
<1>3. /\ r.best \in 1..r.epoch /\ Best(losses, r.epoch, r.best)
      /\ r.without = r.epoch - r.best
      /\ r.stopped <=> patience > 0 /\ r.without >= patience
  BY <1>2 DEF RunSound
<1>4. Checkpointed(r) = r.best
  BY <1>2, <1>3 DEF Checkpointed, NoEpoch
<1>5. r.stopped <=> exhausted(r.epoch)
  <2>1. r.epoch \in 0..Len(losses)
    BY <1>2
  <2>2. \A f \in 1..r.epoch : Best(losses, r.epoch, f) => f = r.best
    BY <1>2, <1>3, <2>1, BestIsUnique
  <2>3. exhausted(r.epoch) <=> patience > 0 /\ r.epoch - r.best >= patience
    BY <1>3, <2>2
  <2>4. QED BY <1>3, <2>3
<1>6. ASSUME NEW n \in 1..(r.epoch - 1) PROVE ~exhausted(n)
  <2>1. PICK e \in 1..n : Best(losses, n, e) /\ ~(patience > 0 /\ n - e >= patience)
    BY <1>6 DEF RunSound
  <2>2. n \in 0..Len(losses)
    BY <1>2
  <2>3. \A f \in 1..n : Best(losses, n, f) => f = e
    BY <1>2, <2>1, <2>2, BestIsUnique
  <2>4. QED BY <2>1, <2>3
<1>7. QED BY <1>2, <1>3, <1>4, <1>5, <1>6

(***************************************************************************)
(* The review queue                                                        *)
(***************************************************************************)
Values == Int \union {Unknown}
Statuses == {"ok", "empty", "stale", "error"}
CaptureRecords ==
  [qpe : Statuses, gauges : Statuses, warnings : Statuses, parses : BOOLEAN, records : Nat,
   gauge : Values, rain : Values]
Candidates ==
  [id : Int, status : {"pending", "approved", "rejected"}, complete : BOOLEAN, intact : BOOLEAN,
   captures : Seq(CaptureRecords), local : Nat, peak : Values, first : Int]
Items ==
  [id : Int, ready : BOOLEAN, first : Int, local : Nat, active : Nat, gauge : Values,
   rain : Values, peak : Values]

\* A sequence of numbers has a largest one: a least length without one would follow one
\* with one.
LEMMA SequenceHasMax ==
  ASSUME NEW n \in Nat \ {0}, NEW v, \A i \in 1..n : v[i] \in Int
  PROVE  \E k \in 1..n : \A i \in 1..n : v[i] <= v[k]
<1> DEFINE P(m) == \E k \in 1..m : \A i \in 1..m : v[i] <= v[k]
           Bad == {m \in 1..n : ~P(m)}
<1>1. SUFFICES ASSUME Bad # {} PROVE FALSE
  <2>1. n \in 1..n
    OBVIOUS
  <2>2. P(n) => \E k \in 1..n : \A i \in 1..n : v[i] <= v[k]
    OBVIOUS
  <2> HIDE DEF P
  <2>3. QED BY <2>1, <2>2
<1>2. Bad \in SUBSET Int /\ (\A m \in Bad : 1 <= m) /\ 1 \in Int
  <2> HIDE DEF P
  <2>1. QED OBVIOUS
<1>3. PICK m \in Bad : \A l \in Bad : m <= l
  <2> HIDE DEF Bad
  <2>1. QED BY <1>1, <1>2, LeastOf
<1>4. m \in 1..n /\ ~P(m)
  OBVIOUS
<1>5. m # 1
  <2>1. v[1] \in Int
    OBVIOUS
  <2>2. P(1)
    BY <2>1
  <2>3. QED BY <1>4, <2>2
<1>6. m - 1 \in 1..n /\ m - 1 < m
  <2>1. m \in Int /\ 1 <= m /\ m <= n
    BY <1>4
  <2> HIDE DEF P, Bad
  <2>2. QED BY <1>5, <2>1
<1>7. P(m - 1)
  <2>1. m - 1 \notin Bad
    <3>1. m \in Int /\ m - 1 \in Int /\ ~(m <= m - 1)
      BY <1>2, <1>6
    <3> HIDE DEF Bad
    <3>2. QED BY <1>3, <3>1
  <2>2. QED BY <1>6, <2>1
<1>8. PICK k \in 1..(m - 1) : \A i \in 1..(m - 1) : v[i] <= v[k]
  BY <1>7
<1>9. v[k] \in Int /\ v[m] \in Int /\ k \in 1..m /\ m \in 1..m
  BY <1>4, <1>6
<1>10. \A i \in 1..m : i = m \/ i \in 1..(m - 1)
  BY <1>4
<1>11. CASE v[m] <= v[k]
  BY <1>4, <1>8, <1>9, <1>10, <1>11
<1>12. CASE v[k] <= v[m]
  <2>1. \A i \in 1..(m - 1) : v[i] \in Int
    BY <1>4
  <2>2. \A i \in 1..(m - 1) : v[i] <= v[m]
    BY <1>8, <1>9, <1>12, <2>1
  <2>3. \A i \in 1..m : v[i] <= v[m]
    BY <1>9, <1>10, <2>2
  <2>4. QED BY <1>4, <1>9, <2>3
<1>13. QED BY <1>9, <1>11, <1>12

\* The largest valid value of a sequence of values.
LEMMA PeakType ==
  ASSUME NEW n \in Nat, NEW v, \A i \in 1..n : v[i] \in Values
  PROVE  Peak({v[i] : i \in 1..n}) \in Values
<1> DEFINE S == {v[i] : i \in 1..n}
<1>1. CASE S \subseteq {Unknown}
  BY <1>1 DEF Peak, Values
<1>2. CASE ~(S \subseteq {Unknown})
  <2>1. PICK a \in 1..n : v[a] # Unknown
    BY <1>2
  <2> DEFINE known == S \ {Unknown}
             w == [i \in 1..n |-> IF v[i] = Unknown THEN v[a] ELSE v[i]]
  <2>2. known \in SUBSET Int /\ known # {}
    BY <2>1 DEF Values
  <2>3. \A i \in 1..n : w[i] \in known /\ w[i] \in Int
    BY <2>1, <2>2
  <2>4. \A s \in known : \E i \in 1..n : s = w[i]
    OBVIOUS
  <2>5. n # 0
    BY <2>1
  <2> HIDE DEF w
  <2>6. PICK k \in 1..n : \A i \in 1..n : w[i] <= w[k]
    BY <2>3, <2>5, SequenceHasMax
  <2>7. w[k] \in Int /\ \A s \in known : s <= w[k]
    BY <2>3, <2>4, <2>6
  <2>8. Max(known) \in known
    <3> HIDE DEF known
    <3>1. QED BY <2>2, <2>7, GreatestOf
  <2>9. Peak(S) = Max(known)
    BY <1>2 DEF Peak
  <2>10. QED BY <2>2, <2>8, <2>9 DEF Values
<1>3. QED BY <1>1, <1>2

LEMMA ItemType ==
  ASSUME NEW c \in Candidates
  PROVE  /\ Item(c) \in Items /\ Item(c).id = c.id
<1>1. /\ c.captures \in Seq(CaptureRecords) /\ Len(c.captures) \in Nat
      /\ DOMAIN c.captures = 1..Len(c.captures)
      /\ \A i \in DOMAIN c.captures : c.captures[i] \in CaptureRecords
  BY DEF Candidates
<1>2. Summary(c).gauge \in Values /\ Summary(c).rain \in Values
  <2> DEFINE n == Len(c.captures)
             g == [i \in 1..n |-> c.captures[i].gauge]
             r == [i \in 1..n |-> c.captures[i].rain]
  <2>1. /\ \A i \in 1..n : g[i] \in Values /\ r[i] \in Values
        /\ \A i \in 1..n : g[i] = c.captures[i]["gauge"] /\ r[i] = c.captures[i]["rain"]
    BY <1>1 DEF CaptureRecords
  <2>2. /\ {c.captures[i]["gauge"] : i \in DOMAIN c.captures} = {g[i] : i \in 1..n}
        /\ {c.captures[i]["rain"] : i \in DOMAIN c.captures} = {r[i] : i \in 1..n}
    BY <1>1, <2>1
  <2> HIDE DEF g, r
  <2>3. Peak({g[i] : i \in 1..n}) \in Values /\ Peak({r[i] : i \in 1..n}) \in Values
    BY <1>1, <2>1, PeakType
  <2>4. QED BY <2>2, <2>3 DEF Summary
<1>3. Summary(c).active \in Nat
  <2>1. IsFiniteSet(DOMAIN c.captures)
    BY <1>1, FS_Interval
  <2>2. IsFiniteSet({i \in DOMAIN c.captures : c.captures[i].records > 0})
    BY <2>1, FS_Subset
  <2>3. QED BY <2>2, FS_CardinalityType DEF Summary
<1>4. ReviewReady(c) \in BOOLEAN
  BY DEF ReviewReady
<1>5. QED BY <1>2, <1>3, <1>4 DEF Item, Items, Candidates

LEMMA KeyType ==
  ASSUME NEW a \in Items
  PROVE  /\ PriorityKey(a) \in [1..9 -> Int] /\ DOMAIN PriorityKey(a) = 1..9
         /\ DOMAIN Policy(a) = 1..9
         /\ PriorityKey(a)[9] = a.id /\ Policy(a)[9] = -a.id
<1>1. /\ Zero(a.ready) \in Int /\ Zero(a.local # 0) \in Int /\ -a.active \in Int
      /\ -a.local \in Int /\ a.first \in Int /\ a.id \in Int
  BY DEF Items, Zero
<1>2. Descending(a.gauge) \in Int /\ Descending(a.rain) \in Int /\ Descending(a.peak) \in Int
  BY DEF Items, Values, Descending
<1>3. QED BY <1>1, <1>2 DEF PriorityKey, Policy

\* What decides by the key decides by the policy.
LEMMA KeyFollowsPolicy ==
  ASSUME NEW a \in Items, NEW b \in Items, NEW k \in 1..9
  PROVE  /\ Policy(a)[k] = Policy(b)[k] => PriorityKey(a)[k] = PriorityKey(b)[k]
         /\ Policy(a)[k] # Unknown /\ Policy(b)[k] # Unknown =>
              (PriorityKey(a)[k] < PriorityKey(b)[k] => Policy(a)[k] > Policy(b)[k])
         /\ Policy(a)[k] # Unknown /\ Policy(b)[k] # Unknown =>
              (PriorityKey(a)[k] = PriorityKey(b)[k] => Policy(a)[k] = Policy(b)[k])
<1>1. /\ a.ready \in BOOLEAN /\ b.ready \in BOOLEAN
      /\ a.local \in Nat /\ b.local \in Nat /\ a.active \in Nat /\ b.active \in Nat
      /\ a.first \in Int /\ b.first \in Int /\ a.id \in Int /\ b.id \in Int
      /\ {a.gauge, b.gauge, a.rain, b.rain, a.peak, b.peak} \subseteq Int \union {Unknown}
  BY DEF Items, Values
<1>2. ASSUME NEW x \in Int, NEW y \in Int
      PROVE  (-x = -y <=> x = y) /\ (-x < -y <=> x > y)
  OBVIOUS
<1>3. ASSUME NEW x \in Int \union {Unknown}, NEW y \in Int \union {Unknown}
      PROVE  /\ x = y => Descending(x) = Descending(y)
             /\ x # Unknown /\ y # Unknown =>
                  /\ Descending(x) < Descending(y) => x > y
                  /\ Descending(x) = Descending(y) => x = y
  BY <1>2 DEF Descending
<1>4. CASE k = 1
  BY <1>1, <1>4 DEF PriorityKey, Policy, Zero
<1>5. CASE k = 2
  BY <1>1, <1>5 DEF PriorityKey, Policy, Zero
<1>6. CASE k = 3
  <2>1. /\ PriorityKey(a)[k] = -a.active /\ PriorityKey(b)[k] = -b.active
        /\ Policy(a)[k] = a.active /\ Policy(b)[k] = b.active
    BY <1>6 DEF PriorityKey, Policy
  <2>2. QED BY <1>1, <1>2, <2>1
<1>7. CASE k = 4
  <2>1. /\ PriorityKey(a)[k] = Descending(a.gauge) /\ PriorityKey(b)[k] = Descending(b.gauge)
        /\ Policy(a)[k] = a.gauge /\ Policy(b)[k] = b.gauge
    BY <1>7 DEF PriorityKey, Policy
  <2>2. a.gauge \in Int \union {Unknown} /\ b.gauge \in Int \union {Unknown}
    BY <1>1
  <2>3. QED BY <1>3, <2>1, <2>2
<1>8. CASE k = 5
  <2>1. /\ PriorityKey(a)[k] = Descending(a.rain) /\ PriorityKey(b)[k] = Descending(b.rain)
        /\ Policy(a)[k] = a.rain /\ Policy(b)[k] = b.rain
    BY <1>8 DEF PriorityKey, Policy
  <2>2. a.rain \in Int \union {Unknown} /\ b.rain \in Int \union {Unknown}
    BY <1>1
  <2>3. QED BY <1>3, <2>1, <2>2
<1>9. CASE k = 6
  <2>1. /\ PriorityKey(a)[k] = Descending(a.peak) /\ PriorityKey(b)[k] = Descending(b.peak)
        /\ Policy(a)[k] = a.peak /\ Policy(b)[k] = b.peak
    BY <1>9 DEF PriorityKey, Policy
  <2>2. a.peak \in Int \union {Unknown} /\ b.peak \in Int \union {Unknown}
    BY <1>1
  <2>3. QED BY <1>3, <2>1, <2>2
<1>10. CASE k = 7
  <2>1. /\ PriorityKey(a)[k] = -a.local /\ PriorityKey(b)[k] = -b.local
        /\ Policy(a)[k] = a.local /\ Policy(b)[k] = b.local
    BY <1>10 DEF PriorityKey, Policy
  <2>2. QED BY <1>1, <1>2, <2>1
<1>11. CASE k = 8
  <2>1. /\ PriorityKey(a)[k] = a.first /\ PriorityKey(b)[k] = b.first
        /\ Policy(a)[k] = -a.first /\ Policy(b)[k] = -b.first
    BY <1>11 DEF PriorityKey, Policy
  <2>2. QED BY <1>1, <2>1
<1>12. CASE k = 9
  <2>1. /\ PriorityKey(a)[k] = a.id /\ PriorityKey(b)[k] = b.id
        /\ Policy(a)[k] = -a.id /\ Policy(b)[k] = -b.id
    BY <1>12 DEF PriorityKey, Policy
  <2>2. QED BY <1>1, <2>1
<1>13. QED BY <1>4, <1>5, <1>6, <1>7, <1>8, <1>9, <1>10, <1>11, <1>12

\* Two functions that differ have a first difference.
LEMMA FirstDifference ==
  ASSUME NEW f, NEW g, NEW d \in 1..9, f[d] # g[d]
  PROVE  \E k \in 1..9 : f[k] # g[k] /\ \A j \in 1..(k - 1) : f[j] = g[j]
<1> DEFINE D == {k \in 1..9 : f[k] # g[k]}
<1>1. D \in SUBSET Int /\ D # {} /\ (\A k \in D : 1 <= k) /\ 1 \in Int
  OBVIOUS
<1>2. Min(D) \in D /\ \A k \in D : Min(D) <= k
  <2> HIDE DEF D
  <2>1. QED BY <1>1, LeastOf
<1>3. PICK k \in 1..9 : k \in D /\ \A j \in D : k <= j
  BY <1>2
<1>4. ASSUME NEW j \in 1..(k - 1) PROVE f[j] = g[j]
  <2>1. j \in 1..9 /\ ~(k <= j)
    BY <1>3
  <2>2. j \notin D
    BY <1>3, <2>1
  <2>3. QED BY <2>1, <2>2
<1>5. QED BY <1>3, <1>4

\* The order is strict and, among items of different candidates, total.
LEMMA PrecedesOrder ==
  ASSUME NEW a \in Items, NEW b \in Items
  PROVE  /\ ~Precedes(a, a)
         /\ a.id # b.id => Precedes(a, b) \/ Precedes(b, a)
         /\ \A c \in Items : Precedes(a, b) /\ Precedes(b, c) => Precedes(a, c)
<1>1. \A c \in Items : PriorityKey(c) \in [1..9 -> Int] /\ DOMAIN PriorityKey(c) = 1..9
  BY KeyType
<1>2. \A c, d \in Items :
        Precedes(c, d) <=>
          \E k \in 1..9 : /\ PriorityKey(c)[k] < PriorityKey(d)[k]
                          /\ \A j \in 1..(k - 1) : PriorityKey(c)[j] = PriorityKey(d)[j]
  BY <1>1 DEF Precedes
<1>3. ~Precedes(a, a)
  BY <1>1, <1>2
<1>4. ASSUME a.id # b.id PROVE Precedes(a, b) \/ Precedes(b, a)
  <2>1. PriorityKey(a)[9] # PriorityKey(b)[9]
    BY <1>4, KeyType
  <2>2. PICK k \in 1..9 : /\ PriorityKey(a)[k] # PriorityKey(b)[k]
                          /\ \A j \in 1..(k - 1) : PriorityKey(a)[j] = PriorityKey(b)[j]
    BY <2>1, FirstDifference
  <2>3. PriorityKey(a)[k] < PriorityKey(b)[k] \/ PriorityKey(b)[k] < PriorityKey(a)[k]
    <3>1. PriorityKey(a)[k] \in Int /\ PriorityKey(b)[k] \in Int
      BY <1>1
    <3>2. QED BY <2>2, <3>1
  <2>4. QED BY <1>2, <2>2, <2>3
<1>5. ASSUME NEW c \in Items, Precedes(a, b), Precedes(b, c) PROVE Precedes(a, c)
  <2> DEFINE f == PriorityKey(a)
             g == PriorityKey(b)
             h == PriorityKey(c)
  <2>1. PICK k \in 1..9 : f[k] < g[k] /\ \A j \in 1..(k - 1) : f[j] = g[j]
    BY <1>2, <1>5
  <2>2. PICK l \in 1..9 : g[l] < h[l] /\ \A j \in 1..(l - 1) : g[j] = h[j]
    BY <1>2, <1>5
  <2>3. \A j \in 1..9 : f[j] \in Int /\ g[j] \in Int /\ h[j] \in Int
    BY <1>1
  <2> HIDE DEF f, g, h
  <2>4. \E m \in 1..9 : f[m] < h[m] /\ \A j \in 1..(m - 1) : f[j] = h[j]
    <3>1. CASE k < l
      <4>1. k \in 1..(l - 1) /\ g[k] = h[k]
        BY <2>2, <3>1
      <4>2. \A j \in 1..(k - 1) : j \in 1..(l - 1)
        BY <3>1
      <4>3. QED BY <2>1, <2>2, <2>3, <4>1, <4>2
    <3>2. CASE k = l
      <4>1. f[k] < h[k]
        BY <2>1, <2>2, <2>3, <3>2
      <4>2. QED BY <2>1, <2>2, <3>2, <4>1
    <3>3. CASE l < k
      <4>1. l \in 1..(k - 1) /\ f[l] = g[l]
        BY <2>1, <3>3
      <4>2. \A j \in 1..(l - 1) : j \in 1..(k - 1)
        BY <3>3
      <4>3. QED BY <2>1, <2>2, <2>3, <4>1, <4>2
    <3>4. QED BY <3>1, <3>2, <3>3
  <2>5. QED BY <1>2, <2>4 DEF f, g, h
<1>6. QED BY <1>3, <1>4, <1>5

\* The items before one.
Below(items, i) == {j \in DOMAIN items : Precedes(items[j], items[i])}

\* The place of an item is the number of the items before it and one: the tie-break on
\* the position never decides.  Items of different candidates have different places, and
\* every place is taken.
LEMMA RankOrders ==
  ASSUME NEW L \in SUBSET Int, IsFiniteSet(L), NEW items \in [L -> Items],
         \A i, j \in L : items[i].id = items[j].id => i = j
  PROVE  /\ \A i \in L : /\ Rank(items, i) = 1 + Cardinality(Below(items, i))
                         /\ Rank(items, i) \in 1..Cardinality(L)
         /\ \A i, j \in L : Precedes(items[i], items[j]) => Rank(items, i) < Rank(items, j)
         /\ \A i, j \in L : Rank(items, i) = Rank(items, j) => i = j
         /\ \A r \in 1..Cardinality(L) : \E i \in L : Rank(items, i) = r
<1> DEFINE n == Cardinality(L)
<1>1. n \in Nat
  BY FS_CardinalityType
<1>2. \A i, j \in L : /\ ~Precedes(items[i], items[i])
                      /\ i # j => Precedes(items[i], items[j]) \/ Precedes(items[j], items[i])
  BY PrecedesOrder
<1>3. \A i, j, k \in L : Precedes(items[i], items[j]) /\ Precedes(items[j], items[k])
                           => Precedes(items[i], items[k])
  BY PrecedesOrder
<1>4. ASSUME NEW i \in L PROVE Rank(items, i) = 1 + Cardinality(Below(items, i))
  <2>1. \A j \in L : j < i /\ ~Precedes(items[i], items[j]) => Precedes(items[j], items[i])
    <3> SUFFICES ASSUME NEW j \in L, j < i, ~Precedes(items[i], items[j])
                 PROVE  Precedes(items[j], items[i])
      OBVIOUS
    <3>1. i \in Int /\ j \in Int
      OBVIOUS
    <3>2. i # j
      BY <3>1
    <3>3. QED BY <1>2, <3>2
  <2>2. {j \in DOMAIN items : \/ Precedes(items[j], items[i])
                              \/ j < i /\ ~Precedes(items[i], items[j])} = Below(items, i)
    BY <2>1 DEF Below
  <2>3. QED BY <2>2 DEF Rank
<1>5. ASSUME NEW i \in L
      PROVE  /\ Below(items, i) \subseteq L \ {i} /\ IsFiniteSet(Below(items, i))
             /\ Cardinality(Below(items, i)) \in Nat
             /\ Cardinality(Below(items, i) \union {i}) = Cardinality(Below(items, i)) + 1
             /\ Cardinality(Below(items, i)) + 1 <= n
  <2>1. Below(items, i) \subseteq L /\ i \notin Below(items, i)
    BY <1>2 DEF Below
  <2>2. IsFiniteSet(Below(items, i))
    BY <2>1, FS_Subset
  <2>3. Cardinality(Below(items, i) \union {i}) = Cardinality(Below(items, i)) + 1
    BY <2>1, <2>2, FS_AddElement
  <2>4. Below(items, i) \union {i} \in SUBSET L
    BY <2>1
  <2>5. Cardinality(Below(items, i) \union {i}) <= n
    BY <2>4, FS_Subset
  <2>6. QED BY <2>1, <2>2, <2>3, <2>5, FS_CardinalityType
<1>6. ASSUME NEW i \in L PROVE Rank(items, i) \in 1..n
  <2>1. /\ Cardinality(Below(items, i)) \in Nat /\ Cardinality(Below(items, i)) + 1 <= n
        /\ Rank(items, i) = 1 + Cardinality(Below(items, i))
    BY <1>4, <1>5
  <2> HIDE DEF n
  <2>2. QED BY <2>1, <1>1
<1>7. ASSUME NEW i \in L, NEW j \in L, Precedes(items[i], items[j])
      PROVE  Rank(items, i) < Rank(items, j)
  <2>1. Below(items, i) \union {i} \in SUBSET Below(items, j)
    BY <1>3, <1>7 DEF Below
  <2>2. Cardinality(Below(items, i) \union {i}) <= Cardinality(Below(items, j))
    BY <1>5, <2>1, FS_Subset
  <2>3. /\ Cardinality(Below(items, i)) \in Nat /\ Cardinality(Below(items, j)) \in Nat
        /\ Cardinality(Below(items, i)) + 1 <= Cardinality(Below(items, j))
    BY <1>5, <2>2
  <2>4. /\ Rank(items, i) = 1 + Cardinality(Below(items, i))
        /\ Rank(items, j) = 1 + Cardinality(Below(items, j))
    BY <1>4
  <2>5. QED BY <2>3, <2>4
<1>8. ASSUME NEW i \in L, NEW j \in L, Rank(items, i) = Rank(items, j) PROVE i = j
  <2>1. ~Precedes(items[i], items[j]) /\ ~Precedes(items[j], items[i])
    BY <1>1, <1>6, <1>7, <1>8
  <2>2. QED BY <1>2, <2>1
<1>9. \A r \in 1..n : \E i \in L : Rank(items, i) = r
  <2> DEFINE f == [i \in L |-> Rank(items, i)]
  <2>1. f \in Injection(L, 1..n)
    <3>1. f \in [L -> 1..n]
      BY <1>6
    <3>2. \A i, j \in L : f[i] = f[j] => i = j
      BY <1>8
    <3> HIDE DEF f, n
    <3>3. QED BY <3>1, <3>2, Fun_IsInj
  <2>2. IsFiniteSet(1..n) /\ Cardinality(1..n) = n
    BY <1>1, FS_Interval
  <2>3. f \in Surjection(L, 1..n)
    <3> HIDE DEF f
    <3>1. QED BY <2>1, <2>2, FS_Injection
  <2>4. QED BY <2>3 DEF Surjection
<1>10. QED BY <1>4, <1>6, <1>7, <1>8, <1>9

\* A catalog of candidates with different identifiers.
Catalogs == {catalog \in Seq(Candidates) :
               \A i, j \in DOMAIN catalog : catalog[i].id = catalog[j].id => i = j}
Pending(catalog) == {i \in DOMAIN catalog : catalog[i].status = "pending"}
PendingItems(catalog) == [i \in Pending(catalog) |-> Item(catalog[i])]

\* Where a place of the queue is in the catalog
At(catalog, r) == Place(PendingItems(catalog), r)

LEMMA PendingType ==
  ASSUME NEW catalog \in Catalogs
  PROVE  /\ catalog \in Seq(Candidates) /\ Len(catalog) \in Nat
         /\ DOMAIN catalog = 1..Len(catalog)
         /\ Pending(catalog) \in SUBSET (1..Len(catalog))
         /\ Pending(catalog) \in SUBSET Int /\ IsFiniteSet(Pending(catalog))
         /\ Cardinality(Pending(catalog)) \in Nat
         /\ PendingItems(catalog) \in [Pending(catalog) -> Items]
         /\ \A i \in Pending(catalog) :
              /\ PendingItems(catalog)[i] = Item(catalog[i])
              /\ PendingItems(catalog)[i].id = catalog[i].id
         /\ \A i, j \in Pending(catalog) :
              PendingItems(catalog)[i].id = PendingItems(catalog)[j].id => i = j
<1>1. /\ catalog \in Seq(Candidates) /\ Len(catalog) \in Nat
      /\ DOMAIN catalog = 1..Len(catalog)
      /\ \A i \in DOMAIN catalog : catalog[i] \in Candidates
  BY DEF Catalogs
<1>2. Pending(catalog) \in SUBSET (1..Len(catalog)) /\ Pending(catalog) \in SUBSET Int
  BY <1>1 DEF Pending
<1>3. IsFiniteSet(Pending(catalog))
  <2>1. IsFiniteSet(1..Len(catalog))
    BY <1>1, FS_Interval
  <2>2. QED BY <1>2, <2>1, FS_Subset
<1>4. \A i \in Pending(catalog) : Item(catalog[i]) \in Items /\ Item(catalog[i]).id = catalog[i].id
  BY <1>1, <1>2, ItemType
<1>5. QED BY <1>1, <1>2, <1>3, <1>4, FS_CardinalityType DEF PendingItems, Catalogs

\* Each place of the queue holds the item of that rank.
LEMMA QueuePlaces ==
  ASSUME NEW catalog \in Catalogs
  PROVE  LET n == Cardinality(Pending(catalog)) IN
           /\ DOMAIN Queue(catalog, TRUE) = 1..n /\ Len(Queue(catalog, TRUE)) = n
           /\ \A r \in 1..n :
                /\ Queue(catalog, TRUE)[r] = PendingItems(catalog)[At(catalog, r)]
                /\ Queue(catalog, TRUE)[r] \in Items
                /\ At(catalog, r) \in Pending(catalog)
                /\ Rank(PendingItems(catalog), At(catalog, r)) = r
           /\ \A i \in Pending(catalog) : \E r \in 1..n : At(catalog, r) = i
<1> DEFINE n == Cardinality(Pending(catalog))
<1>1. {i \in DOMAIN catalog : ~TRUE \/ catalog[i].status = "pending"} = Pending(catalog)
  BY DEF Pending
<1>2. Queue(catalog, TRUE) = [r \in 1..n |-> PendingItems(catalog)[At(catalog, r)]]
  <2> DEFINE L == {i \in DOMAIN catalog : ~TRUE \/ catalog[i].status = "pending"}
             items == [i \in L |-> Item(catalog[i])]
  <2>1. Queue(catalog, TRUE)
          = [r \in 1..Cardinality(L) |-> items[Place(items, r)]]
    BY DEF Queue
  <2>2. L = Pending(catalog)
    BY <1>1
  <2> HIDE DEF L
  <2>3. items = PendingItems(catalog)
    BY <2>2 DEF PendingItems
  <2> HIDE DEF items
  <2>4. QED BY <2>1, <2>2, <2>3 DEF At
<1>3. /\ \A i \in Pending(catalog) : Rank(PendingItems(catalog), i) \in 1..n
      /\ \A i, j \in Pending(catalog) :
           Rank(PendingItems(catalog), i) = Rank(PendingItems(catalog), j) => i = j
      /\ \A r \in 1..n : \E i \in Pending(catalog) : Rank(PendingItems(catalog), i) = r
  BY PendingType, RankOrders
<1>4. \A r \in 1..n : /\ At(catalog, r) \in Pending(catalog)
                      /\ Rank(PendingItems(catalog), At(catalog, r)) = r
  <2>1. DOMAIN PendingItems(catalog) = Pending(catalog)
    BY DEF PendingItems
  <2>2. QED BY <1>3, <2>1 DEF At, Place
<1>5. \A i \in Pending(catalog) : \E r \in 1..n : At(catalog, r) = i
  BY <1>3, <1>4
<1>6. n \in Nat
  BY PendingType
<1>8. \A r \in 1..n : PendingItems(catalog)[At(catalog, r)] \in Items
  BY <1>4, PendingType
<1>7. Len(Queue(catalog, TRUE)) = n /\ DOMAIN Queue(catalog, TRUE) = 1..n
  <2> DEFINE q == Queue(catalog, TRUE)
  <2>1. q \in [1..n -> Items]
    BY <1>2, <1>8
  <2> HIDE DEF q, n
  <2>2. q \in Seq(Items)
    BY <2>1, <1>6, SeqDef
  <2>3. Len(q) \in Nat /\ 1..Len(q) = 1..n
    BY <2>1, <2>2, LenProperties
  <2>4. Len(q) = n
    <3>1. \A i \in Int : 1 <= i /\ i <= Len(q) <=> 1 <= i /\ i <= n
      BY <2>3, <1>6
    <3>2. Len(q) \in Int /\ n \in Int
      BY <2>3, <1>6
    <3>3. (1 <= Len(q) => Len(q) <= n) /\ (1 <= n => n <= Len(q))
      BY <3>1, <3>2
    <3>4. QED BY <2>3, <3>3, <1>6
  <2>5. QED BY <2>1, <2>4 DEF q
<1>9. QED BY <1>2, <1>4, <1>5, <1>7, <1>8

\* Turning positions around keeps their number.
LEMMA TurnedCardinality ==
  ASSUME NEW n \in Nat, NEW S \in SUBSET (1..n)
  PROVE  Cardinality({i \in 1..n : (n - i) + 1 \in S}) = Cardinality(S)
<1> DEFINE T == {i \in 1..n : (n - i) + 1 \in S}
           f == [i \in S |-> (n - i) + 1]
<1>1. \A i \in 1..n : (n - i) + 1 \in 1..n /\ (n - ((n - i) + 1)) + 1 = i
  OBVIOUS
<1>2. f \in [S -> T]
  BY <1>1
<1>3. \A i, j \in S : f[i] = f[j] => i = j
  <2> SUFFICES ASSUME NEW i \in S, NEW j \in S, f[i] = f[j] PROVE i = j
    OBVIOUS
  <2>1. i \in Int /\ j \in Int /\ (n - i) + 1 = (n - j) + 1
    OBVIOUS
  <2> HIDE DEF f
  <2>2. QED BY <2>1
<1>4. \A t \in T : \E i \in S : f[i] = t
  <2> SUFFICES ASSUME NEW t \in T PROVE \E i \in S : f[i] = t
    OBVIOUS
  <2>1. t \in 1..n /\ (n - t) + 1 \in S
    OBVIOUS
  <2>2. f[(n - t) + 1] = t
    BY <1>1, <2>1
  <2>3. QED BY <2>1, <2>2
<1>5. IsFiniteSet(S)
  <2>1. IsFiniteSet(1..n)
    BY FS_Interval
  <2>2. QED BY <2>1, FS_Subset
<1> HIDE DEF T, f
<1>6. f \in Bijection(S, T)
  BY <1>2, <1>3, <1>4, Fun_IsBij
<1>7. ExistsBijection(S, T)
  BY <1>6 DEF ExistsBijection
<1>8. QED BY <1>5, <1>7, FS_Bijection DEF T

\* The queue is the same however the catalog orders the candidates: here, turned around.
LEMMA QueueOfReverse ==
  ASSUME NEW catalog \in Catalogs
  PROVE  Queue(catalog, TRUE) = Queue(Reverse(catalog), TRUE)
<1> DEFINE n == Len(catalog)
           rev == Reverse(catalog)
           turn(i) == (n - i) + 1
<1>1. /\ catalog \in Seq(Candidates) /\ n \in Nat /\ DOMAIN catalog = 1..n
      /\ Pending(catalog) \in SUBSET (1..n)
      /\ \A i \in 1..n : catalog[i] \in Candidates
      /\ \A i, j \in 1..n : catalog[i].id = catalog[j].id => i = j
  BY PendingType DEF Catalogs
<1>2. \A i \in 1..n : turn(i) \in 1..n /\ turn(turn(i)) = i
  BY <1>1
<1>3. \A i, j \in 1..n : turn(i) = turn(j) => i = j
  BY <1>2
<1>4. rev = [i \in 1..n |-> catalog[turn(i)]]
  BY DEF Reverse
<1>5. rev \in Catalogs /\ Len(rev) = n /\ DOMAIN rev = 1..n
  <2>1. rev \in [1..n -> Candidates]
    BY <1>1, <1>2, <1>4
  <2>2. rev \in Seq(Candidates)
    BY <1>1, <2>1, SeqDef
  <2>3. \A i, j \in 1..n : rev[i].id = rev[j].id => i = j
    BY <1>1, <1>2, <1>3, <1>4
  <2>4. Len(rev) = n
    BY <1>1, <1>4
  <2> HIDE DEF rev
  <2>5. QED BY <2>1, <2>2, <2>3, <2>4 DEF Catalogs
<1> HIDE DEF rev
<1>6. Pending(rev) = {i \in 1..n : turn(i) \in Pending(catalog)}
  BY <1>1, <1>2, <1>4, <1>5 DEF Pending
<1>7. Cardinality(Pending(rev)) = Cardinality(Pending(catalog))
  BY <1>1, <1>6, TurnedCardinality
<1>8. ASSUME NEW i \in Pending(rev)
      PROVE  /\ turn(i) \in Pending(catalog)
             /\ PendingItems(rev)[i] = PendingItems(catalog)[turn(i)]
  BY <1>4, <1>6 DEF PendingItems
<1>9. ASSUME NEW i \in Pending(rev)
      PROVE  Rank(PendingItems(rev), i) = Rank(PendingItems(catalog), turn(i))
  <2>1. Below(PendingItems(rev), i)
          = {j \in 1..n : turn(j) \in Below(PendingItems(catalog), turn(i))}
    <3>1. /\ DOMAIN PendingItems(rev) = Pending(rev)
          /\ DOMAIN PendingItems(catalog) = Pending(catalog)
      BY DEF PendingItems
    <3>2. \A j \in 1..n : j \in Pending(rev) <=> turn(j) \in Pending(catalog)
      BY <1>6
    <3>3. Pending(rev) \subseteq 1..n
      BY <1>6
    <3> HIDE DEF turn, n
    <3>4. QED BY <1>8, <1>9, <3>1, <3>2, <3>3 DEF Below
  <2>2. Below(PendingItems(catalog), turn(i)) \in SUBSET (1..n)
    BY <1>1 DEF Below, PendingItems
  <2>3. Cardinality(Below(PendingItems(rev), i))
          = Cardinality(Below(PendingItems(catalog), turn(i)))
    BY <1>1, <2>1, <2>2, TurnedCardinality
  <2>4. Rank(PendingItems(rev), i) = 1 + Cardinality(Below(PendingItems(rev), i))
    BY <1>5, PendingType, RankOrders
  <2>5. Rank(PendingItems(catalog), turn(i))
          = 1 + Cardinality(Below(PendingItems(catalog), turn(i)))
    BY <1>8, PendingType, RankOrders
  <2>6. QED BY <2>3, <2>4, <2>5
<1>10. ASSUME NEW r \in 1..Cardinality(Pending(catalog))
       PROVE  Queue(rev, TRUE)[r] = Queue(catalog, TRUE)[r]
  <2>1. /\ At(rev, r) \in Pending(rev) /\ Rank(PendingItems(rev), At(rev, r)) = r
        /\ Queue(rev, TRUE)[r] = PendingItems(rev)[At(rev, r)]
    BY <1>5, <1>7, QueuePlaces
  <2>2. /\ At(catalog, r) \in Pending(catalog)
        /\ Rank(PendingItems(catalog), At(catalog, r)) = r
        /\ Queue(catalog, TRUE)[r] = PendingItems(catalog)[At(catalog, r)]
    BY QueuePlaces
  <2>3. /\ turn(At(rev, r)) \in Pending(catalog)
        /\ Rank(PendingItems(catalog), turn(At(rev, r))) = r
        /\ PendingItems(rev)[At(rev, r)] = PendingItems(catalog)[turn(At(rev, r))]
    BY <1>8, <1>9, <2>1
  <2>4. \A i, j \in Pending(catalog) :
          Rank(PendingItems(catalog), i) = Rank(PendingItems(catalog), j) => i = j
    BY PendingType, RankOrders
  <2>5. turn(At(rev, r)) = At(catalog, r)
    BY <2>2, <2>3, <2>4
  <2>6. QED BY <2>1, <2>2, <2>3, <2>5
<1>11. /\ Queue(rev, TRUE) = [r \in 1..Cardinality(Pending(rev)) |-> Queue(rev, TRUE)[r]]
       /\ Queue(catalog, TRUE)
            = [r \in 1..Cardinality(Pending(catalog)) |-> Queue(catalog, TRUE)[r]]
  <2>1. /\ DOMAIN Queue(rev, TRUE) = 1..Cardinality(Pending(rev))
        /\ DOMAIN Queue(catalog, TRUE) = 1..Cardinality(Pending(catalog))
    BY <1>5, QueuePlaces
  <2>2. \A c : Queue(c, TRUE) = [r \in DOMAIN Queue(c, TRUE) |-> Queue(c, TRUE)[r]]
    BY DEF Queue
  <2>3. QED BY <2>1, <2>2
<1>12. Queue(rev, TRUE) = Queue(catalog, TRUE)
  BY <1>7, <1>10, <1>11
<1>13. QED BY <1>12 DEF rev

\* It lists every pending candidate once,
LEMMA QueueIsComplete ==
  ASSUME NEW catalog \in Catalogs
  PROVE  LET pending == {c \in ToSet(catalog) : c.status = "pending"} IN
           /\ {item.id : item \in ToSet(Queue(catalog, TRUE))} = {c.id : c \in pending}
           /\ Len(Queue(catalog, TRUE)) = Cardinality(pending)
<1> DEFINE n == Cardinality(Pending(catalog))
           queue == Queue(catalog, TRUE)
           pending == {c \in ToSet(catalog) : c.status = "pending"}
           f == [i \in Pending(catalog) |-> catalog[i]]
<1>1. pending = {catalog[i] : i \in Pending(catalog)}
  BY DEF ToSet, Pending
<1>2. ToSet(queue) = {queue[r] : r \in 1..n}
  BY QueuePlaces DEF ToSet
<1>3. \A r \in 1..n : At(catalog, r) \in Pending(catalog) /\ queue[r].id = catalog[At(catalog, r)].id
  <2>1. \A r \in 1..n : At(catalog, r) \in Pending(catalog)
                      /\ queue[r] = PendingItems(catalog)[At(catalog, r)]
    BY QueuePlaces
  <2>2. \A i \in Pending(catalog) : PendingItems(catalog)[i].id = catalog[i].id
    BY PendingType
  <2> HIDE DEF queue, n
  <2>3. QED BY <2>1, <2>2
<1>4. \A i \in Pending(catalog) : \E r \in 1..n : At(catalog, r) = i
  BY QueuePlaces
<1> HIDE DEF queue, n, pending
<1>5. {item.id : item \in ToSet(queue)} = {c.id : c \in pending}
  <2>1. ASSUME NEW item \in ToSet(queue) PROVE \E c \in pending : item.id = c.id
    BY <1>1, <1>2, <1>3
  <2>2. ASSUME NEW c \in pending PROVE \E item \in ToSet(queue) : item.id = c.id
    <3>1. PICK i \in Pending(catalog) : c = catalog[i]
      BY <1>1
    <3>2. PICK r \in 1..n : At(catalog, r) = i
      BY <1>4
    <3>3. queue[r] \in ToSet(queue) /\ queue[r].id = c.id
      BY <1>2, <1>3, <3>1, <3>2
    <3>4. QED BY <3>3
  <2>3. QED BY <2>1, <2>2
<1>6. f \in Bijection(Pending(catalog), pending)
  <2>1. f \in [Pending(catalog) -> pending]
    BY <1>1
  <2>2. \A i, j \in Pending(catalog) : f[i] = f[j] => i = j
    BY DEF Catalogs, Pending
  <2>3. \A c \in pending : \E i \in Pending(catalog) : f[i] = c
    BY <1>1
  <2> HIDE DEF f
  <2>4. QED BY <2>1, <2>2, <2>3, Fun_IsBij
<1>7. Cardinality(pending) = n
  <2>1. ExistsBijection(Pending(catalog), pending)
    BY <1>6 DEF ExistsBijection
  <2>2. QED BY <2>1, PendingType, FS_Bijection DEF n
<1>8. Len(queue) = n
  BY QueuePlaces DEF queue, n
<1>9. QED BY <1>5, <1>7, <1>8 DEF queue, pending

\* and by the policy.
LEMMA QueueFollowsPolicy ==
  ASSUME NEW catalog \in Catalogs,
         NEW i \in DOMAIN Queue(catalog, TRUE), NEW j \in DOMAIN Queue(catalog, TRUE), i < j
  PROVE  LET before == Policy(Queue(catalog, TRUE)[i]) after == Policy(Queue(catalog, TRUE)[j])
             k == CHOOSE k \in DOMAIN before :
                    before[k] # after[k] /\ \A l \in 1..(k - 1) : before[l] = after[l] IN
           {before[k], after[k]} \intersect {Unknown} = {} => before[k] > after[k]
<1> DEFINE items == PendingItems(catalog)
           a == Queue(catalog, TRUE)[i]
           b == Queue(catalog, TRUE)[j]
           before == Policy(a)
           after == Policy(b)
           k == CHOOSE k \in DOMAIN before :
                  before[k] # after[k] /\ \A l \in 1..(k - 1) : before[l] = after[l]
<1>1. /\ i \in 1..Cardinality(Pending(catalog)) /\ j \in 1..Cardinality(Pending(catalog))
      /\ At(catalog, i) \in Pending(catalog) /\ a = items[At(catalog, i)] /\ a \in Items
      /\ At(catalog, j) \in Pending(catalog) /\ b = items[At(catalog, j)] /\ b \in Items
      /\ Rank(items, At(catalog, i)) = i /\ Rank(items, At(catalog, j)) = j
  BY QueuePlaces
<1>2. i \in Int /\ j \in Int
  BY <1>1
<1>3. a.id # b.id
  <2>1. At(catalog, i) # At(catalog, j)
    BY <1>1, <1>2
  <2>2. items[At(catalog, i)].id # items[At(catalog, j)].id
    BY <1>1, <2>1, PendingType
  <2>3. QED BY <1>1, <2>2
<1>4. Precedes(a, b)
  <2>1. SUFFICES ASSUME Precedes(b, a) PROVE FALSE
    BY <1>1, <1>3, PrecedesOrder
  <2>2. \A u, v \in Pending(catalog) :
          Precedes(items[u], items[v]) => Rank(items, u) < Rank(items, v)
    BY PendingType, RankOrders
  <2> HIDE DEF a, b, items
  <2>3. j < i
    BY <1>1, <2>1, <2>2
  <2>4. QED BY <1>2, <2>3
<1> HIDE DEF a, b, items
<1>5. /\ DOMAIN before = 1..9 /\ before[9] # after[9] /\ 9 \in 1..9
      /\ \A l \in 1..9 : PriorityKey(a)[l] \in Int /\ PriorityKey(b)[l] \in Int
      /\ DOMAIN PriorityKey(a) = 1..9
  <2>1. a.id \in Int /\ b.id \in Int /\ before[9] = -a.id /\ after[9] = -b.id
    BY <1>1, KeyType DEF Items
  <2>2. QED BY <1>1, <1>3, <2>1, KeyType
<1>6. k \in 1..9 /\ before[k] # after[k] /\ \A l \in 1..(k - 1) : before[l] = after[l]
  <2> HIDE DEF before, after
  <2>1. \E m \in 1..9 : before[m] # after[m] /\ \A l \in 1..(m - 1) : before[l] = after[l]
    BY <1>5, FirstDifference
  <2>2. QED BY <1>5, <2>1
<1> HIDE DEF k
<1>7. SUFFICES ASSUME before[k] # Unknown, after[k] # Unknown PROVE before[k] > after[k]
  BY DEF k, a, b
<1>8. PICK m \in 1..9 : /\ PriorityKey(a)[m] < PriorityKey(b)[m]
                        /\ \A l \in 1..(m - 1) : PriorityKey(a)[l] = PriorityKey(b)[l]
  BY <1>4, <1>5 DEF Precedes
<1>9. \A l \in 1..(k - 1) : PriorityKey(a)[l] = PriorityKey(b)[l]
  <2> SUFFICES ASSUME NEW l \in 1..(k - 1) PROVE PriorityKey(a)[l] = PriorityKey(b)[l]
    OBVIOUS
  <2>1. l \in 1..9 /\ before[l] = after[l]
    BY <1>6
  <2>2. QED BY <1>1, <2>1, KeyFollowsPolicy
<1>10. PriorityKey(a)[k] # PriorityKey(b)[k]
  BY <1>1, <1>6, <1>7, KeyFollowsPolicy
<1>11. m = k
  <2>1. ~(m < k)
    <3>1. m < k => m \in 1..(k - 1)
      BY <1>6, <1>8
    <3>2. PriorityKey(a)[m] # PriorityKey(b)[m]
      BY <1>5, <1>8
    <3>3. QED BY <1>9, <3>1, <3>2
  <2>2. ~(k < m)
    <3>1. k < m => k \in 1..(m - 1)
      BY <1>6
    <3>2. QED BY <1>8, <1>10, <3>1
  <2>3. QED BY <1>6, <2>1, <2>2
<1>12. QED BY <1>1, <1>6, <1>7, <1>8, <1>11, KeyFollowsPolicy

\* Whatever the catalog, the review queue lists its pending candidates by the policy
\* it prints, and in the same order if the catalog is reversed (event_review_queue.py).
THEOREM QueueIsRanked == ASSUME NEW catalog \in Catalogs PROVE RankedByPolicy(catalog)
BY QueueIsComplete, QueueOfReverse, QueueFollowsPolicy DEF RankedByPolicy

(***************************************************************************)
(* The audits                                                              *)
(***************************************************************************)
\* The inductive invariant: what the audits read is sound.
AuditInv ==
  /\ subject = "gaps" =>
       /\ DOMAIN input = {"history", "evidence", "now"}
       /\ ReportInputs(input.history, input.evidence, input.now)
  /\ subject = "queue" =>
       /\ input \in Seq(Candidates)
       /\ \A i \in DOMAIN input : input[i].id = i - 1
  /\ subject = "training" =>
       /\ DOMAIN input = {"losses", "patience", "run"}
       /\ RunSound(input.losses, input.run, input.patience)


LEMMA CapturesType == Captures \subseteq Seq(CaptureRecords)
<1>1. Ok \in CaptureRecords
  BY DEF Ok, CaptureRecords, Statuses, Values
<1>2. ASSUME NEW r \in CaptureRecords, NEW n \in Nat, NEW v \in Values
      PROVE  /\ [r EXCEPT !.records = n] \in CaptureRecords
             /\ [r EXCEPT !.gauge = v] \in CaptureRecords
             /\ [r EXCEPT !.rain = v] \in CaptureRecords
             /\ [r EXCEPT !.gauges = "stale"] \in CaptureRecords
             /\ [r EXCEPT !.parses = FALSE] \in CaptureRecords
  BY DEF CaptureRecords, Statuses
<1>3. ASSUME NEW r \in CaptureRecords, NEW v \in Values
      PROVE  /\ [r EXCEPT !.gauges = "stale", !.gauge = v] \in CaptureRecords
             /\ [r EXCEPT !.parses = FALSE, !.rain = v] \in CaptureRecords
  BY DEF CaptureRecords, Statuses
<1>4. {1, 8} \subseteq Nat /\ {8, Unknown} \subseteq Values
  BY DEF Values
<1> DEFINE b == [Ok EXCEPT !.records = 1]
           c == [Ok EXCEPT !.gauge = 8]
           d == [Ok EXCEPT !.gauges = "stale", !.gauge = Unknown]
           e == [Ok EXCEPT !.rain = 8]
           f == [Ok EXCEPT !.parses = FALSE, !.rain = Unknown]
<1>5. /\ b \in CaptureRecords /\ c \in CaptureRecords /\ d \in CaptureRecords
      /\ e \in CaptureRecords /\ f \in CaptureRecords
  BY <1>1, <1>2, <1>3, <1>4
<1>6. Captures = {<<>>, <<Ok>>, <<b>>, <<c>>, <<d, e>>, <<f>>}
  BY DEF Captures
<1> HIDE DEF b, c, d, e, f
<1>7. \A x, y \in CaptureRecords :
        /\ <<>> \in Seq(CaptureRecords) /\ <<x>> \in Seq(CaptureRecords)
        /\ <<x, y>> \in Seq(CaptureRecords)
  OBVIOUS
<1>8. QED BY <1>1, <1>5, <1>6, <1>7

LEMMA AuditInitInv == AuditInit => AuditInv
<1> SUFFICES ASSUME AuditInit PROVE AuditInv
  OBVIOUS
<1>1. CASE Timeline
  <2>1. PICK evidence \in Evidence :
          input = [history |-> {}, evidence |-> evidence, now |-> 0]
    BY <1>1 DEF Timeline
  <2>2. \A p \in evidence : p.from \in Int /\ p.to \in Int
    BY DEF Evidence, Period
  <2>3. QED BY <1>1, <2>1, <2>2 DEF Timeline, AuditInv, ReportInputs
<1>2. CASE Archive
  BY <1>2 DEF Archive, AuditInv
<1>3. CASE Catalog
  BY <1>3 DEF Catalog, AuditInv
<1>4. CASE Training
  <2>1. PICK patience \in 0..3 :
          input = [losses |-> <<>>, patience |-> patience, run |-> Untrained]
    BY <1>4 DEF Training
  <2>2. RunSound(<<>>, Untrained, patience)
    BY DEF RunSound, Untrained, TrainingRuns, NoEpoch
  <2>3. QED BY <1>4, <2>1, <2>2 DEF Training, AuditInv
<1>5. QED BY <1>1, <1>2, <1>3, <1>4 DEF AuditInit

LEMMA AuditStep == AuditInv /\ [AuditNext]_auditVars => AuditInv'
<1> SUFFICES ASSUME AuditInv, [AuditNext]_auditVars PROVE AuditInv'
  OBVIOUS
<1>1. CASE Complete
  <2>1. PICK kind \in AttemptKinds, at \in {input.now, Undated} :
          input' = [input EXCEPT !.history =
                      @ \union {[kind EXCEPT !.id = Cardinality(input.history), !.at = at]}]
    BY <1>1 DEF Complete
  <2>2. /\ subject = "gaps" /\ subject' = "gaps" /\ DOMAIN input = {"history", "evidence", "now"}
        /\ ReportInputs(input.history, input.evidence, input.now)
    BY <1>1 DEF Complete, AuditInv
  <2> DEFINE new == [kind EXCEPT !.id = Cardinality(input.history), !.at = at]
  <2>3. new.at = at
    BY DEF AttemptKinds, Healthy
  <2>4. at \in Int
    BY <2>2 DEF ReportInputs, Undated
  <2>5. /\ DOMAIN input' = {"history", "evidence", "now"}
        /\ input'.history = input.history \union {new}
        /\ input'.evidence = input.evidence /\ input'.now = input.now
    BY <2>1, <2>2
  <2> HIDE DEF new
  <2>6. ReportInputs(input'.history, input'.evidence, input'.now)
    BY <2>2, <2>3, <2>4, <2>5 DEF ReportInputs
  <2>7. QED BY <2>2, <2>5, <2>6 DEF AuditInv
<1>2. CASE Wait
  <2>1. /\ subject = "gaps" /\ subject' = "gaps" /\ DOMAIN input = {"history", "evidence", "now"}
        /\ ReportInputs(input.history, input.evidence, input.now)
        /\ input' = [input EXCEPT !.now = input.now + 1]
    BY <1>2 DEF Wait, AuditInv
  <2>2. /\ DOMAIN input' = {"history", "evidence", "now"}
        /\ input'.history = input.history /\ input'.evidence = input.evidence
        /\ input'.now = input.now + 1
    BY <2>1
  <2>3. ReportInputs(input'.history, input'.evidence, input'.now)
    BY <2>1, <2>2 DEF ReportInputs
  <2>4. QED BY <2>1, <2>2, <2>3 DEF AuditInv
<1>3. CASE Refer
  BY <1>3 DEF Refer, AuditInv
<1>4. CASE Find
  <2>1. PICK c : /\ c \in Candidates /\ c.id = Len(input)
                 /\ input' = Append(input, c)
    <3>1. PICK review \in {"pending", "approved"}, intact \in BOOLEAN, captures \in Captures,
               local \in 0..1, peak \in {Unknown, -5, 40}, first \in 0..1 :
            /\ review = "approved" => intact /\ captures = <<Ok>> /\ first = 0
            /\ local = 1 => peak = 40
            /\ input' = Append(input, [id |-> Len(input), status |-> review, complete |-> TRUE,
                                       intact |-> intact, captures |-> captures, local |-> local,
                                       peak |-> peak, first |-> first])
      BY <1>4, Zenon DEF Find
    <3>2. Len(input) \in Int
      <4>1. input \in Seq(Candidates)
        BY <1>4 DEF Find, AuditInv
      <4>2. QED BY <4>1, LenProperties
    <3>3. [id |-> Len(input), status |-> review, complete |-> TRUE, intact |-> intact,
           captures |-> captures, local |-> local, peak |-> peak, first |-> first] \in Candidates
      BY <3>2, CapturesType DEF Candidates, Values
    <3>4. QED BY <3>1, <3>3
  <2>2. /\ subject = "queue" /\ subject' = "queue" /\ input \in Seq(Candidates)
        /\ \A i \in DOMAIN input : input[i].id = i - 1
    BY <1>4 DEF Find, AuditInv
  <2>3. /\ input' \in Seq(Candidates) /\ DOMAIN input' = 1..(Len(input) + 1)
        /\ \A i \in 1..Len(input) : input'[i] = input[i]
        /\ input'[Len(input) + 1] = c /\ DOMAIN input = 1..Len(input) /\ Len(input) \in Nat
    BY <2>1, <2>2, AppendProperties
  <2>4. \A i \in DOMAIN input' : input'[i].id = i - 1
    <3> SUFFICES ASSUME NEW i \in 1..(Len(input) + 1) PROVE input'[i].id = i - 1
      BY <2>3
    <3>1. CASE i = Len(input) + 1
      BY <2>1, <2>3, <3>1
    <3>2. CASE i \in 1..Len(input)
      BY <2>2, <2>3, <3>2
    <3>3. QED BY <2>3, <3>1, <3>2
  <2>5. QED BY <2>2, <2>3, <2>4 DEF AuditInv
<1>5. CASE Validate
  <2>1. PICK loss \in 0..2 :
          input' = [input EXCEPT !.losses = Append(@, loss),
                                 !.run = Epoch(@, loss, input.patience)]
    BY <1>5 DEF Validate
  <2>2. /\ subject = "training" /\ subject' = "training" /\ ~input.run.stopped
        /\ DOMAIN input = {"losses", "patience", "run"}
        /\ RunSound(input.losses, input.run, input.patience)
    BY <1>5 DEF Validate, Due, AuditInv
  <2>3. /\ DOMAIN input' = {"losses", "patience", "run"}
        /\ input'.losses = Append(input.losses, loss) /\ input'.patience = input.patience
        /\ input'.run = Epoch(input.run, loss, input.patience)
    BY <2>1, <2>2
  <2>4. RunSound(input'.losses, input'.run, input'.patience)
    BY <2>2, <2>3, EpochSound
  <2>5. QED BY <2>2, <2>3, <2>4 DEF AuditInv
<1>6. CASE UNCHANGED auditVars
  BY <1>6 DEF auditVars, AuditInv
<1>7. QED BY <1>1, <1>2, <1>3, <1>4, <1>5, <1>6 DEF AuditNext

LEMMA AuditInvImplies == AuditInv => GapsAccounted /\ QueueRanked /\ BestEpoch
<1> SUFFICES ASSUME AuditInv PROVE GapsAccounted /\ QueueRanked /\ BestEpoch
  OBVIOUS
<1>1. GapsAccounted
  BY ReportsAlwaysAgree DEF AuditInv, GapsAccounted
<1>2. QueueRanked
  <2> SUFFICES ASSUME subject = "queue" PROVE RankedByPolicy(input)
    BY DEF QueueRanked
  <2>1. /\ input \in Seq(Candidates) /\ DOMAIN input \subseteq Int
        /\ \A i \in DOMAIN input : input[i].id = i - 1
    BY DEF AuditInv
  <2>2. \A i, j \in DOMAIN input : input[i].id = input[j].id => i = j
    <3> SUFFICES ASSUME NEW i \in DOMAIN input, NEW j \in DOMAIN input,
                        input[i].id = input[j].id
                 PROVE  i = j
      OBVIOUS
    <3>1. i \in Int /\ j \in Int /\ i - 1 = j - 1
      BY <2>1
    <3>2. QED BY <3>1
  <2>3. QED BY <2>1, <2>2, QueueIsRanked DEF Catalogs
<1>3. BestEpoch
  BY RunKeepsBest DEF AuditInv, BestEpoch
<1>4. QED BY <1>1, <1>2, <1>3

\* The reports agree however the history, the evidence and the time go on.
THEOREM GapsAreAccounted == AuditSpec => []GapsAccounted
<1>1. AuditSpec => []AuditInv
  BY AuditInitInv, AuditStep, PTL DEF AuditSpec
<1>2. QED BY <1>1, AuditInvImplies, PTL

\* The queue is ranked however candidates are found.
THEOREM QueueStaysRanked == AuditSpec => []QueueRanked
<1>1. AuditSpec => []AuditInv
  BY AuditInitInv, AuditStep, PTL DEF AuditSpec
<1>2. QED BY <1>1, AuditInvImplies, PTL

\* The training ends with the weights of its best epoch, and stops where the patience
\* is exhausted first (torch_baseline_training.py), whatever the losses and the patience.
THEOREM BestEpochIsKept == AuditSpec => []BestEpoch
<1>1. AuditSpec => []AuditInv
  BY AuditInitInv, AuditStep, PTL DEF AuditSpec
<1>2. QED BY <1>1, AuditInvImplies, PTL
=============================================================================
