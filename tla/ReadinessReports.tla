--------------------------- MODULE ReadinessReports ---------------------------
(***************************************************************************)
(* The two reports about how long no ready snapshot was there: the queue   *)
(* of gap incidents (operations/gap_incidents.py) and the shadow gate      *)
(* (operations/shadow.py), which must pass before notifications are worked *)
(* on.  Each reads the attempts of the snapshot store, selects those of    *)
(* the window and the ready ones among them, and computes its gaps, with   *)
(* code of its own; the definitions are kept apart here as they are there. *)
(*                                                                         *)
(* An attempt is a manifest of the store: its number, when it completed    *)
(* (Undated if the manifest does not say), its mode and outcome, whether   *)
(* its files are as the manifest says and its health.  "unready" gives the *)
(* state of each dataset that is not ready.                                *)
(***************************************************************************)
EXTENDS Integers, FiniteSets, FiniteSetsExt

CONSTANTS
  Lookback,     \* of both reports
  MaxGap,       \* that either tolerates
  Sources,      \* datasets that are not derived from others
  MinDuration, MinAttempts, MinSuccess, MinReadiness, Periods  \* of the gate, in percent

ASSUME ReadinessAssumption ==
  /\ {Lookback, MaxGap} \subseteq Nat \ {0}
  /\ {MinDuration, MinAttempts, MinSuccess, MinReadiness, Periods} \subseteq Nat

Undated == -1

\* _scan_live_attempts: the live attempts of the window
Live(history, now) ==
  {a \in history : a.at # Undated /\ now - Lookback <= a.at /\ a.at <= now /\ a.live}

Readable(a) == a.ok /\ ~a.damaged
Ready(a) == Readable(a) /\ a.ready
ReadyTimes(history, now) == {a.at : a \in {b \in Live(history, now) : Ready(b)}}

(***************************************************************************)
(* build_gap_incident_report                                               *)
(***************************************************************************)
\* From each ready attempt to the next, and from the last one to now.
GapWindows(ready, now) ==
  {w \in ready \X (ready \union {now}) :
     w[1] < w[2] /\ ~ \E v \in ready : w[1] < v /\ v < w[2]}

StaleSources(attempts) ==
  {d \in Sources : \E a \in attempts : d \in DOMAIN a.unready /\ a.unready[d] = "stale"}

\* _classify_incident.  An attempt that succeeded may still be damaged.
Classification(attempts) ==
  LET successful == {a \in attempts : a.ok} failed == attempts \ successful IN
    IF attempts = {} THEN "no_completed_attempts"
    ELSE IF \E a \in successful : a.damaged THEN "snapshot_integrity_failure"
    ELSE IF failed = {} /\ StaleSources(successful) # {} THEN "source_data_stale"
    ELSE IF successful = {} THEN "collection_failure"
    ELSE IF failed # {} THEN "mixed_collection_and_readiness_failure"
    ELSE "successful_but_not_ready"

\* Mutant: an attempt at an end of the gap counts as one during it.
AttemptsUpTo(live, window) == {a \in live : window[1] <= a.at /\ a.at <= window[2]}

AttemptsDuring(live, window) == {a \in live : window[1] < a.at /\ a.at < window[2]}

\* _incident_payload, _provisional_root_cause
Incident(live, window) ==
  LET attempts == AttemptsDuring(live, window) class == Classification(attempts) IN
    [start |-> window[1], end |-> window[2], attempts |-> attempts, class |-> class,
     affected |-> IF class = "source_data_stale" THEN StaleSources(attempts) ELSE {}]

Incidents(history, now) ==
  {Incident(Live(history, now), w) :
     w \in {w \in GapWindows(ReadyTimes(history, now), now) : w[2] - w[1] > MaxGap}}

(***************************************************************************)
(* evaluate_shadow                                                         *)
(***************************************************************************)
\* Mutant: the attempt at the start of the window is left out.
AttemptsAfterCutoff(history, now) ==
  {a \in history : a.at # Undated /\ now - Lookback < a.at /\ a.at <= now /\ a.live}

AttemptsInWindow(history, now) ==
  {a \in history : a.at # Undated /\ now - Lookback <= a.at /\ a.at <= now /\ a.live}

\* Only the successful attempts are verified, and then asked for their health.
Successful(attempts) == {a \in attempts : a.ok}
ReadyAttempts(attempts) == {a \in Successful(attempts) : ~a.damaged /\ a.ready}
ShadowReadyTimes(history, now) == {a.at : a \in ReadyAttempts(AttemptsInWindow(history, now))}

Differences(times) ==
  {p[2] - p[1] : p \in {p \in times \X times :
                          p[1] < p[2] /\ ~ \E v \in times : p[1] < v /\ v < p[2]}}

\* The largest of the gaps and the time since the last ready attempt.
MaximumGap(ready, now) == Max(Differences(ready) \union {now - Max(ready)})

\* load_evidence: the confirmed periods of heavy rain, and the entries in error
Confirmed(evidence) == {p \in evidence : p.complete /\ p.confirmed /\ p.from < p.to}
Malformed(evidence) == {p \in evidence : ~p.complete \/ (p.confirmed /\ p.to <= p.from)}

\* The gaps of a period include those at its ends.
Covered(period, ready) ==
  LET within == {t \in ready : period.from <= t /\ t <= period.to} IN
    /\ within # {}
    /\ \A gap \in Differences(within \union {period.from, period.to}) : gap <= MaxGap

\* The rates are rounded to six places, which decides nothing against a criterion
\* in percent below 20000 attempts (five months of one every ten minutes).
AtLeast(share, percent, all) == all > 0 /\ 100 * share >= percent * all

ShadowGate(history, evidence, now) ==
  LET attempts == AttemptsInWindow(history, now)
      count == Cardinality(attempts)
      times == {a.at : a \in attempts}
      ready == ShadowReadyTimes(history, now) IN
    /\ (IF count >= 2 THEN Max(times) - Min(times) ELSE 0) >= MinDuration
    /\ count >= MinAttempts
    /\ AtLeast(Cardinality(Successful(attempts)), MinSuccess, count)
    /\ AtLeast(Cardinality(ReadyAttempts(attempts)), MinReadiness, count)
    /\ ready # {} /\ MaximumGap(ready, now) <= MaxGap
    /\ Cardinality({p \in Confirmed(evidence) : Covered(p, ready)}) >= Periods
    /\ \A a \in history : a.at # Undated
    /\ \A a \in Successful(attempts) : ~a.damaged
    /\ Malformed(evidence) = {}

(***************************************************************************)
(* Properties                                                              *)
(***************************************************************************)
\* Of the time since the first ready attempt of the window, every stretch longer
\* than the maximum gap without a ready attempt lies in exactly one incident, and no
\* incident holds a ready attempt; its class accounts for every attempt in it; and
\* the shadow gate, from the attempts it selects itself, misses a ready attempt of the
\* window exactly when there is none, sees a gap exactly when there is an incident,
\* counts no period of heavy rain as covered in which an incident takes longer than
\* the maximum gap, and does not pass beside one.
ReportsAgree(history, evidence, now) ==
  LET ready == ReadyTimes(history, now)
      seen == ShadowReadyTimes(history, now)
      incidents == Incidents(history, now)
      inside(a, i) == i.start < a.at /\ a.at < i.end
      first == IF ready = {} THEN now ELSE Min(ready) IN
    /\ \A x, y \in first..now :
         y - x > MaxGap /\ ~(\E t \in ready : x < t /\ t < y) =>
           Cardinality({i \in incidents : i.start <= x /\ y <= i.end}) = 1
    /\ \A i \in incidents : \A a \in Live(history, now) :
         inside(a, i) =>
           /\ ~Ready(a)
           /\ i.class # "no_completed_attempts"
           /\ i.class \in {"source_data_stale", "successful_but_not_ready"} => Readable(a)
           /\ i.class = "collection_failure" => ~a.ok
    /\ \A i \in incidents : i.class = "source_data_stale" <=> i.affected # {}
    /\ \A i \in incidents :
         i.class \in {"mixed_collection_and_readiness_failure", "collection_failure"} =>
           \E a \in i.attempts : inside(a, i) /\ ~a.ok
    /\ seen = {} <=> ready = {}
    /\ seen # {} => (incidents = {} <=> MaximumGap(seen, now) <= MaxGap)
    /\ \A p \in Confirmed(evidence), i \in incidents :
         Covered(p, seen) => Min({i.end, p.to}) - Max({i.start, p.from}) <= MaxGap
    /\ ShadowGate(history, evidence, now) => incidents = {}
=============================================================================
