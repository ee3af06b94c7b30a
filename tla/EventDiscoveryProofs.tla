------------------------ MODULE EventDiscoveryProofs ------------------------
(***************************************************************************)
(* Proofs about EventDiscovery for any storms, windows, index and faults:  *)
(* the inductive invariant Safety, and from it that a run which ends can   *)
(* save what it has found, that frames stay and that reviews are final.    *)
(* A step of a run changes one candidate and the files of this one, so     *)
(* that most of the work is about a single candidate and its files.        *)
(***************************************************************************)
EXTENDS EventDiscovery, SequenceTheorems, WellFoundedInduction, TLAPS

(***************************************************************************)
(* Times, triggers and windows                                             *)
(***************************************************************************)
\* The constants as the proofs use them.
LEMMA Constants ==
  /\ MaxTime \in Nat /\ Before \in Nat /\ After \in Nat /\ MergeGap \in Nat /\ Lookback \in Nat
  /\ Retained \in Nat \ {0} /\ MaxWindow \in Nat /\ Before + After <= MaxWindow
  /\ MaxFaults \in Nat
BY DiscoveryAssumption

\* Earliest is the least of a set.
LEMMA EarliestOf ==
  ASSUME NEW T \in SUBSET Nat, T # {}
  PROVE  Earliest(T) \in T /\ \A u \in T : Earliest(T) <= u
<1>1. T \subseteq Nat
  OBVIOUS
<1>2. PICK t \in T : \A u \in T : ~(<<u, t>> \in OpToRel(<, Nat))
  BY <1>1, NatLessThanWellFounded, WFMin
<1>3. \A u \in T : t <= u
  <2> SUFFICES ASSUME NEW u \in T, u < t PROVE FALSE
    BY <1>1
  <2>1. u \in Nat /\ t \in Nat
    BY <1>1
  <2>2. QED BY <1>2, <2>1 DEF OpToRel
<1>4. QED BY <1>3 DEF Earliest

\* Latest is the greatest.
LEMMA LatestOf ==
  ASSUME NEW n \in Nat, NEW T \in SUBSET (0..n), T # {}
  PROVE  Latest(T) \in T /\ \A u \in T : u <= Latest(T)
<1> DEFINE rest == {k \in 0..n : n - k \in T}
<1>1. rest # {}
  <2>1. PICK t \in T : TRUE
    OBVIOUS
  <2>2. n - t \in 0..n /\ n - (n - t) = t
    OBVIOUS
  <2>3. QED BY <2>1, <2>2
<1>2. PICK R \in SUBSET Nat : R = rest
  <2>1. rest \subseteq Nat
    OBVIOUS
  <2>2. QED BY <2>1
<1>3. PICK k \in R : \A m \in R : k <= m
  BY <1>1, <1>2, EarliestOf
<1>4. n - k \in T
  BY <1>2, <1>3
<1>5. \A u \in T : u <= n - k
  <2> SUFFICES ASSUME NEW u \in T PROVE u <= n - k
    OBVIOUS
  <2>1. u \in 0..n /\ n - u \in 0..n /\ n - (n - u) = u
    OBVIOUS
  <2>2. n - u \in R
    BY <1>2, <2>1
  <2>3. k <= n - u
    BY <1>3, <2>2
  <2>4. QED BY <2>1, <2>3, <1>3
<1>6. QED BY <1>4, <1>5 DEF Latest

LEMMA EarliestTime ==
  ASSUME NEW T \in SUBSET Times, T # {}
  PROVE  Earliest(T) \in T /\ \A u \in T : Earliest(T) <= u
<1>1. T \in SUBSET Nat
  BY Constants DEF Times
<1>2. QED BY <1>1, EarliestOf

LEMMA LatestTime ==
  ASSUME NEW T \in SUBSET Times, T # {}
  PROVE  Latest(T) \in T /\ \A u \in T : u <= Latest(T)
BY Constants, LatestOf DEF Times

\* The triggers of a candidate lie between its first and its last one.
LEMMA Triggers ==
  ASSUME NEW c \in Candidate
  PROVE  /\ c.triggers \in SUBSET Times /\ c.triggers # {}
         /\ FirstTrigger(c) \in c.triggers /\ LastTrigger(c) \in c.triggers
         /\ FirstTrigger(c) \in Times /\ LastTrigger(c) \in Times
         /\ \A t \in c.triggers : FirstTrigger(c) <= t /\ t <= LastTrigger(c)
<1>1. PICK T \in SUBSET Times : T # {} /\ T = c.triggers
  BY DEF Candidate
<1>2. Earliest(T) \in T /\ \A t \in T : Earliest(T) <= t
  BY <1>1, EarliestTime
<1>3. Latest(T) \in T /\ \A t \in T : t <= Latest(T)
  BY <1>1, LatestTime
<1>4. FirstTrigger(c) = Earliest(T) /\ LastTrigger(c) = Latest(T)
  BY <1>1 DEF FirstTrigger, LastTrigger
<1>5. QED BY <1>1, <1>2, <1>3, <1>4

\* What is first of some times is the earliest of them.
LEMMA EarliestIs ==
  ASSUME NEW T \in SUBSET Times, NEW t \in T, \A u \in T : t <= u
  PROVE  Earliest(T) = t
<1>1. Earliest(T) \in T /\ Earliest(T) <= t
  BY EarliestTime
<1>2. t <= Earliest(T) /\ Earliest(T) \in Times /\ t \in Times
  BY <1>1
<1>3. QED BY <1>1, <1>2, Constants DEF Times

LEMMA LatestIs ==
  ASSUME NEW T \in SUBSET Times, NEW t \in T, \A u \in T : u <= t
  PROVE  Latest(T) = t
<1>1. Latest(T) \in T /\ t <= Latest(T)
  BY LatestTime
<1>2. Latest(T) <= t /\ Latest(T) \in Times /\ t \in Times
  BY <1>1
<1>3. QED BY <1>1, <1>2, Constants DEF Times

\* A window contains its triggers.
LEMMA WindowHolds ==
  ASSUME NEW c \in Candidate PROVE FirstTrigger(c) \in Window(c)
<1>1. FirstTrigger(c) \in Times /\ LastTrigger(c) \in Times /\ FirstTrigger(c) <= LastTrigger(c)
  BY Triggers
<1>2. QED BY <1>1, Constants DEF Window, Times

\* Different candidates have different first triggers, hence files of their own.
LEMMA Apart ==
  ASSUME NEW s \in Seq(Candidate), Merged(s), NEW i \in DOMAIN s, NEW j \in DOMAIN s,
         FirstTrigger(s[i]) = FirstTrigger(s[j])
  PROVE  i = j
<1>1. s[i] \in Candidate /\ s[j] \in Candidate
  OBVIOUS
<1>2. FirstTrigger(s[i]) \in s[i].triggers /\ FirstTrigger(s[j]) \in s[j].triggers
  BY <1>1, Triggers
<1>3. j # i => s[i].triggers \intersect s[j].triggers = {}
  BY DEF Merged
<1>4. QED BY <1>2, <1>3

(***************************************************************************)
(* Triggers                                                                *)
(***************************************************************************)
\* Adding a trigger after all others leaves the first trigger and moves the last one.
LEMMA Extended1 ==
  ASSUME NEW c \in Candidate, NEW t \in Times, \A u \in c.triggers : u < t,
         NEW d \in Candidate, d.triggers = c.triggers \union {t}
  PROVE  FirstTrigger(d) = FirstTrigger(c) /\ LastTrigger(d) = t
<1>1. /\ c.triggers \in SUBSET Times /\ FirstTrigger(c) \in c.triggers
      /\ \A u \in c.triggers : FirstTrigger(c) <= u
  BY Triggers
<1>2. PICK T \in SUBSET Times : T = c.triggers \union {t}
  BY <1>1
<1>3. Earliest(T) = FirstTrigger(c)
  <2>1. FirstTrigger(c) \in T /\ FirstTrigger(c) < t
    BY <1>1, <1>2
  <2>2. \A u \in T : FirstTrigger(c) <= u
    BY <1>1, <1>2, <2>1, Constants DEF Times
  <2>3. QED BY <2>1, <2>2, EarliestIs
<1>4. Latest(T) = t
  <2>1. t \in T /\ \A u \in T : u <= t
    BY <1>1, <1>2, Constants DEF Times
  <2>2. QED BY <2>1, LatestIs
<1>5. QED BY <1>2, <1>3, <1>4 DEF FirstTrigger, LastTrigger

\* A new candidate.
LEMMA NewOne ==
  ASSUME NEW t \in Times
  PROVE  /\ NewCandidate(t) \in Candidate /\ NewCandidate(t).triggers = {t}
         /\ FirstTrigger(NewCandidate(t)) = t /\ LastTrigger(NewCandidate(t)) = t
         /\ NewCandidate(t).review = "pending"
<1>1. NewCandidate(t) \in Candidate /\ NewCandidate(t).triggers = {t}
      /\ NewCandidate(t).review = "pending"
  <2>1. {t} \in (SUBSET Times) \ {{}}
    OBVIOUS
  <2>2. [u \in Times |-> "none"] \in [Times -> Capture]
    BY DEF Capture
  <2>3. Absent \in Content
    BY DEF Content
  <2>4. QED BY <2>1, <2>2, <2>3 DEF NewCandidate, Candidate
<1>2. PICK T \in SUBSET Times : T = {t}
  OBVIOUS
<1>3. t \in T /\ \A u \in T : t <= u /\ u <= t
  BY <1>2, Constants DEF Times
<1>4. Earliest(T) = t /\ Latest(T) = t
  BY <1>3, EarliestIs, LatestIs
<1>5. QED BY <1>1, <1>2, <1>4 DEF FirstTrigger, LastTrigger

\* apply_trigger_metrics: a trigger after all others opens a candidate that no other
\* one could have taken in, or is added to one that could.
Opened(s, t, a) ==
  /\ Len(a) = Len(s) + 1 /\ \A i \in DOMAIN s : a[i] = s[i] /\ ~Fits(s[i], t)
  /\ a[Len(s) + 1] = NewCandidate(t)
Grown(s, t, a, k) ==
  /\ Len(a) = Len(s) /\ \A i \in DOMAIN s \ {k} : a[i] = s[i]
  /\ a[k] = [s[k] EXCEPT !.triggers = s[k].triggers \union {t}] /\ Fits(s[k], t)

LEMMA AddedTrigger ==
  ASSUME NEW s \in Seq(Candidate), NEW t \in Times,
         \A i \in DOMAIN s : \A u \in s[i].triggers : u < t
  PROVE  /\ AddTrigger(s, t) \in Seq(Candidate)
         /\ \/ Opened(s, t, AddTrigger(s, t))
            \/ \E k \in DOMAIN s : Grown(s, t, AddTrigger(s, t), k)
<1>1. ~\E i \in DOMAIN s : t \in s[i].triggers
  <2> SUFFICES ASSUME NEW i \in DOMAIN s, t \in s[i].triggers PROVE FALSE
    OBVIOUS
  <2>1. t < t
    OBVIOUS
  <2>2. QED BY <2>1, Constants DEF Times
<1>2. PICK fitting : fitting = {i \in DOMAIN s : Fits(s[i], t)}
  OBVIOUS
<1>3. CASE fitting = {}
  <2>1. AddTrigger(s, t) = Append(s, NewCandidate(t))
    BY <1>1, <1>2, <1>3 DEF AddTrigger
  <2>2. NewCandidate(t) \in Candidate
    BY NewOne
  <2>3. Opened(s, t, Append(s, NewCandidate(t))) /\ Append(s, NewCandidate(t)) \in Seq(Candidate)
    <3>1. PICK c \in Candidate : c = NewCandidate(t)
      BY <2>2
    <3>2. /\ Append(s, c) \in Seq(Candidate) /\ Len(Append(s, c)) = Len(s) + 1
          /\ \A i \in 1..Len(s) : Append(s, c)[i] = s[i]
          /\ Append(s, c)[Len(s) + 1] = c
      OBVIOUS
    <3>3. DOMAIN s = 1..Len(s) /\ \A i \in DOMAIN s : ~Fits(s[i], t)
      BY <1>2, <1>3
    <3>4. QED BY <3>1, <3>2, <3>3 DEF Opened
  <2>4. QED BY <2>1, <2>3
<1>4. CASE fitting # {}
  <2>1. fitting \in SUBSET (0..Len(s)) /\ Len(s) \in Nat
    BY <1>2
  <2>2. PICK k \in fitting : k = Latest(fitting)
    BY <1>4, <2>1, LatestOf
  <2>3. k \in DOMAIN s /\ Fits(s[k], t) /\ s[k] \in Candidate
    BY <1>2, <2>2
  <2>4. PICK d : d = [s[k] EXCEPT !.triggers = s[k].triggers \union {t}]
    OBVIOUS
  <2>5. d \in Candidate
    <3>1. s[k].triggers \union {t} \in (SUBSET Times) \ {{}}
      BY <2>3, Triggers
    <3>2. QED BY <2>3, <2>4, <3>1 DEF Candidate
  <2>6. AddTrigger(s, t) = [s EXCEPT ![k] = d]
    BY <1>1, <1>2, <1>4, <2>2, <2>4 DEF AddTrigger
  <2>7. PICK a : a = [s EXCEPT ![k] = d]
    OBVIOUS
  <2>8. a \in Seq(Candidate) /\ Len(a) = Len(s) /\ a[k] = d /\ \A i \in DOMAIN s \ {k} : a[i] = s[i]
    BY <2>3, <2>5, <2>7
  <2>9. Grown(s, t, a, k)
    BY <2>3, <2>4, <2>8 DEF Grown
  <2>10. QED BY <2>3, <2>6, <2>7, <2>8, <2>9
<1>5. QED BY <1>3, <1>4

\* The two halves of MergedAsConfigured: of one candidate, and of two.
Short(c) ==
  /\ LastTrigger(c) + After - (FirstTrigger(c) - Before) <= MaxWindow
  /\ \A t \in c.triggers \ {FirstTrigger(c)} : \E u \in c.triggers : t - u \in 1..MergeGap
Separate(c, d) ==
  /\ c.triggers \intersect d.triggers = {}
  /\ FirstTrigger(d) - LastTrigger(c) \in 1..MergeGap =>
       \/ c.review # "pending"
       \/ FirstTrigger(d) + After - (FirstTrigger(c) - Before) > MaxWindow

LEMMA MergedParts ==
  ASSUME NEW s
  PROVE  Merged(s) <=> \A i \in DOMAIN s : Short(s[i]) /\ \A j \in DOMAIN s \ {i} : Separate(s[i], s[j])
BY DEF Merged, Short, Separate

\* A trigger after all others keeps the candidates merged as configured.
LEMMA StillMerged ==
  ASSUME NEW s \in Seq(Candidate), NEW t \in Times, Merged(s),
         \A i \in DOMAIN s : \A u \in s[i].triggers : u < t,
         NEW a \in Seq(Candidate), Opened(s, t, a) \/ \E k \in DOMAIN s : Grown(s, t, a, k)
  PROVE  Merged(a)
<1>1. \A i \in DOMAIN s : Short(s[i]) /\ \A j \in DOMAIN s \ {i} : Separate(s[i], s[j])
  BY MergedParts
<1>2. t \in Int /\ Before \in Nat /\ After \in Nat /\ Before + After <= MaxWindow
      /\ MergeGap \in Nat /\ MaxWindow \in Nat
  BY Constants DEF Times
<1>3. \A i \in DOMAIN s :
        /\ s[i] \in Candidate /\ t \notin s[i].triggers
        /\ FirstTrigger(s[i]) < t /\ LastTrigger(s[i]) < t
        /\ FirstTrigger(s[i]) \in Int /\ LastTrigger(s[i]) \in Int
  <2> TAKE i \in DOMAIN s
  <2>1. s[i] \in Candidate
    OBVIOUS
  <2>2. FirstTrigger(s[i]) \in s[i].triggers /\ LastTrigger(s[i]) \in s[i].triggers
        /\ FirstTrigger(s[i]) \in Times /\ LastTrigger(s[i]) \in Times
    BY <2>1, Triggers
  <2>3. t \notin s[i].triggers
    BY <1>2
  <2>4. QED BY <2>1, <2>2, <2>3, Constants DEF Times
<1>4. CASE Opened(s, t, a)
  <2>1. PICK n \in Nat : n = Len(s) /\ DOMAIN s = 1..n /\ DOMAIN a = 1..(n + 1)
    BY <1>4 DEF Opened
  <2>2. PICK c \in Candidate : /\ c = a[n + 1] /\ c.triggers = {t} /\ FirstTrigger(c) = t
                               /\ LastTrigger(c) = t
    BY <1>4, <2>1, NewOne DEF Opened
  <2>3. \A i \in DOMAIN s : a[i] = s[i] /\ ~Fits(s[i], t)
    BY <1>4 DEF Opened
  <2>4. Short(c)
    BY <1>2, <2>2 DEF Short
  <2>5. ASSUME NEW i \in DOMAIN s PROVE Separate(c, s[i]) /\ Separate(s[i], c)
    <3>1. Separate(c, s[i])
      BY <1>2, <1>3, <2>2 DEF Separate
    <3>2. Separate(s[i], c)
      <4>1. s[i].triggers \intersect c.triggers = {}
        BY <1>3, <2>2
      <4>2. ASSUME t - LastTrigger(s[i]) \in 1..MergeGap, s[i].review = "pending"
            PROVE  t + After - (FirstTrigger(s[i]) - Before) > MaxWindow
        <5>1. ~((t + After) - (FirstTrigger(s[i]) - Before) <= MaxWindow)
          BY <2>3, <4>2 DEF Fits
        <5>2. FirstTrigger(s[i]) \in Int
          BY <1>3
        <5>3. QED BY <1>2, <5>1, <5>2
      <4>3. QED BY <2>2, <4>1, <4>2 DEF Separate
    <3>3. QED BY <3>1, <3>2
  <2>6. ASSUME NEW i \in DOMAIN a PROVE Short(a[i]) /\ \A j \in DOMAIN a \ {i} : Separate(a[i], a[j])
    <3>1. CASE i = n + 1
      <4>1. \A j \in DOMAIN a \ {i} : j \in DOMAIN s /\ a[j] = s[j]
        BY <2>1, <2>3, <3>1
      <4>2. QED BY <2>2, <2>4, <2>5, <3>1, <4>1
    <3>2. CASE i # n + 1
      <4>1. i \in DOMAIN s /\ a[i] = s[i]
        BY <2>1, <2>3, <3>2
      <4>2. \A j \in DOMAIN a \ {i} : j = n + 1 \/ (j \in DOMAIN s \ {i} /\ a[j] = s[j])
        BY <2>1, <2>3
      <4>3. QED BY <1>1, <2>2, <2>5, <4>1, <4>2
    <3>3. QED BY <3>1, <3>2
  <2>7. QED BY <2>6, MergedParts
<1>5. ASSUME NEW k \in DOMAIN s, Grown(s, t, a, k) PROVE Merged(a)
  <2>1. PICK c \in Candidate : c = s[k]
    OBVIOUS
  <2>2. DOMAIN a = DOMAIN s /\ \A i \in DOMAIN s \ {k} : a[i] = s[i]
    BY <1>5 DEF Grown
  <2>3. PICK d \in Candidate : d = a[k]
    BY <2>2
  <2>4. d.triggers = c.triggers \union {t} /\ d.review = c.review /\ Fits(c, t)
    BY <1>5, <2>1, <2>3 DEF Grown, Candidate
  <2>5. FirstTrigger(d) = FirstTrigger(c) /\ LastTrigger(d) = t
    BY <2>1, <2>4, Extended1
  <2>6. Short(d)
    <3>1. d.triggers \ {FirstTrigger(d)} \subseteq (c.triggers \ {FirstTrigger(c)}) \union {t}
      BY <2>4, <2>5
    <3>2. LastTrigger(c) \in d.triggers /\ t - LastTrigger(c) \in 1..MergeGap
      BY <2>1, <2>4, Triggers DEF Fits
    <3>3. \A v \in c.triggers \ {FirstTrigger(c)} : \E u \in d.triggers : v - u \in 1..MergeGap
      BY <1>1, <2>1, <2>4 DEF Short
    <3>4. LastTrigger(d) + After - (FirstTrigger(d) - Before) <= MaxWindow
      <4>1. (t + After) - (FirstTrigger(c) - Before) <= MaxWindow
        BY <2>4 DEF Fits
      <4>2. FirstTrigger(c) \in Int
        BY <1>3, <2>1
      <4>3. QED BY <1>2, <2>5, <4>1, <4>2
    <3>5. QED BY <3>1, <3>2, <3>3, <3>4 DEF Short
  <2>7. ASSUME NEW i \in DOMAIN s \ {k} PROVE Separate(d, s[i]) /\ Separate(s[i], d)
    <3>1. Separate(c, s[i]) /\ Separate(s[i], c)
      BY <1>1, <2>1
    <3>2. Separate(d, s[i])
      BY <1>2, <1>3, <2>4, <2>5, <3>1 DEF Separate
    <3>3. Separate(s[i], d)
      BY <1>3, <2>4, <2>5, <3>1 DEF Separate
    <3>4. QED BY <3>2, <3>3
  <2>8. ASSUME NEW i \in DOMAIN a PROVE Short(a[i]) /\ \A j \in DOMAIN a \ {i} : Separate(a[i], a[j])
    <3>1. CASE i = k
      BY <2>2, <2>3, <2>6, <2>7, <3>1
    <3>2. CASE i # k
      BY <1>1, <2>2, <2>3, <2>7, <3>2
    <3>3. QED BY <3>1, <3>2
  <2>9. QED BY <2>8, MergedParts
<1>6. QED BY <1>4, <1>5

\* What else a trigger does: it is counted, and each candidate stays what it is but for
\* a trigger after its last one.
TriggersOnly(c, d) ==
  /\ d = [c EXCEPT !.triggers = d.triggers] /\ c.triggers \subseteq d.triggers
  /\ FirstTrigger(d) = FirstTrigger(c) /\ LastTrigger(c) <= LastTrigger(d)
  /\ c.review # "pending" => d.triggers = c.triggers

LEMMA AddedToOthers ==
  ASSUME NEW s \in Seq(Candidate), NEW t \in Times,
         \A i \in DOMAIN s : \A u \in s[i].triggers : u < t,
         NEW a \in Seq(Candidate), Opened(s, t, a) \/ \E k \in DOMAIN s : Grown(s, t, a, k)
  PROVE  /\ Counted(a) = Counted(s) \union {t}
         /\ Len(s) <= Len(a) /\ \A i \in DOMAIN s : TriggersOnly(s[i], a[i])
         /\ \A i \in DOMAIN a \ DOMAIN s : a[i] = NewCandidate(t)
<1>1. ASSUME NEW c \in Candidate PROVE TriggersOnly(c, c)
  <2>1. LastTrigger(c) <= LastTrigger(c)
    BY Triggers, Constants DEF Times
  <2>2. c = [c EXCEPT !.triggers = c.triggers]
    BY DEF Candidate
  <2>3. QED BY <2>1, <2>2 DEF TriggersOnly
<1>2. CASE Opened(s, t, a)
  <2>1. PICK n \in Nat : n = Len(s) /\ DOMAIN s = 1..n /\ DOMAIN a = 1..(n + 1)
    BY <1>2 DEF Opened
  <2>2. a[n + 1] = NewCandidate(t) /\ \A i \in DOMAIN s : a[i] = s[i] /\ s[i] \in Candidate
    BY <1>2, <2>1 DEF Opened
  <2>3. a[n + 1].triggers = {t}
    BY <2>2, NewOne
  <2>4. Counted(a) = Counted(s) \union {t}
    BY <2>1, <2>2, <2>3 DEF Counted
  <2>5. QED BY <1>1, <2>1, <2>2, <2>4
<1>3. ASSUME NEW k \in DOMAIN s, Grown(s, t, a, k)
      PROVE  /\ Counted(a) = Counted(s) \union {t}
             /\ Len(s) <= Len(a) /\ \A i \in DOMAIN s : TriggersOnly(s[i], a[i])
             /\ DOMAIN a = DOMAIN s
  <2>1. PICK c \in Candidate : c = s[k]
    OBVIOUS
  <2>2. Len(a) = Len(s) /\ DOMAIN a = DOMAIN s
        /\ \A i \in DOMAIN s \ {k} : a[i] = s[i] /\ s[i] \in Candidate
    BY <1>3 DEF Grown
  <2>3. PICK d \in Candidate : d = a[k]
    BY <2>2
  <2>4. /\ d = [c EXCEPT !.triggers = c.triggers \union {t}] /\ d.triggers = c.triggers \union {t}
        /\ c.review = "pending"
    BY <1>3, <2>1, <2>3 DEF Grown, Candidate, Fits
  <2>5. FirstTrigger(d) = FirstTrigger(c) /\ LastTrigger(d) = t
    <3>1. \A u \in c.triggers : u < t
      BY <2>1
    <3>2. QED BY <2>4, <3>1, Extended1
  <2>6. LastTrigger(c) <= LastTrigger(d)
    <3>1. LastTrigger(c) \in c.triggers /\ LastTrigger(c) \in Times
      BY Triggers
    <3>2. LastTrigger(c) < t
      BY <2>1, <3>1
    <3>3. QED BY <2>5, <3>1, <3>2, Constants DEF Times
  <2>7. TriggersOnly(c, d)
    BY <2>4, <2>5, <2>6 DEF TriggersOnly
  <2>8. Counted(a) = Counted(s) \union {t}
    <3>1. \A i \in DOMAIN s : i # k => a[i].triggers = s[i].triggers
      BY <2>2
    <3>2. a[k].triggers = s[k].triggers \union {t}
      BY <2>1, <2>3, <2>4
    <3>3. \A u : u \in Counted(a) <=> u \in Counted(s) \union {t}
      BY <2>2, <3>1, <3>2 DEF Counted
    <3>4. QED BY <3>3
  <2>9. QED BY <1>1, <2>1, <2>2, <2>3, <2>7, <2>8
<1>4. QED BY <1>2, <1>3

(***************************************************************************)
(* One candidate of a run                                                  *)
(***************************************************************************)
\* The parts of a state that has its type.
LEMMA Typed ==
  ASSUME TypeOK
  PROVE  /\ now \in Times /\ now \in Nat /\ published \subseteq Times /\ History \subseteq Times
         /\ missed \subseteq published /\ storm \subseteq Times /\ storm \in Storms
         /\ catalog.candidates \in Seq(Candidate) /\ catalog.cursor \in Times \union {NoTime}
         /\ catalog.cursor \in Int /\ NoTime <= catalog.cursor
         /\ files \in [Times -> Files]
         /\ run \in Runs /\ run.work \in Seq(Candidate) /\ run.i \in Nat
         /\ run.cursor \in Times \union {NoTime} /\ run.cursor \in Int
         /\ run.history \subseteq Times /\ run.triggers \subseteq Times
         /\ run.collected \subseteq Times
         /\ faults \in [FaultKinds -> 0..MaxFaults]
<1>1. now \in Times /\ now \in Nat /\ published \subseteq Times
  BY Constants DEF TypeOK, Times
<1>2. History \subseteq Times
  BY <1>1 DEF History
<1>3. catalog.cursor \in Times \union {NoTime} /\ run.cursor \in Times \union {NoTime}
  BY DEF TypeOK, Runs
<1>4. catalog.cursor \in Int /\ NoTime <= catalog.cursor /\ run.cursor \in Int
  BY <1>3, Constants DEF Times, NoTime
<1>5. storm \subseteq Times
  <2>1. storm \subseteq Before..(MaxTime - After)
    BY DiscoveryAssumption DEF TypeOK
  <2>2. QED BY <2>1, Constants DEF Times
<1>6. QED BY <1>1, <1>2, <1>3, <1>4, <1>5 DEF TypeOK, Runs

\* Markers, times and strings are different things.
LEMMA Distinct ==
  /\ Absent # Damaged /\ \A T \in SUBSET Times : T # Absent /\ T # Damaged
  /\ Absent \notin {"frame", "context", "ok", "stale"}
  /\ Damaged \notin {"frame", "context", "ok", "stale"}
BY DiscoveryAssumption

LEMMA SameWindow ==
  ASSUME NEW c, NEW d, c.triggers = d.triggers
  PROVE  /\ Window(c) = Window(d) /\ FirstTrigger(c) = FirstTrigger(d)
         /\ LastTrigger(c) = LastTrigger(d)
BY DEF Window, FirstTrigger, LastTrigger

\* A complete candidate has a collection.
LEMMA CompleteCollected ==
  ASSUME NEW c \in Candidate, Collects(c), Complete(c)
  PROVE  c.frames = Window(c) /\ c.collection = c.frames /\ c.collection # Absent
<1>1. c.frames \in SUBSET Times /\ c.frames # {}
  BY WindowHolds DEF Candidate, Complete
<1>2. QED BY <1>1, Distinct DEF Collects, Complete

\* What the invariant says of one candidate d of a run, which was c when the run began:
\* disk are its files, times the frames collected for it and at how far the run is with it.
Stands(c, d, disk, times, at) ==
  /\ Extends(c, d) /\ Collects(d)
  /\ at = "plan" => d.evidence = c.evidence
  /\ at # "capture" => d.frames = c.frames /\ d.collection = c.collection
  /\ \A t \in Times : disk.evidence[t] = Damaged => at = "plan" /\ c.evidence[t] \in {"ok", "stale"}
  /\ at \in {"download", "collect"} => times \subseteq Window(d)
  /\ Undamaged =>
       /\ \A t \in Times : disk.frames[t] # Damaged
       /\ Preserved(c, disk) /\ Intact(d, disk)
       /\ \A t \in Times : c.evidence[t] = "ok" => d.evidence[t] = "ok"
       /\ at = "capture" => /\ disk.plan = d.plan
                            /\ d.collection # Absent => disk.collection = d.collection
       /\ Reviewed(d) => Complete(d)
       /\ at \in {"download", "collect"} => Gathered(d, disk, times)
  /\ Uninterrupted =>
       /\ at # "capture" => Vouched(c, disk)
       /\ c.frames \subseteq d.frames
       /\ at \in {"download", "collect"} => c.frames \subseteq times

\* The plan: evidence that is not what the catalog names is unlinked.
Mismatched(d, disk) == {t \in Times : ~EvidenceMatches(d, disk, t)}
PlannedCandidate(d, corrupt) ==
  [d EXCEPT !.evidence = [t \in Times |-> IF t \in corrupt THEN "error" ELSE d.evidence[t]]]
PlannedFiles(disk, plan, corrupt) ==
  [disk EXCEPT !.plan = plan,
     !.evidence = [t \in Times |-> IF t \in corrupt THEN Absent ELSE disk.evidence[t]]]

LEMMA PlannedTyped ==
  ASSUME NEW d \in Candidate, NEW disk \in Files, NEW plan \in Content, NEW corrupt
  PROVE  PlannedCandidate(d, corrupt) \in Candidate /\ PlannedFiles(disk, plan, corrupt) \in Files
<1>1. [t \in Times |-> IF t \in corrupt THEN "error" ELSE d.evidence[t]] \in [Times -> Capture]
  BY DEF Capture, Candidate
<1>2. [t \in Times |-> IF t \in corrupt THEN Absent ELSE disk.evidence[t]]
        \in [Times -> {"ok", "stale", Absent, Damaged}]
  BY DEF Files
<1>3. QED BY <1>1, <1>2 DEF PlannedCandidate, PlannedFiles, Candidate, Files

LEMMA StandsPlanned ==
  ASSUME NEW c \in Candidate, NEW d \in Candidate, NEW disk \in Files, NEW old, NEW times,
         Stands(c, d, disk, old, "plan"),
         NEW corrupt, corrupt = Mismatched(d, disk), NEW plan \in Content,
         NEW e \in Candidate, NEW new \in Files,
         e = PlannedCandidate(d, corrupt), new = PlannedFiles(disk, plan, corrupt)
  PROVE  Stands(c, e, new, times, "validate")
<1>1. /\ e.triggers = d.triggers /\ e.frames = d.frames /\ e.collection = d.collection
      /\ e.review = d.review /\ e.context = d.context
      /\ \A t \in Times : e.evidence[t] = IF t \in corrupt THEN "error" ELSE d.evidence[t]
  BY DEF Candidate, PlannedCandidate
<1>2. /\ new.collection = disk.collection /\ new.frames = disk.frames
      /\ new.context = disk.context
      /\ \A t \in Times : new.evidence[t] = IF t \in corrupt THEN Absent ELSE disk.evidence[t]
  BY DEF Files, PlannedFiles
<1>3. Window(e) = Window(d) /\ FirstTrigger(e) = FirstTrigger(d)
  BY <1>1, SameWindow
<1>4. Extends(c, e) /\ Collects(e)
  BY <1>1, <1>3 DEF Stands, Extends, Collects
<1>5. ASSUME NEW t \in Times PROVE new.evidence[t] # Damaged
  <2>1. CASE disk.evidence[t] = Damaged
    <3>1. d.evidence[t] \in {"ok", "stale"}
      BY <2>1 DEF Stands
    <3>2. t \in corrupt
      BY <2>1, <3>1, Distinct DEF EvidenceMatches, Mismatched
    <3>3. QED BY <1>2, <3>2, Distinct
  <2>2. CASE disk.evidence[t] # Damaged
    BY <1>2, <2>2, Distinct
  <2>3. QED BY <2>1, <2>2
<1>6. ASSUME Undamaged
      PROVE  /\ Preserved(c, new) /\ Intact(e, new)
             /\ \A t \in Times : c.evidence[t] = "ok" => e.evidence[t] = "ok"
  <2>1. \A t \in Times : EvidenceMatches(d, disk, t)
    BY <1>6 DEF Stands, Intact
  <2>2. \A t \in Times : e.evidence[t] = d.evidence[t] /\ new.evidence[t] = disk.evidence[t]
    BY <1>1, <1>2, <2>1 DEF Mismatched
  <2>3. Preserved(c, new)
    BY <1>2, <1>6, <2>2 DEF Stands, Preserved, Intact, EvidenceMatches
  <2>4. Intact(e, new)
    BY <1>1, <1>2, <1>6, <2>2 DEF Stands, Intact, EvidenceMatches
  <2>5. QED BY <1>6, <2>2, <2>3, <2>4 DEF Stands
<1>7. Undamaged => (Reviewed(e) => Complete(e))
  BY <1>1, <1>3 DEF Stands, Reviewed, Complete
<1>8. Uninterrupted => Vouched(c, new) /\ c.frames \subseteq e.frames
  BY <1>1, <1>2 DEF Stands, Vouched
<1>9. QED BY <1>1, <1>2, <1>4, <1>5, <1>6, <1>7, <1>8 DEF Stands

\* The frames and the collection that the catalog vouches for are what earlier runs have
\* collected.
InCatalog(d, disk) == d.collection # Absent /\ disk.collection = d.collection
IntactFrames(d, disk) == {t \in d.frames : disk.frames[t] = "frame"}
ValidatedFiles(d, disk) ==
  [disk EXCEPT
     !.collection = IF d.collection # Absent /\ ~InCatalog(d, disk) THEN Absent
                    ELSE disk.collection,
     !.frames = [t \in Times |-> IF t \in d.frames \ IntactFrames(d, disk) THEN Absent
                                 ELSE disk.frames[t]]]
Validated(d, disk) ==
  IF InCatalog(d, disk) THEN d.collection \intersect IntactFrames(d, disk) ELSE {}

LEMMA ValidatedTyped ==
  ASSUME NEW d \in Candidate, NEW disk \in Files
  PROVE  ValidatedFiles(d, disk) \in Files /\ Validated(d, disk) \in SUBSET Times
<1>1. [t \in Times |-> IF t \in d.frames \ IntactFrames(d, disk) THEN Absent ELSE disk.frames[t]]
        \in [Times -> {"frame", Absent, Damaged}]
  BY DEF Files
<1>2. Absent \in Content \union {Damaged} /\ disk.collection \in Content \union {Damaged}
  BY DEF Files, Content
<1>3. Validated(d, disk) \in SUBSET Times
  BY DEF Validated, InCatalog, IntactFrames, Candidate, Content
<1>4. QED BY <1>1, <1>2, <1>3 DEF ValidatedFiles, Files

LEMMA StandsValidated ==
  ASSUME NEW c \in Candidate, NEW d \in Candidate, NEW disk \in Files, NEW old,
         Stands(c, d, disk, old, "validate"),
         NEW new \in Files, new = ValidatedFiles(d, disk), NEW times, times = Validated(d, disk)
  PROVE  Stands(c, d, new, times, "download")
<1> DEFINE vouched == InCatalog(d, disk)
           intact == IntactFrames(d, disk)
<1>1. /\ new.evidence = disk.evidence /\ new.context = disk.context
      /\ new.collection = IF d.collection # Absent /\ ~vouched THEN Absent ELSE disk.collection
      /\ \A t \in Times : new.frames[t] = IF t \in d.frames \ intact THEN Absent ELSE disk.frames[t]
  BY DEF Files, ValidatedFiles
<1>2. d.frames \subseteq Times /\ c.frames \subseteq Times /\ d.frames \subseteq Window(d)
  BY DEF Candidate, Stands, Collects
<1>3. vouched => d.collection = d.frames
  BY DEF Stands, Collects, InCatalog
<1>4. times \subseteq Window(d) /\ times \subseteq d.frames /\ times \subseteq intact
  BY <1>2, <1>3 DEF Validated, IntactFrames
<1>5. ASSUME Undamaged
      PROVE  /\ \A t \in Times : new.frames[t] # Damaged
             /\ Preserved(c, new) /\ Intact(d, new)
             /\ Gathered(d, new, times)
  <2>1. intact = d.frames
    BY <1>5 DEF Stands, Intact, IntactFrames
  <2>2. \A t \in Times : new.frames[t] = disk.frames[t] /\ disk.frames[t] # Damaged
    BY <1>1, <1>5, <2>1 DEF Stands
  <2>3. Intact(d, new)
    BY <1>1, <1>2, <1>5, <2>2 DEF Stands, Intact, EvidenceMatches
  <2>4. Preserved(c, new)
    <3>1. Intact(c, new)
      BY <1>1, <1>2, <1>5, <2>2 DEF Stands, Preserved, Intact, EvidenceMatches
    <3>2. Reviewed(c) => disk.collection = c.collection /\ d.collection = c.collection
      BY <1>5 DEF Stands, Preserved
    <3>3. QED BY <1>1, <3>1, <3>2 DEF Preserved, InCatalog
  <2>5. Gathered(d, new, times)
    <3>1. ASSUME Reviewed(d) PROVE Window(d) \subseteq times
      <4>1. Complete(d) /\ Collects(d)
        BY <1>5, <3>1 DEF Stands
      <4>2. d.frames = Window(d) /\ d.collection = d.frames /\ d.collection # Absent
        BY <4>1, CompleteCollected
      <4>3. disk.collection = d.collection
        BY <1>5, <3>1 DEF Stands, Preserved, Extends, Reviewed
      <4>4. QED BY <2>1, <4>2, <4>3 DEF Validated, InCatalog
    <3>2. \A t \in times : new.frames[t] = "frame"
      BY <1>2, <1>4, <2>2 DEF IntactFrames
    <3>3. QED BY <3>1, <3>2 DEF Gathered
  <2>6. QED BY <2>2, <2>3, <2>4, <2>5
<1>6. ASSUME Uninterrupted
      PROVE  Vouched(c, new) /\ c.frames \subseteq d.frames /\ c.frames \subseteq times
  <2>1. Undamaged /\ d.collection = c.collection /\ d.frames = c.frames
    BY <1>6 DEF Stands, Uninterrupted
  <2>2. c.collection # Absent => vouched
    BY <1>6, <2>1 DEF Stands, Vouched, InCatalog
  <2>3. c.frames # {} => c.collection # Absent
    BY <1>2, <2>1, Distinct DEF Stands, Collects
  <2>4. intact = d.frames
    BY <2>1 DEF Stands, Intact, IntactFrames
  <2>5. c.frames \subseteq times
    BY <1>3, <2>1, <2>2, <2>3, <2>4 DEF Validated
  <2>6. QED BY <1>1, <2>1, <2>2, <2>5 DEF Vouched, InCatalog
<1>7. QED BY <1>1, <1>4, <1>5, <1>6 DEF Stands

\* The frames of now are added.
DownloadedFiles(disk, current) ==
  [disk EXCEPT !.frames =
     [t \in Times |-> IF t \in current /\ disk.frames[t] = Absent THEN "frame" ELSE disk.frames[t]]]

LEMMA DownloadedTyped ==
  ASSUME NEW disk \in Files, NEW current PROVE DownloadedFiles(disk, current) \in Files
<1>1. [t \in Times |-> IF t \in current /\ disk.frames[t] = Absent THEN "frame" ELSE disk.frames[t]]
        \in [Times -> {"frame", Absent, Damaged}]
  BY DEF Files
<1>2. QED BY <1>1 DEF DownloadedFiles, Files

LEMMA StandsDownloaded ==
  ASSUME NEW c \in Candidate, NEW d \in Candidate, NEW disk \in Files, NEW old, NEW times,
         Stands(c, d, disk, old, "download"), old \subseteq Times,
         NEW current, current \subseteq Window(d), current \subseteq Times,
         NEW new \in Files, new = DownloadedFiles(disk, current),
         times = old \union current
  PROVE  Stands(c, d, new, times, "collect")
<1>1. /\ new.evidence = disk.evidence /\ new.context = disk.context
      /\ new.collection = disk.collection
      /\ \A t \in Times : new.frames[t] = IF t \in current /\ disk.frames[t] = Absent THEN "frame"
                                          ELSE disk.frames[t]
  BY DEF Files, DownloadedFiles
<1>2. \A t \in Times : disk.frames[t] \in {"frame", Absent, Damaged}
  BY DEF Files
<1>3. times \subseteq Window(d)
  BY DEF Stands
<1>4. c.frames \subseteq Times /\ d.frames \subseteq Times
  BY DEF Candidate
<1>5. \A t \in Times : disk.frames[t] = "frame" => new.frames[t] = "frame"
  BY <1>1
<1>6. ASSUME Undamaged
      PROVE  /\ \A t \in Times : new.frames[t] # Damaged
             /\ Preserved(c, new) /\ Intact(d, new) /\ Gathered(d, new, times)
  <2>1. \A t \in Times : disk.frames[t] # Damaged
    BY <1>6 DEF Stands
  <2>2. \A t \in Times : new.frames[t] # Damaged
    BY <1>1, <2>1, Distinct
  <2>3. Intact(d, new)
    BY <1>1, <1>4, <1>5, <1>6 DEF Stands, Intact, EvidenceMatches
  <2>4. Preserved(c, new)
    BY <1>1, <1>4, <1>5, <1>6 DEF Stands, Preserved, Intact, EvidenceMatches
  <2>5. Gathered(d, disk, old)
    BY <1>6 DEF Stands
  <2>6. \A t \in current : new.frames[t] = "frame"
    BY <1>1, <1>2, <2>1
  <2>7. QED BY <1>5, <2>2, <2>3, <2>4, <2>5, <2>6 DEF Gathered
<1>7. Uninterrupted => Vouched(c, new) /\ c.frames \subseteq times
  BY <1>1 DEF Stands, Vouched
<1>8. QED BY <1>1, <1>3, <1>6, <1>7 DEF Stands

\* The collection is written, and the candidate has its artifacts.
WrittenCandidate(d, disk, old) ==
  [d EXCEPT !.plan = disk.plan, !.collection = IF old = {} THEN Absent ELSE old,
            !.frames = old \intersect Window(d)]
WrittenFiles(disk, old) == [disk EXCEPT !.collection = IF old = {} THEN disk.collection ELSE old]

LEMMA WrittenTyped ==
  ASSUME NEW d \in Candidate, NEW disk \in Files, NEW old \in SUBSET Times
  PROVE  WrittenCandidate(d, disk, old) \in Candidate /\ WrittenFiles(disk, old) \in Files
BY DEF WrittenCandidate, WrittenFiles, Candidate, Files, Content

LEMMA StandsWritten ==
  ASSUME NEW c \in Candidate, NEW d \in Candidate, NEW disk \in Files,
         NEW old \in SUBSET Times, NEW times,
         Stands(c, d, disk, old, "collect"),
         NEW e \in Candidate, NEW new \in Files,
         e = WrittenCandidate(d, disk, old), new = WrittenFiles(disk, old)
  PROVE  Stands(c, e, new, times, "capture")
<1>1. /\ e.triggers = d.triggers /\ e.evidence = d.evidence
      /\ e.review = d.review /\ e.context = d.context /\ e.plan = disk.plan
      /\ e.collection = IF old = {} THEN Absent ELSE old
      /\ e.frames = old \intersect Window(d)
  BY DEF Candidate, WrittenCandidate
<1>2. /\ new.evidence = disk.evidence /\ new.frames = disk.frames
      /\ new.context = disk.context /\ new.plan = disk.plan
      /\ new.collection = IF old = {} THEN disk.collection ELSE old
  BY DEF Files, WrittenFiles
<1>3. Window(e) = Window(d) /\ FirstTrigger(e) = FirstTrigger(d)
  BY <1>1, SameWindow
<1>4. e.frames = old
  BY <1>1 DEF Stands
<1>5. Extends(c, e) /\ Collects(e)
  BY <1>1, <1>3, <1>4 DEF Stands, Extends, Collects
<1>6. ASSUME Undamaged
      PROVE  /\ Preserved(c, new) /\ Intact(e, new)
             /\ e.collection # Absent => new.collection = e.collection
             /\ Reviewed(e) => Complete(e)
  <2>1. Gathered(d, disk, old) /\ Intact(d, disk) /\ Preserved(c, disk)
    BY <1>6 DEF Stands
  <2>2. Intact(e, new)
    BY <1>1, <1>2, <1>4, <2>1 DEF Intact, Gathered, EvidenceMatches
  <2>3. Intact(c, new)
    BY <1>2, <2>1 DEF Preserved, Intact, EvidenceMatches
  <2>4. Reviewed(e) => Complete(e)
    BY <1>1, <1>3, <1>4, <2>1 DEF Gathered, Reviewed, Complete
  <2>5. ASSUME Reviewed(c) PROVE new.collection = c.collection
    <3>1. Reviewed(d) /\ d.collection = c.collection /\ Collects(d)
      BY <2>5 DEF Stands, Extends, Reviewed
    <3>2. Complete(d)
      BY <1>6, <3>1 DEF Stands
    <3>3. d.frames = Window(d) /\ d.collection = d.frames
      BY <3>1, <3>2, CompleteCollected
    <3>4. old = Window(d)
      BY <2>1, <3>1 DEF Gathered, Stands
    <3>5. old # {}
      BY <3>4, WindowHolds
    <3>6. QED BY <1>2, <3>1, <3>3, <3>4, <3>5
  <2>6. QED BY <1>1, <1>2, <2>2, <2>3, <2>4, <2>5 DEF Preserved
<1>7. Uninterrupted => c.frames \subseteq e.frames
  BY <1>4 DEF Stands
<1>8. QED BY <1>1, <1>2, <1>5, <1>6, <1>7 DEF Stands

\* The evidence is captured: what is there is used, what is not comes late or not at all.
CapturedCandidate(d, targets, failed, had) ==
  [d EXCEPT !.evidence =
     [t \in Times |-> IF t \in failed THEN "error"
                      ELSE IF t \in targets THEN had[t] ELSE d.evidence[t]]]
CapturedFiles(disk, targets, failed, had) ==
  [disk EXCEPT !.evidence =
     [t \in Times |-> IF t \in targets \ failed THEN had[t] ELSE disk.evidence[t]]]

LEMMA CapturedTyped ==
  ASSUME NEW d \in Candidate, NEW disk \in Files, NEW targets, NEW failed,
         NEW had, \A t \in targets : had[t] \in {"ok", "stale"}
  PROVE  /\ CapturedCandidate(d, targets, failed, had) \in Candidate
         /\ CapturedFiles(disk, targets, failed, had) \in Files
<1>1. [t \in Times |-> IF t \in failed THEN "error"
                       ELSE IF t \in targets THEN had[t] ELSE d.evidence[t]] \in [Times -> Capture]
  BY DEF Candidate, Capture
<1>2. [t \in Times |-> IF t \in targets \ failed THEN had[t] ELSE disk.evidence[t]]
        \in [Times -> {"ok", "stale", Absent, Damaged}]
  BY DEF Files
<1>3. QED BY <1>1, <1>2 DEF CapturedCandidate, CapturedFiles, Candidate, Files

LEMMA StandsCaptured ==
  ASSUME NEW c \in Candidate, NEW d \in Candidate, NEW disk \in Files, NEW times, NEW old,
         Stands(c, d, disk, old, "capture"),
         NEW failed, NEW targets,
         failed \subseteq targets,
         \A t \in targets : d.evidence[t] = "error" \/ d.evidence[t] = "none",
         NEW had, \A t \in targets : /\ had[t] \in {"ok", "stale"}
                                     /\ disk.evidence[t] # Absent => had[t] = disk.evidence[t],
         NEW e \in Candidate, NEW new \in Files,
         e = CapturedCandidate(d, targets, failed, had),
         new = CapturedFiles(disk, targets, failed, had)
  PROVE  Stands(c, e, new, times, "capture")
<1>1. /\ e.triggers = d.triggers /\ e.frames = d.frames /\ e.collection = d.collection
      /\ e.review = d.review /\ e.context = d.context /\ e.plan = d.plan
      /\ \A t \in Times : e.evidence[t] = IF t \in failed THEN "error"
                            ELSE IF t \in targets THEN had[t] ELSE d.evidence[t]
  BY DEF Candidate, CapturedCandidate
<1>2. /\ new.collection = disk.collection /\ new.frames = disk.frames
      /\ new.context = disk.context /\ new.plan = disk.plan
      /\ \A t \in Times : new.evidence[t] = IF t \in targets \ failed THEN had[t]
                                            ELSE disk.evidence[t]
  BY DEF Files, CapturedFiles
<1>3. Window(e) = Window(d) /\ FirstTrigger(e) = FirstTrigger(d)
  BY <1>1, SameWindow
<1>4. Extends(c, e) /\ Collects(e)
  BY <1>1, <1>3 DEF Stands, Extends, Collects
<1>5. \A t \in Times : new.evidence[t] # Damaged
  BY <1>2, Distinct DEF Stands
<1>6. ASSUME Undamaged
      PROVE  /\ Preserved(c, new) /\ Intact(e, new)
             /\ \A t \in Times : c.evidence[t] = "ok" => e.evidence[t] = "ok"
             /\ Reviewed(e) => Complete(e)
  <2>1. Intact(d, disk) /\ Preserved(c, disk)
    BY <1>6 DEF Stands
  <2>2. ASSUME NEW t \in Times PROVE EvidenceMatches(e, new, t)
    <3>1. EvidenceMatches(d, disk, t)
      BY <2>1 DEF Intact
    <3>2. QED BY <1>1, <1>2, <3>1 DEF EvidenceMatches
  <2>3. ASSUME NEW t \in Times PROVE EvidenceMatches(c, new, t)
    <3>1. EvidenceMatches(c, disk, t)
      BY <2>1 DEF Preserved, Intact
    <3>2. c.evidence[t] \in {"ok", "stale"} => disk.evidence[t] # Absent
      BY <3>1, Distinct DEF EvidenceMatches
    <3>3. QED BY <1>2, <3>1, <3>2 DEF EvidenceMatches
  <2>4. Intact(e, new)
    BY <1>1, <1>2, <2>1, <2>2 DEF Intact
  <2>5. Preserved(c, new)
    BY <1>2, <2>1, <2>3 DEF Preserved, Intact
  <2>6. ASSUME NEW t \in Times, c.evidence[t] = "ok" PROVE e.evidence[t] = "ok"
    <3>1. d.evidence[t] = "ok"
      BY <1>6, <2>6 DEF Stands
    <3>2. t \notin targets
      BY <3>1
    <3>3. QED BY <1>1, <3>1, <3>2
  <2>7. Reviewed(e) => Complete(e)
    BY <1>1, <1>3, <1>6 DEF Stands, Reviewed, Complete
  <2>8. QED BY <2>4, <2>5, <2>6, <2>7
<1>7. QED BY <1>1, <1>2, <1>4, <1>5, <1>6 DEF Stands

(***************************************************************************)
(* The candidates of a run                                                 *)
(***************************************************************************)
LEMMA Originals ==
  ASSUME Safety, Running, NEW i \in DOMAIN run.work
  PROVE  /\ run.work[i] \in Candidate /\ FirstTrigger(run.work[i]) \in Times
         /\ files[FirstTrigger(run.work[i])] \in Files
         /\ Original(i) \in Candidate /\ FirstTrigger(Original(i)) = FirstTrigger(run.work[i])
         /\ Worked(Original(i), run.work[i], Planned(i), Written(i))
<1>1. run.work[i] \in Candidate /\ files \in [Times -> Files]
      /\ catalog.candidates \in Seq(Candidate)
  BY Typed DEF Safety
<1>2. FirstTrigger(run.work[i]) \in Times
  BY <1>1, Triggers
<1>3. Original(i) \in Candidate
  BY <1>1, <1>2, NewOne DEF Original
<1>4. Worked(Original(i), run.work[i], Planned(i), Written(i))
  BY DEF Safety, WorkInv
<1>5. FirstTrigger(Original(i)) = FirstTrigger(run.work[i])
  BY <1>4 DEF Worked, Extends
<1>6. QED BY <1>1, <1>2, <1>3, <1>4, <1>5

\* The candidates of the catalog are the first ones of the run.
LEMMA Catalogued ==
  ASSUME Safety, NEW i \in DOMAIN catalog.candidates
  PROVE  /\ catalog.candidates[i] \in Candidate
         /\ FirstTrigger(catalog.candidates[i]) \in Times
         /\ FirstTrigger(catalog.candidates[i]) \in catalog.candidates[i].triggers
         /\ files[FirstTrigger(catalog.candidates[i])] \in Files
         /\ Running => /\ i \in DOMAIN run.work /\ Original(i) = catalog.candidates[i]
                       /\ FirstTrigger(run.work[i]) = FirstTrigger(catalog.candidates[i])
<1>1. catalog.candidates[i] \in Candidate /\ files \in [Times -> Files]
  BY Typed DEF Safety
<1>2. /\ FirstTrigger(catalog.candidates[i]) \in Times
      /\ FirstTrigger(catalog.candidates[i]) \in catalog.candidates[i].triggers
  BY <1>1, Triggers
<1>3. ASSUME Running PROVE i \in DOMAIN run.work /\ Original(i) = catalog.candidates[i]
  <2>1. Len(catalog.candidates) <= Len(run.work)
    BY <1>3 DEF Safety, WorkInv
  <2>2. catalog.candidates \in Seq(Candidate) /\ run.work \in Seq(Candidate)
    BY Typed DEF Safety
  <2>3. QED BY <2>1, <2>2 DEF Original
<1>4. QED BY <1>1, <1>2, <1>3, Originals

\* The candidates of a run have files of their own.
LEMMA FilesApart ==
  ASSUME Safety, Running, NEW i \in DOMAIN run.work, NEW j \in DOMAIN run.work,
         FirstTrigger(run.work[i]) = FirstTrigger(run.work[j])
  PROVE  i = j
<1>1. run.work \in Seq(Candidate) /\ Merged(run.work)
  BY Typed DEF Safety, RunInv
<1>2. QED BY <1>1, Apart

\* Damaged evidence of a candidate of the run is of the catalog.
LEMMA DamageKnown ==
  ASSUME Safety, Running, NEW i \in DOMAIN run.work, NEW t \in Times,
         files[FirstTrigger(run.work[i])].evidence[t] = Damaged
  PROVE  ~Planned(i) /\ Original(i).evidence[t] \in {"ok", "stale"}
<1>1. FirstTrigger(run.work[i]) \in Times
  BY Originals
<1>2. Explained(FirstTrigger(run.work[i]), t)
  BY <1>1 DEF Safety, DamageInv
<1>3. PICK j \in DOMAIN catalog.candidates :
        /\ FirstTrigger(catalog.candidates[j]) = FirstTrigger(run.work[i])
        /\ catalog.candidates[j].evidence[t] \in {"ok", "stale"}
  BY <1>2 DEF Explained
<1>4. j = i /\ Original(j) = catalog.candidates[j]
  BY <1>3, Catalogued, FilesApart
<1>5. ~Planned(i)
  BY DEF Safety, DamageInv, Unlinked
<1>6. QED BY <1>3, <1>4, <1>5

\* A candidate that the catalog does not know has nothing to be preserved.
LEMMA NothingPreserved ==
  ASSUME NEW t, NEW disk
  PROVE  Preserved(NewCandidate(t), disk) /\ Vouched(NewCandidate(t), disk)
         /\ NewCandidate(t).frames = {} /\ Collects(NewCandidate(t))
         /\ Intact(NewCandidate(t), disk) /\ ~Reviewed(NewCandidate(t))
BY DEF NewCandidate, Preserved, Intact, EvidenceMatches, Reviewed, Vouched, Collects

LEMMA OriginalsPreserved ==
  ASSUME Safety, Running, NEW i \in DOMAIN run.work
  PROVE  /\ Undamaged => Preserved(Original(i), files[FirstTrigger(run.work[i])])
         /\ Uninterrupted /\ ~Written(i) => Vouched(Original(i), files[FirstTrigger(run.work[i])])
<1>1. CASE i \in DOMAIN catalog.candidates
  <2>1. /\ Original(i) = catalog.candidates[i]
        /\ FirstTrigger(run.work[i]) = FirstTrigger(catalog.candidates[i])
    BY <1>1, Catalogued
  <2>2. Undamaged => Preserved(catalog.candidates[i], files[FirstTrigger(catalog.candidates[i])])
    BY <1>1 DEF Safety, UndamagedInv
  <2>3. Uninterrupted /\ ~Written(i) =>
          Vouched(catalog.candidates[i], files[FirstTrigger(catalog.candidates[i])])
    BY <1>1 DEF Safety, FramesInv
  <2>4. QED BY <2>1, <2>2, <2>3
<1>2. CASE i \notin DOMAIN catalog.candidates
  BY <1>2, NothingPreserved DEF Original
<1>3. QED BY <1>1, <1>2

Stages == {"plan", "validate", "download", "collect", "capture"}

\* What the invariant says of the candidate the run is at.
LEMMA Focus ==
  ASSUME Safety, run.at \in Stages
  PROVE  /\ Running /\ run.i \in DOMAIN run.work /\ Subject \in Candidate
         /\ FirstTrigger(Subject) \in Times
         /\ Disk \in Files /\ Original(run.i) \in Candidate
         /\ Stands(Original(run.i), Subject, Disk, run.collected, run.at)
<1>1. Running /\ run.i \in DOMAIN run.work
  BY DEF Safety, RunInv, Running, Stages
<1>2. PICK i \in DOMAIN run.work : i = run.i
  BY <1>1
<1>3. Subject = run.work[i] /\ Disk = files[FirstTrigger(run.work[i])]
  BY <1>2 DEF Subject, Disk
<1>4. /\ run.work[i] \in Candidate /\ FirstTrigger(run.work[i]) \in Times
      /\ files[FirstTrigger(run.work[i])] \in Files /\ Original(i) \in Candidate
      /\ Worked(Original(i), run.work[i], Planned(i), Written(i))
  BY <1>1, Originals
<1>5. i \in Int
  BY <1>2, Typed DEF Safety
<1>6. (Planned(i) <=> run.at # "plan") /\ (Written(i) <=> run.at = "capture")
  BY <1>2, <1>5 DEF Planned, Written, Stages
<1>7. \A t \in Times : files[FirstTrigger(run.work[i])].evidence[t] = Damaged =>
                         run.at = "plan" /\ Original(i).evidence[t] \in {"ok", "stale"}
  BY <1>1, <1>6, DamageKnown
<1>8. run.at \in {"download", "collect"} => run.collected \subseteq Window(run.work[i])
  BY <1>3 DEF Safety, RunInv, Gathering
<1>9. ASSUME Undamaged
      PROVE  /\ \A t \in Times : files[FirstTrigger(run.work[i])].frames[t] # Damaged
             /\ Preserved(Original(i), files[FirstTrigger(run.work[i])])
             /\ Prepared(Original(i), run.work[i], files[FirstTrigger(run.work[i])], Written(i))
             /\ run.at \in {"download", "collect"} =>
                  Gathered(run.work[i], files[FirstTrigger(run.work[i])], run.collected)
  <2>1. Preserved(Original(i), files[FirstTrigger(run.work[i])])
    BY <1>1, <1>9, OriginalsPreserved
  <2>2. \A t \in Times : files[FirstTrigger(run.work[i])].frames[t] # Damaged
    BY <1>4, <1>9 DEF Safety, UndamagedInv
  <2>3. Prepared(Original(i), run.work[i], files[FirstTrigger(run.work[i])], Written(i))
    BY <1>1, <1>9 DEF Safety, UndamagedInv
  <2>4. Gathering => Gathered(Subject, Disk, run.collected)
    BY <1>9 DEF Safety, UndamagedInv
  <2>5. QED BY <1>3, <2>1, <2>2, <2>3, <2>4 DEF Gathering
<1>10. ASSUME Uninterrupted
       PROVE  /\ run.at # "capture" => Vouched(Original(i), files[FirstTrigger(run.work[i])])
              /\ Original(i).frames \subseteq run.work[i].frames
              /\ run.at \in {"download", "collect"} => Original(i).frames \subseteq run.collected
  BY <1>1, <1>2, <1>6, <1>10, OriginalsPreserved DEF Safety, FramesInv, Gathering
<1>11. Stands(Original(i), run.work[i], files[FirstTrigger(run.work[i])], run.collected, run.at)
  BY <1>4, <1>6, <1>7, <1>8, <1>9, <1>10 DEF Stands, Worked, Prepared
<1>12. QED BY <1>1, <1>2, <1>3, <1>4, <1>11

\* A step of the run changes the candidate it is at and the files of this one.
LEMMA CandidateStep ==
  ASSUME Safety, run.at \in Stages,
         NEW d \in Candidate, NEW disk \in Files, NEW stage \in Stages \ {"plan"},
         UNCHANGED <<storm, now, published, catalog, missed>>,
         faults' \in [FaultKinds -> 0..MaxFaults],
         faults'["damage"] = faults["damage"], faults'["abort"] = faults["abort"],
         d.triggers = Subject.triggers, d.review = Subject.review,
         files' = [files EXCEPT ![FirstTrigger(Subject)] = disk],
         run' \in Runs, run'.history = run.history, run'.cursor = run.cursor,
         run'.triggers = run.triggers,
         run'.work = [run.work EXCEPT ![run.i] = d],
         \/ run'.at = stage /\ run'.i = run.i
         \/ /\ stage = "capture" /\ run'.at = "plan"
            /\ run.i < Len(run.work) /\ run'.i = run.i + 1
         \/ /\ stage = "capture" /\ run'.at = "publish"
            /\ Len(run.work) <= run.i /\ run'.i = run.i,
         Stands(Original(run.i), d, disk, run'.collected, stage)
  PROVE  Safety'
<1>1. /\ Running /\ run.i \in DOMAIN run.work /\ Subject \in Candidate
      /\ FirstTrigger(Subject) \in Times /\ Original(run.i) \in Candidate
  BY Focus
<1>2. PICK i \in DOMAIN run.work : i = run.i
  BY <1>1
<1>3. PICK f \in Times : f = FirstTrigger(run.work[i])
  BY <1>1, <1>2 DEF Subject
<1>4. run.work[i] = Subject /\ run.work \in Seq(Candidate) /\ files \in [Times -> Files]
      /\ i \in Nat
  BY <1>2, Typed DEF Subject, Safety
<1>5. /\ DOMAIN run'.work = DOMAIN run.work /\ Len(run'.work) = Len(run.work)
      /\ run'.work[i] = d /\ run'.work \in Seq(Candidate)
      /\ \A j \in DOMAIN run.work \ {i} : run'.work[j] = run.work[j]
  BY <1>2, <1>4
<1>6. FirstTrigger(d) = f /\ LastTrigger(d) = LastTrigger(Subject) /\ Window(d) = Window(Subject)
  BY <1>3, <1>4, SameWindow
<1>7. /\ files'[f] = disk /\ files' \in [Times -> Files]
      /\ \A u \in Times \ {f} : files'[u] = files[u]
  BY <1>3, <1>4
<1>8. ASSUME NEW j \in DOMAIN run.work
      PROVE  /\ run.work[j] \in Candidate /\ FirstTrigger(run.work[j]) \in Times
             /\ FirstTrigger(run'.work[j]) = FirstTrigger(run.work[j])
             /\ Original(j)' = Original(j)
             /\ j # i => files'[FirstTrigger(run.work[j])] = files[FirstTrigger(run.work[j])]
  <2>1. run.work[j] \in Candidate /\ FirstTrigger(run.work[j]) \in Times
    BY <1>1, Originals
  <2>2. FirstTrigger(run'.work[j]) = FirstTrigger(run.work[j])
    BY <1>3, <1>5, <1>6
  <2>3. j # i => FirstTrigger(run.work[j]) # f
    BY <1>1, <1>3, FilesApart
  <2>4. Original(j)' = Original(j)
    BY <2>2 DEF Original
  <2>5. QED BY <1>7, <2>1, <2>2, <2>3, <2>4
<1>9. ASSUME NEW j \in DOMAIN run.work \ {i}
      PROVE  (Planned(j)' <=> Planned(j)) /\ (Written(j)' <=> Written(j))
  BY <1>2, <1>4 DEF Planned, Written
<1>10. Planned(i)' /\ (Written(i)' <=> stage = "capture") /\ run'.at # "idle" /\ run'.at # "scan"
  BY <1>2, <1>4 DEF Planned, Written, Stages
<1>11. Gathering' => /\ stage \in {"download", "collect"} /\ Subject' = d /\ Disk' = disk
                     /\ run'.i = i
  BY <1>2, <1>3, <1>5, <1>6, <1>7 DEF Gathering, Subject, Disk
<1>12. TypeOK'
  BY <1>7 DEF Safety, TypeOK
<1>13. CatalogLoads' /\ MergedAsConfigured' /\ StormCounted'
  BY DEF Safety, CatalogLoads, Loadable, MergedAsConfigured, StormCounted
<1>14. RunInv'
  <2>1. Merged(run'.work)
    <3>1. \A j \in DOMAIN run.work : /\ run'.work[j].triggers = run.work[j].triggers
                                     /\ run'.work[j].review = run.work[j].review
      BY <1>4, <1>5
    <3>2. \A j \in DOMAIN run.work : /\ FirstTrigger(run'.work[j]) = FirstTrigger(run.work[j])
                                     /\ LastTrigger(run'.work[j]) = LastTrigger(run.work[j])
      BY <3>1, SameWindow
    <3>3. Merged(run.work)
      BY <1>1 DEF Safety, RunInv
    <3>4. QED BY <1>5, <3>1, <3>2, <3>3 DEF Merged
  <2>2. History' = History
    BY DEF History
  <2>3. /\ run.history = History /\ catalog.cursor <= run.cursor /\ run.cursor <= now
        /\ run.triggers = {}
    BY <1>1 DEF Safety, RunInv, Stages
  <2>4. Gathering' => run'.collected \subseteq Window(Subject')
    BY <1>11 DEF Stands
  <2>5. run'.at \in Stages => run'.i \in DOMAIN run'.work
    BY <1>2, <1>4, <1>5 DEF Stages
  <2>6. run'.at = "publish" => Len(run'.work) <= run'.i
    BY <1>5 DEF Stages
  <2>7. QED BY <1>10, <2>1, <2>2, <2>3, <2>4, <2>5, <2>6 DEF RunInv, Stages
<1>15. TriggerInv'
  <2>1. Counted(run'.work) = Counted(run.work)
    <3>1. \A j \in DOMAIN run.work : run'.work[j].triggers = run.work[j].triggers
      BY <1>4, <1>5
    <3>2. PICK w, v : w = run.work /\ v = run'.work
      OBVIOUS
    <3>3. DOMAIN v = DOMAIN w /\ \A j \in DOMAIN w : v[j].triggers = w[j].triggers
      BY <1>5, <3>1, <3>2
    <3>4. \A t : t \in Counted(v) <=> t \in Counted(w)
      <4>1. \A t : t \in Counted(v) <=> \E j \in DOMAIN v : t \in v[j].triggers
        BY DEF Counted
      <4>2. \A t : t \in Counted(w) <=> \E j \in DOMAIN w : t \in w[j].triggers
        BY DEF Counted
      <4>3. QED BY <3>3, <4>1, <4>2
    <3>5. Counted(v) = Counted(w)
      BY <3>4
    <3>6. QED BY <3>2, <3>5
  <2>2. Forgotten' = Forgotten
    BY DEF Forgotten
  <2>3. QED BY <1>1, <2>1, <2>2 DEF Safety, TriggerInv, Running
<1>16. WorkInv'
  <2>1. ASSUME NEW j \in DOMAIN run'.work
        PROVE  Worked(Original(j), run.work[j], Planned(j), Written(j))'
    <3>1. CASE j = i
      BY <1>2, <1>5, <1>8, <1>10, <3>1 DEF Stands, Worked
    <3>2. CASE j # i
      <4>1. Worked(Original(j), run.work[j], Planned(j), Written(j))
        BY <1>1, <1>5 DEF Safety, WorkInv
      <4>2. QED BY <1>5, <1>8, <1>9, <3>2, <4>1 DEF Worked
    <3>3. QED BY <3>1, <3>2
  <2>2. QED BY <1>1, <1>5, <2>1 DEF Safety, WorkInv
<1>17. DamageInv'
  <2>1. ASSUME NEW u \in Times, NEW t \in Times, files'[u].evidence[t] = Damaged
        PROVE  Explained(u, t)'
    <3>1. u # f
      BY <1>7, <2>1 DEF Stands
    <3>2. Explained(u, t)
      BY <1>7, <2>1, <3>1 DEF Safety, DamageInv
    <3>3. QED BY <3>2 DEF Explained
  <2>2. ASSUME NEW j \in DOMAIN run'.work, Planned(j)'
        PROVE  Unlinked(files'[FirstTrigger(run'.work[j])])
    <3>1. CASE j = i
      BY <1>5, <1>6, <1>7, <3>1 DEF Stands, Unlinked
    <3>2. CASE j # i
      <4>1. Unlinked(files[FirstTrigger(run.work[j])])
        BY <1>1, <1>5, <1>9, <2>2, <3>2 DEF Safety, DamageInv
      <4>2. QED BY <1>5, <1>8, <3>2, <4>1
    <3>3. QED BY <3>1, <3>2
  <2>3. QED BY <2>1, <2>2 DEF DamageInv
<1>18. (Undamaged' <=> Undamaged) /\ (Uninterrupted' <=> Uninterrupted)
  BY DEF Undamaged, Uninterrupted
<1>19. ASSUME NEW j \in DOMAIN catalog.candidates
       PROVE  /\ j \in DOMAIN run.work /\ Original(j) = catalog.candidates[j]
              /\ FirstTrigger(catalog.candidates[j]) = FirstTrigger(run.work[j])
  BY <1>1, Catalogued
<1>20. UndamagedInv'
  <2> SUFFICES ASSUME Undamaged
      PROVE  /\ \A u \in Times, t \in Times : files'[u].frames[t] # Damaged
             /\ \A j \in DOMAIN catalog.candidates :
                  Preserved(catalog.candidates[j], files'[FirstTrigger(catalog.candidates[j])])
             /\ \A j \in DOMAIN run'.work :
                  Prepared(Original(j), run.work[j], files[FirstTrigger(run.work[j])], Written(j))'
             /\ Gathering' => Gathered(d, disk, run'.collected)
    BY <1>11, <1>18 DEF UndamagedInv
  <2>1. \A u \in Times, t \in Times : files'[u].frames[t] # Damaged
    BY <1>7 DEF Safety, UndamagedInv, Stands
  <2>2. ASSUME NEW j \in DOMAIN catalog.candidates
        PROVE  Preserved(catalog.candidates[j], files'[FirstTrigger(catalog.candidates[j])])
    <3>1. CASE j = i
      BY <1>2, <1>3, <1>7, <1>19, <3>1 DEF Stands
    <3>2. CASE j # i
      <4>1. Preserved(catalog.candidates[j], files[FirstTrigger(catalog.candidates[j])])
        BY DEF Safety, UndamagedInv
      <4>2. QED BY <1>8, <1>19, <3>2, <4>1
    <3>3. QED BY <3>1, <3>2
  <2>3. ASSUME NEW j \in DOMAIN run'.work
        PROVE  Prepared(Original(j), run.work[j], files[FirstTrigger(run.work[j])], Written(j))'
    <3>1. CASE j = i
      <4>1. Original(j)' = Original(i) /\ run'.work[j] = d
            /\ files'[FirstTrigger(run'.work[j])] = disk
        BY <1>5, <1>6, <1>7, <1>8, <3>1
      <4>2. QED BY <1>2, <1>10, <3>1, <4>1 DEF Stands, Prepared
    <3>2. CASE j # i
      <4>1. Prepared(Original(j), run.work[j], files[FirstTrigger(run.work[j])], Written(j))
        BY <1>1, <1>5 DEF Safety, UndamagedInv
      <4>2. /\ Original(j)' = Original(j) /\ run'.work[j] = run.work[j]
            /\ files'[FirstTrigger(run'.work[j])] = files[FirstTrigger(run.work[j])]
        BY <1>5, <1>8, <3>2
      <4>3. QED BY <1>5, <1>9, <3>2, <4>1, <4>2 DEF Prepared
    <3>3. QED BY <3>1, <3>2
  <2>4. Gathering' => Gathered(d, disk, run'.collected)
    BY <1>11 DEF Stands
  <2>5. QED BY <2>1, <2>2, <2>3, <2>4
<1>21. FramesInv'
  <2> SUFFICES ASSUME Uninterrupted
      PROVE  /\ \A j \in DOMAIN catalog.candidates : ~Written(j)' =>
                  Vouched(catalog.candidates[j], files'[FirstTrigger(catalog.candidates[j])])
             /\ \A j \in DOMAIN run'.work : Original(j)'.frames \subseteq run'.work[j].frames
             /\ Gathering' => Original(i)'.frames \subseteq run'.collected
    BY <1>10, <1>11, <1>18 DEF FramesInv, Running
  <2>1. ASSUME NEW j \in DOMAIN catalog.candidates, ~Written(j)'
        PROVE  Vouched(catalog.candidates[j], files'[FirstTrigger(catalog.candidates[j])])
    <3>1. CASE j = i
      BY <1>2, <1>3, <1>7, <1>10, <1>19, <2>1, <3>1 DEF Stands
    <3>2. CASE j # i
      <4>1. Vouched(catalog.candidates[j], files[FirstTrigger(catalog.candidates[j])])
        BY <1>9, <1>19, <2>1, <3>2 DEF Safety, FramesInv
      <4>2. QED BY <1>8, <1>19, <3>2, <4>1
    <3>3. QED BY <3>1, <3>2
  <2>2. ASSUME NEW j \in DOMAIN run'.work PROVE Original(j)'.frames \subseteq run'.work[j].frames
    <3>1. CASE j = i
      BY <1>2, <1>5, <1>8, <3>1 DEF Stands
    <3>2. CASE j # i
      <4>1. Original(j).frames \subseteq run.work[j].frames
        BY <1>1, <1>5 DEF Safety, FramesInv
      <4>2. QED BY <1>5, <1>8, <3>2, <4>1
    <3>3. QED BY <3>1, <3>2
  <2>3. Gathering' => Original(i)'.frames \subseteq run'.collected
    BY <1>2, <1>8, <1>11 DEF Stands
  <2>4. QED BY <2>1, <2>2, <2>3
<1>22. QED BY <1>12, <1>13, <1>14, <1>15, <1>16, <1>17, <1>20, <1>21 DEF Safety

(***************************************************************************)
(* The steps of a run                                                      *)
(***************************************************************************)
\* What a step does to the candidate and its files, as candidates and files.
LEMMA OneChanged ==
  ASSUME TypeOK, NEW i \in DOMAIN run.work, NEW d \in Candidate
  PROVE  [run.work EXCEPT ![i] = d] \in Seq(Candidate)
<1>1. run.work \in Seq(Candidate)
  BY Typed
<1>2. QED BY <1>1

LEMMA WritePlanSafe ==
  ASSUME Safety, WritePlan PROVE Safety'
<1>1. PICK c \in Candidate, disk \in Files, o \in Candidate :
        c = Subject /\ disk = Disk /\ o = Original(run.i)
  BY Focus DEF WritePlan, Stages
<1>2. /\ run.at = "plan" /\ run.i \in DOMAIN run.work /\ run.work[run.i] = c
      /\ FirstTrigger(c) \in Times /\ files[FirstTrigger(c)] = disk
      /\ Stands(o, c, disk, run.collected, "plan")
  BY <1>1, Focus DEF WritePlan, Stages, Subject, Disk
<1>3. PICK corrupt : corrupt = Mismatched(c, disk)
  OBVIOUS
<1>4. PICK plan \in Content : plan = MergedPlan(c)
  <2>1. run.history \subseteq Times
    BY Typed DEF Safety
  <2>2. Disk.plan = Absent \/ Disk.plan \in SUBSET Times
    BY <1>1 DEF Files, Content
  <2>3. QED BY <2>1, <2>2 DEF MergedPlan, Current, Content
<1>5. PICK d \in Candidate, new \in Files :
        d = PlannedCandidate(c, corrupt) /\ new = PlannedFiles(disk, plan, corrupt)
  BY PlannedTyped
<1>6. /\ files' = [files EXCEPT ![FirstTrigger(Subject)] = new]
      /\ run' = [run EXCEPT !.at = "validate", !.work = [run.work EXCEPT ![run.i] = d]]
  <2>1. Corrupt(c) = corrupt
    BY <1>1, <1>3 DEF Corrupt, Mismatched
  <2>2. QED BY <1>1, <1>2, <1>4, <1>5, <2>1 DEF WritePlan, PlannedCandidate, PlannedFiles
<1>7. /\ run' \in Runs /\ run'.work = [run.work EXCEPT ![run.i] = d]
      /\ run'.history = run.history /\ run'.cursor = run.cursor /\ run'.triggers = run.triggers
      /\ run'.at = "validate" /\ run'.i = run.i
  <2>1. [run.work EXCEPT ![run.i] = d] \in Seq(Candidate)
    BY <1>2, OneChanged DEF Safety
  <2>2. QED BY <1>6, <2>1, Typed DEF Runs, Safety
<1>8. Stands(Original(run.i), d, new, run'.collected, "validate")
  <2>1. PICK times : times = run'.collected
    OBVIOUS
  <2>2. Stands(o, d, new, times, "validate")
    BY <1>2, <1>3, <1>5, StandsPlanned
  <2>3. QED BY <1>1, <2>1, <2>2
<1>9. d.triggers = Subject.triggers /\ d.review = Subject.review
  BY <1>1, <1>5 DEF Candidate, PlannedCandidate
<1>10. /\ UNCHANGED <<storm, now, published, catalog, missed>>
       /\ faults' \in [FaultKinds -> 0..MaxFaults]
       /\ faults'["damage"] = faults["damage"] /\ faults'["abort"] = faults["abort"]
  BY Typed DEF WritePlan, World, Safety
<1>11. "validate" \in Stages \ {"plan"} /\ run.at \in Stages
  BY <1>2 DEF Stages
<1>12. QED BY <1>6, <1>7, <1>8, <1>9, <1>10, <1>11, CandidateStep

LEMMA ValidateFramesSafe ==
  ASSUME Safety, ValidateFrames PROVE Safety'
<1>1. PICK c \in Candidate, disk \in Files, o \in Candidate :
        c = Subject /\ disk = Disk /\ o = Original(run.i)
  BY Focus DEF ValidateFrames, Stages
<1>2. /\ run.at = "validate" /\ run.i \in DOMAIN run.work /\ run.work[run.i] = c
      /\ run.work \in Seq(Candidate)
      /\ FirstTrigger(c) \in Times /\ files[FirstTrigger(c)] = disk
      /\ Stands(o, c, disk, run.collected, "validate")
  BY <1>1, Focus, Typed DEF ValidateFrames, Stages, Subject, Disk, Safety
<1>3. PICK new \in Files, times \in SUBSET Times :
        new = ValidatedFiles(c, disk) /\ times = Validated(c, disk)
  BY ValidatedTyped
<1>4. /\ files' = [files EXCEPT ![FirstTrigger(Subject)] = new]
      /\ run' = [run EXCEPT !.at = "download", !.collected = times]
  BY <1>1, <1>2, <1>3
    DEF ValidateFrames, ValidatedFiles, Validated, InCatalog, IntactFrames
<1>5. /\ run' \in Runs /\ run'.work = [run.work EXCEPT ![run.i] = c]
      /\ run'.history = run.history /\ run'.cursor = run.cursor /\ run'.triggers = run.triggers
      /\ run'.at = "download" /\ run'.i = run.i /\ run'.collected = times
  <2>1. run.work = [run.work EXCEPT ![run.i] = c]
    BY <1>2
  <2>2. QED BY <1>4, <2>1, Typed DEF Runs, Safety
<1>6. Stands(Original(run.i), c, new, run'.collected, "download")
  <2>1. Stands(o, c, new, times, "download")
    BY <1>2, <1>3, StandsValidated
  <2>2. QED BY <1>1, <1>5, <2>1
<1>7. /\ UNCHANGED <<storm, now, published, catalog, missed>>
      /\ faults' \in [FaultKinds -> 0..MaxFaults]
      /\ faults'["damage"] = faults["damage"] /\ faults'["abort"] = faults["abort"]
  BY Typed DEF ValidateFrames, World, Safety
<1>8. "download" \in Stages \ {"plan"} /\ run.at \in Stages
  BY <1>2 DEF Stages
<1>9. QED BY <1>1, <1>4, <1>5, <1>6, <1>7, <1>8, CandidateStep

LEMMA DownloadSafe ==
  ASSUME Safety, Download PROVE Safety'
<1>1. PICK c \in Candidate, disk \in Files, o \in Candidate :
        c = Subject /\ disk = Disk /\ o = Original(run.i)
  BY Focus DEF Download, Stages
<1>2. /\ run.at = "download" /\ run.i \in DOMAIN run.work /\ run.work[run.i] = c
      /\ run.work \in Seq(Candidate)
      /\ FirstTrigger(c) \in Times /\ files[FirstTrigger(c)] = disk
      /\ Stands(o, c, disk, run.collected, "download")
  BY <1>1, Focus, Typed DEF Download, Stages, Subject, Disk, Safety
<1>3. PICK current \in SUBSET Times, old \in SUBSET Times, times \in SUBSET Times :
        current = Current /\ old = run.collected /\ times = old \union current
  <2>1. run.history \in SUBSET Times /\ run.collected \in SUBSET Times
    BY Typed DEF Safety
  <2>2. QED BY <2>1 DEF Current
<1>4. PICK new \in Files : new = DownloadedFiles(disk, current)
  BY DownloadedTyped
<1>5. /\ files' = [files EXCEPT ![FirstTrigger(Subject)] = new]
      /\ run' = [run EXCEPT !.at = "collect", !.collected = times]
  BY <1>1, <1>2, <1>3, <1>4 DEF Download, Fetch, Extended, DownloadedFiles
<1>6. /\ run' \in Runs /\ run'.work = [run.work EXCEPT ![run.i] = c]
      /\ run'.history = run.history /\ run'.cursor = run.cursor /\ run'.triggers = run.triggers
      /\ run'.at = "collect" /\ run'.i = run.i /\ run'.collected = times
  <2>1. run.work = [run.work EXCEPT ![run.i] = c]
    BY <1>2
  <2>2. QED BY <1>5, <2>1, Typed DEF Runs, Safety
<1>7. Stands(Original(run.i), c, new, run'.collected, "collect")
  <2>1. current \subseteq Window(c)
    BY <1>1, <1>3 DEF Current
  <2>2. Stands(o, c, new, times, "collect")
    BY <1>2, <1>3, <1>4, <2>1, StandsDownloaded
  <2>3. QED BY <1>1, <1>6, <2>2
<1>8. /\ UNCHANGED <<storm, now, published, catalog, missed>>
      /\ faults' \in [FaultKinds -> 0..MaxFaults]
      /\ faults'["damage"] = faults["damage"] /\ faults'["abort"] = faults["abort"]
  BY Typed DEF Download, World, Safety
<1>9. "collect" \in Stages \ {"plan"} /\ run.at \in Stages
  BY <1>2 DEF Stages
<1>10. QED BY <1>1, <1>5, <1>6, <1>7, <1>8, <1>9, CandidateStep

LEMMA WriteCollectionSafe ==
  ASSUME Safety, WriteCollection PROVE Safety'
<1>1. PICK c \in Candidate, disk \in Files, o \in Candidate :
        c = Subject /\ disk = Disk /\ o = Original(run.i)
  BY Focus DEF WriteCollection, Stages
<1>2. /\ run.at = "collect" /\ run.i \in DOMAIN run.work /\ run.work[run.i] = c
      /\ run.work \in Seq(Candidate) /\ files \in [Times -> Files]
      /\ FirstTrigger(c) \in Times /\ files[FirstTrigger(c)] = disk
      /\ Stands(o, c, disk, run.collected, "collect")
  BY <1>1, Focus, Typed DEF WriteCollection, Stages, Subject, Disk, Safety
<1>3. PICK old \in SUBSET Times : old = run.collected
  BY Typed DEF Safety
<1>4. PICK d \in Candidate, new \in Files :
        d = WrittenCandidate(c, disk, old) /\ new = WrittenFiles(disk, old)
  BY WrittenTyped
<1>5. files' = [files EXCEPT ![FirstTrigger(Subject)] = new]
  <2>1. CASE old = {}
    <3>1. new = disk
      BY <1>4, <2>1 DEF WrittenFiles, Files
    <3>2. QED BY <1>1, <1>2, <1>3, <2>1, <3>1 DEF WriteCollection
  <2>2. CASE old # {}
    BY <1>1, <1>2, <1>3, <1>4, <2>2 DEF WriteCollection, WrittenFiles
  <2>3. QED BY <2>1, <2>2
<1>6. run' = [run EXCEPT !.at = "capture", !.work = [run.work EXCEPT ![run.i] = d]]
  <2>1. run \in Runs /\ c \in Candidate
    BY <1>1, Typed DEF Safety
  <2>2. d = [c EXCEPT !.plan = disk.plan, !.collection = IF old = {} THEN Absent ELSE old,
                      !.frames = old \intersect Window(c)]
    BY <1>4 DEF WrittenCandidate
  <2>3. run' = [run EXCEPT !.at = "capture",
                  !.work[run.i].plan = disk.plan,
                  !.work[run.i].collection = IF old = {} THEN Absent ELSE old,
                  !.work[run.i].frames = old \intersect Window(c)]
    BY <1>1, <1>3 DEF WriteCollection
  <2>4. PICK w \in Seq(Candidate), i \in Nat : w = run.work /\ i = run.i /\ i \in DOMAIN w /\ w[i] = c
    BY <1>2, <2>1 DEF Runs
  <2>5. run' = [run EXCEPT !.at = "capture",
                  !.work = [w EXCEPT ![i] =
                    [c EXCEPT !.plan = disk.plan, !.collection = IF old = {} THEN Absent ELSE old,
                              !.frames = old \intersect Window(c)]]]
    <3>1. PICK kept, frames : kept = (IF old = {} THEN Absent ELSE old) /\ frames = old \intersect Window(c)
      OBVIOUS
    <3>2. PICK plan : plan = disk.plan
      OBVIOUS
    <3>3. run' = [run EXCEPT !.at = "capture", !.work[i].plan = plan,
                    !.work[i].collection = kept, !.work[i].frames = frames]
      BY <2>3, <2>4, <3>1, <3>2
    <3>4. PICK u : u = [w EXCEPT ![i].plan = plan, ![i].collection = kept, ![i].frames = frames]
      OBVIOUS
    <3>5. u = [w EXCEPT ![i] = [c EXCEPT !.plan = plan, !.collection = kept, !.frames = frames]]
      BY <2>4, <3>4
    <3>6. run' = [run EXCEPT !.at = "capture", !.work = u]
      BY <2>1, <2>4, <3>3, <3>4 DEF Runs
    <3>7. QED BY <3>1, <3>2, <3>5, <3>6
  <2>6. QED BY <2>2, <2>4, <2>5
<1>7. /\ run' \in Runs /\ run'.work = [run.work EXCEPT ![run.i] = d]
      /\ run'.history = run.history /\ run'.cursor = run.cursor /\ run'.triggers = run.triggers
      /\ run'.at = "capture" /\ run'.i = run.i
  <2>1. [run.work EXCEPT ![run.i] = d] \in Seq(Candidate)
    BY <1>2, OneChanged DEF Safety
  <2>2. QED BY <1>6, <2>1, Typed DEF Runs, Safety
<1>8. Stands(Original(run.i), d, new, run'.collected, "capture")
  <2>1. PICK times : times = run'.collected
    OBVIOUS
  <2>2. Stands(o, d, new, times, "capture")
    BY <1>2, <1>3, <1>4, StandsWritten
  <2>3. QED BY <1>1, <2>1, <2>2
<1>9. d.triggers = Subject.triggers /\ d.review = Subject.review
  BY <1>1, <1>4 DEF Candidate, WrittenCandidate
<1>10. /\ UNCHANGED <<storm, now, published, catalog, missed>>
       /\ faults' \in [FaultKinds -> 0..MaxFaults]
       /\ faults'["damage"] = faults["damage"] /\ faults'["abort"] = faults["abort"]
  BY Typed DEF WriteCollection, World, Safety
<1>11. "capture" \in Stages \ {"plan"} /\ run.at \in Stages
  BY <1>2 DEF Stages
<1>12. QED BY <1>5, <1>7, <1>8, <1>9, <1>10, <1>11, CandidateStep

\* A fault of a kind is counted, and only it.
LEMMA FaultCounted ==
  ASSUME TypeOK, NEW kind \in FaultKinds, Fault(kind)
  PROVE  /\ faults' \in [FaultKinds -> 0..MaxFaults] /\ faults'[kind] = faults[kind] + 1
         /\ \A k \in FaultKinds \ {kind} : faults'[k] = faults[k]
         /\ faults'[kind] # 0
<1>1. faults \in [FaultKinds -> 0..MaxFaults] /\ MaxFaults \in Nat
  BY Typed, Constants
<1>2. \A k \in FaultKinds : faults[k] \in Nat
  BY <1>1
<1>3. faults[kind] + 1 <= MaxFaults
  BY <1>1, <1>2 DEF Fault, Happened, FaultKinds
<1>4. QED BY <1>1, <1>2, <1>3 DEF Fault

LEMMA CaptureEvidenceSafe ==
  ASSUME Safety, CaptureEvidence PROVE Safety'
<1>1. PICK c \in Candidate, disk \in Files, o \in Candidate :
        c = Subject /\ disk = Disk /\ o = Original(run.i)
  BY Focus DEF CaptureEvidence, Stages
<1>2. /\ run.at = "capture" /\ run.i \in DOMAIN run.work /\ run.work[run.i] = c
      /\ run.work \in Seq(Candidate) /\ run.i \in Nat
      /\ FirstTrigger(c) \in Times /\ files[FirstTrigger(c)] = disk
      /\ Stands(o, c, disk, run.collected, "capture")
  BY <1>1, Focus, Typed DEF CaptureEvidence, Stages, Subject, Disk, Safety
<1>3. PICK failed \in SUBSET {t \in Targets : Disk.evidence[t] = Absent} :
       /\ IF failed = {} THEN UNCHANGED faults ELSE Fault("evidence")
       /\ files' = [files EXCEPT ![FirstTrigger(Subject)].evidence =
            [t \in Times |-> IF t \in Targets \ failed THEN Collected(t) ELSE @[t]]]
       /\ run' = [run EXCEPT
            !.at = IF run.i < Len(run.work) THEN "plan" ELSE "publish",
            !.i = IF run.i < Len(run.work) THEN @ + 1 ELSE @,
            !.collected = {},
            !.work[run.i].evidence =
              [t \in Times |-> IF t \in failed THEN "error"
                               ELSE IF t \in Targets THEN Collected(t) ELSE @[t]]]
  BY DEF CaptureEvidence
<1>4. PICK targets : targets = Targets
  OBVIOUS
<1>5. PICK had : had = [t \in Times |-> Collected(t)]
  OBVIOUS
<1>6. \A t \in Times : had[t] = Collected(t)
  BY <1>5
<1>7. targets \subseteq Times
  BY <1>1, <1>4, Triggers DEF Targets
<1>8. \A t \in targets : had[t] \in {"ok", "stale"} /\ (disk.evidence[t] # Absent => had[t] = disk.evidence[t])
  <2>1. \A t \in Times : disk.evidence[t] \in {"ok", "stale", Absent} 
    BY <1>2 DEF Stands, Files
  <2>2. \A t \in Times : disk.evidence[t] # Absent => Collected(t) = disk.evidence[t]
    BY <1>1 DEF Collected
  <2>3. \A t \in Times : Collected(t) \in {"ok", "stale"}
    BY <1>1, <2>1 DEF Collected
  <2>4. QED BY <1>6, <1>7, <2>2, <2>3
<1>9. \A t \in targets : c.evidence[t] = "error" \/ c.evidence[t] = "none"
  BY <1>1, <1>4 DEF Targets
<1>10. PICK d \in Candidate, new \in Files :
         /\ d = CapturedCandidate(c, targets, failed, had)
         /\ new = CapturedFiles(disk, targets, failed, had)
  BY <1>8, CapturedTyped
<1>11. files' = [files EXCEPT ![FirstTrigger(Subject)] = new]
  <2>1. [t \in Times |-> IF t \in targets \ failed THEN had[t] ELSE disk.evidence[t]]
          = [t \in Times |-> IF t \in targets \ failed THEN Collected(t) ELSE disk.evidence[t]]
    BY <1>6
  <2>2. new = [disk EXCEPT !.evidence =
          [t \in Times |-> IF t \in targets \ failed THEN Collected(t) ELSE disk.evidence[t]]]
    BY <1>10, <2>1 DEF CapturedFiles
  <2>3. QED BY <1>1, <1>2, <1>3, <1>4, <2>2
<1>12. run' = [run EXCEPT
            !.at = IF run.i < Len(run.work) THEN "plan" ELSE "publish",
            !.i = IF run.i < Len(run.work) THEN run.i + 1 ELSE run.i,
            !.collected = {},
            !.work = [run.work EXCEPT ![run.i] = d]]
  <2>1. [t \in Times |-> IF t \in failed THEN "error"
                         ELSE IF t \in targets THEN had[t] ELSE c.evidence[t]]
          = [t \in Times |-> IF t \in failed THEN "error"
                             ELSE IF t \in targets THEN Collected(t) ELSE c.evidence[t]]
    BY <1>6
  <2>2. d = [c EXCEPT !.evidence =
              [t \in Times |-> IF t \in failed THEN "error"
                               ELSE IF t \in targets THEN Collected(t) ELSE c.evidence[t]]]
    BY <1>10, <2>1 DEF CapturedCandidate
  <2>3. QED BY <1>2, <1>3, <1>4, <2>2
<1>13. /\ run' \in Runs /\ run'.work = [run.work EXCEPT ![run.i] = d]
       /\ run'.history = run.history /\ run'.cursor = run.cursor /\ run'.triggers = run.triggers
       /\ \/ run'.at = "plan" /\ run.i < Len(run.work) /\ run'.i = run.i + 1
          \/ run'.at = "publish" /\ Len(run.work) <= run.i /\ run'.i = run.i
  <2>1. [run.work EXCEPT ![run.i] = d] \in Seq(Candidate) /\ Len(run.work) \in Nat
    BY <1>2, OneChanged DEF Safety
  <2>2. PICK work \in Seq(Candidate) : work = [run.work EXCEPT ![run.i] = d]
    BY <2>1
  <2>3. CASE run.i < Len(run.work)
    <3>1. run' = [run EXCEPT !.at = "plan", !.i = run.i + 1, !.collected = {}, !.work = work]
      BY <1>12, <2>2, <2>3
    <3>2. /\ run' \in Runs /\ run'.at = "plan" /\ run'.i = run.i + 1 /\ run'.work = work
          /\ run'.history = run.history /\ run'.cursor = run.cursor /\ run'.triggers = run.triggers
      <4>1. run \in Runs /\ run.i + 1 \in Nat
        BY <1>2, Typed DEF Safety
      <4>2. QED BY <3>1, <4>1 DEF Runs
    <3>3. QED BY <2>2, <2>3, <3>2
  <2>4. CASE ~(run.i < Len(run.work))
    <3>1. run' = [run EXCEPT !.at = "publish", !.i = run.i, !.collected = {}, !.work = work]
      BY <1>12, <2>2, <2>4
    <3>2. /\ run' \in Runs /\ run'.at = "publish" /\ run'.i = run.i /\ run'.work = work
          /\ run'.history = run.history /\ run'.cursor = run.cursor /\ run'.triggers = run.triggers
      <4>1. run \in Runs
        BY Typed DEF Safety
      <4>2. QED BY <3>1, <4>1 DEF Runs
    <3>3. Len(run.work) <= run.i
      BY <1>2, <2>1, <2>4
    <3>4. QED BY <2>2, <3>2, <3>3
  <2>5. QED BY <2>3, <2>4
<1>14. Stands(Original(run.i), d, new, run'.collected, "capture")
  <2>1. PICK times, old : times = run'.collected /\ old = run.collected
    OBVIOUS
  <2>2. Stands(o, d, new, times, "capture")
    <3>1. failed \subseteq targets
      BY <1>3, <1>4
    <3>2. QED BY <1>2, <1>8, <1>9, <1>10, <2>1, <3>1, StandsCaptured
  <2>3. QED BY <1>1, <2>1, <2>2
<1>15. d.triggers = Subject.triggers /\ d.review = Subject.review
  BY <1>1, <1>10 DEF Candidate, CapturedCandidate
<1>16. /\ UNCHANGED <<storm, now, published, catalog, missed>>
       /\ faults' \in [FaultKinds -> 0..MaxFaults]
       /\ faults'["damage"] = faults["damage"] /\ faults'["abort"] = faults["abort"]
  <2>1. "evidence" \in FaultKinds /\ "damage" \in FaultKinds \ {"evidence"}
        /\ "abort" \in FaultKinds \ {"evidence"}
    BY DEF FaultKinds
  <2>2. CASE failed = {}
    BY <1>3, <2>2, Typed DEF CaptureEvidence, World, Safety
  <2>3. CASE failed # {}
    BY <1>3, <2>1, <2>3, FaultCounted DEF CaptureEvidence, World, Safety
  <2>4. QED BY <2>2, <2>3
<1>17. "capture" \in Stages \ {"plan"} /\ run.at \in Stages
  BY <1>2 DEF Stages
<1>18. QED BY <1>10, <1>11, <1>13, <1>14, <1>15, <1>16, <1>17, CandidateStep

(***************************************************************************)
(* Runs that end, and the source                                           *)
(***************************************************************************)
LEMMA IdleTyped == Idle \in Runs
<1>1. <<>> \in Seq(Candidate)
  OBVIOUS
<1>2. QED BY <1>1 DEF Idle, Runs

\* Frames of a candidate that come, and nothing else, keep what is preserved.
LEMMA StaysPreserved ==
  ASSUME NEW c \in Candidate, NEW disk, NEW new, Preserved(c, disk),
         new.evidence = disk.evidence, new.collection = disk.collection,
         disk.context = "context" => new.context = "context",
         \A t \in Times : disk.frames[t] = "frame" => new.frames[t] = "frame"
  PROVE  Preserved(c, new)
<1>1. c.frames \subseteq Times
  BY DEF Candidate
<1>2. QED BY <1>1 DEF Preserved, Intact, EvidenceMatches

\* A run that ends without a catalog: it was interrupted, or a file is damaged.
LEMMA EndsSafe ==
  ASSUME Safety, UNCHANGED <<storm, now, published, catalog, missed>>,
         run' = Idle, faults' \in [FaultKinds -> 0..MaxFaults],
         faults'["damage"] = faults["damage"],
         faults'["abort"] # 0 \/ faults["damage"] # 0,
         files' \in [Times -> Files],
         \A f \in Times : /\ files'[f].evidence = files[f].evidence
                          /\ files'[f].collection = files[f].collection
                          /\ files'[f].context = files[f].context
                          /\ \A t \in Times : /\ files[f].frames[t] = "frame" => files'[f].frames[t] = "frame"
                                              /\ files'[f].frames[t] = Damaged => files[f].frames[t] = Damaged
  PROVE  Safety'
<1>1. /\ ~Running' /\ ~Gathering' /\ run'.at = "idle" /\ run'.triggers = {} /\ run' \in Runs
  BY IdleTyped DEF Running, Gathering, Idle
<1>2. TypeOK'
  BY <1>1 DEF Safety, TypeOK
<1>3. CatalogLoads' /\ MergedAsConfigured' /\ StormCounted'
  BY DEF Safety, CatalogLoads, Loadable, MergedAsConfigured, StormCounted
<1>4. RunInv'
  BY <1>1 DEF RunInv
<1>5. TriggerInv'
  BY <1>1 DEF Safety, TriggerInv
<1>6. WorkInv'
  BY <1>1 DEF Safety, WorkInv
<1>7. DamageInv'
  BY <1>1 DEF Safety, DamageInv, Explained
<1>8. UndamagedInv'
  <2> SUFFICES ASSUME Undamaged
      PROVE  /\ \A f \in Times, t \in Times : files'[f].frames[t] # Damaged
             /\ \A i \in DOMAIN catalog.candidates :
                  Preserved(catalog.candidates[i], files'[FirstTrigger(catalog.candidates[i])])
    BY <1>1 DEF UndamagedInv, Undamaged
  <2>1. \A f \in Times, t \in Times : files'[f].frames[t] # Damaged
    BY DEF Safety, UndamagedInv
  <2>2. ASSUME NEW i \in DOMAIN catalog.candidates
        PROVE  Preserved(catalog.candidates[i], files'[FirstTrigger(catalog.candidates[i])])
    <3>1. PICK c \in Candidate, f \in Times : c = catalog.candidates[i] /\ f = FirstTrigger(c)
      BY Catalogued
    <3>2. Preserved(c, files[f])
      BY <3>1 DEF Safety, UndamagedInv
    <3>3. PICK disk, new : disk = files[f] /\ new = files'[f]
      OBVIOUS
    <3>4. Preserved(c, new)
      BY <3>2, <3>3, StaysPreserved
    <3>5. QED BY <3>1, <3>3, <3>4
  <2>3. QED BY <2>1, <2>2
<1>9. FramesInv'
  BY DEF FramesInv, Uninterrupted, Undamaged
<1>10. QED BY <1>2, <1>3, <1>4, <1>5, <1>6, <1>7, <1>8, <1>9 DEF Safety

LEMMA AbortSafe ==
  ASSUME Safety, Abort PROVE Safety'
<1>1. "abort" \in FaultKinds /\ "damage" \in FaultKinds \ {"abort"}
  BY DEF FaultKinds
<1>2. /\ faults' \in [FaultKinds -> 0..MaxFaults] /\ faults'["abort"] # 0
      /\ faults'["damage"] = faults["damage"]
  BY <1>1, FaultCounted DEF Abort, Safety
<1>3. QED BY <1>2, EndsSafe, Typed DEF Abort, World, Safety

LEMMA DownloadFailsSafe ==
  ASSUME Safety, DownloadFails PROVE Safety'
<1>1. "abort" \in FaultKinds /\ "damage" \in FaultKinds \ {"abort"}
  BY DEF FaultKinds
<1>2. /\ faults' \in [FaultKinds -> 0..MaxFaults] /\ faults'["abort"] # 0
      /\ faults'["damage"] = faults["damage"]
  BY <1>1, FaultCounted DEF DownloadFails, Safety
<1>3. PICK times : Fetch(times)
  BY DEF DownloadFails
<1>4. PICK g \in Times, disk \in Files : g = FirstTrigger(Subject) /\ disk = Disk
  BY Focus DEF DownloadFails, Stages
<1>5. PICK new \in Files : new = DownloadedFiles(disk, times)
  BY DownloadedTyped
<1>6. files \in [Times -> Files] /\ files[g] = disk
  BY <1>4, Typed DEF Safety, Disk
<1>7. files' = [files EXCEPT ![g] = new]
  BY <1>3, <1>4, <1>5, <1>6 DEF Fetch, DownloadedFiles
<1>8. /\ new.evidence = disk.evidence /\ new.collection = disk.collection
      /\ new.context = disk.context
      /\ \A t \in Times : /\ disk.frames[t] = "frame" => new.frames[t] = "frame"
                          /\ new.frames[t] = Damaged => disk.frames[t] = Damaged
  BY <1>5, Distinct DEF DownloadedFiles, Files
<1>9. /\ files' \in [Times -> Files]
      /\ \A f \in Times : /\ files'[f].evidence = files[f].evidence
                          /\ files'[f].collection = files[f].collection
                          /\ files'[f].context = files[f].context
                          /\ \A t \in Times : /\ files[f].frames[t] = "frame" => files'[f].frames[t] = "frame"
                                              /\ files'[f].frames[t] = Damaged => files[f].frames[t] = Damaged
  BY <1>6, <1>7, <1>8
<1>10. QED BY <1>2, <1>9, EndsSafe DEF DownloadFails, World

\* What a run has made can be saved as long as no file was damaged: what interrupted runs
\* and failing sources leave behind does not keep it from being verified and validated.
LEMMA Saves ==
  ASSUME Safety PROVE PublishesUnlessDamaged
<1> SUFFICES ASSUME run.at = "publish", Undamaged PROVE Publishable
  BY DEF PublishesUnlessDamaged, Undamaged
<1>1. Running /\ run.work \in Seq(Candidate) /\ run.i \in Nat /\ Len(run.work) <= run.i
  BY Typed DEF Running, Safety, RunInv
<1>2. ASSUME NEW i \in DOMAIN run.work
      PROVE  /\ run.work[i] \in Candidate /\ Original(i) \in Candidate
             /\ Extends(Original(i), run.work[i])
             /\ Prepared(Original(i), run.work[i], files[FirstTrigger(run.work[i])], TRUE)
  <2>1. Written(i)
    BY <1>1 DEF Written
  <2>2. Prepared(Original(i), run.work[i], files[FirstTrigger(run.work[i])], Written(i))
    BY <1>1 DEF Safety, UndamagedInv
  <2>3. Prepared(Original(i), run.work[i], files[FirstTrigger(run.work[i])], TRUE)
    BY <2>1, <2>2 DEF Prepared
  <2>4. QED BY <1>1, <2>3, Originals DEF Worked
<1>3. Verified(run.work)
  BY <1>2 DEF Verified, Prepared, Intact
<1>4. ASSUME NEW i \in DOMAIN run.work PROVE Valid(run.work[i])
  <2>1. PICK c \in Candidate, d \in Candidate : c = Original(i) /\ d = run.work[i]
    BY <1>2
  <2>2. /\ Reviewed(d) => Complete(d)
        /\ \A t \in Times : c.evidence[t] = "ok" => d.evidence[t] = "ok"
        /\ d.review = c.review /\ d.context = c.context
    BY <1>2, <2>1 DEF Prepared, Extends
  <2>3. CASE i \in DOMAIN catalog.candidates
    <3>1. Valid(c)
      BY <2>1, <2>3 DEF Original, Safety, CatalogLoads, Loadable, ValidAll
    <3>2. QED BY <2>1, <2>2, <3>1 DEF Valid, ReviewBacked, Reviewed
  <2>4. CASE i \notin DOMAIN catalog.candidates
    <3>1. c.review = "pending"
      BY <2>1, <2>4 DEF Original, NewCandidate
    <3>2. QED BY <2>1, <2>2, <3>1 DEF Valid, ReviewBacked
  <2>5. QED BY <2>3, <2>4
<1>5. QED BY <1>3, <1>4 DEF Publishable, ValidAll

LEMMA WriteCatalogFailsSafe ==
  ASSUME Safety, WriteCatalogFails PROVE Safety'
<1>1. faults["damage"] # 0
  BY Saves DEF WriteCatalogFails, PublishesUnlessDamaged
<1>2. QED BY <1>1, EndsSafe, Typed DEF WriteCatalogFails, World, Safety

\* The run saves what it has found.
LEMMA WriteCatalogSafe ==
  ASSUME Safety, WriteCatalog PROVE Safety'
<1>1. /\ run.at = "publish" /\ Publishable /\ run' = Idle
      /\ catalog' = [cursor |-> run.cursor, candidates |-> run.work]
      /\ UNCHANGED <<storm, now, published, files, faults>>
      /\ missed' = missed \union Forgotten
  BY DEF WriteCatalog, PublishWork, World, Forgotten
<1>2. /\ Running /\ run.work \in Seq(Candidate) /\ run.i \in Nat /\ Len(run.work) <= run.i
      /\ run.triggers = {} /\ Merged(run.work) /\ run.history = History
      /\ catalog.cursor <= run.cursor /\ run.cursor <= now
  BY <1>1, Typed DEF Running, Safety, RunInv
<1>3. catalog'.cursor = run.cursor /\ catalog'.candidates = run.work
  BY <1>1
<1>4. /\ ~Running' /\ ~Gathering' /\ run'.at = "idle" /\ run'.triggers = {} /\ run' \in Runs
  BY <1>1, IdleTyped DEF Running, Gathering, Idle
<1>5. Forgotten \subseteq published
  BY <1>2 DEF Forgotten, History
<1>6. ASSUME NEW i \in DOMAIN run.work
      PROVE  /\ run.work[i] \in Candidate /\ FirstTrigger(run.work[i]) \in Times
             /\ Planned(i) /\ Written(i) /\ Collects(run.work[i])
             /\ Extends(Original(i), run.work[i])
  <2>1. Planned(i) /\ Written(i)
    BY <1>1, <1>2 DEF Planned, Written
  <2>2. QED BY <1>2, <2>1, Originals DEF Worked
<1>7. TypeOK'
  <2>1. catalog' \in [cursor : Times \union {NoTime}, candidates : Seq(Candidate)]
    BY <1>1, Typed DEF Safety
  <2>2. QED BY <1>1, <1>4, <1>5, <2>1 DEF Safety, TypeOK
<1>8. CatalogLoads'
  <2>1. ValidAll(run.work)
    <3>1. CASE catalog = [cursor |-> run.cursor, candidates |-> run.work]
      BY <3>1 DEF Safety, CatalogLoads, Loadable
    <3>2. CASE catalog # [cursor |-> run.cursor, candidates |-> run.work]
      BY <1>1, <3>2 DEF Publishable
    <3>3. QED BY <3>1, <3>2
  <2>2. QED BY <1>3, <2>1 DEF CatalogLoads, Loadable, ValidAll
<1>9. MergedAsConfigured'
  BY <1>2, <1>3 DEF MergedAsConfigured
<1>10. StormCounted'
  <2> SUFFICES ASSUME NEW t \in storm \intersect published, t <= run.cursor,
                      t \notin missed \union Forgotten
               PROVE  \E i \in DOMAIN run.work : t \in run.work[i].triggers
    BY <1>1, <1>3 DEF StormCounted
  <2>1. t \in run.triggers \union Counted(run.work)
    BY <1>2 DEF Safety, TriggerInv
  <2>2. QED BY <1>2, <2>1 DEF Counted
<1>11. RunInv'
  BY <1>4 DEF RunInv
<1>12. TriggerInv'
  <2>1. ASSUME NEW t \in published, run.cursor < t, t <= now - Retained PROVE t \in missed'
    <3>1. t \in Int /\ catalog.cursor \in Int /\ run.cursor \in Int
      BY Typed, Constants DEF Safety, Times
    <3>2. catalog.cursor < t
      BY <1>2, <2>1, <3>1
    <3>3. QED BY <1>1, <2>1, <3>2 DEF Safety, TriggerInv
  <2>2. \A t \in Counted(run.work) : t \in storm /\ t <= run.cursor
    BY <1>2 DEF Safety, TriggerInv
  <2>3. QED BY <1>1, <1>2, <1>3, <1>4, <2>1, <2>2 DEF TriggerInv
<1>13. WorkInv'
  BY <1>3, <1>4, <1>6 DEF WorkInv
<1>14. DamageInv'
  <2>1. ASSUME NEW f \in Times, NEW t \in Times PROVE files[f].evidence[t] # Damaged
    <3> SUFFICES ASSUME files[f].evidence[t] = Damaged PROVE FALSE
      OBVIOUS
    <3>1. PICK j \in DOMAIN catalog.candidates : FirstTrigger(catalog.candidates[j]) = f
      BY DEF Safety, DamageInv, Explained
    <3>2. j \in DOMAIN run.work /\ FirstTrigger(run.work[j]) = f
      BY <1>2, <3>1, Catalogued
    <3>3. QED BY <1>2, <1>6, <3>2, DamageKnown
  <2>2. QED BY <1>1, <1>4, <2>1 DEF DamageInv
<1>15. UndamagedInv'
  <2> SUFFICES ASSUME Undamaged
      PROVE  /\ \A f \in Times, t \in Times : files[f].frames[t] # Damaged
             /\ \A i \in DOMAIN run.work :
                  Preserved(run.work[i], files[FirstTrigger(run.work[i])])
    BY <1>1, <1>3, <1>4 DEF UndamagedInv, Undamaged
  <2>1. \A f \in Times, t \in Times : files[f].frames[t] # Damaged
    BY DEF Safety, UndamagedInv
  <2>2. ASSUME NEW i \in DOMAIN run.work
        PROVE  Preserved(run.work[i], files[FirstTrigger(run.work[i])])
    <3>1. PICK d \in Candidate, disk \in Files :
            d = run.work[i] /\ disk = files[FirstTrigger(run.work[i])]
      BY <1>2, Originals
    <3>2. Prepared(Original(i), d, disk, Written(i))
      BY <1>2, <3>1 DEF Safety, UndamagedInv
    <3>3. Intact(d, disk) /\ (d.collection # Absent => disk.collection = d.collection)
          /\ (Reviewed(d) => Complete(d))
      BY <1>6, <3>2 DEF Prepared
    <3>4. Reviewed(d) => d.collection # Absent
      BY <1>6, <3>1, <3>3, CompleteCollected
    <3>5. Preserved(d, disk)
      BY <3>3, <3>4 DEF Preserved
    <3>6. QED BY <3>1, <3>5
  <2>3. QED BY <2>1, <2>2
<1>16. FramesInv'
  <2> SUFFICES ASSUME Uninterrupted, NEW i \in DOMAIN run.work
               PROVE  Vouched(run.work[i], files[FirstTrigger(run.work[i])])
    BY <1>1, <1>3, <1>4 DEF FramesInv, Uninterrupted, Undamaged
  <2>1. Prepared(Original(i), run.work[i], files[FirstTrigger(run.work[i])], Written(i))
    BY <1>2 DEF Safety, UndamagedInv, Uninterrupted
  <2>2. QED BY <1>6, <2>1 DEF Prepared, Vouched
<1>17. QED BY <1>7, <1>8, <1>9, <1>10, <1>11, <1>12, <1>13, <1>14, <1>15, <1>16 DEF Safety

\* The next frame of the source, or a gap.
LEMMA PublishSafe ==
  ASSUME Safety, Publish PROVE Safety'
<1>1. /\ run.at = "idle" /\ now < MaxTime /\ now' = now + 1
      /\ missed' = missed \union
           {t \in published : t = now + 1 - Retained /\ t > catalog.cursor}
      /\ UNCHANGED <<storm, catalog, files, run>>
  BY DEF Publish
<1>2. /\ published \subseteq published' /\ published' \subseteq published \union {now + 1}
      /\ faults' \in [FaultKinds -> 0..MaxFaults]
      /\ faults'["damage"] = faults["damage"] /\ faults'["abort"] = faults["abort"]
  <2>1. "source" \in FaultKinds /\ "damage" \in FaultKinds \ {"source"}
        /\ "abort" \in FaultKinds \ {"source"}
    BY DEF FaultKinds
  <2>2. QED BY <2>1, FaultCounted, Typed DEF Publish, Safety
<1>3. /\ now \in Nat /\ now + 1 \in Times /\ published \subseteq 0..now /\ missed \subseteq published
      /\ catalog.cursor \in Int /\ Retained \in Nat \ {0}
  BY <1>1, Typed, Constants DEF Safety, TypeOK, Times
<1>4. ~Running /\ ~Running' /\ ~Gathering'
  BY <1>1 DEF Running, Gathering
<1>5. TypeOK'
  <2>1. 0..now \subseteq 0..(now + 1) /\ now + 1 \in 0..(now + 1)
    BY <1>3
  <2>2. published' \subseteq 0..(now + 1)
    BY <1>2, <1>3, <2>1
  <2>3. missed' \subseteq published'
    BY <1>1, <1>2, <1>3
  <2>4. QED BY <1>1, <1>2, <1>3, <2>2, <2>3 DEF Safety, TypeOK
<1>6. CatalogLoads' /\ MergedAsConfigured'
  BY <1>1 DEF Safety, CatalogLoads, Loadable, MergedAsConfigured
<1>7. StormCounted'
  <2> SUFFICES ASSUME NEW t \in storm \intersect published', t <= catalog.cursor, t \notin missed'
               PROVE  \E i \in DOMAIN catalog.candidates : t \in catalog.candidates[i].triggers
    BY <1>1 DEF StormCounted
  <2>1. catalog.cursor <= now
    BY DEF Safety, TriggerInv
  <2>2. t # now + 1
    BY <1>3, <2>1
  <2>3. t \in storm \intersect published /\ t \notin missed
    BY <1>1, <1>2, <2>2
  <2>4. QED BY <2>3 DEF Safety, StormCounted
<1>8. RunInv'
  BY <1>1, <1>4 DEF Safety, RunInv
<1>9. TriggerInv'
  <2>1. catalog.cursor <= now /\ now < now'
    BY <1>1, <1>3 DEF Safety, TriggerInv
  <2>2. ASSUME NEW t \in published', catalog.cursor < t, t <= now' - Retained PROVE t \in missed'
    <3>1. t \in published
      BY <1>1, <1>2, <1>3, <2>2
    <3>2. t \in Int
      BY <1>3, <3>1
    <3>3. CASE t <= now - Retained
      BY <1>1, <2>2, <3>1, <3>3 DEF Safety, TriggerInv
    <3>4. CASE ~(t <= now - Retained)
      <4>1. t = now + 1 - Retained
        BY <1>1, <1>3, <2>2, <3>2, <3>4
      <4>2. QED BY <1>1, <1>3, <2>2, <3>1, <3>2, <4>1
    <3>5. QED BY <3>3, <3>4
  <2>3. \A t \in Counted(catalog.candidates) : t \in storm /\ t <= catalog.cursor
    BY DEF Safety, TriggerInv
  <2>4. catalog'.cursor <= now'
    BY <1>1, <1>3, <2>1
  <2>5. QED BY <1>1, <1>4, <2>2, <2>3, <2>4 DEF TriggerInv
<1>10. WorkInv' /\ DamageInv'
  BY <1>1, <1>4 DEF Safety, WorkInv, DamageInv, Explained
<1>11. UndamagedInv'
  BY <1>1, <1>2, <1>4 DEF Safety, UndamagedInv, Undamaged
<1>12. FramesInv'
  BY <1>1, <1>2, <1>4 DEF Safety, FramesInv, Uninterrupted, Undamaged
<1>13. QED BY <1>5, <1>6, <1>7, <1>8, <1>9, <1>10, <1>11, <1>12 DEF Safety

\* A file of the catalog is damaged.
LEMMA DamageSafe ==
  ASSUME Safety, Damage PROVE Safety'
<1>1. /\ run.at = "idle" /\ Fault("damage")
      /\ UNCHANGED <<storm, now, published, catalog, run, missed>>
  BY DEF Damage
<1>2. faults' \in [FaultKinds -> 0..MaxFaults] /\ faults'["damage"] # 0
  <2>1. "damage" \in FaultKinds
    BY DEF FaultKinds
  <2>2. QED BY <1>1, <2>1, FaultCounted DEF Safety
<1>3. ~Running /\ ~Running' /\ ~Gathering'
  BY <1>1 DEF Running, Gathering
<1>4. PICK i \in DOMAIN catalog.candidates :
        LET c == catalog.candidates[i] IN
          \/ files' = [files EXCEPT ![FirstTrigger(c)].collection = Damaged]
          \/ c.context /\ files' = [files EXCEPT ![FirstTrigger(c)].context = Damaged]
          \/ \E t \in c.frames : files' = [files EXCEPT ![FirstTrigger(c)].frames[t] = Damaged]
          \/ \E t \in Times :
               /\ c.evidence[t] \in {"ok", "stale"}
               /\ files' = [files EXCEPT ![FirstTrigger(c)].evidence[t] = Damaged]
  BY DEF Damage
<1>5. PICK c \in Candidate, g \in Times, disk \in Files :
        c = catalog.candidates[i] /\ g = FirstTrigger(c) /\ disk = files[g]
  BY Catalogued
<1>6. files \in [Times -> Files]
  BY Typed DEF Safety
<1>7. PICK new \in Files :
        /\ files' = [files EXCEPT ![g] = new]
        /\ \A t \in Times : new.evidence[t] = Damaged =>
             disk.evidence[t] = Damaged \/ c.evidence[t] \in {"ok", "stale"}
  <2>1. CASE files' = [files EXCEPT ![g].collection = Damaged]
    <3>1. PICK new : new = [disk EXCEPT !.collection = Damaged]
      OBVIOUS
    <3>2. new \in Files /\ new.evidence = disk.evidence
      BY <3>1 DEF Files
    <3>3. files' = [files EXCEPT ![g] = new]
      BY <1>5, <2>1, <3>1
    <3>4. QED BY <3>2, <3>3
  <2>2. CASE files' = [files EXCEPT ![g].context = Damaged]
    <3>1. PICK new : new = [disk EXCEPT !.context = Damaged]
      OBVIOUS
    <3>2. new \in Files /\ new.evidence = disk.evidence
      BY <3>1 DEF Files
    <3>3. files' = [files EXCEPT ![g] = new]
      BY <1>5, <2>2, <3>1
    <3>4. QED BY <3>2, <3>3
  <2>3. ASSUME NEW t \in c.frames, files' = [files EXCEPT ![g].frames[t] = Damaged]
        PROVE  \E new \in Files :
                 /\ files' = [files EXCEPT ![g] = new]
                 /\ \A u \in Times : new.evidence[u] = Damaged =>
                      disk.evidence[u] = Damaged \/ c.evidence[u] \in {"ok", "stale"}
    <3>1. PICK new : new = [disk EXCEPT !.frames = [disk.frames EXCEPT ![t] = Damaged]]
      OBVIOUS
    <3>2. new \in Files /\ new.evidence = disk.evidence
      <4>1. [disk.frames EXCEPT ![t] = Damaged] \in [Times -> {"frame", Absent, Damaged}]
        BY DEF Files
      <4>2. QED BY <3>1, <4>1 DEF Files
    <3>3. files' = [files EXCEPT ![g] = new]
      BY <1>5, <2>3, <3>1
    <3>4. QED BY <3>2, <3>3
  <2>4. ASSUME NEW t \in Times, c.evidence[t] \in {"ok", "stale"},
               files' = [files EXCEPT ![g].evidence[t] = Damaged]
        PROVE  \E new \in Files :
                 /\ files' = [files EXCEPT ![g] = new]
                 /\ \A u \in Times : new.evidence[u] = Damaged =>
                      disk.evidence[u] = Damaged \/ c.evidence[u] \in {"ok", "stale"}
    <3>1. PICK new : new = [disk EXCEPT !.evidence = [disk.evidence EXCEPT ![t] = Damaged]]
      OBVIOUS
    <3>2. new \in Files /\ \A u \in Times \ {t} : new.evidence[u] = disk.evidence[u]
      <4>1. /\ [disk.evidence EXCEPT ![t] = Damaged] \in [Times -> {"ok", "stale", Absent, Damaged}]
            /\ \A u \in Times \ {t} : [disk.evidence EXCEPT ![t] = Damaged][u] = disk.evidence[u]
        BY DEF Files
      <4>2. QED BY <3>1, <4>1 DEF Files
    <3>3. files' = [files EXCEPT ![g] = new]
      BY <1>5, <2>4, <3>1
    <3>4. QED BY <2>4, <3>2, <3>3
  <2>5. QED BY <1>4, <1>5, <2>1, <2>2, <2>3, <2>4
<1>8. files' \in [Times -> Files] /\ files'[g] = new /\ \A f \in Times \ {g} : files'[f] = files[f]
  BY <1>6, <1>7
<1>9. TypeOK'
  BY <1>1, <1>2, <1>8 DEF Safety, TypeOK
<1>10. /\ CatalogLoads' /\ MergedAsConfigured' /\ StormCounted'
       /\ RunInv' /\ TriggerInv' /\ WorkInv'
  BY <1>1, <1>3 DEF Safety, CatalogLoads, Loadable, MergedAsConfigured, StormCounted, RunInv,
                    TriggerInv, WorkInv
<1>11. DamageInv'
  <2>1. ASSUME NEW f \in Times, NEW t \in Times, files'[f].evidence[t] = Damaged
        PROVE  Explained(f, t)
    <3>1. CASE files[f].evidence[t] = Damaged
      BY <3>1 DEF Safety, DamageInv
    <3>2. CASE files[f].evidence[t] # Damaged
      <4>1. f = g
        BY <1>8, <2>1, <3>2
      <4>2. c.evidence[t] \in {"ok", "stale"}
        BY <1>5, <1>7, <1>8, <2>1, <3>2, <4>1
      <4>3. QED BY <1>5, <4>1, <4>2 DEF Explained
    <3>3. QED BY <3>1, <3>2
  <2>2. QED BY <1>1, <1>3, <2>1 DEF DamageInv, Explained
<1>12. UndamagedInv' /\ FramesInv'
  BY <1>2 DEF UndamagedInv, FramesInv, Uninterrupted, Undamaged
<1>13. QED BY <1>9, <1>10, <1>11, <1>12 DEF Safety

\* A review decides a pending candidate, if it validates, and leaves its context.
LEMMA ReviewSafe ==
  ASSUME Safety, NEW i \in DOMAIN catalog.candidates, NEW decision \in {"approved", "rejected"},
         NEW given \in BOOLEAN, Review(i, decision, given)
  PROVE  Safety'
<1>1. PICK c \in Candidate, g \in Times, disk \in Files :
        c = catalog.candidates[i] /\ g = FirstTrigger(c) /\ disk = files[g]
  BY Catalogued
<1>2. PICK reviewed : reviewed = [c EXCEPT !.review = decision, !.context = given]
  OBVIOUS
<1>3. /\ run.at = "idle" /\ Verified(catalog.candidates)
      /\ c.review = "pending" /\ Complete(c)
      /\ files' = Persisted(c, given)
      /\ catalog' = IF Valid(reviewed) THEN [catalog EXCEPT !.candidates[i] = reviewed]
                    ELSE catalog
      /\ UNCHANGED <<storm, now, published, run, faults, missed>>
  BY <1>1, <1>2 DEF Review
<1>4. ~Running /\ ~Running' /\ ~Gathering' /\ run'.at = "idle"
  BY <1>3 DEF Running, Gathering
<1>5. /\ reviewed \in Candidate /\ reviewed.triggers = c.triggers /\ reviewed.frames = c.frames
      /\ reviewed.collection = c.collection /\ reviewed.evidence = c.evidence
      /\ reviewed.review # "pending" /\ reviewed.context = given
  BY <1>2 DEF Candidate
<1>6. /\ Window(reviewed) = Window(c) /\ FirstTrigger(reviewed) = FirstTrigger(c)
      /\ LastTrigger(reviewed) = LastTrigger(c)
  BY <1>5, SameWindow
<1>7. PICK s \in Seq(Candidate), r \in Seq(Candidate) :
        s = catalog.candidates /\ r = [s EXCEPT ![i] = reviewed]
  <2>1. catalog.candidates \in Seq(Candidate)
    BY Typed DEF Safety
  <2>2. [catalog.candidates EXCEPT ![i] = reviewed] \in Seq(Candidate)
    BY <1>5, <2>1
  <2>3. QED BY <2>1, <2>2
<1>8. /\ DOMAIN r = DOMAIN s /\ r[i] = reviewed /\ i \in DOMAIN s /\ s[i] = c
      /\ \A j \in DOMAIN s \ {i} : r[j] = s[j]
  BY <1>1, <1>7
<1>9. PICK new \in Files :
        /\ files' = [files EXCEPT ![g] = new]
        /\ new.evidence = disk.evidence /\ new.frames = disk.frames
        /\ new.collection = disk.collection
        /\ disk.context = "context" => new.context = "context"
        /\ given => new.context = "context"
  <2>1. files \in [Times -> Files]
    BY Typed DEF Safety
  <2>2. PICK n : n = IF given THEN [disk EXCEPT !.context = "context"] ELSE disk
    OBVIOUS
  <2>3. n \in Files /\ n.evidence = disk.evidence /\ n.frames = disk.frames
        /\ n.collection = disk.collection /\ (disk.context = "context" => n.context = "context")
        /\ (given => n.context = "context")
    BY <2>2 DEF Files
  <2>4. files' = [files EXCEPT ![g] = n]
    BY <1>1, <1>3, <2>1, <2>2 DEF Persisted
  <2>5. QED BY <2>3, <2>4
<1>10. /\ files' \in [Times -> Files] /\ files'[g] = new
       /\ \A f \in Times \ {g} : files'[f] = files[f]
  BY <1>9, Typed DEF Safety
<1>11. /\ catalog'.cursor = catalog.cursor
       /\ catalog'.candidates = s \/ (catalog'.candidates = r /\ Valid(reviewed))
       /\ catalog' \in [cursor : Times \union {NoTime}, candidates : Seq(Candidate)]
  <2>1. catalog \in [cursor : Times \union {NoTime}, candidates : Seq(Candidate)]
    BY DEF Safety, TypeOK
  <2>2. CASE Valid(reviewed)
    <3>1. catalog' = [catalog EXCEPT !.candidates = r]
      BY <1>3, <1>7, <2>2
    <3>2. QED BY <2>1, <2>2, <3>1
  <2>3. CASE ~Valid(reviewed)
    BY <1>3, <1>7, <2>1, <2>3
  <2>4. QED BY <2>2, <2>3
<1>12. TypeOK'
  BY <1>3, <1>10, <1>11 DEF Safety, TypeOK
<1>13. CatalogLoads'
  <2>1. ValidAll(s)
    BY <1>7 DEF Safety, CatalogLoads, Loadable
  <2>2. Valid(reviewed) => ValidAll(r)
    BY <1>8, <2>1 DEF ValidAll
  <2>3. QED BY <1>11, <2>1, <2>2 DEF CatalogLoads, Loadable, ValidAll
<1>14. ASSUME NEW j \in DOMAIN s
       PROVE  /\ r[j].triggers = s[j].triggers /\ FirstTrigger(r[j]) = FirstTrigger(s[j])
              /\ LastTrigger(r[j]) = LastTrigger(s[j]) /\ r[j].evidence = s[j].evidence
              /\ Collects(s[j]) => Collects(r[j])
              /\ r[j].review = "pending" => s[j].review = "pending"
  BY <1>5, <1>6, <1>8 DEF Collects
<1>15. MergedAsConfigured'
  <2>1. Merged(s)
    BY <1>7 DEF Safety, MergedAsConfigured
  <2>2. Merged(r)
    BY <1>8, <1>14, <2>1 DEF Merged
  <2>3. QED BY <1>11, <2>1, <2>2 DEF MergedAsConfigured
<1>16. Counted(r) = Counted(s)
  BY <1>8, <1>14 DEF Counted
<1>17. StormCounted'
  BY <1>3, <1>7, <1>8, <1>11, <1>14 DEF Safety, StormCounted
<1>18. RunInv'
  BY <1>3, <1>4 DEF Safety, RunInv
<1>19. TriggerInv'
  BY <1>3, <1>4, <1>7, <1>11, <1>16 DEF Safety, TriggerInv
<1>20. WorkInv'
  BY <1>4, <1>7, <1>8, <1>11, <1>14 DEF Safety, WorkInv
<1>21. DamageInv'
  <2>1. ASSUME NEW f \in Times, NEW t \in Times, files'[f].evidence[t] = Damaged
        PROVE  Explained(f, t)'
    <3>1. Explained(f, t)
      BY <1>1, <1>9, <1>10, <2>1 DEF Safety, DamageInv
    <3>2. QED BY <1>7, <1>8, <1>11, <1>14, <3>1 DEF Explained
  <2>2. QED BY <1>4, <2>1 DEF DamageInv
<1>22. ASSUME Undamaged, NEW j \in DOMAIN s
       PROVE  /\ Preserved(s[j], files'[FirstTrigger(s[j])])
              /\ Preserved(r[j], files'[FirstTrigger(s[j])])
  <2>1. PICK e \in Candidate, f \in Times : e = s[j] /\ f = FirstTrigger(e)
    BY <1>7, Catalogued
  <2>2. Preserved(e, files[f])
    BY <1>7, <1>22, <2>1 DEF Safety, UndamagedInv
  <2>3. Preserved(e, files'[f])
    <3>1. CASE f = g
      <4>1. Preserved(e, new)
        BY <1>1, <1>9, <2>2, <3>1, StaysPreserved
      <4>2. QED BY <1>10, <3>1, <4>1
    <3>2. CASE f # g
      BY <1>10, <2>2, <3>2
    <3>3. QED BY <3>1, <3>2
  <2>4. CASE j = i
    <3>1. e = c /\ f = g
      BY <1>1, <1>8, <2>1, <2>4
    <3>2. c.collection # Absent
      <4>1. Collects(c)
        BY <1>1 DEF Safety, WorkInv
      <4>2. QED BY <1>3, <4>1, CompleteCollected
    <3>3. disk.collection = c.collection
      BY <1>1, <1>3, <3>2 DEF Verified
    <3>4. Preserved(reviewed, new)
      BY <1>5, <1>9, <1>10, <2>3, <3>1, <3>3 DEF Preserved, Intact, EvidenceMatches
    <3>5. QED BY <1>8, <1>10, <2>1, <2>3, <2>4, <3>1, <3>4
  <2>5. CASE j # i
    BY <1>8, <2>1, <2>3, <2>5
  <2>6. QED BY <2>4, <2>5
<1>23. UndamagedInv'
  <2> SUFFICES ASSUME Undamaged
      PROVE  /\ \A f \in Times, t \in Times : files'[f].frames[t] # Damaged
             /\ \A j \in DOMAIN catalog'.candidates :
                  Preserved(catalog'.candidates[j], files'[FirstTrigger(catalog'.candidates[j])])
    BY <1>3, <1>4 DEF UndamagedInv, Undamaged
  <2>1. \A f \in Times, t \in Times : files'[f].frames[t] # Damaged
    BY <1>1, <1>9, <1>10 DEF Safety, UndamagedInv
  <2>2. QED BY <1>8, <1>11, <1>14, <1>22, <2>1
<1>24. FramesInv'
  <2> SUFFICES ASSUME Uninterrupted, NEW j \in DOMAIN catalog'.candidates
               PROVE  Vouched(catalog'.candidates[j], files'[FirstTrigger(catalog'.candidates[j])])
    BY <1>3, <1>4 DEF FramesInv, Uninterrupted, Undamaged
  <2>1. j \in DOMAIN s /\ Vouched(s[j], files[FirstTrigger(s[j])])
    BY <1>4, <1>7, <1>8, <1>11 DEF Safety, FramesInv
  <2>2. FirstTrigger(s[j]) \in Times
    BY <1>7, <2>1, Catalogued
  <2>3. files'[FirstTrigger(s[j])].collection = files[FirstTrigger(s[j])].collection
    BY <1>1, <1>9, <1>10, <2>2
  <2>4. catalog'.candidates[j].collection = s[j].collection
        /\ FirstTrigger(catalog'.candidates[j]) = FirstTrigger(s[j])
    BY <1>5, <1>8, <1>11, <1>14, <2>1
  <2>5. QED BY <2>1, <2>3, <2>4 DEF Vouched
<1>25. QED BY <1>12, <1>13, <1>15, <1>17, <1>18, <1>19, <1>20, <1>21, <1>23, <1>24 DEF Safety

(***************************************************************************)
(* The start of a run, and its triggers                                    *)
(***************************************************************************)
\* What the run scans comes after the cursor, and before the end of the source.
LEMMA ScannedTimes ==
  ASSUME Safety
  PROVE  /\ Scanned \in SUBSET Times /\ Scanned \subseteq History /\ History \in SUBSET Times
         /\ \A t \in Scanned : catalog.cursor < t /\ t <= now
<1>1. Scanned \subseteq History /\ History \in SUBSET Times /\ History \subseteq published
  BY Typed DEF Scanned, Safety, History
<1>2. ASSUME NEW t \in Scanned PROVE catalog.cursor < t /\ t <= now
  <2>1. t \in Times /\ t \in Nat /\ t \in published
    BY <1>1, Constants DEF Times
  <2>2. t <= now
    BY <2>1 DEF Safety, TypeOK
  <2>3. catalog.cursor < t
    <3>1. CASE catalog.cursor = NoTime
      BY <2>1, <3>1 DEF NoTime
    <3>2. CASE catalog.cursor # NoTime
      BY <3>2, <2>1, Typed DEF Scanned, Safety
    <3>3. QED BY <3>1, <3>2
  <2>4. QED BY <2>2, <2>3
<1>3. QED BY <1>1, <1>2

LEMMA BeginSafe ==
  ASSUME Safety, Begin PROVE Safety'
<1>1. /\ run.at = "idle" /\ Loadable
      /\ UNCHANGED <<storm, now, published, catalog, files, faults, missed>>
  BY DEF Begin, World
<1>2. PICK cursor : cursor = IF Scanned = {} THEN catalog.cursor ELSE Latest(Scanned)
  OBVIOUS
<1>3. run' = [at |-> "scan", history |-> History, cursor |-> cursor,
              triggers |-> Scanned \intersect storm, work |-> catalog.candidates, i |-> 1,
              collected |-> {}]
  BY <1>2 DEF Begin
<1>4. PICK s \in Seq(Candidate) : s = catalog.candidates
  BY Typed DEF Safety
<1>5. /\ run'.at = "scan" /\ run'.history = History /\ run'.cursor = cursor
      /\ run'.triggers = Scanned \intersect storm /\ run'.work = s /\ run'.i = 1
      /\ run'.collected = {}
  BY <1>3, <1>4
<1>6. Running' /\ ~Running /\ ~Gathering'
  BY <1>1, <1>5 DEF Running, Gathering
<1>7. /\ catalog.cursor \in Int /\ now \in Int /\ catalog.cursor <= now
      /\ \A t \in Times : t \in Nat
  BY Typed, Constants DEF Safety, TriggerInv, Times
<1>8. /\ cursor \in Times \union {NoTime} /\ catalog.cursor <= cursor /\ cursor <= now
      /\ \A t \in Scanned : t <= cursor
      /\ cursor \in Int
  <2>1. CASE Scanned = {}
    BY <1>2, <1>7, <2>1, Typed DEF Safety
  <2>2. CASE Scanned # {}
    <3>1. cursor \in Scanned /\ \A t \in Scanned : t <= cursor
      BY <1>2, <2>2, ScannedTimes, LatestTime
    <3>2. cursor \in Times /\ catalog.cursor < cursor /\ cursor <= now
      BY <3>1, ScannedTimes
    <3>3. QED BY <1>7, <3>1, <3>2
  <2>3. QED BY <2>1, <2>2
<1>9. ASSUME NEW i \in DOMAIN s
      PROVE  /\ ~Planned(i)' /\ ~Written(i)' /\ Original(i)' = s[i]
             /\ s[i] \in Candidate /\ Collects(s[i]) /\ Extends(s[i], s[i])
  <2>1. ~Planned(i)' /\ ~Written(i)'
    BY <1>5 DEF Planned, Written
  <2>2. Original(i)' = s[i]
    BY <1>1, <1>4 DEF Original
  <2>3. Collects(s[i])
    BY <1>4 DEF Safety, WorkInv
  <2>4. QED BY <2>1, <2>2, <2>3 DEF Extends
<1>10. TypeOK'
  <2>1. run' \in Runs
    <3>1. Scanned \intersect storm \in SUBSET Times /\ History \in SUBSET Times
          /\ {} \in SUBSET Times
      BY ScannedTimes
    <3>2. QED BY <1>3, <1>4, <1>8, <3>1 DEF Runs
  <2>2. QED BY <1>1, <2>1 DEF Safety, TypeOK
<1>11. CatalogLoads' /\ MergedAsConfigured' /\ StormCounted'
  BY <1>1 DEF Safety, CatalogLoads, Loadable, MergedAsConfigured, StormCounted
<1>12. RunInv'
  <2>1. Merged(s)
    BY <1>4 DEF Safety, MergedAsConfigured
  <2>2. History' = History
    BY <1>1 DEF History
  <2>3. QED BY <1>1, <1>5, <1>6, <1>8, <2>1, <2>2 DEF RunInv
<1>13. TriggerInv'
  <2>1. ASSUME NEW t \in Counted(s) PROVE t \in storm /\ t <= catalog.cursor /\ t \in Int
    <3>1. t \in storm /\ t <= catalog.cursor
      BY <1>4 DEF Safety, TriggerInv
    <3>2. QED BY <1>7, <3>1, Typed DEF Safety
  <2>2. \A t \in Counted(s) : t <= cursor
    BY <1>7, <1>8, <2>1
  <2>3. \A u \in Scanned \intersect storm : /\ catalog.cursor < u /\ u <= cursor /\ u \in Int
    <3> TAKE u \in Scanned \intersect storm
    <3>1. u \in Times /\ catalog.cursor < u
      BY ScannedTimes
    <3>2. u <= cursor
      BY <1>8
    <3>3. u \in Int
      BY <1>7, <3>1
    <3>4. QED BY <3>1, <3>2, <3>3
  <2>4. \A t \in Counted(s), u \in Scanned \intersect storm : t < u
    BY <1>7, <2>1, <2>3
  <2>5. ASSUME NEW t \in storm \intersect published, t <= cursor, t \notin missed \union Forgotten'
        PROVE  t \in (Scanned \intersect storm) \union Counted(s)
    <3>1. t \in Int /\ t \in Times /\ t \in published /\ t \in storm
      BY <1>7, Typed DEF Safety
    <3>2. CASE t <= catalog.cursor
      BY <1>4, <2>5, <3>2 DEF Safety, StormCounted, Counted
    <3>3. CASE catalog.cursor < t
      <4>1. t \in History
        <5>1. ~(t <= now - Retained)
          BY <2>5, <3>1, <3>3 DEF Safety, TriggerInv
        <5>2. QED BY <1>7, <3>1, <5>1, Constants DEF History
      <4>2. Scanned # {} /\ cursor = Latest(Scanned)
        BY <1>2, <1>7, <2>5, <3>1, <3>3
      <4>3. CASE catalog.cursor # NoTime
        BY <3>1, <3>3, <4>1, <4>3 DEF Scanned
      <4>4. CASE catalog.cursor = NoTime
        <5>1. PICK last \in History : last = Latest(History) /\ \A u \in History : u <= last
          BY <4>1, ScannedTimes, LatestTime
        <5>2. last \in Int /\ last \in Times
          BY <1>7, ScannedTimes
        <5>3. last \in Scanned
          BY <4>4, <5>1, <5>2, Constants DEF Scanned
        <5>4. cursor = last
          <6>1. last <= cursor /\ cursor \in Scanned
            BY <1>8, <4>2, <5>3, ScannedTimes, LatestTime
          <6>2. cursor <= last
            BY <5>1, <6>1, ScannedTimes
          <6>3. QED BY <1>8, <5>2, <6>1, <6>2
        <5>5. cursor # NoTime
          BY <1>7, <5>2, <5>4 DEF NoTime
        <5>6. ~(t < cursor - Lookback)
          <6>1. Forgotten' = {u \in History : u < cursor - Lookback}
            BY <1>1, <1>5, <4>4, <5>5 DEF Forgotten
          <6>2. QED BY <2>5, <4>1, <6>1
        <5>7. t >= last - Lookback
          BY <1>8, <3>1, <5>4, <5>6, Constants
        <5>8. QED BY <3>1, <4>1, <4>4, <5>1, <5>7 DEF Scanned
      <4>5. QED BY <4>3, <4>4
    <3>4. QED BY <1>7, <3>1, <3>2, <3>3
  <2>6. QED BY <1>1, <1>4, <1>5, <2>1, <2>2, <2>3, <2>4, <2>5 DEF Safety, TriggerInv
<1>14. WorkInv'
  BY <1>1, <1>4, <1>5, <1>9 DEF Safety, WorkInv, Worked
<1>15. DamageInv'
  BY <1>1, <1>5, <1>9 DEF Safety, DamageInv, Explained
<1>16. UndamagedInv'
  <2> SUFFICES ASSUME Undamaged
      PROVE  /\ \A f \in Times, t \in Times : files[f].frames[t] # Damaged
             /\ \A i \in DOMAIN s : Preserved(s[i], files[FirstTrigger(s[i])])
             /\ \A i \in DOMAIN s : Prepared(Original(i), run.work[i], files[FirstTrigger(run.work[i])], Written(i))'
    BY <1>1, <1>4, <1>5, <1>6 DEF UndamagedInv, Undamaged
  <2>1. \A f \in Times, t \in Times : files[f].frames[t] # Damaged
    BY DEF Safety, UndamagedInv
  <2>2. \A i \in DOMAIN s : Preserved(s[i], files[FirstTrigger(s[i])])
    BY <1>4 DEF Safety, UndamagedInv
  <2>3. ASSUME NEW i \in DOMAIN s
        PROVE  Prepared(Original(i), run.work[i], files[FirstTrigger(run.work[i])], Written(i))'
    <3>1. Intact(s[i], files[FirstTrigger(s[i])])
      BY <2>2 DEF Preserved
    <3>2. Reviewed(s[i]) => Complete(s[i])
      BY <1>1, <1>4 DEF Loadable, ValidAll, Valid, Reviewed
    <3>3. QED BY <1>1, <1>5, <1>9, <3>1, <3>2 DEF Prepared
  <2>4. QED BY <2>1, <2>2, <2>3
<1>17. FramesInv'
  <2> SUFFICES ASSUME Uninterrupted
      PROVE  /\ \A i \in DOMAIN s : Vouched(s[i], files[FirstTrigger(s[i])])
             /\ \A i \in DOMAIN s : Original(i)'.frames \subseteq s[i].frames
    BY <1>1, <1>4, <1>5, <1>6 DEF FramesInv, Uninterrupted, Undamaged
  <2>1. \A i \in DOMAIN s : Vouched(s[i], files[FirstTrigger(s[i])])
    BY <1>4, <1>6 DEF Safety, FramesInv
  <2>2. QED BY <1>9, <2>1
<1>18. QED BY <1>10, <1>11, <1>12, <1>13, <1>14, <1>15, <1>16, <1>17 DEF Safety

\* Without triggers left the run goes on to its first candidate, or to its end.
LEMMA ScanEndsSafe ==
  ASSUME Safety, Scan, run.triggers = {} PROVE Safety'
<1>1. /\ run.at = "scan" /\ UNCHANGED <<storm, now, published, catalog, files, faults, missed>>
      /\ run' = [run EXCEPT !.at = IF run.work = <<>> THEN "publish" ELSE "plan"]
  BY DEF Scan, World
<1>2. /\ run \in Runs /\ run.work \in Seq(Candidate) /\ run.i = 1
  BY <1>1, Typed DEF Safety, RunInv
<1>3. /\ run' \in Runs /\ run'.at = IF run.work = <<>> THEN "publish" ELSE "plan"
      /\ run'.work = run.work /\ run'.i = 1 /\ run'.history = run.history
      /\ run'.cursor = run.cursor /\ run'.triggers = run.triggers
  BY <1>1, <1>2 DEF Runs
<1>4. Running /\ Running' /\ ~Gathering'
  BY <1>1, <1>3 DEF Running, Gathering
<1>5. ASSUME NEW i \in DOMAIN run.work
      PROVE  /\ ~Planned(i) /\ ~Written(i) /\ ~Planned(i)' /\ ~Written(i)'
             /\ Original(i)' = Original(i)
  <2>1. i \in 1..Len(run.work) /\ run.work # <<>>
    BY <1>2
  <2>2. QED BY <1>1, <1>2, <1>3, <2>1 DEF Planned, Written, Original
<1>6. TypeOK'
  BY <1>1, <1>3 DEF Safety, TypeOK
<1>7. CatalogLoads' /\ MergedAsConfigured' /\ StormCounted'
  BY <1>1 DEF Safety, CatalogLoads, Loadable, MergedAsConfigured, StormCounted
<1>8. RunInv'
  <2>1. run.work # <<>> => 1 \in DOMAIN run.work
    BY <1>2
  <2>2. History' = History
    BY <1>1 DEF History
  <2>3. /\ run.history = History /\ catalog.cursor <= run.cursor /\ run.cursor <= now
        /\ Merged(run.work)
    BY <1>4 DEF Safety, RunInv
  <2>4. QED BY <1>1, <1>3, <1>4, <2>1, <2>2, <2>3 DEF RunInv
<1>9. TriggerInv'
  <2>1. Forgotten' = Forgotten
    BY <1>1, <1>3 DEF Forgotten
  <2>2. QED BY <1>1, <1>3, <1>4, <2>1 DEF Safety, TriggerInv
<1>10. WorkInv'
  BY <1>1, <1>3, <1>4, <1>5 DEF Safety, WorkInv, Worked
<1>11. DamageInv'
  BY <1>1, <1>3, <1>5 DEF Safety, DamageInv, Explained
<1>12. UndamagedInv'
  BY <1>1, <1>3, <1>4, <1>5 DEF Safety, UndamagedInv, Undamaged, Prepared
<1>13. FramesInv'
  BY <1>1, <1>3, <1>4, <1>5, Catalogued DEF Safety, FramesInv, Uninterrupted, Undamaged
<1>14. QED BY <1>6, <1>7, <1>8, <1>9, <1>10, <1>11, <1>12, <1>13 DEF Safety

\* A later trigger leaves a candidate what it was when the run began.
LEMMA ExtendedWork ==
  ASSUME NEW c \in Candidate, NEW d \in Candidate, NEW e \in Candidate,
         Worked(c, d, FALSE, FALSE), TriggersOnly(d, e)
  PROVE  /\ Worked(c, e, FALSE, FALSE) /\ e.frames = d.frames
         /\ \A disk : Prepared(c, d, disk, FALSE) => Prepared(c, e, disk, FALSE)
<1>1. /\ e.frames = d.frames /\ e.collection = d.collection /\ e.evidence = d.evidence
      /\ e.review = d.review /\ e.context = d.context /\ e.plan = d.plan
      /\ d.triggers \subseteq e.triggers /\ FirstTrigger(e) = FirstTrigger(d)
      /\ LastTrigger(d) <= LastTrigger(e) /\ (d.review # "pending" => e.triggers = d.triggers)
  <2>1. PICK T : T = e.triggers /\ e = [d EXCEPT !.triggers = T]
    BY DEF TriggersOnly
  <2>2. QED BY <2>1 DEF TriggersOnly, Candidate
<1>2. Window(d) \subseteq Window(e)
  <2>1. FirstTrigger(d) \in Int /\ LastTrigger(d) \in Int /\ LastTrigger(e) \in Int
    BY Triggers, Constants DEF Times
  <2>2. QED BY <1>1, <2>1, Constants DEF Window
<1>3. Extends(c, e) /\ Collects(e)
  BY <1>1, <1>2 DEF Worked, Extends, Collects
<1>4. Worked(c, e, FALSE, FALSE)
  BY <1>1, <1>3 DEF Worked
<1>5. ASSUME NEW disk, Prepared(c, d, disk, FALSE) PROVE Prepared(c, e, disk, FALSE)
  <2>1. Intact(e, disk)
    BY <1>1, <1>5 DEF Prepared, Intact, EvidenceMatches
  <2>2. Reviewed(e) => Complete(e)
    BY <1>1, <1>5, SameWindow DEF Prepared, Reviewed, Complete
  <2>3. QED BY <1>1, <1>5, <2>1, <2>2 DEF Prepared
<1>6. QED BY <1>1, <1>4, <1>5

LEMMA ScanAddsSafe ==
  ASSUME Safety, Scan, run.triggers # {} PROVE Safety'
<1>1. PICK t \in Times : t = Earliest(run.triggers) /\ t \in run.triggers
                         /\ \A u \in run.triggers : t <= u
  <2>1. PICK T \in SUBSET Times : T = run.triggers
    BY Typed DEF Safety
  <2>2. QED BY <2>1, EarliestTime
<1>2. /\ run.at = "scan" /\ UNCHANGED <<storm, now, published, catalog, files, faults, missed>>
      /\ run' = [run EXCEPT !.work = AddTrigger(run.work, t), !.triggers = run.triggers \ {t}]
  BY <1>1 DEF Scan, World
<1>3. PICK s \in Seq(Candidate) : s = run.work
  BY Typed DEF Safety
<1>4. /\ run \in Runs /\ run.i = 1 /\ Running /\ Merged(s)
  BY <1>2, <1>3, Typed DEF Safety, RunInv, Running
<1>5. \A i \in DOMAIN s : \A u \in s[i].triggers : u < t
  <2>1. \A u \in Counted(s) : u < t
    BY <1>1, <1>3, <1>4 DEF Safety, TriggerInv
  <2>2. QED BY <2>1 DEF Counted
<1>6. PICK a \in Seq(Candidate) : a = AddTrigger(s, t) /\ (Opened(s, t, a) \/ \E k \in DOMAIN s : Grown(s, t, a, k))
  BY <1>5, AddedTrigger
<1>7. /\ Counted(a) = Counted(s) \union {t}
      /\ Len(s) <= Len(a) /\ \A i \in DOMAIN s : TriggersOnly(s[i], a[i])
      /\ \A i \in DOMAIN a \ DOMAIN s : a[i] = NewCandidate(t)
  BY <1>5, <1>6, AddedToOthers
<1>8. /\ run' \in Runs /\ run'.at = "scan" /\ run'.work = a /\ run'.i = 1
      /\ run'.history = run.history /\ run'.cursor = run.cursor
      /\ run'.triggers = run.triggers \ {t}
  <2>1. run.triggers \ {t} \in SUBSET Times
    BY Typed DEF Safety
  <2>2. QED BY <1>2, <1>3, <1>4, <1>6, <2>1 DEF Runs
<1>9. Running' /\ ~Gathering'
  BY <1>8 DEF Running, Gathering
<1>10. ASSUME NEW i \in DOMAIN a
       PROVE  /\ ~Planned(i) /\ ~Written(i) /\ ~Planned(i)' /\ ~Written(i)'
  <2>1. i \in Nat /\ 1 <= i
    OBVIOUS
  <2>2. QED BY <1>2, <1>4, <1>8, <2>1 DEF Planned, Written
<1>11. /\ catalog.candidates \in Seq(Candidate) /\ Len(catalog.candidates) <= Len(s)
       /\ DOMAIN catalog.candidates \subseteq DOMAIN s /\ DOMAIN s \subseteq DOMAIN a
  <2>1. catalog.candidates \in Seq(Candidate) /\ Len(catalog.candidates) <= Len(s)
    BY <1>3, <1>4, Typed DEF Safety, WorkInv
  <2>2. QED BY <1>7, <2>1
<1>12. ASSUME NEW i \in DOMAIN s
       PROVE  /\ Original(i)' = Original(i) /\ FirstTrigger(a[i]) = FirstTrigger(s[i])
              /\ a[i].frames = s[i].frames
              /\ Worked(Original(i), a[i], FALSE, FALSE)
              /\ Undamaged => Prepared(Original(i), a[i], files[FirstTrigger(a[i])], FALSE)
              /\ Uninterrupted => Original(i).frames \subseteq a[i].frames
  <2>1. PICK c \in Candidate, d \in Candidate, e \in Candidate :
          c = Original(i) /\ d = s[i] /\ e = a[i]
    BY <1>3, <1>4, <1>11, Originals
  <2>2. ~Planned(i) /\ ~Written(i)
    BY <1>10, <1>11
  <2>3. Worked(c, d, FALSE, FALSE)
    BY <1>3, <1>4, <2>1, <2>2 DEF Safety, WorkInv, Worked
  <2>4. TriggersOnly(d, e)
    BY <1>7, <2>1
  <2>5. FirstTrigger(e) = FirstTrigger(d)
    BY <2>4 DEF TriggersOnly
  <2>6. Original(i)' = Original(i)
    BY <1>2, <1>3, <1>8, <2>1, <2>5 DEF Original
  <2>7. Worked(c, e, FALSE, FALSE) /\ e.frames = d.frames
        /\ \A disk : Prepared(c, d, disk, FALSE) => Prepared(c, e, disk, FALSE)
    BY <2>3, <2>4, ExtendedWork
  <2>8. Undamaged => Prepared(c, d, files[FirstTrigger(d)], FALSE)
    BY <1>3, <1>4, <2>1, <2>2 DEF Safety, UndamagedInv, Prepared
  <2>9. Uninterrupted => c.frames \subseteq d.frames
    BY <1>3, <1>4, <2>1 DEF Safety, FramesInv
  <2>10. QED BY <2>1, <2>5, <2>6, <2>7, <2>8, <2>9
<1>13. ASSUME NEW i \in DOMAIN a \ DOMAIN s
       PROVE  /\ Original(i)' = a[i]
              /\ Worked(a[i], a[i], FALSE, FALSE)
              /\ Prepared(a[i], a[i], files[FirstTrigger(a[i])], FALSE)
  <2>1. PICK n \in Candidate : n = NewCandidate(t) /\ n = a[i] /\ FirstTrigger(n) = t
    BY <1>7, NewOne
  <2>2. Original(i)' = n
    BY <1>2, <1>8, <1>11, <2>1 DEF Original
  <2>3. Worked(n, n, FALSE, FALSE)
    BY <2>1, NothingPreserved DEF Worked, Extends
  <2>4. Prepared(n, n, files[FirstTrigger(n)], FALSE)
    BY <2>1, NothingPreserved DEF Prepared
  <2>5. QED BY <2>1, <2>2, <2>3, <2>4
<1>14. TypeOK'
  BY <1>2, <1>8 DEF Safety, TypeOK
<1>15. CatalogLoads' /\ MergedAsConfigured' /\ StormCounted'
  BY <1>2 DEF Safety, CatalogLoads, Loadable, MergedAsConfigured, StormCounted
<1>16. RunInv'
  <2>1. Merged(a)
    BY <1>4, <1>5, <1>6, StillMerged
  <2>2. History' = History
    BY <1>2 DEF History
  <2>3. /\ run.history = History /\ catalog.cursor <= run.cursor /\ run.cursor <= now
    BY <1>4 DEF Safety, RunInv
  <2>4. QED BY <1>2, <1>8, <1>9, <2>1, <2>2, <2>3 DEF RunInv
<1>17. TriggerInv'
  <2>1. Forgotten' = Forgotten
    BY <1>2, <1>8 DEF Forgotten
  <2>2. /\ catalog.cursor <= now
        /\ \A u \in published : catalog.cursor < u /\ u <= now - Retained => u \in missed
        /\ \A u \in Counted(catalog.candidates) : u \in storm /\ u <= catalog.cursor
        /\ run.triggers \subseteq storm
        /\ \A u \in Counted(s) : u \in storm /\ u <= run.cursor
        /\ \A u \in Counted(s), v \in run.triggers : u < v
        /\ \A u \in run.triggers : catalog.cursor < u /\ u <= run.cursor
        /\ \A u \in storm \intersect published :
             u <= run.cursor /\ u \notin missed \union Forgotten => u \in run.triggers \union Counted(s)
    BY <1>3, <1>4 DEF Safety, TriggerInv
  <2>3. \A v \in run.triggers \ {t} : t < v
    <3> TAKE v \in run.triggers \ {t}
    <3>1. v \in Times /\ t \in Times
      BY Typed DEF Safety
    <3>2. t <= v /\ t # v
      BY <1>1
    <3>3. QED BY <3>1, <3>2, Constants DEF Times
  <2>4. \A u \in Counted(a) : u \in storm /\ u <= run.cursor
    BY <1>1, <1>7, <2>2
  <2>5. \A u \in Counted(a), v \in run.triggers \ {t} : u < v
    BY <1>7, <2>2, <2>3
  <2>6. \A u \in storm \intersect published :
          u <= run.cursor /\ u \notin missed \union Forgotten =>
            u \in (run.triggers \ {t}) \union Counted(a)
    BY <1>7, <2>2
  <2>7. QED BY <1>2, <1>8, <2>1, <2>2, <2>4, <2>5, <2>6 DEF TriggerInv
<1>18. WorkInv'
  <2>1. Len(catalog.candidates) <= Len(a)
    BY <1>7, <1>11
  <2>2. ASSUME NEW i \in DOMAIN a PROVE Worked(Original(i)', a[i], Planned(i)', Written(i)')
    <3>1. Worked(Original(i)', a[i], FALSE, FALSE)
      BY <1>12, <1>13
    <3>2. QED BY <1>10, <3>1 DEF Worked
  <2>3. QED BY <1>2, <1>8, <2>1, <2>2 DEF Safety, WorkInv
<1>19. DamageInv'
  BY <1>2, <1>8, <1>10 DEF Safety, DamageInv, Explained
<1>20. UndamagedInv'
  <2> SUFFICES ASSUME Undamaged
      PROVE  /\ \A f \in Times, u \in Times : files[f].frames[u] # Damaged
             /\ \A i \in DOMAIN catalog.candidates :
                  Preserved(catalog.candidates[i], files[FirstTrigger(catalog.candidates[i])])
             /\ \A i \in DOMAIN a : Prepared(Original(i)', a[i], files[FirstTrigger(a[i])], Written(i)')
    BY <1>2, <1>8, <1>9 DEF UndamagedInv, Undamaged
  <2>1. /\ \A f \in Times, u \in Times : files[f].frames[u] # Damaged
        /\ \A i \in DOMAIN catalog.candidates :
             Preserved(catalog.candidates[i], files[FirstTrigger(catalog.candidates[i])])
    BY DEF Safety, UndamagedInv
  <2>2. ASSUME NEW i \in DOMAIN a
        PROVE  Prepared(Original(i)', a[i], files[FirstTrigger(a[i])], Written(i)')
    <3>1. Prepared(Original(i)', a[i], files[FirstTrigger(a[i])], FALSE)
      BY <1>12, <1>13
    <3>2. QED BY <1>10, <3>1 DEF Prepared
  <2>3. QED BY <2>1, <2>2
<1>21. FramesInv'
  <2> SUFFICES ASSUME Uninterrupted
      PROVE  /\ \A i \in DOMAIN catalog.candidates :
                  Vouched(catalog.candidates[i], files[FirstTrigger(catalog.candidates[i])])
             /\ \A i \in DOMAIN a : Original(i)'.frames \subseteq a[i].frames
    BY <1>2, <1>8, <1>9 DEF FramesInv, Uninterrupted, Undamaged
  <2>1. \A i \in DOMAIN catalog.candidates :
          Vouched(catalog.candidates[i], files[FirstTrigger(catalog.candidates[i])])
    BY <1>10, <1>11 DEF Safety, FramesInv
  <2>2. \A i \in DOMAIN a : Original(i)'.frames \subseteq a[i].frames
    BY <1>12, <1>13
  <2>3. QED BY <2>1, <2>2
<1>22. QED BY <1>14, <1>15, <1>16, <1>17, <1>18, <1>19, <1>20, <1>21 DEF Safety

(***************************************************************************)
(* The invariant                                                           *)
(***************************************************************************)
LEMMA Initially ==
  ASSUME Init PROVE Safety
<1>1. /\ now = 0 /\ published = {0} /\ missed = {} /\ storm \in Storms
      /\ catalog.cursor = NoTime /\ catalog.candidates = <<>>
      /\ DOMAIN catalog.candidates = {} /\ run = Idle
      /\ files = [t \in Times |-> NoFiles] /\ faults = [k \in FaultKinds |-> 0]
  BY DEF Init
<1>2. ~Running /\ ~Gathering /\ run.at = "idle" /\ run.triggers = {}
  BY <1>1 DEF Running, Gathering, Idle
<1>3. NoFiles \in Files
  <2>1. [t \in Times |-> Absent] \in [Times -> {"frame", Absent, Damaged}]
        /\ [t \in Times |-> Absent] \in [Times -> {"ok", "stale", Absent, Damaged}]
    OBVIOUS
  <2>2. QED BY <2>1 DEF NoFiles, Files, Content
<1>4. TypeOK
  <2>1. /\ 0 \in Times /\ 0 \in 0..MaxFaults
        /\ {0} \subseteq 0..0
    BY Constants DEF Times
  <2>2. catalog \in [cursor : Times \union {NoTime}, candidates : Seq(Candidate)]
    BY DEF Init
  <2>3. QED BY <1>1, <1>3, <2>1, <2>2, IdleTyped DEF TypeOK
<1>5. CatalogLoads /\ MergedAsConfigured
  BY <1>1 DEF CatalogLoads, Loadable, ValidAll, MergedAsConfigured, Merged
<1>6. StormCounted
  <2>1. 0 \in Nat /\ ~(0 <= NoTime)
    BY DEF NoTime
  <2>2. QED BY <1>1, <2>1 DEF StormCounted
<1>7. RunInv
  BY <1>2 DEF RunInv
<1>8. TriggerInv
  <2>1. NoTime <= 0 /\ ~(0 <= 0 - Retained)
    BY Constants DEF NoTime
  <2>2. Counted(<<>>) = {}
    BY DEF Counted
  <2>3. QED BY <1>1, <1>2, <2>1, <2>2 DEF TriggerInv
<1>9. WorkInv
  BY <1>1, <1>2 DEF WorkInv
<1>10. DamageInv
  BY <1>1, <1>2, Distinct DEF DamageInv, NoFiles
<1>11. UndamagedInv /\ FramesInv
  BY <1>1, <1>2, Distinct DEF UndamagedInv, FramesInv, NoFiles
<1>12. QED BY <1>4, <1>5, <1>6, <1>7, <1>8, <1>9, <1>10, <1>11 DEF Safety

LEMMA Stutters ==
  ASSUME Safety, UNCHANGED vars PROVE Safety'
<1>1. UNCHANGED <<storm, now, published, catalog, files, run, faults, missed>>
  BY DEF vars
<1>2. /\ TypeOK' /\ CatalogLoads' /\ MergedAsConfigured' /\ StormCounted'
  BY <1>1 DEF Safety, TypeOK, CatalogLoads, Loadable, MergedAsConfigured, StormCounted
<1>3. RunInv' /\ TriggerInv'
  BY <1>1 DEF Safety, RunInv, TriggerInv, Running, Gathering, Subject, Forgotten, History
<1>4. \A i : /\ Original(i)' = Original(i) /\ (Planned(i)' <=> Planned(i))
             /\ (Written(i)' <=> Written(i))
  BY <1>1 DEF Original, Planned, Written
<1>5. WorkInv' /\ DamageInv'
  BY <1>1, <1>4 DEF Safety, WorkInv, DamageInv, Explained, Running, Worked
<1>6. UndamagedInv' /\ FramesInv'
  BY <1>1, <1>4 DEF Safety, UndamagedInv, FramesInv, Running, Gathering, Subject, Disk,
                    Undamaged, Uninterrupted, Prepared
<1>7. QED BY <1>2, <1>3, <1>5, <1>6 DEF Safety

\* Whatever is interrupted or damaged: the catalog can be read again, its candidates are
\* merged as configured and count every frame of the storm that the cursor has passed.
THEOREM DiscoveryIsSafe == Spec => []Safety
<1>1. Init => Safety
  BY Initially
<1>2. Safety /\ [Next]_vars => Safety'
  <2> SUFFICES ASSUME Safety, [Next]_vars PROVE Safety'
    OBVIOUS
  <2>1. CASE Publish
    BY <2>1, PublishSafe
  <2>2. CASE Damage
    BY <2>2, DamageSafe
  <2>3. CASE Discover
    <3>1. CASE Begin
      BY <3>1, BeginSafe
    <3>2. CASE Scan
      BY <3>2, ScanEndsSafe, ScanAddsSafe
    <3>3. CASE WritePlan
      BY <3>3, WritePlanSafe
    <3>4. CASE ValidateFrames
      BY <3>4, ValidateFramesSafe
    <3>5. CASE Download
      BY <3>5, DownloadSafe
    <3>6. CASE WriteCollection
      BY <3>6, WriteCollectionSafe
    <3>7. CASE CaptureEvidence
      BY <3>7, CaptureEvidenceSafe
    <3>8. CASE WriteCatalog
      BY <3>8, WriteCatalogSafe
    <3>9. CASE WriteCatalogFails
      BY <3>9, WriteCatalogFailsSafe
    <3>10. QED BY <2>3, <3>1, <3>2, <3>3, <3>4, <3>5, <3>6, <3>7, <3>8, <3>9 DEF Discover
  <2>4. CASE DownloadFails
    BY <2>4, DownloadFailsSafe
  <2>5. CASE Abort
    BY <2>5, AbortSafe
  <2>6. ASSUME NEW i \in DOMAIN catalog.candidates, NEW decision \in {"approved", "rejected"},
               NEW given \in BOOLEAN, Review(i, decision, given)
        PROVE  Safety'
    BY <2>6, ReviewSafe
  <2>7. CASE UNCHANGED vars
    BY <2>7, Stutters
  <2>8. QED BY <2>1, <2>2, <2>3, <2>4, <2>5, <2>6, <2>7 DEF Next
<1>3. QED BY <1>1, <1>2, PTL DEF Spec

\* Every run that comes to its end can save what it has found, as long as no file was
\* damaged: no interrupted run and no failing source ever makes a catalog that cannot be
\* verified or a reviewed candidate that is no longer valid.
THEOREM UndamagedRunsPublish == Spec => []PublishesUnlessDamaged
<1>1. Safety => PublishesUnlessDamaged
  BY Saves
<1>2. QED BY <1>1, DiscoveryIsSafe, PTL

\* What changes the catalog: a run that saves it, and a review.
LEMMA CatalogChanges ==
  ASSUME Safety, [Next]_vars
  PROVE  \/ catalog' = catalog
         \/ /\ run.at = "publish" /\ Running
            /\ catalog' = [cursor |-> run.cursor, candidates |-> run.work]
         \/ \E i \in DOMAIN catalog.candidates, decision \in {"approved", "rejected"}, given \in BOOLEAN :
              /\ catalog.candidates[i].review = "pending"
              /\ catalog' = [catalog EXCEPT !.candidates[i] =
                               [catalog.candidates[i] EXCEPT !.review = decision, !.context = given]]
<1>1. CASE WriteCatalog
  BY <1>1 DEF WriteCatalog, PublishWork, Running
<1>2. ASSUME NEW i \in DOMAIN catalog.candidates, NEW decision \in {"approved", "rejected"},
             NEW given \in BOOLEAN, Review(i, decision, given)
      PROVE  /\ catalog.candidates[i].review = "pending"
             /\ catalog' = catalog \/ catalog' = [catalog EXCEPT !.candidates[i] =
                  [catalog.candidates[i] EXCEPT !.review = decision, !.context = given]]
  BY <1>2 DEF Review
<1>3. CASE Publish \/ Damage \/ DownloadFails \/ Abort \/ UNCHANGED vars
  BY <1>3 DEF Publish, Damage, DownloadFails, Abort, World, vars
<1>4. CASE \/ Begin \/ Scan \/ WritePlan \/ ValidateFrames \/ Download
           \/ WriteCollection \/ CaptureEvidence \/ WriteCatalogFails
  <2>1. CASE Begin \/ Scan \/ WritePlan
    BY <2>1 DEF Begin, Scan, WritePlan, World
  <2>2. CASE ValidateFrames \/ Download \/ WriteCollection
    BY <2>2 DEF ValidateFrames, Download, WriteCollection, World
  <2>3. CASE CaptureEvidence \/ WriteCatalogFails
    BY <2>3 DEF CaptureEvidence, WriteCatalogFails, World
  <2>4. QED BY <1>4, <2>1, <2>2, <2>3
<1>5. CASE Discover
  <2>1. WriteCatalog => catalog' = catalog
                        \/ (/\ run.at = "publish" /\ Running
                            /\ catalog' = [cursor |-> run.cursor, candidates |-> run.work])
    BY <1>1 DEF WriteCatalog, PublishWork, Running
  <2>2. QED BY <1>3, <1>4, <1>5, <2>1 DEF Discover
<1>6. CASE Publish \/ Damage \/ DownloadFails \/ Abort \/ UNCHANGED vars
  BY <1>3, <1>6
<1>7. CASE \E i \in DOMAIN catalog.candidates, decision \in {"approved", "rejected"}, given \in BOOLEAN :
             Review(i, decision, given)
  <2>1. PICK i \in DOMAIN catalog.candidates, decision \in {"approved", "rejected"}, given \in BOOLEAN :
          Review(i, decision, given)
    BY <1>7
  <2>2. /\ catalog.candidates[i].review = "pending"
        /\ catalog' = catalog \/ catalog' = [catalog EXCEPT !.candidates[i] =
             [catalog.candidates[i] EXCEPT !.review = decision, !.context = given]]
    BY <1>2, <2>1
  <2>3. QED BY <2>2
<1>8. CASE Next
  BY <1>5, <1>6, <1>7, <1>8 DEF Next
<1>9. CASE UNCHANGED vars
  BY <1>6, <1>9
<1>10. QED BY <1>8, <1>9

\* A review changes nothing else of a candidate.
LEMMA ReviewedOnly ==
  ASSUME Safety, NEW i \in DOMAIN catalog.candidates, NEW decision, NEW given,
         catalog' = [catalog EXCEPT !.candidates[i] =
                       [catalog.candidates[i] EXCEPT !.review = decision, !.context = given]]
  PROVE  \A j \in DOMAIN catalog.candidates :
           /\ catalog'.candidates[j].frames = catalog.candidates[j].frames
           /\ j # i => catalog'.candidates[j] = catalog.candidates[j]
<1>1. PICK s \in Seq(Candidate) : s = catalog.candidates
  BY Typed DEF Safety
<1>2. PICK d : d = [s[i] EXCEPT !.review = decision, !.context = given]
  OBVIOUS
<1>3. catalog'.candidates = [s EXCEPT ![i] = d]
  <2>1. catalog \in [cursor : Times \union {NoTime}, candidates : Seq(Candidate)]
    BY DEF Safety, TypeOK
  <2>2. catalog' = [catalog EXCEPT !.candidates = [s EXCEPT ![i] = d]]
    BY <1>1, <1>2
  <2>3. QED BY <2>1, <2>2
<1>4. d.frames = s[i].frames
  BY <1>1, <1>2 DEF Candidate
<1>5. QED BY <1>1, <1>3, <1>4

\* A catalogued frame stays catalogued, although the index forgets it and the window is
\* extended, as long as no run is interrupted and no file damaged.
THEOREM FramesAreKept == Spec => FramesKeptUnlessAborted
<1>1. Safety /\ [Next]_vars => [faults["abort"] = 0 /\ faults["damage"] = 0 => FramesStay]_vars
  <2> SUFFICES ASSUME Safety, [Next]_vars, Uninterrupted, NEW i \in DOMAIN catalog.candidates
               PROVE  catalog.candidates[i].frames \subseteq catalog'.candidates[i].frames
    BY DEF FramesStay, Uninterrupted, Undamaged
  <2>1. CASE catalog' = catalog
    BY <2>1
  <2>2. CASE Running /\ catalog' = [cursor |-> run.cursor, candidates |-> run.work]
    <3>1. i \in DOMAIN run.work /\ Original(i) = catalog.candidates[i]
      BY <2>2, Catalogued
    <3>2. Original(i).frames \subseteq run.work[i].frames
      BY <2>2, <3>1 DEF Safety, FramesInv
    <3>3. QED BY <2>2, <3>1, <3>2
  <2>3. ASSUME NEW j \in DOMAIN catalog.candidates, NEW decision, NEW given,
               catalog' = [catalog EXCEPT !.candidates[j] =
                             [catalog.candidates[j] EXCEPT !.review = decision, !.context = given]]
        PROVE  catalog.candidates[i].frames \subseteq catalog'.candidates[i].frames
    BY <2>3, ReviewedOnly
  <2>4. QED BY <2>1, <2>2, <2>3, CatalogChanges
<1>2. QED BY <1>1, DiscoveryIsSafe, PTL DEF Spec, FramesKeptUnlessAborted

\* A reviewed candidate keeps its decision, its context and its triggers.
THEOREM ReviewsAreFinal == Spec => ReviewFinal
<1> DEFINE Kept == \A i \in DOMAIN catalog.candidates :
       LET c == catalog.candidates[i] d == catalog'.candidates[i] IN
         c.review # "pending" => /\ d.review = c.review /\ d.context = c.context
                                  /\ d.triggers = c.triggers
<1>1. Safety /\ [Next]_vars => [Kept]_vars
  <2> SUFFICES ASSUME Safety, [Next]_vars, NEW i \in DOMAIN catalog.candidates,
                      catalog.candidates[i].review # "pending"
               PROVE  /\ catalog'.candidates[i].review = catalog.candidates[i].review
                      /\ catalog'.candidates[i].context = catalog.candidates[i].context
                      /\ catalog'.candidates[i].triggers = catalog.candidates[i].triggers
    OBVIOUS
  <2>1. CASE catalog' = catalog
    BY <2>1
  <2>2. CASE Running /\ catalog' = [cursor |-> run.cursor, candidates |-> run.work]
    <3>1. i \in DOMAIN run.work /\ Original(i) = catalog.candidates[i]
      BY <2>2, Catalogued
    <3>2. Extends(catalog.candidates[i], run.work[i])
      BY <2>2, <3>1, Originals DEF Worked
    <3>3. QED BY <2>2, <3>2 DEF Extends
  <2>3. ASSUME NEW j \in DOMAIN catalog.candidates, NEW decision, NEW given,
               catalog.candidates[j].review = "pending",
               catalog' = [catalog EXCEPT !.candidates[j] =
                             [catalog.candidates[j] EXCEPT !.review = decision, !.context = given]]
        PROVE  catalog'.candidates[i] = catalog.candidates[i]
    BY <2>3, ReviewedOnly
  <2>4. QED BY <2>1, <2>2, <2>3, CatalogChanges
<1>2. QED BY <1>1, DiscoveryIsSafe, PTL DEF Spec, ReviewFinal
=============================================================================
