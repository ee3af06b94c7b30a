------------------------------ MODULE ReviewQueue ------------------------------
(***************************************************************************)
(* The order in which the event candidates of the evidence catalog are put *)
(* before the reviewer (pipelines/event_review_queue.py).  The report      *)
(* reads the catalog and its artifacts without a lock and writes nothing.  *)
(*                                                                         *)
(* A candidate has an identifier, the state of its review, whether its     *)
(* radar window is complete and every artifact has its checksum, its       *)
(* captures of the synchronized sources, the largest local radar value,    *)
(* the number of its local triggers and the time of the first trigger.  A  *)
(* source of a capture that cannot be parsed has no value and no record.   *)
(***************************************************************************)
EXTENDS Integers, Sequences, SequencesExt, FiniteSets, FiniteSetsExt

CONSTANT Unknown  \* no valid value

\* The largest of the valid values
Peak(values) == IF values \subseteq {Unknown} THEN Unknown ELSE Max(values \ {Unknown})

\* _evidence_summaries: the largest values over all captures, how many list a warning,
\* and the ones with an artifact that cannot be parsed
Summary(c) ==
  LET over(field) == {c.captures[i][field] : i \in DOMAIN c.captures} IN
    [gauge |-> Peak(over("gauge")), rain |-> Peak(over("rain")),
     active |-> Cardinality({i \in DOMAIN c.captures : c.captures[i].records > 0}),
     errors |-> {i \in DOMAIN c.captures : ~c.captures[i].parses}]

\* The capture of all three sources for one target time
Synchronized(capture) ==
  /\ capture.qpe = "ok" /\ capture.gauges = "ok"
  /\ capture.warnings \in {"ok", "empty"}

\* _queue_item; an artifact that cannot be parsed is a data error.
ArtifactComplete(c) ==
  c.complete /\ c.intact /\ Summary(c).errors = {}
ReviewReady(c) ==
  /\ c.status = "pending" /\ ArtifactComplete(c)
  /\ \E i \in DOMAIN c.captures : Synchronized(c.captures[i])

Item(c) ==
  [id |-> c.id, ready |-> ReviewReady(c), first |-> c.first, local |-> c.local,
   active |-> Summary(c).active, gauge |-> Summary(c).gauge, rain |-> Summary(c).rain,
   peak |-> c.peak]

Zero(condition) == IF condition THEN 0 ELSE 1
\* _descending
Descending(value) == IF value = Unknown THEN 1 ELSE -value

\* Mutant: without the identifier, equals stay in the order of the catalog.
PriorityKeyWithoutId(item) ==
  <<Zero(item.ready), Zero(item.local # 0), -item.active, Descending(item.gauge),
    Descending(item.rain), Descending(item.peak), -item.local, item.first>>

PriorityKey(item) ==
  <<Zero(item.ready), Zero(item.local # 0), -item.active, Descending(item.gauge),
    Descending(item.rain), Descending(item.peak), -item.local, item.first, item.id>>

Precedes(a, b) ==
  LET key == PriorityKey(a) other == PriorityKey(b) IN
    \E k \in DOMAIN key : key[k] < other[k] /\ \A j \in 1..(k - 1) : key[j] = other[j]

\* The place of an item in a stable sort, and the item of a place
Rank(items, i) ==
  1 + Cardinality({j \in DOMAIN items : \/ Precedes(items[j], items[i])
                                        \/ j < i /\ ~Precedes(items[i], items[j])})
Place(items, r) == CHOOSE i \in DOMAIN items : Rank(items, i) = r

\* build_event_review_queue
Queue(catalog, pendingOnly) ==
  LET listed == {i \in DOMAIN catalog : ~pendingOnly \/ catalog[i].status = "pending"}
      items == [i \in listed |-> Item(catalog[i])] IN
    [r \in 1..Cardinality(listed) |-> items[Place(items, r)]]

\* The criteria it prints, larger first
Policy(item) ==
  <<1 - Zero(item.ready), 1 - Zero(item.local > 0), item.active, item.gauge, item.rain,
    item.peak, item.local, -item.first, -item.id>>

\* The queue lists every pending candidate once, in the same order however the
\* catalog orders them, and by the policy it prints: of two candidates the first
\* criterion on which they differ decides, if both have a value there.
RankedByPolicy(catalog) ==
  LET queue == Queue(catalog, TRUE)
      pending == {c \in ToSet(catalog) : c.status = "pending"} IN
    /\ {item.id : item \in ToSet(queue)} = {c.id : c \in pending}
    /\ Len(queue) = Cardinality(pending)
    /\ queue = Queue(Reverse(catalog), TRUE)
    /\ \A i, j \in DOMAIN queue : i < j =>
         LET before == Policy(queue[i]) after == Policy(queue[j])
             k == CHOOSE k \in DOMAIN before :
                    before[k] # after[k] /\ \A l \in 1..(k - 1) : before[l] = after[l] IN
           {before[k], after[k]} \intersect {Unknown} = {} => before[k] > after[k]
=============================================================================
