-------------------------- MODULE FloodSensorFeed --------------------------
(***************************************************************************)
(* One collection of the flood sensors (operations/collector.py,           *)
(* _collect_flood_sensors): the adapter reads two paginated feeds of the   *)
(* Water Resources Agency, the measurements and the sensor catalog, joins  *)
(* them and starts again when they do not fit                              *)
(* (ingestion/wra_flood_sensor_api.py), over a client that retries single  *)
(* requests (ingestion/http_client.py).                                    *)
(*                                                                         *)
(* The feeds are sorted by import date and go on changing between two      *)
(* requests: a row imported again moves to the end of its feed.  A row is  *)
(* its sensor, its area and what the join looks at; a page is its rows,    *)
(* which stand for the hash of its content.                                *)
(***************************************************************************)
EXTENDS Naturals, Sequences, SequencesExt, FiniteSets

CONSTANTS
  Sensors,
  Sources,              \* the flood_source settings: "api", "auto", "scraper"
  PageSize,             \* page_size
  HttpAttempts,         \* RetryPolicy.attempts
  PageAttempts,         \* page_retry_attempts
  TransactionAttempts,  \* transaction_retry_attempts
  MaxChanges            \* bound: changes of the feeds during the collection

ASSUME FeedAssumption ==
  /\ IsFiniteSet(Sensors)
  /\ Sources \subseteq {"api", "auto", "scraper"}
  /\ PageSize \in 1..1000
  /\ HttpAttempts \in Nat \ {0} /\ PageAttempts \in Nat \ {0}
  /\ TransactionAttempts \in Nat \ {0}
  /\ MaxChanges \in Nat

VARIABLES
  upstream,   \* the two feeds
  changes,    \* how often they have changed
  source,     \* the setting of this collection
  at,         \* where the collection is
  fetching,   \* the feed being read, its page, the attempt at the page and at the
              \* request
  pages,      \* page_hashes
  records,    \* the rows read of each feed
  transaction,\* the attempt at the join
  result,     \* the joined pairs of rows
  seen,       \* history: rows either feed has held since the transaction began
  shifted,    \* history: a feed has changed since then
  answer      \* history: what the request that ended the adapter ended in

upstreamVars == <<upstream, changes>>
vars == <<upstreamVars, source, at, fetching, pages, records, transaction, result,
          seen, shifted, answer>>

Feeds == {"latest", "catalog"}
Areas == {"target", "elsewhere"}

\* A measurement may be negative, a sensor disabled; any row malformed.
Contents == [latest |-> {"ok", "changed", "malformed", "negative"},
             catalog |-> {"ok", "malformed", "disabled"}]
Rows(f) == [id : Sensors, area : Areas, content : Contents[f]]
FirstPage(f) == [feed |-> f, page |-> 1, tries |-> 1, requests |-> 1]
NoRecords == [f \in Feeds |-> <<>>]
RowsOf(feeds) == UNION {ToSet(feeds[f]) : f \in Feeds}

TypeOK ==
  /\ DOMAIN upstream = Feeds /\ DOMAIN records = Feeds
  /\ \A f \in Feeds : upstream[f] \in Seq(Rows(f)) /\ records[f] \in Seq(Rows(f))
  /\ changes \in 0..MaxChanges /\ source \in Sources
  /\ at \in {"request", "join", "scrape", "api", "fallback", "failed"}
  /\ fetching \in [feed : Feeds, page : Nat \ {0}, tries : 1..PageAttempts,
                   requests : 1..HttpAttempts]
  /\ pages \subseteq Seq(Rows(fetching.feed))
  /\ transaction \in 1..TransactionAttempts
  /\ result \subseteq Rows("latest") \X Rows("catalog")
  /\ seen \subseteq UNION {Rows(f) : f \in Feeds} /\ shifted \in BOOLEAN
  /\ answer \in {"none", "body", "failure"}

\* Both feeds list the same sensors of the target area.
Init ==
  /\ \E ids \in SetToSeqs(Sensors), n \in 0..Cardinality(Sensors) :
       upstream = [f \in Feeds |->
         [i \in 1..n |-> [id |-> ids[i], area |-> "target", content |-> "ok"]]]
  /\ changes = 0
  /\ source \in Sources
  /\ at = IF source = "scraper" THEN "scrape" ELSE "request"
  /\ fetching = FirstPage("latest") /\ pages = {} /\ records = NoRecords
  /\ transaction = 1 /\ result = {}
  /\ seen = RowsOf(upstream) /\ shifted = FALSE
  /\ answer = "none"

(***************************************************************************)
(* The feeds change                                                        *)
(***************************************************************************)
\* While it is read: a sensor is imported again or for the first time, or
\* taken out.
FeedChanges(f) ==
  /\ at = "request" /\ changes < MaxChanges
  /\ changes' = changes + 1
  /\ \/ \E i \in DOMAIN upstream[f] :
          LET others == RemoveAt(upstream[f], i) IN
            \/ upstream' = [upstream EXCEPT ![f] = others]
            \/ \E row \in Rows(f) : /\ row.id = upstream[f][i].id
                                    /\ upstream' = [upstream EXCEPT ![f] = Append(others, row)]
     \/ \E row \in Rows(f) : /\ \A i \in DOMAIN upstream[f] : upstream[f][i].id # row.id
                             /\ upstream' = [upstream EXCEPT ![f] = Append(@, row)]
  /\ seen' = seen \union RowsOf(upstream')
  /\ shifted' = TRUE
  /\ UNCHANGED <<source, at, fetching, pages, records, transaction, result, answer>>

(***************************************************************************)
(* get_json                                                                *)
(***************************************************************************)
Reading == UNCHANGED <<upstreamVars, source, transaction, result, seen, shifted>>

\* SourceAdapterError: only a SourceRequestError lets "auto" go to the page.
RequestError == at' = IF source = "auto" THEN "scrape" ELSE "failed"
SchemaError == at' = "failed"

\* The next attempt at the same request, or the error that ends them.
RetryRequest(error, ending) ==
  \/ /\ fetching.requests < HttpAttempts
     /\ fetching' = [fetching EXCEPT !.requests = @ + 1]
     /\ UNCHANGED <<at, answer>>
  \/ /\ fetching.requests = HttpAttempts
     /\ error /\ answer' = ending
     /\ UNCHANGED fetching

\* A broken connection, a timeout or an error status; last_error_kind, which is
\* only reported, is left out.
RequestFails ==
  /\ at = "request"
  /\ RetryRequest(RequestError, "failure")
  /\ UNCHANGED <<pages, records>> /\ Reading

\* 401 or 403
Unauthorized ==
  /\ at = "request"
  /\ RequestError
  /\ answer' = "failure"
  /\ UNCHANGED <<fetching, pages, records>> /\ Reading

\* An empty body or invalid JSON
BadBody ==
  /\ at = "request"
  /\ RetryRequest(SchemaError, "body")
  /\ UNCHANGED <<pages, records>> /\ Reading

\* Not an array, or more rows than were asked for
WrongRoot ==
  /\ at = "request"
  /\ SchemaError
  /\ answer' = "body"
  /\ UNCHANGED <<fetching, pages, records>> /\ Reading

(***************************************************************************)
(* _fetch_pages                                                            *)
(***************************************************************************)
CurrentPage ==
  LET rows == upstream[fetching.feed]
      first == (fetching.page - 1) * PageSize + 1
      last == fetching.page * PageSize IN
    SubSeq(rows, first, IF last > Len(rows) THEN Len(rows) ELSE last)

\* What the server may answer: the page, or one it has answered before.
Answers == {CurrentPage} \union pages

\* Mutant: the repeated page is asked for again and again.
RepeatedPageForever ==
  /\ at = "request"
  /\ \E rows \in Answers : rows # <<>> /\ rows \in pages
  /\ fetching' = [fetching EXCEPT !.requests = 1]
  /\ UNCHANGED <<at, pages, records, answer>> /\ Reading

RepeatedPage ==
  /\ at = "request"
  /\ \E rows \in Answers : rows # <<>> /\ rows \in pages
  /\ \/ /\ fetching.tries < PageAttempts
        /\ fetching' = [fetching EXCEPT !.tries = @ + 1, !.requests = 1]
        /\ UNCHANGED at
     \/ /\ fetching.tries = PageAttempts
        /\ SchemaError /\ UNCHANGED fetching
  /\ UNCHANGED <<pages, records, answer>> /\ Reading

\* Mutant: a page is the last one when it is not longer than page_size.
FullPageIsLast(rows) == Len(rows) <= PageSize

LastPage(rows) == Len(rows) < PageSize

NewPage ==
  /\ at = "request"
  /\ \E rows \in Answers :
       /\ rows = <<>> \/ rows \notin pages
       /\ records' = [records EXCEPT ![fetching.feed] = @ \o rows]
       /\ \/ /\ ~LastPage(rows)
             /\ fetching' = [FirstPage(fetching.feed) EXCEPT !.page = fetching.page + 1]
             /\ pages' = pages \union {rows}
             /\ UNCHANGED at
          \/ /\ LastPage(rows) /\ fetching.feed = "latest"
             /\ fetching' = FirstPage("catalog") /\ pages' = {}
             /\ UNCHANGED at
          \/ /\ LastPage(rows) /\ fetching.feed = "catalog"
             /\ at' = "join" /\ pages' = {}
             /\ UNCHANGED fetching
  /\ UNCHANGED answer /\ Reading

(***************************************************************************)
(* _fetch_join_transaction                                                 *)
(***************************************************************************)
Unique(rows) == \A i, j \in DOMAIN rows : rows[i].id = rows[j].id => i = j
WellFormed == \A f \in Feeds : \A row \in ToSet(records[f]) : row.content # "malformed"

Targets == {m \in ToSet(records["latest"]) : m.area = "target"}
Metadata(m) == {c \in ToSet(records["catalog"]) : c.id = m.id}
Matches(m) == \E c \in Metadata(m) : c.area = m.area

\* The first measurement that cannot be joined decides how the attempt ends.
Obstacle(i) ==
  LET m == records["latest"][i] IN m \in Targets /\ (m.content = "negative" \/ ~Matches(m))
FirstObstacle ==
  {i \in DOMAIN records["latest"] : Obstacle(i) /\ \A j \in 1..(i - 1) : ~Obstacle(j)}
Joined == {p \in Targets \X ToSet(records["catalog"]) : p[1].id = p[2].id}

\* WraJoinTransactionError: malformed or duplicate rows, or a measurement the
\* catalog does not have or has in another area.
Inconsistent ==
  \/ ~WellFormed
  \/ \E f \in Feeds : ~Unique(records[f])
  \/ \E i \in FirstObstacle : records["latest"][i].content # "negative"

\* SourceSchemaError without another attempt.
Unusable ==
  /\ WellFormed /\ \A f \in Feeds : Unique(records[f])
  /\ \/ Targets = {}
     \/ \E i \in FirstObstacle : records["latest"][i].content = "negative"
     \/ FirstObstacle = {} /\ \A pair \in Joined : pair[2].content = "disabled"

\* Mutant: the measurements of the attempt before are kept.
RejoinCatalog ==
  /\ at = "join" /\ Inconsistent /\ transaction < TransactionAttempts
  /\ transaction' = transaction + 1
  /\ at' = "request" /\ fetching' = FirstPage("catalog")
  /\ pages' = {} /\ records' = [records EXCEPT !["catalog"] = <<>>]
  /\ seen' = RowsOf(upstream) /\ shifted' = FALSE
  /\ UNCHANGED <<upstreamVars, source, result, answer>>

\* Both feeds are read again.
Rejoin ==
  /\ at = "join" /\ Inconsistent /\ transaction < TransactionAttempts
  /\ transaction' = transaction + 1
  /\ at' = "request" /\ fetching' = FirstPage("latest")
  /\ pages' = {} /\ records' = NoRecords
  /\ seen' = RowsOf(upstream) /\ shifted' = FALSE
  /\ UNCHANGED <<upstreamVars, source, result, answer>>

JoinFails ==
  /\ at = "join"
  /\ Unusable \/ (Inconsistent /\ transaction = TransactionAttempts)
  /\ SchemaError
  /\ UNCHANGED <<fetching, pages, records, answer>> /\ Reading

Join ==
  /\ at = "join" /\ ~Inconsistent /\ ~Unusable
  /\ at' = "api" /\ result' = Joined
  /\ UNCHANGED <<upstreamVars, source, fetching, pages, records, transaction, seen, shifted, answer>>

(***************************************************************************)
(* The page                                                                *)
(***************************************************************************)
\* The page is read, or is empty or cannot be read.
Scrape ==
  /\ at = "scrape"
  /\ at' \in {"fallback", "failed"}
  /\ UNCHANGED <<fetching, pages, records, answer>> /\ Reading

Step ==
  \/ RequestFails \/ Unauthorized \/ BadBody \/ WrongRoot \/ RepeatedPage \/ NewPage
  \/ Rejoin \/ JoinFails \/ Join \/ Scrape

Next == Step \/ \E f \in Feeds : FeedChanges(f)

\* Every request is answered or times out, and the collection goes on.
Spec == Init /\ [][Next]_vars /\ WF_vars(Step)

(***************************************************************************)
(* Properties                                                              *)
(***************************************************************************)
\* The records are a join the agency published: every pair was there while the
\* last attempt read, each sensor once and with the metadata of its area,
\* whatever the attempts before it had read.
JoinedFromOneTransaction ==
  at = "api" =>
    /\ UNION {{p[1], p[2]} : p \in result} \subseteq seen
    /\ \A p, q \in result : p[1].id = q[1].id => p = q
    /\ \A p \in result : p[1].id = p[2].id /\ p[1].area = p[2].area

\* No sensor of the target is missed, and none is invented, unless a feed has
\* changed under the pagination; a repeated page never hides one.
CompleteUnlessShifted ==
  at = "api" /\ ~shifted =>
    {p[1] : p \in result} = {m \in ToSet(upstream["latest"]) : m.area = "target"}

\* "auto permits the page fallback only for authentication, timeout, transport,
\* HTTP, or rate-limit request failures": never after an answer that could be
\* read and was wrong.
FallbackOnlyAfterFailure ==
  at \in {"scrape", "fallback"} /\ source # "scraper" => source = "auto" /\ answer = "failure"

\* Every collection ends, although each of its three retry loops may begin again
\* in the next.
CollectionEnds == <>(at \in {"api", "fallback", "failed"})

(***************************************************************************)
(* The inductive invariant                                                 *)
(***************************************************************************)
\* Whatever is read was listed since the transaction began, and a page that was read
\* was full.
ReadInv ==
  /\ \A f \in Feeds : ToSet(upstream[f]) \subseteq seen /\ ToSet(records[f]) \subseteq seen
  /\ \A rows \in pages : ToSet(rows) \subseteq seen /\ Len(rows) >= PageSize

\* The measurements read so far are the pages of a feed that does not change.
Passed == (fetching.page - 1) * PageSize
PrefixInv ==
  ~shifted /\ at \in {"request", "join"} =>
    \/ at = "request" /\ fetching.feed = "latest" /\ Passed <= Len(upstream["latest"])
       /\ records["latest"] = SubSeq(upstream["latest"], 1, Passed)
    \/ fetching.feed = "catalog" /\ records["latest"] = upstream["latest"]

IInv ==
  /\ TypeOK /\ ReadInv /\ PrefixInv
  /\ JoinedFromOneTransaction /\ FallbackOnlyAfterFailure /\ CompleteUnlessShifted

\* What holds of every collection, whatever the feeds do while it reads them.
Safety == TypeOK /\ ReadInv /\ JoinedFromOneTransaction /\ FallbackOnlyAfterFailure
=============================================================================
