------------------------- MODULE FloodSensorFeedProofs -------------------------
(***************************************************************************)
(* Proofs about FloodSensorFeed for any sensors, page size and retries:    *)
(* however the feeds move while they are read, the records come from one   *)
(* transaction, none is missed while nothing moves, and only a failed      *)
(* request leads to the page.                                              *)
(***************************************************************************)
EXTENDS FloodSensorFeed, SequenceTheorems, FiniteSetTheorems, WellFoundedInduction, TLAPS

USE FeedAssumption

(***************************************************************************)
(* Rows and pages                                                          *)
(***************************************************************************)
LEMMA AppendedRows ==
  ASSUME NEW R, NEW s \in Seq(R), NEW x \in R
  PROVE  Append(s, x) \in Seq(R) /\ ToSet(Append(s, x)) \subseteq ToSet(s) \union {x}
<1>1. /\ Append(s, x) \in Seq(R) /\ DOMAIN Append(s, x) = 1..(Len(s) + 1)
      /\ Append(s, x)[Len(s) + 1] = x /\ \A i \in 1..Len(s) : Append(s, x)[i] = s[i]
  OBVIOUS
<1>2. ASSUME NEW i \in 1..(Len(s) + 1) PROVE Append(s, x)[i] \in ToSet(s) \union {x}
  <2>1. i \in 1..Len(s) \/ i = Len(s) + 1
    OBVIOUS
  <2>2. DOMAIN s = 1..Len(s)
    OBVIOUS
  <2>3. QED BY <1>1, <2>1, <2>2 DEF ToSet
<1>3. QED BY <1>1, <1>2 DEF ToSet

LEMMA PartOfRows ==
  ASSUME NEW R, NEW s \in Seq(R), NEW a \in Nat \ {0}, NEW b \in Nat, b <= Len(s)
  PROVE  /\ SubSeq(s, a, b) \in Seq(R) /\ ToSet(SubSeq(s, a, b)) \subseteq ToSet(s)
         /\ Len(SubSeq(s, a, b)) = IF a <= b THEN b - a + 1 ELSE 0
         /\ \A i \in 1..Len(SubSeq(s, a, b)) : SubSeq(s, a, b)[i] = s[a + i - 1]
<1>1. PICK part : part = SubSeq(s, a, b)
  OBVIOUS
<1>2. /\ part \in Seq(R) /\ Len(part) = IF a <= b THEN b - a + 1 ELSE 0
      /\ \A i \in 1..Len(part) : part[i] = s[a + i - 1]
  BY <1>1
<1>3. DOMAIN part = 1..Len(part) /\ DOMAIN s = 1..Len(s)
  BY <1>2
<1>4. \A i \in 1..Len(part) : a + i - 1 \in 1..Len(s)
  BY <1>2
<1>5. ASSUME NEW i \in DOMAIN part PROVE part[i] \in ToSet(s)
  <2>1. i \in 1..Len(part) /\ part[i] = s[a + i - 1] /\ a + i - 1 \in DOMAIN s
    BY <1>2, <1>3, <1>4, <1>5
  <2>2. QED BY <2>1 DEF ToSet
<1>6. ToSet(part) \subseteq ToSet(s)
  BY <1>5 DEF ToSet
<1>7. QED BY <1>1, <1>2, <1>6

LEMMA JoinedRows ==
  ASSUME NEW R, NEW s \in Seq(R), NEW t \in Seq(R)
  PROVE  /\ s \o t \in Seq(R) /\ ToSet(s \o t) \subseteq ToSet(s) \union ToSet(t)
         /\ Len(s \o t) = Len(s) + Len(t)
         /\ \A i \in 1..(Len(s) + Len(t)) :
              (s \o t)[i] = IF i <= Len(s) THEN s[i] ELSE t[i - Len(s)]
<1>1. PICK both : both = s \o t
  OBVIOUS
<1>2. /\ both \in Seq(R) /\ Len(both) = Len(s) + Len(t)
      /\ \A i \in 1..Len(both) : both[i] = IF i <= Len(s) THEN s[i] ELSE t[i - Len(s)]
  BY <1>1
<1>3. DOMAIN both = 1..Len(both) /\ DOMAIN s = 1..Len(s) /\ DOMAIN t = 1..Len(t)
  BY <1>2
<1>4. ASSUME NEW i \in 1..Len(both) PROVE both[i] \in ToSet(s) \union ToSet(t)
  <2>1. CASE i <= Len(s)
    BY <1>2, <1>3, <2>1 DEF ToSet
  <2>2. CASE ~(i <= Len(s))
    <3>1. i - Len(s) \in 1..Len(t)
      BY <1>2, <2>2
    <3>2. QED BY <1>2, <1>3, <2>2, <3>1 DEF ToSet
  <2>3. QED BY <2>1, <2>2
<1>5. QED BY <1>1, <1>2, <1>3, <1>4 DEF ToSet

LEMMA RemovedRow ==
  ASSUME NEW R, NEW s \in Seq(R), NEW i \in DOMAIN s
  PROVE  RemoveAt(s, i) \in Seq(R) /\ ToSet(RemoveAt(s, i)) \subseteq ToSet(s)
<1>1. i \in 1..Len(s) /\ Len(s) \in Nat
  OBVIOUS
<1>2. /\ SubSeq(s, 1, i - 1) \in Seq(R) /\ ToSet(SubSeq(s, 1, i - 1)) \subseteq ToSet(s)
  <2>1. 1 \in Nat \ {0} /\ i - 1 \in Nat /\ i - 1 <= Len(s)
    BY <1>1
  <2>2. QED BY <2>1, PartOfRows
<1>3. /\ SubSeq(s, i + 1, Len(s)) \in Seq(R) /\ ToSet(SubSeq(s, i + 1, Len(s))) \subseteq ToSet(s)
  <2>1. i + 1 \in Nat \ {0} /\ Len(s) \in Nat /\ Len(s) <= Len(s)
    BY <1>1
  <2>2. QED BY <2>1, PartOfRows
<1>4. PICK front \in Seq(R), back \in Seq(R) :
        front = SubSeq(s, 1, i - 1) /\ back = SubSeq(s, i + 1, Len(s))
  BY <1>2, <1>3
<1>5. front \o back \in Seq(R) /\ ToSet(front \o back) \subseteq ToSet(front) \union ToSet(back)
  BY JoinedRows
<1>6. RemoveAt(s, i) = front \o back
  BY <1>4 DEF RemoveAt
<1>7. ToSet(front) \subseteq ToSet(s) /\ ToSet(back) \subseteq ToSet(s)
  BY <1>2, <1>3, <1>4
<1>8. QED BY <1>5, <1>6, <1>7

\* Two adjacent parts of a feed, the second of them up to its end or not.
LEMMA NextPart ==
  ASSUME NEW R, NEW s \in Seq(R), NEW a \in Nat, NEW b \in Nat, a <= b, b <= Len(s)
  PROVE  SubSeq(s, 1, a) \o SubSeq(s, a + 1, b) = SubSeq(s, 1, b)
<1>1. PICK p, q, whole : p = SubSeq(s, 1, a) /\ q = SubSeq(s, a + 1, b) /\ whole = SubSeq(s, 1, b)
  OBVIOUS
<1>2. /\ p \in Seq(R) /\ Len(p) = a /\ \A i \in 1..a : p[i] = s[i]
  BY <1>1
<1>3. /\ q \in Seq(R) /\ Len(q) = b - a /\ \A i \in 1..(b - a) : q[i] = s[a + i]
  BY <1>1
<1>4. /\ whole \in Seq(R) /\ Len(whole) = b /\ \A i \in 1..b : whole[i] = s[i]
  BY <1>1
<1>5. PICK both : both = p \o q
  OBVIOUS
<1>6. /\ both \in Seq(R) /\ Len(both) = b
      /\ \A i \in 1..b : both[i] = IF i <= a THEN p[i] ELSE q[i - a]
  <2>1. both \in Seq(R) /\ Len(both) = Len(p) + Len(q)
        /\ \A i \in 1..(Len(p) + Len(q)) :
             both[i] = IF i <= Len(p) THEN p[i] ELSE q[i - Len(p)]
    <3>1. p \in Seq(R) /\ q \in Seq(R)
      BY <1>2, <1>3
    <3>2. QED BY <1>5, <3>1, JoinedRows
  <2>2. Len(p) + Len(q) = b
    BY <1>2, <1>3
  <2>3. QED BY <1>2, <2>1, <2>2
<1>7. ASSUME NEW i \in 1..b PROVE both[i] = whole[i]
  <2>1. CASE i <= a
    BY <1>2, <1>4, <1>6, <2>1
  <2>2. CASE ~(i <= a)
    <3>1. i - a \in 1..(b - a) /\ a + (i - a) = i
      BY <2>2
    <3>2. QED BY <1>3, <1>4, <1>6, <2>2, <3>1
  <2>3. QED BY <2>1, <2>2
<1>8. both = whole
  BY <1>4, <1>6, <1>7, SeqEqual
<1>9. QED BY <1>1, <1>5, <1>8

\* The whole of a feed.
LEMMA AllRows == ASSUME NEW R, NEW s \in Seq(R) PROVE SubSeq(s, 1, Len(s)) = s
<1>1. PICK whole : whole = SubSeq(s, 1, Len(s))
  OBVIOUS
<1>2. whole \in Seq(R) /\ Len(whole) = Len(s) /\ \A i \in 1..Len(s) : whole[i] = s[i]
  BY <1>1
<1>3. QED BY <1>1, <1>2, SeqEqual

(***************************************************************************)
(* Requests that end in no new page                                        *)
(***************************************************************************)
FetchingType == [feed : Feeds, page : Nat \ {0}, tries : 1..PageAttempts, requests : 1..HttpAttempts]

\* A step of the collection that reads nothing; only a failed request leads to the page.
ReadsNothing ==
  /\ UNCHANGED upstream /\ UNCHANGED changes /\ UNCHANGED source /\ UNCHANGED pages
  /\ UNCHANGED records /\ UNCHANGED transaction /\ UNCHANGED result /\ UNCHANGED seen
  /\ UNCHANGED shifted
  /\ fetching' \in FetchingType /\ fetching'.feed = fetching.feed /\ fetching'.page = fetching.page
  /\ at' = at \/ at' \in {"scrape", "fallback", "failed"}
  /\ answer' \in {"none", "body", "failure"}
  /\ at' \in {"scrape", "fallback"} =>
       \/ at = "scrape" /\ answer' = answer
       \/ source = "auto" /\ answer' = "failure"

LEMMA NothingReadSafety == ASSUME IInv, ReadsNothing, at # "api" PROVE IInv'
<1> USE DEF ReadsNothing
<1>1. TypeOK'
  BY DEF IInv, TypeOK, FetchingType
<1>2. ReadInv'
  BY DEF IInv, ReadInv
<1>3. PrefixInv'
  BY DEF IInv, PrefixInv, Passed
<1>4. at' # "api"
  OBVIOUS
<1>5. JoinedFromOneTransaction' /\ CompleteUnlessShifted'
  BY <1>4 DEF JoinedFromOneTransaction, CompleteUnlessShifted
<1>6. FallbackOnlyAfterFailure'
  BY DEF IInv, FallbackOnlyAfterFailure
<1>7. QED BY <1>1, <1>2, <1>3, <1>5, <1>6 DEF IInv

LEMMA RetryReads ==
  ASSUME TypeOK, at = "request", RequestFails \/ Unauthorized \/ BadBody \/ WrongRoot \/ RepeatedPage
  PROVE  ReadsNothing
<1>1. fetching \in FetchingType /\ answer \in {"none", "body", "failure"}
  BY DEF TypeOK, FetchingType
<1>2. /\ UNCHANGED upstream /\ UNCHANGED changes /\ UNCHANGED source /\ UNCHANGED pages
      /\ UNCHANGED records /\ UNCHANGED transaction /\ UNCHANGED result /\ UNCHANGED seen
      /\ UNCHANGED shifted
  BY DEF RequestFails, Unauthorized, BadBody, WrongRoot, RepeatedPage, Reading, upstreamVars
<1>3. /\ \/ fetching' = fetching
         \/ /\ fetching.requests < HttpAttempts
            /\ fetching' = [fetching EXCEPT !.requests = fetching.requests + 1]
         \/ /\ fetching.tries < PageAttempts
            /\ fetching' = [fetching EXCEPT !.tries = fetching.tries + 1, !.requests = 1]
      /\ \/ at' = at /\ answer' = answer
         \/ /\ at' \in {"scrape", "failed"} /\ answer' \in {"none", "body", "failure"}
            /\ at' = "scrape" => source = "auto" /\ answer' = "failure"
  <2>1. CASE RequestFails
    BY <2>1 DEF RequestFails, RetryRequest, RequestError
  <2>2. CASE Unauthorized
    BY <2>2 DEF Unauthorized, RequestError
  <2>3. CASE BadBody
    BY <2>3 DEF BadBody, RetryRequest, SchemaError
  <2>4. CASE WrongRoot
    BY <2>4 DEF WrongRoot, SchemaError
  <2>5. CASE RepeatedPage
    BY <1>1, <2>5 DEF RepeatedPage, SchemaError
  <2>6. QED BY <2>1, <2>2, <2>3, <2>4, <2>5
<1>4. fetching' \in FetchingType /\ fetching'.feed = fetching.feed /\ fetching'.page = fetching.page
  <2>1. CASE fetching' = fetching
    BY <1>1, <2>1
  <2>2. CASE /\ fetching.requests < HttpAttempts
             /\ fetching' = [fetching EXCEPT !.requests = fetching.requests + 1]
    <3>1. fetching.requests + 1 \in 1..HttpAttempts
      BY <1>1, <2>2 DEF FetchingType
    <3>2. QED BY <1>1, <2>2, <3>1 DEF FetchingType
  <2>3. CASE /\ fetching.tries < PageAttempts
             /\ fetching' = [fetching EXCEPT !.tries = fetching.tries + 1, !.requests = 1]
    <3>1. fetching.tries + 1 \in 1..PageAttempts /\ 1 \in 1..HttpAttempts
      BY <1>1, <2>3 DEF FetchingType
    <3>2. QED BY <1>1, <2>3, <3>1 DEF FetchingType
  <2>4. QED BY <1>3, <2>1, <2>2, <2>3
<1>5. QED BY <1>1, <1>2, <1>3, <1>4 DEF ReadsNothing

LEMMA RetrySafety ==
  ASSUME IInv, RequestFails \/ Unauthorized \/ BadBody \/ WrongRoot \/ RepeatedPage PROVE IInv'
<1>1. at = "request" /\ TypeOK
  BY DEF RequestFails, Unauthorized, BadBody, WrongRoot, RepeatedPage, IInv
<1>2. QED BY <1>1, RetryReads, NothingReadSafety

LEMMA FailSafety == ASSUME IInv, JoinFails \/ Scrape PROVE IInv'
<1>1. at \in {"join", "scrape"} /\ TypeOK
  BY DEF JoinFails, Scrape, IInv
<1>2. fetching \in FetchingType /\ answer \in {"none", "body", "failure"}
  BY <1>1 DEF TypeOK, FetchingType
<1>3. ReadsNothing
  BY <1>1, <1>2 DEF ReadsNothing, JoinFails, Scrape, SchemaError, Reading, upstreamVars
<1>4. QED BY <1>1, <1>3, NothingReadSafety

(***************************************************************************)
(* The feeds                                                               *)
(***************************************************************************)
LEMMA ChangeSafety == ASSUME IInv, NEW f \in Feeds, FeedChanges(f) PROVE IInv'
<1>1. /\ at = "request" /\ changes < MaxChanges /\ changes' = changes + 1
      /\ seen' = seen \union RowsOf(upstream') /\ shifted' = TRUE
      /\ UNCHANGED <<source, at, fetching, pages, records, transaction, result, answer>>
  BY DEF FeedChanges
<1>2. /\ DOMAIN upstream = Feeds /\ \A g \in Feeds : upstream[g] \in Seq(Rows(g))
      /\ changes \in 0..MaxChanges /\ seen \subseteq UNION {Rows(g) : g \in Feeds} /\ TypeOK
  BY DEF IInv, TypeOK
<1>3. PICK rows \in Seq(Rows(f)) : upstream' = [upstream EXCEPT ![f] = rows]
  <2>1. PICK old \in Seq(Rows(f)) : old = upstream[f]
    BY <1>2
  <2>2. ASSUME NEW i \in DOMAIN old PROVE RemoveAt(old, i) \in Seq(Rows(f))
    BY RemovedRow
  <2>3. ASSUME NEW s \in Seq(Rows(f)), NEW row \in Rows(f) PROVE Append(s, row) \in Seq(Rows(f))
    BY AppendedRows
  <2>4. CASE \E i \in DOMAIN upstream[f] :
               LET others == RemoveAt(upstream[f], i) IN
                 \/ upstream' = [upstream EXCEPT ![f] = others]
                 \/ \E row \in Rows(f) : /\ row.id = upstream[f][i].id
                                         /\ upstream' = [upstream EXCEPT ![f] = Append(others, row)]
    BY <2>1, <2>2, <2>3, <2>4
  <2>5. CASE \E row \in Rows(f) : upstream' = [upstream EXCEPT ![f] = Append(upstream[f], row)]
    BY <2>1, <2>3, <2>5
  <2>6. QED BY <2>4, <2>5 DEF FeedChanges
<1>4. DOMAIN upstream' = Feeds /\ \A g \in Feeds : upstream'[g] \in Seq(Rows(g))
  BY <1>2, <1>3
<1>5. \A g \in Feeds : ToSet(upstream'[g]) \subseteq Rows(g)
  <2>1. ASSUME NEW g \in Feeds, NEW i \in DOMAIN upstream'[g] PROVE upstream'[g][i] \in Rows(g)
    BY <1>4, <2>1
  <2>2. QED BY <2>1 DEF ToSet
<1>6. seen' \subseteq UNION {Rows(g) : g \in Feeds}
  BY <1>1, <1>2, <1>5 DEF RowsOf
<1>7. TypeOK'
  BY <1>1, <1>2, <1>4, <1>6 DEF TypeOK
<1>8. ReadInv'
  <2>1. seen \subseteq seen' /\ \A g \in Feeds : ToSet(upstream'[g]) \subseteq seen'
    BY <1>1 DEF RowsOf
  <2>2. QED BY <1>1, <2>1 DEF IInv, ReadInv
<1>9. PrefixInv' /\ JoinedFromOneTransaction' /\ FallbackOnlyAfterFailure' /\ CompleteUnlessShifted'
  BY <1>1 DEF PrefixInv, JoinedFromOneTransaction, FallbackOnlyAfterFailure, CompleteUnlessShifted
<1>10. QED BY <1>7, <1>8, <1>9 DEF IInv

(***************************************************************************)
(* Pages                                                                   *)
(***************************************************************************)
\* The page that is asked for begins where the ones before have ended.
LEMMA CurrentRows ==
  ASSUME TypeOK, NEW u, u = upstream[fetching.feed]
  PROVE  /\ u \in Seq(Rows(fetching.feed)) /\ Passed \in Nat
         /\ fetching.page * PageSize = Passed + PageSize
         /\ \E b \in Nat : /\ CurrentPage = SubSeq(u, Passed + 1, b) /\ b <= Len(u)
                           /\ b = Len(u) \/ b = Passed + PageSize
                           /\ b <= Passed + PageSize
<1>1. fetching.feed \in Feeds /\ fetching.page \in Nat \ {0} /\ u \in Seq(Rows(fetching.feed))
  BY DEF TypeOK
<1>2. PICK before \in Nat : fetching.page = before + 1
  <2>1. fetching.page - 1 \in Nat /\ fetching.page = (fetching.page - 1) + 1
    BY <1>1
  <2>2. QED BY <2>1
<1>3. Passed = before * PageSize /\ fetching.page * PageSize = before * PageSize + PageSize
  BY <1>2 DEF Passed
<1>4. before * PageSize \in Nat
  BY <1>2
<1>5. PICK a \in Nat : a = Passed
  BY <1>3, <1>4
<1>6. Passed + PageSize = fetching.page * PageSize
  BY <1>3
<1>7. PICK b : b = IF fetching.page * PageSize > Len(u) THEN Len(u) ELSE fetching.page * PageSize
  OBVIOUS
<1>8. Len(u) \in Nat /\ a + PageSize \in Nat /\ fetching.page * PageSize = a + PageSize
  BY <1>1, <1>5, <1>6
<1>9. b \in Nat /\ b <= Len(u) /\ b <= a + PageSize /\ (b = Len(u) \/ b = a + PageSize)
  BY <1>7, <1>8
<1>10. CurrentPage = SubSeq(u, Passed + 1, b)
  BY <1>7 DEF CurrentPage, Passed
<1>11. QED BY <1>1, <1>5, <1>6, <1>9, <1>10

\* A page that is read was listed, and is not one of the pages before.
LEMMA PageRows ==
  ASSUME IInv, NEW rows \in Answers, rows = <<>> \/ rows \notin pages
  PROVE  /\ rows = CurrentPage /\ rows \in Seq(Rows(fetching.feed)) /\ ToSet(rows) \subseteq seen
<1>1. TypeOK /\ ReadInv
  BY DEF IInv
<1>2. rows \notin pages
  <2>1. \A page \in pages : Len(page) >= PageSize
    BY <1>1 DEF ReadInv
  <2>2. Len(<<>>) = 0 /\ ~(0 >= PageSize)
    OBVIOUS
  <2>3. QED BY <2>1, <2>2
<1>3. rows = CurrentPage
  BY <1>2 DEF Answers
<1>4. PICK u : u = upstream[fetching.feed]
  OBVIOUS
<1>5. PICK a \in Nat, b \in Nat :
        /\ u \in Seq(Rows(fetching.feed)) /\ CurrentPage = SubSeq(u, a + 1, b) /\ b <= Len(u)
  BY <1>1, <1>4, CurrentRows
<1>6. /\ SubSeq(u, a + 1, b) \in Seq(Rows(fetching.feed))
      /\ ToSet(SubSeq(u, a + 1, b)) \subseteq ToSet(u)
  <2>1. a + 1 \in Nat \ {0}
    BY <1>5
  <2>2. QED BY <1>5, <2>1, PartOfRows
<1>7. ToSet(u) \subseteq seen
  BY <1>1, <1>4 DEF ReadInv, TypeOK
<1>8. QED BY <1>3, <1>5, <1>6, <1>7

LEMMA NewPageSafety == ASSUME IInv, NewPage PROVE IInv'
<1>1. PICK rows \in Answers :
        /\ rows = <<>> \/ rows \notin pages
        /\ records' = [records EXCEPT ![fetching.feed] = @ \o rows]
        /\ \/ /\ ~LastPage(rows)
              /\ fetching' = [FirstPage(fetching.feed) EXCEPT !.page = fetching.page + 1]
              /\ pages' = pages \union {rows}
              /\ UNCHANGED at
           \/ /\ LastPage(rows) /\ fetching.feed = "latest"
              /\ fetching' = FirstPage("catalog") /\ pages' = {}
              /\ UNCHANGED at
           \/ /\ LastPage(rows) /\ fetching.feed = "catalog"
              /\ at' = "join" /\ pages' = {}
              /\ UNCHANGED fetching
  BY DEF NewPage
<1>2. /\ rows = CurrentPage /\ rows \in Seq(Rows(fetching.feed)) /\ ToSet(rows) \subseteq seen
  BY <1>1, PageRows
<1>3. /\ at = "request" /\ TypeOK /\ ReadInv
      /\ UNCHANGED <<upstream, changes, source, transaction, result, seen, shifted, answer>>
  BY DEF NewPage, Reading, upstreamVars, IInv
<1>4. PICK feed, page, old :
        /\ feed \in Feeds /\ page \in Nat \ {0} /\ old \in Seq(Rows(feed))
        /\ feed = fetching.feed /\ page = fetching.page /\ old = records[feed]
  BY <1>3 DEF TypeOK
<1>5. old \o rows \in Seq(Rows(feed)) /\ ToSet(old \o rows) \subseteq seen
  <2>1. ToSet(old) \subseteq seen
    BY <1>3, <1>4 DEF ReadInv
  <2>2. rows \in Seq(Rows(feed))
    BY <1>2, <1>4
  <2>3. PICK p \in Seq(Rows(feed)), q \in Seq(Rows(feed)) : p = old /\ q = rows
    BY <1>4, <2>2
  <2>4. p \o q \in Seq(Rows(feed)) /\ ToSet(p \o q) \subseteq ToSet(p) \union ToSet(q)
    BY JoinedRows
  <2>5. QED BY <1>2, <2>1, <2>3, <2>4
<1>6. /\ records' = [records EXCEPT ![feed] = old \o rows] /\ DOMAIN records' = Feeds
      /\ records'[feed] = old \o rows /\ \A f \in Feeds \ {feed} : records'[f] = records[f]
  BY <1>1, <1>3, <1>4 DEF TypeOK
<1>7. \A f \in Feeds : records'[f] \in Seq(Rows(f)) /\ ToSet(records'[f]) \subseteq seen
  BY <1>3, <1>5, <1>6 DEF TypeOK, ReadInv
<1>8. Len(rows) \in Nat
  BY <1>2
<1>9. /\ fetching' \in FetchingType /\ pages' \subseteq Seq(Rows(fetching'.feed))
      /\ \A page2 \in pages' : ToSet(page2) \subseteq seen /\ Len(page2) >= PageSize
  <2>1. 1 \in 1..PageAttempts /\ 1 \in 1..HttpAttempts /\ page + 1 \in Nat \ {0}
        /\ fetching \in FetchingType /\ pages \subseteq Seq(Rows(feed))
    BY <1>3, <1>4 DEF TypeOK, FetchingType
  <2>2. CASE ~LastPage(rows)
    <3>1. fetching' = [feed |-> feed, page |-> page + 1, tries |-> 1, requests |-> 1]
          /\ pages' = pages \union {rows}
      BY <1>1, <1>4, <2>2 DEF FirstPage
    <3>2. fetching' \in FetchingType /\ fetching'.feed = feed
      BY <1>4, <2>1, <3>1 DEF FetchingType
    <3>3. Len(rows) >= PageSize
      BY <1>8, <2>2 DEF LastPage
    <3>4. rows \in Seq(Rows(feed))
      BY <1>2, <1>4
    <3>5. pages' \subseteq Seq(Rows(fetching'.feed))
      BY <2>1, <3>1, <3>2, <3>4
    <3>6. QED BY <1>2, <1>3, <3>1, <3>2, <3>3, <3>5 DEF ReadInv
  <2>3. CASE LastPage(rows)
    <3>1. pages' = {} /\ (fetching' = fetching \/ fetching' = FirstPage("catalog"))
      BY <1>1, <2>3
    <3>2. FirstPage("catalog") \in FetchingType
      BY <2>1 DEF FetchingType, FirstPage, Feeds
    <3>3. QED BY <2>1, <3>1, <3>2
  <2>4. QED BY <2>2, <2>3
<1>10. at' \in {"request", "join"}
  BY <1>1, <1>3
<1>11. TypeOK'
  BY <1>3, <1>6, <1>7, <1>9, <1>10 DEF TypeOK, FetchingType
<1>12. ReadInv'
  BY <1>3, <1>7, <1>9 DEF ReadInv
<1>13. PrefixInv'
  <2> SUFFICES ASSUME ~shifted PROVE PrefixInv'
    BY <1>3 DEF PrefixInv
  <2>1. CASE feed = "catalog"
    <3>1. records["latest"] = upstream["latest"] /\ records'["latest"] = records["latest"]
      BY <1>3, <1>4, <1>6, <2>1 DEF IInv, PrefixInv, Feeds
    <3>2. fetching'.feed = "catalog"
      BY <1>1, <1>4, <2>1 DEF FirstPage
    <3>3. QED BY <1>3, <3>1, <3>2 DEF PrefixInv
  <2>2. CASE feed = "latest"
    <3>1. PICK u \in Seq(Rows(feed)) : u = upstream["latest"]
      BY <1>3, <1>4, <2>2 DEF TypeOK
    <3>2. Passed <= Len(u) /\ old = SubSeq(u, 1, Passed)
      BY <1>3, <1>4, <2>2, <3>1 DEF IInv, PrefixInv
    <3>3. Passed \in Nat /\ page * PageSize = Passed + PageSize
      BY <1>3, <1>4, <2>2, <3>1, CurrentRows
    <3>4. PICK a \in Nat, b \in Nat :
            /\ a = Passed /\ rows = SubSeq(u, a + 1, b) /\ b <= Len(u)
            /\ b = Len(u) \/ b = a + PageSize
            /\ b <= a + PageSize
      BY <1>2, <1>3, <1>4, <2>2, <3>1, <3>3, CurrentRows
    <3>5. Len(rows) = IF a + 1 <= b THEN b - a ELSE 0
      <4>1. a + 1 \in Nat \ {0}
        BY <3>4
      <4>2. Len(SubSeq(u, a + 1, b)) = IF a + 1 <= b THEN b - (a + 1) + 1 ELSE 0
        BY <3>4, <4>1, PartOfRows
      <4>3. QED BY <3>4, <4>2
    <3>6. a <= b
      <4>1. a <= Len(u) /\ PageSize \in Nat /\ (b = Len(u) \/ b = a + PageSize)
        BY <3>2, <3>4
      <4>2. QED BY <3>4, <4>1
    <3>7. old \o rows = SubSeq(u, 1, b)
      BY <3>1, <3>2, <3>4, <3>6, NextPart
    <3>8. CASE ~LastPage(rows)
      <4>1. b = a + PageSize
        BY <3>4, <3>5, <3>6, <3>8 DEF LastPage
      <4>2. fetching'.feed = "latest" /\ fetching'.page = page + 1 /\ at' = "request"
        BY <1>1, <1>3, <1>4, <2>2, <3>8 DEF FirstPage
      <4>3. Passed' = page * PageSize
        BY <1>4, <4>2 DEF Passed
      <4>4. Passed' = b
        BY <3>3, <3>4, <4>1, <4>3
      <4>5. QED BY <1>3, <1>6, <2>2, <3>1, <3>4, <3>7, <4>2, <4>4 DEF PrefixInv
    <3>9. CASE LastPage(rows)
      <4>1. b = Len(u)
        BY <3>1, <3>4, <3>5, <3>6, <3>9 DEF LastPage
      <4>2. old \o rows = u
        BY <3>7, <4>1, AllRows
      <4>3. fetching'.feed = "catalog"
        BY <1>1, <1>4, <2>2, <3>9 DEF FirstPage
      <4>4. QED BY <1>3, <1>6, <2>2, <3>1, <4>2, <4>3 DEF PrefixInv
    <3>10. QED BY <3>8, <3>9
  <2>3. QED BY <1>4, <2>1, <2>2 DEF Feeds
<1>14. JoinedFromOneTransaction' /\ FallbackOnlyAfterFailure' /\ CompleteUnlessShifted'
  BY <1>10 DEF JoinedFromOneTransaction, FallbackOnlyAfterFailure, CompleteUnlessShifted
<1>15. QED BY <1>11, <1>12, <1>13, <1>14 DEF IInv

(***************************************************************************)
(* The join                                                                *)
(***************************************************************************)
LEMMA RejoinSafety == ASSUME IInv, Rejoin PROVE IInv'
<1>1. /\ transaction < TransactionAttempts /\ transaction' = transaction + 1
      /\ at' = "request" /\ fetching' = FirstPage("latest")
      /\ pages' = {} /\ records' = NoRecords
      /\ seen' = RowsOf(upstream) /\ shifted' = FALSE
      /\ UNCHANGED <<upstream, changes, source, result, answer>> /\ TypeOK
  BY DEF Rejoin, upstreamVars, IInv
<1>2. FirstPage("latest") \in FetchingType /\ fetching'.feed = "latest" /\ fetching'.page = 1
  BY <1>1 DEF FirstPage, FetchingType, Feeds
<1>3. DOMAIN records' = Feeds /\ \A f \in Feeds : records'[f] = <<>>
  BY <1>1 DEF NoRecords
<1>4. ASSUME NEW f \in Feeds PROVE ToSet(upstream[f]) \subseteq Rows(f)
  <2>1. \A i \in DOMAIN upstream[f] : upstream[f][i] \in Rows(f)
    BY <1>1 DEF TypeOK
  <2>2. QED BY <2>1 DEF ToSet
<1>5. seen' \subseteq UNION {Rows(f) : f \in Feeds}
  BY <1>1, <1>4 DEF RowsOf
<1>6. TypeOK'
  <2>1. transaction' \in 1..TransactionAttempts
    BY <1>1 DEF TypeOK
  <2>2. ASSUME NEW f \in Feeds PROVE records'[f] \in Seq(Rows(f))
    <3>1. <<>> \in Seq(Rows(f))
      OBVIOUS
    <3>2. QED BY <1>3, <3>1
  <2>3. pages' \subseteq Seq(Rows(fetching'.feed))
    BY <1>1
  <2>4. QED BY <1>1, <1>2, <1>3, <1>5, <2>1, <2>2, <2>3 DEF TypeOK, FetchingType
<1>7. ReadInv'
  <2>1. \A f \in Feeds : ToSet(upstream'[f]) \subseteq seen'
    BY <1>1 DEF RowsOf
  <2>2. ToSet(<<>>) = {}
    BY DEF ToSet
  <2>3. QED BY <1>1, <1>3, <2>1, <2>2 DEF ReadInv
<1>8. PrefixInv'
  <2>1. Passed' = 0
    BY <1>2 DEF Passed
  <2>2. PICK u : u \in Seq(Rows("latest")) /\ u = upstream["latest"]
    BY <1>1 DEF TypeOK, Feeds
  <2>3. SubSeq(u, 1, 0) = <<>> /\ 0 <= Len(u)
    BY <2>2
  <2>4. records'["latest"] = <<>>
    BY <1>3 DEF Feeds
  <2>5. QED BY <1>1, <1>2, <2>1, <2>2, <2>3, <2>4 DEF PrefixInv
<1>9. JoinedFromOneTransaction' /\ FallbackOnlyAfterFailure' /\ CompleteUnlessShifted'
  BY <1>1 DEF JoinedFromOneTransaction, FallbackOnlyAfterFailure, CompleteUnlessShifted
<1>10. QED BY <1>6, <1>7, <1>8, <1>9 DEF IInv

\* The first of the measurements with a property.
LEMMA FirstOf ==
  ASSUME NEW n \in Nat, NEW S \in SUBSET (1..n), S # {}
  PROVE  \E i \in S : \A j \in 1..(i - 1) : j \notin S
<1>1. S \subseteq Nat
  OBVIOUS
<1>2. PICK i \in S : \A j \in S : ~(<<j, i>> \in OpToRel(<, Nat))
  BY <1>1, NatLessThanWellFounded, WFMin
<1>3. ASSUME NEW j \in 1..(i - 1), j \in S PROVE FALSE
  <2>1. i \in Nat /\ j \in Nat /\ j < i
    BY <1>1
  <2>2. QED BY <1>2, <1>3, <2>1 DEF OpToRel
<1>4. QED BY <1>3

\* Rows that can be joined: every measurement of the target has its sensor there.
LEMMA NothingInTheWay ==
  ASSUME TypeOK, ~Inconsistent, ~Unusable
  PROVE  /\ \A m \in Targets : Matches(m)
         /\ \A f \in Feeds : Unique(records[f])
<1>1. WellFormed /\ \A f \in Feeds : Unique(records[f])
  BY DEF Inconsistent
<1>2. FirstObstacle = {}
  BY <1>1 DEF Inconsistent, Unusable
<1>3. PICK rows : rows \in Seq(Rows("latest")) /\ rows = records["latest"]
  BY DEF TypeOK, Feeds
<1>4. DOMAIN rows = 1..Len(rows) /\ Len(rows) \in Nat
  BY <1>3
<1>5. \A i \in DOMAIN rows : ~Obstacle(i)
  <2>1. PICK n \in Nat : n = Len(rows)
    BY <1>4
  <2>2. PICK S \in SUBSET (1..n) : S = {i \in 1..Len(rows) : Obstacle(i)}
    BY <2>1
  <2>3. ASSUME S # {} PROVE FALSE
    <3>1. PICK i \in S : \A j \in 1..(i - 1) : j \notin S
      BY <2>3, FirstOf
    <3>2. i \in 1..Len(rows) /\ Obstacle(i)
      BY <2>2
    <3>3. \A j \in 1..(i - 1) : j \in 1..Len(rows)
      BY <1>4, <3>2
    <3>4. \A j \in 1..(i - 1) : ~Obstacle(j)
      BY <2>2, <3>1, <3>3
    <3>5. QED BY <1>2, <1>3, <1>4, <3>2, <3>4 DEF FirstObstacle
  <2>4. QED BY <1>4, <2>2, <2>3
<1>6. ASSUME NEW m \in Targets PROVE Matches(m)
  <2>1. PICK i \in DOMAIN rows : m = rows[i]
    BY <1>3 DEF Targets, ToSet
  <2>2. QED BY <1>3, <1>5, <2>1 DEF Obstacle
<1>7. QED BY <1>1, <1>6

LEMMA JoinSafety == ASSUME IInv, Join PROVE IInv'
<1>1. /\ at = "join" /\ ~Inconsistent /\ ~Unusable /\ at' = "api" /\ result' = Joined
      /\ UNCHANGED <<upstream, changes, source, fetching, pages, records, transaction, seen,
                     shifted, answer>>
  BY DEF Join, upstreamVars
<1>2. TypeOK /\ ReadInv
  BY DEF IInv
<1>3. PICK rows, sensors :
        /\ rows \in Seq(Rows("latest")) /\ rows = records["latest"]
        /\ sensors \in Seq(Rows("catalog")) /\ sensors = records["catalog"]
  BY <1>2 DEF TypeOK, Feeds
<1>4. /\ \A m \in Targets : Matches(m)
      /\ Unique(rows) /\ Unique(sensors)
  BY <1>1, <1>2, <1>3, NothingInTheWay DEF Feeds
<1>5. /\ Targets \subseteq ToSet(rows) /\ ToSet(rows) \subseteq Rows("latest")
      /\ ToSet(sensors) \subseteq Rows("catalog")
      /\ ToSet(rows) \subseteq seen /\ ToSet(sensors) \subseteq seen
  <2>1. Targets \subseteq ToSet(rows)
    BY <1>3 DEF Targets
  <2>2. ToSet(rows) \subseteq Rows("latest")
    BY <1>3 DEF ToSet
  <2>3. ToSet(sensors) \subseteq Rows("catalog")
    BY <1>3 DEF ToSet
  <2>4. ToSet(rows) \subseteq seen /\ ToSet(sensors) \subseteq seen
    BY <1>2, <1>3 DEF ReadInv, Feeds
  <2>5. QED BY <2>1, <2>2, <2>3, <2>4
<1>6. \A x, y \in ToSet(rows) : x.id = y.id => x = y
  BY <1>4 DEF Unique, ToSet
<1>7. \A x, y \in ToSet(sensors) : x.id = y.id => x = y
  BY <1>4 DEF Unique, ToSet
<1>8. \A p \in Joined : /\ p \in Targets \X ToSet(sensors) /\ p[1].id = p[2].id
                        /\ p[1] \in Targets /\ p[2] \in ToSet(sensors) /\ p = <<p[1], p[2]>>
  BY <1>3 DEF Joined
<1>9. ASSUME NEW m \in Targets
      PROVE  \E c \in ToSet(sensors) : c.id = m.id /\ c.area = m.area /\ <<m, c>> \in Joined
  <2>1. PICK c \in ToSet(sensors) : c.id = m.id /\ c.area = m.area
    BY <1>3, <1>4 DEF Matches, Metadata
  <2>2. <<m, c>> \in Joined
    BY <1>3, <2>1 DEF Joined
  <2>3. QED BY <2>1, <2>2
<1>10. Joined \subseteq Rows("latest") \X Rows("catalog")
  BY <1>5, <1>8
<1>11. TypeOK'
  BY <1>1, <1>2, <1>10 DEF TypeOK
<1>12. ReadInv' /\ PrefixInv' /\ FallbackOnlyAfterFailure'
  BY <1>1, <1>2 DEF ReadInv, PrefixInv, FallbackOnlyAfterFailure
<1>13. JoinedFromOneTransaction'
  <2>1. \A p \in Joined : p[1] \in seen /\ p[2] \in seen
    BY <1>5, <1>8
  <2>2. ASSUME NEW p \in Joined, NEW q \in Joined, p[1].id = q[1].id PROVE p = q
    <3>1. p[1] = q[1] /\ p[2] = q[2]
      BY <1>5, <1>6, <1>7, <1>8, <2>2
    <3>2. QED BY <1>8, <3>1
  <2>3. ASSUME NEW p \in Joined PROVE p[1].id = p[2].id /\ p[1].area = p[2].area
    <3>1. PICK c \in ToSet(sensors) : c.id = p[1].id /\ c.area = p[1].area
      BY <1>8, <1>9
    <3>2. c = p[2]
      BY <1>7, <1>8, <3>1
    <3>3. QED BY <1>8, <3>1, <3>2
  <2>4. QED BY <1>1, <2>1, <2>2, <2>3 DEF JoinedFromOneTransaction
<1>14. CompleteUnlessShifted'
  <2> SUFFICES ASSUME ~shifted
               PROVE  {p[1] : p \in Joined} = {m \in ToSet(upstream["latest"]) : m.area = "target"}
    BY <1>1 DEF CompleteUnlessShifted
  <2>1. records["latest"] = upstream["latest"]
    BY <1>1 DEF IInv, PrefixInv
  <2>2. Targets = {m \in ToSet(upstream["latest"]) : m.area = "target"}
    BY <2>1 DEF Targets
  <2>3. ASSUME NEW m \in Targets PROVE \E p \in Joined : p[1] = m
    <3>1. PICK c \in ToSet(sensors) : <<m, c>> \in Joined
      BY <1>9
    <3>2. <<m, c>>[1] = m
      OBVIOUS
    <3>3. QED BY <3>1, <3>2
  <2>4. \A p \in Joined : p[1] \in Targets
    BY <1>8
  <2>5. {p[1] : p \in Joined} = Targets
    BY <2>3, <2>4
  <2>6. QED BY <2>2, <2>5
<1>15. QED BY <1>11, <1>12, <1>13, <1>14 DEF IInv

(***************************************************************************)
(* The invariant                                                           *)
(***************************************************************************)
LEMMA InvInit == Init => IInv
<1> SUFFICES ASSUME Init PROVE IInv
  OBVIOUS
<1>1. PICK ids \in SetToSeqs(Sensors), n \in 0..Cardinality(Sensors) :
        upstream = [f \in Feeds |->
          [i \in 1..n |-> [id |-> ids[i], area |-> "target", content |-> "ok"]]]
  BY DEF Init
<1>2. Cardinality(Sensors) \in Nat
  BY FS_CardinalityType
<1>3. \A i \in 1..n : ids[i] \in Sensors
  BY <1>1, <1>2 DEF SetToSeqs
<1>4. ASSUME NEW f \in Feeds PROVE upstream[f] \in Seq(Rows(f)) /\ ToSet(upstream[f]) \subseteq Rows(f)
  <2>1. PICK rows : rows = [i \in 1..n |-> [id |-> ids[i], area |-> "target", content |-> "ok"]]
    OBVIOUS
  <2>2. n \in Nat /\ "ok" \in Contents[f]
    BY <1>2 DEF Contents, Feeds
  <2>3. \A i \in 1..n : rows[i] \in Rows(f)
    BY <1>3, <2>1, <2>2 DEF Rows, Areas
  <2>4. rows \in [1..n -> Rows(f)]
    BY <2>1, <2>3
  <2>5. rows \in Seq(Rows(f)) /\ DOMAIN rows = 1..n
    BY <2>2, <2>4
  <2>6. ToSet(rows) \subseteq Rows(f)
    BY <2>3, <2>5 DEF ToSet
  <2>7. QED BY <1>1, <2>1, <2>5, <2>6
<1>5. /\ changes = 0 /\ source \in Sources /\ at = (IF source = "scraper" THEN "scrape" ELSE "request")
      /\ fetching = FirstPage("latest") /\ pages = {} /\ records = NoRecords
      /\ transaction = 1 /\ result = {} /\ seen = RowsOf(upstream) /\ shifted = FALSE
      /\ answer = "none"
  BY DEF Init
<1>6. DOMAIN records = Feeds /\ \A f \in Feeds : records[f] = <<>> /\ records[f] \in Seq(Rows(f))
  <2>1. ASSUME NEW f \in Feeds PROVE <<>> \in Seq(Rows(f))
    OBVIOUS
  <2>2. QED BY <1>5, <2>1 DEF NoRecords
<1>7. fetching \in FetchingType /\ fetching.feed = "latest" /\ fetching.page = 1
  BY <1>5 DEF FirstPage, FetchingType, Feeds
<1>8. seen \subseteq UNION {Rows(f) : f \in Feeds} /\ \A f \in Feeds : ToSet(upstream[f]) \subseteq seen
  BY <1>4, <1>5 DEF RowsOf
<1>9. TypeOK
  <2>1. DOMAIN upstream = Feeds
    BY <1>1
  <2>2. changes \in 0..MaxChanges /\ transaction \in 1..TransactionAttempts
    BY <1>5
  <2>3. pages \subseteq Seq(Rows(fetching.feed)) /\ result \subseteq Rows("latest") \X Rows("catalog")
    BY <1>5
  <2>4. shifted \in BOOLEAN
    BY <1>5
  <2>5. at \in {"request", "scrape"} /\ answer = "none" /\ source \in Sources
    BY <1>5
  <2>6. QED BY <1>4, <1>6, <1>7, <1>8, <2>1, <2>2, <2>3, <2>4, <2>5 DEF TypeOK, FetchingType
<1>10. ReadInv
  <2>1. ToSet(<<>>) = {}
    BY DEF ToSet
  <2>2. QED BY <1>5, <1>6, <1>8, <2>1 DEF ReadInv
<1>11. PrefixInv
  <2>1. Passed = 0
    BY <1>7 DEF Passed
  <2>2. PICK u : u \in Seq(Rows("latest")) /\ u = upstream["latest"]
    BY <1>4 DEF Feeds
  <2>3. SubSeq(u, 1, 0) = <<>> /\ 0 <= Len(u)
    BY <2>2
  <2>4. records["latest"] = <<>>
    BY <1>6 DEF Feeds
  <2>5. at # "join"
    BY <1>5
  <2>6. QED BY <1>7, <2>1, <2>2, <2>3, <2>4, <2>5 DEF PrefixInv
<1>12. JoinedFromOneTransaction /\ FallbackOnlyAfterFailure /\ CompleteUnlessShifted
  BY <1>5 DEF JoinedFromOneTransaction, FallbackOnlyAfterFailure, CompleteUnlessShifted
<1>13. QED BY <1>9, <1>10, <1>11, <1>12 DEF IInv

LEMMA InvStep == IInv /\ [Next]_vars => IInv'
<1> SUFFICES ASSUME IInv, [Next]_vars PROVE IInv'
  OBVIOUS
<1>1. CASE RequestFails \/ Unauthorized \/ BadBody \/ WrongRoot \/ RepeatedPage
  BY <1>1, RetrySafety
<1>2. CASE NewPage
  BY <1>2, NewPageSafety
<1>3. CASE Rejoin
  BY <1>3, RejoinSafety
<1>4. CASE JoinFails \/ Scrape
  BY <1>4, FailSafety
<1>5. CASE Join
  BY <1>5, JoinSafety
<1>6. CASE \E f \in Feeds : FeedChanges(f)
  BY <1>6, ChangeSafety
<1>7. CASE UNCHANGED vars
  <2>1. UNCHANGED <<upstream, changes, source, at, fetching, pages, records, transaction, result,
                    seen, shifted, answer>>
    BY <1>7 DEF vars, upstreamVars
  <2>2. QED BY <2>1 DEF IInv, TypeOK, ReadInv, PrefixInv, Passed, JoinedFromOneTransaction,
                        FallbackOnlyAfterFailure, CompleteUnlessShifted
<1>8. QED BY <1>1, <1>2, <1>3, <1>4, <1>5, <1>6, <1>7 DEF Next, Step

(***************************************************************************)
(* Theorems                                                                *)
(***************************************************************************)
\* The inductive invariant: what was read was listed in this transaction, and while
\* nothing moves the measurements read so far are the beginning of their feed.
THEOREM InductiveInvariant == Spec => []IInv
BY InvInit, InvStep, PTL DEF Spec

\* The records of a collection are one published join of one transaction, each sensor
\* once and with the metadata of its area, however the feeds move and whichever requests
\* fail; and only a request that failed leads "auto" to the page.
THEOREM CollectionIsSafe == Spec => []Safety
<1>1. IInv => Safety
  BY DEF IInv, Safety
<1>2. QED BY <1>1, InductiveInvariant, PTL

\* No sensor of the target is missed and none invented while the feeds do not move,
\* whatever pages the server repeats.
THEOREM CollectionIsComplete == Spec => []CompleteUnlessShifted
<1>1. IInv => CompleteUnlessShifted
  BY DEF IInv
<1>2. QED BY <1>1, InductiveInvariant, PTL
=============================================================================
