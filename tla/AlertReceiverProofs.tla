------------------------- MODULE AlertReceiverProofs -------------------------
(***************************************************************************)
(* Proofs about AlertReceiver for any notifications, posts and faults:     *)
(* what Discord and Alertmanager are told stands on the audit log, and     *)
(* neither more messages nor fewer records than the faults explain.  The   *)
(* counting is by one element: a step of a handler changes the sets of its *)
(* request only.                                                           *)
(***************************************************************************)
EXTENDS AlertReceiver, FiniteSetTheorems, TLAPS

USE ReceiverAssumption

(***************************************************************************)
(* Counting                                                                *)
(***************************************************************************)
LEMMA RequestsFinite == IsFiniteSet(Requests) /\ Requests \subseteq Nat \ {0}
<1>1. Cardinality(Notifications) \in Nat
  BY FS_CardinalityType
<1>2. Cardinality(Notifications) * (1 + MaxFaults) \in Int
  BY <1>1
<1>3. QED BY <1>2, FS_Interval DEF Requests

LEMMA SomeRequests ==
  ASSUME NEW S \in SUBSET Requests
  PROVE  IsFiniteSet(S) /\ Cardinality(S) \in Nat
BY RequestsFinite, FS_Subset, FS_CardinalityType

\* Two sets of requests that differ at most in r.
LEMMA CountOne ==
  ASSUME NEW S \in SUBSET Requests, NEW T \in SUBSET Requests, NEW r, S \ {r} = T \ {r}
  PROVE  Cardinality(T) + (IF r \in S THEN 1 ELSE 0) = Cardinality(S) + (IF r \in T THEN 1 ELSE 0)
<1>1. /\ IsFiniteSet(S) /\ IsFiniteSet(T)
      /\ Cardinality(S) \in Nat /\ Cardinality(T) \in Nat
  BY SomeRequests
<1>2. /\ Cardinality(S \ {r}) = IF r \in S THEN Cardinality(S) - 1 ELSE Cardinality(S)
      /\ Cardinality(T \ {r}) = IF r \in T THEN Cardinality(T) - 1 ELSE Cardinality(T)
  BY <1>1, FS_RemoveElement
<1>3. Cardinality(S \ {r}) = Cardinality(T \ {r})
  OBVIOUS
<1> DEFINE s == Cardinality(S)
           t == Cardinality(T)
<1>4. s \in Nat /\ t \in Nat
  BY <1>1
<1>5. (IF r \in S THEN s - 1 ELSE s) = (IF r \in T THEN t - 1 ELSE t)
  BY <1>2, <1>3
<1> HIDE DEF s, t
<1>6. t + (IF r \in S THEN 1 ELSE 0) = s + (IF r \in T THEN 1 ELSE 0)
  BY <1>4, <1>5
<1>7. QED BY <1>6 DEF s, t

(***************************************************************************)
(* A step of one handler                                                   *)
(***************************************************************************)
LEMMA Counters ==
  ASSUME TypeOK
  PROVE  /\ faults.write \in Nat /\ faults.other \in Nat
         /\ faults.write <= MaxFaults /\ faults.other <= MaxFaults
         /\ Happened \in Nat
         /\ \A n \in Notifications : discord[n] \in Nat /\ Due(n) \in {0, 1}
<1>1. faults.write \in 0..MaxFaults /\ faults.other \in 0..MaxFaults
  BY DEF TypeOK
<1>2. \A n \in Notifications : discord[n] \in Nat /\ Due(n) \in {0, 1}
  BY DEF TypeOK, Due
<1>3. QED BY <1>1, <1>2 DEF Happened

Faults == [write : 0..MaxFaults, other : 0..MaxFaults]

LEMMA OneMoreFault ==
  ASSUME TypeOK, NEW kind \in {"write", "other"}, Fault(kind)
  PROVE  /\ faults' \in Faults /\ Happened' = Happened + 1
         /\ faults'.write = faults.write + (IF kind = "write" THEN 1 ELSE 0)
<1>1. /\ faults \in Faults
      /\ faults.write \in Nat /\ faults.other \in Nat
      /\ faults.write + faults.other < MaxFaults
  BY Counters DEF TypeOK, Fault, Happened, Faults
<1>2. CASE kind = "write"
  <2>1. faults'.write = faults.write + 1 /\ faults'.other = faults.other
    BY <1>1, <1>2 DEF Fault, Faults
  <2>2. faults.write + 1 \in 0..MaxFaults
    BY <1>1
  <2>3. faults' \in Faults
    BY <1>1, <1>2, <2>2 DEF Fault, Faults
  <2>4. QED BY <1>1, <1>2, <2>1, <2>3 DEF Happened
<1>3. CASE kind = "other"
  <2>1. faults'.write = faults.write /\ faults'.other = faults.other + 1
    BY <1>1, <1>3 DEF Fault, Faults
  <2>2. faults.other + 1 \in 0..MaxFaults
    BY <1>1
  <2>3. faults' \in Faults
    BY <1>1, <1>3, <2>2 DEF Fault, Faults
  <2>4. QED BY <1>1, <1>3, <2>1, <2>3 DEF Happened
<1>4. QED BY <1>2, <1>3

\* The handler of r, for n, goes on as `new', and Discord shows n `shown' times: what was
\* audited stays so, what Discord shows does not go away, and the message that may come
\* has come, may still come, or is a fault's.
GoesOn(r, n, new, shown) ==
  /\ request[r].alert = {n} /\ request[r].at # "none"
  /\ new.alert = {n} /\ new.at # "none" /\ HandlerSound(new)'
  /\ request[r].audited => new.audited
  /\ request' = [request EXCEPT ![r] = new] /\ UNCHANGED alertmanager
  /\ discord' = [discord EXCEPT ![n] = shown] /\ discord[n] <= shown
  /\ shown # discord[n] => new.audited
  /\ shown + (IF MayShow(new) THEN 1 ELSE 0) + Happened
       <= discord[n] + (IF MayShow(request[r]) THEN 1 ELSE 0) + Happened'

\* The logs get the record of r at most, and lose it at the cost of a write.
LogsGoOn(r) ==
  /\ alerts' \in Logs /\ alerts'.lines \ {r} = alerts.lines \ {r}
  /\ deliveries' \in Logs /\ deliveries'.lines \ {r} = deliveries.lines \ {r}
  /\ faults' \in Faults
  /\ Happened' \in Nat /\ Happened <= Happened'
  /\ (IF r \in Unrecorded' THEN 1 ELSE 0) + Torn(alerts') + faults.write
       <= (IF r \in Unrecorded THEN 1 ELSE 0) + Torn(alerts) + faults'.write
  /\ (IF r \in Undelivered' THEN 1 ELSE 0) + Torn(deliveries') + faults.write
       <= (IF r \in Undelivered THEN 1 ELSE 0) + Torn(deliveries) + faults'.write

LEMMA HandlerStep ==
  ASSUME Safety, NEW r \in Requests, NEW n \in Notifications, NEW new \in Handlers,
         NEW shown \in Nat, GoesOn(r, n, new, shown), LogsGoOn(r)
  PROVE  Safety'
<1>1. /\ TypeOK /\ RequestsSound /\ MessagesAccounted /\ RecordsAccounted
      /\ ShownIsAudited /\ AcceptedIsDelivered
  BY DEF Safety
<1> USE DEF GoesOn, LogsGoOn
<1>2. /\ request'[r] = new /\ \A q \in Requests : q # r => request'[q] = request[q]
      /\ request' \in [Requests -> Handlers]
  BY <1>1 DEF TypeOK
<1>3. /\ discord'[n] = shown /\ \A m \in Notifications : m # n => discord'[m] = discord[m]
      /\ discord' \in [Notifications -> Nat]
      /\ \A m \in Notifications : discord[m] <= discord'[m]
  <2>1. /\ discord'[n] = shown /\ \A m \in Notifications : m # n => discord'[m] = discord[m]
        /\ discord' \in [Notifications -> Nat]
    BY <1>1 DEF TypeOK
  <2>2. \A m \in Notifications : discord[m] \in Nat
    BY <1>1 DEF TypeOK
  <2>3. QED BY <2>1, <2>2
<1>4. TypeOK'
  BY <1>1, <1>2, <1>3 DEF TypeOK, Faults
<1>5. \A m \in Notifications : RequestsOf(m)' = RequestsOf(m)
  BY <1>2 DEF RequestsOf
<1>6. RequestsSound'
  <2>1. ASSUME NEW q \in Requests PROVE HandlerSound(request[q])'
    <3>1. CASE q = r
      BY <1>2, <3>1 DEF HandlerSound
    <3>2. CASE q # r
      <4>1. HandlerSound(request[q]) /\ request'[q] = request[q] /\ request[q].alert \subseteq Notifications
        BY <1>1, <1>2, <3>2 DEF RequestsSound, TypeOK, Handlers
      <4>2. \A m \in Notifications : discord[m] \in Nat /\ discord'[m] \in Nat
        BY <1>1, <1>3 DEF TypeOK
      <4>3. QED BY <1>3, <4>1, <4>2 DEF HandlerSound
    <3>3. QED BY <3>1, <3>2
  <2>2. ASSUME NEW m \in Notifications PROVE WaitingSound(m)'
    <3>1. WaitingSound(m) /\ alertmanager[m].waiting \in {0} \union Requests
      BY <1>1 DEF RequestsSound, TypeOK, Sendings
    <3>2. QED BY <1>2, <3>1 DEF WaitingSound
  <2>3. QED BY <2>1, <2>2 DEF RequestsSound
<1>7. MessagesAccounted'
  <2> SUFFICES ASSUME NEW m \in Notifications
               PROVE  discord'[m] + Cardinality(Coming(m)') + Due(m)' <= 1 + Happened'
    BY DEF MessagesAccounted
  <2>1. Due(m)' = Due(m) /\ Due(m) \in Nat /\ discord[m] \in Nat /\ discord'[m] \in Nat
        /\ Happened \in Nat
    BY <1>1, <1>3, Counters DEF Due
  <2>2. Coming(m) \in SUBSET Requests /\ Coming(m)' \in SUBSET Requests
    BY DEF Coming, RequestsOf
  <2>3. Coming(m) \ {r} = Coming(m)' \ {r}
    BY <1>2, <1>5 DEF Coming, RequestsOf
  <2>4. Cardinality(Coming(m)) \in Nat /\ Cardinality(Coming(m)') \in Nat
    BY <2>2, SomeRequests
  <2>5. discord[m] + Cardinality(Coming(m)) + Due(m) <= 1 + Happened
    BY <1>1 DEF MessagesAccounted
  <2>6. CASE m = n
    <3>1. (r \in Coming(m) <=> MayShow(request[r])) /\ (r \in Coming(m)' <=> MayShow(new))
      BY <1>2, <2>6 DEF Coming, RequestsOf
    <3>2. Cardinality(Coming(m)') + (IF MayShow(request[r]) THEN 1 ELSE 0)
            = Cardinality(Coming(m)) + (IF MayShow(new) THEN 1 ELSE 0)
      BY <2>2, <2>3, <3>1, CountOne
    <3>3. QED BY <1>3, <2>1, <2>4, <2>5, <2>6, <3>2
  <2>7. CASE m # n
    <3>1. Coming(m)' = Coming(m)
      BY <1>2, <2>7 DEF Coming, RequestsOf
    <3>2. QED BY <1>3, <2>1, <2>4, <2>5, <2>7, <3>1
  <2>8. QED BY <2>6, <2>7
<1>8. RecordsAccounted'
  <2>1. Torn(alerts) \in Nat /\ Torn(alerts)' \in Nat /\ Torn(deliveries) \in Nat
        /\ Torn(deliveries)' \in Nat /\ faults.write \in Nat /\ faults'.write \in Nat
    BY <1>1, <1>4, Counters DEF Torn, Faults
  <2>2. Cardinality(Unrecorded)' + Torn(alerts)' <= faults'.write
    <3>1. /\ Unrecorded \in SUBSET Requests /\ Unrecorded' \in SUBSET Requests
          /\ Unrecorded \ {r} = Unrecorded' \ {r}
      BY <1>2 DEF Unrecorded
    <3>2. Cardinality(Unrecorded) \in Nat /\ Cardinality(Unrecorded') \in Nat
      BY <3>1, SomeRequests
    <3>3. Cardinality(Unrecorded') + (IF r \in Unrecorded THEN 1 ELSE 0)
            = Cardinality(Unrecorded) + (IF r \in Unrecorded' THEN 1 ELSE 0)
      BY <3>1, CountOne
    <3>4. Cardinality(Unrecorded) + Torn(alerts) <= faults.write
      BY <1>1 DEF RecordsAccounted
    <3>5. QED BY <2>1, <3>2, <3>3, <3>4
  <2>3. Cardinality(Undelivered)' + Torn(deliveries)' <= faults'.write
    <3>1. /\ Undelivered \in SUBSET Requests /\ Undelivered' \in SUBSET Requests
          /\ Undelivered \ {r} = Undelivered' \ {r}
      BY <1>2 DEF Undelivered
    <3>2. Cardinality(Undelivered) \in Nat /\ Cardinality(Undelivered') \in Nat
      BY <3>1, SomeRequests
    <3>3. Cardinality(Undelivered') + (IF r \in Undelivered THEN 1 ELSE 0)
            = Cardinality(Undelivered) + (IF r \in Undelivered' THEN 1 ELSE 0)
      BY <3>1, CountOne
    <3>4. Cardinality(Undelivered) + Torn(deliveries) <= faults.write
      BY <1>1 DEF RecordsAccounted
    <3>5. QED BY <2>1, <3>2, <3>3, <3>4
  <2>4. QED BY <2>2, <2>3 DEF RecordsAccounted
<1>9. ShownIsAudited'
  <2> SUFFICES ASSUME NEW m \in Notifications, discord'[m] > 0
               PROVE  \E q \in RequestsOf(m)' : request'[q].audited
    BY DEF ShownIsAudited
  <2>1. CASE discord'[m] # discord[m]
    BY <1>2, <1>3, <2>1 DEF RequestsOf
  <2>2. CASE discord'[m] = discord[m]
    BY <1>1, <1>2, <1>5, <2>2 DEF ShownIsAudited, RequestsOf
  <2>3. QED BY <2>1, <2>2
<1>10. AcceptedIsDelivered'
  <2> SUFFICES ASSUME NEW m \in Notifications, alertmanager[m].state = "accepted"
               PROVE  \E q \in RequestsOf(m)' : request'[q].audited /\ (Discord => discord'[m] > 0)
    BY DEF AcceptedIsDelivered
  <2>1. PICK q \in RequestsOf(m) : request[q].audited /\ (Discord => discord[m] > 0)
    BY <1>1 DEF AcceptedIsDelivered
  <2>2. request'[q].audited /\ q \in RequestsOf(m)'
    BY <1>2, <1>5, <2>1 DEF RequestsOf
  <2>3. discord[m] \in Nat /\ discord'[m] \in Nat /\ discord[m] <= discord'[m]
    BY <1>1, <1>3 DEF TypeOK
  <2>4. QED BY <2>1, <2>2, <2>3
<1>11. QED BY <1>4, <1>6, <1>7, <1>8, <1>9, <1>10 DEF Safety

(***************************************************************************)
(* The handler                                                             *)
(***************************************************************************)
LEMMA HandlerFacts ==
  ASSUME Safety, NEW r \in Requests, request[r].at # "none"
  PROVE  /\ request[r] \in Handlers /\ HandlerSound(request[r])
         /\ Message(r) \in Notifications /\ request[r].alert = {Message(r)}
         /\ discord[Message(r)] \in Nat
         /\ discord = [discord EXCEPT ![Message(r)] = discord[Message(r)]]
<1>1. TypeOK /\ RequestsSound
  BY DEF Safety
<1>2. PICK n \in Notifications : request[r].alert = {n}
  BY <1>1 DEF TypeOK
<1>3. Message(r) = n
  BY <1>2 DEF Message
<1>4. discord \in [Notifications -> Nat]
  BY <1>1 DEF TypeOK
<1>5. QED BY <1>1, <1>2, <1>3, <1>4 DEF TypeOK, RequestsSound

LEMMA LogFacts ==
  ASSUME Safety
  PROVE  /\ alerts \in Logs /\ deliveries \in Logs /\ faults \in Faults
         /\ Happened \in Nat /\ faults.write \in Nat
         /\ Torn(alerts) \in {0, 1} /\ Torn(deliveries) \in {0, 1}
BY Counters DEF Safety, TypeOK, Faults, Torn

\* A record is added, unless it goes behind an unfinished line.
LEMMA AppendOne ==
  ASSUME NEW log \in Logs, NEW r \in Requests
  PROVE  /\ Append(log, r) \in Logs /\ Append(log, r).lines \ {r} = log.lines \ {r}
         /\ Torn(Append(log, r)) = 0 /\ Torn(log) \in {0, 1}
         /\ r \notin Append(log, r).lines => Torn(log) = 1
BY DEF Append, Torn, Logs

LEMMA AppendNothing ==
  ASSUME NEW log \in Logs, NEW left \in AppendFails(log)
  PROVE  /\ left \in Logs /\ left.lines = log.lines
         /\ Torn(left) \in {0, 1} /\ Torn(log) \in {0, 1}
BY DEF AppendFails, Torn, Logs

\* What a handler goes on as is a handler of the same notification.
With(q, at, posts, audited, delivered, status) ==
  [at |-> at, alert |-> q.alert, posts |-> posts, audited |-> audited,
   delivered |-> delivered, status |-> status]

LEMMA NewHandler ==
  ASSUME NEW q \in Handlers,
         NEW at \in {"audit", "send", "log", "reply", "closed"},
         NEW posts \in 0..MaxAttempts, NEW audited \in BOOLEAN, NEW delivered \in BOOLEAN,
         NEW status \in {0, 202, 413, 500, 502}
  PROVE  With(q, at, posts, audited, delivered, status) \in Handlers
<1>1. q.alert \in SUBSET Notifications
  BY DEF Handlers
<1>2. QED BY <1>1 DEF Handlers, With

\* The values a handler has.
LEMMA OldHandler ==
  ASSUME NEW q \in Handlers
  PROVE  /\ q.alert \in SUBSET Notifications /\ q.posts \in 0..MaxAttempts /\ q.audited \in BOOLEAN /\ q.delivered \in BOOLEAN
         /\ q.status \in {0, 202, 413, 500, 502}
         /\ q.at \in {"none", "audit", "send", "log", "reply", "closed"}
         /\ q = [at |-> q.at, alert |-> q.alert, posts |-> q.posts, audited |-> q.audited,
                 delivered |-> q.delivered, status |-> q.status]
BY DEF Handlers

LEMMA TooLargeInv == ASSUME Safety, NEW r \in Requests, TooLarge(r) PROVE Safety'
<1>1. PICK n \in Notifications : n = Message(r)
  BY HandlerFacts DEF TooLarge
<1>2. PICK shown \in Nat : shown = discord[n]
  BY <1>1, HandlerFacts DEF TooLarge
<1>3. /\ request[r] \in Handlers /\ HandlerSound(request[r]) /\ request[r].at = "audit"
      /\ request[r].alert = {n} /\ discord = [discord EXCEPT ![n] = shown]
  BY <1>1, <1>2, HandlerFacts DEF TooLarge
<1>4. PICK new : new = [request[r] EXCEPT !.at = "reply", !.status = 413]
  OBVIOUS
<1>5. /\ new \in Handlers /\ new.at = "reply" /\ new.status = 413 /\ new.alert = request[r].alert
      /\ new.audited = request[r].audited /\ new.delivered = request[r].delivered
  <2>1. new = With(request[r], "reply", request[r].posts, request[r].audited,
                   request[r].delivered, 413)
    BY <1>3, <1>4 DEF Handlers, With
  <2>2. new \in Handlers
    <3>1. /\ request[r] \in Handlers /\ request[r].posts \in 0..MaxAttempts
          /\ request[r].audited \in BOOLEAN /\ request[r].delivered \in BOOLEAN
      BY <1>3, OldHandler
    <3>2. QED BY <2>1, <3>1, NewHandler
  <2>3. QED BY <2>1, <2>2 DEF With
<1>6. request' = [request EXCEPT ![r] = new]
      /\ UNCHANGED <<alertmanager, alerts, deliveries, discord, faults>>
  BY <1>4 DEF TooLarge, Respond, Enter
<1>7. HandlerSound(new)'
  BY <1>3, <1>5, <1>6 DEF HandlerSound
<1>8. ~MayShow(new) /\ MayShow(request[r]) /\ Happened' = Happened
  BY <1>3, <1>5, <1>6 DEF MayShow, Happened
<1>9. (r \in Unrecorded' <=> r \in Unrecorded) /\ r \notin Undelivered'
  <2>1. request'[r] = new
    BY <1>6 DEF Safety, TypeOK
  <2>2. QED BY <1>5, <1>6, <2>1 DEF Unrecorded, Undelivered
<1>10. GoesOn(r, n, new, shown)
  BY <1>2, <1>3, <1>5, <1>6, <1>7, <1>8, LogFacts DEF GoesOn
<1>11. LogsGoOn(r)
  BY <1>6, <1>8, <1>9, LogFacts DEF LogsGoOn
<1>12. QED
  BY <1>5, <1>10, <1>11, HandlerStep

LEMMA AuditFailsInv == ASSUME Safety, NEW r \in Requests, AuditFails(r) PROVE Safety'
<1>1. PICK n \in Notifications : n = Message(r)
  BY HandlerFacts DEF AuditFails
<1>2. /\ request[r] \in Handlers /\ HandlerSound(request[r]) /\ request[r].at = "audit"
      /\ request[r].alert = {n} /\ discord[n] \in Nat
      /\ discord = [discord EXCEPT ![n] = discord[n]]
  BY <1>1, HandlerFacts DEF AuditFails
<1>3. PICK shown \in Nat : shown = discord[n] /\ discord = [discord EXCEPT ![n] = shown]
  BY <1>2
<1>4. PICK new : new = [request[r] EXCEPT !.at = "reply", !.status = 500]
  OBVIOUS
<1>5. /\ new \in Handlers /\ new.alert = request[r].alert
      /\ new.at = "reply" /\ new.status = 500
      /\ new.audited = request[r].audited /\ new.delivered = request[r].delivered
  <2>1. new = With(request[r], "reply", request[r].posts, request[r].audited,
                   request[r].delivered, 500)
    BY <1>2, <1>4 DEF Handlers, With
  <2>2. new \in Handlers
    <3>1. /\ request[r] \in Handlers /\ request[r].posts \in 0..MaxAttempts
          /\ request[r].audited \in BOOLEAN /\ request[r].delivered \in BOOLEAN
      BY <1>2, OldHandler
    <3>2. QED BY <2>1, <3>1, NewHandler
  <2>3. QED BY <2>1, <2>2 DEF With
<1>6. request' = [request EXCEPT ![r] = new]
      /\ UNCHANGED <<alertmanager, deliveries, discord>>
  BY <1>4 DEF AuditFails, Respond, Enter
<1>7. /\ faults' \in Faults /\ Happened' = Happened + 1 /\ faults'.write = faults.write + 1
  BY OneMoreFault DEF AuditFails, Safety
<1>8. /\ alerts' \in Logs /\ alerts'.lines = alerts.lines /\ Torn(alerts') \in {0, 1}
  BY AppendNothing, LogFacts DEF AuditFails
<1>9. HandlerSound(new)'
  BY <1>2, <1>5, <1>6 DEF HandlerSound
<1>10. MayShow(new) /\ MayShow(request[r])
  BY <1>2, <1>5 DEF MayShow
<1>11. (r \in Unrecorded' <=> r \in Unrecorded) /\ r \notin Undelivered'
  <2>1. request'[r] = new
    BY <1>6 DEF Safety, TypeOK
  <2>2. QED BY <1>5, <1>6, <1>8, <2>1 DEF Unrecorded, Undelivered
<1>12. GoesOn(r, n, new, shown)
  BY <1>2, <1>3, <1>5, <1>6, <1>7, <1>9, <1>10, LogFacts DEF GoesOn
<1>13. LogsGoOn(r)
  BY <1>6, <1>7, <1>8, <1>11, LogFacts DEF LogsGoOn
<1>14. QED
  BY <1>5, <1>12, <1>13, HandlerStep

LEMMA AuditInv == ASSUME Safety, NEW r \in Requests, Audit(r) PROVE Safety'
<1>1. PICK n \in Notifications : n = Message(r)
  BY HandlerFacts DEF Audit
<1>2. /\ request[r] \in Handlers /\ HandlerSound(request[r]) /\ request[r].at = "audit"
      /\ request[r].alert = {n} /\ discord[n] \in Nat
      /\ discord = [discord EXCEPT ![n] = discord[n]]
  BY <1>1, HandlerFacts DEF Audit
<1>3. PICK shown \in Nat : shown = discord[n] /\ discord = [discord EXCEPT ![n] = shown]
  BY <1>2
<1>4. PICK new : new = IF Discord THEN [request[r] EXCEPT !.at = "send", !.audited = TRUE]
                       ELSE [request[r] EXCEPT !.at = "reply", !.audited = TRUE, !.status = 202]
  OBVIOUS
<1>5. /\ new \in Handlers /\ new.alert = request[r].alert
      /\ new.at = IF Discord THEN "send" ELSE "reply"
      /\ new.status = IF Discord THEN request[r].status ELSE 202
      /\ new.posts = request[r].posts /\ new.audited /\ new.delivered = request[r].delivered
  <2>1. CASE Discord
    <3>0. new = [request[r] EXCEPT !.at = "send", !.audited = TRUE]
      BY <1>4, <2>1
    <3>1. new = With(request[r], "send", request[r].posts, TRUE, request[r].delivered,
                     request[r].status)
      BY <1>2, <3>0 DEF Handlers, With
    <3>2. new \in Handlers
      <4>1. /\ request[r].alert \in SUBSET Notifications /\ request[r].posts \in 0..MaxAttempts
            /\ request[r].delivered \in BOOLEAN /\ request[r].status \in {0, 202, 413, 500, 502}
        BY <1>2, OldHandler
      <4>2. QED BY <3>1, <4>1 DEF Handlers, With
    <3>3. QED BY <2>1, <3>1, <3>2 DEF With
  <2>2. CASE ~Discord
    <3>0. new = [request[r] EXCEPT !.at = "reply", !.audited = TRUE, !.status = 202]
      BY <1>4, <2>2
    <3>1. new = With(request[r], "reply", request[r].posts, TRUE, request[r].delivered, 202)
      BY <1>2, <3>0 DEF Handlers, With
    <3>2. new \in Handlers
      <4>1. /\ request[r].alert \in SUBSET Notifications /\ request[r].posts \in 0..MaxAttempts
            /\ request[r].delivered \in BOOLEAN /\ request[r].status \in {0, 202, 413, 500, 502}
        BY <1>2, OldHandler
      <4>2. QED BY <3>1, <4>1 DEF Handlers, With
    <3>3. QED BY <2>2, <3>1, <3>2 DEF With
  <2>3. QED BY <2>1, <2>2
<1>6. request' = [request EXCEPT ![r] = new]
      /\ UNCHANGED <<alertmanager, deliveries, discord, faults>> /\ alerts' = Append(alerts, r)
  BY <1>4 DEF Audit, Enter
<1>7. /\ alerts' \in Logs /\ alerts'.lines \ {r} = alerts.lines \ {r}
      /\ Torn(alerts') = 0 /\ (r \notin alerts'.lines => Torn(alerts) = 1)
  BY <1>6, AppendOne, LogFacts
<1>8. /\ request[r].status = 0 /\ ~request[r].audited /\ ~request[r].delivered
      /\ request[r].posts < MaxAttempts
  BY <1>2 DEF HandlerSound
<1>9. HandlerSound(new)'
  BY <1>5, <1>6, <1>8 DEF HandlerSound
<1>10. MayShow(request[r]) /\ Happened' = Happened
  BY <1>2, <1>6 DEF MayShow, Happened
<1>11. /\ r \in Unrecorded' => Torn(alerts) = 1
       /\ r \notin Undelivered' /\ r \notin Undelivered /\ r \notin Unrecorded
  <2>1. request'[r] = new
    BY <1>6 DEF Safety, TypeOK
  <2>2. QED BY <1>5, <1>6, <1>7, <1>8, <2>1 DEF Unrecorded, Undelivered
<1>12. GoesOn(r, n, new, shown)
  BY <1>2, <1>3, <1>5, <1>6, <1>8, <1>9, <1>10, LogFacts DEF GoesOn
<1>13. LogsGoOn(r)
  BY <1>6, <1>7, <1>10, <1>11, LogFacts DEF LogsGoOn
<1>14. QED
  BY <1>5, <1>12, <1>13, HandlerStep

LEMMA ConfirmedInv == ASSUME Safety, NEW r \in Requests, Confirmed(r) PROVE Safety'
<1>1. PICK n \in Notifications : n = Message(r)
  BY HandlerFacts DEF Confirmed
<1>2. /\ request[r] \in Handlers /\ HandlerSound(request[r]) /\ request[r].at = "send"
      /\ request[r].alert = {n} /\ discord[n] \in Nat
      /\ discord = [discord EXCEPT ![n] = discord[n]]
  BY <1>1, HandlerFacts DEF Confirmed
<1>3. PICK shown \in Nat : shown = discord[n] + 1
  BY <1>2
<1>4. PICK new : new = [request[r] EXCEPT !.at = "log", !.posts = request[r].posts + 1, !.delivered = TRUE]
  OBVIOUS
<1>5. /\ new \in Handlers /\ new.alert = request[r].alert
      /\ new.at = "log" /\ new.status = request[r].status
      /\ new.audited = request[r].audited /\ new.delivered
  <2>1. new = With(request[r], "log", request[r].posts + 1, request[r].audited,
                   TRUE, request[r].status)
    BY <1>2, <1>4 DEF Handlers, With
  <2>2. new \in Handlers
    <3>1. request[r].posts + 1 \in 0..MaxAttempts
      BY <1>2, OldHandler DEF HandlerSound
    <3>2. /\ request[r].alert \in SUBSET Notifications /\ request[r].audited \in BOOLEAN
          /\ request[r].delivered \in BOOLEAN /\ request[r].status \in {0, 202, 413, 500, 502}
      BY <1>2, OldHandler
    <3>3. QED BY <2>1, <3>1, <3>2 DEF Handlers, With
  <2>3. QED BY <2>1, <2>2 DEF With
<1>6. request' = [request EXCEPT ![r] = new] /\ discord' = [discord EXCEPT ![n] = shown]
      /\ UNCHANGED <<alertmanager, alerts, deliveries, faults>>
  BY <1>1, <1>3, <1>4 DEF Confirmed, Enter
<1>7. request[r].status = 0 /\ request[r].audited
  BY <1>2 DEF HandlerSound
<1>8. HandlerSound(new)'
  <2>1. discord'[n] > 0
    BY <1>2, <1>3, <1>6 DEF Safety, TypeOK
  <2>2. QED BY <1>2, <1>5, <1>7, <2>1 DEF HandlerSound
<1>9. ~MayShow(new) /\ MayShow(request[r]) /\ Happened' = Happened
  BY <1>2, <1>5, <1>6 DEF MayShow, Happened
<1>10. (r \in Unrecorded' <=> r \in Unrecorded) /\ r \notin Undelivered'
  <2>1. /\ request'[r].status = 0 /\ request'[r].audited = request[r].audited
        /\ alerts' = alerts
    BY <1>5, <1>6, <1>7 DEF Safety, TypeOK
  <2>2. QED BY <2>1 DEF Unrecorded, Undelivered
<1>11. GoesOn(r, n, new, shown)
  BY <1>2, <1>3, <1>5, <1>6, <1>7, <1>8, <1>9, LogFacts DEF GoesOn
<1>12. LogsGoOn(r)
  BY <1>6, <1>9, <1>10, LogFacts DEF LogsGoOn
<1>13. QED
  BY <1>5, <1>11, <1>12, HandlerStep

\* A post that failed: its message is the fault's, shown or not.
LEMMA PostFailed ==
  ASSUME Safety, NEW r \in Requests, request[r].at = "send", Fault("other"),
         NEW at \in {"send", "log"}, at = "send" => request[r].posts + 1 < MaxAttempts,
         request' = [request EXCEPT ![r] = [request[r] EXCEPT !.at = at, !.posts = @ + 1]],
         discord' \in {discord, [discord EXCEPT ![Message(r)] = @ + 1]},
         UNCHANGED <<alertmanager, alerts, deliveries>>
  PROVE  Safety'
<1>1. PICK n \in Notifications : n = Message(r)
  BY HandlerFacts
<1>2. /\ request[r] \in Handlers /\ HandlerSound(request[r]) /\ request[r].at = "send"
      /\ request[r].alert = {n} /\ discord[n] \in Nat
      /\ discord = [discord EXCEPT ![n] = discord[n]]
  BY <1>1, HandlerFacts
<1>3. PICK shown \in Nat : /\ shown \in {discord[n], discord[n] + 1}
                          /\ discord' = [discord EXCEPT ![n] = shown]
  BY <1>1, <1>2
<1>4. PICK new : new = [request[r] EXCEPT !.at = at, !.posts = request[r].posts + 1]
  OBVIOUS
<1>5. /\ new \in Handlers /\ new.alert = request[r].alert
      /\ new.at = at /\ new.status = request[r].status /\ new.posts = request[r].posts + 1
      /\ new.audited = request[r].audited /\ new.delivered = request[r].delivered
  <2>1. new = With(request[r], at, request[r].posts + 1, request[r].audited,
                   request[r].delivered, request[r].status)
    BY <1>2, <1>4 DEF Handlers, With
  <2>2. new \in Handlers
    <3>1. request[r].posts + 1 \in 0..MaxAttempts
      BY <1>2, OldHandler DEF HandlerSound
    <3>2. /\ request[r].alert \in SUBSET Notifications /\ request[r].audited \in BOOLEAN
          /\ request[r].delivered \in BOOLEAN /\ request[r].status \in {0, 202, 413, 500, 502}
      BY <1>2, OldHandler
    <3>3. QED BY <2>1, <3>1, <3>2 DEF Handlers, With
  <2>3. QED BY <2>1, <2>2 DEF With
<1>6. request' = [request EXCEPT ![r] = new]
  BY <1>4
<1>7. request[r].status = 0 /\ request[r].audited
  BY <1>2 DEF HandlerSound
<1>8. HandlerSound(new)'
  <2>1. discord'[n] >= discord[n] /\ discord'[n] \in Nat
    BY <1>2, <1>3 DEF Safety, TypeOK
  <2>2. QED BY <1>2, <1>5, <1>7, <2>1 DEF HandlerSound
<1>9. /\ faults' \in Faults /\ Happened' = Happened + 1 /\ faults'.write = faults.write
  BY OneMoreFault, LogFacts DEF Safety
<1>10. MayShow(request[r])
  BY <1>2 DEF MayShow
<1>11. (r \in Unrecorded' <=> r \in Unrecorded) /\ r \notin Undelivered'
  <2>1. /\ request'[r].status = 0 /\ request'[r].audited = request[r].audited
        /\ alerts' = alerts
    BY <1>5, <1>6, <1>7 DEF Safety, TypeOK
  <2>2. QED BY <2>1 DEF Unrecorded, Undelivered
<1>12. GoesOn(r, n, new, shown)
  <2>1. /\ discord[n] <= shown /\ Happened \in Nat
        /\ shown + (IF MayShow(new) THEN 1 ELSE 0) + Happened
             <= discord[n] + (IF MayShow(request[r]) THEN 1 ELSE 0) + Happened'
    BY <1>2, <1>3, <1>9, <1>10, LogFacts
  <2>2. QED BY <1>2, <1>3, <1>5, <1>6, <1>7, <1>8, <2>1 DEF GoesOn
<1>13. LogsGoOn(r)
  BY <1>9, <1>11, LogFacts DEF LogsGoOn
<1>14. QED
  BY <1>5, <1>12, <1>13, HandlerStep

LEMMA FailedInv == ASSUME Safety, NEW r \in Requests, Failed(r) PROVE Safety'
<1>1. PICK at \in {"send", "log"} :
        at = IF request[r].posts + 1 = MaxAttempts THEN "log" ELSE "send"
  OBVIOUS
<1>2. request[r].at = "send" /\ Fault("other")
      /\ request' = [request EXCEPT ![r] = [request[r] EXCEPT !.at = at, !.posts = @ + 1]]
      /\ discord' \in {discord, [discord EXCEPT ![Message(r)] = @ + 1]}
      /\ UNCHANGED <<alertmanager, alerts, deliveries>>
  BY <1>1 DEF Failed, Enter
<1>3. at = "send" => request[r].posts + 1 < MaxAttempts
  <2>1. request[r].posts < MaxAttempts /\ request[r].posts \in Nat
    BY <1>2, HandlerFacts, OldHandler DEF HandlerSound
  <2>2. QED BY <1>1, <2>1
<1>4. QED BY <1>2, <1>3, PostFailed

LEMMA RefusedInv == ASSUME Safety, NEW r \in Requests, Refused(r) PROVE Safety'
<1>1. PICK at \in {"send", "log"} : at = "log"
  OBVIOUS
<1>2. request[r].at = "send" /\ Fault("other")
      /\ request' = [request EXCEPT ![r] = [request[r] EXCEPT !.at = at, !.posts = @ + 1]]
      /\ discord' \in {discord, [discord EXCEPT ![Message(r)] = @ + 1]}
      /\ UNCHANGED <<alertmanager, alerts, deliveries>>
  BY <1>1 DEF Refused, Enter
<1>3. QED BY <1>1, <1>2, PostFailed

LEMMA LogDeliveryFailsInv == ASSUME Safety, NEW r \in Requests, LogDeliveryFails(r) PROVE Safety'
<1>1. PICK n \in Notifications : n = Message(r)
  BY HandlerFacts DEF LogDeliveryFails
<1>2. /\ request[r] \in Handlers /\ HandlerSound(request[r]) /\ request[r].at = "log"
      /\ request[r].alert = {n} /\ discord[n] \in Nat
      /\ discord = [discord EXCEPT ![n] = discord[n]]
  BY <1>1, HandlerFacts DEF LogDeliveryFails
<1>3. PICK shown \in Nat : shown = discord[n] /\ discord = [discord EXCEPT ![n] = shown]
  BY <1>2
<1>4. PICK new : new = [request[r] EXCEPT !.at = "reply", !.status = 500]
  OBVIOUS
<1>5. /\ new \in Handlers /\ new.alert = request[r].alert
      /\ new.at = "reply" /\ new.status = 500
      /\ new.audited = request[r].audited /\ new.delivered = request[r].delivered
  <2>1. new = With(request[r], "reply", request[r].posts, request[r].audited,
                   request[r].delivered, 500)
    BY <1>2, <1>4 DEF Handlers, With
  <2>2. new \in Handlers
    <3>1. /\ request[r] \in Handlers /\ request[r].posts \in 0..MaxAttempts
          /\ request[r].audited \in BOOLEAN /\ request[r].delivered \in BOOLEAN
      BY <1>2, OldHandler
    <3>2. QED BY <2>1, <3>1, NewHandler
  <2>3. QED BY <2>1, <2>2 DEF With
<1>6. request' = [request EXCEPT ![r] = new]
      /\ UNCHANGED <<alertmanager, alerts, discord>>
  BY <1>4 DEF LogDeliveryFails, Respond, Enter
<1>7. /\ faults' \in Faults /\ Happened' = Happened + 1 /\ faults'.write = faults.write + 1
  BY OneMoreFault DEF LogDeliveryFails, Safety
<1>8. /\ deliveries' \in Logs /\ deliveries'.lines = deliveries.lines
      /\ Torn(deliveries') \in {0, 1}
  BY AppendNothing, LogFacts DEF LogDeliveryFails
<1>9. HandlerSound(new)'
  BY <1>2, <1>5, <1>6 DEF HandlerSound
<1>10. (IF MayShow(new) THEN 1 ELSE 0) \in {0, 1} /\ (IF MayShow(request[r]) THEN 1 ELSE 0) \in {0, 1}
  OBVIOUS
<1>11. (r \in Unrecorded' <=> r \in Unrecorded) /\ r \notin Undelivered'
  <2>1. request'[r] = new
    BY <1>6 DEF Safety, TypeOK
  <2>2. QED BY <1>5, <1>6, <2>1 DEF Unrecorded, Undelivered
<1>12. GoesOn(r, n, new, shown)
  BY <1>2, <1>3, <1>5, <1>6, <1>7, <1>9, <1>10, LogFacts DEF GoesOn
<1>13. LogsGoOn(r)
  BY <1>6, <1>7, <1>8, <1>11, LogFacts DEF LogsGoOn
<1>14. QED
  BY <1>5, <1>12, <1>13, HandlerStep

LEMMA LogDeliveryInv == ASSUME Safety, NEW r \in Requests, LogDelivery(r) PROVE Safety'
<1>1. PICK n \in Notifications : n = Message(r)
  BY HandlerFacts DEF LogDelivery
<1>2. /\ request[r] \in Handlers /\ HandlerSound(request[r]) /\ request[r].at = "log"
      /\ request[r].alert = {n} /\ discord[n] \in Nat
      /\ discord = [discord EXCEPT ![n] = discord[n]]
  BY <1>1, HandlerFacts DEF LogDelivery
<1>3. PICK shown \in Nat : shown = discord[n] /\ discord = [discord EXCEPT ![n] = shown]
  BY <1>2
<1>16. PICK code \in {202, 502} : code = IF request[r].delivered THEN 202 ELSE 502
  OBVIOUS
<1>4. PICK new : new = [request[r] EXCEPT !.at = "reply", !.status = code]
  OBVIOUS
<1>5. /\ new \in Handlers /\ new.alert = request[r].alert
      /\ new.at = "reply" /\ new.status = code
      /\ new.audited = request[r].audited /\ new.delivered = request[r].delivered
  <2>1. new = With(request[r], "reply", request[r].posts, request[r].audited,
                   request[r].delivered, code)
    BY <1>2, <1>4 DEF Handlers, With
  <2>2. new \in Handlers
    <3>1. /\ request[r].alert \in SUBSET Notifications /\ request[r].posts \in 0..MaxAttempts
          /\ request[r].audited \in BOOLEAN /\ request[r].delivered \in BOOLEAN
      BY <1>2, OldHandler
    <3>2. QED BY <2>1, <3>1 DEF Handlers, With
  <2>3. QED BY <2>1, <2>2 DEF With
<1>6. request' = [request EXCEPT ![r] = new]
      /\ UNCHANGED <<alertmanager, alerts, discord, faults>>
  BY <1>4, <1>16 DEF LogDelivery, Respond, Enter
<1>7. request[r].status = 0 /\ request[r].audited
  BY <1>2 DEF HandlerSound
<1>8. /\ deliveries' \in Logs /\ deliveries'.lines \ {r} = deliveries.lines \ {r}
      /\ Torn(deliveries') = 0
      /\ request[r].delivered /\ r \notin deliveries'.lines => Torn(deliveries) = 1
  <2>1. CASE request[r].delivered
    <3>1. deliveries' = Append(deliveries, r)
      BY <2>1 DEF LogDelivery
    <3>2. QED BY <2>1, <3>1, AppendOne, LogFacts
  <2>2. CASE ~request[r].delivered
    <3>1. deliveries' = [deliveries EXCEPT !.torn = FALSE]
      BY <2>2 DEF LogDelivery
    <3>2. /\ deliveries'.lines = deliveries.lines /\ deliveries'.torn = FALSE
          /\ deliveries' \in Logs
      BY <3>1, LogFacts DEF Logs
    <3>3. QED BY <2>2, <3>2 DEF Torn
  <2>3. QED BY <2>1, <2>2
<1>9. HandlerSound(new)'
  BY <1>2, <1>5, <1>6, <1>7, <1>16 DEF HandlerSound
<1>10. (MayShow(new) <=> MayShow(request[r])) /\ Happened' = Happened
  BY <1>2, <1>5, <1>6, <1>16 DEF MayShow, Happened
<1>11. /\ r \in Unrecorded' <=> r \in Unrecorded
       /\ r \in Undelivered' => Torn(deliveries) = 1
  <2>1. request'[r] = new
    BY <1>6 DEF Safety, TypeOK
  <2>2. QED BY <1>5, <1>6, <1>8, <1>16, <2>1 DEF Unrecorded, Undelivered
<1>12. r \notin Undelivered
  BY <1>7 DEF Undelivered
<1>13. GoesOn(r, n, new, shown)
  BY <1>2, <1>3, <1>5, <1>6, <1>9, <1>10, LogFacts DEF GoesOn
<1>14. LogsGoOn(r)
  BY <1>6, <1>8, <1>10, <1>11, <1>12, LogFacts DEF LogsGoOn
<1>15. QED
  BY <1>5, <1>13, <1>14, HandlerStep

(***************************************************************************)
(* Alertmanager, and the processes                                         *)
(***************************************************************************)
\* What follows when requests keep their notification, and what was audited,
\* delivered and answered, and Discord and the logs' lines stay as they are.
LEMMA RecordsStay ==
  ASSUME Safety, TypeOK', UNCHANGED discord,
         \A q \in Requests :
           /\ request'[q].audited = request[q].audited
           /\ request'[q].delivered = request[q].delivered
           /\ request'[q].status = request[q].status
           /\ request[q].alert \subseteq request'[q].alert,
         alerts'.lines = alerts.lines, deliveries'.lines = deliveries.lines,
         Torn(alerts') + faults.write <= Torn(alerts) + faults'.write,
         Torn(deliveries') + faults.write <= Torn(deliveries) + faults'.write
  PROVE  ShownIsAudited' /\ RecordsAccounted'
<1>1. ShownIsAudited /\ RecordsAccounted /\ TypeOK
  BY DEF Safety
<1>2. ShownIsAudited'
  BY <1>1 DEF ShownIsAudited, RequestsOf
<1>3. Unrecorded' = Unrecorded /\ Undelivered' = Undelivered
  BY DEF Unrecorded, Undelivered
<1>4. Cardinality(Unrecorded) \in Nat /\ Cardinality(Undelivered) \in Nat
  BY SomeRequests DEF Unrecorded, Undelivered
<1>5. /\ Torn(alerts) \in Nat /\ Torn(alerts') \in Nat
      /\ Torn(deliveries) \in Nat /\ Torn(deliveries') \in Nat
  BY DEF Torn
<1>6. faults.write \in Nat /\ faults'.write \in Nat
  BY <1>1 DEF TypeOK
<1>7. /\ Cardinality(Unrecorded') + Torn(alerts') <= faults'.write
      /\ Cardinality(Undelivered') + Torn(deliveries') <= faults'.write
  <2>1. /\ Cardinality(Unrecorded) + Torn(alerts) <= faults.write
        /\ Cardinality(Undelivered) + Torn(deliveries) <= faults.write
    BY <1>1 DEF RecordsAccounted
  <2>2. QED BY <1>3, <1>4, <1>5, <1>6, <2>1
<1>8. QED BY <1>2, <1>7 DEF RecordsAccounted

\* The answer: what is accepted was delivered, and what is due again is counted.
LEMMA ReplyInv == ASSUME Safety, NEW r \in Requests, Reply(r) PROVE Safety'
<1>1. PICK n \in Notifications : n = Message(r)
  BY HandlerFacts DEF Reply
<1>2. /\ request[r] \in Handlers /\ HandlerSound(request[r]) /\ request[r].at = "reply"
      /\ request[r].alert = {n}
  BY <1>1, HandlerFacts DEF Reply
<1>3. PICK new : new = [request[r] EXCEPT !.at = "closed", !.posts = 0]
  OBVIOUS
<1>4. /\ new \in Handlers /\ new.alert = request[r].alert /\ new.at = "closed"
      /\ new.audited = request[r].audited /\ new.delivered = request[r].delivered
      /\ new.status = request[r].status
  <2>1. new = With(request[r], "closed", 0, request[r].audited, request[r].delivered,
                   request[r].status)
    BY <1>2, <1>3 DEF Handlers, With
  <2>2. new \in Handlers
    <3>1. /\ request[r].alert \in SUBSET Notifications /\ request[r].audited \in BOOLEAN
          /\ request[r].delivered \in BOOLEAN /\ request[r].status \in {0, 202, 413, 500, 502}
      BY <1>2, OldHandler
    <3>2. 0 \in 0..MaxAttempts
      OBVIOUS
    <3>3. QED BY <2>1, <3>1, <3>2 DEF Handlers, With
  <2>3. QED BY <2>1, <2>2 DEF With
<1>5. TypeOK /\ RequestsSound /\ MessagesAccounted /\ AcceptedIsDelivered
  BY DEF Safety
<1>6. /\ request'[r] = new /\ \A q \in Requests : q # r => request'[q] = request[q]
      /\ request' \in [Requests -> Handlers]
      /\ UNCHANGED <<alerts, deliveries, discord, faults>>
  BY <1>3, <1>4, <1>5 DEF Reply, Enter, TypeOK
<1> DEFINE next == CASE request[r].status = 202 -> "accepted"
                     [] request[r].status = 413 -> "dropped"
                     [] OTHER -> "pending"
<1>7. /\ next \in {"pending", "accepted", "dropped"}
      /\ next = "accepted" => request[r].status = 202
      /\ next = "pending" => request[r].status \in {500, 502}
  <2>1. request[r].status \in {202, 413, 500, 502}
    BY <1>2, OldHandler DEF HandlerSound
  <2>2. QED BY <2>1
<1>8. alertmanager' = [m \in Notifications |->
        IF alertmanager[m].waiting # r THEN alertmanager[m] ELSE [waiting |-> 0, state |-> next]]
  BY DEF Reply
<1> HIDE DEF next
<1>9. alertmanager' \in [Notifications -> Sendings]
  BY <1>5, <1>7, <1>8 DEF TypeOK, Sendings
<1>10. r # 0
  BY RequestsFinite
<1>11. ASSUME NEW m \in Notifications, alertmanager[m].waiting = r
       PROVE  m = n /\ alertmanager'[m] = [waiting |-> 0, state |-> next] /\ Due(m) = 0
  <2>1. request[r].alert = {m}
    BY <1>5, <1>10, <1>11 DEF RequestsSound, WaitingSound
  <2>2. QED BY <1>2, <1>8, <1>10, <1>11, <2>1 DEF Due
<1>12. \A m \in Notifications : alertmanager[m].waiting # r => alertmanager'[m] = alertmanager[m]
  BY <1>8
<1>13. TypeOK'
  <2>1. \A q \in Requests : IF request'[q].at = "none" THEN request'[q] = NoRequest
                            ELSE \E m \in Notifications : request'[q].alert = {m}
    <3>1. new.at # "none" /\ \E m \in Notifications : new.alert = {m}
      BY <1>2, <1>4
    <3>2. QED BY <1>5, <1>6, <3>1 DEF TypeOK
  <2>2. QED BY <1>5, <1>6, <1>9, <2>1 DEF TypeOK
<1>14. RequestsSound'
  <2>1. ASSUME NEW q \in Requests PROVE HandlerSound(request[q])'
    <3>1. HandlerSound(request[q])
      BY <1>5 DEF RequestsSound
    <3>2. CASE q = r
      BY <1>4, <1>6, <3>1, <3>2 DEF HandlerSound
    <3>3. CASE q # r
      BY <1>6, <3>1, <3>3 DEF HandlerSound
    <3>4. QED BY <3>2, <3>3
  <2>2. ASSUME NEW m \in Notifications PROVE WaitingSound(m)'
    <3>1. WaitingSound(m) /\ alertmanager[m].waiting \in {0} \union Requests
      BY <1>5 DEF RequestsSound, TypeOK, Sendings
    <3>2. CASE alertmanager[m].waiting = r
      BY <1>11, <3>2 DEF WaitingSound
    <3>3. CASE alertmanager[m].waiting # r
      BY <1>6, <1>12, <3>1, <3>3 DEF WaitingSound
    <3>4. QED BY <3>2, <3>3
  <2>3. QED BY <2>1, <2>2 DEF RequestsSound
<1>15. MessagesAccounted'
  <2> SUFFICES ASSUME NEW m \in Notifications
               PROVE  discord'[m] + Cardinality(Coming(m)') + Due(m)' <= 1 + Happened'
    BY DEF MessagesAccounted
  <2>1. /\ Coming(m) \in SUBSET Requests /\ Coming(m)' \in SUBSET Requests
        /\ Coming(m) \ {r} = Coming(m)' \ {r} /\ r \notin Coming(m)'
    BY <1>4, <1>6 DEF Coming, RequestsOf, MayShow
  <2>2. /\ Cardinality(Coming(m)) \in Nat /\ Cardinality(Coming(m)') \in Nat
        /\ Cardinality(Coming(m)') + (IF r \in Coming(m) THEN 1 ELSE 0) = Cardinality(Coming(m))
    <3>1. /\ Cardinality(Coming(m)) \in Nat /\ Cardinality(Coming(m)') \in Nat
      BY <2>1, SomeRequests
    <3>2. Cardinality(Coming(m)') + (IF r \in Coming(m) THEN 1 ELSE 0)
            = Cardinality(Coming(m)) + (IF r \in Coming(m)' THEN 1 ELSE 0)
      BY <2>1, CountOne
    <3>3. QED BY <2>1, <3>1, <3>2
  <2>3. /\ discord[m] + Cardinality(Coming(m)) + Due(m) <= 1 + Happened
        /\ discord[m] \in Nat /\ Due(m) \in {0, 1} /\ Happened \in Nat /\ Happened' = Happened
        /\ discord'[m] = discord[m] /\ Due(m)' \in {0, 1}
    BY <1>5, <1>6, <1>13, Counters DEF MessagesAccounted, Happened, Due
  <2>4. CASE alertmanager[m].waiting = r
    <3>1. m = n /\ Due(m) = 0 /\ (Due(m)' = 1 => next = "pending")
      BY <1>11, <2>4 DEF Due
    <3>2. Due(m)' = 1 => r \in Coming(m)
      BY <1>2, <1>7, <3>1 DEF Coming, RequestsOf, MayShow
    <3>3. QED BY <2>2, <2>3, <3>1, <3>2
  <2>5. CASE alertmanager[m].waiting # r
    <3>1. Due(m)' = Due(m)
      BY <1>12, <2>5 DEF Due
    <3>2. QED BY <2>2, <2>3, <3>1
  <2>6. QED BY <2>4, <2>5
<1>16. ShownIsAudited' /\ RecordsAccounted'
  <2>1. \A q \in Requests :
           /\ request'[q].audited = request[q].audited
           /\ request'[q].delivered = request[q].delivered
           /\ request'[q].status = request[q].status
           /\ request[q].alert \subseteq request'[q].alert
    BY <1>4, <1>6
  <2>2. /\ Torn(alerts') + faults.write <= Torn(alerts) + faults'.write
        /\ Torn(deliveries') + faults.write <= Torn(deliveries) + faults'.write
    BY <1>6, LogFacts
  <2>3. QED BY <1>6, <1>13, <2>1, <2>2, RecordsStay
<1>17. AcceptedIsDelivered'
  <2> SUFFICES ASSUME NEW m \in Notifications, alertmanager'[m].state = "accepted"
               PROVE  \E q \in RequestsOf(m)' : request'[q].audited /\ (Discord => discord'[m] > 0)
    BY DEF AcceptedIsDelivered
  <2>1. CASE alertmanager[m].waiting = r
    <3>1. m = n /\ request[r].status = 202
      BY <1>7, <1>11, <2>1
    <3>2. request[r].audited /\ (Discord => discord[n] > 0)
      BY <1>2, <3>1 DEF HandlerSound
    <3>3. r \in RequestsOf(n)' /\ request'[r].audited
      BY <1>2, <1>4, <1>6, <3>2 DEF RequestsOf
    <3>4. QED BY <1>6, <3>1, <3>2, <3>3
  <2>2. CASE alertmanager[m].waiting # r
    <3>1. PICK q \in RequestsOf(m) : request[q].audited /\ (Discord => discord[m] > 0)
      BY <1>5, <1>12, <2>2 DEF AcceptedIsDelivered
    <3>2. q \in RequestsOf(m)' /\ request'[q].audited
      BY <1>4, <1>6, <3>1 DEF RequestsOf
    <3>3. QED BY <1>6, <3>1, <3>2
  <2>3. QED BY <2>1, <2>2
<1>18. QED BY <1>13, <1>14, <1>15, <1>16, <1>17 DEF Safety

\* A notification is posted: the message that was due is its handler's now.
LEMMA PostInv == ASSUME Safety, NEW n \in Notifications, Post(n) PROVE Safety'
<1>1. TypeOK /\ RequestsSound /\ MessagesAccounted /\ AcceptedIsDelivered
  BY DEF Safety
<1>2. PICK r \in Requests :
        /\ request[r].at = "none"
        /\ request' = [request EXCEPT ![r] = [NoRequest EXCEPT !.at = "audit", !.alert = {n}]]
        /\ alertmanager' = [alertmanager EXCEPT ![n].waiting = r]
  BY DEF Post, Enter
<1>3. PICK new : new = [NoRequest EXCEPT !.at = "audit", !.alert = {n}]
  OBVIOUS
<1>4. /\ new \in Handlers /\ new.alert = {n} /\ new.at = "audit" /\ new.posts = 0
      /\ new.audited = FALSE /\ new.delivered = FALSE /\ new.status = 0
  <2>1. new = [at |-> "audit", alert |-> {n}, posts |-> 0, audited |-> FALSE,
               delivered |-> FALSE, status |-> 0]
    BY <1>3 DEF NoRequest
  <2>2. 0 \in 0..MaxAttempts /\ {n} \in SUBSET Notifications
    OBVIOUS
  <2>3. QED BY <2>1, <2>2 DEF Handlers
<1>5. /\ request[r].alert = {} /\ request[r].audited = FALSE /\ request[r].delivered = FALSE
      /\ request[r].status = 0 /\ ~MayShow(request[r])
  <2>1. request[r] = NoRequest
    BY <1>1, <1>2 DEF TypeOK
  <2>2. QED BY <2>1 DEF NoRequest, MayShow
<1>6. /\ request'[r] = new /\ \A q \in Requests : q # r => request'[q] = request[q]
      /\ request' \in [Requests -> Handlers]
      /\ UNCHANGED <<alerts, deliveries, discord, faults>>
  BY <1>1, <1>2, <1>3, <1>4 DEF Post, TypeOK
<1>7. /\ alertmanager[n] = [waiting |-> 0, state |-> "pending"]
      /\ alertmanager'[n] = [waiting |-> r, state |-> "pending"]
      /\ \A m \in Notifications : m # n => alertmanager'[m] = alertmanager[m]
      /\ alertmanager' \in [Notifications -> Sendings]
  BY <1>1, <1>2 DEF Post, TypeOK, Sendings
<1>8. r # 0
  BY RequestsFinite
<1>9. TypeOK'
  <2>1. \A q \in Requests : IF request'[q].at = "none" THEN request'[q] = NoRequest
                            ELSE \E m \in Notifications : request'[q].alert = {m}
    <3>1. new.at # "none" /\ \E m \in Notifications : new.alert = {m}
      BY <1>4
    <3>2. QED BY <1>1, <1>6, <3>1 DEF TypeOK
  <2>2. QED BY <1>1, <1>6, <1>7, <2>1 DEF TypeOK
<1>10. RequestsSound'
  <2>1. ASSUME NEW q \in Requests PROVE HandlerSound(request[q])'
    <3>1. CASE q = r
      BY <1>4, <1>6, <3>1 DEF HandlerSound
    <3>2. CASE q # r
      BY <1>1, <1>6, <3>2 DEF HandlerSound, RequestsSound
    <3>3. QED BY <3>1, <3>2
  <2>2. ASSUME NEW m \in Notifications PROVE WaitingSound(m)'
    <3>1. WaitingSound(m) /\ alertmanager[m].waiting \in {0} \union Requests
      BY <1>1 DEF RequestsSound, TypeOK, Sendings
    <3>2. CASE m = n
      BY <1>4, <1>6, <1>7, <3>2 DEF WaitingSound
    <3>3. CASE m # n
      <4>1. alertmanager[m].waiting # r
        BY <1>5, <1>8, <3>1 DEF WaitingSound
      <4>2. QED BY <1>6, <1>7, <3>1, <3>3, <4>1 DEF WaitingSound
    <3>4. QED BY <3>2, <3>3
  <2>3. QED BY <2>1, <2>2 DEF RequestsSound
<1>11. MessagesAccounted'
  <2> SUFFICES ASSUME NEW m \in Notifications
               PROVE  discord'[m] + Cardinality(Coming(m)') + Due(m)' <= 1 + Happened'
    BY DEF MessagesAccounted
  <2>1. /\ Coming(m) \in SUBSET Requests /\ Coming(m)' \in SUBSET Requests
        /\ Coming(m) \ {r} = Coming(m)' \ {r} /\ r \notin Coming(m)
        /\ (m # n => r \notin Coming(m)')
    BY <1>4, <1>5, <1>6 DEF Coming, RequestsOf
  <2>2. Cardinality(Coming(m)) \in Nat /\ Cardinality(Coming(m)') \in Nat
    BY <2>1, SomeRequests
  <2>3. Cardinality(Coming(m)') + (IF r \in Coming(m) THEN 1 ELSE 0)
          = Cardinality(Coming(m)) + (IF r \in Coming(m)' THEN 1 ELSE 0)
    BY <2>1, CountOne
  <2>4. /\ discord[m] + Cardinality(Coming(m)) + Due(m) <= 1 + Happened
        /\ discord[m] \in Nat /\ Due(m) \in {0, 1} /\ Happened \in Nat /\ Happened' = Happened
        /\ discord'[m] = discord[m]
    BY <1>1, <1>6, Counters DEF MessagesAccounted, Happened
  <2>5. CASE m = n
    <3>1. Due(m) = 1 /\ Due(m)' = 0
      BY <1>7, <1>8, <2>5 DEF Due
    <3>2. QED BY <2>1, <2>2, <2>3, <2>4, <3>1
  <2>6. CASE m # n
    <3>1. Due(m)' = Due(m)
      BY <1>7, <2>6 DEF Due
    <3>2. QED BY <2>1, <2>2, <2>3, <2>4, <2>6, <3>1
  <2>7. QED BY <2>5, <2>6
<1>12. ShownIsAudited' /\ RecordsAccounted'
  <2>1. \A q \in Requests :
           /\ request'[q].audited = request[q].audited
           /\ request'[q].delivered = request[q].delivered
           /\ request'[q].status = request[q].status
           /\ request[q].alert \subseteq request'[q].alert
    BY <1>4, <1>5, <1>6
  <2>2. /\ Torn(alerts') + faults.write <= Torn(alerts) + faults'.write
        /\ Torn(deliveries') + faults.write <= Torn(deliveries) + faults'.write
    BY <1>6, LogFacts
  <2>3. QED BY <1>6, <1>9, <2>1, <2>2, RecordsStay
<1>13. AcceptedIsDelivered'
  <2> SUFFICES ASSUME NEW m \in Notifications, alertmanager'[m].state = "accepted"
               PROVE  \E q \in RequestsOf(m)' : request'[q].audited /\ (Discord => discord'[m] > 0)
    BY DEF AcceptedIsDelivered
  <2>1. m # n /\ alertmanager[m].state = "accepted"
    BY <1>7
  <2>2. PICK q \in RequestsOf(m) : request[q].audited /\ (Discord => discord[m] > 0)
    BY <1>1, <2>1 DEF AcceptedIsDelivered
  <2>3. q \in RequestsOf(m)' /\ request'[q].audited
    BY <1>5, <1>6, <2>2 DEF RequestsOf
  <2>4. QED BY <1>6, <2>2, <2>3
<1>14. QED BY <1>9, <1>10, <1>11, <1>12, <1>13 DEF Safety

\* Nobody waits for the handler any more, which goes on: the fault's message is due.
LEMMA GiveUpWaitingInv == ASSUME Safety, NEW n \in Notifications, GiveUpWaiting(n) PROVE Safety'
<1>1. /\ TypeOK /\ RequestsSound /\ MessagesAccounted /\ AcceptedIsDelivered
  BY DEF Safety
<1>2. /\ faults' \in Faults /\ Happened' = Happened + 1 /\ faults'.write = faults.write
  BY <1>1, OneMoreFault, LogFacts DEF GiveUpWaiting
<1>3. UNCHANGED <<request, alerts, deliveries, discord>>
  BY DEF GiveUpWaiting
<1>4. /\ alertmanager'[n].waiting = 0 /\ alertmanager'[n].state = alertmanager[n].state
      /\ \A m \in Notifications : m # n => alertmanager'[m] = alertmanager[m]
      /\ alertmanager' \in [Notifications -> Sendings]
  BY <1>1 DEF GiveUpWaiting, TypeOK, Sendings
<1>5. TypeOK'
  BY <1>1, <1>2, <1>3, <1>4 DEF TypeOK, Faults
<1>6. RequestsSound'
  <2>1. ASSUME NEW q \in Requests PROVE HandlerSound(request[q])'
    BY <1>1, <1>3 DEF HandlerSound, RequestsSound
  <2>2. ASSUME NEW m \in Notifications PROVE WaitingSound(m)'
    BY <1>1, <1>3, <1>4 DEF WaitingSound, RequestsSound
  <2>3. QED BY <2>1, <2>2 DEF RequestsSound
<1>7. MessagesAccounted'
  <2> SUFFICES ASSUME NEW m \in Notifications
               PROVE  discord'[m] + Cardinality(Coming(m)') + Due(m)' <= 1 + Happened'
    BY DEF MessagesAccounted
  <2>1. Coming(m)' = Coming(m) /\ Cardinality(Coming(m)) \in Nat
    BY <1>3, SomeRequests DEF Coming, RequestsOf
  <2>2. /\ discord[m] + Cardinality(Coming(m)) + Due(m) <= 1 + Happened
        /\ discord[m] \in Nat /\ Due(m) \in {0, 1} /\ Happened \in Nat
        /\ discord'[m] = discord[m] /\ Due(m)' \in {0, 1}
    BY <1>1, <1>3, Counters DEF MessagesAccounted, Due
  <2>3. QED BY <1>2, <2>1, <2>2
<1>8. ShownIsAudited' /\ RecordsAccounted'
  <2>1. /\ Torn(alerts') + faults.write <= Torn(alerts) + faults'.write
        /\ Torn(deliveries') + faults.write <= Torn(deliveries) + faults'.write
    BY <1>2, <1>3, LogFacts
  <2>2. QED BY <1>3, <1>5, <2>1, RecordsStay
<1>9. AcceptedIsDelivered'
  BY <1>1, <1>3, <1>4 DEF AcceptedIsDelivered, RequestsOf
<1>10. QED BY <1>5, <1>6, <1>7, <1>8, <1>9 DEF Safety

\* Every connection breaks: no message comes any more, and one may be due of each.
LEMMA KilledInv == ASSUME Safety, Killed PROVE Safety'
<1>1. /\ TypeOK /\ RequestsSound /\ MessagesAccounted /\ AcceptedIsDelivered
  BY DEF Safety
<1>2. /\ faults' \in Faults /\ Happened' = Happened + 1 /\ faults'.write = faults.write + 1
  BY <1>1, OneMoreFault, LogFacts DEF Killed
<1>3. /\ alerts' \in Logs /\ alerts'.lines = alerts.lines /\ Torn(alerts') \in {0, 1}
      /\ deliveries' \in Logs /\ deliveries'.lines = deliveries.lines
      /\ Torn(deliveries') \in {0, 1} /\ UNCHANGED discord
  <2>1. alerts' \in AppendFails(alerts) /\ deliveries' \in AppendFails(deliveries)
    BY DEF Killed, AppendFails
  <2>2. QED BY <2>1, LogFacts, AppendNothing DEF Killed
<1>4. /\ alertmanager' \in [Notifications -> Sendings]
      /\ \A m \in Notifications : /\ alertmanager'[m].waiting = 0
                                 /\ alertmanager'[m].state = alertmanager[m].state
  BY <1>1 DEF Killed, TypeOK, Sendings
<1>5. ASSUME NEW q \in Requests
      PROVE  /\ request'[q] \in Handlers
             /\ request'[q].alert = request[q].alert /\ request'[q].audited = request[q].audited
             /\ request'[q].delivered = request[q].delivered
             /\ request'[q].status = request[q].status
             /\ IF request[q].at = "none" THEN request'[q] = NoRequest
                ELSE request'[q].at = "closed" /\ \E m \in Notifications : request[q].alert = {m}
             /\ request'[q].at \in {"none", "closed"}
  <2>0. request[q] \in Handlers
    BY <1>1 DEF TypeOK
  <2>1. CASE request[q].at = "none"
    <3>1. request'[q] = request[q] /\ request[q] = NoRequest
      BY <1>1, <2>1 DEF Killed, TypeOK
    <3>2. QED BY <2>0, <2>1, <3>1
  <2>2. CASE request[q].at # "none"
    <3>1. request'[q] = [request[q] EXCEPT !.at = "closed", !.posts = 0]
      BY <2>2 DEF Killed
    <3> DEFINE old == request[q]
               new == request'[q]
    <3>2. old \in Handlers /\ new = [old EXCEPT !.at = "closed", !.posts = 0]
      BY <2>0, <3>1
    <3> HIDE DEF old, new
    <3>3. new = With(old, "closed", 0, old.audited, old.delivered, old.status)
      BY <3>2 DEF Handlers, With
    <3>4. request'[q] = With(request[q], "closed", 0, request[q].audited, request[q].delivered,
                             request[q].status)
      BY <3>3 DEF old, new
    <3>5. /\ request[q].alert \in SUBSET Notifications /\ request[q].audited \in BOOLEAN
          /\ request[q].delivered \in BOOLEAN /\ request[q].status \in {0, 202, 413, 500, 502}
      BY <2>0, OldHandler
    <3>6. 0 \in 0..MaxAttempts
      OBVIOUS
    <3>7. request'[q] \in Handlers
      BY <3>4, <3>5, <3>6 DEF Handlers, With
    <3>8. \E m \in Notifications : request[q].alert = {m}
      BY <1>1, <2>2 DEF TypeOK
    <3>9. QED BY <2>2, <3>4, <3>7, <3>8 DEF With
  <2>3. QED BY <2>1, <2>2
<1>6. TypeOK'
  <2>1. request' \in [Requests -> Handlers]
    <3> DEFINE Closed(q) == IF request[q].at = "none" THEN request[q]
                            ELSE [request[q] EXCEPT !.at = "closed", !.posts = 0]
    <3>1. request' = [q \in Requests |-> Closed(q)]
      BY DEF Killed
    <3> HIDE DEF Closed
    <3>2. \A q \in Requests : Closed(q) = request'[q]
      BY <3>1
    <3>3. \A q \in Requests : Closed(q) \in Handlers
      BY <1>5, <3>2
    <3>4. QED BY <3>1, <3>3
  <2>2. ASSUME NEW q \in Requests
        PROVE  IF request'[q].at = "none" THEN request'[q] = NoRequest
               ELSE \E m \in Notifications : request'[q].alert = {m}
    <3>1. CASE request[q].at = "none"
      BY <1>5, <3>1 DEF NoRequest
    <3>2. CASE request[q].at # "none"
      <4>1. request'[q].alert = request[q].alert /\ request'[q].at = "closed"
        BY <1>5, <3>2
      <4>2. \E m \in Notifications : request[q].alert = {m}
        BY <1>5, <3>2
      <4>3. QED BY <4>1, <4>2
    <3>3. QED BY <3>1, <3>2
  <2>3. QED BY <1>1, <1>2, <1>3, <1>4, <2>1, <2>2 DEF TypeOK, Faults
<1>7. RequestsSound'
  <2>1. ASSUME NEW q \in Requests PROVE HandlerSound(request[q])'
    <3>1. HandlerSound(request[q])
      BY <1>1 DEF RequestsSound
    <3>2. QED BY <1>3, <1>5, <3>1 DEF HandlerSound
  <2>2. ASSUME NEW m \in Notifications PROVE WaitingSound(m)'
    BY <1>4 DEF WaitingSound
  <2>3. QED BY <2>1, <2>2 DEF RequestsSound
<1>8. MessagesAccounted'
  <2> SUFFICES ASSUME NEW m \in Notifications
               PROVE  discord'[m] + Cardinality(Coming(m)') + Due(m)' <= 1 + Happened'
    BY DEF MessagesAccounted
  <2>1. Coming(m)' = {}
    BY <1>5 DEF Coming, RequestsOf, MayShow
  <2>2. Cardinality(Coming(m)') = 0
    BY <2>1, FS_EmptySet
  <2>3. Cardinality(Coming(m)) \in Nat
    BY SomeRequests DEF Coming, RequestsOf
  <2>4. /\ discord[m] + Cardinality(Coming(m)) + Due(m) <= 1 + Happened
        /\ discord[m] \in Nat /\ Due(m) \in {0, 1} /\ Happened \in Nat
        /\ discord'[m] = discord[m] /\ Due(m)' \in {0, 1}
    BY <1>1, <1>3, Counters DEF MessagesAccounted, Due
  <2>5. QED BY <1>2, <2>2, <2>3, <2>4
<1>9. ShownIsAudited' /\ RecordsAccounted'
  <2>1. \A q \in Requests :
           /\ request'[q].audited = request[q].audited
           /\ request'[q].delivered = request[q].delivered
           /\ request'[q].status = request[q].status
           /\ request[q].alert \subseteq request'[q].alert
    BY <1>5
  <2>2. /\ Torn(alerts') + faults.write <= Torn(alerts) + faults'.write
        /\ Torn(deliveries') + faults.write <= Torn(deliveries) + faults'.write
    BY <1>2, <1>3, LogFacts
  <2>3. QED BY <1>3, <1>6, <2>1, <2>2, RecordsStay
<1>10. AcceptedIsDelivered'
  BY <1>1, <1>3, <1>4, <1>5 DEF AcceptedIsDelivered, RequestsOf
<1>11. QED BY <1>6, <1>7, <1>8, <1>9, <1>10 DEF Safety

(***************************************************************************)
(* Theorems                                                                *)
(***************************************************************************)
\* Nothing was sent, written or shown.
LEMMA InitInv == Init => Safety
<1> SUFFICES ASSUME Init PROVE Safety
  OBVIOUS
<1>1. \A r \in Requests : request[r] = NoRequest
  BY DEF Init
<1>2. NoRequest \in Handlers
  BY DEF NoRequest, Handlers
<1>3. TypeOK
  <2>1. request \in [Requests -> Handlers]
    BY <1>2 DEF Init
  <2>2. alertmanager \in [Notifications -> Sendings] /\ discord \in [Notifications -> Nat]
    BY DEF Init, Sendings
  <2>3. alerts \in Logs /\ deliveries \in Logs
        /\ faults \in [write : 0..MaxFaults, other : 0..MaxFaults]
    BY DEF Init, Logs
  <2>4. \A r \in Requests : request[r].at = "none" /\ request[r] = NoRequest
    BY <1>1 DEF NoRequest
  <2>5. QED BY <2>1, <2>2, <2>3, <2>4 DEF TypeOK
<1>4. \A n \in Notifications : RequestsOf(n) = {} /\ Coming(n) = {}
  BY <1>1 DEF RequestsOf, Coming, NoRequest
<1>5. RequestsSound
  BY <1>1 DEF RequestsSound, HandlerSound, WaitingSound, NoRequest, Init
<1>6. MessagesAccounted
  <2>1. ASSUME NEW n \in Notifications
        PROVE  discord[n] = 0 /\ Cardinality(Coming(n)) = 0 /\ Due(n) = 1 /\ Happened = 0
    <3>1. Cardinality(Coming(n)) = 0
      BY <1>4, FS_EmptySet
    <3>2. QED BY <3>1 DEF Init, Due, Happened
  <2>2. QED BY <2>1 DEF MessagesAccounted
<1>7. RecordsAccounted
  <2>1. Unrecorded = {} /\ Undelivered = {}
    BY <1>1 DEF Unrecorded, Undelivered, NoRequest
  <2>2. Cardinality(Unrecorded) = 0 /\ Cardinality(Undelivered) = 0
    BY <2>1, FS_EmptySet
  <2>3. Torn(alerts) = 0 /\ Torn(deliveries) = 0 /\ faults.write = 0
    BY DEF Init, Torn
  <2>4. QED BY <2>2, <2>3 DEF RecordsAccounted
<1>8. ShownIsAudited /\ AcceptedIsDelivered
  BY DEF Init, ShownIsAudited, AcceptedIsDelivered
<1>9. QED BY <1>3, <1>5, <1>6, <1>7, <1>8 DEF Safety

\* A stuttering step.
LEMMA StutterInv == ASSUME Safety, UNCHANGED vars PROVE Safety'
BY DEF vars, Safety, TypeOK, RequestsSound, HandlerSound, WaitingSound, MessagesAccounted,
       RecordsAccounted, ShownIsAudited, AcceptedIsDelivered, RequestsOf, Coming, MayShow, Due,
       Happened, Unrecorded, Undelivered, Torn

\* Every step keeps what Discord, Alertmanager and the logs hold together.
LEMMA NextInv == ASSUME Safety, [Next]_vars PROVE Safety'
<1>1. ASSUME NEW n \in Notifications, Post(n) \/ GiveUpWaiting(n) PROVE Safety'
  BY <1>1, PostInv, GiveUpWaitingInv
<1>2. ASSUME NEW r \in Requests, Handle(r) PROVE Safety'
  BY <1>2, TooLargeInv, AuditInv, ConfirmedInv, LogDeliveryInv, ReplyInv DEF Handle
<1>3. ASSUME NEW r \in Requests, HandleFails(r) PROVE Safety'
  BY <1>3, AuditFailsInv, FailedInv, RefusedInv, LogDeliveryFailsInv DEF HandleFails
<1>4. QED BY <1>1, <1>2, <1>3, KilledInv, StutterInv DEF Next

\* Whatever the order of handlers, retries and kills: Discord shows only what was audited,
\* and Alertmanager stops sending only what was audited and, with a webhook, shown.
THEOREM AcceptedStandsOnAudit == Spec => []Safety
<1>1. Init => Safety
  BY InitInv
<1>2. Safety /\ [Next]_vars => Safety'
  BY NextInv
<1>3. QED BY <1>1, <1>2, PTL DEF Spec

\* Discord shows a notification once and once more for every failure at most, however many
\* handlers of it run side by side.
THEOREM OneMessagePerFault == Spec => []DuplicatesExplained
<1>1. ASSUME Safety PROVE DuplicatesExplained
  <2> SUFFICES ASSUME NEW n \in Notifications PROVE discord[n] <= 1 + Happened
    BY DEF DuplicatesExplained
  <2>1. TypeOK /\ MessagesAccounted
    BY <1>1 DEF Safety
  <2>2. /\ discord[n] \in Nat /\ Due(n) \in {0, 1} /\ Happened \in Nat
        /\ discord[n] + Cardinality(Coming(n)) + Due(n) <= 1 + Happened
    BY <2>1, Counters DEF MessagesAccounted
  <2>3. Cardinality(Coming(n)) \in Nat
    BY SomeRequests DEF Coming, RequestsOf
  <2>4. QED BY <2>2, <2>3
<1>2. Safety => DuplicatesExplained
  BY <1>1
<1>3. QED BY <1>2, AcceptedStandsOnAudit, PTL

\* Each log has lost at most one record for every write that failed or was interrupted.
THEOREM OneRecordPerFailedWrite == Spec => []SpoiledRecordsBounded
<1>1. ASSUME Safety PROVE SpoiledRecordsBounded
  <2>1. TypeOK /\ RecordsAccounted
    BY <1>1 DEF Safety
  <2>2. /\ Cardinality(Unrecorded) \in Nat /\ Cardinality(Undelivered) \in Nat
        /\ faults.write \in Nat
    BY <2>1, SomeRequests, Counters DEF Unrecorded, Undelivered
  <2>3. Torn(alerts) \in {0, 1} /\ Torn(deliveries) \in {0, 1}
    BY DEF Torn
  <2>4. QED BY <2>1, <2>2, <2>3 DEF RecordsAccounted, SpoiledRecordsBounded
<1>2. Safety => SpoiledRecordsBounded
  BY <1>1
<1>3. QED BY <1>2, AcceptedStandsOnAudit, PTL
=============================================================================
