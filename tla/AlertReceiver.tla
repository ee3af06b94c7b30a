--------------------------- MODULE AlertReceiver ---------------------------
(***************************************************************************)
(* The webhook receiver (operations/alert_receiver.py) with its audit logs *)
(* and Discord delivery (operations/discord_notifications.py), between an  *)
(* Alertmanager that sends a notification again until it is accepted and a *)
(* Discord that may take a message without answering.                      *)
(*                                                                         *)
(* ThreadingHTTPServer runs one handler per request; the lock of each log  *)
(* makes an append one step.  A log is the set of requests with a readable *)
(* line, and whether the file ends in an unfinished line, to which the     *)
(* next append adds.  A message is its notification.                       *)
(***************************************************************************)
EXTENDS Naturals, FiniteSets

CONSTANTS
  Notifications,  \* what Alertmanager has to send
  Oversized,      \* the ones above MAX_WEBHOOK_BYTES
  Discord,        \* a webhook URL is configured
  MaxAttempts,    \* DiscordWebhookClient.max_attempts
  MaxFaults       \* bound: failures of the disk, of Discord and of the processes

ASSUME ReceiverAssumption ==
  /\ IsFiniteSet(Notifications) /\ Oversized \subseteq Notifications
  /\ Discord \in BOOLEAN
  /\ MaxAttempts \in 1..5 /\ MaxFaults \in Nat

\* Bound: between two faults a notification is posted at most once.
Requests == 1..(Cardinality(Notifications) * (1 + MaxFaults))

VARIABLES
  alertmanager,  \* of each notification: the request it waits for, or 0; and
                 \* whether it was accepted or given up
  request,       \* of each request: its notification, its handler and its posts
  alerts,        \* alerts.jsonl
  deliveries,    \* discord-deliveries.jsonl: the requests recorded as delivered
  discord,       \* how many messages of each notification Discord has shown
  faults         \* how many failures could interrupt a write, and the others

vars == <<alertmanager, request, alerts, deliveries, discord, faults>>

NoRequest == [at |-> "none", alert |-> {}, posts |-> 0, audited |-> FALSE,
              delivered |-> FALSE, status |-> 0]

Sendings == [waiting : {0} \union Requests, state : {"pending", "accepted", "dropped"}]
Handlers ==
  [at : {"none", "audit", "send", "log", "reply", "closed"}, alert : SUBSET Notifications,
   posts : 0..MaxAttempts, audited : BOOLEAN, delivered : BOOLEAN,
   status : {0, 202, 413, 500, 502}]
Logs == [lines : SUBSET Requests, torn : BOOLEAN]

TypeOK ==
  /\ alertmanager \in [Notifications -> Sendings]
  /\ request \in [Requests -> Handlers]
  /\ alerts \in Logs /\ deliveries \in Logs
  /\ discord \in [Notifications -> Nat]
  /\ faults \in [write : 0..MaxFaults, other : 0..MaxFaults]
  /\ \A r \in Requests :
       IF request[r].at = "none" THEN request[r] = NoRequest
       ELSE \E n \in Notifications : request[r].alert = {n}

Init ==
  /\ alertmanager = [n \in Notifications |-> [waiting |-> 0, state |-> "pending"]]
  /\ request = [r \in Requests |-> NoRequest]
  /\ alerts = [lines |-> {}, torn |-> FALSE]
  /\ deliveries = [lines |-> {}, torn |-> FALSE]
  /\ discord = [n \in Notifications |-> 0]
  /\ faults = [write |-> 0, other |-> 0]

Happened == faults.write + faults.other
Fault(kind) ==
  /\ Happened < MaxFaults
  /\ faults' = [faults EXCEPT ![kind] = @ + 1]

Enter(r, new) == request' = [request EXCEPT ![r] = new]
Respond(r, code) == Enter(r, [request[r] EXCEPT !.at = "reply", !.status = code])
Message(r) == CHOOSE n \in Notifications : n \in request[r].alert

(***************************************************************************)
(* Alertmanager, as the receiver and its documentation rely on it          *)
(***************************************************************************)
\* A pending notification is posted, again after a failure.
Post(n) ==
  /\ alertmanager[n] = [waiting |-> 0, state |-> "pending"]
  /\ \E r \in Requests :
       /\ request[r].at = "none"
       /\ \A q \in 1..(r - 1) : request[q].at # "none"
       /\ Enter(r, [NoRequest EXCEPT !.at = "audit", !.alert = {n}])
       /\ alertmanager' = [alertmanager EXCEPT ![n].waiting = r]
  /\ UNCHANGED <<alerts, deliveries, discord, faults>>

\* The request timeout: the handler goes on without anyone waiting for it.
GiveUpWaiting(n) ==
  /\ Fault("other")
  /\ alertmanager[n].waiting # 0
  /\ alertmanager' = [alertmanager EXCEPT ![n].waiting = 0]
  /\ UNCHANGED <<request, alerts, deliveries, discord>>

(***************************************************************************)
(* The handler                                                             *)
(***************************************************************************)
\* Mutant: the record is written without the newline that ends it.
AppendUnterminated(log, r) ==
  [lines |-> IF log.torn THEN log.lines ELSE log.lines \union {r}, torn |-> TRUE]

\* A record and a newline are added: behind an unfinished line it is unreadable.
Append(log, r) ==
  [lines |-> IF log.torn THEN log.lines ELSE log.lines \union {r}, torn |-> FALSE]

\* OSError, or the process is killed: nothing, or a part of the record, is there.
AppendFails(log) == {log, [log EXCEPT !.torn = TRUE]}

\* Content-Length above MAX_WEBHOOK_BYTES.
TooLarge(r) ==
  /\ request[r].at = "audit" /\ Message(r) \in Oversized
  /\ Respond(r, 413)
  /\ UNCHANGED <<alertmanager, alerts, deliveries, discord, faults>>

\* audit_log.append(webhook)
Audit(r) ==
  /\ request[r].at = "audit" /\ Message(r) \notin Oversized
  /\ alerts' = Append(alerts, r)
  /\ IF Discord THEN Enter(r, [request[r] EXCEPT !.at = "send", !.audited = TRUE])
     ELSE Enter(r, [request[r] EXCEPT !.at = "reply", !.audited = TRUE, !.status = 202])
  /\ UNCHANGED <<alertmanager, deliveries, discord, faults>>

\* Mutant: a failed write is answered like an invalid payload.
AuditFailsAsInvalid(r) ==
  /\ Fault("write")
  /\ request[r].at = "audit" /\ Message(r) \notin Oversized
  /\ alerts' \in AppendFails(alerts)
  /\ Respond(r, 413)
  /\ UNCHANGED <<alertmanager, deliveries, discord>>

AuditFails(r) ==
  /\ Fault("write")
  /\ request[r].at = "audit" /\ Message(r) \notin Oversized
  /\ alerts' \in AppendFails(alerts)
  /\ Respond(r, 500)
  /\ UNCHANGED <<alertmanager, deliveries, discord>>

\* One session.post that Discord confirms.
Confirmed(r) ==
  /\ request[r].at = "send"
  /\ Enter(r, [request[r] EXCEPT !.at = "log", !.posts = @ + 1, !.delivered = TRUE])
  /\ discord' = [discord EXCEPT ![Message(r)] = @ + 1]
  /\ UNCHANGED <<alertmanager, alerts, deliveries, faults>>

\* RequestException, 429 or a server error: retried up to max_attempts.  Where
\* only the answer was lost Discord shows the message all the same.
Failed(r) ==
  /\ Fault("other")
  /\ request[r].at = "send"
  /\ LET posts == request[r].posts + 1 IN
       Enter(r, [request[r] EXCEPT !.at = IF posts = MaxAttempts THEN "log" ELSE "send",
                                   !.posts = posts])
  /\ discord' \in {discord, [discord EXCEPT ![Message(r)] = @ + 1]}
  /\ UNCHANGED <<alertmanager, alerts, deliveries>>

\* Any other status is not retried.
Refused(r) ==
  /\ Fault("other")
  /\ request[r].at = "send"
  /\ Enter(r, [request[r] EXCEPT !.at = "log", !.posts = @ + 1])
  /\ UNCHANGED <<alertmanager, alerts, deliveries, discord>>

\* Mutant: every outcome answers 202.
LogDeliveryAlways202(r) ==
  /\ request[r].at = "log"
  /\ deliveries' = IF request[r].delivered THEN Append(deliveries, r)
                   ELSE [deliveries EXCEPT !.torn = FALSE]
  /\ Respond(r, 202)
  /\ UNCHANGED <<alertmanager, alerts, discord, faults>>

\* Mutant: 502 whatever became of the delivery.
LogDeliveryAlways502(r) ==
  /\ request[r].at = "log"
  /\ deliveries' = IF request[r].delivered THEN Append(deliveries, r)
                   ELSE [deliveries EXCEPT !.torn = FALSE]
  /\ Respond(r, 502)
  /\ UNCHANGED <<alertmanager, alerts, discord, faults>>

\* delivery_log.append: 202 after a delivery, 502 after a failed one.
LogDelivery(r) ==
  /\ request[r].at = "log"
  /\ deliveries' = IF request[r].delivered THEN Append(deliveries, r)
                   ELSE [deliveries EXCEPT !.torn = FALSE]
  /\ Respond(r, IF request[r].delivered THEN 202 ELSE 502)
  /\ UNCHANGED <<alertmanager, alerts, discord, faults>>

LogDeliveryFails(r) ==
  /\ Fault("write")
  /\ request[r].at = "log"
  /\ deliveries' \in AppendFails(deliveries)
  /\ Respond(r, 500)
  /\ UNCHANGED <<alertmanager, alerts, discord>>

\* The answer: accepted, retried after a 5xx, given up after another 4xx.
Reply(r) ==
  /\ request[r].at = "reply"
  /\ Enter(r, [request[r] EXCEPT !.at = "closed", !.posts = 0])
  /\ alertmanager' = [n \in Notifications |->
       IF alertmanager[n].waiting # r THEN alertmanager[n]
       ELSE [waiting |-> 0,
             state |-> CASE request[r].status = 202 -> "accepted"
                         [] request[r].status = 413 -> "dropped"
                         [] OTHER -> "pending"]]
  /\ UNCHANGED <<alerts, deliveries, discord, faults>>

\* The receiver is killed, and started again by systemd: every connection breaks.
Killed ==
  /\ Fault("write")
  /\ alertmanager' = [n \in Notifications |-> [alertmanager[n] EXCEPT !.waiting = 0]]
  /\ request' = [r \in Requests |->
       IF request[r].at = "none" THEN request[r]
       ELSE [request[r] EXCEPT !.at = "closed", !.posts = 0]]
  /\ alerts' \in IF \E r \in Requests : request[r].at = "audit"
                 THEN AppendFails(alerts) ELSE {alerts}
  /\ deliveries' \in IF \E r \in Requests : request[r].at = "log"
                     THEN AppendFails(deliveries) ELSE {deliveries}
  /\ UNCHANGED discord

Handle(r) ==
  \/ TooLarge(r) \/ Audit(r) \/ Confirmed(r) \/ LogDelivery(r) \/ Reply(r)
HandleFails(r) == AuditFails(r) \/ Failed(r) \/ Refused(r) \/ LogDeliveryFails(r)

Next ==
  \/ \E n \in Notifications : Post(n) \/ GiveUpWaiting(n)
  \/ \E r \in Requests : Handle(r) \/ HandleFails(r)
  \/ Killed

\* Some handler goes on, and Alertmanager goes on sending; nothing has to fail.
Spec ==
  /\ Init /\ [][Next]_vars
  /\ WF_vars(\E n \in Notifications : Post(n))
  /\ WF_vars(\E r \in Requests : Handle(r))

(***************************************************************************)
(* Properties                                                              *)
(***************************************************************************)
RequestsOf(n) == {r \in Requests : n \in request[r].alert}

\* Whatever Discord shows went through the audit log first, in every order of
\* handlers, retries and kills.
ShownIsAudited ==
  \A n \in Notifications :
    discord[n] > 0 => \E r \in RequestsOf(n) : request[r].audited

\* Alertmanager stops sending a notification only when a handler has audited
\* it and, with a Discord webhook, Discord shows it ("A failed delivery returns
\* HTTP 502 so Alertmanager can retry").
AcceptedIsDelivered ==
  \A n \in Notifications :
    alertmanager[n].state = "accepted" =>
      \E r \in RequestsOf(n) : request[r].audited /\ (Discord => discord[n] > 0)

\* A notification is shown twice only as often as something failed: handlers of
\* one notification that run side by side add no message of their own.
DuplicatesExplained == \A n \in Notifications : discord[n] <= 1 + Happened

\* The audited requests, and those answered as delivered, without a readable line.
Unrecorded == {r \in Requests : request[r].audited} \ alerts.lines
Undelivered ==
  {r \in Requests : request[r].status = 202 /\ request[r].delivered} \ deliveries.lines

\* A failed write spoils at most one other record: the logs lose no more records
\* than writes failed, however often handlers run side by side or again.
SpoiledRecordsBounded ==
  Cardinality(Unrecorded) <= faults.write /\ Cardinality(Undelivered) <= faults.write

\* "appends each delivery to alerts.jsonl", "durable delivery": a notification
\* that Alertmanager will not send again has a readable line.  It does not hold
\* (README, section 4).
AcceptedIsReadable ==
  \A n \in Notifications :
    alertmanager[n].state = "accepted" => RequestsOf(n) \intersect alerts.lines # {}

\* Once things stop failing every notification of an acceptable size is accepted.
EventuallyAccepted ==
  \A n \in Notifications \ Oversized : <>(alertmanager[n].state = "accepted")

(***************************************************************************)
(* The inductive invariant                                                 *)
(***************************************************************************)
\* A handler posts, and answers 202, for what it has audited and delivered;
HandlerSound(q) ==
  /\ q.at = "audit" => q.status = 0 /\ ~q.audited
  /\ q.at \in {"audit", "send"} => q.posts < MaxAttempts
  /\ q.at \in {"send", "log"} => q.status = 0 /\ q.audited
  /\ q.at = "reply" => q.status # 0
  /\ q.delivered => q.audited /\ \A n \in q.alert : discord[n] > 0
  /\ q.status = 202 => q.audited /\ (Discord => q.delivered)

\* a notification waits for a request of its own.
WaitingSound(n) ==
  alertmanager[n].waiting # 0 =>
    /\ alertmanager[n].state = "pending"
    /\ request[alertmanager[n].waiting].alert = {n}

RequestsSound ==
  /\ \A r \in Requests : HandlerSound(request[r])
  /\ \A n \in Notifications : WaitingSound(n)

\* A message that may still come: of a handler on its way to Discord or to an answer
\* after which Alertmanager posts again, or of a notification about to be posted.
MayShow(q) ==
  \/ q.at \in {"audit", "send"}
  \/ q.at = "log" /\ ~q.delivered
  \/ q.at = "reply" /\ q.status \in {500, 502}
Coming(n) == {r \in RequestsOf(n) : MayShow(request[r])}
Due(n) == IF alertmanager[n] = [waiting |-> 0, state |-> "pending"] THEN 1 ELSE 0
MessagesAccounted ==
  \A n \in Notifications : discord[n] + Cardinality(Coming(n)) + Due(n) <= 1 + Happened

\* A record that is missing, and an unfinished line that will spoil one, are of a write
\* that failed each.
Torn(log) == IF log.torn THEN 1 ELSE 0
RecordsAccounted ==
  /\ Cardinality(Unrecorded) + Torn(alerts) <= faults.write
  /\ Cardinality(Undelivered) + Torn(deliveries) <= faults.write

\* No message on Discord and no acceptance by Alertmanager without what they stand for.
Safety ==
  /\ TypeOK /\ RequestsSound /\ MessagesAccounted /\ RecordsAccounted
  /\ ShownIsAudited /\ AcceptedIsDelivered
=============================================================================
