----------------------------- MODULE AttemptLog -----------------------------
(***************************************************************************)
(* What the two pointers of the snapshot store promise a reader.  Attempts *)
(* are numbered in the order they are published; the newest one is known   *)
(* by its outcome, and the latest readable snapshot only ever moves to the *)
(* newest attempt, and only if that attempt succeeded: "A failed attempt   *)
(* ... updates latest_attempt.json without replacing the last readable     *)
(* latest.json" (docs/operational_use.md).                                 *)
(***************************************************************************)
EXTENDS Naturals

VARIABLES attempt, outcome, latest

vars == <<attempt, outcome, latest>>

Init == attempt = 0 /\ outcome = "none" /\ latest = 0

\* A later attempt becomes the newest one.
Attempt ==
  /\ attempt' \in Nat /\ attempt' > attempt
  /\ outcome' \in {"ok", "error"}
  /\ UNCHANGED latest

\* The newest attempt becomes the latest readable snapshot.
Promote ==
  /\ outcome = "ok"
  /\ latest' = attempt
  /\ UNCHANGED <<attempt, outcome>>

Next == Attempt \/ Promote

Spec == Init /\ [][Next]_vars
=============================================================================
