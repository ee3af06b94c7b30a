------------------------------- MODULE Mutex -------------------------------
(***************************************************************************)
(* What the collection lock of the snapshot store promises: at most one    *)
(* process is inside the store at a time ("Only one collector may write a  *)
(* store at a time", docs/operational_use.md).  CollectorLock is shown to  *)
(* implement it until a lock file is misjudged.                            *)
(***************************************************************************)
CONSTANTS Procs,   \* the processes that may ask for the lock
          Nobody   \* not a process: the lock is free

VARIABLE holder

Init == holder = Nobody

Acquire(p) == holder = Nobody /\ holder' = p
Release(p) == holder = p /\ holder' = Nobody

Next == \E p \in Procs : Acquire(p) \/ Release(p)

Spec == Init /\ [][Next]_holder
=============================================================================
