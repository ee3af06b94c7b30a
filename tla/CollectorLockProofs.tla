------------------------ MODULE CollectorLockProofs ------------------------
(***************************************************************************)
(* Proofs about CollectorLock for any set of processes, whichever of them  *)
(* may die or stall: the inductive invariant IInv, exclusion up to a       *)
(* misjudgement, and the refinement of Mutex up to there.                  *)
(***************************************************************************)
EXTENDS CollectorLock, TLAPS

USE ProcsAssumption

\* The initial state satisfies the inductive invariant.
LEMMA InitInv == Init => IInv
BY DEF Init, IInv, Safety, TypeOK, VerdictSound, FileOwned, EmptyAgesAlone, StatSawAged,
       ExclusiveUnlessMisjudged, Owners, Exists, NoFile, Locations

\* An existing file has a maker among the processes.
LEMMA FileType ==
  ASSUME TypeOK, Exists
  PROVE  lockFile \in [maker : Procs, pid : Procs \union {NoPid}, aged : BOOLEAN]
BY DEF TypeOK, Exists

\* Aging preserves the inductive invariant.
LEMMA AgeInv == ASSUME IInv, Age PROVE IInv'
<1> USE DEF Age, IInv, Safety
<1>1. /\ Exists /\ lockFile' \in [maker : Procs, pid : Procs \union {NoPid}, aged : BOOLEAN]
      /\ lockFile'.maker = lockFile.maker /\ lockFile'.pid = lockFile.pid
  BY FileType
<1>2. TypeOK'
  BY <1>1 DEF TypeOK
<1>3. VerdictSound' /\ Owners' = Owners
  BY DEF VerdictSound, Owners
<1>4. FileOwned'
  BY <1>1, <1>3 DEF FileOwned
<1>5. EmptyAgesAlone'
  BY <1>1, FileType DEF EmptyAgesAlone, FileOwned, MidStep
<1>6. StatSawAged'
  BY DEF StatSawAged, MidStep
<1>7. ExclusiveUnlessMisjudged'
  BY <1>1, <1>3 DEF ExclusiveUnlessMisjudged
<1>8. QED BY <1>2, <1>3, <1>4, <1>5, <1>6, <1>7

\* Steps that only move a process, outside a verdict and the end of an ownership.
LEMMA MoveInv ==
  ASSUME NEW p \in Procs, IInv,
         \/ Start(p) \/ OpenFails(p) \/ LeaveBody(p) \/ ReadGone(p)
         \/ ReadUnreadable(p) \/ StatGone(p) \/ StatFresh(p) \/ Exit(p)
  PROVE  IInv'
<1> USE DEF IInv, Safety
<1> DEFINE Moves(from, to) == pc[p] = from /\ pc' = [pc EXCEPT ![p] = to]
<1>1. PICK from \in Locations, to \in Locations :
        /\ Moves(from, to) /\ UNCHANGED <<lockFile, pid, misjudged>>
        /\ from # "dead" /\ to \notin {"probe", "unlink"}
        /\ from \in {"opened", "held", "release"} <=> to \in {"opened", "held", "release"}
        /\ to = "stat" => Exists /\ lockFile.pid = NoPid
  BY DEF Start, OpenFails, LeaveBody, ReadGone, ReadUnreadable, StatGone, StatFresh,
         Exit, Goto, Locations
<1>2. TypeOK'
  BY <1>1 DEF TypeOK
<1>3. Owners' = Owners /\ (Exists' <=> Exists)
  BY <1>1 DEF Owners, TypeOK, Exists
<1>4. \A q \in Procs : pc[q] = "dead" => pc'[q] = "dead"
  BY <1>1 DEF TypeOK
<1>5. VerdictSound'
  BY <1>1, <1>4 DEF VerdictSound, TypeOK
<1>6. FileOwned' /\ EmptyAgesAlone'
  BY <1>1, <1>3, <1>4, FileType DEF FileOwned, EmptyAgesAlone
<1>7. StatSawAged'
  BY <1>1, <1>3 DEF StatSawAged, TypeOK
<1>8. ExclusiveUnlessMisjudged'
  BY <1>1, <1>3 DEF ExclusiveUnlessMisjudged
<1>9. QED BY <1>2, <1>5, <1>6, <1>7, <1>8

\* Making the file, and writing the pid into it or failing at it.
LEMMA TakeInv ==
  ASSUME NEW p \in Procs, IInv, Open(p) \/ WritePid(p) \/ WriteFails(p)
  PROVE  IInv'
<1> USE DEF IInv, Safety, Goto
<1>1. CASE Open(p)
  <2>1. /\ lockFile = NoFile /\ lockFile' = [maker |-> p, pid |-> NoPid, aged |-> FALSE]
        /\ pc[p] = "open" /\ pc' = [pc EXCEPT ![p] = "opened"]
        /\ UNCHANGED <<pid, misjudged>>
    BY <1>1 DEF Open, Exists
  <2>2. TypeOK'
    BY <2>1 DEF TypeOK, Locations
  <2>3. Owners' = Owners \union {p}
    BY <2>1 DEF Owners, TypeOK
  <2>4. VerdictSound'
    BY <2>1 DEF VerdictSound, TypeOK
  <2>5. FileOwned' /\ EmptyAgesAlone' /\ StatSawAged'
    BY <2>1, <2>3 DEF FileOwned, EmptyAgesAlone, StatSawAged
  <2>6. ExclusiveUnlessMisjudged'
    BY <2>1, <2>3 DEF ExclusiveUnlessMisjudged, Owners, NoFile
  <2>7. QED BY <2>2, <2>4, <2>5, <2>6
<1>2. CASE WritePid(p) \/ WriteFails(p)
  <2>1. PICK to \in {"held", "release"} :
          /\ pc[p] = "opened" /\ pc' = [pc EXCEPT ![p] = to]
          /\ UNCHANGED <<pid, misjudged>> /\ lockFile' \in {lockFile, Written(p)}
    BY <1>2 DEF WritePid, WriteFails
  <2>2. CASE lockFile.maker = p /\ lockFile' = Written(p)
    <3>1. Exists
      BY <2>2 DEF Exists, NoFile
    <3>2. /\ lockFile' \in [maker : Procs, pid : Procs \union {NoPid}, aged : BOOLEAN]
          /\ lockFile'.maker = p /\ lockFile'.pid = p /\ ~lockFile'.aged
      BY <2>2, <3>1, FileType DEF Written
    <3>3. TypeOK'
      BY <2>1, <3>2 DEF TypeOK, Locations
    <3>4. Owners' = Owners
      BY <2>1 DEF Owners, TypeOK
    <3>5. VerdictSound'
      BY <2>1 DEF VerdictSound, TypeOK
    <3>6. FileOwned' /\ EmptyAgesAlone' /\ StatSawAged'
      BY <2>1, <3>2, <3>4 DEF FileOwned, EmptyAgesAlone, StatSawAged, Owners
    <3>7. ExclusiveUnlessMisjudged'
      BY <2>1, <2>2, <3>2, <3>4 DEF ExclusiveUnlessMisjudged
    <3>8. QED BY <3>3, <3>5, <3>6, <3>7
  <2>3. CASE ~(lockFile.maker = p /\ lockFile' = Written(p))
    <3>1. UNCHANGED lockFile
      BY <2>1, <2>3 DEF Written
    <3>2. TypeOK'
      BY <2>1, <3>1 DEF TypeOK, Locations
    <3>3. Owners' = Owners /\ (Exists' <=> Exists)
      BY <2>1, <3>1 DEF Owners, TypeOK, Exists
    <3>4. VerdictSound' /\ StatSawAged'
      BY <2>1, <3>1, <3>3 DEF VerdictSound, StatSawAged, TypeOK
    <3>5. FileOwned' /\ EmptyAgesAlone'
      BY <2>1, <3>1, <3>3, FileType DEF FileOwned, EmptyAgesAlone, TypeOK
    <3>6. ExclusiveUnlessMisjudged'
      BY <2>1, <3>1, <3>3 DEF ExclusiveUnlessMisjudged
    <3>7. QED BY <3>2, <3>4, <3>5, <3>6
  <2>4. QED BY <2>2, <2>3
<1>3. QED BY <1>1, <1>2

\* Unlinking the file: one's own at the end, or the one that was judged.
LEMMA UnlinkInv ==
  ASSUME NEW p \in Procs, IInv, Release(p) \/ UnlinkStale(p)
  PROVE  IInv'
<1> USE DEF IInv, Safety, Goto
<1>1. /\ lockFile' = NoFile
      /\ pid' = pid \/ pid' = [pid EXCEPT ![p] = NoPid]
      /\ \/ pc[p] = "release" /\ pc' = [pc EXCEPT ![p] = "idle"]
         \/ pc[p] = "unlink" /\ pc' = [pc EXCEPT ![p] = "open"]
      /\ misjudged' \in BOOLEAN
  BY DEF Release, UnlinkStale, TypeOK
<1>2. TypeOK'
  BY <1>1 DEF TypeOK, Locations
<1>3. \A q \in Procs : pc'[q] = "unlink" => q # p /\ pc[q] = "unlink" /\ pid'[q] = pid[q]
  BY <1>1 DEF TypeOK
<1>4. \A q \in Procs : pc[q] = "dead" => pc'[q] = "dead"
  BY <1>1 DEF TypeOK
<1>5. VerdictSound'
  BY <1>3, <1>4 DEF VerdictSound, TypeOK
<1>6. FileOwned' /\ EmptyAgesAlone' /\ StatSawAged'
  BY <1>1 DEF FileOwned, EmptyAgesAlone, StatSawAged, Exists
<1>7. ExclusiveUnlessMisjudged'
  <2>1. SUFFICES ASSUME ~misjudged' PROVE Owners' = {}
    BY DEF ExclusiveUnlessMisjudged
  <2>2. CASE Release(p)
    BY <2>1, <2>2 DEF Release, ExclusiveUnlessMisjudged, Owners, TypeOK
  <2>3. CASE UnlinkStale(p)
    BY <2>1, <2>3 DEF UnlinkStale, ExclusiveUnlessMisjudged, Owners, TypeOK
  <2>4. QED BY <2>2, <2>3
<1>8. QED BY <1>2, <1>5, <1>6, <1>7

\* Looking at the file and at the process it names: a verdict is reached about the
\* dead, or where somebody stalls.
LEMMA JudgeInv ==
  ASSUME NEW p \in Procs, IInv, ReadPid(p) \/ StatAged(p) \/ ProbeAlive(p) \/ ProbeDead(p)
  PROVE  IInv'
<1> USE DEF IInv, Safety, Goto
<1>1. /\ UNCHANGED <<lockFile, misjudged>>
      /\ pc[p] \in {"inspect", "stat", "probe"}
      /\ \E to \in {"probe", "unlink", "idle"} : pc' = [pc EXCEPT ![p] = to]
      /\ \E x \in Procs \union {NoPid} : pid' = [pid EXCEPT ![p] = x]
  BY FileType DEF ReadPid, StatAged, ProbeAlive, ProbeDead, TypeOK
<1>2. pc'[p] \in {"probe", "unlink"} => pid'[p] \in Procs
  BY FileType DEF ReadPid, StatAged, ProbeAlive, ProbeDead, TypeOK
<1>3. TypeOK'
  BY <1>1, <1>2 DEF TypeOK, Locations
<1>4. Owners' = Owners /\ (Exists' <=> Exists)
  BY <1>1 DEF Owners, TypeOK, Exists
<1>5. \A q \in Procs : pc[q] = "dead" => pc'[q] = "dead"
  BY <1>1 DEF TypeOK
<1>6. pc'[p] = "unlink" => pc[pid'[p]] = "dead" \/ {p, pid'[p]} \intersect Suspendable # {}
  <2>1. CASE StatAged(p)
    <3>1. p \in Suspendable \/ lockFile.pid = NoPid
      BY <2>1 DEF StatAged, StatSawAged
    <3>2. pid'[p] = lockFile.maker
      BY <2>1 DEF StatAged, TypeOK
    <3>3. QED BY <2>1, <3>1, <3>2 DEF StatAged, EmptyAgesAlone
  <2>2. CASE ProbeDead(p)
    BY <2>2 DEF ProbeDead
  <2>3. CASE ReadPid(p) \/ ProbeAlive(p)
    BY <2>3 DEF ReadPid, ProbeAlive, TypeOK
  <2>4. QED BY <2>1, <2>2, <2>3
<1>7. VerdictSound'
  <2>1. SUFFICES ASSUME NEW q \in Procs, pc'[q] = "unlink"
                 PROVE  pc'[pid'[q]] = "dead" \/ {q, pid'[q]} \intersect Suspendable # {}
    BY DEF VerdictSound
  <2>2. CASE q = p
    BY <1>2, <1>5, <1>6, <2>1, <2>2
  <2>3. CASE q # p
    <3>1. pc[q] = "unlink" /\ pid'[q] = pid[q]
      BY <1>1, <2>1, <2>3 DEF TypeOK
    <3>2. QED BY <1>5, <3>1 DEF VerdictSound, TypeOK
  <2>4. QED BY <2>2, <2>3
<1>8. FileOwned' /\ EmptyAgesAlone'
  BY <1>1, <1>4, <1>5, FileType DEF FileOwned, EmptyAgesAlone
<1>9. StatSawAged'
  BY <1>1, <1>4 DEF StatSawAged, TypeOK
<1>10. ExclusiveUnlessMisjudged'
  BY <1>1, <1>4 DEF ExclusiveUnlessMisjudged
<1>11. QED BY <1>3, <1>7, <1>8, <1>9, <1>10

\* A process that dies leaves the file to those who judge it.
LEMMA CrashInv == ASSUME NEW p \in Procs, IInv, Crash(p) PROVE IInv'
<1> USE DEF IInv, Safety, Crash
<1>1. TypeOK'
  BY DEF TypeOK, Locations
<1>2. Owners' = Owners \ {p} /\ (Exists' <=> Exists)
  BY DEF Owners, TypeOK, Exists
<1>3. pc'[p] = "dead" /\ \A q \in Procs : pc[q] = "dead" => pc'[q] = "dead"
  BY DEF TypeOK
<1>4. VerdictSound'
  <2>1. SUFFICES ASSUME NEW q \in Procs, pc'[q] = "unlink"
                 PROVE  pc'[pid'[q]] = "dead" \/ {q, pid'[q]} \intersect Suspendable # {}
    BY DEF VerdictSound
  <2>2. pc[q] = "unlink" /\ pid'[q] = pid[q]
    BY <2>1 DEF TypeOK
  <2>3. QED BY <1>3, <2>2 DEF VerdictSound, TypeOK
<1>5. FileOwned' /\ EmptyAgesAlone'
  BY <1>2, <1>3, FileType DEF FileOwned, EmptyAgesAlone
<1>6. StatSawAged'
  BY <1>2 DEF StatSawAged, TypeOK
<1>7. ExclusiveUnlessMisjudged'
  BY <1>2 DEF ExclusiveUnlessMisjudged
<1>8. QED BY <1>1, <1>4, <1>5, <1>6, <1>7

\* Every step preserves the inductive invariant.
LEMMA NextInv == IInv /\ [Next]_vars => IInv'
<1> SUFFICES ASSUME IInv, [Next]_vars PROVE IInv'
  OBVIOUS
<1>1. CASE Age
  BY <1>1, AgeInv
<1>2. ASSUME NEW p \in Procs, Step(p) \/ WriteFails(p) \/ Exit(p) \/ Crash(p) PROVE IInv'
  BY <1>2, MoveInv, TakeInv, UnlinkInv, JudgeInv, CrashInv DEF Step
<1>3. CASE UNCHANGED vars
  BY <1>3 DEF vars, IInv, Safety, TypeOK, VerdictSound, FileOwned, EmptyAgesAlone, StatSawAged,
              ExclusiveUnlessMisjudged, Owners, Exists
<1>4. QED BY <1>1, <1>2, <1>3 DEF Next

\* The inductive invariant holds in every state of the lock, whoever dies or stalls.
THEOREM InductiveInvariant == Spec => []IInv
BY InitInv, NextInv, PTL DEF Spec

\* Types, and that a process goes to unlink a file only about a dead maker, unless
\* one of the two stalls for a minute.
THEOREM VerdictsSound == Spec => []Safety
<1>1. IInv => Safety
  BY DEF IInv
<1>2. QED BY <1>1, InductiveInvariant, PTL

\* At most one owner, whose file is the one at lock_path, until a verdict is carried
\* out on the file of a live owner.
THEOREM OneOwner == Spec => []ExclusiveUnlessMisjudged
<1>1. IInv => ExclusiveUnlessMisjudged
  BY DEF IInv
<1>2. QED BY <1>1, InductiveInvariant, PTL

(***************************************************************************)
(* Refinement of Mutex                                                     *)
(***************************************************************************)
\* Until a misjudgement the holder is the one owner.
LEMMA HolderOwns ==
  ASSUME IInv, ~misjudged, NEW p \in Owners
  PROVE  Owners = {p} /\ holder = p
<1>1. Owners = {p}
  BY DEF IInv, ExclusiveUnlessMisjudged
<1>2. QED BY <1>1 DEF holder

\* How one step changes the owners: it adds the one that makes the file where there
\* was none, or removes the one that unlinks it or dies.
LEMMA OwnersStep ==
  ASSUME IInv, [Next]_vars
  PROVE  \/ Owners' = Owners
         \/ \E p \in Procs : ~Exists /\ Owners' = Owners \union {p}
         \/ \E p \in Procs : Owners' = Owners \ {p}
<1>1. CASE Age \/ UNCHANGED vars
  BY <1>1 DEF Age, vars, Owners
<1>2. ASSUME NEW p \in Procs, Step(p) \/ WriteFails(p) \/ Exit(p) \/ Crash(p)
      PROVE  \/ Owners' = Owners
             \/ ~Exists /\ Owners' = Owners \union {p}
             \/ Owners' = Owners \ {p}
  <2>1. CASE Open(p)
    BY <2>1 DEF Open, Goto, Owners, IInv, Safety, TypeOK
  <2>2. CASE Release(p) \/ Crash(p)
    BY <2>2 DEF Release, Crash, Goto, Owners, IInv, Safety, TypeOK
  <2>3. CASE ~Open(p) /\ ~Release(p) /\ ~Crash(p)
    BY <1>2, <2>3 DEF Step, Start, OpenFails, WritePid, LeaveBody, ReadGone, ReadPid,
                      ReadUnreadable, StatGone, StatFresh, StatAged, ProbeAlive, ProbeDead,
                      UnlinkStale, WriteFails, Exit, Goto, Owners, IInv, Safety, TypeOK
  <2>4. QED BY <2>1, <2>2, <2>3
<1>3. QED BY <1>1, <1>2 DEF Next

\* A misjudgement is not forgotten.
LEMMA MisjudgedStays == ASSUME IInv, [Next]_vars, misjudged PROVE misjudged'
BY DEF IInv, Safety, TypeOK, Next, vars, Age, Step, Start, Open, OpenFails, WritePid, LeaveBody,
       Release, ReadGone, ReadPid, ReadUnreadable, StatGone, StatFresh, StatAged, ProbeAlive,
       ProbeDead, UnlinkStale, WriteFails, Exit, Crash

\* Up to a misjudgement the protocol is the abstract mutex.
THEOREM LockImplementsMutex == Spec => ImplementsMutex
<1>1. Init => M!Init
  BY DEF Init, M!Init, holder, Owners
<1>2. IInv /\ IInv' /\ [Next]_vars => [misjudged' \/ M!Next]_<<misjudged, holder>>
  <2> SUFFICES ASSUME IInv, IInv', [Next]_vars, ~misjudged'
               PROVE  M!Next \/ (holder' = holder /\ misjudged' = misjudged)
    OBVIOUS
  <2>1. ~misjudged
    BY MisjudgedStays
  <2>2. misjudged' = misjudged
    BY <2>1 DEF IInv, Safety, TypeOK
  <2>3. Owners = {} => holder = NoPid
    BY DEF holder
  <2>4. Owners' = {} => holder' = NoPid
    BY DEF holder
  <2>5. ASSUME NEW p \in Owners' PROVE Owners' = {p} /\ holder' = p
    <3>1. Owners' = {p}
      BY DEF IInv, ExclusiveUnlessMisjudged
    <3>2. QED BY <3>1 DEF holder
  <2>6. CASE Owners' = Owners
    BY <2>1, <2>2, <2>3, <2>4, <2>5, <2>6, HolderOwns
  <2>7. ASSUME NEW p \in Procs, ~Exists, Owners' = Owners \union {p} PROVE M!Next
    <3>1. Owners = {}
      BY <2>1, <2>7 DEF IInv, ExclusiveUnlessMisjudged, Owners, Exists, NoFile
    <3>2. QED BY <2>3, <2>5, <2>7, <3>1 DEF M!Next, M!Acquire
  <2>8. ASSUME NEW p \in Procs, Owners' = Owners \ {p}, Owners' # Owners PROVE M!Next
    <3>1. Owners = {p} /\ holder = p
      BY <2>1, <2>8, HolderOwns
    <3>2. QED BY <2>4, <2>8, <3>1 DEF M!Next, M!Release
  <2>9. QED BY <2>2, <2>6, <2>7, <2>8, OwnersStep
<1>3. QED BY <1>1, <1>2, InductiveInvariant, PTL DEF Spec, ImplementsMutex
=============================================================================
