---------------------------- MODULE ArchiveCoverage ----------------------------
(***************************************************************************)
(* The read-only report on what the archive holds of each scheduled time   *)
(* (research/archive_coverage.py over research/archive_inventory.py).  It  *)
(* checks at most a budget of files, in the order of the entries, of their *)
(* schedule and of their references, and says of every slot how far its    *)
(* files could be verified.                                                *)
(*                                                                         *)
(* A reference is a time (off the schedule if it is no slot of the entry), *)
(* the grid of its file and the state a check of the file comes to, under  *)
(* the names of the code; what is wrong with a file of the right checksum  *)
(* is invalid_source, whichever of its checks fails.  An OSError is one of *)
(* is_file (probe_error), of stat (stat_error) or of reading the file for  *)
(* its checksum (read_error); the code calls all three read_error.         *)
(***************************************************************************)
EXTENDS Integers, Sequences, SequencesExt, FiniteSets

CONSTANTS
  SlotsPerDay,  \* of the reporting time zone
  NoGrid        \* no usable frame yet

ASSUME CoverageAssumption == SlotsPerDay \in Nat \ {0}

ArtifactStates ==
  {"path_escape", "file_missing", "probe_error", "stat_error", "byte_mismatch",
   "checksum_missing", "read_error", "checksum_mismatch", "invalid_source", "all_nodata", "usable"}

(***************************************************************************)
(* load_inventory                                                          *)
(***************************************************************************)
\* An inventory declares its frames.  A catalog names their collection, which must be
\* verified and of the event, and every raw frame once.
Loaded(entry) ==
  IF entry.collection \in {"declared", "verified"} THEN entry
  ELSE [entry EXCEPT !.collection = "invalid", !.frames = <<>>]

Inventory(entries, limit) ==
  [i \in 1..(IF Len(entries) < limit THEN Len(entries) ELSE limit) |-> Loaded(entries[i])]

(***************************************************************************)
(* CoverageReader.artifact and slot                                        *)
(***************************************************************************)
Present(state) == state \notin {"path_escape", "file_missing", "probe_error"}
ChecksumVerified(state) == state \in {"invalid_source", "all_nodata", "usable"}
\* The size was compared before what came then failed or was wrong.
SizeVerified(state) ==
  ChecksumVerified(state) \/ state \in {"checksum_missing", "read_error", "checksum_mismatch"}

\* The states of the references of one slot; a file that is there costs one check.
Checked(refs, checked, budget) ==
  FoldLeft(
    LAMBDA done, ref :
      IF ~Present(ref.is) THEN [done EXCEPT !.states = Append(@, ref.is)]
      ELSE IF done.checked >= budget THEN [done EXCEPT !.states = Append(@, "not_checked")]
      ELSE [states |-> Append(done.states, ref.is), checked |-> done.checked + 1],
    [states |-> <<>>, checked |-> checked], refs)

Slot(time, state, artifacts) ==
  [time |-> time, state |-> state, artifacts |-> artifacts, grid |-> NoGrid]

\* Mutant: the grid of the last verified frame is the one to compare with.
AnchorLast(anchor, slot, grid) == grid

\* The first usable frame of the entry anchors the grid.
Anchor(anchor, slot, grid) == IF slot.state = "usable" THEN grid ELSE anchor

ReadSlot(reading, time, entry, budget) ==
  LET refs == SelectSeq(entry.frames, LAMBDA ref : ref.time = time)
      done == Checked(refs, reading.checked, budget)
      single == Len(refs) = 1 /\ done.states = <<"usable">>
      changed == single /\ reading.anchor \notin {NoGrid, refs[1].grid}
      slot ==
        IF entry.collection = "invalid" THEN Slot(time, "metadata_invalid", <<>>)
        ELSE IF refs = <<>> THEN Slot(time, "uncaptured", <<>>)
        ELSE IF changed THEN Slot(time, "grid_changed", done.states)
        ELSE IF Len(refs) > 1 THEN Slot(time, "duplicate_timestamp", done.states)
        ELSE [Slot(time, done.states[1], done.states) EXCEPT
                !.grid = IF single THEN refs[1].grid ELSE NoGrid] IN
    [checked |-> done.checked,
     anchor |-> IF single THEN Anchor(reading.anchor, slot, refs[1].grid) ELSE reading.anchor,
     slots |-> Append(reading.slots, slot)]

\* CoverageEntry.schedule and times: the slots from the start to the end, one cadence apart
Schedule(entry) == [i \in 1..entry.slots |-> i - 1]

(***************************************************************************)
(* CoverageReader.entry and build_coverage                                 *)
(***************************************************************************)
\* _missing: nothing was captured, or all of it is gone
MissingSlot(slot) ==
  \/ slot.state = "uncaptured"
  \/ slot.artifacts # <<>> /\ \A i \in DOMAIN slot.artifacts : slot.artifacts[i] = "file_missing"

Some(slot, Test(_)) == \E i \in DOMAIN slot.artifacts : Test(slot.artifacts[i])
Number(slots, Test(_)) == Len(SelectSeq(slots, Test))

Counts(slots) ==
  [expected |-> Len(slots),
   present |-> Number(slots, LAMBDA s : Some(s, Present)),
   size_verified |-> Number(slots, LAMBDA s : Some(s, SizeVerified)),
   checksum_verified |-> Number(slots, LAMBDA s : Some(s, ChecksumVerified)),
   usable |-> Number(slots, LAMBDA s : s.state = "usable"),
   missing |-> Number(slots, MissingSlot),
   unchecked |-> Number(slots, LAMBDA s : \/ s.state = "metadata_invalid"
                                          \/ Some(s, LAMBDA a : a = "not_checked"))]

\* _intervals: runs of missing slots; "open" while the last slot was missing
Intervals(slots) ==
  FoldLeft(
    LAMBDA done, slot :
      IF ~MissingSlot(slot) THEN [done EXCEPT !.open = FALSE]
      ELSE IF done.open
      THEN [done EXCEPT !.runs[Len(done.runs)] = <<@[1], slot.time, @[3] + 1>>]
      ELSE [runs |-> Append(done.runs, <<slot.time, slot.time, 1>>), open |-> TRUE],
    [runs |-> <<>>, open |-> FALSE], slots).runs

Days(slots) ==
  LET day(slot) == slot.time \div SlotsPerDay IN
    [d \in {day(slots[i]) : i \in DOMAIN slots} |->
       Counts(SelectSeq(slots, LAMBDA slot : day(slot) = d))]

ReadEntry(entry, checked, budget) ==
  LET start == [checked |-> checked, anchor |-> NoGrid, slots |-> <<>>]
      reading == FoldLeft(LAMBDA r, time : ReadSlot(r, time, entry, budget), start, Schedule(entry)) IN
    [checked |-> reading.checked, slots |-> reading.slots,
     counts |-> Counts(reading.slots), intervals |-> Intervals(reading.slots),
     days |-> Days(reading.slots),
     extra |-> SelectSeq(entry.frames, LAMBDA ref : ref.time \notin ToSet(Schedule(entry)))]

Coverage(entries, limit, budget) ==
  FoldLeft(
    LAMBDA report, entry :
      LET read == ReadEntry(entry, report.checked, budget) IN
        [checked |-> read.checked, entries |-> Append(report.entries, read)],
    [checked |-> 0, entries |-> <<>>], Inventory(entries, limit))

(***************************************************************************)
(* Properties                                                              *)
(***************************************************************************)
\* The counts add up, the missing intervals are the longest runs of missing slots,
\* every reference of an entry is in one slot or among the extra ones, and the usable
\* slots of an entry show one grid.
EntryAddsUp(entry, read) ==
  LET slots == read.slots counts == read.counts days == read.days
      total(name) == FoldLeft(LAMBDA n, d : n + days[d][name], 0, SetToSeq(DOMAIN days))
      unknown == Number(slots, LAMBDA s :
        \/ s.state = "metadata_invalid"
        \/ ~MissingSlot(s) /\ s.artifacts # <<>> /\ ~Some(s, Present))
      used == FoldLeft(LAMBDA n, slot : n + Len(slot.artifacts), 0, slots)
      within(i, run) == run[1] <= slots[i].time /\ slots[i].time <= run[2] IN
    /\ counts.usable <= counts.checksum_verified
    /\ counts.checksum_verified <= counts.size_verified
    /\ counts.size_verified <= counts.present
    /\ counts.present + counts.missing + unknown = counts.expected
    /\ \A name \in DOMAIN counts : total(name) = counts[name]
    /\ used + Len(read.extra) = Len(entry.frames)
    /\ FoldLeft(LAMBDA n, run : n + run[3], 0, read.intervals) = counts.missing
    /\ \A i \in DOMAIN slots :
         MissingSlot(slots[i]) <=> \E r \in DOMAIN read.intervals : within(i, read.intervals[r])
    /\ \A r \in 1..(Len(read.intervals) - 1) : read.intervals[r][2] + 1 < read.intervals[r + 1][1]
    /\ \A i, j \in DOMAIN slots :
         slots[i].state = "usable" /\ slots[j].state = "usable" => slots[i].grid = slots[j].grid

\* The report never checks more than its budget, and a smaller budget only leaves
\* slots unchecked: a slot it could check in full has the verdict of a report without
\* a budget, and one it could not is unchecked and not taken for missing.
BudgetOnlyHides(entries, limit, budget) ==
  LET report == Coverage(entries, limit, budget)
      whole == Coverage(entries, limit, FoldLeft(LAMBDA n, e : n + Len(e.frames), 0, entries)) IN
    /\ report.checked <= budget
    /\ \A e \in DOMAIN report.entries : \A i \in DOMAIN report.entries[e].slots :
         LET slot == report.entries[e].slots[i] IN
           IF Some(slot, LAMBDA a : a = "not_checked") THEN ~MissingSlot(slot)
           ELSE slot = whole.entries[e].slots[i]

CoverageSound(entries, limit, budget) ==
  /\ BudgetOnlyHides(entries, limit, budget)
  /\ LET report == Coverage(entries, limit, budget) loaded == Inventory(entries, limit) IN
       /\ DOMAIN report.entries = DOMAIN loaded
       /\ \A e \in DOMAIN loaded : EntryAddsUp(loaded[e], report.entries[e])
=============================================================================
