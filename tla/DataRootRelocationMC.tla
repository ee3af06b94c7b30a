-------------------------- MODULE DataRootRelocationMC --------------------------
\* A manifest of one event for each split, and one with other settings in which the
\* candidate takes the place of the train event.
EXTENDS DataRootRelocation

CONSTANTS a, b, c, d

EventsMC == {a, b, c, d}
Base == (b :> "validation") @@ (c :> "test")
ManifestsMC ==
  {[events |-> <<a, b, c>>, split |-> (a :> "train") @@ Base, config |-> 1, reviewed |-> {}],
   [events |-> <<d, b, c>>, split |-> (d :> "train") @@ Base, config |-> 2, reviewed |-> {d}]}
=============================================================================
