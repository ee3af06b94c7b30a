----------------------------- MODULE ModelTraining -----------------------------
(***************************************************************************)
(* The epochs of train_tiny_unet_archive                                   *)
(* (pipelines/torch_baseline_training.py): after each one the model is     *)
(* scored on the validation archive, the weights of the best epoch are     *)
(* set aside, and training stops when the score has not improved for a     *)
(* number of epochs.  The weights after an epoch are named by it.          *)
(***************************************************************************)
EXTENDS Integers, Sequences

NoEpoch == 0

Untrained == [epoch |-> 0, best |-> NoEpoch, loss |-> 0, without |-> 0, stopped |-> FALSE]

\* Mutant: an equal loss counts as an improvement.
ImprovesOrEquals(run, loss) == run.best = NoEpoch \/ loss <= run.loss

Improves(run, loss) == run.best = NoEpoch \/ loss < run.loss

\* Another epoch is due.
Due(run, epochs) == run.epoch < epochs /\ ~run.stopped

\* One epoch with its validation loss; a patience of 0 never stops.
Epoch(run, loss, patience) ==
  LET epoch == run.epoch + 1 IN
    IF Improves(run, loss)
    THEN [epoch |-> epoch, best |-> epoch, loss |-> loss, without |-> 0, stopped |-> FALSE]
    ELSE [run EXCEPT !.epoch = epoch, !.without = @ + 1,
                     !.stopped = patience > 0 /\ run.without + 1 >= patience]

\* The weights of the checkpoint; without validation, the last ones.
Checkpointed(run) == IF run.best = NoEpoch THEN run.epoch ELSE run.best

\* Of the first n epochs, e is the first with the least loss.
Best(losses, n, e) ==
  /\ \A f \in 1..n : losses[e] <= losses[f]
  /\ \A f \in 1..(e - 1) : losses[e] < losses[f]

\* The checkpoint holds the weights of the first epoch with the least loss of the
\* epochs that were run; these are all, or end with the first one that comes the
\* patience after the best epoch until then.
BestEpochKept(losses, run, patience) ==
  LET exhausted(n) ==
        \E e \in 1..n : Best(losses, n, e) /\ patience > 0 /\ n - e >= patience IN
    losses # <<>> =>
      /\ run.epoch = Len(losses)
      /\ Checkpointed(run) \in 1..run.epoch /\ Best(losses, run.epoch, Checkpointed(run))
      /\ \A n \in 1..(run.epoch - 1) : ~exhausted(n)
      /\ run.stopped <=> exhausted(run.epoch)
=============================================================================
