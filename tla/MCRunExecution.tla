--------------------------- MODULE MCRunExecution ---------------------------
(* RunExecution for TLC: the shape of buildInitialPlan's plan (a risky     *)
(* reversible step, a harmless one, an approval checkpoint) and the sets   *)
(* of operations the runs combine.                                         *)
EXTENDS RunExecution, TLC

(* Three steps: a file write into a protected path, an echo, a checkpoint. *)
MCGated == {0, 2}
MCRollbackable == {0, 1}
MCLimits == {0, 1, 2}

Symmetry == Permutations(Requests)

DoneSteps == {s \in Steps : successes[s] > 0}

Lifecycle == INSTANCE RunLifecycle
  WITH status <- stateFile.status, index <- stateFile.index, done <- DoneSteps

(* Seen from its state file, a run whose requests are serialised is the    *)
(* abstract life cycle.                                                    *)
ImplementsLifecycle == Lifecycle!Spec
=============================================================================
