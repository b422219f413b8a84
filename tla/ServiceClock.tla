--------------------------- MODULE ServiceClock ---------------------------
(***************************************************************************)
(* What the automation services share: the clock they read with Date.now() *)
(* and the requests that can be in flight together, each awaiting a        *)
(* service while others run.                                               *)
(***************************************************************************)
EXTENDS Integers, Sequences, FiniteSets, SequencesExt

CONSTANTS
    Callers,      \* bound: evaluations in flight together
    Readings,     \* what the monitoring may report: [metric -> value]
    MaxTime       \* bound: last instant of the clock

ASSUME ClockAssumption ==
    /\ Callers # {} /\ IsFiniteSet(Callers)
    /\ Readings # {}
    /\ MaxTime \in Nat

VARIABLE clock    \* the time, in periods of the automation loop

Time == 0..MaxTime
Never == -1

\* A metric that is not reported counts as zero.
Reading(metrics, name) == IF name \in DOMAIN metrics THEN metrics[name] ELSE 0

\* The orders in which sorting by descending priority may leave the ids of S:
\* ties are left open.
ByPriority(S, strategy) ==
    {q \in [1..Cardinality(S) -> S] :
        \A i, j \in DOMAIN q :
            i < j => q[i] # q[j] /\ strategy[q[i]].priority >= strategy[q[j]].priority}

============================================================================
