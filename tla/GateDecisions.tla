--------------------------- MODULE GateDecisions ---------------------------
(***************************************************************************)
(* The gates of the governance package: their evaluation for a run, the    *)
(* decisions kept in the table gates, and the reviewers that settle those  *)
(* that need a review.                                                     *)
(* Source: packages/governance/src/gate-manager.ts, gate-store.ts,         *)
(*         gates/base-gate.ts, apps/control-service/src/handlers/          *)
(*         reject-gate.ts                                                  *)
(*                                                                         *)
(* Every query is awaited and none is in a transaction with another, so    *)
(* evaluations and reviews of several runs interleave between them.        *)
(***************************************************************************)
EXTENDS Integers, Sequences, FiniteSets, SequencesExt

CONSTANTS
    Runs,           \* ids of runs
    GateNames,      \* the registered gates, in order
    OptionalGate,   \* the gate that balanced mode leaves out
    RiskGate,       \* the gate that turbo mode alone runs
    RunModes,       \* modes the runs are evaluated in
    Reviewers,      \* rejections in flight
    MaxRows,        \* bound: decisions recorded
    MaxReviews      \* bound: reviews begun

GateModes == {"turbo", "safe", "balanced", "builder", "pro", "expert", "god"}

ASSUME GateDecisionsAssumption ==
    /\ RunModes \subseteq GateModes
    /\ GateNames \in Seq(ToSet(GateNames)) /\ IsInjective(GateNames)
    /\ {OptionalGate, RiskGate} \subseteq ToSet(GateNames)

VARIABLES
    gates,          \* the table, in order of creation: [run, gate, status]
    evaluation,     \* run -> the evaluation in progress
    review,         \* reviewer -> the request to reject a gate
    reviews         \* reviews begun

decisionVars == <<gates, evaluation, review, reviews>>

Severity == {"pass", "warning", "fail", "blocked"}
Status == {"pass", "needs-review", "blocked"}
Decision == [run : Runs, gate : ToSet(GateNames), status : Status]

\* The last result of an evaluation; `recorded` once it is in the table.
Result == [severity : Severity, recorded : BOOLEAN]
NoResult == [severity |-> "pass", recorded |-> FALSE]

Evaluation == [pc : {"idle", "evaluate", "record"}, mode : RunModes,
               left : Seq(ToSet(GateNames)), last : Result]

NoEvaluation == [pc |-> "idle", mode |-> CHOOSE m \in RunModes : TRUE,
                 left |-> <<>>, last |-> NoResult]
NoReview == [pc |-> "idle", run |-> "", gate |-> "", disturbed |-> FALSE]

DecisionsTypeOK ==
    /\ ToSet(gates) \subseteq Decision
    /\ evaluation \in [Runs -> Evaluation]
    /\ reviews \in 0..MaxReviews

DecisionsInit ==
    /\ gates = <<>>
    /\ evaluation = [r \in Runs |-> NoEvaluation]
    /\ review = [v \in Reviewers |-> NoReview]
    /\ reviews = 0

----------------------------------------------------------------------------
Lenient(mode) == mode \in {"turbo", "god"}

GateSequence(mode) ==
    CASE mode = "turbo"    -> << RiskGate >>
      [] mode = "god"      -> <<>>
      [] mode = "balanced" ->
            RemoveAt(GateNames, CHOOSE i \in DOMAIN GateNames : GateNames[i] = OptionalGate)
      [] OTHER              -> GateNames

StatusOf(severity) ==
    CASE severity \in {"pass", "warning"} -> "pass"
      [] severity = "blocked"             -> "blocked"
      [] OTHER                             -> "needs-review"

BeginEvaluation(r, mode) ==
    /\ evaluation[r].pc = "idle"
    /\ Len(gates) < MaxRows
    /\ evaluation' = [evaluation EXCEPT ![r] =
          [pc |-> "evaluate", mode |-> mode, left |-> GateSequence(mode), last |-> NoResult]]
    /\ UNCHANGED <<gates, review, reviews>>

\* A gate gives its result, which is kept before it is recorded.
GateEvaluated(r, severity) ==
    /\ evaluation[r].pc = "evaluate"
    /\ evaluation[r].left # <<>>
    /\ evaluation' = [evaluation EXCEPT ![r].pc = "record",
          ![r].last = [severity |-> severity, recorded |-> FALSE]]
    /\ UNCHANGED <<gates, review, reviews>>

GoesOn(r) == evaluation[r].last.severity # "blocked" \/ Lenient(evaluation[r].mode)

\* A blocked gate ends the evaluation once its decision is recorded.
RecordGateDecision(r) ==
    /\ evaluation[r].pc = "record"
    /\ Len(gates) < MaxRows
    /\ gates' = Append(gates, [run |-> r, gate |-> Head(evaluation[r].left),
                               status |-> StatusOf(evaluation[r].last.severity)])
    /\ evaluation' = [evaluation EXCEPT ![r].pc = "evaluate",
          ![r].left = IF GoesOn(r) THEN Tail(@) ELSE <<>>,
          ![r].last.recorded = TRUE]
    /\ review' = [v \in Reviewers |->
          [review[v] EXCEPT !.disturbed =
              @ \/ (review[v].run = r /\ review[v].gate = Head(evaluation[r].left))]]
    /\ UNCHANGED reviews

\* The gate threw, or the table could not be written: the gate gets a failure,
\* after its own result if it gave one, and the evaluation goes on, past a
\* blocked gate too.
RecordFails(r) ==
    /\ evaluation[r].left # <<>>
    /\ evaluation' = [evaluation EXCEPT ![r].pc = "evaluate", ![r].left = Tail(@),
          ![r].last = [severity |-> "fail", recorded |-> FALSE]]
    /\ UNCHANGED <<gates, review, reviews>>

\* The results go back to the caller.
EvaluationEnds(r) ==
    /\ evaluation[r].pc = "evaluate"
    /\ evaluation[r].left = <<>>
    /\ evaluation' = [evaluation EXCEPT ![r] = NoEvaluation]
    /\ UNCHANGED <<gates, review, reviews>>

----------------------------------------------------------------------------
SettledOnce(g, status) ==
    gates' = LET waits == {i \in DOMAIN gates : gates[i].gate = g /\ gates[i].status = "needs-review"}
             IN  IF waits = {} THEN gates
                 ELSE [gates EXCEPT ![CHOOSE i \in waits : \A j \in waits : i <= j].status = status]

\* approveGate and rejectGate settle the gate in every run it waits in.
Settled(g, status) ==
    gates' = [i \in DOMAIN gates |->
                 IF gates[i].gate = g /\ gates[i].status = "needs-review"
                 THEN [gates[i] EXCEPT !.status = status] ELSE gates[i]]

Disturbs(g, others) ==
    review' = [v \in Reviewers |->
                  IF v \in others /\ review[v].gate = g
                  THEN [review[v] EXCEPT !.disturbed = TRUE] ELSE review[v]]

\* overrideGateDecision names a run and settles the gate alone.
OverrideGateDecision(g, approved) ==
    /\ reviews < MaxReviews
    /\ reviews' = reviews + 1
    /\ Settled(g, IF approved THEN "pass" ELSE "blocked")
    /\ Disturbs(g, Reviewers)
    /\ UNCHANGED evaluation

\* The newest decision on the gate for the run.
GateDecision(g, r) ==
    LET of == {i \in DOMAIN gates : gates[i].gate = g /\ gates[i].run = r}
    IN  IF of = {} THEN 0 ELSE CHOOSE i \in of : \A j \in of : j <= i

\* The handler of POST /v1/gates/:id/reject: not found, in conflict, or on.
RejectGate(v, g, r) ==
    /\ review[v].pc = "idle"
    /\ reviews < MaxReviews
    /\ reviews' = reviews + 1
    /\ review' = [review EXCEPT ![v] =
          [pc |-> IF GateDecision(g, r) = 0 THEN "not found"
                  ELSE IF gates[GateDecision(g, r)].status # "needs-review" THEN "conflict"
                  ELSE "checked",
           run |-> r, gate |-> g, disturbed |-> FALSE]]
    /\ UNCHANGED <<gates, evaluation>>

\* What it found may be settled by now; it updates what still waits and
\* answers that the gate is rejected.
RejectUpdates(v) ==
    /\ review[v].pc = "checked"
    /\ Settled(review[v].gate, "blocked")
    /\ review' = [w \in Reviewers |->
          IF w = v THEN [review[v] EXCEPT !.pc = "rejected"]
          ELSE [review[w] EXCEPT !.disturbed = @ \/ review[w].gate = review[v].gate]]
    /\ UNCHANGED <<evaluation, reviews>>

\* The answer is sent; the audit trail failing, it is an error instead.
RejectReturns(v) ==
    /\ review[v].pc \notin {"idle", "checked"}
    /\ review' = [review EXCEPT ![v] = NoReview]
    /\ UNCHANGED <<gates, evaluation, reviews>>

DecisionsNext ==
    \/ \E r \in Runs :
          \/ \E m \in RunModes : BeginEvaluation(r, m)
          \/ \E s \in Severity : GateEvaluated(r, s)
          \/ RecordGateDecision(r) \/ RecordFails(r) \/ EvaluationEnds(r)
    \/ \E g \in ToSet(GateNames), a \in BOOLEAN : OverrideGateDecision(g, a)
    \/ \E v \in Reviewers :
          \/ \E g \in ToSet(GateNames), r \in Runs : RejectGate(v, g, r)
          \/ RejectUpdates(v) \/ RejectReturns(v)

DecisionsSpec == DecisionsInit /\ [][DecisionsNext]_decisionVars

----------------------------------------------------------------------------
\* A rejection that no other review or decision on the gate came between is
\* what the run's gate ends with.
LoneRejectionHolds ==
    \A v \in Reviewers :
        review[v].pc = "rejected" /\ ~review[v].disturbed =>
            gates[GateDecision(review[v].gate, review[v].run)].status = "blocked"

============================================================================
