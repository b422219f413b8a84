----------------------------- MODULE Governance -----------------------------
(***************************************************************************)
(* Governed autonomy: the agents' votes, the constraints on a batch, the   *)
(* confidence in it, the kill switch, and the person who is asked through  *)
(* files when the agents pause.                                            *)
(* Source: packages/governance/src/governed-pipeline.ts,                   *)
(*         adaptive-consensus.ts, constraint-engine.ts, intent-engine.ts,  *)
(*         validation-engine.ts, confidence-engine.ts, kill-switch.ts,     *)
(*         gate-controller.ts; packages/agents/src/profiles.ts             *)
(*                                                                         *)
(* Fractions are integers of hundredths where the code has decimals; the   *)
(* confidence of a vote is 0, 50 or 100 of them, so that weights are exact.*)
(***************************************************************************)
EXTENDS Integers, Sequences, FiniteSets, FiniteSetsExt

CONSTANTS
    Governors,      \* processes that govern a batch
    GovernedInputs, \* what they may be given: [votes, risk, batch, policy]
    IdeaWords,      \* the words of the original idea
    PathPrefixes,       \* what a policy may name: prefixes of paths,
    Patterns,       \*   patterns of commands
    PrefixesOf, PatternsOf,   \* path -> its prefixes, command -> the patterns it matches
    Threshold,      \* least confidence, in hundredths
    Timeout,        \* how long a person has to answer, in periods of the poll
    MaxClock        \* bound: periods

Agents == {"planner", "builder", "reviewer", "security"}
Decisions == {"approve", "needs-review", "reject"}
Vote == [decision : Decisions, confidence : {0, 50, 100}]
NoVote == [decision |-> "none", confidence |-> 0]
Risks == {"low", "medium", "high"}
NoLimit == -1

ASSUME GovernanceAssumption ==
    /\ Timeout \in Nat /\ MaxClock \in Nat /\ Threshold \in 0..100
    /\ IsFiniteSet(IdeaWords)
    /\ \A x \in GovernedInputs :
          x.votes \in [Agents -> Vote \cup {NoVote}] /\ x.risk \in Risks \cup {"undefined"}

----------------------------------------------------------------------------
\* DEFAULT_AGENT_PROFILES: base weight in tenths, reliability in hundredths.
Profile(agent) ==
    CASE agent = "planner"  -> [base |-> 10, reliability |-> 82, canVeto |-> FALSE]
      [] agent = "builder"  -> [base |-> 10, reliability |-> 84, canVeto |-> FALSE]
      [] agent = "reviewer" -> [base |-> 11, reliability |-> 88, canVeto |-> TRUE]
      [] agent = "security" -> [base |-> 12, reliability |-> 92, canVeto |-> TRUE]

MayVetoAt(agent, risk) ==
    /\ Profile(agent).canVeto
    /\ risk \in (IF agent = "reviewer" THEN {"medium", "high"} ELSE {"high"})

ThresholdForRisk(risk) == CASE risk = "low" -> 55 [] risk = "medium" -> 65 [] risk = "high" -> 75

\* getEffectiveWeight: base * (1 + 2*(reliability - 0.5)*0.35)
\* * (1 + 2*(confidence - 0.5)*0.65), at least 0.05, in units of 1/100000.
EffectiveWeight(agent, vote) ==
    LET p == Profile(agent)
        reliable  == (1000 + 7 * (p.reliability - 50)) \div 2
        confident == 7 + (13 * vote.confidence) \div 50
    IN  Max({5000, p.base * reliable * confident})

WeightOf(votes, decision) ==
    LET weight(a) == IF votes[a].decision = decision THEN EffectiveWeight(a, votes[a]) ELSE 0
    IN  weight("planner") + weight("builder") + weight("reviewer") + weight("security")

TotalWeight(votes) ==
    WeightOf(votes, "approve") + WeightOf(votes, "needs-review") + WeightOf(votes, "reject")

\* Whether a share of the total is at least so many hundredths.
AtLeast(weight, total, hundredths) == total > 0 /\ weight * 100 >= hundredths * total

VetoApplied(votes, risk) ==
    \E a \in Agents : votes[a].decision = "reject" /\ MayVetoAt(a, risk)

\* runAdaptiveConsensus
FinalDecision(votes, risk) ==
    LET total   == TotalWeight(votes)
        approve == WeightOf(votes, "approve")
        reject  == WeightOf(votes, "reject")
    IN  CASE VetoApplied(votes, risk) -> "reject"
          [] ~VetoApplied(votes, risk) /\ AtLeast(approve, total, ThresholdForRisk(risk))
             /\ ~AtLeast(reject, total, 20) -> "approve"
          [] ~VetoApplied(votes, risk) /\ AtLeast(reject, total, 35) -> "reject"
          [] OTHER -> "needs-review"

\* A missing risk level is medium for the agents.
RiskLevel(risk) == IF risk = "undefined" THEN "medium" ELSE risk

ShouldPause(decision, risk) == decision # "approve" \/ risk # "low"

----------------------------------------------------------------------------
\* evaluateConstraints: a batch is a sequence of [type, path, command].
FileActions(batch) == SelectSeq(batch.actions, LAMBDA a : a.type # "run_command")
CommandActions(batch) == SelectSeq(batch.actions, LAMBDA a : a.type = "run_command")

PathAllowed(path, policy) ==
    /\ PrefixesOf[path] \cap policy.blockedPaths = {}
    /\ policy.allowedPaths = {} \/ PrefixesOf[path] \cap policy.allowedPaths # {}

Within(n, limit) == limit = NoLimit \/ n <= limit

ActionValid(a, policy) ==
    /\ a.type \notin policy.blockedTypes
    /\ a.type # "run_command" => PathAllowed(a.path, policy)
    /\ a.type = "run_command" => PatternsOf[a.command] \cap policy.blockedPatterns = {}

ConstraintsMutFilesOnly(batch, policy) ==
    \A i \in DOMAIN FileActions(batch) : ActionValid(FileActions(batch)[i], policy)

EvaluateConstraints(batch, policy) ==
    /\ Within(Len(batch.actions), policy.maxActions)
    /\ Within(Len(FileActions(batch)), policy.maxFiles)
    /\ Within(Len(CommandActions(batch)), policy.maxCommands)
    /\ \A i \in DOMAIN batch.actions : ActionValid(batch.actions[i], policy)

\* validateBatch: the batch is not empty, and its run, summary and reasons are there.
ValidateBatch(batch) == batch.actions # <<>> /\ batch.complete

\* verifyIntent: the share of the idea's words the batch mentions; that it
\* drifted is reported and not acted upon.
Alignment(batch) ==
    IF IdeaWords = {} THEN 100
    ELSE (200 * Cardinality(IdeaWords \cap batch.words) + Cardinality(IdeaWords))
            \div (2 * Cardinality(IdeaWords))

\* scoreExecution: 0.35 alignment + 0.2 validation + 0.25 policy + 0.2
\* consensus, rounded to hundredths, against the threshold.  The consensus
\* counts with its approval score, 0.6 of it, or 0.1.
Confident(x, decision) ==
    LET total   == TotalWeight(x.votes)
        fixed   == 7 * Alignment(x.batch) + (IF ValidateBatch(x.batch) THEN 400 ELSE 160)
                     + (IF EvaluateConstraints(x.batch, x.policy) THEN 500 ELSE 100)
                     + (IF decision = "reject" THEN 40 ELSE 0)
        factor  == CASE decision = "approve" -> 400 [] decision = "needs-review" -> 240
                     [] OTHER -> 0
        \* both sides in fifths; what rounds up to the threshold reaches it
        least   == 20 * Threshold - 10
    IN  IF total = 0 THEN fixed >= least
        ELSE (fixed - least) * total + factor * WeightOf(x.votes, "approve") >= 0

\* evaluateKillSwitch
KillSwitch(x, decision) ==
    \/ ~EvaluateConstraints(x.batch, x.policy)
    \/ decision = "reject"
    \/ ~Confident(x, decision)

----------------------------------------------------------------------------
VARIABLES
    clock,          \* the time, in periods of the poll
    governor,       \* process -> what it is doing
    signals         \* files of .ck/approvals: <<id, "approved" or "rejected">>

governVars == <<clock, governor, signals>>

Ungoverned == [pc |-> "idle"]

GovernInit ==
    /\ clock = 1
    /\ governor = [p \in Governors |-> Ungoverned]
    /\ signals = {}

\* Everything up to the wait is synchronous.  The id of an approval is the
\* time: two processes of the same instant share it.
RunGovernedAutonomy(p, x) ==
    /\ governor[p].pc = "idle"
    /\ LET decision == FinalDecision(x.votes, RiskLevel(x.risk))
           asks == ShouldPause(decision, RiskLevel(x.risk)) \/ x.risk = "high"
       IN  governor' = [governor EXCEPT ![p] =
              IF asks THEN [pc |-> "waiting", input |-> x, id |-> clock, next |-> clock]
              ELSE [pc |-> "done", input |-> x, id |-> 0, allowed |-> ~KillSwitch(x, decision)]]
    /\ UNCHANGED <<clock, signals>>

\* One round of waitForApproval; the approval is looked for first, and the
\* answer of a person replaces the one of the kill switch.
Poll(p) ==
    /\ governor[p].pc = "waiting" /\ clock >= governor[p].next
    /\ LET g == governor[p]
           ends(allowed) == [pc |-> "done", input |-> g.input, id |-> g.id, allowed |-> allowed]
       IN  governor' = [governor EXCEPT ![p] =
              CASE clock - g.id >= Timeout -> ends(FALSE)
                [] clock - g.id < Timeout /\ <<g.id, "approved">> \in signals -> ends(TRUE)
                [] clock - g.id < Timeout /\ <<g.id, "approved">> \notin signals
                     /\ <<g.id, "rejected">> \in signals -> ends(FALSE)
                [] OTHER -> [g EXCEPT !.next = clock + 1]]
    /\ UNCHANGED <<clock, signals>>

\* A person, or the control plane, leaves a file for an id it has seen.
Signal(p, answer) ==
    /\ governor[p].pc # "idle" /\ governor[p].id # 0
    /\ signals' = signals \cup {<<governor[p].id, answer>>}
    /\ UNCHANGED <<clock, governor>>

ClockTicks ==
    /\ clock < MaxClock
    /\ clock' = clock + 1
    /\ UNCHANGED <<governor, signals>>

GovernNext ==
    \/ \E p \in Governors :
          \/ \E x \in GovernedInputs : RunGovernedAutonomy(p, x)
          \/ Poll(p)
          \/ \E answer \in {"approved", "rejected"} : Signal(p, answer)
    \/ ClockTicks

GovernSpec == GovernInit /\ [][GovernNext]_governVars

----------------------------------------------------------------------------
\* A batch is let through by a person who approved it, or else it is of low
\* risk, every action of it keeps the policy, it shares a word with the idea
\* (with the threshold of 0.7) and those who rejected it weigh less than a
\* fifth of the votes.
AutonomyNeedsConsent ==
    \A p \in Governors : governor[p].pc = "done" /\ governor[p].allowed =>
        LET x == governor[p].input
        IN  \/ <<governor[p].id, "approved">> \in signals
            \/ /\ x.risk = "low"
               /\ \A i \in DOMAIN x.batch.actions : ActionValid(x.batch.actions[i], x.policy)
               /\ Threshold >= 70 => x.batch.words \cap IdeaWords # {} \/ IdeaWords = {}
               /\ 5 * WeightOf(x.votes, "reject") < TotalWeight(x.votes)

\* An agent that approves instead of what it voted never turns an approval
\* into anything else, and a veto holds whatever the others vote.
VotesAreMonotone(votes, risk) ==
    /\ \A a \in Agents : votes[a].decision # "none" /\ FinalDecision(votes, risk) = "approve" =>
          FinalDecision([votes EXCEPT ![a].decision = "approve"], risk) = "approve"
    /\ VetoApplied(votes, risk) => FinalDecision(votes, risk) = "reject"

=============================================================================
