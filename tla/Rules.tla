------------------------------- MODULE Rules -------------------------------
(***************************************************************************)
(* The rules that decide without a state of their own - the consensus of   *)
(* the agents (Governance), the gates of the gate manager                  *)
(* (GovernanceGates), the tests of a gate (TestVerification) and the plan  *)
(* of an idea with its skills (Planning) - each asked once, about one of   *)
(* the inputs it may get.                                                  *)
(***************************************************************************)
EXTENDS Governance, GovernanceGates, TestVerification, Planning

CONSTANTS Ballots, Contexts, Suites, IdeaTexts   \* the inputs: votes, contexts, tests, ideas

ASSUME RulesAssumption ==
    /\ Ballots \subseteq [Agents -> Vote \cup {NoVote}]
    /\ Contexts \subseteq Context
    /\ Suites \subseteq Seq(RequiredTest)

VARIABLES part, subject   \* the rule that is asked, and about what

rulesVars == <<part, subject>>

RulesInit ==
    \/ part = "votes" /\ subject \in Ballots \X Risks
    \/ part = "gates" /\ subject \in Contexts
    \/ part = "tests" /\ subject \in Suites
    \/ part = "plans" /\ subject \in IdeaTexts

RulesSpec == RulesInit /\ [][FALSE]_rulesVars

\* More consent never makes a rule less willing: one more agent that approves,
\* a laxer mode of the gates, tests that run together instead of in turn.
RulesAreMonotone ==
    /\ part = "votes" => VotesAreMonotone(subject[1], subject[2])
    /\ part = "gates" => SafePausesMost(subject)
    /\ part = "tests" => ParallelNeverWorse(subject)

\* Every idea gets a plan and skills that fit together.
EveryPlanHangsTogether == part = "plans" => PlanHangsTogether(subject)

=============================================================================
