-------------------------- MODULE TestVerification --------------------------
(***************************************************************************)
(* The tests a gate wants: how long the suite takes when its tests run one *)
(* after the other or together, what its timeout makes of it, and whether  *)
(* the gate is approved.                                                   *)
(* Source: apps/control-service/src/services/test-verification-service.ts  *)
(***************************************************************************)
EXTENDS Integers, Sequences, FiniteSets, FiniteSetsExt

CONSTANTS TestRules, TestTimes   \* the rules, in order, and how long a test may run

RequiredTest == [seconds : TestTimes, clean : BOOLEAN, exits : BOOLEAN, maxDuration : Nat]

TestRule ==
    [gate : STRING, enabled : BOOLEAN, failureAction : {"block", "warn", "log"},
     parallel : BOOLEAN, timeout : Nat, minPass : 0..100]

ASSUME TestAssumption == TestRules \in Seq(TestRule) /\ TestTimes \subseteq Nat

NoTests == [status |-> "completed", total |-> 0, passed |-> 0]

\* executeTest: a missing duration is a minute.  A test passes if the command
\* ends well and in time, without FAIL in its output or error in its errors.
Limit(t) == IF t.maxDuration = 0 THEN 60 ELSE t.maxDuration
Duration(t) == IF t.seconds < Limit(t) THEN t.seconds ELSE Limit(t)
Passes(t) == t.seconds < Limit(t) /\ t.exits /\ t.clean

\* The seconds of the tests that run one after the other.
Seconds(tests) == UNION {{i} \X (1..Duration(tests[i])) : i \in DOMAIN tests}

SuiteMutNoLimit(tests, parallel, timeout) ==
    IF parallel THEN \E i \in DOMAIN tests : tests[i].seconds >= timeout
    ELSE tests # <<>> /\ Cardinality(Seconds(tests)) >= timeout

\* runTestsParallel waits for the longest, runTestsSequential for all; without
\* tests there is nothing to wait for.
SuiteIsLate(tests, parallel, timeout) ==
    IF parallel THEN \E i \in DOMAIN tests : Duration(tests[i]) >= timeout
    ELSE tests # <<>> /\ Cardinality(Seconds(tests)) >= timeout

\* runTests: a suite that is late has no results, though its tests go on.
RunTests(tests, rule) ==
    IF SuiteIsLate(tests, rule.parallel, rule.timeout)
    THEN [status |-> "timeout", total |-> Len(tests), passed |-> 0]
    ELSE [status |-> "completed", total |-> Len(tests),
          passed |-> Cardinality({i \in DOMAIN tests : Passes(tests[i])})]

\* isApproved: no tests at all are no percentage, and not enough.
IsApproved(execution, rule) ==
    \/ execution.status = "timeout" /\ rule.failureAction \in {"log", "warn"}
    \/ /\ execution.status = "completed"
       /\ execution.total > 0
       /\ execution.passed * 100 >= rule.minPass * execution.total

\* verifyTestsForGate: the first enabled rule of the gate counts.
ApplicableRules(rules, gate) == {i \in DOMAIN rules : rules[i].gate = gate /\ rules[i].enabled}

FirstRule(rules, gate) == rules[Min(ApplicableRules(rules, gate))]

VerifyTestsForGate(rules, gate, tests) ==
    IF ApplicableRules(rules, gate) = {} THEN [approved |-> TRUE, execution |-> NoTests]
    ELSE LET execution == RunTests(tests, FirstRule(rules, gate))
         IN  [approved |-> IsApproved(execution, FirstRule(rules, gate)), execution |-> execution]

\* Running the tests of a gate together instead of one after the other never
\* costs it the approval, if a suite that fails is to block it; and a gate
\* without a rule needs no tests.
ParallelNeverWorse(tests) ==
    LET rules(parallel) == [i \in DOMAIN TestRules |-> [TestRules[i] EXCEPT !.parallel = parallel]]
        approved(gate, parallel) == VerifyTestsForGate(rules(parallel), gate, tests).approved
    IN  \A gate \in {TestRules[i].gate : i \in DOMAIN TestRules} :
            IF ApplicableRules(TestRules, gate) = {} THEN approved(gate, TRUE)
            ELSE FirstRule(TestRules, gate).failureAction = "block" /\ approved(gate, FALSE) =>
                    approved(gate, TRUE)

=============================================================================
