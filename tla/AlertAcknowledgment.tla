------------------------ MODULE AlertAcknowledgment ------------------------
(***************************************************************************)
(* Alerts that wait for an acknowledgment, and the rules that give it when *)
(* what raised them is over.                                               *)
(* Source: apps/control-service/src/services/                              *)
(*             alert-acknowledgment-service.ts                             *)
(*                                                                         *)
(* An evaluation awaits nothing but resolved promises: it runs to its end  *)
(* before any other request, and is one step.                              *)
(***************************************************************************)
EXTENDS ServiceClock

CONSTANTS
    Alerts,             \* ids of alerts
    AcknowledgmentRule, \* the rules, in the order they were registered
    MaxRequests         \* bound: requests served in a behaviour

ASSUME RequestBoundAssumption == MaxRequests \in Nat

ResolutionCondition ==
    [type : {"metric_below_threshold", "error_rate_recovered", "service_healthy", "time_elapsed"},
     metric : STRING, threshold : Int, wait : Nat]

Rule == [id : STRING, alertRuleId : STRING, enabled : BOOLEAN,
         conditions : Seq(ResolutionCondition)]

\* A wait that is not given counts as five minutes; instances write it out.
ASSUME RuleAssumption ==
    /\ AcknowledgmentRule \in Seq(Rule)
    /\ \A i \in DOMAIN AcknowledgmentRule :
          \A j \in DOMAIN AcknowledgmentRule[i].conditions :
              AcknowledgmentRule[i].conditions[j].type = "time_elapsed" =>
                  AcknowledgmentRule[i].conditions[j].wait > 0

VARIABLES
    pendingAlerts,      \* alert -> when it fired, or Never
    acknowledgments,    \* id -> rule and method
    firedAt,            \* history: when each alert last fired
    requests            \* requests served so far

alertVars == <<pendingAlerts, acknowledgments, firedAt>>

AlertAcknowledgmentRecord ==
    [rule : {r.id : r \in ToSet(AcknowledgmentRule)} \cup {"manual"},
     method : {"auto", "manual"}, waits : SUBSET Nat]

AlertTypeOK ==
    /\ pendingAlerts \in [Alerts -> Time \cup {Never}]
    /\ requests \in 0..MaxRequests
    /\ \A id \in DOMAIN acknowledgments : acknowledgments[id] \in AlertAcknowledgmentRecord

AlertInit ==
    /\ pendingAlerts = [a \in Alerts |-> Never]
    /\ acknowledgments = <<>>
    /\ firedAt = [a \in Alerts |-> Never]
    /\ requests = 0

----------------------------------------------------------------------------
RecordAlertMutKeepsFirst(a) ==
    pendingAlerts' = [pendingAlerts EXCEPT ![a] = IF @ = Never THEN clock ELSE @]

\* An alert that fires while it is pending starts its wait again.
Pend(a) == pendingAlerts' = [pendingAlerts EXCEPT ![a] = clock]

Request ==
    /\ requests < MaxRequests
    /\ requests' = requests + 1

\* The rule that raised the alert is not kept.
RecordAlert(a) ==
    /\ Request
    /\ Pend(a)
    /\ firedAt' = [firedAt EXCEPT ![a] = clock]
    /\ UNCHANGED <<clock, acknowledgments>>

\* Id of an acknowledgment: two of one alert in one instant are one entry.
AckId(a) == <<a, clock>>

\* acknowledgeAlert, for each alert of the domain of record.
Acknowledge(record) ==
    LET new == {AckId(a) : a \in DOMAIN record}
    IN  /\ acknowledgments' = [x \in DOMAIN acknowledgments \cup new |->
                                  IF x \in new THEN record[x[1]] ELSE acknowledgments[x]]
        /\ pendingAlerts' = [a \in Alerts |->
                                IF a \in DOMAIN record THEN Never ELSE pendingAlerts[a]]

\* manuallyAcknowledge, and recordAcknowledgment of the event handlers: both
\* accept an alert that is not pending.
ManuallyAcknowledge(a) ==
    /\ Request
    /\ Acknowledge([x \in {a} |-> [rule |-> "manual", method |-> "manual", waits |-> {}]])
    /\ UNCHANGED <<clock, firedAt>>

RecordAcknowledgment(a) ==
    /\ Request
    /\ Acknowledge([x \in {a} |-> [rule |-> "manual", method |-> "auto", waits |-> {}]])
    /\ UNCHANGED <<clock, firedAt>>

----------------------------------------------------------------------------
ErrorRateRecovered(metrics) == Reading(metrics, "error_rate") < 1

ServiceHealthy(metrics) ==
    /\ Reading(metrics, "cpu_usage") < 80
    /\ Reading(metrics, "memory_usage") < 85
    /\ Reading(metrics, "error_rate") < 1

TimeElapsed(a, wait) ==
    pendingAlerts[a] # Never /\ clock - pendingAlerts[a] >= wait

ConditionResolved(condition, metrics, a) ==
    \/ /\ condition.type = "metric_below_threshold"
       /\ Reading(metrics, condition.metric) < condition.threshold
    \/ condition.type = "error_rate_recovered" /\ ErrorRateRecovered(metrics)
    \/ condition.type = "service_healthy" /\ ServiceHealthy(metrics)
    \/ condition.type = "time_elapsed" /\ TimeElapsed(a, condition.wait)

RuleResolved(rule, metrics, a) ==
    \A i \in DOMAIN rule.conditions : ConditionResolved(rule.conditions[i], metrics, a)

EnabledRules == {i \in DOMAIN AcknowledgmentRule : AcknowledgmentRule[i].enabled}

\* The rules for one alert rule that would acknowledge the alert now: the
\* first of them does.
Resolving(alertRuleId, metrics, a) ==
    {i \in EnabledRules : /\ AcknowledgmentRule[i].alertRuleId = alertRuleId
                          /\ RuleResolved(AcknowledgmentRule[i], metrics, a)}

\* The loop goes through the enabled rules and, for each, through all pending
\* alerts: any rule may acknowledge any alert.
Acknowledging(metrics, a) ==
    {i \in EnabledRules : Resolving(AcknowledgmentRule[i].alertRuleId, metrics, a) # {}}

AcknowledgingRule(metrics, a) ==
    LET first == Min(Acknowledging(metrics, a))
    IN  AcknowledgmentRule[Min(Resolving(AcknowledgmentRule[first].alertRuleId, metrics, a))]

AutoAcknowledged(metrics) ==
    {a \in Alerts : pendingAlerts[a] # Never /\ Acknowledging(metrics, a) # {}}

\* The waits the rule asks for.
WaitsOf(rule) ==
    {rule.conditions[i].wait : i \in
        {i \in DOMAIN rule.conditions : rule.conditions[i].type = "time_elapsed"}}

EvaluateAlertAcknowledgments(metrics) ==
    /\ Acknowledge([a \in AutoAcknowledged(metrics) |->
          [rule |-> AcknowledgingRule(metrics, a).id, method |-> "auto",
           waits |-> WaitsOf(AcknowledgingRule(metrics, a))]])
    /\ UNCHANGED firedAt

----------------------------------------------------------------------------
\* An automatic acknowledgment comes no sooner after the last firing of its
\* alert than its rule waits, however often the alert fired before.
AcknowledgedAfterWait ==
    [][\A id \in DOMAIN acknowledgments' \ DOMAIN acknowledgments :
          acknowledgments'[id].method = "auto" =>
              \A w \in acknowledgments'[id].waits :
                  id[2] - firedAt[id[1]] >= w]_<<clock, requests, alertVars>>

============================================================================
