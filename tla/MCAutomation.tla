--------------------------- MODULE MCAutomation ---------------------------
(***************************************************************************)
(* A small instance of the automation loop.  One period of the loop is the *)
(* unit of time.                                                           *)
(***************************************************************************)
EXTENDS AutomationOrchestrator

\* Callers are interchangeable and no property of the run is a liveness one.
CallersAreAlike == Permutations(Callers)

\* The first strategy has an action that succeeds and one that is critical and
\* too slow; the second one that is too slow and not critical.
MCHealingStrategy ==
    [errors |-> [priority |-> 90, enabled |-> TRUE,
        condition |-> [metric |-> "error_rate", operator |-> "greater_than",
                       threshold |-> 10, duration |-> 2],
        actions |-> << [type |-> "clear_cache", priority |-> 85, timeout |-> 0],
                       [type |-> "circuit_breaker", priority |-> 95, timeout |-> 10] >>],
     cpu |-> [priority |-> 85, enabled |-> TRUE,
        condition |-> [metric |-> "cpu_usage", operator |-> "greater_than",
                       threshold |-> 85, duration |-> 1],
        actions |-> << [type |-> "rebalance_load", priority |-> 75, timeout |-> 30] >>]]

\* The first strategy is stopped by its limit, the second by its cooldown; the
\* third always fails, with the timeout the code's own defaults give it.
MCTrigger(metric, threshold) ==
    [metric |-> metric, operator |-> "greater_than", threshold |-> threshold]

MCRollbackStrategy ==
    [errors |-> [priority |-> 95, enabled |-> TRUE, canary |-> 10,
        triggers |-> << MCTrigger("error_rate", 15) >>,
        rollbackActions |-> << [type |-> "notify_team", priority |-> 70, timeout |-> 10] >>,
        cooldownPeriod |-> 1, maxRollbacksPerHour |-> 1],
     traffic |-> [priority |-> 90, enabled |-> TRUE, canary |-> 0,
        triggers |-> << MCTrigger("cpu_usage", 85) >>,
        rollbackActions |-> << [type |-> "switch_traffic", priority |-> 90, timeout |-> 0] >>,
        cooldownPeriod |-> 2, maxRollbacksPerHour |-> 5],
     database |-> [priority |-> 85, enabled |-> TRUE, canary |-> 0,
        triggers |-> << MCTrigger("cpu_usage", 85) >>,
        rollbackActions |-> << [type |-> "restore_database", priority |-> 90, timeout |-> 60] >>,
        cooldownPeriod |-> 1, maxRollbacksPerHour |-> 1]]

MCRule(id, alertRuleId, conditions) ==
    [id |-> id, alertRuleId |-> alertRuleId, enabled |-> TRUE, conditions |-> conditions]

MCCondition(type, metric, threshold, wait) ==
    [type |-> type, metric |-> metric, threshold |-> threshold, wait |-> wait]

MCAcknowledgmentRule ==
    << MCRule("burst", "http-5xx-burst",
          << MCCondition("error_rate_recovered", "", 0, 0), MCCondition("time_elapsed", "", 0, 1) >>),
       MCRule("auth", "auth-failures",
          << MCCondition("metric_below_threshold", "auth_failures", 5, 0),
             MCCondition("time_elapsed", "", 0, 2) >>) >>

MCReadings ==
    {[error_rate |-> 0, cpu_usage |-> 45, auth_failures |-> 9],
     [error_rate |-> 20, cpu_usage |-> 90, auth_failures |-> 1]}

============================================================================
