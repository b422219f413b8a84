------------------------ MODULE RollbackAutomation ------------------------
(***************************************************************************)
(* The rollback automation of the control service: a strategy whose        *)
(* trigger is met rolls a deployment back, unless it did so a short while  *)
(* ago or too often in the last hour.                                      *)
(* Source: apps/control-service/src/services/rollback-automation.ts        *)
(*                                                                         *)
(* The cooldown and the limit are checked before the first await and what  *)
(* they are checked against is recorded after the last one, so two         *)
(* evaluations that overlap both pass.                                     *)
(***************************************************************************)
EXTENDS ServiceClock

CONSTANTS
    RollbackStrategy,   \* id -> [priority, enabled, triggers, ...]
    Hour                \* the hour of the limit, in periods of the clock

ASSUME HourAssumption == Hour \in Nat \ {0}

RollbackIds == DOMAIN RollbackStrategy
DefaultActionTimeout == 60000

RollbackTrigger ==
    [metric : STRING, operator : {"greater_than", "less_than", "equals"}, threshold : Int]

RollbackAction == [type : STRING, priority : Nat, timeout : Nat]

Rollback == [priority : Nat, enabled : BOOLEAN, canary : Nat,
             triggers : Seq(RollbackTrigger), rollbackActions : Seq(RollbackAction),
             cooldownPeriod : Nat, maxRollbacksPerHour : Nat]

ASSUME RollbackAssumption ==
    /\ IsFiniteSet(RollbackIds)
    /\ \A s \in RollbackIds : RollbackStrategy[s] \in Rollback

VARIABLES
    lastRollbacks,      \* strategy -> when it last succeeded
    rollbackCounts,     \* strategy -> its successes that are still counted
    rolling,            \* caller -> the rollback it runs
    rollbacks           \* history: the executions that succeeded, numbered by strategy

rollbackVars == <<lastRollbacks, rollbackCounts, rolling, rollbacks>>

RollbackExecution ==
    [pc : {"idle", "canary", "act"}, strategy : RollbackIds \cup {""},
     at : Time, done : Nat]

Success == [strategy : RollbackIds, nr : Nat, start : Time, end : Time]

NoExecution == [pc |-> "idle", strategy |-> "", at |-> 0, done |-> 0]

RollbackTypeOK ==
    /\ lastRollbacks \in [RollbackIds -> Time \cup {Never}]
    /\ rollbackCounts \in [RollbackIds -> SUBSET Success]
    /\ rollbacks \subseteq Success
    /\ rolling \in [Callers -> RollbackExecution]

RollbackInit ==
    /\ lastRollbacks = [s \in RollbackIds |-> Never]
    /\ rollbackCounts = [s \in RollbackIds |-> {}]
    /\ rolling = [c \in Callers |-> NoExecution]
    /\ rollbacks = {}

----------------------------------------------------------------------------
\* "equals" is a legal operator that no metric ever meets.
TriggerMet(metrics, trigger) ==
    LET value == Reading(metrics, trigger.metric)
    IN  \/ trigger.operator = "greater_than" /\ value > trigger.threshold
        \/ trigger.operator = "less_than"    /\ value < trigger.threshold

ShouldTrigger(metrics, s) ==
    \E i \in DOMAIN RollbackStrategy[s].triggers :
        TriggerMet(metrics, RollbackStrategy[s].triggers[i])

IsInCooldown(s) ==
    /\ lastRollbacks[s] # Never
    /\ clock - lastRollbacks[s] < RollbackStrategy[s].cooldownPeriod

WithinHour(s) == {r \in rollbackCounts[s] : r.end > clock - Hour}

LimitMutOffByOne(s) == Cardinality(WithinHour(s)) > RollbackStrategy[s].maxRollbacksPerHour

HasExceededRollbackLimit(s) ==
    Cardinality(WithinHour(s)) >= RollbackStrategy[s].maxRollbacksPerHour

EnabledByPriority ==
    ByPriority({s \in RollbackIds : RollbackStrategy[s].enabled}, RollbackStrategy)

\* Strategies are gone through by priority up to the first that may roll
\* back and has a trigger that is met.
Eligible(metrics, s) ==
    ~IsInCooldown(s) /\ ~HasExceededRollbackLimit(s) /\ ShouldTrigger(metrics, s)

\* The place of that strategy in the order, or the end.
Chosen(metrics, order) ==
    {i \in 1..(Len(order) + 1) :
        /\ \A j \in 1..(i - 1) : ~Eligible(metrics, order[j])
        /\ i <= Len(order) => Eligible(metrics, order[i])}

\* Counting a strategy's rollbacks forgets those older than an hour.
Counted(order, i) ==
    {s \in RollbackIds :
        (\E j \in DOMAIN order : j <= i /\ order[j] = s) /\ ~IsInCooldown(s)}

Execution(s) ==
    [pc |-> IF RollbackStrategy[s].canary > 0 THEN "canary" ELSE "act",
     strategy |-> s, at |-> clock, done |-> 0]

\* shouldRollback, and executeRollback up to its first await.
StartRollback(c, metrics) ==
    /\ rolling[c].pc = "idle"
    /\ \E order \in EnabledByPriority : \E i \in Chosen(metrics, order) :
          /\ rollbackCounts' = [s \in RollbackIds |->
                IF s \in Counted(order, i) THEN WithinHour(s) ELSE rollbackCounts[s]]
          /\ rolling' = [rolling EXCEPT ![c] =
                IF i > Len(order) THEN NoExecution ELSE Execution(order[i])]
    /\ UNCHANGED <<clock, lastRollbacks, rollbacks>>

\* The canary is a wait; nothing is observed and nothing is decided.
CanaryRollback(c) ==
    /\ rolling[c].pc = "canary"
    /\ rolling' = [rolling EXCEPT ![c].pc = "act"]
    /\ UNCHANGED <<clock, lastRollbacks, rollbackCounts, rollbacks>>

----------------------------------------------------------------------------
RollbackDelay(type) ==
    CASE type = "revert_deployment" -> 2000
      [] type = "switch_traffic"    -> 1000
      [] type = "restore_database"  -> 5000
      [] type = "notify_team"       -> 500
      [] type = "create_incident"   -> 1000

RollbackTimesOut(action) ==
    RollbackDelay(action.type) >
        (IF action.timeout = 0 THEN DefaultActionTimeout ELSE action.timeout)

NextAction(c) == RollbackStrategy[rolling[c].strategy].rollbackActions[rolling[c].done + 1]
ActionsRemain(c) == rolling[c].done < Len(RollbackStrategy[rolling[c].strategy].rollbackActions)

\* An action fails by its timeout only.  A failed action of priority 90 or
\* more ends the rollback; after any other failure the rollback goes on.
Fatal(action) == RollbackTimesOut(action) /\ action.priority >= 90

PerformAction(c) ==
    /\ rolling[c].pc = "act"
    /\ ActionsRemain(c)
    /\ ~Fatal(NextAction(c))
    /\ rolling' = [rolling EXCEPT ![c].done = @ + 1]
    /\ UNCHANGED <<clock, lastRollbacks, rollbackCounts, rollbacks>>

\* A rollback that failed is not recorded: neither the cooldown nor the limit
\* knows of it.
RollbackFails(c) ==
    /\ rolling[c].pc = "act"
    /\ ActionsRemain(c)
    /\ Fatal(NextAction(c))
    /\ rolling' = [rolling EXCEPT ![c] = NoExecution]
    /\ UNCHANGED <<clock, lastRollbacks, rollbackCounts, rollbacks>>

Successes(s) == {r \in rollbacks : r.strategy = s}

\* The number tells two successes in one instant apart: both are counted.
Succeeded(c) ==
    LET s == rolling[c].strategy
    IN  [strategy |-> s, nr |-> Cardinality(Successes(s)) + 1,
         start |-> rolling[c].at, end |-> clock]

RecordRollback(c) ==
    /\ lastRollbacks' = [lastRollbacks EXCEPT ![rolling[c].strategy] = clock]
    /\ rollbackCounts' = [rollbackCounts EXCEPT ![rolling[c].strategy] = @ \cup {Succeeded(c)}]
    /\ rollbacks' = rollbacks \cup {Succeeded(c)}

RollbackSucceeds(c) ==
    /\ rolling[c].pc = "act"
    /\ ~ActionsRemain(c)
    /\ RecordRollback(c)
    /\ rolling' = [rolling EXCEPT ![c] = NoExecution]
    /\ UNCHANGED clock

RollbackStep(c) ==
    CanaryRollback(c) \/ PerformAction(c) \/ RollbackFails(c) \/ RollbackSucceeds(c)

----------------------------------------------------------------------------
\* A rollback that starts after another of its strategy has succeeded starts
\* no sooner than the cooldown after it: only rollbacks that overlap can be
\* closer.  The limit per hour holds up to the rollbacks that were in flight
\* together: with k evaluations at a time it is passed by at most k - 1.
RollbacksAreRationed ==
    \A s \in RollbackIds :
        /\ \A r1, r2 \in Successes(s) :
              r1.end < r2.start => r2.start - r1.end >= RollbackStrategy[s].cooldownPeriod
        /\ Cardinality({r \in Successes(s) : r.end > clock - Hour})
            < RollbackStrategy[s].maxRollbacksPerHour + Cardinality(Callers)

============================================================================
