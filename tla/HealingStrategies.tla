------------------------- MODULE HealingStrategies -------------------------
(***************************************************************************)
(* The healing engine of the control service: strategies that are tried    *)
(* once their condition has persisted, highest priority first, and undone  *)
(* when one of their critical actions times out.                           *)
(* Source: apps/control-service/src/services/healing-engine.ts             *)
(*                                                                         *)
(* A caller runs one evaluation; evaluations of several callers overlap,   *)
(* since every action is awaited.  Whether an action beats its timeout is  *)
(* decided by the two numbers the code gives them; the time an action      *)
(* takes on the clock is left open.                                        *)
(***************************************************************************)
EXTENDS ServiceClock

CONSTANT HealingStrategy   \* id -> [priority, enabled, condition, actions]

StrategyIds == DOMAIN HealingStrategy
DefaultTimeout == 30000

HealingCondition ==
    [metric : STRING, operator : {"greater_than", "less_than", "equals"},
     threshold : Int, duration : Nat]

RemediationAction == [type : STRING, priority : Nat, timeout : Nat]

Strategy == [priority : Nat, enabled : BOOLEAN, condition : HealingCondition,
             actions : Seq(RemediationAction)]

ASSUME HealingAssumption ==
    /\ IsFiniteSet(StrategyIds)
    /\ \A s \in StrategyIds : HealingStrategy[s] \in Strategy

VARIABLES
    conditionTracker,  \* strategy -> when its condition was first met
    healing,           \* caller -> the evaluation it runs
    unmetAt            \* history: last evaluation that found it unmet, or the start

healingVars == <<conditionTracker, healing, unmetAt>>

\* actionsPerformed of one execution; `applied` and `late` are what its
\* actions did: in effect now, and timed out but still running.
HealingExecution ==
    [pc : {"idle", "select", "act", "undo"}, queue : Seq(StrategyIds),
     performed : Seq({"success", "failed"}), undone : Nat,
     applied : SUBSET Nat, late : SUBSET Nat]

Fresh(pc, queue) ==
    [pc |-> pc, queue |-> queue, performed |-> <<>>, undone |-> 0,
     applied |-> {}, late |-> {}]

Idle == Fresh("idle", <<>>)

HealingTypeOK ==
    /\ conditionTracker \in [StrategyIds -> Time \cup {Never}]
    /\ unmetAt \in [StrategyIds -> Time]
    /\ healing \in [Callers -> HealingExecution]

HealingInit ==
    /\ conditionTracker = [s \in StrategyIds |-> Never]
    /\ healing = [c \in Callers |-> Idle]
    /\ unmetAt = [s \in StrategyIds |-> clock]

----------------------------------------------------------------------------
\* How long each kind of action takes, in milliseconds.
ActionDelay(type) ==
    CASE type = "restart_service" -> 500
      [] type = "scale_up"        -> 1000
      [] type = "clear_cache"     -> 300
      [] type = "rebalance_load"  -> 800
      [] type = "circuit_breaker" -> 200
      [] type = "custom"          -> 1000

\* The action is raced with a timer: it fails when the timer is the shorter.
TimesOut(action) ==
    ActionDelay(action.type) > (IF action.timeout = 0 THEN DefaultTimeout ELSE action.timeout)

ConditionMet(value, condition) ==
    \/ condition.operator = "greater_than" /\ value > condition.threshold
    \/ condition.operator = "less_than"    /\ value < condition.threshold
    \/ condition.operator = "equals"       /\ value = condition.threshold

Met(metrics) ==
    {s \in StrategyIds :
        /\ HealingStrategy[s].enabled
        /\ LET condition == HealingStrategy[s].condition
           IN  ConditionMet(Reading(metrics, condition.metric), condition)}

\* A condition starts to be tracked when it is first met, and is forgotten
\* when it is found unmet.
TrackerMutNotForgotten(metrics) ==
    [s \in StrategyIds |->
        IF s \in Met(metrics) /\ conditionTracker[s] = Never THEN clock
        ELSE conditionTracker[s]]

TrackerAfter(metrics) ==
    [s \in StrategyIds |->
        CASE s \notin Met(metrics)       -> Never
          [] conditionTracker[s] = Never -> clock
          [] OTHER                        -> conditionTracker[s]]

Applicable(metrics) ==
    {s \in Met(metrics) :
        /\ conditionTracker[s] # Never
        /\ clock - conditionTracker[s] >= HealingStrategy[s].condition.duration}

\* evaluateAndHeal: selects the strategies that apply now, and the order.
EvaluateAndHeal(c, metrics) ==
    /\ healing[c].pc = "idle"
    /\ conditionTracker' = TrackerAfter(metrics)
    /\ unmetAt' = [s \in StrategyIds |-> IF s \in Met(metrics) THEN unmetAt[s] ELSE clock]
    /\ \E order \in ByPriority(Applicable(metrics), HealingStrategy) :
          healing' = [healing EXCEPT ![c] = Fresh("select", order)]
    /\ UNCHANGED clock

----------------------------------------------------------------------------
\* The execution a caller is in.
Executing(c) == HealingStrategy[Head(healing[c].queue)]
Step(c) == Len(healing[c].performed) + 1
Action(c) == Executing(c).actions[Step(c)]
ActionsLeft(c) == Step(c) <= Len(Executing(c).actions)

\* The next strategy of the list starts, with the metrics of the evaluation.
ExecuteStrategy(c) ==
    /\ healing[c].pc = "select"
    /\ healing[c].queue # <<>>
    /\ healing' = [healing EXCEPT ![c] = Fresh("act", healing[c].queue)]
    /\ UNCHANGED <<clock, conditionTracker, unmetAt>>

ActionSucceeds(c) ==
    /\ healing[c].pc = "act"
    /\ ActionsLeft(c)
    /\ ~TimesOut(Action(c))
    /\ healing' = [healing EXCEPT ![c].performed = Append(@, "success"),
                                  ![c].applied = @ \cup {Step(c)}]
    /\ UNCHANGED <<clock, conditionTracker, unmetAt>>

\* Of the actions that time out, those of priority 80 and more are critical.
Critical(action) == action.priority >= 80

TimesOutMutOneLess(c) ==
    /\ healing[c].pc = "act"
    /\ ActionsLeft(c)
    /\ TimesOut(Action(c))
    /\ healing' = [healing EXCEPT ![c].late = @ \cup {Step(c)},
                                  ![c].performed = IF Critical(Action(c)) THEN @
                                                   ELSE Append(@, "failed"),
                                  ![c].undone = IF healing[c].performed = <<>> THEN 0
                                              ELSE Len(healing[c].performed) - 1,
                                  ![c].pc = IF Critical(Action(c)) THEN "undo" ELSE "act"]
    /\ UNCHANGED <<clock, conditionTracker, unmetAt>>

\* Nothing stops the action itself: it goes on after its timeout.  A critical
\* one is not entered in actionsPerformed; the rollback starts at the last
\* action that is.
ActionTimesOut(c) ==
    /\ healing[c].pc = "act"
    /\ ActionsLeft(c)
    /\ TimesOut(Action(c))
    /\ healing' = [healing EXCEPT ![c].late = @ \cup {Step(c)},
                                  ![c].performed = IF Critical(Action(c)) THEN @
                                                   ELSE Append(@, "failed"),
                                  ![c].undone = Len(healing[c].performed),
                                  ![c].pc = IF Critical(Action(c)) THEN "undo" ELSE "act"]
    /\ UNCHANGED <<clock, conditionTracker, unmetAt>>

\* The action that had timed out completes after all.
LateCompletion(c) ==
    /\ \E i \in healing[c].late :
          healing' = [healing EXCEPT ![c].late = @ \ {i}, ![c].applied = @ \cup {i}]
    /\ UNCHANGED <<clock, conditionTracker, unmetAt>>

\* rollback: from the last action to the first, those that succeeded are reversed.
UndoAction(c) ==
    /\ healing[c].pc = "undo"
    /\ healing[c].undone > 0
    /\ LET i == healing[c].undone
       IN  healing' = [healing EXCEPT ![c].undone = i - 1,
                          ![c].applied = IF healing[c].performed[i] = "success" THEN @ \ {i} ELSE @]
    /\ UNCHANGED <<clock, conditionTracker, unmetAt>>

\* rolled_back is not success: the next strategy of the list is tried.
RolledBack(c) ==
    /\ healing[c].pc = "undo"
    /\ healing[c].undone = 0
    /\ healing' = [healing EXCEPT ![c] = Fresh("select", Tail(healing[c].queue))]
    /\ UNCHANGED <<clock, conditionTracker, unmetAt>>

\* A success ends the evaluation; strategies of lower priority are not tried.
StrategySucceeds(c) ==
    /\ healing[c].pc = "act"
    /\ ~ActionsLeft(c)
    /\ healing' = [healing EXCEPT ![c] = Idle]
    /\ UNCHANGED <<clock, conditionTracker, unmetAt>>

NothingLeft(c) ==
    /\ healing[c].pc = "select"
    /\ healing[c].queue = <<>>
    /\ healing' = [healing EXCEPT ![c] = Idle]
    /\ UNCHANGED <<clock, conditionTracker, unmetAt>>

HealingStep(c) ==
    \/ ExecuteStrategy(c)  \/ ActionSucceeds(c) \/ ActionTimesOut(c)
    \/ UndoAction(c)       \/ RolledBack(c)     \/ StrategySucceeds(c)
    \/ NothingLeft(c)      \/ LateCompletion(c)

----------------------------------------------------------------------------
\* What a rolled back execution leaves behind is what went on after its own
\* timeout, never the effect of an action that had succeeded.  The next
\* strategy starts from there.
RollbackUndoesSuccesses ==
    \A c \in Callers :
        healing[c].pc = "undo" /\ healing[c].undone = 0 =>
            \A i \in DOMAIN healing[c].performed :
                healing[c].performed[i] = "success" => i \notin healing[c].applied

\* A strategy is selected only when no evaluation, of any caller, found its
\* condition unmet within the duration the condition must persist.
SelectedHasPersisted ==
    [][\A c \in Callers :
          healing[c].pc = "idle" /\ healing'[c].pc = "select" =>
              \A s \in ToSet(healing'[c].queue) :
                  clock - unmetAt[s] >= HealingStrategy[s].condition.duration]_<<clock, healingVars>>

============================================================================
