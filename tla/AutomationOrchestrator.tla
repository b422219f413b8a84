---------------------- MODULE AutomationOrchestrator ----------------------
(***************************************************************************)
(* The automation loop of the control service, with the services it        *)
(* drives: each period a timer starts a cycle that acknowledges alerts,    *)
(* heals and rolls back, as far as its mode goes.  A cycle is not awaited: *)
(* the next one may start while healing or a rollback of the last is on.   *)
(* Source: apps/control-service/src/services/automation-orchestrator.ts,   *)
(*         handlers/get-automation-status.ts                               *)
(***************************************************************************)
EXTENDS AlertAcknowledgment, HealingStrategies, RollbackAutomation

CONSTANT MaxTimers      \* bound: timers that run together

VARIABLES
    enabled,            \* config.enabled
    mode,               \* config.mode
    timers,             \* running timers: [timer -> next instant it fires]
    automationLoopInterval, \* the timer stop() would clear, or NoTimer
    cycle               \* caller -> the cycle it runs

NoTimer == 0
Modes == {"safe", "balanced", "aggressive"}

loopVars == <<enabled, mode, timers, automationLoopInterval>>
vars == <<clock, requests, alertVars, healingVars, rollbackVars, loopVars, cycle>>

NoCycle == [stage |-> "idle", mode |-> "safe", metrics |-> CHOOSE m \in Readings : TRUE]

Cycle == [stage : {"idle", "heal", "rollback"}, mode : Modes, metrics : Readings]

TypeOK ==
    /\ clock \in 0..MaxTime
    /\ AlertTypeOK /\ HealingTypeOK /\ RollbackTypeOK
    /\ enabled \in BOOLEAN /\ mode \in Modes
    /\ DOMAIN timers \subseteq 1..MaxTimers
    /\ automationLoopInterval \in 0..MaxTimers
    /\ cycle \in [Callers -> Cycle]

\* getAutomationOrchestrator: created, enabled and balanced, its loop started,
\* when a request first asks for it.
Init ==
    /\ clock = 0
    /\ AlertInit /\ HealingInit /\ RollbackInit
    /\ enabled = TRUE
    /\ mode = "balanced"
    /\ timers = [t \in {1} |-> 1]
    /\ automationLoopInterval = 1
    /\ cycle = [c \in Callers |-> NoCycle]

----------------------------------------------------------------------------
\* start(): a new timer, whether or not one is running already.
Start ==
    LET new == CHOOSE t \in 1..MaxTimers : t \notin DOMAIN timers
    IN  /\ timers' = [t \in DOMAIN timers \cup {new} |->
                         IF t = new THEN clock + 1 ELSE timers[t]]
        /\ automationLoopInterval' = new

\* stop(): clears the timer started last.
Stop ==
    /\ timers' = [t \in DOMAIN timers \ {automationLoopInterval} |-> timers[t]]
    /\ automationLoopInterval' = NoTimer

SetEnabled(value) ==
    /\ Request
    /\ value => DOMAIN timers # 1..MaxTimers
    /\ enabled' = value
    /\ IF value THEN Start ELSE Stop
    /\ UNCHANGED <<clock, mode, cycle, alertVars, healingVars, rollbackVars>>

\* A cycle in flight keeps the mode it started with.
SetMode(m) ==
    /\ Request
    /\ m # mode
    /\ mode' = m
    /\ UNCHANGED <<clock, enabled, timers, automationLoopInterval, cycle,
                   alertVars, healingVars, rollbackVars>>

\* One turn of the event loop: the acknowledgments and, unless the mode is
\* safe, the selection of healing strategies.
RunAutomationCycle(t, c, metrics) ==
    /\ t \in DOMAIN timers /\ timers[t] = clock
    /\ cycle[c].stage = "idle"
    /\ timers' = [timers EXCEPT ![t] = clock + 1]
    /\ EvaluateAlertAcknowledgments(metrics)
    /\ IF mode = "safe"
       THEN UNCHANGED <<cycle, healingVars>>
       ELSE /\ EvaluateAndHeal(c, metrics)
            /\ cycle' = [cycle EXCEPT ![c] = [stage |-> "heal", mode |-> mode, metrics |-> metrics]]
    /\ UNCHANGED <<clock, enabled, mode, automationLoopInterval, requests, rollbackVars>>

\* When healing is over, an aggressive cycle looks for a rollback, with the
\* metrics it read when it began.
RunRollback(c) ==
    /\ cycle[c].stage = "heal"
    /\ healing[c].pc = "idle"
    /\ cycle[c].mode = "aggressive"
    /\ StartRollback(c, cycle[c].metrics)
    /\ cycle' = [cycle EXCEPT ![c].stage = "rollback"]
    /\ UNCHANGED <<loopVars, requests, alertVars, healingVars>>

CycleEnds(c) ==
    /\ \/ cycle[c].stage = "heal" /\ healing[c].pc = "idle" /\ cycle[c].mode # "aggressive"
       \/ cycle[c].stage = "rollback" /\ rolling[c].pc = "idle"
    /\ cycle' = [cycle EXCEPT ![c] = NoCycle]
    /\ UNCHANGED <<clock, loopVars, requests, alertVars, healingVars, rollbackVars>>

\* Time passes when every timer that is due has fired.
Tick ==
    /\ clock < MaxTime
    /\ \A t \in DOMAIN timers : timers[t] > clock
    /\ clock' = clock + 1
    /\ UNCHANGED <<loopVars, cycle, requests, alertVars, healingVars, rollbackVars>>

----------------------------------------------------------------------------
HealingRuns(c) == HealingStep(c) /\ UNCHANGED <<loopVars, cycle, requests, alertVars, rollbackVars>>
RollbackRuns(c) == RollbackStep(c) /\ UNCHANGED <<loopVars, cycle, requests, alertVars, healingVars>>

AlertServed ==
    /\ \E a \in Alerts : RecordAlert(a) \/ ManuallyAcknowledge(a) \/ RecordAcknowledgment(a)
    /\ UNCHANGED <<loopVars, cycle, healingVars, rollbackVars>>

Next ==
    \/ \E v \in BOOLEAN : SetEnabled(v)
    \/ \E m \in Modes : SetMode(m)
    \/ \E c \in Callers :
          \/ \E t \in DOMAIN timers, m \in Readings : RunAutomationCycle(t, c, m)
          \/ RunRollback(c) \/ CycleEnds(c)
          \/ HealingRuns(c) \/ RollbackRuns(c)
    \/ AlertServed
    \/ Tick

Spec == Init /\ [][Next]_vars
============================================================================
