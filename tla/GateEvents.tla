---------------------------- MODULE GateEvents ----------------------------
(***************************************************************************)
(* The automatic approval of gates: the engine that decides by rules, the  *)
(* handlers of the events that follow, and the run's state.json they read  *)
(* and write whole.                                                        *)
(* Source: apps/control-service/src/services/auto-approval-engine.ts,      *)
(*         auto-approval-chain-handlers.ts,                                *)
(*         alert-auto-acknowledgment-handlers.ts, alert-store.ts           *)
(*                                                                         *)
(* A handler loads the run, awaits the audit trail and writes back the     *)
(* state it loaded with its own change; an execution the engine resumed    *)
(* keeps the state it loaded and saves it after every step.  Nothing locks *)
(* the file.  Events are dispatched by callers outside of the source: one  *)
(* that says a gate was approved, for a gate the engine said yes to.       *)
(***************************************************************************)
EXTENDS Integers, Sequences, FiniteSets, SequencesExt

CONSTANTS
    Gates,          \* ids of gates
    Workers,        \* bound: events, evaluations and executions in flight
    ApprovalRule,   \* id -> [gate, priority, enabled, conditions, dependencies, actions]
    Facts,          \* possible test results, coverage, quality score and age of the run
    Handlers,       \* number of custom handlers registered for each event
    MaxServed,      \* bound: events and evaluations begun
    MaxSteps        \* number of steps of the run's plan

RuleIds == DOMAIN ApprovalRule

ApprovalCondition ==
    [type : {"test_pass", "coverage_threshold", "quality_score", "timeout", "manual"},
     operator : {"equals", "greater_than", "less_than", "contains"},
     names : SUBSET STRING, value : Nat]

AutoApprovalRule ==
    [gate : Gates, priority : Nat, enabled : BOOLEAN, conditions : Seq(ApprovalCondition),
     dependencies : SUBSET Gates, actions : Seq({"approve", "log", "escalate", "notify"})]

ASSUME GateEventsAssumption ==
    /\ \A r \in RuleIds : ApprovalRule[r] \in AutoApprovalRule
    /\ Handlers \in Nat /\ MaxServed \in Nat /\ MaxSteps \in Nat

VARIABLES
    facts,      \* what the run's state says of its tests
    state,      \* state.json: the gates, the chain and the executor's step
    alerts,     \* the alert store
    acked,      \* alerts entered as acknowledged
    worker,     \* what each worker is doing
    granted,    \* history: gates the engine has approved
    lone,       \* history: gates whose event was handled while nothing else was
    served      \* events and evaluations begun

vars == <<facts, state, alerts, acked, worker, granted, lone, served>>

GateEvent ==
    [type : {"approved", "rejected"}, gate : Gates]
      \cup [type : {"completed"}, result : {"success", "partial_failure", "full_failure"}]

Alert == [source : {"gate"} \cup {"chain", "escalation", "completion"},
          of : Gates \cup {""}, severity : {"critical", "high"}]

AlertEvent ==
    [type : {"acknowledged"}, alert : Alert]
      \cup [type : {"escalated"}, alert : Alert, level : 1..2]
      \cup [type : {"completed"}, alert : Alert,
             status : {"acknowledged", "escalated", "unresolved"}]

Chain == {"none", "success", "partial_failure", "full_failure"}

State == [approvedGates : SUBSET Gates, rejectedGates : SUBSET Gates,
          chainStatus : Chain, step : 0..MaxSteps]

NewRun == [approvedGates |-> {}, rejectedGates |-> {}, chainStatus |-> "none", step |-> 0]
NoEvent == [type |-> "none"]
Idle == [pc |-> "idle", bundle |-> NewRun, alone |-> FALSE, left |-> 0,
         event |-> NoEvent, gate |-> "", rules |-> {}]

TypeOK ==
    /\ state \in State
    /\ alerts \subseteq Alert /\ acked \subseteq alerts
    /\ granted \subseteq Gates /\ lone \subseteq Gates
    /\ \A w \in Workers : worker[w].bundle \in State

Init ==
    /\ facts \in Facts
    /\ state = NewRun
    /\ alerts = {} /\ acked = {}
    /\ worker = [w \in Workers |-> Idle]
    /\ granted = {} /\ lone = {} /\ served = 0

----------------------------------------------------------------------------
\* Those that hold a copy of the state they may still write.
Writing == {w \in Workers : worker[w].pc \in {"handling", "executing"}}

Serve ==
    /\ served < MaxServed
    /\ served' = served + 1

\* A worker that loads the state to write it later is alone until another
\* one does the same.
Loads(w, doing) ==
    worker' = [v \in Workers |->
        IF v = w THEN [doing EXCEPT !.bundle = state, !.alone = Writing = {}]
        ELSE [worker[v] EXCEPT !.alone = FALSE]]

\* dispatchGateApprovedEvent and the two others: first the built-in handler.
Dispatch(w, e) ==
    /\ worker[w].pc = "idle"
    /\ e.type = "approved" => e.gate \in granted
    /\ Serve
    /\ Loads(w, [Idle EXCEPT !.pc = "handling", !.event = e])
    /\ UNCHANGED <<facts, state, alerts, acked, granted, lone>>

\* Then the custom ones.  What they throw is caught, one by one.
Dispatched(w) ==
    worker' = [worker EXCEPT ![w] = [Idle EXCEPT !.pc = "custom", !.left = Handlers]]

CustomHandler(w) ==
    /\ worker[w].pc = "custom"
    /\ IF worker[w].left = 0 THEN worker' = [worker EXCEPT ![w] = Idle]
       ELSE worker' = [worker EXCEPT ![w].left = @ - 1]
    /\ UNCHANGED <<facts, state, alerts, acked, granted, lone, served>>

\* The audit trail could not be written: the handler logs and returns, and
\* nothing of the event is recorded.
BuiltInFails(w) ==
    /\ worker[w].pc \in {"handling", "alerting"}
    /\ Dispatched(w)
    /\ UNCHANGED <<facts, state, alerts, acked, granted, lone, served>>

Lone(w, g) == lone' = IF worker[w].alone THEN lone \cup {g} ELSE lone

ApprovedMutReplaces(w) ==
    /\ worker[w].pc = "handling" /\ worker[w].event.type = "approved"
    /\ state' = [worker[w].bundle EXCEPT !.approvedGates = {worker[w].event.gate}]
    /\ Lone(w, worker[w].event.gate)
    /\ Dispatched(w)
    /\ UNCHANGED <<facts, alerts, acked, granted, served>>

GateApproved(w) ==
    /\ worker[w].pc = "handling" /\ worker[w].event.type = "approved"
    /\ LET b == worker[w].bundle
           g == worker[w].event.gate
       IN  /\ state' = IF g \in b.approvedGates THEN state
                       ELSE [b EXCEPT !.approvedGates = @ \cup {g}]
           /\ Lone(w, g)
    /\ Dispatched(w)
    /\ UNCHANGED <<facts, alerts, acked, granted, served>>

GateRejected(w) ==
    /\ worker[w].pc = "handling" /\ worker[w].event.type = "rejected"
    /\ LET b == worker[w].bundle
           g == worker[w].event.gate
       IN  /\ IF g \in b.rejectedGates THEN UNCHANGED <<state, alerts>>
              ELSE /\ state' = [b EXCEPT !.rejectedGates = @ \cup {g}]
                   /\ alerts' = alerts \cup {[source |-> "gate", of |-> g, severity |-> "high"]}
           /\ Lone(w, g)
    /\ Dispatched(w)
    /\ UNCHANGED <<facts, acked, granted, served>>

SeverityOf(result) == IF result = "full_failure" THEN "critical" ELSE "high"

ChainCompleted(w) ==
    /\ worker[w].pc = "handling" /\ worker[w].event.type = "completed"
    /\ LET result == worker[w].event.result
       IN  /\ state' = [worker[w].bundle EXCEPT !.chainStatus = result]
           /\ alerts' = IF result = "success" THEN alerts
                        ELSE alerts \cup {[source |-> "chain", of |-> "",
                                           severity |-> SeverityOf(result)]}
    /\ Dispatched(w)
    /\ UNCHANGED <<facts, acked, granted, lone, served>>

----------------------------------------------------------------------------
\* The handlers of an alert's events: each looks the alert up, writes the
\* trail and records, without reading anything it then writes back.
DispatchAlert(w, e) ==
    /\ worker[w].pc = "idle"
    /\ e.alert \in alerts
    /\ Serve
    /\ worker' = [worker EXCEPT ![w] = [Idle EXCEPT !.pc = "alerting", !.event = e]]
    /\ UNCHANGED <<facts, state, alerts, acked, granted, lone>>

AlertAcknowledged(w) ==
    /\ worker[w].pc = "alerting" /\ worker[w].event.type = "acknowledged"
    /\ acked' = acked \cup {worker[w].event.alert}
    /\ Dispatched(w)
    /\ UNCHANGED <<facts, state, alerts, granted, lone, served>>

AlertEscalated(w) ==
    /\ worker[w].pc = "alerting" /\ worker[w].event.type = "escalated"
    /\ alerts' = alerts \cup
          {[source |-> "escalation", of |-> worker[w].event.alert.of,
            severity |-> IF worker[w].event.level > 1 THEN "critical" ELSE "high"]}
    /\ Dispatched(w)
    /\ UNCHANGED <<facts, state, acked, granted, lone, served>>

\* A workflow that ends escalated leaves a summary, any other end leaves none.
AcknowledgmentCompleted(w) ==
    /\ worker[w].pc = "alerting" /\ worker[w].event.type = "completed"
    /\ alerts' = IF worker[w].event.status = "escalated"
                 THEN alerts \cup {[source |-> "completion", of |-> worker[w].event.alert.of,
                                    severity |-> "high"]}
                 ELSE alerts
    /\ Dispatched(w)
    /\ UNCHANGED <<facts, state, acked, granted, lone, served>>

----------------------------------------------------------------------------
TestPass(names) ==
    \A n \in DOMAIN facts.tests : (names = {} \/ n \in names) => facts.tests[n] = "passed"

\* Named tests must be there; without names, no tests at all will do.
TestsThere(names) == names \subseteq DOMAIN facts.tests

QualityScore(operator, value) ==
    \/ operator = "greater_than" /\ facts.quality > value
    \/ operator = "equals" /\ facts.quality = value
    \/ operator = "less_than" /\ facts.quality < value

ConditionMet(c) ==
    \/ c.type = "test_pass" /\ TestsThere(c.names) /\ TestPass(c.names)
    \/ c.type = "coverage_threshold" /\ facts.coverage >= c.value
    \/ c.type = "quality_score" /\ QualityScore(c.operator, c.value)
    \/ c.type = "timeout" /\ facts.age > c.value

ConditionsMet(r) ==
    \A i \in DOMAIN ApprovalRule[r].conditions : ConditionMet(ApprovalRule[r].conditions[i])

SomeDependency(r) ==
    \/ ApprovalRule[r].dependencies = {}
    \/ ApprovalRule[r].dependencies \cap state.approvedGates # {}

CheckDependencies(r) == ApprovalRule[r].dependencies \subseteq state.approvedGates

RulesFor(g) == {r \in RuleIds : ApprovalRule[r].gate = g /\ ApprovalRule[r].enabled}

\* They are tried by priority; which of two that share one is left open.
Foremost(rules) ==
    {r \in rules : \A q \in rules : ApprovalRule[q].priority <= ApprovalRule[r].priority}

EvaluateGate(w, g) ==
    /\ worker[w].pc = "idle"
    /\ Serve
    /\ worker' = [worker EXCEPT ![w] =
                     [Idle EXCEPT !.pc = "evaluating", !.gate = g, !.rules = RulesFor(g)]]
    /\ UNCHANGED <<facts, state, alerts, acked, granted, lone>>

Yes(r) == ConditionsMet(r) /\ CheckDependencies(r)

\* A rule says no, and the next one is tried.
RuleSaysNo(w, r) ==
    /\ worker[w].pc = "evaluating"
    /\ r \in Foremost(worker[w].rules) /\ ~Yes(r)
    /\ worker' = [worker EXCEPT ![w].rules = @ \ {r}]
    /\ UNCHANGED <<facts, state, alerts, acked, granted, lone, served>>

\* Without another rule the gate waits.
GateWaits(w) ==
    /\ worker[w].pc = "evaluating" /\ worker[w].rules = {}
    /\ worker' = [worker EXCEPT ![w] = Idle]
    /\ UNCHANGED <<facts, state, alerts, acked, granted, lone, served>>

\* A rule says yes.  Its action approves the run, not the gate: it resumes the
\* execution, which loads the state and has it until it returns.
RuleApproves(w, r) ==
    /\ worker[w].pc = "evaluating"
    /\ r \in Foremost(worker[w].rules) /\ Yes(r)
    /\ granted' = granted \cup {worker[w].gate}
    /\ IF "approve" \in ToSet(ApprovalRule[r].actions)
       THEN Loads(w, [Idle EXCEPT !.pc = "executing"])
       ELSE worker' = [worker EXCEPT ![w] = Idle]
    /\ UNCHANGED <<facts, state, alerts, acked, lone, served>>

ExecutorSaves(w) ==
    /\ worker[w].pc = "executing"
    /\ worker[w].bundle.step < MaxSteps
    /\ LET saved == [worker[w].bundle EXCEPT !.step = @ + 1]
       IN  state' = saved /\ worker' = [worker EXCEPT ![w].bundle = saved]
    /\ UNCHANGED <<facts, alerts, acked, granted, lone, served>>

\* It ends, or pauses for the next approval, or fails.
ExecutorReturns(w) ==
    /\ worker[w].pc = "executing"
    /\ worker' = [worker EXCEPT ![w] = Idle]
    /\ UNCHANGED <<facts, state, alerts, acked, granted, lone, served>>

Next ==
    \E w \in Workers :
        \/ \E e \in GateEvent : Dispatch(w, e)
        \/ \E e \in AlertEvent : DispatchAlert(w, e)
        \/ \E g \in Gates : EvaluateGate(w, g)
        \/ GateApproved(w) \/ GateRejected(w) \/ ChainCompleted(w)
        \/ AlertAcknowledged(w) \/ AlertEscalated(w) \/ AcknowledgmentCompleted(w)
        \/ BuiltInFails(w) \/ CustomHandler(w)
        \/ \E r \in RuleIds : RuleSaysNo(w, r) \/ RuleApproves(w, r)
        \/ GateWaits(w)
        \/ ExecutorSaves(w) \/ ExecutorReturns(w)

Spec == Init /\ [][Next]_vars

----------------------------------------------------------------------------
\* An event that was handled while no other handler and no execution held a
\* copy of the state is never forgotten; and whatever the state says was
\* rejected, and a chain that it says failed, has its alert, of the severity
\* that goes with it, whichever handler's copy of the state was the last.
EventsAreKept ==
    /\ lone \subseteq state.approvedGates \cup state.rejectedGates
    /\ \A g \in state.rejectedGates : [source |-> "gate", of |-> g, severity |-> "high"] \in alerts
    /\ state.chainStatus \notin {"none", "success"} =>
          [source |-> "chain", of |-> "", severity |-> SeverityOf(state.chainStatus)] \in alerts

\* The gates the engine has approved are closed under the dependencies of
\* their rules, though the approvals on file can be lost in between.
DependenciesFirst ==
    \A g \in granted :
        \E r \in RuleIds : ApprovalRule[r].gate = g /\ ApprovalRule[r].dependencies \subseteq granted

============================================================================
