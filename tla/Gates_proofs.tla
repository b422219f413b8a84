---------------------------- MODULE Gates_proofs ----------------------------
(***************************************************************************)
(* Theorems about who lets a run pass, for any rules, runs, gates, votes   *)
(* and processes: the rules of the engine and the handlers of its events   *)
(* (GateEvents), the decisions that reviewers settle (GateDecisions), the  *)
(* agents and the person they ask (Governance), and the rules themselves   *)
(* (Rules): those of consensus, of the gates, of a gate's tests, and of    *)
(* the plan and the skills of an idea.                                     *)
(***************************************************************************)
EXTENDS GateEvents, GateDecisions, Rules,
        FiniteSetTheorems, SequenceTheorems, WellFoundedInduction, TLAPS

WorkerFields == {"pc", "bundle", "alone", "left", "event", "gate", "rules"}

\* What a state s says is known: of the engine, which approved these gates, and
\* of the alert store.
StateKnown(s, given, raised) ==
    /\ s \in State
    /\ s.approvedGates \subseteq given
    /\ \A g \in s.rejectedGates : [source |-> "gate", of |-> g, severity |-> "high"] \in raised
    /\ s.chainStatus \notin {"none", "success"} =>
          [source |-> "chain", of |-> "", severity |-> SeverityOf(s.chainStatus)] \in raised

Holds(s, kept) == kept \subseteq s.approvedGates \cup s.rejectedGates

Writes(m) == m.pc \in {"handling", "executing"}

\* A worker m: the copy it may write is known and forgets no lone event, and an
\* approval it handles is one the engine gave.
WorkerKnown(m, given, raised, kept) ==
    /\ WorkerFields \subseteq DOMAIN m
    /\ StateKnown(m.bundle, given, raised)
    /\ Writes(m) => Holds(m.bundle, kept)
    /\ m.pc = "handling" /\ m.event.type = "approved" => m.event.gate \in given
    /\ m.pc = "handling" => m.event \in GateEvent
    /\ m.pc = "evaluating" => \A r \in m.rules : r \in RuleIds /\ ApprovalRule[r].gate = m.gate

\* A writer that is alone has what is on file, and nobody else writes.
AloneIsAlone ==
    \A w \in Workers : Writes(worker[w]) /\ worker[w].alone =>
        /\ worker[w].bundle = state
        /\ \A v \in Workers \ {w} : ~Writes(worker[v])

EventsInv ==
    /\ StateKnown(state, granted, alerts)
    /\ Holds(state, lone)
    /\ DOMAIN worker = Workers
    /\ \A w \in Workers : WorkerKnown(worker[w], granted, alerts, lone)
    /\ AloneIsAlone
    /\ DependenciesFirst

LEMMA NewRunKnown == ASSUME NEW given, NEW raised PROVE StateKnown(NewRun, given, raised)
<1>1. NewRun \in State
  BY GateEventsAssumption DEF NewRun, State, Chain
<1> QED
  BY <1>1 DEF StateKnown, NewRun

\* A worker that holds no copy any more.
LEMMA RestingKnown ==
    ASSUME NEW m, WorkerFields \subseteq DOMAIN m, m.bundle = NewRun, m.pc \in {"idle", "custom", "alerting"},
           NEW given, NEW raised, NEW kept
    PROVE  WorkerKnown(m, given, raised, kept) /\ ~Writes(m)
BY NewRunKnown DEF WorkerKnown, Writes

LEMMA EventsStart == Init => EventsInv
<1> SUFFICES ASSUME Init PROVE EventsInv
  OBVIOUS
<1>1. StateKnown(state, granted, alerts)
  BY NewRunKnown DEF Init
<1>2. Holds(state, lone)
  BY DEF Init, Holds
<1>3. \A w \in Workers : WorkerKnown(worker[w], granted, alerts, lone) /\ ~Writes(worker[w])
  <2>1. WorkerFields \subseteq DOMAIN Idle /\ Idle.bundle = NewRun /\ Idle.pc = "idle"
    BY DEF Idle, WorkerFields
  <2> QED
    BY <2>1, RestingKnown DEF Init
<1> QED
  BY <1>1, <1>2, <1>3 DEF Init, EventsInv, AloneIsAlone, DependenciesFirst

LEMMA KnownLater ==
    ASSUME NEW s, NEW given, NEW raised, NEW given2, NEW raised2, StateKnown(s, given, raised),
           given \subseteq given2, raised \subseteq raised2
    PROVE  StateKnown(s, given2, raised2)
BY DEF StateKnown

LEMMA WorkerLater ==
    ASSUME NEW m, NEW given, NEW raised, NEW kept, NEW given2, NEW raised2, NEW kept2,
           WorkerKnown(m, given, raised, kept), given \subseteq given2, raised \subseteq raised2,
           Writes(m) => Holds(m.bundle, kept2)
    PROVE  WorkerKnown(m, given2, raised2, kept2)
BY KnownLater DEF WorkerKnown

\* A worker stops or goes on without a copy: what it wrote is known, forgets
\* nothing of what the writers hold, and counts as lone only if it was alone.
LEMMA EventsRest ==
    ASSUME EventsInv, NEW w \in Workers, NEW m, worker' = [worker EXCEPT ![w] = m],
           WorkerKnown(m, granted, alerts, lone), ~Writes(m),
           alerts \subseteq alerts', granted \subseteq granted', DependenciesFirst',
           StateKnown(state', granted, alerts'), Holds(state', lone'),
           state' = state \/ Writes(worker[w]),
           lone' = lone \/ (Writes(worker[w]) /\ worker[w].alone)
    PROVE  EventsInv'
<1>1. ASSUME NEW v \in Workers PROVE WorkerKnown(worker'[v], granted', alerts', lone')
  <2>1. CASE v = w
    BY <2>1, WorkerLater DEF EventsInv
  <2>2. CASE v # w
    <3>1. worker'[v] = worker[v] /\ WorkerKnown(worker[v], granted, alerts, lone)
      BY <2>2 DEF EventsInv
    <3>2. Writes(worker[v]) => Holds(worker[v].bundle, lone')
      BY <2>2, <3>1 DEF EventsInv, AloneIsAlone, WorkerKnown
    <3> QED
      BY <3>1, <3>2, WorkerLater
  <2> QED
    BY <2>1, <2>2
<1>2. AloneIsAlone'
  <2> SUFFICES ASSUME NEW v \in Workers, Writes(worker'[v]), worker'[v].alone
               PROVE  /\ worker'[v].bundle = state'
                      /\ \A u \in Workers \ {v} : ~Writes(worker'[u])
    BY DEF AloneIsAlone
  <2>1. v # w /\ worker'[v] = worker[v]
    BY DEF EventsInv
  <2>2. ~Writes(worker[w])
    BY <2>1 DEF EventsInv, AloneIsAlone
  <2> QED
    BY <2>1, <2>2 DEF EventsInv, AloneIsAlone
<1>3. StateKnown(state', granted', alerts')
  BY KnownLater
<1> QED
  BY <1>1, <1>2, <1>3 DEF EventsInv

\* A worker loads the state: nobody else is alone any more.
LEMMA EventsLoad ==
    ASSUME EventsInv, NEW w \in Workers, ~Writes(worker[w]),
           NEW m, WorkerFields \subseteq DOMAIN m, Writes(m),
           m.pc = "handling" => m.event \in GateEvent,
           m.pc = "handling" /\ m.event.type = "approved" => m.event.gate \in granted,
           Loads(w, m), granted \subseteq granted', DependenciesFirst',
           UNCHANGED <<state, alerts, lone>>
    PROVE  EventsInv'
<1> DEFINE n == [m EXCEPT !.bundle = state, !.alone = Writing = {}]
<1>1. /\ DOMAIN worker' = Workers /\ worker'[w] = n
      /\ \A v \in Workers \ {w} : worker'[v] = [worker[v] EXCEPT !.alone = FALSE]
  BY DEF Loads
<1>2. WorkerFields \subseteq DOMAIN n /\ n.bundle = state
  BY DEF WorkerFields
<1>3. n.pc = m.pc /\ n.event = m.event
  BY DEF WorkerFields
<1>4. n.alone => Writing = {}
  <2> DEFINE nobody == Writing = {}
  <2>1. n.alone = nobody
    BY DEF WorkerFields
  <2> QED
    BY <2>1
<1> HIDE DEF n
<1>5. WorkerKnown(n, granted', alerts', lone')
  <2>1. StateKnown(state, granted', alerts')
    BY KnownLater DEF EventsInv
  <2> QED
    BY <1>2, <1>3, <2>1 DEF WorkerKnown, EventsInv, Writes
<1>6. ASSUME NEW v \in Workers \ {w}
      PROVE  /\ WorkerKnown(worker'[v], granted', alerts', lone')
             /\ ~worker'[v].alone
             /\ Writes(worker'[v]) = Writes(worker[v])
  <2> DEFINE o == worker[v]
             q == [o EXCEPT !.alone = FALSE]
  <2>1. WorkerKnown(o, granted, alerts, lone)
    BY DEF EventsInv
  <2>2. WorkerFields \subseteq DOMAIN o
    BY <2>1 DEF WorkerKnown
  <2>3. WorkerFields \subseteq DOMAIN q /\ q.pc = o.pc /\ q.bundle = o.bundle
    BY <2>2 DEF WorkerFields
  <2>4. q.event = o.event /\ q.gate = o.gate /\ q.rules = o.rules
    BY <2>2 DEF WorkerFields
  <2>5. ~q.alone
    BY <2>2 DEF WorkerFields
  <2>6. worker'[v] = q
    BY <1>1
  <2> HIDE DEF q, o
  <2>7. WorkerKnown(o, granted', alerts', lone')
    BY <2>1, WorkerLater DEF WorkerKnown
  <2> QED
    BY <2>3, <2>4, <2>5, <2>6, <2>7 DEF WorkerKnown, Writes, o
<1>7. AloneIsAlone'
  <2> SUFFICES ASSUME NEW v \in Workers, Writes(worker'[v]), worker'[v].alone
               PROVE  /\ worker'[v].bundle = state'
                      /\ \A u \in Workers \ {v} : ~Writes(worker'[u])
    BY DEF AloneIsAlone
  <2>1. v = w /\ Writing = {}
    BY <1>1, <1>4, <1>6
  <2> QED
    BY <1>1, <1>2, <1>6, <2>1 DEF Writing, Writes
<1>8. \A v \in Workers : WorkerKnown(worker'[v], granted', alerts', lone')
  BY <1>1, <1>5, <1>6
<1>9. StateKnown(state', granted', alerts')
  BY KnownLater DEF EventsInv
<1> QED
  BY <1>1, <1>7, <1>8, <1>9 DEF EventsInv

\* A worker goes on with another counter or fewer rules.
LEMMA SameWorker ==
    ASSUME NEW o, NEW q, NEW given, NEW raised, NEW kept, WorkerKnown(o, given, raised, kept),
           WorkerFields \subseteq DOMAIN q, q.pc = o.pc, q.bundle = o.bundle, q.event = o.event,
           q.gate = o.gate, q.rules \subseteq o.rules
    PROVE  WorkerKnown(q, given, raised, kept)
BY DEF WorkerKnown, Writes

LEMMA EventsStep == EventsInv /\ [Next]_vars => EventsInv'
<1> SUFFICES ASSUME EventsInv, [Next]_vars PROVE EventsInv'
  OBVIOUS
<1>1. /\ DOMAIN worker = Workers /\ StateKnown(state, granted, alerts) /\ Holds(state, lone)
      /\ \A w \in Workers : WorkerKnown(worker[w], granted, alerts, lone)
      /\ DependenciesFirst
  BY DEF EventsInv
<1>2. ASSUME UNCHANGED granted PROVE DependenciesFirst'
  BY <1>1, <1>2 DEF DependenciesFirst
<1>idle. /\ WorkerFields \subseteq DOMAIN Idle
         /\ Idle.bundle = NewRun /\ Idle.pc = "idle"
  BY DEF Idle, WorkerFields
\* Nothing but the worker changes, and it holds no copy.
<1>rest. ASSUME NEW w \in Workers, NEW m, worker' = [worker EXCEPT ![w] = m],
                WorkerKnown(m, granted, alerts, lone), ~Writes(m),
                alerts \subseteq alerts', UNCHANGED <<state, granted, lone>>
         PROVE  EventsInv'
  <2>1. StateKnown(state', granted, alerts')
    BY <1>1, <1>rest, KnownLater
  <2> QED
    BY <1>1, <1>2, <1>rest, <2>1, EventsRest
<1>custom. /\ WorkerKnown([Idle EXCEPT !.pc = "custom", !.left = Handlers], granted, alerts, lone)
           /\ ~Writes([Idle EXCEPT !.pc = "custom", !.left = Handlers])
  <2> DEFINE m == [Idle EXCEPT !.pc = "custom", !.left = Handlers]
  <2>1. WorkerFields \subseteq DOMAIN m /\ m.pc = "custom" /\ m.bundle = NewRun
    BY <1>idle DEF Idle, WorkerFields
  <2> HIDE DEF m
  <2> QED
    BY <2>1, RestingKnown DEF m
<1>3. ASSUME NEW w \in Workers, NEW e \in GateEvent, Dispatch(w, e) PROVE EventsInv'
  <2> DEFINE m == [Idle EXCEPT !.pc = "handling", !.event = e]
  <2>1. WorkerFields \subseteq DOMAIN m /\ m.pc = "handling" /\ m.event = e
    BY <1>idle DEF WorkerFields
  <2>2. /\ worker[w].pc = "idle" /\ (e.type = "approved" => e.gate \in granted)
        /\ Loads(w, m) /\ UNCHANGED <<state, alerts, lone, granted>>
    BY <1>3 DEF Dispatch
  <2> HIDE DEF m
  <2> QED
    BY <1>2, <2>1, <2>2, EventsLoad DEF Writes
<1>4. ASSUME NEW w \in Workers, CustomHandler(w) PROVE EventsInv'
  <2> DEFINE o == worker[w]
             q == [o EXCEPT !.left = @ - 1]
  <2>1. /\ o.pc = "custom" /\ UNCHANGED <<state, granted, lone, alerts>>
        /\ worker' = [worker EXCEPT ![w] = IF o.left = 0 THEN Idle ELSE q]
    BY <1>4 DEF CustomHandler
  <2>2. WorkerFields \subseteq DOMAIN o
    BY <1>1 DEF WorkerKnown
  <2>3. WorkerFields \subseteq DOMAIN q /\ q.pc = o.pc /\ q.bundle = o.bundle
    BY <2>2 DEF WorkerFields
  <2>4. q.event = o.event /\ q.gate = o.gate /\ q.rules = o.rules
    BY <2>2 DEF WorkerFields
  <2> HIDE DEF q
  <2>5. WorkerKnown(q, granted, alerts, lone) /\ ~Writes(q)
    BY <1>1, <2>1, <2>3, <2>4, SameWorker DEF Writes
  <2>6. WorkerKnown(Idle, granted, alerts, lone) /\ ~Writes(Idle)
    BY <1>idle, RestingKnown
  <2> QED
    BY <1>rest, <2>1, <2>5, <2>6
<1>5. ASSUME NEW w \in Workers, BuiltInFails(w) PROVE EventsInv'
  BY <1>5, <1>rest, <1>custom DEF BuiltInFails, Dispatched
\* A handler of a gate event or a chain writes the state it loaded.
<1>handled. ASSUME NEW w \in Workers, worker[w].pc = "handling"
            PROVE  /\ worker[w].event \in GateEvent
                   /\ StateKnown(worker[w].bundle, granted, alerts)
                   /\ Holds(worker[w].bundle, lone)
                   /\ worker[w].event.type = "approved" => worker[w].event.gate \in granted
                   /\ worker[w].alone => worker[w].bundle = state
  <2>1. WorkerKnown(worker[w], granted, alerts, lone)
    BY <1>1
  <2> QED
    BY <1>handled, <2>1 DEF WorkerKnown, Writes, EventsInv, AloneIsAlone
<1>6. ASSUME NEW w \in Workers, GateApproved(w) PROVE EventsInv'
  <2> DEFINE b == worker[w].bundle
             g == worker[w].event.gate
             c == [b EXCEPT !.approvedGates = @ \cup {g}]
  <2>1. /\ worker[w].pc = "handling" /\ worker[w].event.type = "approved" /\ Dispatched(w)
        /\ state' = (IF g \in b.approvedGates THEN state ELSE c)
        /\ lone' = IF worker[w].alone THEN lone \cup {g} ELSE lone
        /\ UNCHANGED <<alerts, granted>>
    BY <1>6 DEF GateApproved, Lone
  <2>2. /\ StateKnown(b, granted, alerts) /\ Holds(b, lone) /\ g \in granted /\ g \in Gates
        /\ worker[w].alone => b = state
    BY <1>handled, <2>1 DEF GateEvent
  <2>3. /\ c \in State /\ c.approvedGates = b.approvedGates \cup {g}
        /\ c.rejectedGates = b.rejectedGates /\ c.chainStatus = b.chainStatus
    BY <2>2 DEF StateKnown, State
  <2> HIDE DEF c, b, g
  <2>4. StateKnown(c, granted, alerts) /\ Holds(c, lone \cup {g})
    BY <2>2, <2>3 DEF StateKnown, Holds
  <2>5. StateKnown(state', granted, alerts')
    BY <1>1, <2>1, <2>4
  <2>6. Holds(state', lone')
    BY <1>1, <2>1, <2>2, <2>4 DEF Holds
  <2> QED
    BY <1>2, <1>custom, <2>1, <2>5, <2>6, EventsRest DEF Dispatched, Writes
<1>7. ASSUME NEW w \in Workers, GateRejected(w) PROVE EventsInv'
  <2> DEFINE b == worker[w].bundle
             g == worker[w].event.gate
             c == [b EXCEPT !.rejectedGates = @ \cup {g}]
             alert == [source |-> "gate", of |-> g, severity |-> "high"]
  <2>1. /\ worker[w].pc = "handling" /\ worker[w].event.type = "rejected" /\ Dispatched(w)
        /\ IF g \in b.rejectedGates THEN UNCHANGED <<state, alerts>>
           ELSE state' = c /\ alerts' = alerts \cup {alert}
        /\ lone' = IF worker[w].alone THEN lone \cup {g} ELSE lone
        /\ UNCHANGED granted
    BY <1>7 DEF GateRejected, Lone
  <2>2. /\ StateKnown(b, granted, alerts) /\ Holds(b, lone) /\ g \in Gates
        /\ worker[w].alone => b = state
    BY <1>handled, <2>1 DEF GateEvent
  <2>3. /\ c \in State /\ c.rejectedGates = b.rejectedGates \cup {g}
        /\ c.approvedGates = b.approvedGates /\ c.chainStatus = b.chainStatus
    BY <2>2 DEF StateKnown, State
  <2> HIDE DEF c, b, g
  <2>4. StateKnown(c, granted, alerts \cup {alert}) /\ Holds(c, lone \cup {g})
    BY <2>2, <2>3 DEF StateKnown, Holds
  <2>5. StateKnown(state', granted, alerts') /\ alerts \subseteq alerts'
    BY <1>1, <2>1, <2>4
  <2>6. Holds(state', lone')
    BY <1>1, <2>1, <2>2, <2>4 DEF Holds
  <2> QED
    BY <1>2, <1>custom, <2>1, <2>5, <2>6, EventsRest DEF Dispatched, Writes
<1>8. ASSUME NEW w \in Workers, ChainCompleted(w) PROVE EventsInv'
  <2> DEFINE b == worker[w].bundle
             result == worker[w].event.result
             c == [b EXCEPT !.chainStatus = result]
             alert == [source |-> "chain", of |-> "", severity |-> SeverityOf(result)]
  <2>1. /\ worker[w].pc = "handling" /\ worker[w].event.type = "completed" /\ Dispatched(w)
        /\ state' = c /\ alerts' = (IF result = "success" THEN alerts ELSE alerts \cup {alert})
        /\ UNCHANGED <<granted, lone>>
    BY <1>8 DEF ChainCompleted
  <2>2. /\ StateKnown(b, granted, alerts) /\ Holds(b, lone)
        /\ result \in {"success", "partial_failure", "full_failure"}
    BY <1>handled, <2>1 DEF GateEvent
  <2>3. /\ c \in State /\ c.rejectedGates = b.rejectedGates
        /\ c.approvedGates = b.approvedGates /\ c.chainStatus = result
    BY <2>2 DEF StateKnown, State, Chain
  <2> HIDE DEF c, b, result
  <2>4. StateKnown(c, granted, alerts') /\ Holds(c, lone)
    BY <2>1, <2>2, <2>3 DEF StateKnown, Holds
  <2>5. alerts \subseteq alerts'
    BY <2>1
  <2> QED
    BY <1>2, <1>custom, <2>1, <2>4, <2>5, EventsRest DEF Dispatched, Writes
<1>9. ASSUME NEW w \in Workers, NEW e, DispatchAlert(w, e) PROVE EventsInv'
  <2> DEFINE m == [Idle EXCEPT !.pc = "alerting", !.event = e]
  <2>1. WorkerFields \subseteq DOMAIN m /\ m.pc = "alerting" /\ m.bundle = NewRun
    BY <1>idle DEF Idle, WorkerFields
  <2>2. worker' = [worker EXCEPT ![w] = m] /\ UNCHANGED <<state, alerts, granted, lone>>
    BY <1>9 DEF DispatchAlert
  <2> HIDE DEF m
  <2> QED
    BY <1>rest, <2>1, <2>2, RestingKnown
<1>10. ASSUME NEW w \in Workers, AlertAcknowledged(w) \/ AlertEscalated(w) \/ AcknowledgmentCompleted(w)
       PROVE  EventsInv'
  <2>1. Dispatched(w) /\ UNCHANGED <<state, granted, lone>> /\ alerts \subseteq alerts'
    BY <1>10 DEF AlertAcknowledged, AlertEscalated, AcknowledgmentCompleted
  <2> QED
    BY <1>rest, <1>custom, <2>1 DEF Dispatched
<1>11. ASSUME NEW w \in Workers, NEW g \in Gates, EvaluateGate(w, g) PROVE EventsInv'
  <2> DEFINE m == [Idle EXCEPT !.pc = "evaluating", !.gate = g, !.rules = RulesFor(g)]
  <2>1. WorkerFields \subseteq DOMAIN m /\ m.pc = "evaluating" /\ m.bundle = NewRun
    BY <1>idle DEF Idle, WorkerFields
  <2>2. m.gate = g
    BY <1>idle DEF Idle, WorkerFields
  <2>3. m.rules = RulesFor(g)
    BY <1>idle DEF Idle, WorkerFields
  <2>4. worker' = [worker EXCEPT ![w] = m] /\ UNCHANGED <<state, alerts, granted, lone>>
    BY <1>11 DEF EvaluateGate
  <2> HIDE DEF m
  <2>5. WorkerKnown(m, granted, alerts, lone) /\ ~Writes(m)
    BY <2>1, <2>2, <2>3, NewRunKnown DEF WorkerKnown, Writes, RulesFor
  <2> QED
    BY <1>rest, <2>4, <2>5
<1>12. ASSUME NEW w \in Workers, NEW r \in RuleIds, RuleSaysNo(w, r) PROVE EventsInv'
  <2> DEFINE o == worker[w]
             q == [o EXCEPT !.rules = @ \ {r}]
  <2>1. /\ o.pc = "evaluating" /\ UNCHANGED <<state, granted, lone, alerts>>
        /\ worker' = [worker EXCEPT ![w] = q]
    BY <1>12 DEF RuleSaysNo
  <2>2. WorkerFields \subseteq DOMAIN o
    BY <1>1 DEF WorkerKnown
  <2>3. WorkerFields \subseteq DOMAIN q /\ q.pc = o.pc /\ q.bundle = o.bundle
    BY <2>2 DEF WorkerFields
  <2>4. q.event = o.event /\ q.gate = o.gate /\ q.rules \subseteq o.rules
    BY <2>2 DEF WorkerFields
  <2> HIDE DEF q
  <2>5. WorkerKnown(q, granted, alerts, lone) /\ ~Writes(q)
    BY <1>1, <2>1, <2>3, <2>4, SameWorker DEF Writes
  <2> QED
    BY <1>rest, <2>1, <2>5
<1>13. ASSUME NEW w \in Workers, GateWaits(w) \/ ExecutorReturns(w) PROVE EventsInv'
  <2>1. worker' = [worker EXCEPT ![w] = Idle] /\ UNCHANGED <<state, alerts, granted, lone>>
    BY <1>13 DEF GateWaits, ExecutorReturns
  <2> QED
    BY <1>rest, <1>idle, <2>1, RestingKnown
<1>14. ASSUME NEW w \in Workers, NEW r \in RuleIds, RuleApproves(w, r) PROVE EventsInv'
  <2> DEFINE g == worker[w].gate
             m == [Idle EXCEPT !.pc = "executing"]
  <2>1. /\ worker[w].pc = "evaluating" /\ r \in worker[w].rules /\ CheckDependencies(r)
        /\ granted' = granted \cup {g} /\ UNCHANGED <<state, alerts, lone>>
        /\ Loads(w, m) \/ worker' = [worker EXCEPT ![w] = Idle]
    BY <1>14 DEF RuleApproves, Foremost, Yes
  <2>2. ApprovalRule[r].gate = g
    BY <1>1, <2>1 DEF WorkerKnown
  <2>3. ApprovalRule[r].dependencies \subseteq granted
    BY <1>1, <2>1 DEF CheckDependencies, StateKnown
  <2>4. DependenciesFirst'
    <3> SUFFICES ASSUME NEW h \in granted'
                 PROVE  \E q \in RuleIds : /\ ApprovalRule[q].gate = h
                                           /\ ApprovalRule[q].dependencies \subseteq granted'
      BY DEF DependenciesFirst
    <3>1. CASE h = g
      BY <2>1, <2>2, <2>3, <3>1
    <3>2. CASE h # g
      <4>1. h \in granted
        BY <2>1, <3>2
      <4>2. PICK q \in RuleIds : ApprovalRule[q].gate = h /\ ApprovalRule[q].dependencies \subseteq granted
        BY <1>1, <4>1 DEF DependenciesFirst
      <4> QED
        BY <2>1, <4>2
    <3> QED
      BY <3>1, <3>2
  <2>5. CASE Loads(w, m)
    <3>1. WorkerFields \subseteq DOMAIN m /\ m.pc = "executing"
      BY <1>idle DEF WorkerFields
    <3> HIDE DEF m
    <3> QED
      BY <2>1, <2>4, <2>5, <3>1, EventsLoad DEF Writes
  <2>6. CASE worker' = [worker EXCEPT ![w] = Idle]
    <3>1. WorkerKnown(Idle, granted, alerts, lone) /\ ~Writes(Idle)
      BY <1>idle, RestingKnown
    <3> QED
      BY <1>1, <2>1, <2>4, <2>6, <3>1, EventsRest
  <2> QED
    BY <2>1, <2>5, <2>6
<1>15. ASSUME NEW w \in Workers, ExecutorSaves(w) PROVE EventsInv'
  <2> DEFINE o == worker[w]
             b == o.bundle
             c == [b EXCEPT !.step = @ + 1]
             q == [o EXCEPT !.bundle = c]
  <2>1. /\ o.pc = "executing" /\ b.step < MaxSteps /\ state' = c
        /\ worker' = [worker EXCEPT ![w] = q] /\ UNCHANGED <<alerts, granted, lone>>
    BY <1>15 DEF ExecutorSaves
  <2>2. WorkerKnown(o, granted, alerts, lone) /\ WorkerFields \subseteq DOMAIN o
    BY <1>1 DEF WorkerKnown
  <2>3. b \in State
    BY <2>2 DEF WorkerKnown, StateKnown
  <2>4. b.step + 1 \in 0..MaxSteps
    BY <2>1, <2>3, GateEventsAssumption DEF State
  <2>5. /\ c \in State /\ c.rejectedGates = b.rejectedGates
        /\ c.approvedGates = b.approvedGates /\ c.chainStatus = b.chainStatus
    BY <2>3, <2>4 DEF State
  <2>6. WorkerFields \subseteq DOMAIN q /\ q.bundle = c /\ q.pc = "executing"
    BY <2>1, <2>2 DEF WorkerFields
  <2> HIDE DEF c, q
  <2>7. StateKnown(c, granted, alerts) /\ Holds(c, lone)
    BY <2>1, <2>2, <2>5 DEF StateKnown, Holds, WorkerKnown, Writes
  <2>8. WorkerKnown(q, granted, alerts, lone)
    BY <2>6, <2>7 DEF WorkerKnown
  <2>9. \A v \in Workers : WorkerKnown(worker'[v], granted', alerts', lone')
    BY <1>1, <2>1, <2>8
  <2>10. AloneIsAlone'
    <3> SUFFICES ASSUME NEW v \in Workers, Writes(worker'[v]), worker'[v].alone
                 PROVE  /\ worker'[v].bundle = state'
                        /\ \A u \in Workers \ {v} : ~Writes(worker'[u])
      BY DEF AloneIsAlone
    <3>1. Writes(worker[w])
      BY <2>1 DEF Writes
    <3>2. CASE v # w
      BY <1>1, <2>1, <3>1, <3>2 DEF EventsInv, AloneIsAlone
    <3>3. CASE v = w
      <4>1. worker'[w] = q
        BY <1>1, <2>1
      <4>2. q.alone = o.alone
        BY <2>2 DEF q, WorkerFields
      <4> QED
        BY <1>1, <2>1, <2>6, <3>1, <3>3, <4>1, <4>2 DEF EventsInv, AloneIsAlone
    <3> QED
      BY <3>2, <3>3
  <2> QED
    BY <1>1, <1>2, <2>1, <2>7, <2>9, <2>10 DEF EventsInv
<1>16. CASE UNCHANGED vars
  BY <1>16 DEF vars, EventsInv, AloneIsAlone, DependenciesFirst
<1> QED
  BY <1>3, <1>4, <1>5, <1>6, <1>7, <1>8, <1>9, <1>10, <1>11, <1>12, <1>13, <1>14, <1>15, <1>16 DEF Next

\* EventsAreKept, for any gates, rules, workers and facts: the handlers of
\* auto-approval-chain-handlers.ts forget no event that was handled while no
\* other copy of the state was about, and leave no rejection and no failed
\* chain on file without its alert.
THEOREM EventsStayKept == Spec => []EventsAreKept
<1>1. EventsInv => EventsAreKept
  BY DEF EventsInv, EventsAreKept, StateKnown, Holds
<1> QED
  BY <1>1, EventsStart, EventsStep, PTL DEF Spec

\* DependenciesFirst, for the same: auto-approval-engine.ts approves a gate
\* only once it has approved all that some rule of the gate depends on.
THEOREM DependenciesComeFirst == Spec => []DependenciesFirst
<1>1. EventsInv => DependenciesFirst
  BY DEF EventsInv
<1> QED
  BY <1>1, EventsStart, EventsStep, PTL DEF Spec

----------------------------------------------------------------------------
Names == ToSet(GateNames)

\* A set of positions that is not empty has a last one.
LEMMA LastPosition ==
    ASSUME NEW n \in Nat, NEW S, S \subseteq 1 .. n, S # {}
    PROVE  \E i \in S : \A j \in S : j <= i
<1> DEFINE T == {n - i : i \in S}
           less == OpToRel(<, Nat)
<1>1. T \subseteq Nat /\ T # {}
  <2>1. \A i \in S : n - i \in Nat
    OBVIOUS
  <2> QED
    BY <2>1
<1>2. PICK x \in T : \A y \in T : <<y, x>> \notin less
  <2> HIDE DEF T, less
  <2>1. IsWellFoundedOn(less, Nat)
    BY NatLessThanWellFounded DEF less
  <2> QED
    BY <1>1, <2>1, WFMin
<1>3. \A y \in T : ~(y < x)
  BY <1>1, <1>2 DEF OpToRel
<1>4. PICK i \in S : x = n - i
  OBVIOUS
<1>5. \A j \in S : ~(n - j < x)
  BY <1>3
<1> QED
  BY <1>4, <1>5

\* In the table t, row d is the newest on the gate g of run r.
Newest(t, g, r, d) ==
    /\ d \in DOMAIN t /\ t[d].gate = g /\ t[d].run = r
    /\ \A j \in DOMAIN t : t[j].gate = g /\ t[j].run = r => j <= d

LEMMA NewestIsDecision ==
    ASSUME NEW S, gates \in Seq(S), NEW g, NEW r
    PROVE  /\ \A d : Newest(gates, g, r, d) => GateDecision(g, r) = d
           /\ GateDecision(g, r) # 0 => Newest(gates, g, r, GateDecision(g, r))
<1> DEFINE of == {i \in DOMAIN gates : gates[i].gate = g /\ gates[i].run = r}
<1>1. GateDecision(g, r) = IF of = {} THEN 0 ELSE CHOOSE i \in of : \A j \in of : j <= i
  BY DEF GateDecision
<1>2. Len(gates) \in Nat /\ of \subseteq 1 .. Len(gates)
  OBVIOUS
<1>3. ASSUME NEW d, Newest(gates, g, r, d) PROVE GateDecision(g, r) = d
  <2>1. d \in of /\ \A j \in of : j <= d
    BY <1>3 DEF Newest
  <2> HIDE DEF of
  <2>2. \A e \in of : (\A j \in of : j <= e) => e = d
    BY <1>2, <2>1
  <2> QED
    BY <1>1, <2>1, <2>2
<1>4. ASSUME GateDecision(g, r) # 0 PROVE Newest(gates, g, r, GateDecision(g, r))
  <2>1. of # {}
    BY <1>1, <1>4
  <2>2. \E i \in of : \A j \in of : j <= i
    <3> HIDE DEF of
    <3> QED
      BY <1>2, <2>1, LastPosition
  <2>3. GateDecision(g, r) \in of /\ \A j \in of : j <= GateDecision(g, r)
    <3> HIDE DEF of
    <3> QED
      BY <1>1, <2>1, <2>2
  <2> QED
    BY <2>3 DEF Newest
<1> QED
  BY <1>3, <1>4

\* What the review m of a gate has found or done, in the table t, unless
\* another review or decision on the gate came after it.
ReviewStands(m, t) ==
    /\ {"pc", "run", "gate", "disturbed"} \subseteq DOMAIN m
    /\ m.pc \in {"checked", "rejected"} /\ ~m.disturbed =>
          \E d \in DOMAIN t :
             /\ Newest(t, m.gate, m.run, d)
             /\ t[d].status = IF m.pc = "checked" THEN "needs-review" ELSE "blocked"

EvaluationFits(e) ==
    /\ {"pc", "left", "last"} \subseteq DOMAIN e
    /\ e.left \in Seq(Names)
    /\ e.pc = "record" => e.left # <<>>

DecisionsInv ==
    /\ gates \in Seq(Decision)
    /\ DOMAIN evaluation = Runs /\ \A r \in Runs : EvaluationFits(evaluation[r])
    /\ DOMAIN review = Reviewers /\ \A v \in Reviewers : ReviewStands(review[v], gates)

LEMMA DecisionsStart == DecisionsInit => DecisionsInv
<1> SUFFICES ASSUME DecisionsInit PROVE DecisionsInv
  OBVIOUS
<1>1. \A r \in Runs : EvaluationFits(evaluation[r])
  <2>1. {"pc", "left", "last"} \subseteq DOMAIN NoEvaluation /\ NoEvaluation.pc = "idle"
    BY DEF NoEvaluation
  <2>2. NoEvaluation.left = << >>
    BY DEF NoEvaluation
  <2>3. << >> \in Seq(Names)
    OBVIOUS
  <2> QED
    BY <2>1, <2>2, <2>3 DEF DecisionsInit, EvaluationFits
<1>2. \A v \in Reviewers : ReviewStands(review[v], gates)
  BY DEF DecisionsInit, ReviewStands, NoReview
<1> QED
  BY <1>1, <1>2 DEF DecisionsInit, DecisionsInv

LEMMA SequenceFits == \A mode : GateSequence(mode) \in Seq(Names)
<1> SUFFICES ASSUME NEW mode PROVE GateSequence(mode) \in Seq(Names)
  OBVIOUS
<1>1. GateNames \in Seq(Names) /\ RiskGate \in Names /\ OptionalGate \in Names
  BY GateDecisionsAssumption DEF Names
<1> DEFINE k == CHOOSE i \in DOMAIN GateNames : GateNames[i] = OptionalGate
<1>2. k \in 1 .. Len(GateNames)
  <2>1. \E i \in DOMAIN GateNames : GateNames[i] = OptionalGate
    BY <1>1 DEF Names, ToSet
  <2>2. k \in DOMAIN GateNames
    BY <2>1
  <2> HIDE DEF k
  <2> QED
    BY <1>1, <2>2
<1>3. RemoveAt(GateNames, k) \in Seq(Names)
  <2> HIDE DEF k
  <2>1. SubSeq(GateNames, 1, k - 1) \in Seq(Names)
    BY <1>1, <1>2
  <2>2. SubSeq(GateNames, k + 1, Len(GateNames)) \in Seq(Names)
    BY <1>1, <1>2
  <2> QED
    BY <2>1, <2>2 DEF RemoveAt
<1>4. << RiskGate >> \in Seq(Names) /\ << >> \in Seq(Names)
  BY <1>1
<1>5. GateSequence(mode) \in {<< RiskGate >>, << >>, RemoveAt(GateNames, k), GateNames}
  BY DEF GateSequence
<1> QED
  BY <1>1, <1>3, <1>4, <1>5

\* What a review has found stays, when the newest rows of its gate do.
LEMMA StandsWithNewest ==
    ASSUME NEW m, NEW t, NEW u, ReviewStands(m, t),
           m.pc \in {"checked", "rejected"} /\ ~m.disturbed =>
              \A d \in DOMAIN t : Newest(t, m.gate, m.run, d) =>
                 d \in DOMAIN u /\ Newest(u, m.gate, m.run, d) /\ u[d].status = t[d].status
    PROVE  ReviewStands(m, u)
BY DEF ReviewStands

\* One evaluation goes on and the rest stays.
LEMMA EvaluationGoesOn ==
    ASSUME DecisionsInv, NEW r \in Runs, NEW e, evaluation' = [evaluation EXCEPT ![r] = e],
           EvaluationFits(e), UNCHANGED <<gates, review>>
    PROVE  DecisionsInv'
BY DEF DecisionsInv

\* What settling a gate does to the rows.
LEMMA SettledRows ==
    ASSUME gates \in Seq(Decision), NEW g, NEW status \in Status, Settled(g, status)
    PROVE  /\ gates' \in Seq(Decision) /\ DOMAIN gates' = DOMAIN gates
           /\ \A i \in DOMAIN gates :
                 /\ gates'[i].gate = gates[i].gate /\ gates'[i].run = gates[i].run
                 /\ gates[i].gate # g => gates'[i] = gates[i]
                 /\ gates[i].gate = g /\ gates[i].status = "needs-review" =>
                       gates'[i].status = status
<1> DEFINE row(i) == IF gates[i].gate = g /\ gates[i].status = "needs-review"
                     THEN [gates[i] EXCEPT !.status = status] ELSE gates[i]
<1>1. gates' = [i \in DOMAIN gates |-> row(i)]
  BY DEF Settled
<1>2. ASSUME NEW i \in DOMAIN gates
      PROVE  /\ row(i) \in Decision
             /\ row(i).gate = gates[i].gate /\ row(i).run = gates[i].run
             /\ gates[i].gate # g => row(i) = gates[i]
             /\ gates[i].gate = g /\ gates[i].status = "needs-review" => row(i).status = status
  <2>1. gates[i] \in Decision
    OBVIOUS
  <2>2. /\ [gates[i] EXCEPT !.status = status] \in Decision
        /\ [gates[i] EXCEPT !.status = status].gate = gates[i].gate
        /\ [gates[i] EXCEPT !.status = status].run = gates[i].run
        /\ [gates[i] EXCEPT !.status = status].status = status
    BY <2>1 DEF Decision
  <2> QED
    BY <2>1, <2>2
<1> HIDE DEF row
<1>3. DOMAIN gates = 1 .. Len(gates) /\ Len(gates) \in Nat
  OBVIOUS
<1>4. gates' \in Seq(Decision)
  <2>1. gates' \in [1 .. Len(gates) -> Decision]
    BY <1>1, <1>2, <1>3
  <2> QED
    BY <1>3, <2>1
<1> QED
  BY <1>1, <1>2, <1>4

\* Settling a gate disturbs the reviews of it and leaves the others.
LEMMA SettledElsewhere ==
    ASSUME gates \in Seq(Decision), NEW g, NEW status \in Status, Settled(g, status),
           NEW m, ReviewStands(m, gates), m.gate # g
    PROVE  ReviewStands(m, gates')
<1>1. ASSUME NEW d \in DOMAIN gates, Newest(gates, m.gate, m.run, d)
      PROVE  d \in DOMAIN gates' /\ Newest(gates', m.gate, m.run, d) /\ gates'[d].status = gates[d].status
  BY <1>1, SettledRows DEF Newest
<1> QED
  BY <1>1, StandsWithNewest

\* A review that is disturbed, or is not under way, stands for nothing.
LEMMA StandsForNothing ==
    ASSUME NEW m, {"pc", "run", "gate", "disturbed"} \subseteq DOMAIN m,
           m.pc \notin {"checked", "rejected"} \/ m.disturbed, NEW t
    PROVE  ReviewStands(m, t)
BY DEF ReviewStands

\* Marking a review as disturbed, or as before.
LEMMA MarkedReview ==
    ASSUME NEW m, NEW t, ReviewStands(m, t), NEW b \in BOOLEAN
    PROVE  LET n == [m EXCEPT !.disturbed = m.disturbed \/ b]
           IN  /\ {"pc", "run", "gate", "disturbed"} \subseteq DOMAIN n
               /\ n.pc = m.pc /\ n.run = m.run /\ n.gate = m.gate
               /\ n.disturbed <=> m.disturbed \/ b
               /\ ReviewStands(n, t)
<1> DEFINE n == [m EXCEPT !.disturbed = m.disturbed \/ b]
<1>1. {"pc", "run", "gate", "disturbed"} \subseteq DOMAIN m
  BY DEF ReviewStands
<1>2. {"pc", "run", "gate", "disturbed"} \subseteq DOMAIN n /\ n.pc = m.pc /\ n.run = m.run /\ n.gate = m.gate
  BY <1>1
<1>3. n.disturbed <=> m.disturbed \/ b
  <2> DEFINE x == m.disturbed \/ b
  <2>1. n.disturbed = x
    BY <1>1
  <2> QED
    BY <2>1
<1> HIDE DEF n
<1>4. ReviewStands(n, t)
  BY <1>2, <1>3 DEF ReviewStands
<1> QED
  BY <1>2, <1>3, <1>4 DEF n

LEMMA DecisionsStep == DecisionsInv /\ [DecisionsNext]_decisionVars => DecisionsInv'
<1> SUFFICES ASSUME DecisionsInv, [DecisionsNext]_decisionVars PROVE DecisionsInv'
  OBVIOUS
<1>0. /\ gates \in Seq(Decision)
      /\ DOMAIN evaluation = Runs /\ DOMAIN review = Reviewers
      /\ \A r \in Runs : EvaluationFits(evaluation[r])
      /\ \A v \in Reviewers : ReviewStands(review[v], gates)
  BY DEF DecisionsInv
<1> DEFINE Keys == {"pc", "run", "gate", "disturbed"}
<1>1. ASSUME NEW r \in Runs, NEW mode, BeginEvaluation(r, mode) PROVE DecisionsInv'
  <2> DEFINE e == [pc |-> "evaluate", mode |-> mode, left |-> GateSequence(mode), last |-> NoResult]
  <2>1. {"pc", "left", "last"} \subseteq DOMAIN e /\ e.pc = "evaluate" /\ e.left = GateSequence(mode)
    OBVIOUS
  <2>2. evaluation' = [evaluation EXCEPT ![r] = e] /\ UNCHANGED <<gates, review>>
    BY <1>1 DEF BeginEvaluation
  <2> HIDE DEF e
  <2>3. EvaluationFits(e)
    BY <2>1, SequenceFits DEF EvaluationFits
  <2> QED
    BY <2>2, <2>3, EvaluationGoesOn
<1>2. ASSUME NEW r \in Runs, NEW severity, GateEvaluated(r, severity) PROVE DecisionsInv'
  <2> DEFINE o == evaluation[r]
             e == [o EXCEPT !.pc = "record", !.last = [severity |-> severity, recorded |-> FALSE]]
  <2>1. o.left # << >> /\ evaluation' = [evaluation EXCEPT ![r] = e] /\ UNCHANGED <<gates, review>>
    BY <1>2 DEF GateEvaluated
  <2>2. {"pc", "left", "last"} \subseteq DOMAIN o /\ o.left \in Seq(Names)
    BY <1>0 DEF EvaluationFits
  <2>3. {"pc", "left", "last"} \subseteq DOMAIN e /\ e.left = o.left
    BY <2>2
  <2> HIDE DEF e
  <2>4. EvaluationFits(e)
    BY <2>1, <2>2, <2>3 DEF EvaluationFits
  <2> QED
    BY <2>1, <2>4, EvaluationGoesOn
<1>3. ASSUME NEW r \in Runs, RecordGateDecision(r) PROVE DecisionsInv'
  <2> DEFINE o == evaluation[r]
             h == Head(o.left)
             row == [run |-> r, gate |-> h, status |-> StatusOf(o.last.severity)]
             l == IF GoesOn(r) THEN Tail(o.left) ELSE << >>
             e == [o EXCEPT !.pc = "evaluate", !.left = l, !.last = [o.last EXCEPT !.recorded = TRUE]]
  <2>1. /\ o.pc = "record" /\ gates' = Append(gates, row)
        /\ review' = [v \in Reviewers |->
              [review[v] EXCEPT !.disturbed =
                 review[v].disturbed \/ (review[v].run = r /\ review[v].gate = h)]]
    BY <1>3 DEF RecordGateDecision
  <2>2. evaluation' = [evaluation EXCEPT ![r] = e]
    BY <1>3 DEF RecordGateDecision
  <2>3. {"pc", "left", "last"} \subseteq DOMAIN o /\ o.left \in Seq(Names) /\ o.left # << >>
    BY <1>0, <2>1 DEF EvaluationFits
  <2>4. h \in Names /\ l \in Seq(Names)
    BY <2>3
  <2>5. EvaluationFits(e)
    <3>1. {"pc", "left", "last"} \subseteq DOMAIN e /\ e.pc = "evaluate"
      BY <2>3
    <3>2. e.left = l
      BY <2>3
    <3> HIDE DEF e, l
    <3> QED
      BY <2>4, <3>1, <3>2 DEF EvaluationFits
  <2>6. row \in Decision
    <3>1. StatusOf(o.last.severity) \in Status
      BY DEF StatusOf, Status
    <3> QED
      BY <2>4, <3>1 DEF Decision, Names
  <2>7. gates' \in Seq(Decision)
    <3> HIDE DEF row
    <3> QED
      BY <1>0, <2>1, <2>6
  <2>8. ASSUME NEW v \in Reviewers PROVE ReviewStands(review'[v], gates')
    <3> DEFINE m == review[v]
               b == m.run = r /\ m.gate = h
               n == [m EXCEPT !.disturbed = m.disturbed \/ b]
    <3>1. review'[v] = n
      BY <2>1
    <3>2. ReviewStands(m, gates) /\ b \in BOOLEAN
      BY <1>0
    <3>3. /\ n.pc = m.pc /\ n.run = m.run /\ n.gate = m.gate
          /\ n.disturbed <=> m.disturbed \/ b
          /\ ReviewStands(n, gates)
      <4> HIDE DEF b, m
      <4> QED
        BY <3>2, MarkedReview
    <3>4. row.run = r /\ row.gate = h
      OBVIOUS
    <3> HIDE DEF n, row, h
    <3>5. ASSUME ~n.disturbed, NEW d \in DOMAIN gates, Newest(gates, n.gate, n.run, d)
          PROVE  d \in DOMAIN gates' /\ Newest(gates', n.gate, n.run, d) /\ gates'[d].status = gates[d].status
      <4>1. /\ DOMAIN gates = 1 .. Len(gates) /\ Len(gates) \in Nat
            /\ DOMAIN gates' = 1 .. Len(gates) + 1
            /\ \A i \in 1 .. Len(gates) : gates'[i] = gates[i]
            /\ gates'[Len(gates) + 1] = row
        BY <1>0, <2>1, <2>6
      <4>2. ~(n.run = r /\ n.gate = h)
        BY <3>3, <3>5
      <4>3. d \in DOMAIN gates' /\ gates'[d] = gates[d]
        BY <4>1
      <4>4. ASSUME NEW j \in DOMAIN gates', gates'[j].gate = n.gate, gates'[j].run = n.run
            PROVE  j <= d
        <5>1. j # Len(gates) + 1
          BY <3>4, <4>1, <4>2, <4>4
        <5>2. j \in DOMAIN gates /\ gates'[j] = gates[j]
          BY <4>1, <5>1
        <5> QED
          BY <3>5, <4>4, <5>2 DEF Newest
      <4> QED
        BY <3>5, <4>3, <4>4 DEF Newest
    <3>6. ReviewStands(n, gates')
      BY <3>3, <3>5, StandsWithNewest
    <3> QED
      BY <3>1, <3>6
  <2>9. DOMAIN review' = Reviewers
    BY <2>1
  <2>10. DOMAIN evaluation' = Runs /\ \A q \in Runs : EvaluationFits(evaluation'[q])
    <3> HIDE DEF e
    <3> QED
      BY <1>0, <2>2, <2>5
  <2> QED
    BY <2>7, <2>8, <2>9, <2>10 DEF DecisionsInv
<1>4. ASSUME NEW r \in Runs, RecordFails(r) PROVE DecisionsInv'
  <2> DEFINE o == evaluation[r]
             e == [o EXCEPT !.pc = "evaluate", !.left = Tail(o.left),
                            !.last = [severity |-> "fail", recorded |-> FALSE]]
  <2>1. o.left # << >> /\ evaluation' = [evaluation EXCEPT ![r] = e] /\ UNCHANGED <<gates, review>>
    BY <1>4 DEF RecordFails
  <2>2. {"pc", "left", "last"} \subseteq DOMAIN o /\ o.left \in Seq(Names)
    BY <1>0 DEF EvaluationFits
  <2>3. {"pc", "left", "last"} \subseteq DOMAIN e /\ e.pc = "evaluate"
    BY <2>2
  <2>4. e.left = Tail(o.left)
    BY <2>2
  <2> HIDE DEF e
  <2>5. EvaluationFits(e)
    BY <2>1, <2>2, <2>3, <2>4 DEF EvaluationFits
  <2> QED
    BY <2>1, <2>5, EvaluationGoesOn
<1>5. ASSUME NEW r \in Runs, EvaluationEnds(r) PROVE DecisionsInv'
  <2>1. EvaluationFits(NoEvaluation)
    <3>1. {"pc", "left", "last"} \subseteq DOMAIN NoEvaluation /\ NoEvaluation.pc = "idle"
      BY DEF NoEvaluation
    <3>2. NoEvaluation.left = << >> /\ << >> \in Seq(Names)
      BY DEF NoEvaluation
    <3> QED
      BY <3>1, <3>2 DEF EvaluationFits
  <2> QED
    BY <1>5, <2>1, EvaluationGoesOn DEF EvaluationEnds
<1>6. ASSUME NEW g, NEW approved \in BOOLEAN, OverrideGateDecision(g, approved) PROVE DecisionsInv'
  <2> DEFINE status == IF approved THEN "pass" ELSE "blocked"
  <2>1. Settled(g, status) /\ Disturbs(g, Reviewers) /\ UNCHANGED evaluation
    BY <1>6 DEF OverrideGateDecision
  <2>2. status \in Status
    BY DEF Status
  <2> HIDE DEF status
  <2>3. gates' \in Seq(Decision)
    BY <1>0, <2>1, <2>2, SettledRows
  <2>4. DOMAIN review' = Reviewers
    BY <2>1 DEF Disturbs
  <2>5. ASSUME NEW v \in Reviewers PROVE ReviewStands(review'[v], gates')
    <3>1. CASE review[v].gate = g
      <4> DEFINE n == [review[v] EXCEPT !.disturbed = TRUE]
      <4>1. review'[v] = n
        BY <2>1, <3>1 DEF Disturbs
      <4>2. Keys \subseteq DOMAIN review[v]
        BY <1>0 DEF ReviewStands
      <4>3. Keys \subseteq DOMAIN n /\ n.disturbed = TRUE
        BY <4>2
      <4> HIDE DEF n
      <4> QED
        BY <4>1, <4>3, StandsForNothing
    <3>2. CASE review[v].gate # g
      <4>1. review'[v] = review[v]
        BY <2>1, <3>2 DEF Disturbs
      <4> QED
        BY <1>0, <2>1, <2>2, <3>2, <4>1, SettledElsewhere
    <3> QED
      BY <3>1, <3>2
  <2> QED
    BY <1>0, <2>1, <2>3, <2>4, <2>5 DEF DecisionsInv
<1>7. ASSUME NEW v \in Reviewers, NEW g, NEW r, RejectGate(v, g, r) PROVE DecisionsInv'
  <2> DEFINE d == GateDecision(g, r)
             p == IF d = 0 THEN "not found" ELSE IF gates[d].status # "needs-review" THEN "conflict" ELSE "checked"
             m == [pc |-> p, run |-> r, gate |-> g, disturbed |-> FALSE]
  <2>1. review' = [review EXCEPT ![v] = m] /\ UNCHANGED <<gates, evaluation>>
    BY <1>7 DEF RejectGate
  <2>2. ASSUME p = "checked" PROVE d # 0 /\ gates[d].status = "needs-review"
    BY <2>2
  <2>3. p # "rejected"
    OBVIOUS
  <2>4. Keys \subseteq DOMAIN m /\ m.pc = p /\ m.run = r /\ m.gate = g
    OBVIOUS
  <2> HIDE DEF m, p, d
  <2>5. d # 0 => Newest(gates, g, r, d)
    BY <1>0, NewestIsDecision DEF d
  <2>6. ReviewStands(m, gates)
    BY <2>2, <2>3, <2>4, <2>5 DEF ReviewStands, Newest
  <2> QED
    BY <1>0, <2>1, <2>6 DEF DecisionsInv
<1>8. ASSUME NEW v \in Reviewers, RejectUpdates(v) PROVE DecisionsInv'
  <2> DEFINE g == review[v].gate
             n == [review[v] EXCEPT !.pc = "rejected"]
  <2>1. /\ review[v].pc = "checked" /\ Settled(g, "blocked") /\ UNCHANGED evaluation
        /\ review' = [w \in Reviewers |->
              IF w = v THEN n
              ELSE [review[w] EXCEPT !.disturbed = review[w].disturbed \/ review[w].gate = g]]
    BY <1>8 DEF RejectUpdates
  <2>2. "blocked" \in Status
    BY DEF Status
  <2>3. gates' \in Seq(Decision)
    BY <1>0, <2>1, <2>2, SettledRows
  <2>4. ReviewStands(review'[v], gates')
    <3>1. Keys \subseteq DOMAIN review[v] /\ ReviewStands(review[v], gates)
      BY <1>0 DEF ReviewStands
    <3>2. Keys \subseteq DOMAIN n /\ n.pc = "rejected" /\ n.run = review[v].run /\ n.gate = g
      BY <3>1
    <3>3. n.disturbed = review[v].disturbed
      BY <3>1
    <3>4. review'[v] = n
      BY <2>1
    <3> HIDE DEF n
    <3>5. CASE ~n.disturbed
      <4>1. PICK d \in DOMAIN gates : Newest(gates, g, review[v].run, d) /\ gates[d].status = "needs-review"
        BY <2>1, <3>1, <3>3, <3>5 DEF ReviewStands
      <4>2. d \in DOMAIN gates' /\ Newest(gates', g, review[v].run, d)
        BY <1>0, <2>1, <2>2, <4>1, SettledRows DEF Newest
      <4>3. gates'[d].status = "blocked"
        BY <1>0, <2>1, <2>2, <4>1, SettledRows DEF Newest
      <4> QED
        BY <3>2, <3>4, <4>2, <4>3 DEF ReviewStands
    <3> QED
      BY <3>2, <3>4, <3>5, StandsForNothing
  <2>5. ASSUME NEW w \in Reviewers, w # v PROVE ReviewStands(review'[w], gates')
    <3> DEFINE m == review[w]
               b == m.gate = g
               o == [m EXCEPT !.disturbed = m.disturbed \/ b]
    <3>1. review'[w] = o
      BY <2>1, <2>5
    <3>2. ReviewStands(m, gates) /\ b \in BOOLEAN
      BY <1>0
    <3>3. /\ Keys \subseteq DOMAIN o
          /\ o.gate = m.gate
          /\ o.disturbed <=> m.disturbed \/ b
          /\ ReviewStands(o, gates)
      <4> HIDE DEF b, m
      <4> QED
        BY <3>2, MarkedReview
    <3> HIDE DEF o
    <3> QED
      BY <1>0, <2>1, <2>2, <3>1, <3>3, StandsForNothing, SettledElsewhere
  <2>6. DOMAIN review' = Reviewers
    BY <2>1
  <2> QED
    BY <1>0, <2>1, <2>3, <2>4, <2>5, <2>6 DEF DecisionsInv
<1>9. ASSUME NEW v \in Reviewers, RejectReturns(v) PROVE DecisionsInv'
  <2>1. review' = [review EXCEPT ![v] = NoReview] /\ UNCHANGED <<gates, evaluation>>
    BY <1>9 DEF RejectReturns
  <2>2. ReviewStands(NoReview, gates)
    BY DEF NoReview, ReviewStands
  <2> QED
    BY <1>0, <2>1, <2>2 DEF DecisionsInv
<1>10. CASE UNCHANGED decisionVars
  BY <1>10 DEF decisionVars, DecisionsInv
<1> QED
  BY <1>1, <1>2, <1>3, <1>4, <1>5, <1>6, <1>7, <1>8, <1>9, <1>10 DEF DecisionsNext

\* LoneRejectionHolds, for any runs, gates and reviewers: a rejection that the
\* handler of reject-gate.ts reports, and that no other review or decision on
\* its gate came between, is the newest word on the gate of the run.
THEOREM RejectionHolds == DecisionsSpec => []LoneRejectionHolds
<1>1. DecisionsInv => LoneRejectionHolds
  <2> SUFFICES ASSUME DecisionsInv, NEW v \in Reviewers, review[v].pc = "rejected", ~review[v].disturbed
               PROVE  gates[GateDecision(review[v].gate, review[v].run)].status = "blocked"
    BY DEF LoneRejectionHolds
  <2>1. PICK d \in DOMAIN gates : Newest(gates, review[v].gate, review[v].run, d) /\ gates[d].status = "blocked"
    BY DEF DecisionsInv, ReviewStands
  <2> QED
    BY <2>1, NewestIsDecision DEF DecisionsInv
<1> QED
  BY <1>1, DecisionsStart, DecisionsStep, PTL DEF DecisionsSpec

----------------------------------------------------------------------------
Votes == [Agents -> Vote \cup {NoVote}]

\* What a vote weighs: a number that is not negative, and depends on the
\* confidence of the vote but not on its decision.
LEMMA WeightsAreNumbers ==
    ASSUME NEW a \in Agents, NEW v \in Vote \cup {NoVote}
    PROVE  EffectiveWeight(a, v) \in Nat
<1> DEFINE p == Profile(a)
           reliable  == (1000 + 7 * (p.reliability - 50)) \div 2
           confident == 7 + (13 * v.confidence) \div 50
           w == p.base * reliable * confident
<1>1. p.base \in Int /\ p.reliability \in Int
  BY DEF Profile, Agents
<1>2. reliable \in Int
  BY <1>1
<1>3. v.confidence \in Int
  BY DEF Vote, NoVote
<1>4. confident \in Int
  BY <1>3
<1>5. w \in Int
  <2> HIDE DEF p, reliable, confident
  <2> QED
    BY <1>1, <1>2, <1>4
<1>6. EffectiveWeight(a, v) = Max({5000, w})
  BY DEF EffectiveWeight
<1>7. ASSUME NEW n \in Int PROVE Max({5000, n}) \in {5000, n} /\ Max({5000, n}) >= 5000
  <2>1. \E x \in {5000, n} : \A y \in {5000, n} : x >= y
    BY <1>7
  <2> QED
    BY <2>1 DEF Max
<1> HIDE DEF w
<1> QED
  BY <1>5, <1>6, <1>7

LEMMA SumsAreNumbers ==
    ASSUME NEW votes \in Votes, NEW d
    PROVE  WeightOf(votes, d) \in Nat
<1>1. \A a \in Agents : EffectiveWeight(a, votes[a]) \in Nat
  BY WeightsAreNumbers DEF Votes
<1> QED
  BY <1>1 DEF WeightOf, Agents

\* The share of the idea's words that a batch mentions is nothing, of none.
LEMMA NoSharedWord ==
    ASSUME IsFiniteSet(IdeaWords), IdeaWords # {}, NEW b, b.words \cap IdeaWords = {}
    PROVE  Alignment(b) = 0
<1> DEFINE n == Cardinality(IdeaWords)
<1>1. n \in Nat /\ n # 0 /\ Cardinality(IdeaWords \cap b.words) = 0
  <2>1. IdeaWords \cap b.words = {}
    OBVIOUS
  <2> QED
    BY <2>1, FS_EmptySet, FS_CardinalityType
<1>2. Alignment(b) = (200 * 0 + n) \div (2 * n)
  BY <1>1 DEF Alignment
<1>3. ASSUME NEW k \in Nat, k # 0 PROVE (200 * 0 + k) \div (2 * k) = 0
  BY <1>3
<1> HIDE DEF n
<1> QED
  BY <1>1, <1>2, <1>3

\* What the agents alone let through, as AutonomyNeedsConsent wants it.
AgentsConsent(x) ==
    /\ x.risk = "low"
    /\ \A i \in DOMAIN x.batch.actions : ActionValid(x.batch.actions[i], x.policy)
    /\ Threshold >= 70 => x.batch.words \cap IdeaWords # {} \/ IdeaWords = {}
    /\ 5 * WeightOf(x.votes, "reject") < TotalWeight(x.votes)

\* A batch the kill switch lets through that nobody is asked about.
LEMMA ConsentOfAgents ==
    ASSUME NEW x \in GovernedInputs, NEW decision,
           decision = FinalDecision(x.votes, RiskLevel(x.risk)),
           ~ShouldPause(decision, RiskLevel(x.risk)), ~KillSwitch(x, decision)
    PROVE  AgentsConsent(x)
<1> DEFINE total == TotalWeight(x.votes)
           approve == WeightOf(x.votes, "approve")
           undecided == WeightOf(x.votes, "needs-review")
           reject == WeightOf(x.votes, "reject")
<1>1. decision = "approve" /\ RiskLevel(x.risk) = "low"
  BY DEF ShouldPause
<1>2. x.risk = "low"
  BY <1>1 DEF RiskLevel
<1>3. approve \in Nat /\ undecided \in Nat /\ reject \in Nat /\ total = approve + undecided + reject
  BY GovernanceAssumption, SumsAreNumbers DEF Votes, TotalWeight
<1>4. AtLeast(approve, total, 55) /\ ~AtLeast(reject, total, 20)
  <2>1. ThresholdForRisk("low") = 55
    BY DEF ThresholdForRisk
  <2> DEFINE veto == VetoApplied(x.votes, "low")
             most == AtLeast(approve, total, 55)
             few == ~AtLeast(reject, total, 20)
             many == AtLeast(reject, total, 35)
  <2>2. FinalDecision(x.votes, "low") =
           CASE veto -> "reject" [] ~veto /\ most /\ few -> "approve" [] ~veto /\ many -> "reject"
             [] OTHER -> "needs-review"
    BY <2>1 DEF FinalDecision
  <2>3. FinalDecision(x.votes, "low") = "approve"
    BY <1>1
  <2> HIDE DEF veto, most, few, many
  <2>4. most /\ few
    BY <2>2, <2>3
  <2> QED
    BY <2>4 DEF most, few
<1>5. total > 0 /\ 5 * reject < total
  <2> HIDE DEF total, approve, undecided, reject
  <2> QED
    BY <1>3, <1>4 DEF AtLeast
<1>6. EvaluateConstraints(x.batch, x.policy) /\ Confident(x, "approve")
  BY <1>1 DEF KillSwitch
<1>7. ASSUME Threshold >= 70, x.batch.words \cap IdeaWords = {}, IdeaWords # {} PROVE FALSE
  <2>1. Alignment(x.batch) = 0
    BY <1>7, NoSharedWord, GovernanceAssumption
  <2> DEFINE fixed == 7 * Alignment(x.batch) + (IF ValidateBatch(x.batch) THEN 400 ELSE 160)
                        + (IF EvaluateConstraints(x.batch, x.policy) THEN 500 ELSE 100)
                        + (IF "approve" = "reject" THEN 40 ELSE 0)
             least == 20 * Threshold - 10
  <2>2. fixed \in Int /\ fixed <= 900
    BY <2>1
  <2>3. least \in Int /\ least >= 1390
    BY <1>7, GovernanceAssumption
  <2> DEFINE factor == CASE "approve" = "approve" -> 400 [] "approve" = "needs-review" -> 240 [] OTHER -> 0
  <2>4. factor = 400
    OBVIOUS
  <2>5. IF total = 0 THEN fixed >= least ELSE (fixed - least) * total + factor * approve >= 0
    BY <1>6 DEF Confident
  <2> HIDE DEF fixed, least, factor, total, approve, undecided, reject
  <2>6. (fixed - least) * total + 400 * approve >= 0
    BY <1>5, <2>4, <2>5
  <2>7. \A d \in Int, n \in Nat : d <= 0 - 490 => d * n <= (0 - 490) * n
    OBVIOUS
  <2>8. (fixed - least) * total <= (0 - 490) * total
    <3>1. fixed - least \in Int /\ fixed - least <= 0 - 490
      BY <2>2, <2>3
    <3>2. total \in Nat
      BY <1>3
    <3> QED
      BY <3>1, <3>2, <2>7
  <2> DEFINE gain == (fixed - least) * total
  <2>9. gain \in Int
    BY <1>3, <2>2, <2>3
  <2> HIDE DEF gain
  <2> QED
    BY <1>3, <1>5, <2>6, <2>8, <2>9 DEF gain
<1>8. \A i \in DOMAIN x.batch.actions : ActionValid(x.batch.actions[i], x.policy)
  BY <1>6 DEF EvaluateConstraints
<1> QED
  BY <1>2, <1>5, <1>7, <1>8 DEF AgentsConsent

\* Of a process g, with these signals.
Consented(g, given) ==
    /\ "pc" \in DOMAIN g
    /\ g.pc = "waiting" => {"pc", "input", "id", "next"} \subseteq DOMAIN g
    /\ g.pc = "done" /\ g.allowed => <<g.id, "approved">> \in given \/ AgentsConsent(g.input)

ConsentInv ==
    /\ DOMAIN governor = Governors
    /\ \A p \in Governors : Consented(governor[p], signals)

LEMMA ConsentStarts == GovernInit => ConsentInv
BY DEF GovernInit, ConsentInv, Consented, Ungoverned

LEMMA ConsentOne ==
    ASSUME ConsentInv, NEW p \in Governors, NEW g, governor' = [governor EXCEPT ![p] = g],
           Consented(g, signals), UNCHANGED signals
    PROVE  ConsentInv'
BY DEF ConsentInv

LEMMA ConsentStep == ConsentInv /\ [GovernNext]_governVars => ConsentInv'
<1> SUFFICES ASSUME ConsentInv, [GovernNext]_governVars PROVE ConsentInv'
  OBVIOUS
<1>1. ASSUME NEW p \in Governors, NEW x \in GovernedInputs, RunGovernedAutonomy(p, x) PROVE ConsentInv'
  <2> DEFINE decision == FinalDecision(x.votes, RiskLevel(x.risk))
             asks == ShouldPause(decision, RiskLevel(x.risk)) \/ x.risk = "high"
             waits == [pc |-> "waiting", input |-> x, id |-> clock, next |-> clock]
             done == [pc |-> "done", input |-> x, id |-> 0, allowed |-> ~KillSwitch(x, decision)]
  <2>1. governor' = [governor EXCEPT ![p] = IF asks THEN waits ELSE done] /\ UNCHANGED signals
    BY <1>1 DEF RunGovernedAutonomy
  <2>2. Consented(waits, signals)
    BY DEF Consented
  <2>3. ASSUME ~asks PROVE Consented(done, signals)
    <3>1. ~KillSwitch(x, decision) => AgentsConsent(x)
      BY <2>3, ConsentOfAgents
    <3>2. done.allowed <=> ~KillSwitch(x, decision)
      OBVIOUS
    <3>3. done.input = x /\ done.pc = "done" /\ "pc" \in DOMAIN done
      OBVIOUS
    <3> HIDE DEF done, decision
    <3> QED
      BY <3>1, <3>2, <3>3 DEF Consented
  <2>4. Consented(IF asks THEN waits ELSE done, signals)
    <3> HIDE DEF asks, waits, done
    <3> QED
      BY <2>2, <2>3
  <2> HIDE DEF asks, waits, done
  <2> QED
    BY <2>1, <2>4, ConsentOne
<1>2. ASSUME NEW p \in Governors, Poll(p) PROVE ConsentInv'
  <2> DEFINE g == governor[p]
             ends(allowed) == [pc |-> "done", input |-> g.input, id |-> g.id, allowed |-> allowed]
             waits == [g EXCEPT !.next = clock + 1]
  <2>1. g.pc = "waiting" /\ {"pc", "input", "id", "next"} \subseteq DOMAIN g
    BY <1>2 DEF Poll, ConsentInv, Consented
  <2>2. Consented(ends(FALSE), signals)
    BY DEF Consented
  <2>3. <<g.id, "approved">> \in signals => Consented(ends(TRUE), signals)
    BY DEF Consented
  <2>4. Consented(waits, signals)
    BY <2>1 DEF Consented
  <2> DEFINE late == clock - g.id >= Timeout
             early == clock - g.id < Timeout
             yes == <<g.id, "approved">> \in signals
             no == <<g.id, "rejected">> \in signals
             h == CASE late -> ends(FALSE) [] early /\ yes -> ends(TRUE)
                    [] early /\ ~yes /\ no -> ends(FALSE) [] OTHER -> waits
  <2>5. governor' = [governor EXCEPT ![p] = h] /\ UNCHANGED signals
    BY <1>2 DEF Poll
  <2>6. Consented(h, signals)
    <3> HIDE DEF ends, waits, late, early, no
    <3> QED
      BY <2>2, <2>3, <2>4
  <2> HIDE DEF h
  <2> QED
    BY <2>5, <2>6, ConsentOne
<1>3. ASSUME NEW p \in Governors, NEW answer, Signal(p, answer) PROVE ConsentInv'
  BY <1>3 DEF Signal, ConsentInv, Consented
<1>4. CASE ClockTicks
  BY <1>4 DEF ClockTicks, ConsentInv
<1>5. CASE UNCHANGED governVars
  BY <1>5 DEF governVars, ConsentInv
<1> QED
  BY <1>1, <1>2, <1>3, <1>4, <1>5 DEF GovernNext

\* AutonomyNeedsConsent, for any processes, votes, batches, policies, ideas and
\* times: what governed-pipeline.ts lets through was approved by a person, or
\* is of low risk, within the policy, of the idea and hardly rejected.
THEOREM ConsentIsNeeded == GovernSpec => []AutonomyNeedsConsent
<1>1. ConsentInv => AutonomyNeedsConsent
  BY DEF ConsentInv, Consented, AgentsConsent, AutonomyNeedsConsent
<1> QED
  BY <1>1, ConsentStarts, ConsentStep, PTL DEF GovernSpec

----------------------------------------------------------------------------
\* The agent a approves instead of what it voted.
Approves(votes, a, new) ==
    /\ new \in Votes
    /\ new[a].decision = "approve" /\ new[a].confidence = votes[a].confidence
    /\ \A b \in Agents \ {a} : new[b] = votes[b]

LEMMA VoteMoves ==
    ASSUME NEW votes \in Votes, NEW a \in Agents, votes[a].decision # "none"
    PROVE  Approves(votes, a, [votes EXCEPT ![a].decision = "approve"])
<1> DEFINE v == [votes[a] EXCEPT !.decision = "approve"]
           new == [b \in Agents |-> IF b = a THEN v ELSE votes[b]]
<1>1. votes[a] \in Vote /\ DOMAIN votes = Agents
  BY DEF Votes, NoVote
<1>2. v \in Vote /\ v.decision = "approve" /\ v.confidence = votes[a].confidence
  BY <1>1 DEF Vote, Decisions
<1>3. [votes EXCEPT ![a].decision = "approve"] = new
  BY <1>1
<1> HIDE DEF v
<1>4. Approves(votes, a, new)
  BY <1>2 DEF Approves, Votes
<1> QED
  BY <1>3, <1>4

\* It moves its weight, and no weight changes.
LEMMA WeightMoves ==
    ASSUME NEW votes \in Votes, NEW a \in Agents, votes[a].decision # "none",
           NEW new, Approves(votes, a, new)
    PROVE  /\ WeightOf(new, "approve") >= WeightOf(votes, "approve")
           /\ WeightOf(new, "reject") <= WeightOf(votes, "reject")
           /\ TotalWeight(new) = TotalWeight(votes)
           /\ \A b \in Agents : new[b].decision = "reject" => votes[b].decision = "reject"
<1> DEFINE w(b) == EffectiveWeight(b, votes[b])
<1>2. /\ new[a].decision = "approve" /\ new[a].confidence = votes[a].confidence
      /\ \A b \in Agents \ {a} : new[b] = votes[b]
      /\ new \in Votes
  BY DEF Approves
<1>3. \A b \in Agents : EffectiveWeight(b, new[b]) = w(b) /\ w(b) \in Nat
  <2>1. EffectiveWeight(a, new[a]) = w(a)
    BY <1>2 DEF EffectiveWeight
  <2> QED
    BY <1>2, <2>1, WeightsAreNumbers DEF Votes
<1>4. \A b \in Agents : votes[b].decision \in {"approve", "needs-review", "reject", "none"}
  BY DEF Votes, Vote, NoVote, Decisions
<1> HIDE DEF w
<1> DEFINE of(b, d) == IF votes[b].decision = d THEN w(b) ELSE 0
           now(b, d) == IF new[b].decision = d THEN w(b) ELSE 0
<1>5. ASSUME NEW d
      PROVE  /\ WeightOf(votes, d) = of("planner", d) + of("builder", d) + of("reviewer", d) + of("security", d)
             /\ WeightOf(new, d) = now("planner", d) + now("builder", d) + now("reviewer", d) + now("security", d)
  BY <1>3 DEF WeightOf, w, Agents
<1>6. ASSUME NEW b \in Agents
      PROVE  /\ \A d \in {"approve", "needs-review", "reject"} : of(b, d) \in Nat /\ now(b, d) \in Nat
             /\ now(b, "approve") >= of(b, "approve") /\ now(b, "reject") <= of(b, "reject")
             /\ now(b, "approve") + now(b, "needs-review") + now(b, "reject")
                  = of(b, "approve") + of(b, "needs-review") + of(b, "reject")
  <2>1. w(b) \in Nat
    BY <1>3
  <2>2. \A d \in {"approve", "needs-review", "reject"} : of(b, d) \in Nat /\ now(b, d) \in Nat
    BY <2>1
  <2>3. CASE b = a
    <3>1. now(b, "approve") = w(b) /\ now(b, "needs-review") = 0 /\ now(b, "reject") = 0
      BY <1>2, <2>3
    <3>2. /\ of(b, "approve") + of(b, "needs-review") + of(b, "reject") = w(b)
          /\ of(b, "approve") <= w(b)
      BY <1>4, <2>1, <2>3
    <3> HIDE DEF of, now
    <3> QED
      BY <2>1, <2>2, <3>1, <3>2
  <2>4. CASE b # a
    <3>1. \A d \in {"approve", "needs-review", "reject"} : now(b, d) = of(b, d)
      BY <1>2, <2>4
    <3> HIDE DEF of, now
    <3> QED
      BY <2>2, <3>1
  <2> QED
    BY <2>2, <2>3, <2>4
<1> HIDE DEF of, now
<1>7. /\ WeightOf(new, "approve") >= WeightOf(votes, "approve")
      /\ WeightOf(new, "reject") <= WeightOf(votes, "reject")
      /\ TotalWeight(new) = TotalWeight(votes)
  <2>1. "planner" \in Agents /\ "builder" \in Agents /\ "reviewer" \in Agents /\ "security" \in Agents
    BY DEF Agents
  <2>2. WeightOf(new, "approve") >= WeightOf(votes, "approve")
    BY <1>5, <1>6, <2>1
  <2>3. WeightOf(new, "reject") <= WeightOf(votes, "reject")
    BY <1>5, <1>6, <2>1
  <2>4. TotalWeight(new) = TotalWeight(votes)
    <3> DEFINE sum(b) == of(b, "approve") + of(b, "needs-review") + of(b, "reject")
               then(b) == now(b, "approve") + now(b, "needs-review") + now(b, "reject")
    <3>1. TotalWeight(votes) = sum("planner") + sum("builder") + sum("reviewer") + sum("security")
      BY <1>5, <1>6, <2>1 DEF TotalWeight
    <3>2. TotalWeight(new) = then("planner") + then("builder") + then("reviewer") + then("security")
      BY <1>5, <1>6, <2>1 DEF TotalWeight
    <3> QED
      BY <1>6, <2>1, <3>1, <3>2
  <2> QED
    BY <2>2, <2>3, <2>4
<1>8. \A b \in Agents : new[b].decision = "reject" => votes[b].decision = "reject"
  BY <1>2
<1> QED
  BY <1>2, <1>7, <1>8

\* For whatever the four agents vote, at every risk: an agent that approves
\* instead of what it voted keeps an approval an approval, and a veto of
\* runAdaptiveConsensus holds whatever the others vote.
THEOREM ConsensusIsMonotone == \A votes \in Votes, risk \in Risks : VotesAreMonotone(votes, risk)
<1> SUFFICES ASSUME NEW votes \in Votes, NEW risk \in Risks PROVE VotesAreMonotone(votes, risk)
  OBVIOUS
<1>1. ASSUME NEW v \in Votes
      PROVE  FinalDecision(v, risk) = "approve" <=>
                /\ ~VetoApplied(v, risk)
                /\ AtLeast(WeightOf(v, "approve"), TotalWeight(v), ThresholdForRisk(risk))
                /\ ~AtLeast(WeightOf(v, "reject"), TotalWeight(v), 20)
  <2> DEFINE veto == VetoApplied(v, risk)
             most == AtLeast(WeightOf(v, "approve"), TotalWeight(v), ThresholdForRisk(risk))
             few == ~AtLeast(WeightOf(v, "reject"), TotalWeight(v), 20)
             many == AtLeast(WeightOf(v, "reject"), TotalWeight(v), 35)
  <2>1. FinalDecision(v, risk) =
           CASE veto -> "reject" [] ~veto /\ most /\ few -> "approve" [] ~veto /\ many -> "reject"
             [] OTHER -> "needs-review"
    BY DEF FinalDecision
  <2>2. WeightOf(v, "reject") \in Nat /\ TotalWeight(v) \in Nat
    BY SumsAreNumbers DEF TotalWeight
  <2>3. few => ~many
    <3>1. ASSUME NEW n \in Nat, NEW t \in Nat, ~AtLeast(n, t, 20) PROVE ~AtLeast(n, t, 35)
      BY <3>1 DEF AtLeast
    <3> QED
      BY <2>2, <3>1
  <2> HIDE DEF veto, most, few, many
  <2>4. FinalDecision(v, risk) = "approve" => ~veto /\ most /\ few
    BY <2>1
  <2>5. ~veto /\ most /\ few => FinalDecision(v, risk) = "approve"
    BY <2>1, <2>3
  <2> QED
    BY <2>4, <2>5 DEF veto, most, few
<1>2. VetoApplied(votes, risk) => FinalDecision(votes, risk) = "reject"
  BY DEF FinalDecision
<1>3. ASSUME NEW a \in Agents, votes[a].decision # "none", FinalDecision(votes, risk) = "approve",
             NEW new, Approves(votes, a, new)
      PROVE  FinalDecision(new, risk) = "approve"
  <2>1. /\ WeightOf(new, "approve") >= WeightOf(votes, "approve")
        /\ WeightOf(new, "reject") <= WeightOf(votes, "reject")
        /\ TotalWeight(new) = TotalWeight(votes)
        /\ new \in Votes
        /\ \A b \in Agents : new[b].decision = "reject" => votes[b].decision = "reject"
    BY <1>3, WeightMoves DEF Approves
  <2>2. ~VetoApplied(new, risk)
    BY <1>1, <1>3, <2>1 DEF VetoApplied
  <2>3. ASSUME NEW n \in Nat, NEW m \in Nat, NEW t \in Nat, NEW h \in Nat, m >= n, AtLeast(n, t, h)
        PROVE  AtLeast(m, t, h)
    BY <2>3 DEF AtLeast
  <2>4. /\ WeightOf(new, "approve") \in Nat /\ WeightOf(votes, "approve") \in Nat
        /\ WeightOf(new, "reject") \in Nat /\ WeightOf(votes, "reject") \in Nat
        /\ TotalWeight(votes) \in Nat /\ ThresholdForRisk(risk) \in Nat
    BY <2>1, SumsAreNumbers DEF TotalWeight, ThresholdForRisk, Risks
  <2>5. AtLeast(WeightOf(new, "approve"), TotalWeight(new), ThresholdForRisk(risk))
    BY <1>1, <1>3, <2>1, <2>3, <2>4
  <2>6. ~AtLeast(WeightOf(new, "reject"), TotalWeight(new), 20)
    BY <1>1, <1>3, <2>1, <2>3, <2>4
  <2> QED
    BY <1>1, <2>1, <2>2, <2>5, <2>6
<1> QED
  BY <1>2, <1>3, VoteMoves DEF VotesAreMonotone

----------------------------------------------------------------------------
\* For every context of gate-manager.ts and every score that may be drawn: what
\* its gates let through in safe mode they let through in every other mode
\* that knows its deployment target.
THEOREM SafeIsStrictest == \A c \in Context : SafePausesMost(c)
<1> SUFFICES ASSUME NEW c \in Context, ~Pauses(c, "safe"),
                    NEW mode \in {"turbo", "balanced", "builder", "pro", "expert", "god"},
                    Pauses(c, mode), AllowedTargets(mode) # {}
             PROVE  FALSE
  BY DEF SafePausesMost
<1>1. \A gate \in Gates9 : GateSeverity(gate, c, "safe") = "pass"
  BY DEF Pauses, SequenceOf, ShouldPauseForGate
<1>2. mode \in {"balanced", "expert"}
  BY DEF AllowedTargets, Pauses, ShouldPauseForGate
<1>3. PICK gate \in Gates9 : GateSeverity(gate, c, mode) = "blocked"
  BY <1>2 DEF Pauses, SequenceOf, ShouldPauseForGate
<1>4. gate \in {"deployment", "risk", "launch"}
  BY <1>1, <1>3 DEF GateSeverity, Gates9
<1>5. CASE gate = "deployment"
  <2>1. c.target = "staging"
    BY <1>1 DEF GateSeverity, Gates9, DeploymentGate, AllowedTargets, Context
  <2> QED
    BY <1>2, <1>3, <1>5, <2>1 DEF GateSeverity, DeploymentGate, AllowedTargets
<1>6. CASE gate = "risk"
  <2>1. c.risk <= 30 /\ c.risk \in Int
    BY <1>1 DEF GateSeverity, Gates9, RiskThresholdGate, RiskLimit, Context
  <2> QED
    BY <1>2, <1>3, <1>6, <2>1 DEF GateSeverity, RiskThresholdGate, RiskLimit
<1>7. CASE gate = "launch"
  BY <1>2, <1>3, <1>7 DEF GateSeverity, LaunchGate
<1> QED
  BY <1>4, <1>5, <1>6, <1>7

----------------------------------------------------------------------------
LEMMA LeastOfNats ==
    ASSUME NEW S \in SUBSET Nat, S # {}
    PROVE  Min(S) \in S /\ \A x \in S : Min(S) <= x
<1> DEFINE less == OpToRel(<, Nat)
<1>1. PICK x \in S : \A y \in S : <<y, x>> \notin less
  <2> HIDE DEF less
  <2>1. IsWellFoundedOn(less, Nat)
    BY NatLessThanWellFounded DEF less
  <2> QED
    BY <2>1, WFMin
<1>2. \A y \in S : x <= y
  <2>1. \A y \in S : ~(y < x)
    BY <1>1 DEF OpToRel
  <2> HIDE DEF less
  <2> QED
    BY <2>1
<1> QED
  BY <1>2 DEF Min

----------------------------------------------------------------------------
\* A test is no longer than all of them in turn.
LEMMA TestWithinSuite ==
    ASSUME NEW tests \in Seq(RequiredTest), NEW i \in DOMAIN tests
    PROVE  /\ Duration(tests[i]) \in Nat /\ Cardinality(Seconds(tests)) \in Nat
           /\ Duration(tests[i]) <= Cardinality(Seconds(tests))
<1> DEFINE of(k) == {k} \X (1..Duration(tests[k]))
           f == [k \in DOMAIN tests |-> of(k)]
           all == {of(k) : k \in DOMAIN tests}
<1>1. \A k \in DOMAIN tests : tests[k] \in RequiredTest
  OBVIOUS
<1>2. \A k \in DOMAIN tests : Duration(tests[k]) \in Nat
  BY <1>1, TestAssumption DEF RequiredTest, Duration, Limit
<1>3. ASSUME NEW k \in DOMAIN tests
      PROVE  IsFiniteSet(of(k)) /\ Cardinality(of(k)) = Duration(tests[k])
  <2>1. IsFiniteSet({k}) /\ Cardinality({k}) = 1
    BY FS_Singleton
  <2>2. IsFiniteSet(1..Duration(tests[k])) /\ Cardinality(1..Duration(tests[k])) = Duration(tests[k])
    <3> DEFINE long == Duration(tests[k])
    <3>1. long \in Nat /\ 1 \in Int /\ long \in Int
      BY <1>2
    <3> HIDE DEF long
    <3>2. IsFiniteSet(1..long) /\ Cardinality(1..long) = IF 1 > long THEN 0 ELSE long - 1 + 1
      BY <3>1, FS_Interval
    <3>3. Cardinality(1..long) = long
      BY <3>1, <3>2
    <3> QED
      BY <3>2, <3>3 DEF long
  <2>3. IsFiniteSet(of(k))
        /\ Cardinality(of(k)) = Cardinality({k}) * Cardinality(1..Duration(tests[k]))
    BY <2>1, <2>2, FS_Product
  <2> QED
    BY <1>2, <2>1, <2>2, <2>3
<1> HIDE DEF of
<1>4. IsFiniteSet(DOMAIN tests)
  BY FS_Interval
<1>5. f \in Surjection(DOMAIN tests, all)
  BY DEF Surjection
<1>6. IsFiniteSet(all)
  BY <1>4, <1>5, FS_Surjection
<1>7. IsFiniteSet(UNION all)
  BY <1>3, <1>6, FS_UNION
<1>8. UNION all = Seconds(tests)
  BY DEF Seconds, of
<1>9. of(i) \subseteq Seconds(tests)
  BY <1>8
<1>10. Cardinality(of(i)) <= Cardinality(Seconds(tests)) /\ Cardinality(Seconds(tests)) \in Nat
  BY <1>7, <1>8, <1>9, FS_Subset, FS_CardinalityType
<1> QED
  BY <1>2, <1>3, <1>10

\* Together the tests of a gate are late only when they are late in turn.
LEMMA TogetherIsSooner ==
    ASSUME NEW tests \in Seq(RequiredTest), NEW timeout \in Nat, SuiteIsLate(tests, TRUE, timeout)
    PROVE  SuiteIsLate(tests, FALSE, timeout)
<1>1. PICK i \in DOMAIN tests : Duration(tests[i]) >= timeout
  BY DEF SuiteIsLate
<1>2. Cardinality(Seconds(tests)) >= timeout
  BY <1>1, TestWithinSuite
<1> QED
  BY <1>1, <1>2 DEF SuiteIsLate

LEMMA ParallelApproves == ASSUME NEW tests \in Seq(RequiredTest) PROVE ParallelNeverWorse(tests)
<1> DEFINE rules(parallel) == [i \in DOMAIN TestRules |-> [TestRules[i] EXCEPT !.parallel = parallel]]
           approved(gate, parallel) == VerifyTestsForGate(rules(parallel), gate, tests).approved
<1> SUFFICES ASSUME NEW gate
             PROVE  /\ ApplicableRules(TestRules, gate) = {} => approved(gate, TRUE)
                    /\ ApplicableRules(TestRules, gate) # {} /\ approved(gate, FALSE)
                         /\ FirstRule(TestRules, gate).failureAction = "block" => approved(gate, TRUE)
  BY DEF ParallelNeverWorse
<1>1. /\ TestRules \in Seq(TestRule)
      /\ \A i \in DOMAIN TestRules : i \in Nat /\ TestRules[i] \in TestRule
  BY TestAssumption
<1>2. ASSUME NEW p \in BOOLEAN
      PROVE  /\ DOMAIN rules(p) = DOMAIN TestRules
             /\ \A i \in DOMAIN TestRules :
                   LET r == rules(p)[i] s == TestRules[i]
                   IN  /\ r.gate = s.gate /\ r.enabled = s.enabled /\ r.timeout = s.timeout
                       /\ r.failureAction = s.failureAction /\ r.minPass = s.minPass
                       /\ r.parallel = p
  BY <1>1 DEF TestRule
<1> HIDE DEF rules
<1>3. \A p \in BOOLEAN : ApplicableRules(rules(p), gate) = ApplicableRules(TestRules, gate)
  BY <1>2 DEF ApplicableRules
<1> DEFINE first == Min(ApplicableRules(TestRules, gate))
<1>4. CASE ApplicableRules(TestRules, gate) = {}
  BY <1>3, <1>4 DEF VerifyTestsForGate
<1>5. CASE ApplicableRules(TestRules, gate) # {}
  <2>1. first \in DOMAIN TestRules
    BY <1>1, <1>5, LeastOfNats DEF ApplicableRules
  <2>2. \A p \in BOOLEAN : FirstRule(rules(p), gate) = rules(p)[first]
    BY <1>3 DEF FirstRule
  <2>3. FirstRule(TestRules, gate) = TestRules[first]
    BY DEF FirstRule
  <2>4. TestRules[first].timeout \in Nat
    BY <1>1, <2>1 DEF TestRule
  <2> HIDE DEF first
  <2>5. \A p \in BOOLEAN : approved(gate, p) <=>
           IsApproved(RunTests(tests, rules(p)[first]), rules(p)[first])
    BY <1>3, <1>5, <2>2 DEF VerifyTestsForGate
  <2> HIDE DEF approved
  <2> SUFFICES ASSUME TestRules[first].failureAction = "block", approved(gate, FALSE)
               PROVE  approved(gate, TRUE)
    BY <1>5, <2>3
  <2> DEFINE r(p) == rules(p)[first]
  <2>6. \A p \in BOOLEAN : /\ r(p).timeout = TestRules[first].timeout /\ r(p).parallel = p
                           /\ r(p).failureAction = "block"
                           /\ r(p).minPass = TestRules[first].minPass
    BY <1>2, <2>1
  <2>7. IsApproved(RunTests(tests, r(FALSE)), r(FALSE))
    BY <2>5
  <2> HIDE DEF r
  <2>8. RunTests(tests, r(FALSE)).status = "completed"
    BY <2>6, <2>7 DEF IsApproved
  <2>9. ~SuiteIsLate(tests, FALSE, TestRules[first].timeout)
    BY <2>6, <2>8 DEF RunTests
  <2>10. ~SuiteIsLate(tests, TRUE, TestRules[first].timeout)
    BY <2>4, <2>9, TogetherIsSooner
  <2>11. RunTests(tests, r(TRUE)) = RunTests(tests, r(FALSE))
    BY <2>6, <2>9, <2>10 DEF RunTests
  <2>12. IsApproved(RunTests(tests, r(TRUE)), r(TRUE))
    BY <2>6, <2>7, <2>11 DEF IsApproved
  <2> QED
    BY <2>5, <2>12 DEF r
<1> QED
  BY <1>4, <1>5

----------------------------------------------------------------------------
Matches(words, pattern) == words \cap pattern # {}

\* The first pattern that matches, when n is where it is.
LEMMA MatchesAt ==
    ASSUME NEW order, DOMAIN order \in SUBSET Nat, NEW words, NEW patterns, NEW otherwise,
           NEW n \in DOMAIN order, Matches(words, patterns[order[n]]),
           \A j \in DOMAIN order : j < n => ~Matches(words, patterns[order[j]])
    PROVE  FirstMatch(order, words, patterns, otherwise) = order[n]
<1> DEFINE found == {i \in DOMAIN order : words \cap patterns[order[i]] # {}}
<1>1. n \in found /\ found \in SUBSET Nat /\ \A j \in found : ~(j < n)
  BY DEF Matches
<1>2. Min(found) = n
  <2> HIDE DEF found
  <2>1. Min(found) \in found /\ Min(found) <= n
    BY <1>1, LeastOfNats
  <2> QED
    BY <1>1, <2>1
<1> QED
  BY <1>1, <1>2 DEF FirstMatch

\* When none does, it is what is left.
LEMMA MatchesNowhere ==
    ASSUME NEW order, NEW words, NEW patterns, NEW otherwise,
           \A j \in DOMAIN order : ~Matches(words, patterns[order[j]])
    PROVE  FirstMatch(order, words, patterns, otherwise) = otherwise
BY DEF FirstMatch, Matches

LEMMA TypeIsKnown ==
    ASSUME NEW words
    PROVE  InferSolutionCategory(words) \in {"web-app", "website", "automation", "ai-agent", "api", "unknown"}
<1> DEFINE found == {i \in DOMAIN Categories : words \cap IntakeWords[Categories[i]] # {}}
<1>1. found # {} => Min(found) \in found
  <2>1. found \in SUBSET Nat
    BY DEF Categories
  <2> HIDE DEF found
  <2> QED
    BY <2>1, LeastOfNats
<1>2. \A i \in found : Categories[i] \in {"web-app", "website", "automation", "ai-agent", "api"}
  BY DEF Categories
<1> HIDE DEF found
<1>3. found # {} => Categories[Min(found)] \in {"web-app", "website", "automation", "ai-agent", "api"}
  BY <1>1, <1>2
<1> QED
  BY <1>3 DEF InferSolutionCategory, FirstMatch, found

LEMMA TheCategories ==
    /\ DOMAIN Categories = 1..5 /\ DOMAIN Categories \in SUBSET Nat
    /\ Categories[1] = "web-app" /\ Categories[2] = "website" /\ Categories[3] = "automation"
    /\ Categories[4] = "ai-agent" /\ Categories[5] = "api"
    /\ \A c \in {"web-app", "website", "automation", "ai-agent", "api"} : c \in ToSet(Categories)
<1>1. /\ DOMAIN Categories = 1..5
      /\ Categories[1] = "web-app" /\ Categories[2] = "website" /\ Categories[3] = "automation"
      /\ Categories[4] = "ai-agent" /\ Categories[5] = "api"
  BY DEF Categories
<1> QED
  BY <1>1 DEF ToSet

\* The planner takes a type for what intake took it for.
LEMMA PlannerAgrees ==
    ASSUME NEW idea, NEW type \in {"web-app", "website", "automation", "ai-agent", "api"}
    PROVE  NormalizeCategory(type, idea) = type
<1> DEFINE later == FirstMatch(Categories, idea.words, PlannerIdeaWords,
                        IF idea.blank THEN "unknown" ELSE "web-app")
           P == PlannerTypeWords
           W == TypeWords(type)
<1>1. NormalizeCategory(type, idea) = FirstMatch(Categories, W, P, later)
  BY DEF NormalizeCategory
<1>2. /\ P["web-app"] = {"crm", "saas", "platform", "dashboard", "web-app", "app"}
      /\ P["website"] = {"website", "landing page", "marketing site", "site"}
      /\ P["automation"] = {"automation", "workflow", "integration", "zap", "process"}
      /\ P["ai-agent"] = {"agent", "copilot", "assistant", "multi-agent", "ai-agent", "agent-system"}
      /\ P["api"] = {"api", "backend", "service"}
  BY TheCategories DEF PlannerTypeWords
<1>3. /\ DOMAIN Categories = 1..5 /\ DOMAIN Categories \in SUBSET Nat
      /\ Categories[1] = "web-app" /\ Categories[2] = "website" /\ Categories[3] = "automation"
      /\ Categories[4] = "ai-agent" /\ Categories[5] = "api"
  BY TheCategories
<1> HIDE DEF P, later
<1>4. CASE type = "web-app"
  <2>1. W = {"web-app", "app"}
    BY <1>4 DEF TypeWords
  <2>2. "web-app" \in W \cap P["web-app"]
    BY <1>2, <2>1
  <2>3. 1 \in DOMAIN Categories /\ \A j \in DOMAIN Categories : j < 1 => FALSE
    BY <1>3
  <2>4. /\ Matches(W, P[Categories[1]])
        /\ \A j \in DOMAIN Categories : j < 1 => ~Matches(W, P[Categories[j]])
    BY <1>3, <2>2, <2>3 DEF Matches
  <2> HIDE DEF W
  <2>5. FirstMatch(Categories, W, P, later) = Categories[1]
    BY <1>3, <2>3, <2>4, MatchesAt
  <2> QED
    BY <1>1, <1>3, <1>4, <2>5
<1>5. CASE type = "website"
  <2>1. W = {"website", "site"}
    BY <1>5 DEF TypeWords
  <2>2. "website" \in W \cap P["website"]
    BY <1>2, <2>1
  <2>3. W \cap P["web-app"] = {}
    BY <1>2, <2>1
  <2>4. 2 \in DOMAIN Categories /\ \A j \in DOMAIN Categories : j < 2 => j \in {1}
    BY <1>3
  <2>5. /\ Matches(W, P[Categories[2]])
        /\ \A j \in DOMAIN Categories : j < 2 => ~Matches(W, P[Categories[j]])
    BY <1>3, <2>2, <2>3, <2>4 DEF Matches
  <2> HIDE DEF W
  <2>6. FirstMatch(Categories, W, P, later) = Categories[2]
    BY <1>3, <2>4, <2>5, MatchesAt
  <2> QED
    BY <1>1, <1>3, <1>5, <2>6
<1>6. CASE type = "automation"
  <2>1. W = {"automation"}
    BY <1>6 DEF TypeWords
  <2>2. "automation" \in W \cap P["automation"]
    BY <1>2, <2>1
  <2>3. W \cap P["web-app"] = {}
    BY <1>2, <2>1
  <2>4. W \cap P["website"] = {}
    BY <1>2, <2>1
  <2>5. 3 \in DOMAIN Categories /\ \A j \in DOMAIN Categories : j < 3 => j \in {1, 2}
    BY <1>3
  <2>6. /\ Matches(W, P[Categories[3]])
        /\ \A j \in DOMAIN Categories : j < 3 => ~Matches(W, P[Categories[j]])
    BY <1>3, <2>2, <2>3, <2>4, <2>5 DEF Matches
  <2> HIDE DEF W
  <2>7. FirstMatch(Categories, W, P, later) = Categories[3]
    BY <1>3, <2>5, <2>6, MatchesAt
  <2> QED
    BY <1>1, <1>3, <1>6, <2>7
<1>7. CASE type = "ai-agent"
  <2>1. W = {"ai-agent", "agent"}
    BY <1>7 DEF TypeWords
  <2>2. "ai-agent" \in W \cap P["ai-agent"]
    BY <1>2, <2>1
  <2>3. W \cap P["web-app"] = {}
    BY <1>2, <2>1
  <2>4. W \cap P["website"] = {}
    BY <1>2, <2>1
  <2>5. W \cap P["automation"] = {}
    BY <1>2, <2>1
  <2>6. 4 \in DOMAIN Categories /\ \A j \in DOMAIN Categories : j < 4 => j \in {1, 2, 3}
    BY <1>3
  <2>7. /\ Matches(W, P[Categories[4]])
        /\ \A j \in DOMAIN Categories : j < 4 => ~Matches(W, P[Categories[j]])
    BY <1>3, <2>2, <2>3, <2>4, <2>5, <2>6 DEF Matches
  <2> HIDE DEF W
  <2>8. FirstMatch(Categories, W, P, later) = Categories[4]
    BY <1>3, <2>6, <2>7, MatchesAt
  <2> QED
    BY <1>1, <1>3, <1>7, <2>8
<1>8. CASE type = "api"
  <2>1. W = {"api"}
    BY <1>8 DEF TypeWords
  <2>2. "api" \in W \cap P["api"]
    BY <1>2, <2>1
  <2>3. W \cap P["web-app"] = {}
    BY <1>2, <2>1
  <2>4. W \cap P["website"] = {}
    BY <1>2, <2>1
  <2>5. W \cap P["automation"] = {}
    BY <1>2, <2>1
  <2>6. W \cap P["ai-agent"] = {}
    BY <1>2, <2>1
  <2>7. 5 \in DOMAIN Categories /\ \A j \in DOMAIN Categories : j < 5 => j \in {1, 2, 3, 4}
    BY <1>3
  <2>8. /\ Matches(W, P[Categories[5]])
        /\ \A j \in DOMAIN Categories : j < 5 => ~Matches(W, P[Categories[j]])
    BY <1>3, <2>2, <2>3, <2>4, <2>5, <2>6, <2>7 DEF Matches
  <2> HIDE DEF W
  <2>9. FirstMatch(Categories, W, P, later) = Categories[5]
    BY <1>3, <2>7, <2>8, MatchesAt
  <2> QED
    BY <1>1, <1>3, <1>8, <2>9
<1> QED
  BY <1>4, <1>5, <1>6, <1>7, <1>8

\* An idea whose type intake does not know holds none of the words the planner
\* looks for, but those for an assistant.
LEMMA PlannerGuesses ==
    ASSUME NEW idea, InferSolutionCategory(idea.words) = "unknown"
    PROVE  NormalizeCategory("unknown", idea) =
              IF idea.words \cap {"assistant", "copilot"} # {} THEN "ai-agent"
              ELSE IF idea.blank THEN "unknown" ELSE "web-app"
<1> DEFINE last == IF idea.blank THEN "unknown" ELSE "web-app"
           later == FirstMatch(Categories, idea.words, PlannerIdeaWords, last)
           W == idea.words
           P == PlannerIdeaWords
           I == IntakeWords
<1>1. NormalizeCategory("unknown", idea) = later
  <2>1. TypeWords("unknown") = {}
    BY DEF TypeWords
  <2>2. \A j \in DOMAIN Categories : ~Matches({}, PlannerTypeWords[Categories[j]])
    BY DEF Matches
  <2>3. FirstMatch(Categories, {}, PlannerTypeWords, later) = later
    BY <2>2, MatchesNowhere
  <2> HIDE DEF later
  <2> QED
    BY <2>1, <2>3 DEF NormalizeCategory, later, last
<1>2. \A i \in DOMAIN Categories : W \cap I[Categories[i]] = {}
  <2> DEFINE found == {i \in DOMAIN Categories : W \cap I[Categories[i]] # {}}
  <2>1. SUFFICES ASSUME found # {} PROVE FALSE
    OBVIOUS
  <2>2. found \in SUBSET Nat
    BY TheCategories
  <2>3. InferSolutionCategory(W) = Categories[Min(found)]
    BY <2>1 DEF InferSolutionCategory, FirstMatch
  <2>4. found \subseteq DOMAIN Categories
    OBVIOUS
  <2> HIDE DEF found
  <2>5. Min(found) \in found
    BY <2>1, <2>2, LeastOfNats
  <2>6. Min(found) \in 1..5
    BY <2>4, <2>5, TheCategories
  <2>7. Categories[Min(found)] # "unknown"
    BY <2>6, TheCategories
  <2> QED
    BY <2>3, <2>7
<1>3. /\ I["website"] = {"landing page", "website", "homepage", "marketing site"}
      /\ I["automation"] =
            {"automation", "automate", "workflow", "zapier", "make.com", "n8n", "reminder"}
      /\ I["ai-agent"] = {"agent", "triage", "tool-using", "assistant system", "autonomous"}
      /\ I["api"] = {"api", "backend", "endpoint", "microservice"}
  BY TheCategories DEF IntakeWords
<1>4. /\ P["web-app"] = {} /\ P["website"] = {"website", "landing page"}
      /\ P["automation"] = {"automation", "workflow"}
      /\ P["ai-agent"] = {"agent", "assistant", "copilot"}
      /\ P["api"] = {"api", "backend"}
  BY TheCategories DEF PlannerIdeaWords
<1>5. /\ W \cap I["website"] = {} /\ W \cap I["automation"] = {}
      /\ W \cap I["ai-agent"] = {} /\ W \cap I["api"] = {}
  BY <1>2, TheCategories
<1> HIDE DEF P, I, W, last
<1>6. W \cap P["web-app"] = {}
  BY <1>4
<1>7. W \cap P["website"] = {}
  BY <1>3, <1>4, <1>5
<1>8. W \cap P["automation"] = {}
  BY <1>3, <1>4, <1>5
<1>9. W \cap P["api"] = {}
  BY <1>3, <1>4, <1>5
<1>10. "agent" \notin W
  BY <1>3, <1>5
<1>11. W \cap P["ai-agent"] # {} <=> W \cap {"assistant", "copilot"} # {}
  BY <1>4, <1>10
<1>12. CASE W \cap {"assistant", "copilot"} # {}
  <2>1. 4 \in DOMAIN Categories /\ \A j \in DOMAIN Categories : j < 4 => j \in {1, 2, 3}
    BY TheCategories
  <2>2. /\ Matches(W, P[Categories[4]])
        /\ \A j \in DOMAIN Categories : j < 4 => ~Matches(W, P[Categories[j]])
    BY <1>6, <1>7, <1>8, <1>11, <1>12, <2>1, TheCategories DEF Matches
  <2>3. FirstMatch(Categories, W, P, last) = Categories[4]
    BY <2>1, <2>2, MatchesAt, TheCategories
  <2> QED
    BY <1>1, <1>12, <2>3, TheCategories DEF W, P, last
<1>13. CASE ~(W \cap {"assistant", "copilot"} # {})
  <2>1. \A j \in DOMAIN Categories : ~Matches(W, P[Categories[j]])
    <3>1. \A j \in DOMAIN Categories : j \in {1, 2, 3, 4, 5}
      BY TheCategories
    <3> QED
      BY <1>6, <1>7, <1>8, <1>9, <1>11, <1>13, <3>1, TheCategories DEF Matches
  <2>2. FirstMatch(Categories, W, P, last) = last
    BY <2>1, MatchesNowhere
  <2> QED
    BY <1>1, <1>13, <2>2 DEF W, P, last
<1> QED
  BY <1>12, <1>13

\* So does the selector, which looks for the types in an order of its own.
LEMMA SelectorAgrees ==
    ASSUME NEW type \in {"web-app", "website", "automation", "ai-agent", "api"}
    PROVE  NormalizeProjectType(type) = type
<1> DEFINE order == << "website", "ai-agent", "automation", "api", "web-app" >>
           P == SelectorWords
           W == TypeWords(type)
<1>1. NormalizeProjectType(type) = FirstMatch(order, W, P, "unknown")
  BY DEF NormalizeProjectType
<1>2. /\ P["web-app"] = {"app", "crm", "portal", "dashboard"}
      /\ P["website"] = {"website", "landing"}
      /\ P["automation"] = {"automation"}
      /\ P["ai-agent"] = {"agent"}
      /\ P["api"] = {"api"}
  BY TheCategories DEF SelectorWords
<1>3. /\ DOMAIN order = 1..5 /\ DOMAIN order \in SUBSET Nat
      /\ order[1] = "website" /\ order[2] = "ai-agent" /\ order[3] = "automation"
      /\ order[4] = "api" /\ order[5] = "web-app"
  OBVIOUS
<1> HIDE DEF P, order
<1>4. CASE type = "web-app"
  <2>1. W = {"web-app", "app"}
    BY <1>4 DEF TypeWords
  <2>2. "app" \in W \cap P["web-app"]
    BY <1>2, <2>1
  <2>3. W \cap P["website"] = {}
    BY <1>2, <2>1
  <2>4. W \cap P["ai-agent"] = {}
    BY <1>2, <2>1
  <2>5. W \cap P["automation"] = {}
    BY <1>2, <2>1
  <2>6. W \cap P["api"] = {}
    BY <1>2, <2>1
  <2>7. 5 \in DOMAIN order /\ \A j \in DOMAIN order : j < 5 => j \in {1, 2, 3, 4}
    BY <1>3
  <2>8. /\ Matches(W, P[order[5]])
        /\ \A j \in DOMAIN order : j < 5 => ~Matches(W, P[order[j]])
    BY <1>3, <2>2, <2>3, <2>4, <2>5, <2>6, <2>7 DEF Matches
  <2> HIDE DEF W
  <2>9. FirstMatch(order, W, P, "unknown") = order[5]
    BY <1>3, <2>7, <2>8, MatchesAt
  <2> QED
    BY <1>1, <1>3, <1>4, <2>9
<1>5. CASE type = "website"
  <2>1. W = {"website", "site"}
    BY <1>5 DEF TypeWords
  <2>2. "website" \in W \cap P["website"]
    BY <1>2, <2>1
  <2>3. 1 \in DOMAIN order /\ \A j \in DOMAIN order : j < 1 => FALSE
    BY <1>3
  <2>4. /\ Matches(W, P[order[1]])
        /\ \A j \in DOMAIN order : j < 1 => ~Matches(W, P[order[j]])
    BY <1>3, <2>2, <2>3 DEF Matches
  <2> HIDE DEF W
  <2>5. FirstMatch(order, W, P, "unknown") = order[1]
    BY <1>3, <2>3, <2>4, MatchesAt
  <2> QED
    BY <1>1, <1>3, <1>5, <2>5
<1>6. CASE type = "automation"
  <2>1. W = {"automation"}
    BY <1>6 DEF TypeWords
  <2>2. "automation" \in W \cap P["automation"]
    BY <1>2, <2>1
  <2>3. W \cap P["website"] = {}
    BY <1>2, <2>1
  <2>4. W \cap P["ai-agent"] = {}
    BY <1>2, <2>1
  <2>5. 3 \in DOMAIN order /\ \A j \in DOMAIN order : j < 3 => j \in {1, 2}
    BY <1>3
  <2>6. /\ Matches(W, P[order[3]])
        /\ \A j \in DOMAIN order : j < 3 => ~Matches(W, P[order[j]])
    BY <1>3, <2>2, <2>3, <2>4, <2>5 DEF Matches
  <2> HIDE DEF W
  <2>7. FirstMatch(order, W, P, "unknown") = order[3]
    BY <1>3, <2>5, <2>6, MatchesAt
  <2> QED
    BY <1>1, <1>3, <1>6, <2>7
<1>7. CASE type = "ai-agent"
  <2>1. W = {"ai-agent", "agent"}
    BY <1>7 DEF TypeWords
  <2>2. "agent" \in W \cap P["ai-agent"]
    BY <1>2, <2>1
  <2>3. W \cap P["website"] = {}
    BY <1>2, <2>1
  <2>4. 2 \in DOMAIN order /\ \A j \in DOMAIN order : j < 2 => j \in {1}
    BY <1>3
  <2>5. /\ Matches(W, P[order[2]])
        /\ \A j \in DOMAIN order : j < 2 => ~Matches(W, P[order[j]])
    BY <1>3, <2>2, <2>3, <2>4 DEF Matches
  <2> HIDE DEF W
  <2>6. FirstMatch(order, W, P, "unknown") = order[2]
    BY <1>3, <2>4, <2>5, MatchesAt
  <2> QED
    BY <1>1, <1>3, <1>7, <2>6
<1>8. CASE type = "api"
  <2>1. W = {"api"}
    BY <1>8 DEF TypeWords
  <2>2. "api" \in W \cap P["api"]
    BY <1>2, <2>1
  <2>3. W \cap P["website"] = {}
    BY <1>2, <2>1
  <2>4. W \cap P["ai-agent"] = {}
    BY <1>2, <2>1
  <2>5. W \cap P["automation"] = {}
    BY <1>2, <2>1
  <2>6. 4 \in DOMAIN order /\ \A j \in DOMAIN order : j < 4 => j \in {1, 2, 3}
    BY <1>3
  <2>7. /\ Matches(W, P[order[4]])
        /\ \A j \in DOMAIN order : j < 4 => ~Matches(W, P[order[j]])
    BY <1>3, <2>2, <2>3, <2>4, <2>5, <2>6 DEF Matches
  <2> HIDE DEF W
  <2>8. FirstMatch(order, W, P, "unknown") = order[4]
    BY <1>3, <2>6, <2>7, MatchesAt
  <2> QED
    BY <1>1, <1>3, <1>8, <2>8
<1> QED
  BY <1>4, <1>5, <1>6, <1>7, <1>8

----------------------------------------------------------------------------
\* The tasks every plan starts and ends with.
HeadTasks ==
    << PlannedTask("clarify-scope", {}),
       PlannedTask("define-architecture", {"clarify-scope"}),
       PlannedTask("identify-skills", {"define-architecture"}),
       PlannedTask("validate-risks", {"clarify-scope", "define-architecture"}) >>

TailTasks(category) ==
    << PlannedTask("choose-implementation-path", ImplementationDependencies(category)),
       PlannedTask("prepare-execution-report",
           {"choose-implementation-path", "identify-skills", "validate-risks"}) >>

\* Where the tasks of a plan are: four, those of the category, two.
LEMMA PlanOf ==
    ASSUME NEW category
    PROVE  LET ids  == CategoryTaskIds(category)
               plan == BuildPlan(category)
               n    == Len(ids)
           IN  /\ n \in Nat /\ DOMAIN ids = 1..n /\ DOMAIN plan = 1..(n + 6)
               /\ \A i \in 1..4 : plan[i] = HeadTasks[i]
               /\ \A i \in 1..n : plan[i + 4] = CategoryTasks(category)[i]
               /\ \A i \in 1..2 : plan[i + n + 4] = TailTasks(category)[i]
<1> DEFINE ids == CategoryTaskIds(category)
           n == Len(ids)
           mid == CategoryTasks(category)
           tail == TailTasks(category)
           Tasks == {HeadTasks[i] : i \in 1..4} \cup {mid[i] : i \in 1..n} \cup {tail[i] : i \in 1..2}
<1>1. n \in Nat /\ DOMAIN ids = 1..n
  <2>1. \/ ids = << "design-content-structure", "plan-launch-analytics" >>
        \/ ids = << "map-workflow-systems", "define-failure-handling" >>
        \/ ids = << "define-agent-workflows", "design-evaluation-safety" >>
        \/ ids = << "design-core-user-flows", "plan-delivery-slices" >>
        \/ ids = << "define-api-contracts" >>
        \/ ids = << >>
    BY DEF CategoryTaskIds
  <2> HIDE DEF ids
  <2> QED
    BY <2>1
<1>2. DOMAIN mid = 1..n
  BY <1>1 DEF CategoryTasks
<1>3. DOMAIN HeadTasks = 1..4 /\ DOMAIN tail = 1..2
  BY DEF HeadTasks, TailTasks
<1>4. mid = [i \in 1..n |-> mid[i]] /\ HeadTasks = [i \in 1..4 |-> HeadTasks[i]] /\ tail = [i \in 1..2 |-> tail[i]]
  <2>1. mid = [i \in 1..n |-> mid[i]]
    BY <1>1, <1>2 DEF CategoryTasks
  <2>2. HeadTasks = [i \in 1..4 |-> HeadTasks[i]]
    BY DEF HeadTasks
  <2>3. tail = [i \in 1..2 |-> tail[i]]
    BY DEF TailTasks
  <2> QED
    BY <2>1, <2>2, <2>3
<1>5. BuildPlan(category) = HeadTasks \o mid \o tail
  BY DEF BuildPlan, HeadTasks, TailTasks
<1> HIDE DEF ids, mid, tail, n
<1>6. HeadTasks \in Seq(Tasks) /\ mid \in Seq(Tasks) /\ tail \in Seq(Tasks)
  <2> DEFINE h == HeadTasks
  <2>1. \A i \in 1..4 : h[i] \in Tasks
    OBVIOUS
  <2>2. \A i \in 1..n : mid[i] \in Tasks
    OBVIOUS
  <2>3. \A i \in 1..2 : tail[i] \in Tasks
    OBVIOUS
  <2>4. h = [i \in 1..4 |-> h[i]]
    BY <1>4
  <2> HIDE DEF Tasks, h
  <2>5. h \in Seq(Tasks)
    BY <2>1, <2>4
  <2>6. mid \in Seq(Tasks)
    <3>1. [i \in 1..n |-> mid[i]] \in Seq(Tasks)
      BY <1>1, <2>2
    <3> QED
      BY <1>4, <3>1
  <2>7. tail \in Seq(Tasks)
    BY <1>4, <2>3
  <2> QED
    BY <2>5, <2>6, <2>7 DEF h
<1>7. Len(HeadTasks) = 4 /\ Len(mid) = n /\ Len(tail) = 2
  BY <1>1, <1>2, <1>3, <1>6
<1> HIDE DEF Tasks
<1> DEFINE first == HeadTasks \o mid
<1>8. /\ first \in Seq(Tasks) /\ Len(first) = n + 4
      /\ \A i \in 1..4 : first[i] = HeadTasks[i]
      /\ \A i \in 1..n : first[i + 4] = mid[i]
  <2> DEFINE h == HeadTasks
  <2>1. /\ first \in Seq(Tasks) /\ Len(first) = Len(h) + Len(mid)
        /\ \A i \in 1..(Len(h) + Len(mid)) : first[i] = IF i <= Len(h) THEN h[i] ELSE mid[i - Len(h)]
    BY <1>6, ConcatProperties
  <2> HIDE DEF h, first
  <2>2. Len(h) = 4 /\ Len(mid) = n
    BY <1>7 DEF h
  <2>3. \A i \in 1..n : i + 4 \in 1..(4 + n) /\ ~(i + 4 <= 4) /\ (i + 4) - 4 = i
    BY <1>1
  <2>4. \A i \in 1..4 : i \in 1..(4 + n) /\ i <= 4
    BY <1>1
  <2> QED
    BY <1>1, <2>1, <2>2, <2>3, <2>4 DEF h
<1> HIDE DEF first
<1> DEFINE plan == first \o tail
<1>9. /\ plan \in Seq(Tasks) /\ Len(plan) = n + 6
      /\ \A i \in 1..(n + 4) : plan[i] = first[i]
      /\ \A i \in 1..2 : plan[i + n + 4] = tail[i]
  <2>1. /\ plan \in Seq(Tasks) /\ Len(plan) = Len(first) + Len(tail)
        /\ \A i \in 1..(Len(first) + Len(tail)) :
              plan[i] = IF i <= Len(first) THEN first[i] ELSE tail[i - Len(first)]
    BY <1>6, <1>8, ConcatProperties
  <2> HIDE DEF plan
  <2>2. Len(first) = n + 4 /\ Len(tail) = 2
    BY <1>7, <1>8
  <2>3. \A i \in 1..2 : /\ i + n + 4 \in 1..((n + 4) + 2) /\ ~(i + n + 4 <= n + 4)
                         /\ (i + n + 4) - (n + 4) = i
    BY <1>1
  <2>4. \A i \in 1..(n + 4) : i \in 1..((n + 4) + 2) /\ i <= n + 4
    BY <1>1
  <2>5. (n + 4) + 2 = n + 6
    BY <1>1
  <2> QED
    BY <2>1, <2>2, <2>3, <2>4, <2>5
<1>10. BuildPlan(category) = plan
  BY <1>5 DEF first
<1> HIDE DEF plan
<1>11. DOMAIN plan = 1..(n + 6)
  BY <1>9
<1>12. \A i \in 1..4 : plan[i] = HeadTasks[i]
  BY <1>1, <1>8, <1>9
<1>13. \A i \in 1..n : plan[i + 4] = mid[i]
  BY <1>1, <1>8, <1>9
<1> QED
  BY <1>1, <1>9, <1>10, <1>11, <1>12, <1>13 DEF ids, mid, tail, n

\* What the tasks of a plan are called, and what they wait for.
LEMMA PlanTasks ==
    ASSUME NEW category
    PROVE  LET ids  == CategoryTaskIds(category)
               plan == BuildPlan(category)
               n    == Len(ids)
           IN  /\ plan[1].id = "clarify-scope" /\ plan[1].dependencies = {}
               /\ plan[2].id = "define-architecture" /\ plan[2].dependencies = {"clarify-scope"}
               /\ plan[3].id = "identify-skills" /\ plan[3].dependencies = {"define-architecture"}
               /\ plan[4].id = "validate-risks"
               /\ plan[4].dependencies = {"clarify-scope", "define-architecture"}
               /\ \A i \in 1..n : /\ plan[i + 4].id = ids[i]
                                  /\ plan[i + 4].dependencies =
                                       IF i = 1 THEN {"clarify-scope", "define-architecture"}
                                       ELSE {ids[1], "validate-risks"}
               /\ plan[n + 5].id = "choose-implementation-path"
               /\ plan[n + 5].dependencies = ToSet(ids) \cup {"identify-skills", "validate-risks"}
               /\ plan[n + 6].id = "prepare-execution-report"
               /\ plan[n + 6].dependencies =
                    {"choose-implementation-path", "identify-skills", "validate-risks"}
<1> DEFINE ids == CategoryTaskIds(category)
           plan == BuildPlan(category)
           n == Len(ids)
<1>1. /\ n \in Nat /\ DOMAIN ids = 1..n
      /\ \A i \in 1..4 : plan[i] = HeadTasks[i]
      /\ \A i \in 1..n : plan[i + 4] = CategoryTasks(category)[i]
      /\ \A i \in 1..2 : plan[i + n + 4] = TailTasks(category)[i]
  BY PlanOf
<1> HIDE DEF plan, n, ids
<1>2. /\ plan[1] = HeadTasks[1] /\ plan[2] = HeadTasks[2] /\ plan[3] = HeadTasks[3]
      /\ plan[4] = HeadTasks[4]
  BY <1>1
<1>3. plan[n + 5] = TailTasks(category)[1] /\ plan[n + 6] = TailTasks(category)[2]
  <2>1. 1 + n + 4 = n + 5 /\ 2 + n + 4 = n + 6
    BY <1>1
  <2> QED
    BY <1>1, <2>1
<1>4. /\ HeadTasks[1].id = "clarify-scope" /\ HeadTasks[1].dependencies = {}
      /\ HeadTasks[2].id = "define-architecture" /\ HeadTasks[2].dependencies = {"clarify-scope"}
      /\ HeadTasks[3].id = "identify-skills" /\ HeadTasks[3].dependencies = {"define-architecture"}
      /\ HeadTasks[4].id = "validate-risks"
      /\ HeadTasks[4].dependencies = {"clarify-scope", "define-architecture"}
  BY DEF HeadTasks, PlannedTask
<1>5. /\ TailTasks(category)[1].id = "choose-implementation-path"
      /\ TailTasks(category)[1].dependencies = ToSet(ids) \cup {"identify-skills", "validate-risks"}
      /\ TailTasks(category)[2].id = "prepare-execution-report"
      /\ TailTasks(category)[2].dependencies =
           {"choose-implementation-path", "identify-skills", "validate-risks"}
  BY DEF TailTasks, PlannedTask, ImplementationDependencies, ids
<1>6. ASSUME NEW i \in 1..n
      PROVE  /\ plan[i + 4].id = ids[i]
             /\ plan[i + 4].dependencies =
                  IF i = 1 THEN {"clarify-scope", "define-architecture"} ELSE {ids[1], "validate-risks"}
  <2>1. CategoryTasks(category)[i] =
          PlannedTask(ids[i], IF i = 1 THEN {"clarify-scope", "define-architecture"}
                              ELSE {ids[1], "validate-risks"})
    BY <1>1 DEF CategoryTasks, ids
  <2> DEFINE e == CategoryTasks(category)[i]
  <2>2. e.id = ids[i]
    BY <2>1 DEF PlannedTask
  <2>3. e.dependencies = IF i = 1 THEN {"clarify-scope", "define-architecture"}
                         ELSE {ids[1], "validate-risks"}
    BY <2>1 DEF PlannedTask
  <2>4. plan[i + 4] = e
    BY <1>1
  <2> HIDE DEF e
  <2> QED
    BY <2>2, <2>3, <2>4
<1> QED
  BY <1>2, <1>3, <1>4, <1>5, <1>6 DEF plan, n, ids

\* A task waits for tasks before it, and the report, in the end, for all.
LEMMA PlanIsOrdered ==
    ASSUME NEW category
    PROVE  LET plan == BuildPlan(category)
               all  == {plan[i].id : i \in DOMAIN plan}
           IN  /\ \A i \in DOMAIN plan : plan[i].dependencies \subseteq {plan[j].id : j \in 1..(i - 1)}
               /\ \A S \in SUBSET all :
                     /\ "prepare-execution-report" \in S
                     /\ \A i \in DOMAIN plan : plan[i].id \in S => plan[i].dependencies \subseteq S
                     => S = all
<1> DEFINE ids == CategoryTaskIds(category)
           plan == BuildPlan(category)
           n == Len(ids)
           all == {plan[i].id : i \in DOMAIN plan}
<1>1. n \in Nat /\ DOMAIN ids = 1..n /\ DOMAIN plan = 1..(n + 6)
  BY PlanOf
<1>2. /\ plan[1].id = "clarify-scope" /\ plan[1].dependencies = {}
      /\ plan[2].id = "define-architecture" /\ plan[2].dependencies = {"clarify-scope"}
      /\ plan[3].id = "identify-skills" /\ plan[3].dependencies = {"define-architecture"}
      /\ plan[4].id = "validate-risks"
      /\ plan[4].dependencies = {"clarify-scope", "define-architecture"}
  BY PlanTasks
<1>3. \A i \in 1..n : /\ plan[i + 4].id = ids[i]
                      /\ plan[i + 4].dependencies =
                           IF i = 1 THEN {"clarify-scope", "define-architecture"}
                           ELSE {ids[1], "validate-risks"}
  BY PlanTasks
<1>4. /\ plan[n + 5].id = "choose-implementation-path"
      /\ plan[n + 5].dependencies = ToSet(ids) \cup {"identify-skills", "validate-risks"}
      /\ plan[n + 6].id = "prepare-execution-report"
      /\ plan[n + 6].dependencies = {"choose-implementation-path", "identify-skills", "validate-risks"}
  BY PlanTasks
<1>5. ToSet(ids) = {ids[i] : i \in 1..n}
  BY <1>1 DEF ToSet
<1> HIDE DEF plan, n, ids
<1>6. \A i \in 1..(n + 6) : i \in 1..4 \/ i - 4 \in 1..n \/ i = n + 5 \/ i = n + 6
  BY <1>1
<1>7. ASSUME NEW i \in DOMAIN plan
      PROVE  plan[i].dependencies \subseteq {plan[j].id : j \in 1..(i - 1)}
  <2> DEFINE before == {plan[j].id : j \in 1..(i - 1)}
  <2>1. CASE i \in 1..4
    <3>1. i = 1 \/ i = 2 \/ i = 3 \/ i = 4
      BY <2>1
    <3>2. CASE i = 1
      BY <1>2, <3>2
    <3>3. CASE i = 2
      BY <1>2, <3>3
    <3>4. CASE i = 3
      <4>1. 2 \in 1..(i - 1)
        BY <3>4
      <4> QED
        BY <1>2, <3>4, <4>1
    <3>5. CASE i = 4
      <4>1. 1 \in 1..(i - 1) /\ 2 \in 1..(i - 1)
        BY <3>5
      <4> QED
        BY <1>2, <3>5, <4>1
    <3> QED
      BY <3>1, <3>2, <3>3, <3>4, <3>5
  <2>2. ASSUME i > 4
        PROVE  {"clarify-scope", "define-architecture", "identify-skills", "validate-risks"} \subseteq before
    <3>1. 1 \in 1..(i - 1) /\ 2 \in 1..(i - 1) /\ 3 \in 1..(i - 1) /\ 4 \in 1..(i - 1)
      BY <1>1, <2>2
    <3> QED
      BY <1>2, <3>1
  <2>3. CASE i - 4 \in 1..n
    <3>1. i > 4 /\ i = (i - 4) + 4
      BY <1>1, <2>3
    <3>2. CASE i - 4 = 1
      BY <1>3, <2>2, <2>3, <3>1, <3>2
    <3>3. CASE i - 4 # 1
      <4>1. 1 \in 1..n /\ 5 \in 1..(i - 1) /\ 1 + 4 = 5
        BY <1>1, <2>3, <3>3
      <4>2. plan[5].id = ids[1]
        BY <1>3, <4>1
      <4>3. ids[1] \in before
        BY <4>1, <4>2
      <4> QED
        BY <1>3, <2>2, <2>3, <3>1, <3>3, <4>3
    <3> QED
      BY <3>2, <3>3
  <2>4. ASSUME i \in {n + 5, n + 6} PROVE ToSet(ids) \subseteq before
    <3>1. \A k \in 1..n : k + 4 \in 1..(i - 1)
      BY <1>1, <2>4
    <3> QED
      BY <1>3, <1>5, <3>1
  <2>5. CASE i = n + 5
    <3>1. i > 4
      BY <1>1, <2>5
    <3> QED
      BY <1>4, <2>2, <2>4, <2>5, <3>1
  <2>6. CASE i = n + 6
    <3>1. i > 4 /\ n + 5 \in 1..(i - 1)
      BY <1>1, <2>6
    <3>2. "choose-implementation-path" \in before
      BY <1>4, <3>1
    <3> QED
      BY <1>4, <2>2, <2>6, <3>1, <3>2
  <2> QED
    BY <1>1, <1>6, <2>1, <2>3, <2>5, <2>6
<1>8. ASSUME NEW S \in SUBSET all, "prepare-execution-report" \in S,
             \A i \in DOMAIN plan : plan[i].id \in S => plan[i].dependencies \subseteq S
      PROVE  S = all
  <2>1. /\ {1, 2, 3, 4, n + 5, n + 6} \subseteq DOMAIN plan
        /\ \A i \in 1..n : i + 4 \in DOMAIN plan
    BY <1>1
  <2>2. plan[n + 6].id \in S /\ plan[n + 5].id \in S /\ plan[3].id \in S /\ plan[4].id \in S
    BY <1>2, <1>4, <1>8, <2>1
  <2>3. plan[2].id \in S /\ plan[1].id \in S
    BY <1>2, <1>8, <2>1, <2>2
  <2>4. ToSet(ids) \subseteq S
    BY <1>4, <1>8, <2>1, <2>2
  <2>5. \A i \in 1..n : plan[i + 4].id \in S
    BY <1>3, <1>5, <2>4
  <2>6. ASSUME NEW i \in DOMAIN plan PROVE plan[i].id \in S
    <3>1. CASE i \in 1..4
      <4>1. i = 1 \/ i = 2 \/ i = 3 \/ i = 4
        BY <3>1
      <4> QED
        BY <2>2, <2>3, <4>1
    <3>2. CASE i - 4 \in 1..n
      <4>1. i = (i - 4) + 4
        BY <1>1
      <4> QED
        BY <2>5, <3>2, <4>1
    <3> QED
      BY <1>1, <1>6, <2>2, <3>1, <3>2
  <2> QED
    BY <2>6
<1> QED
  BY <1>7, <1>8 DEF plan

----------------------------------------------------------------------------
\* The skills that score enough, compared by compareScoredSkills.
Comparable(good, score) ==
    /\ IsFiniteSet(good)
    /\ \A s \in good : score[s] \in Int /\ s.priority \in Int /\ s.id \in Nat
    /\ \A s, t \in good : s.id = t.id => s = t

Earlier(good, score, s) == {t \in good : Before(t, s, score)}

\* How many come before a skill: as many as come before one before it, and
\* at least that one more.
LEMMA RanksRise ==
    ASSUME NEW good, NEW score, Comparable(good, score), NEW s \in good
    PROVE  LET rank(u) == Cardinality(Earlier(good, score, u))
           IN  /\ rank(s) \in Nat
               /\ \A t \in Earlier(good, score, s) : rank(t) \in Nat /\ rank(t) < rank(s)
<1> DEFINE of(u) == Earlier(good, score, u)
<1>1. \A u : of(u) \in SUBSET good
  BY DEF Earlier
<1>2. IsFiniteSet(good)
  BY DEF Comparable
<1> HIDE DEF of
<1>3. ASSUME NEW u PROVE IsFiniteSet(of(u)) /\ Cardinality(of(u)) \in Nat
  <2>1. IsFiniteSet(of(u))
    BY <1>1, <1>2, FS_Subset
  <2> QED
    BY <2>1, FS_CardinalityType
<1>4. ASSUME NEW t \in of(s) PROVE Cardinality(of(t)) < Cardinality(of(s))
  <2>1. t \in good
    BY <1>1
  <2>2. t \notin of(t)
    BY <2>1 DEF of, Earlier, Before, Comparable
  <2>3. of(t) \subseteq of(s)
    <3>1. \A u \in good : Before(u, t, score) /\ Before(t, s, score) => Before(u, s, score)
      BY <2>1 DEF Before, Comparable
    <3> QED
      BY <3>1 DEF of, Earlier
  <2>4. IsFiniteSet(of(s) \ {t}) /\ Cardinality(of(s) \ {t}) = Cardinality(of(s)) - 1
    BY <1>3, FS_RemoveElement
  <2>5. of(t) \in SUBSET (of(s) \ {t})
    BY <2>2, <2>3
  <2>6. Cardinality(of(t)) <= Cardinality(of(s) \ {t})
    BY <2>4, <2>5, FS_Subset
  <2> QED
    BY <1>3, <2>4, <2>6
<1> QED
  BY <1>3, <1>4 DEF of

\* The skills before which there are fewer than the most that are wanted: none
\* that is left out scores more, and all are in while there is room.
LEMMA SelectionIsBest ==
    ASSUME NEW good, NEW score, Comparable(good, score), NEW most \in Nat \ {0},
           NEW selected \in SUBSET good,
           \A s \in good : s \in selected <=> Cardinality(Earlier(good, score, s)) < most
    PROVE  /\ \A s \in selected, t \in good \ selected : score[t] <= score[s]
           /\ Cardinality(selected) < most => selected = good
<1> DEFINE rank(s) == Cardinality(Earlier(good, score, s))
<1>1. \A s \in good : rank(s) \in Nat
  BY RanksRise
<1>2. \A s \in good : \A t \in Earlier(good, score, s) : rank(t) \in Nat /\ rank(t) < rank(s)
  BY RanksRise
<1>3. ASSUME NEW s \in selected, NEW t \in good \ selected, ~(score[t] <= score[s]) PROVE FALSE
  <2>1. score[t] > score[s]
    BY <1>3 DEF Comparable
  <2>2. t \in Earlier(good, score, s)
    BY <2>1 DEF Earlier, Before
  <2>3. rank(t) < rank(s) /\ rank(s) < most /\ ~(rank(t) < most)
    BY <1>2, <2>2
  <2> QED
    BY <1>1, <2>3
<1>4. ASSUME Cardinality(selected) < most, selected # good PROVE FALSE
  <2> DEFINE left == {rank(t) : t \in good \ selected}
  <2>1. left \in SUBSET Nat /\ left # {}
    BY <1>1, <1>4
  <2>2. PICK t \in good \ selected : \A u \in good \ selected : rank(t) <= rank(u)
    <3>1. Min(left) \in left /\ \A x \in left : Min(left) <= x
      BY <2>1, LeastOfNats
    <3> QED
      BY <3>1
  <2>3. Earlier(good, score, t) \in SUBSET selected
    <3> SUFFICES ASSUME NEW u \in Earlier(good, score, t), u \notin selected PROVE FALSE
      OBVIOUS
    <3>1. u \in good \ selected /\ rank(u) < rank(t)
      BY <1>2, <2>2 DEF Earlier
    <3> QED
      BY <1>1, <2>2, <3>1
  <2>4. IsFiniteSet(selected) /\ Cardinality(selected) \in Nat
    <3>1. selected \in SUBSET good /\ IsFiniteSet(good)
      BY DEF Comparable
    <3>2. IsFiniteSet(selected)
      BY <3>1, FS_Subset
    <3> QED
      BY <3>2, FS_CardinalityType
  <2>5. rank(t) <= Cardinality(selected)
    BY <2>3, <2>4, FS_Subset
  <2>6. rank(t) < most /\ t \in good
    BY <1>1, <1>4, <2>2, <2>4, <2>5
  <2> QED
    BY <2>2, <2>6
<1> QED
  BY <1>3, <1>4

LEMMA ScoresAreNumbers ==
    ASSUME NEW s \in SkillRegistry, NEW type, NEW words, NEW category, NEW plan
    PROVE  ScoreSkill(s, type, words, category, plan) \in Int
<1> DEFINE triggered == s.taskTriggers \cap {plan[i].id : i \in DOMAIN plan}
           objective == s.words \cap ObjectiveWords(words, type)
           planned == s.words \cap (words \cup PlanWords[category])
<1>1. IsFiniteSet(s.words) /\ IsFiniteSet(s.taskTriggers) /\ s.priority \in Int
  BY PlanningAssumption
<1>2. triggered \in SUBSET s.taskTriggers /\ objective \in SUBSET s.words /\ planned \in SUBSET s.words
  OBVIOUS
<1> HIDE DEF triggered, objective, planned
<1>3. IsFiniteSet(triggered) /\ IsFiniteSet(objective) /\ IsFiniteSet(planned)
  BY <1>1, <1>2, FS_Subset
<1>4. /\ Cardinality(triggered) \in Nat /\ Cardinality(objective) \in Nat
      /\ Cardinality(planned) \in Nat
  BY <1>3, FS_CardinalityType
<1>5. PriorityBonus(s.priority) \in {0, 1, 2, 3}
  <2>1. s.priority >= 95 \/ s.priority \in 85..94 \/ s.priority \in 70..84 \/ s.priority < 70
    BY <1>1
  <2> QED
    BY <2>1 DEF PriorityBonus
<1>6. ScoreSkill(s, type, words, category, plan) =
        (IF type \in s.projectTypes THEN 5 ELSE 0) + 4 * Cardinality(objective)
          + 2 * Cardinality(planned) + 3 * Cardinality(triggered) + PriorityBonus(s.priority)
  BY DEF ScoreSkill, triggered, objective, planned
<1> QED
  BY <1>4, <1>5, <1>6

LEMMA SelectorKnowsNothing == NormalizeProjectType("unknown") = "unknown"
<1> DEFINE order == << "website", "ai-agent", "automation", "api", "web-app" >>
<1>1. TypeWords("unknown") = {}
  BY DEF TypeWords
<1>2. \A j \in DOMAIN order : ~Matches({}, SelectorWords[order[j]])
  BY DEF Matches
<1> HIDE DEF order
<1>3. FirstMatch(order, {}, SelectorWords, "unknown") = "unknown"
  BY <1>2, MatchesNowhere
<1> QED
  BY <1>1, <1>3 DEF NormalizeProjectType, order

LEMMA PlansHang == ASSUME NEW idea PROVE PlanHangsTogether(idea)
<1> DEFINE words == idea.words
           type == InferSolutionCategory(words)
           category == NormalizeCategory(type, idea)
           plan == BuildPlan(category)
           project == NormalizeProjectType(type)
           value(s) == ScoreSkill(s, project, words, category, plan)
           score == [s \in SkillRegistry |-> value(s)]
           good == {s \in SkillRegistry : score[s] >= MinimumScore}
           most == IF MaxSkills > 1 THEN MaxSkills ELSE 1
           selected == SelectSkills(type, words, category, plan)
<1>1. /\ project = type
      /\ type # "unknown" => category = type
      /\ type = "unknown" => category =
            IF words \cap {"assistant", "copilot"} # {} THEN "ai-agent"
            ELSE IF idea.blank THEN "unknown" ELSE "web-app"
  <2>1. CASE type # "unknown"
    BY <2>1, TypeIsKnown, PlannerAgrees, SelectorAgrees
  <2>2. CASE type = "unknown"
    BY <2>2, PlannerGuesses, SelectorKnowsNothing
  <2> QED
    BY <2>1, <2>2
<1>2. /\ \A i \in DOMAIN plan : plan[i].dependencies \subseteq {plan[j].id : j \in 1..(i - 1)}
      /\ \A S \in SUBSET {plan[i].id : i \in DOMAIN plan} :
            /\ "prepare-execution-report" \in S
            /\ \A i \in DOMAIN plan : plan[i].id \in S => plan[i].dependencies \subseteq S
            => S = {plan[i].id : i \in DOMAIN plan}
  BY PlanIsOrdered
<1>3. \A s \in SkillRegistry : value(s) \in Int /\ score[s] = value(s)
  BY ScoresAreNumbers
<1>4. MaxSkills \in Nat /\ MinimumScore \in Nat /\ most \in Nat \ {0} /\ most >= MaxSkills
  BY PlanningAssumption
<1>5. selected = {s \in good : Cardinality(Earlier(good, score, s)) < most}
  BY DEF SelectSkills, Earlier
<1> HIDE DEF type, category, plan, project, value, score, most, words
<1>6. Comparable(good, score)
  <2>1. good \in SUBSET SkillRegistry /\ IsFiniteSet(SkillRegistry)
    BY PlanningAssumption
  <2>2. IsFiniteSet(good)
    BY <2>1, FS_Subset
  <2> QED
    BY <1>3, <2>1, <2>2, PlanningAssumption DEF Comparable
<1>7. /\ \A s \in selected, t \in good \ selected : score[t] <= score[s]
      /\ Cardinality(selected) < most => selected = good
  <2>1. selected \in SUBSET good
        /\ \A s \in good : s \in selected <=> Cardinality(Earlier(good, score, s)) < most
    BY <1>5
  <2> HIDE DEF good, selected
  <2> QED
    BY <1>4, <1>6, <2>1, SelectionIsBest
<1> HIDE DEF selected
<1>8. selected \subseteq good /\ good \subseteq SkillRegistry
  BY <1>5
<1>9. \A s \in selected, t \in SkillRegistry \ selected : value(t) <= value(s)
  <2> SUFFICES ASSUME NEW s \in selected, NEW t \in SkillRegistry \ selected
               PROVE  value(t) <= value(s)
    OBVIOUS
  <2>1. value(s) \in Int /\ value(t) \in Int /\ score[s] = value(s) /\ score[t] = value(t)
        /\ score[s] >= MinimumScore
    BY <1>3, <1>8
  <2>2. CASE t \in good
    BY <1>7, <2>1, <2>2
  <2>3. CASE t \notin good
    BY <1>4, <2>1, <2>3
  <2> QED
    BY <2>2, <2>3
<1>10. ASSUME Cardinality(selected) < MaxSkills, NEW t \in SkillRegistry \ selected
       PROVE  value(t) < MinimumScore
  <2>1. Cardinality(selected) \in Nat
    <3>1. IsFiniteSet(selected)
      BY <1>6, <1>8, FS_Subset DEF Comparable
    <3> QED
      BY <3>1, FS_CardinalityType
  <2>2. selected = good
    BY <1>4, <1>7, <1>10, <2>1
  <2> QED
    BY <1>3, <1>4, <2>2
<1> QED
  BY <1>1, <1>2, <1>9, <1>10 DEF PlanHangsTogether, type, category, plan, project, value, selected, words

----------------------------------------------------------------------------
\* Whatever votes, contexts and suites of tests are asked about: an agent that
\* approves instead never costs an approval, a laxer mode never stops a run
\* that safe mode lets through, and tests that run together never fail a gate
\* that the same tests pass in turn (consensus-engine.ts, gate-manager.ts,
\* test-verification-service.ts).
THEOREM RulesStayMonotone == RulesSpec => []RulesAreMonotone
<1>1. RulesInit => RulesAreMonotone
  <2> SUFFICES ASSUME RulesInit PROVE RulesAreMonotone
    OBVIOUS
  <2>1. ASSUME part = "votes" PROVE VotesAreMonotone(subject[1], subject[2])
    <3>1. subject[1] \in Votes /\ subject[2] \in Risks
      BY <2>1, RulesAssumption DEF RulesInit, Votes
    <3> QED
      BY <3>1, ConsensusIsMonotone
  <2>2. ASSUME part = "gates" PROVE SafePausesMost(subject)
    <3>1. subject \in Context
      BY <2>2, RulesAssumption DEF RulesInit
    <3> QED
      BY <3>1, SafeIsStrictest
  <2>3. ASSUME part = "tests" PROVE ParallelNeverWorse(subject)
    <3>1. subject \in Seq(RequiredTest)
      BY <2>3, RulesAssumption DEF RulesInit
    <3> QED
      BY <3>1, ParallelApproves
  <2> QED
    BY <2>1, <2>2, <2>3 DEF RulesAreMonotone
<1>2. RulesAreMonotone /\ [FALSE]_rulesVars => RulesAreMonotone'
  BY DEF RulesAreMonotone, rulesVars
<1> QED
  BY <1>1, <1>2, PTL DEF RulesSpec

\* For every idea, registry of skills and way to ask: planner and selector
\* follow intake where it knew the type, and where it did not the planner
\* plans an assistant or a web app; the plan is ordered and its report
\* waits for all of it, and the skills are the best there are (intake.ts,
\* planner.ts, selector.ts).
THEOREM PlansAreSound == RulesSpec => []EveryPlanHangsTogether
<1>1. RulesInit => EveryPlanHangsTogether
  BY PlansHang DEF EveryPlanHangsTogether
<1>2. EveryPlanHangsTogether /\ [FALSE]_rulesVars => EveryPlanHangsTogether'
  BY DEF EveryPlanHangsTogether, rulesVars
<1> QED
  BY <1>1, <1>2, PTL DEF RulesSpec

=============================================================================
