------------------------- MODULE Automation_proofs -------------------------
(***************************************************************************)
(* What the automation services guarantee for any strategies and rules,    *)
(* any readings, and any number of cycles that overlap.                    *)
(***************************************************************************)
EXTENDS AutomationOrchestrator, FiniteSetTheorems, WellFoundedInduction, TLAPS

(* The code's sort returns each id of the set once; only the membership    *)
(* matters to the proofs.                                                  *)
LEMMA OrdersAreSequences ==
  ASSUME NEW S, IsFiniteSet(S), NEW strategy, NEW q \in ByPriority(S, strategy)
  PROVE  /\ q \in Seq(S)
         /\ \A i \in DOMAIN q : q[i] \in S
         /\ DOMAIN q = 1 .. Len(q)
<1>1. Cardinality(S) \in Nat
  BY FS_CardinalityType
<1>2. q \in [1 .. Cardinality(S) -> S]
  BY DEF ByPriority
<1>. QED  BY <1>1, <1>2

----------------------------------------------------------------------------
(* The healing engine.                                                     *)

(* An execution is that of the first strategy of its list.                 *)
(* While its actions are performed, all that timed out are entered as      *)
(* failed; the one that ends the execution is entered nowhere.  What the   *)
(* rollback has passed is reversed if it had succeeded.                    *)
Reversible(h) ==
  /\ h.pc \in {"act", "undo"} => h.queue # <<>>
  /\ h.pc \in {"idle", "select"} => h.late = {} /\ h.applied = {}
  /\ h.pc = "act" => h.late \subseteq DOMAIN h.performed
  /\ \A i \in h.late \cap DOMAIN h.performed : h.performed[i] = "failed"
  /\ h.pc = "undo" =>
       \A i \in DOMAIN h.performed :
          i > h.undone /\ h.performed[i] = "success" => i \notin h.applied

(* A condition is tracked from an evaluation that came after the last one  *)
(* that found it unmet.                                                    *)
TrackedSinceUnmet ==
  \A s \in StrategyIds :
     /\ unmetAt[s] <= clock
     /\ conditionTracker[s] # Never =>
           unmetAt[s] <= conditionTracker[s] /\ conditionTracker[s] <= clock

HealingInv ==
  /\ clock \in Time
  /\ HealingTypeOK
  /\ \A c \in Callers : Reversible(healing[c])
  /\ TrackedSinceUnmet

LEMMA TimeIsNatural == Time \subseteq Nat /\ Never \notin Time /\ 0 \in Time
BY ClockAssumption DEF Time, Never

LEMMA IdleIsReversible ==
  ASSUME NEW q \in Seq(StrategyIds), NEW pc \in {"idle", "select", "act"},
         pc = "act" => q # <<>>, NEW h, h = Fresh(pc, q)
  PROVE  h \in HealingExecution /\ Reversible(h)
<1>1. <<>> \in Seq({"success", "failed"}) /\ DOMAIN <<>> = {}
  OBVIOUS
<1>2. h \in HealingExecution
  BY <1>1 DEF HealingExecution, Fresh
<1>3. /\ h.pc = pc /\ h.queue = q /\ h.performed = <<>> /\ h.late = {} /\ h.applied = {}
  BY DEF Fresh
<1>4. Reversible(h)
  BY <1>1, <1>3 DEF Reversible
<1>. QED  BY <1>2, <1>4

(* One caller's execution moves on, and nothing else.                      *)
LEMMA HealingMoves ==
  ASSUME HealingInv, NEW c \in Callers, NEW h,
         healing' = [healing EXCEPT ![c] = h],
         h \in HealingExecution, Reversible(h),
         UNCHANGED <<clock, conditionTracker, unmetAt>>
  PROVE  HealingInv'
<1>1. healing \in [Callers -> HealingExecution]
  BY DEF HealingInv, HealingTypeOK
<1>2. healing' \in [Callers -> HealingExecution] /\ healing'[c] = h
      /\ \A d \in Callers \ {c} : healing'[d] = healing[d]
  BY <1>1
<1>3. \A d \in Callers : Reversible(healing'[d])
  BY <1>2 DEF HealingInv
<1>4. HealingTypeOK'
  BY <1>2 DEF HealingInv, HealingTypeOK
<1>. QED  BY <1>3, <1>4 DEF HealingInv, TrackedSinceUnmet

LEMMA HealingUntouched ==
  ASSUME HealingInv, UNCHANGED <<clock, healingVars>>
  PROVE  HealingInv'
BY DEF HealingInv, HealingTypeOK, TrackedSinceUnmet, healingVars

LEMMA EvaluationKeeps ==
  ASSUME HealingInv, NEW c \in Callers, NEW metrics, EvaluateAndHeal(c, metrics)
  PROVE  HealingInv'
<1>1. PICK order \in ByPriority(Applicable(metrics), HealingStrategy) :
         healing' = [healing EXCEPT ![c] = Fresh("select", order)]
  BY DEF EvaluateAndHeal
<1>2. Applicable(metrics) \subseteq StrategyIds /\ IsFiniteSet(Applicable(metrics))
  BY HealingAssumption, FS_Subset DEF Applicable, Met
<1>3. order \in Seq(StrategyIds)
  BY <1>1, <1>2, OrdersAreSequences
<1>. DEFINE h == Fresh("select", order)
<1>4. healing' = [healing EXCEPT ![c] = h]
  BY <1>1
<1>5. h \in HealingExecution /\ Reversible(h)
  BY <1>3, IdleIsReversible
<1>. HIDE DEF h
<1>6. healing \in [Callers -> HealingExecution]
      /\ conditionTracker \in [StrategyIds -> Time \cup {Never}]
      /\ unmetAt \in [StrategyIds -> Time] /\ clock \in Time
  BY DEF HealingInv, HealingTypeOK
<1>7. /\ clock' = clock /\ conditionTracker' = TrackerAfter(metrics)
      /\ unmetAt' = [s \in StrategyIds |-> IF s \in Met(metrics) THEN unmetAt[s] ELSE clock]
  BY DEF EvaluateAndHeal
<1>8. conditionTracker' \in [StrategyIds -> Time \cup {Never}]
  BY <1>6, <1>7 DEF TrackerAfter
<1>9. healing' \in [Callers -> HealingExecution] /\ healing'[c] = h
      /\ \A d \in Callers \ {c} : healing'[d] = healing[d]
  BY <1>4, <1>5, <1>6
<1>10. HealingTypeOK'
  BY <1>6, <1>7, <1>8, <1>9 DEF HealingTypeOK
<1>11. \A d \in Callers : Reversible(healing'[d])
  BY <1>5, <1>9 DEF HealingInv
<1>12. TrackedSinceUnmet'
  <2>. SUFFICES ASSUME NEW s \in StrategyIds
                PROVE  /\ unmetAt'[s] <= clock
                       /\ conditionTracker'[s] # Never =>
                            unmetAt'[s] <= conditionTracker'[s] /\ conditionTracker'[s] <= clock
    BY <1>7 DEF TrackedSinceUnmet
  <2>1. clock \in Nat /\ unmetAt[s] \in Nat /\ unmetAt[s] <= clock
    BY <1>6, TimeIsNatural DEF HealingInv, TrackedSinceUnmet
  <2>2. CASE s \notin Met(metrics)
    BY <1>7, <2>1, <2>2 DEF TrackerAfter
  <2>3. CASE s \in Met(metrics) /\ conditionTracker[s] = Never
    BY <1>7, <2>1, <2>3 DEF TrackerAfter
  <2>4. CASE s \in Met(metrics) /\ conditionTracker[s] # Never
    <3>1. conditionTracker'[s] = conditionTracker[s] /\ unmetAt'[s] = unmetAt[s]
      BY <1>7, <2>4 DEF TrackerAfter
    <3>. QED  BY <3>1, <2>1, <2>4 DEF HealingInv, TrackedSinceUnmet
  <2>. QED  BY <2>2, <2>3, <2>4
<1>. QED  BY <1>6, <1>7, <1>10, <1>11, <1>12 DEF HealingInv

LEMMA ExecutionRestarts ==
  ASSUME HealingInv, NEW c \in Callers, NEW pc \in {"idle", "select", "act"},
         NEW q \in Seq(StrategyIds), pc = "act" => q # <<>>,
         healing' = [healing EXCEPT ![c] = Fresh(pc, q)],
         UNCHANGED <<clock, conditionTracker, unmetAt>>
  PROVE  HealingInv'
<1>1. Fresh(pc, q) \in HealingExecution /\ Reversible(Fresh(pc, q))
  BY IdleIsReversible
<1>. QED  BY <1>1, HealingMoves

LEMMA ActionSucceedsKeeps ==
  ASSUME HealingInv, NEW c \in Callers, ActionSucceeds(c)
  PROVE  HealingInv'
<1>. DEFINE old == healing[c]
            h == [old EXCEPT !.performed = Append(old.performed, "success"),
                             !.applied = old.applied \cup {Step(c)}]
<1>1. healing \in [Callers -> HealingExecution] /\ old \in HealingExecution /\ Reversible(old)
  BY DEF HealingInv, HealingTypeOK
<1>2. healing' = [healing EXCEPT ![c] = h] /\ old.pc = "act"
      /\ UNCHANGED <<clock, conditionTracker, unmetAt>>
  BY <1>1 DEF ActionSucceeds
<1>3. old.performed \in Seq({"success", "failed"}) /\ old.applied \subseteq Nat
      /\ old.late \subseteq DOMAIN old.performed
  BY <1>1, <1>2 DEF HealingExecution, Reversible
<1>4. Step(c) = Len(old.performed) + 1 /\ Step(c) \in Nat
  BY <1>3 DEF Step
<1>5. Append(old.performed, "success") \in Seq({"success", "failed"})
  BY <1>3
<1>6. h \in HealingExecution
  BY <1>1, <1>3, <1>4, <1>5 DEF HealingExecution
<1>7. h.pc = "act" /\ h.queue = old.queue /\ h.late = old.late /\ h.performed = Append(old.performed, "success")
  BY <1>1, <1>2 DEF HealingExecution
<1>8. Reversible(h)
  <2>1. DOMAIN h.performed = DOMAIN old.performed \cup {Len(old.performed) + 1}
    BY <1>3, <1>7
  <2>2. \A i \in DOMAIN old.performed : h.performed[i] = old.performed[i]
    BY <1>3, <1>7
  <2>3. \A i \in old.late : old.performed[i] = "failed"
    BY <1>1, <1>3 DEF Reversible
  <2>4. \A i \in h.late \cap DOMAIN h.performed : h.performed[i] = "failed"
    BY <1>3, <1>7, <2>2, <2>3
  <2>. QED  BY <1>1, <1>2, <1>3, <1>7, <2>1, <2>4 DEF Reversible
<1>. HIDE DEF h
<1>. QED  BY <1>2, <1>6, <1>8, HealingMoves

LEMMA ActionTimesOutKeeps ==
  ASSUME HealingInv, NEW c \in Callers, ActionTimesOut(c)
  PROVE  HealingInv'
<1>. DEFINE old == healing[c]
            critical == Critical(Action(c))
            p == IF critical THEN old.performed ELSE Append(old.performed, "failed")
            h == [old EXCEPT !.late = old.late \cup {Step(c)}, !.performed = p,
                             !.undone = Len(old.performed),
                             !.pc = IF critical THEN "undo" ELSE "act"]
<1>1. healing \in [Callers -> HealingExecution] /\ old \in HealingExecution /\ Reversible(old)
  BY DEF HealingInv, HealingTypeOK
<1>2. healing' = [healing EXCEPT ![c] = h] /\ old.pc = "act"
      /\ UNCHANGED <<clock, conditionTracker, unmetAt>>
  BY <1>1 DEF ActionTimesOut
<1>3. old.performed \in Seq({"success", "failed"}) /\ old.late \subseteq Nat
      /\ old.late \subseteq DOMAIN old.performed /\ Len(old.performed) \in Nat
      /\ DOMAIN old.performed = 1 .. Len(old.performed)
  BY <1>1, <1>2 DEF HealingExecution, Reversible
<1>4. Step(c) = Len(old.performed) + 1 /\ Step(c) \in Nat
  BY <1>3 DEF Step
<1>5. p \in Seq({"success", "failed"})
  BY <1>3
<1>6. h \in HealingExecution
  <2>1. old.late \cup {Step(c)} \subseteq Nat
    BY <1>3, <1>4
  <2>. HIDE DEF p, critical
  <2>. QED  BY <1>1, <1>3, <1>5, <2>1 DEF HealingExecution
<1>7. /\ h.pc = (IF critical THEN "undo" ELSE "act") /\ h.queue = old.queue
      /\ h.late = old.late \cup {Step(c)} /\ h.performed = p /\ h.undone = Len(old.performed)
  <2>. HIDE DEF p, critical
  <2>. QED  BY <1>1 DEF HealingExecution
<1>8. \A i \in old.late : old.performed[i] = "failed"
  BY <1>1, <1>3 DEF Reversible
<1>9. Reversible(h)
  <2>1. CASE critical
    <3>1. h.pc = "undo" /\ h.performed = old.performed /\ h.undone = Len(old.performed)
      BY <1>7, <2>1
    <3>2. Step(c) \notin DOMAIN h.performed
      BY <1>3, <1>4, <3>1
    <3>3. h.late = old.late \cup {Step(c)} /\ h.queue = old.queue /\ old.queue # <<>>
      BY <1>1, <1>2, <1>7 DEF Reversible
    <3>. HIDE DEF h
    <3>4. \A i \in DOMAIN h.performed : ~ (i > h.undone)
      BY <1>3, <3>1
    <3>. QED  BY <1>8, <3>1, <3>2, <3>3, <3>4 DEF Reversible
  <2>2. CASE ~ critical
    <3>1. h.pc = "act" /\ h.performed = Append(old.performed, "failed")
      BY <1>7, <2>2
    <3>3. h.late = old.late \cup {Step(c)} /\ h.queue = old.queue /\ old.queue # <<>>
      BY <1>1, <1>2, <1>7 DEF Reversible
    <3>. HIDE DEF h
    <3>4. DOMAIN h.performed = DOMAIN old.performed \cup {Step(c)}
      BY <1>3, <1>4, <3>1
    <3>5. h.performed[Step(c)] = "failed"
          /\ \A i \in DOMAIN old.performed : h.performed[i] = old.performed[i]
      BY <1>3, <1>4, <3>1
    <3>. QED  BY <1>3, <1>8, <3>1, <3>3, <3>4, <3>5 DEF Reversible
  <2>. QED  BY <2>1, <2>2
<1>. HIDE DEF h
<1>. QED  BY <1>2, <1>6, <1>9, HealingMoves

LEMMA UndoActionKeeps ==
  ASSUME HealingInv, NEW c \in Callers, UndoAction(c)
  PROVE  HealingInv'
<1>. DEFINE old == healing[c]
            n == old.undone
            a == IF old.performed[n] = "success" THEN old.applied \ {n} ELSE old.applied
            h == [old EXCEPT !.undone = n - 1, !.applied = a]
<1>1. healing \in [Callers -> HealingExecution] /\ old \in HealingExecution /\ Reversible(old)
  BY DEF HealingInv, HealingTypeOK
<1>2. healing' = [healing EXCEPT ![c] = h] /\ old.pc = "undo" /\ n > 0
      /\ UNCHANGED <<clock, conditionTracker, unmetAt>>
  BY <1>1 DEF UndoAction
<1>3. n \in Nat /\ n - 1 \in Nat /\ old.applied \subseteq Nat /\ DOMAIN old.performed \subseteq Nat
  BY <1>1, <1>2 DEF HealingExecution
<1>4. a \subseteq old.applied
  OBVIOUS
<1>5. h \in HealingExecution
  <2>. HIDE DEF n, a
  <2>. QED  BY <1>1, <1>3, <1>4 DEF HealingExecution
<1>6. /\ h.pc = "undo" /\ h.queue = old.queue /\ h.late = old.late /\ h.performed = old.performed
      /\ h.undone = n - 1 /\ h.applied = a
  <2>. HIDE DEF n, a
  <2>. QED  BY <1>1, <1>2 DEF HealingExecution
<1>7. ASSUME NEW i \in DOMAIN old.performed, i > n - 1, old.performed[i] = "success"
      PROVE  i \notin a
  <2>1. i \in Nat
    BY <1>3
  <2>2. CASE i = n
    BY <1>7, <2>2
  <2>3. CASE i > n
    BY <1>1, <1>2, <1>4, <1>7, <2>3 DEF Reversible
  <2>. QED  BY <1>3, <1>7, <2>1, <2>2, <2>3
<1>8. Reversible(h)
  <2>1. old.pc = "undo"
    BY <1>2
  <2>. HIDE DEF h, a, n
  <2>. QED  BY <1>1, <1>6, <1>7, <2>1 DEF Reversible
<1>. HIDE DEF h
<1>. QED  BY <1>2, <1>5, <1>8, HealingMoves

LEMMA LateCompletionKeeps ==
  ASSUME HealingInv, NEW c \in Callers, LateCompletion(c)
  PROVE  HealingInv'
<1>. DEFINE old == healing[c]
            hAfter(i) == [old EXCEPT !.late = old.late \ {i}, !.applied = old.applied \cup {i}]
<1>1. healing \in [Callers -> HealingExecution] /\ old \in HealingExecution /\ Reversible(old)
  BY DEF HealingInv, HealingTypeOK
<1>2. PICK i \in old.late : healing' = [healing EXCEPT ![c] = hAfter(i)]
  BY <1>1 DEF LateCompletion
<1>. DEFINE h == hAfter(i)
<1>3. UNCHANGED <<clock, conditionTracker, unmetAt>>
  BY DEF LateCompletion
<1>4. i \in Nat /\ old.applied \subseteq Nat /\ old.late \subseteq Nat
  BY <1>1, <1>2 DEF HealingExecution
<1>5. h \in HealingExecution
  BY <1>1, <1>4 DEF HealingExecution
<1>6. /\ h.pc = old.pc /\ h.queue = old.queue /\ h.late = old.late \ {i} /\ h.performed = old.performed
      /\ h.undone = old.undone /\ h.applied = old.applied \cup {i}
  BY <1>1 DEF HealingExecution
<1>7. old.pc \notin {"idle", "select"}
  BY <1>1, <1>2 DEF Reversible
<1>8. i \in DOMAIN old.performed => old.performed[i] = "failed"
  BY <1>1, <1>2 DEF Reversible
<1>9. Reversible(h)
  <2>. HIDE DEF h, hAfter
  <2>. QED  BY <1>1, <1>6, <1>7, <1>8 DEF Reversible
<1>. HIDE DEF h
<1>10. healing' = [healing EXCEPT ![c] = h]
  BY <1>2 DEF h
<1>. QED  BY <1>3, <1>5, <1>9, <1>10, HealingMoves

LEMMA HealingStepKeeps ==
  ASSUME HealingInv, NEW c \in Callers, HealingStep(c)
  PROVE  HealingInv'
<1>1. /\ healing[c].queue \in Seq(StrategyIds)
      /\ <<>> \in Seq(StrategyIds)
  BY DEF HealingInv, HealingTypeOK, HealingExecution
<1>2. CASE ExecuteStrategy(c)
  BY <1>1, <1>2, ExecutionRestarts DEF ExecuteStrategy
<1>3. CASE ActionSucceeds(c)
  BY <1>3, ActionSucceedsKeeps
<1>4. CASE ActionTimesOut(c)
  BY <1>4, ActionTimesOutKeeps
<1>5. CASE UndoAction(c)
  BY <1>5, UndoActionKeeps
<1>6. CASE RolledBack(c)
  <2>1. healing[c].queue # <<>>
    BY <1>6 DEF RolledBack, HealingInv, Reversible
  <2>2. Tail(healing[c].queue) \in Seq(StrategyIds)
    BY <1>1, <2>1
  <2>. QED  BY <1>6, <2>2, ExecutionRestarts DEF RolledBack
<1>8. CASE StrategySucceeds(c)
  BY <1>1, <1>8, ExecutionRestarts DEF StrategySucceeds, Idle
<1>9. CASE NothingLeft(c)
  BY <1>1, <1>9, ExecutionRestarts DEF NothingLeft, Idle
<1>10. CASE LateCompletion(c)
  BY <1>10, LateCompletionKeeps
<1>. QED  BY <1>2, <1>3, <1>4, <1>5, <1>6, <1>8, <1>9, <1>10 DEF HealingStep

(* What has been selected had persisted.                                   *)
LEMMA EvaluationSelects ==
  ASSUME HealingInv, NEW c \in Callers, NEW metrics, EvaluateAndHeal(c, metrics),
         NEW d \in Callers, healing[d].pc = "idle", healing'[d].pc = "select",
         NEW s \in ToSet(healing'[d].queue)
  PROVE  clock - unmetAt[s] >= HealingStrategy[s].condition.duration
<1>1. healing \in [Callers -> HealingExecution]
  BY DEF HealingInv, HealingTypeOK
<1>2. PICK order \in ByPriority(Applicable(metrics), HealingStrategy) :
         healing' = [healing EXCEPT ![c] = Fresh("select", order)]
  BY DEF EvaluateAndHeal
<1>3. d = c
  BY <1>1, <1>2
<1>4. healing'[d].queue = order
  BY <1>1, <1>2, <1>3 DEF Fresh
<1>5. IsFiniteSet(Applicable(metrics)) /\ Applicable(metrics) \subseteq StrategyIds
  BY HealingAssumption, FS_Subset DEF Applicable, Met
<1>6. s \in Applicable(metrics)
  <2>1. \A i \in DOMAIN order : order[i] \in Applicable(metrics)
    BY <1>2, <1>5, OrdersAreSequences
  <2>. QED  BY <1>4, <2>1 DEF ToSet
<1>7. conditionTracker[s] # Never
      /\ clock - conditionTracker[s] >= HealingStrategy[s].condition.duration
  BY <1>6 DEF Applicable
<1>8. HealingStrategy[s].condition.duration \in Nat
  BY <1>5, <1>6, HealingAssumption DEF Strategy, HealingCondition
<1>9. clock \in Nat /\ unmetAt[s] \in Nat /\ conditionTracker[s] \in Nat
      /\ unmetAt[s] <= conditionTracker[s]
  BY <1>5, <1>6, <1>7, TimeIsNatural DEF HealingInv, HealingTypeOK, TrackedSinceUnmet
<1>. QED  BY <1>7, <1>8, <1>9

(* No other step selects: an execution that goes on was not idle.          *)
LEMMA HealingStepSelectsNone ==
  ASSUME HealingInv, NEW c \in Callers, HealingStep(c), NEW d \in Callers,
         healing[d].pc = "idle"
  PROVE  healing'[d].pc # "select"
<1>1. healing \in [Callers -> HealingExecution] /\ Reversible(healing[d])
  BY DEF HealingInv, HealingTypeOK
<1>2. CASE d # c
  BY <1>1, <1>2 DEF HealingStep, ExecuteStrategy, ActionSucceeds, ActionTimesOut,
        UndoAction, RolledBack, StrategySucceeds, NothingLeft, LateCompletion
<1>3. CASE d = c
  BY <1>1, <1>3 DEF HealingStep, ExecuteStrategy, ActionSucceeds, ActionTimesOut,
        UndoAction, RolledBack, StrategySucceeds, NothingLeft, LateCompletion, Reversible
<1>. QED  BY <1>2, <1>3

LEMMA HealingInit0 == Init => HealingInv
<1>. SUFFICES ASSUME Init PROVE HealingInv
  OBVIOUS
<1>1. clock = 0 /\ conditionTracker = [s \in StrategyIds |-> Never]
      /\ healing = [c \in Callers |-> Idle] /\ unmetAt = [s \in StrategyIds |-> 0]
  BY DEF Init, HealingInit
<1>2. Idle \in HealingExecution /\ Reversible(Idle)
  <2>1. <<>> \in Seq(StrategyIds)
    OBVIOUS
  <2>. QED  BY <2>1, IdleIsReversible DEF Idle
<1>3. HealingTypeOK
  BY <1>1, <1>2, TimeIsNatural DEF HealingTypeOK
<1>4. TrackedSinceUnmet
  BY <1>1 DEF TrackedSinceUnmet
<1>. QED  BY <1>1, <1>2, <1>3, <1>4, TimeIsNatural DEF HealingInv

LEMMA TickKeepsHealing == HealingInv /\ Tick => HealingInv'
<1>. SUFFICES ASSUME HealingInv, Tick PROVE HealingInv'
  OBVIOUS
<1>1. clock \in Time /\ clock < MaxTime /\ clock' = clock + 1 /\ UNCHANGED healingVars
  BY DEF HealingInv, Tick
<1>2. clock' \in Time /\ clock <= clock' /\ clock \in Nat /\ clock' \in Nat
  BY <1>1, ClockAssumption DEF Time
<1>3. HealingTypeOK' /\ \A c \in Callers : Reversible(healing'[c])
  BY <1>1 DEF HealingInv, HealingTypeOK, healingVars
<1>4. TrackedSinceUnmet'
  <2>. SUFFICES ASSUME NEW s \in StrategyIds
                PROVE  /\ unmetAt[s] <= clock'
                       /\ conditionTracker[s] # Never =>
                            unmetAt[s] <= conditionTracker[s] /\ conditionTracker[s] <= clock'
    BY <1>1 DEF TrackedSinceUnmet, healingVars
  <2>1. unmetAt[s] \in Nat /\ conditionTracker[s] \in Nat \cup {Never}
    BY TimeIsNatural DEF HealingInv, HealingTypeOK
  <2>. QED  BY <1>2, <2>1 DEF HealingInv, TrackedSinceUnmet, Never
<1>. QED  BY <1>2, <1>3, <1>4 DEF HealingInv

----------------------------------------------------------------------------
(* The rollback automation.                                                *)

InFlight(s) == {c \in Callers : rolling[c].pc # "idle" /\ rolling[c].strategy = s}

Recent(s) == {r \in Successes(s) : r.end > clock - Hour}

(* No recent success is forgotten, and those in flight can pass the limit  *)
(* by their number less one, since each found it unreached.                *)
Rationed(s) ==
  /\ Recent(s) \subseteq rollbackCounts[s] /\ rollbackCounts[s] \subseteq Successes(s)
  /\ Cardinality(Recent(s)) + Cardinality(InFlight(s))
        < RollbackStrategy[s].maxRollbacksPerHour + Cardinality(Callers)

(* The last success is the latest, and a rollback in flight has waited for *)
(* the cooldown of every one that had succeeded before it started.         *)
Apart(s, start, r) == r.end < start => start - r.end >= RollbackStrategy[s].cooldownPeriod

CooledDown(s) ==
  \A r \in Successes(s) :
     /\ r.start <= clock /\ lastRollbacks[s] # Never
     /\ r.end <= lastRollbacks[s] /\ lastRollbacks[s] <= clock
     /\ \A c \in InFlight(s) : Apart(s, rolling[c].at, r)
     /\ \A later \in Successes(s) : Apart(s, later.start, r)

RationInv ==
  /\ clock \in Time
  /\ RollbackTypeOK /\ IsFiniteSet(rollbacks)
  /\ \A c \in Callers :
        rolling[c].pc # "idle" => rolling[c].strategy \in RollbackIds /\ rolling[c].at <= clock
  /\ \A s \in RollbackIds : Rationed(s) /\ CooledDown(s)

LEMMA RollbackConstants ==
  /\ \A s \in RollbackIds : /\ RollbackStrategy[s].cooldownPeriod \in Nat
                            /\ RollbackStrategy[s].maxRollbacksPerHour \in Nat
  /\ IsFiniteSet(Callers) /\ Cardinality(Callers) \in Nat \ {0}
  /\ Hour \in Nat
  /\ "" \in RollbackIds \cup {""}
<1>1. Cardinality(Callers) \in Nat /\ Cardinality(Callers) # 0
  BY ClockAssumption, FS_CardinalityType, FS_EmptySet
<1>. QED  BY <1>1, RollbackAssumption, ClockAssumption, HourAssumption DEF Rollback

LEMMA CountsAreFinite ==
  ASSUME IsFiniteSet(rollbacks), NEW s
  PROVE  /\ IsFiniteSet(Recent(s)) /\ Cardinality(Recent(s)) \in Nat
         /\ IsFiniteSet(InFlight(s)) /\ Cardinality(InFlight(s)) \in Nat
         /\ Cardinality(InFlight(s)) <= Cardinality(Callers)
<1>1. Recent(s) \subseteq rollbacks /\ InFlight(s) \subseteq Callers
  BY DEF Recent, Successes, InFlight
<1>. QED  BY <1>1, ClockAssumption, FS_Subset, FS_CardinalityType

LEMMA NoExecutionIsTyped == NoExecution \in RollbackExecution /\ NoExecution.pc = "idle"
BY TimeIsNatural DEF NoExecution, RollbackExecution

(* Rollbacks go on or end without success, time passes, and what is no     *)
(* longer recent may be forgotten.                                         *)
LEMMA NothingSucceeds ==
  ASSUME RationInv, UNCHANGED <<lastRollbacks, rollbacks>>,
         clock' \in Time, clock <= clock',
         rolling' \in [Callers -> RollbackExecution],
         \A d \in Callers :
            \/ rolling'[d].pc = "idle"
            \/ /\ rolling[d].pc # "idle"
               /\ rolling'[d].strategy = rolling[d].strategy /\ rolling'[d].at = rolling[d].at,
         rollbackCounts' \in [RollbackIds -> SUBSET Success],
         \A s \in RollbackIds :
            Recent(s) \subseteq rollbackCounts'[s] /\ rollbackCounts'[s] \subseteq rollbackCounts[s]
  PROVE  RationInv'
<1>1. /\ clock \in Nat /\ clock' \in Nat /\ clock \in Time /\ Hour \in Nat
      /\ rollbacks \subseteq Success /\ IsFiniteSet(rollbacks)
      /\ lastRollbacks \in [RollbackIds -> Time \cup {Never}]
      /\ rolling \in [Callers -> RollbackExecution]
  BY TimeIsNatural, RollbackConstants DEF RationInv, RollbackTypeOK
<1>2. RollbackTypeOK'
  BY <1>1 DEF RollbackTypeOK
<1>3. \A d \in Callers : rolling[d].at \in Nat /\ rolling'[d].at \in Nat
  BY <1>1, TimeIsNatural DEF RollbackExecution
<1>4. \A d \in Callers :
        rolling'[d].pc # "idle" => rolling'[d].strategy \in RollbackIds /\ rolling'[d].at <= clock'
  BY <1>1, <1>3 DEF RationInv
<1>5. ASSUME NEW s \in RollbackIds
      PROVE  Rationed(s)' /\ CooledDown(s)'
  <2>1. Successes(s)' = Successes(s)
    BY DEF Successes
  <2>2. \A r \in Successes(s) : r.end \in Nat /\ r.start \in Nat
    BY <1>1, TimeIsNatural DEF Successes, Success
  <2>3. Recent(s)' \subseteq Recent(s)
    BY <1>1, <2>1, <2>2 DEF Recent
  <2>4. InFlight(s)' \subseteq InFlight(s)
    BY DEF InFlight
  <2>5. Rationed(s) /\ CooledDown(s)
    BY DEF RationInv
  <2>6. /\ Cardinality(Recent(s)') <= Cardinality(Recent(s))
        /\ Cardinality(InFlight(s)') <= Cardinality(InFlight(s))
        /\ Cardinality(Recent(s)') \in Nat /\ Cardinality(InFlight(s)') \in Nat
        /\ Cardinality(Recent(s)) \in Nat /\ Cardinality(InFlight(s)) \in Nat
    BY <1>1, <2>3, <2>4, CountsAreFinite, FS_Subset, FS_CardinalityType
  <2>7. Rationed(s)'
    <3>1. Recent(s)' \subseteq rollbackCounts'[s] /\ rollbackCounts'[s] \subseteq Successes(s)'
      BY <2>1, <2>3, <2>5 DEF Rationed
    <3>2. Cardinality(Recent(s)') + Cardinality(InFlight(s)')
             < RollbackStrategy[s].maxRollbacksPerHour + Cardinality(Callers)
      BY <2>5, <2>6, RollbackConstants DEF Rationed
    <3>. QED  BY <3>1, <3>2 DEF Rationed
  <2>8. CooledDown(s)'
    <3>. SUFFICES ASSUME NEW r \in Successes(s)
                  PROVE  /\ r.start <= clock' /\ lastRollbacks[s] # Never
                         /\ r.end <= lastRollbacks[s] /\ lastRollbacks[s] <= clock'
                         /\ \A c \in InFlight(s)' : Apart(s, rolling'[c].at, r)
                         /\ \A later \in Successes(s) : Apart(s, later.start, r)
      BY <2>1 DEF CooledDown, Apart
    <3>1. r.start \in Nat /\ r.start <= clock /\ lastRollbacks[s] \in Nat /\ lastRollbacks[s] <= clock
      BY <1>1, <2>2, <2>5, TimeIsNatural DEF CooledDown
    <3>2. \A c \in InFlight(s)' : c \in InFlight(s) /\ rolling'[c].at = rolling[c].at
      BY <2>4 DEF InFlight
    <3>. QED  BY <1>1, <2>5, <3>1, <3>2 DEF CooledDown
  <2>. QED  BY <2>7, <2>8
<1>. QED  BY <1>1, <1>2, <1>4, <1>5 DEF RationInv

LEMMA RollbackUntouched ==
  ASSUME RationInv, UNCHANGED rollbackVars, clock' \in Time, clock <= clock'
  PROVE  RationInv'
<1>1. /\ rolling \in [Callers -> RollbackExecution]
      /\ rollbackCounts \in [RollbackIds -> SUBSET Success]
      /\ \A s \in RollbackIds : Recent(s) \subseteq rollbackCounts[s]
  BY DEF RationInv, RollbackTypeOK, Rationed
<1>2. UNCHANGED <<lastRollbacks, rollbacks>> /\ rolling' = rolling /\ rollbackCounts' = rollbackCounts
  BY DEF rollbackVars
<1>. QED  BY <1>1, <1>2, NothingSucceeds

(* The caller's rollback goes on or ends without success.                  *)
LEMMA RollbackGoesOn ==
  ASSUME RationInv, NEW c \in Callers, NEW h \in RollbackExecution,
         rolling' = [rolling EXCEPT ![c] = h],
         \/ h.pc = "idle"
         \/ rolling[c].pc # "idle" /\ h.strategy = rolling[c].strategy /\ h.at = rolling[c].at,
         UNCHANGED <<clock, lastRollbacks, rollbackCounts, rollbacks>>
  PROVE  RationInv'
<1>1. /\ rolling \in [Callers -> RollbackExecution]
      /\ rollbackCounts \in [RollbackIds -> SUBSET Success]
      /\ clock \in Time /\ clock \in Nat
      /\ \A s \in RollbackIds : Recent(s) \subseteq rollbackCounts[s]
  BY TimeIsNatural DEF RationInv, RollbackTypeOK, Rationed
<1>2. rolling' \in [Callers -> RollbackExecution]
      /\ \A d \in Callers : \/ rolling'[d].pc = "idle"
                            \/ /\ rolling[d].pc # "idle"
                               /\ rolling'[d].strategy = rolling[d].strategy
                               /\ rolling'[d].at = rolling[d].at
  BY <1>1
<1>3. clock' \in Time /\ clock <= clock' /\ rollbackCounts' = rollbackCounts
      /\ UNCHANGED <<lastRollbacks, rollbacks>>
  BY <1>1
<1>. QED  BY <1>1, <1>2, <1>3, NothingSucceeds

LEMMA StartKeeps ==
  ASSUME RationInv, NEW c \in Callers, NEW metrics, StartRollback(c, metrics)
  PROVE  RationInv'
<1>0. PICK order \in EnabledByPriority : \E i \in Chosen(metrics, order) :
         /\ rollbackCounts' = [s \in RollbackIds |->
               IF s \in Counted(order, i) THEN WithinHour(s) ELSE rollbackCounts[s]]
         /\ rolling' = [rolling EXCEPT ![c] =
               IF i > Len(order) THEN NoExecution ELSE Execution(order[i])]
  BY DEF StartRollback
<1>1. PICK i \in Chosen(metrics, order) :
         /\ rollbackCounts' = [s \in RollbackIds |->
               IF s \in Counted(order, i) THEN WithinHour(s) ELSE rollbackCounts[s]]
         /\ rolling' = [rolling EXCEPT ![c] =
               IF i > Len(order) THEN NoExecution ELSE Execution(order[i])]
  BY <1>0
<1>2. /\ clock \in Time /\ clock \in Nat /\ rollbacks \subseteq Success /\ IsFiniteSet(rollbacks)
      /\ lastRollbacks \in [RollbackIds -> Time \cup {Never}]
      /\ rolling \in [Callers -> RollbackExecution]
      /\ rollbackCounts \in [RollbackIds -> SUBSET Success]
      /\ clock' = clock /\ UNCHANGED <<lastRollbacks, rollbacks>> /\ rolling[c].pc = "idle"
  BY TimeIsNatural DEF RationInv, RollbackTypeOK, StartRollback
<1>3. rollbackCounts' \in [RollbackIds -> SUBSET Success]
  BY <1>1, <1>2 DEF WithinHour
<1>4. ASSUME NEW s \in RollbackIds
      PROVE  Recent(s) \subseteq rollbackCounts'[s] /\ rollbackCounts'[s] \subseteq rollbackCounts[s]
  <2>1. Recent(s) \subseteq rollbackCounts[s]
    BY DEF RationInv, Rationed
  <2>2. Recent(s) \subseteq WithinHour(s)
    BY <2>1 DEF WithinHour, Recent
  <2>. QED  BY <1>1, <2>1, <2>2 DEF WithinHour
<1>5. CASE i > Len(order)
  <2>1. rolling' = [rolling EXCEPT ![c] = NoExecution]
    BY <1>1, <1>5
  <2>2. rolling' \in [Callers -> RollbackExecution]
        /\ \A d \in Callers : rolling'[d].pc = "idle" \/ rolling'[d] = rolling[d]
    BY <1>2, <2>1, NoExecutionIsTyped
  <2>. QED  BY <1>2, <1>3, <1>4, <2>2, NothingSucceeds
<1>6. CASE ~ (i > Len(order))
  <2>. DEFINE s0 == order[i]
  <2>1. order \in Seq(RollbackIds) /\ i \in Nat /\ i <= Len(order) /\ i >= 1
    <3>1. IsFiniteSet({s \in RollbackIds : RollbackStrategy[s].enabled})
      BY RollbackAssumption, FS_Subset
    <3>2. order \in Seq({s \in RollbackIds : RollbackStrategy[s].enabled})
      BY <3>1, OrdersAreSequences DEF EnabledByPriority
    <3>. QED  BY <1>6, <3>2 DEF Chosen
  <2>2. s0 \in RollbackIds /\ Eligible(metrics, s0)
    BY <1>1, <2>1 DEF Chosen
  <2>. DEFINE h == Execution(s0)
  <2>3. h \in RollbackExecution /\ h.pc # "idle" /\ h.strategy = s0 /\ h.at = clock
    BY <1>2, <2>2 DEF Execution, RollbackExecution
  <2>4. rolling' = [rolling EXCEPT ![c] = h]
    BY <1>1, <1>6
  <2>. HIDE DEF h, s0
  <2>5. /\ rolling' \in [Callers -> RollbackExecution] /\ rolling'[c] = h
        /\ \A d \in Callers \ {c} : rolling'[d] = rolling[d]
    BY <1>2, <2>3, <2>4
  <2>6. RollbackTypeOK'
    BY <1>2, <1>3, <2>5 DEF RollbackTypeOK
  <2>7. \A d \in Callers :
          rolling'[d].pc # "idle" => rolling'[d].strategy \in RollbackIds /\ rolling'[d].at <= clock'
    BY <1>2, <2>2, <2>3, <2>5 DEF RationInv
  <2>8. ASSUME NEW s \in RollbackIds
        PROVE  Rationed(s)' /\ CooledDown(s)'
    <3>1. Rationed(s) /\ CooledDown(s)
      BY DEF RationInv
    <3>2. Successes(s)' = Successes(s) /\ Recent(s)' = Recent(s)
      BY <1>2 DEF Successes, Recent
    <3>3. s # s0 => InFlight(s)' = InFlight(s)
      BY <1>2, <2>3, <2>5 DEF InFlight
    <3>4. InFlight(s)' = InFlight(s) \/ InFlight(s)' = InFlight(s) \cup {c}
      BY <1>2, <2>3, <2>5 DEF InFlight
    <3>5. /\ Cardinality(Recent(s)) \in Nat
          /\ Cardinality(InFlight(s)') \in Nat
          /\ Cardinality(InFlight(s)') <= Cardinality(Callers)
      <4>1. InFlight(s)' \subseteq Callers
        BY DEF InFlight
      <4>. QED  BY <1>2, <4>1, CountsAreFinite, RollbackConstants, FS_Subset, FS_CardinalityType
    <3>6. Cardinality(Recent(s)) + Cardinality(InFlight(s)')
             < RollbackStrategy[s].maxRollbacksPerHour + Cardinality(Callers)
      <4>1. CASE s # s0
        BY <3>1, <3>3, <4>1 DEF Rationed
      <4>2. CASE s = s0
        <5>1. Recent(s) \subseteq WithinHour(s) /\ IsFiniteSet(WithinHour(s))
          <6>1. WithinHour(s) \subseteq rollbacks
            BY <3>1 DEF Rationed, WithinHour, Successes
          <6>. QED  BY <1>2, <3>1, <6>1, FS_Subset DEF Rationed, WithinHour, Recent
        <5>2. Cardinality(Recent(s)) <= Cardinality(WithinHour(s))
              /\ Cardinality(WithinHour(s)) \in Nat
          BY <5>1, FS_Subset, FS_CardinalityType
        <5>3. ~ (Cardinality(WithinHour(s)) >= RollbackStrategy[s].maxRollbacksPerHour)
          BY <2>2, <4>2 DEF Eligible, HasExceededRollbackLimit
        <5>. QED  BY <3>5, <5>2, <5>3, RollbackConstants
      <4>. QED  BY <4>1, <4>2
    <3>7. Rationed(s)'
      <4>1. Recent(s) \subseteq rollbackCounts'[s] /\ rollbackCounts'[s] \subseteq Successes(s)
        BY <1>4, <3>1 DEF Rationed
      <4>. QED  BY <3>2, <3>6, <4>1 DEF Rationed
    <3>8. ASSUME NEW r \in Successes(s), NEW d \in InFlight(s)'
          PROVE  Apart(s, rolling'[d].at, r)
      <4>1. CASE d # c
        <5>1. d \in InFlight(s) /\ rolling'[d].at = rolling[d].at
          BY <2>5, <3>8, <4>1 DEF InFlight
        <5>. QED  BY <3>1, <5>1 DEF CooledDown
      <4>2. CASE d = c
        <5>1. s = s0 /\ rolling'[d].at = clock
          BY <2>3, <2>5, <4>2 DEF InFlight
        <5>2. lastRollbacks[s] # Never /\ lastRollbacks[s] \in Nat /\ r.end \in Nat
              /\ r.end <= lastRollbacks[s] /\ lastRollbacks[s] <= clock
          BY <1>2, <3>1, <3>8, TimeIsNatural DEF CooledDown, Successes, Success
        <5>3. ~ (clock - lastRollbacks[s] < RollbackStrategy[s].cooldownPeriod)
          BY <2>2, <5>1, <5>2 DEF Eligible, IsInCooldown
        <5>. QED  BY <1>2, <5>1, <5>2, <5>3, RollbackConstants DEF Apart
      <4>. QED  BY <4>1, <4>2
    <3>9. CooledDown(s)'
      <4>1. \A r \in Successes(s) :
              /\ r.start <= clock /\ lastRollbacks[s] # Never
              /\ r.end <= lastRollbacks[s] /\ lastRollbacks[s] <= clock
              /\ \A later \in Successes(s) : Apart(s, later.start, r)
        BY <3>1 DEF CooledDown
      <4>. QED  BY <1>2, <3>2, <3>8, <4>1 DEF CooledDown, Apart
    <3>. QED  BY <3>7, <3>9
  <2>. QED  BY <1>2, <2>6, <2>7, <2>8 DEF RationInv
<1>. QED  BY <1>5, <1>6

LEMMA SuccessKeeps ==
  ASSUME RationInv, NEW c \in Callers, RollbackSucceeds(c)
  PROVE  RationInv'
<1>. DEFINE s0 == rolling[c].strategy
            new == Succeeded(c)
<1>1. /\ clock \in Time /\ clock \in Nat /\ rollbacks \subseteq Success /\ IsFiniteSet(rollbacks)
      /\ lastRollbacks \in [RollbackIds -> Time \cup {Never}]
      /\ rolling \in [Callers -> RollbackExecution]
      /\ rollbackCounts \in [RollbackIds -> SUBSET Success]
      /\ clock' = clock /\ rolling[c].pc = "act"
  BY TimeIsNatural DEF RationInv, RollbackTypeOK, RollbackSucceeds
<1>2. /\ lastRollbacks' = [lastRollbacks EXCEPT ![s0] = clock]
      /\ rollbackCounts' = [rollbackCounts EXCEPT ![s0] = rollbackCounts[s0] \cup {new}]
      /\ rollbacks' = rollbacks \cup {new}
      /\ rolling' = [rolling EXCEPT ![c] = NoExecution]
  BY <1>1 DEF RollbackSucceeds, RecordRollback
<1>3. s0 \in RollbackIds /\ rolling[c].at \in Time /\ rolling[c].at \in Nat /\ rolling[c].at <= clock
  BY <1>1, TimeIsNatural DEF RationInv, RollbackExecution
<1>4. Cardinality(Successes(s0)) \in Nat
  <2>1. IsFiniteSet(Successes(s0))
    BY <1>1, FS_Subset DEF Successes
  <2>. QED  BY <2>1, FS_CardinalityType
<1>5. /\ new \in Success /\ new.strategy = s0 /\ new.start = rolling[c].at /\ new.end = clock
  BY <1>1, <1>3, <1>4 DEF Succeeded, Success
<1>. HIDE DEF new
<1>6. /\ rolling' \in [Callers -> RollbackExecution] /\ rolling'[c].pc = "idle"
      /\ \A d \in Callers \ {c} : rolling'[d] = rolling[d]
  BY <1>1, <1>2, NoExecutionIsTyped
<1>7. RollbackTypeOK' /\ IsFiniteSet(rollbacks')
  <2>1. lastRollbacks' \in [RollbackIds -> Time \cup {Never}]
    BY <1>1, <1>2
  <2>2. rollbackCounts' \in [RollbackIds -> SUBSET Success]
    BY <1>1, <1>2, <1>5
  <2>3. rollbacks' \subseteq Success /\ IsFiniteSet(rollbacks')
    BY <1>1, <1>2, <1>5, FS_AddElement
  <2>. QED  BY <1>6, <2>1, <2>2, <2>3 DEF RollbackTypeOK
<1>8. \A d \in Callers :
        rolling'[d].pc # "idle" => rolling'[d].strategy \in RollbackIds /\ rolling'[d].at <= clock'
  BY <1>1, <1>6 DEF RationInv
<1>9. ASSUME NEW s \in RollbackIds, s # s0
      PROVE  Rationed(s)' /\ CooledDown(s)'
  <2>1. Successes(s)' = Successes(s)
    BY <1>2, <1>5, <1>9 DEF Successes
  <2>2. Recent(s)' = Recent(s)
    BY <1>1, <2>1 DEF Recent
  <2>3. InFlight(s)' = InFlight(s)
    BY <1>6, <1>9 DEF InFlight
  <2>4. \A d \in InFlight(s) : rolling'[d] = rolling[d]
    BY <1>6, <1>9 DEF InFlight
  <2>5. lastRollbacks'[s] = lastRollbacks[s] /\ rollbackCounts'[s] = rollbackCounts[s]
    BY <1>1, <1>2, <1>9
  <2>6. Rationed(s) /\ CooledDown(s)
    BY DEF RationInv
  <2>. QED  BY <1>1, <2>1, <2>2, <2>3, <2>4, <2>5, <2>6 DEF Rationed, CooledDown, Apart
<1>10. ASSUME NEW s \in RollbackIds, s = s0
       PROVE  Rationed(s)' /\ CooledDown(s)'
  <2>1. Successes(s)' = Successes(s) \cup {new}
    BY <1>2, <1>5, <1>10 DEF Successes
  <2>2. Recent(s)' \subseteq Recent(s) \cup {new}
    BY <1>1, <2>1 DEF Recent
  <2>3. rollbackCounts'[s] = rollbackCounts[s] \cup {new}
    BY <1>1, <1>2, <1>10
  <2>4. InFlight(s)' = InFlight(s) \ {c} /\ c \in InFlight(s)
    BY <1>1, <1>6, <1>10 DEF InFlight
  <2>5. Rationed(s)
    BY DEF RationInv
  <2>6. Cardinality(Recent(s)') <= Cardinality(Recent(s)) + 1
        /\ Cardinality(Recent(s)') \in Nat /\ Cardinality(Recent(s)) \in Nat
    <3>1. IsFiniteSet(Recent(s)) /\ Cardinality(Recent(s)) \in Nat
      BY <1>1, CountsAreFinite
    <3>2. IsFiniteSet(Recent(s) \cup {new})
          /\ Cardinality(Recent(s) \cup {new}) <= Cardinality(Recent(s)) + 1
          /\ Cardinality(Recent(s) \cup {new}) \in Nat
      <4>1. /\ IsFiniteSet(Recent(s) \cup {new})
            /\ \/ Cardinality(Recent(s) \cup {new}) = Cardinality(Recent(s))
               \/ Cardinality(Recent(s) \cup {new}) = Cardinality(Recent(s)) + 1
        BY <3>1, FS_AddElement
      <4>. QED  BY <3>1, <4>1
    <3>3. Cardinality(Recent(s)') <= Cardinality(Recent(s) \cup {new})
          /\ Cardinality(Recent(s)') \in Nat
      BY <2>2, <3>2, FS_Subset, FS_CardinalityType
    <3>. QED  BY <3>1, <3>2, <3>3
  <2>7. Cardinality(InFlight(s)') = Cardinality(InFlight(s)) - 1
        /\ Cardinality(InFlight(s)) \in Nat
    BY <1>1, <2>4, CountsAreFinite, FS_RemoveElement
  <2>8. Cardinality(Recent(s)') + Cardinality(InFlight(s)')
             < RollbackStrategy[s].maxRollbacksPerHour + Cardinality(Callers)
    BY <2>5, <2>6, <2>7, RollbackConstants DEF Rationed
  <2>9. Rationed(s)'
    BY <2>1, <2>2, <2>3, <2>5, <2>8 DEF Rationed
  <2>10. CooledDown(s)
    BY DEF RationInv
  <2>11. \A r \in Successes(s) : /\ r.start \in Nat /\ r.end \in Nat
                                  /\ r.start <= clock /\ r.end <= clock
    <3>1. \A r \in Successes(s) : r.start \in Nat /\ r.end \in Nat
      BY <1>1, TimeIsNatural DEF Successes, Success
    <3>2. lastRollbacks[s] \in Nat \cup {Never}
      BY <1>1, TimeIsNatural
    <3>. QED  BY <1>1, <2>10, <3>1, <3>2 DEF CooledDown
  <2>12. lastRollbacks'[s] = clock /\ clock # Never
    BY <1>1, <1>2, <1>10 DEF Never
  <2>13. ASSUME NEW d \in InFlight(s)'
         PROVE  d \in InFlight(s) /\ rolling'[d].at = rolling[d].at
                /\ rolling[d].at \in Nat /\ rolling[d].at <= clock
    <3>1. d \in InFlight(s) /\ rolling'[d] = rolling[d] /\ d \in Callers
      BY <1>6, <2>4 DEF InFlight
    <3>. QED  BY <1>1, <3>1, TimeIsNatural DEF RationInv, InFlight, RollbackExecution
  <2>14. \A start \in Nat : start <= clock => Apart(s, start, new)
    BY <1>1, <1>5 DEF Apart
  <2>15. \A r \in Successes(s) : Apart(s, new.start, r)
    BY <1>5, <1>10, <2>4, <2>10 DEF CooledDown
  <2>16. CooledDown(s)'
    <3>1. ASSUME NEW r \in Successes(s) \cup {new}
          PROVE  /\ r.start <= clock /\ r.end <= clock
                 /\ \A d \in InFlight(s)' : Apart(s, rolling'[d].at, r)
                 /\ \A later \in Successes(s) \cup {new} : Apart(s, later.start, r)
      <4>1. CASE r \in Successes(s)
        BY <2>10, <2>11, <2>13, <2>15, <4>1 DEF CooledDown
      <4>2. CASE r = new
        BY <1>1, <1>3, <1>5, <2>11, <2>13, <2>14, <4>2
      <4>. QED  BY <4>1, <4>2
    <3>2. clock <= clock
      BY <1>1
    <3>. QED  BY <1>1, <2>1, <2>12, <3>1, <3>2 DEF CooledDown, Apart
  <2>. QED  BY <2>9, <2>16
<1>. QED  BY <1>1, <1>7, <1>8, <1>9, <1>10 DEF RationInv

LEMMA RollbackStepKeeps ==
  ASSUME RationInv, NEW c \in Callers, RollbackStep(c)
  PROVE  RationInv'
<1>. DEFINE old == rolling[c]
<1>1. rolling \in [Callers -> RollbackExecution] /\ old \in RollbackExecution
  BY DEF RationInv, RollbackTypeOK
<1>2. CASE CanaryRollback(c)
  <2>. DEFINE h == [old EXCEPT !.pc = "act"]
  <2>1. rolling' = [rolling EXCEPT ![c] = h] /\ old.pc = "canary"
        /\ UNCHANGED <<clock, lastRollbacks, rollbackCounts, rollbacks>>
    BY <1>1, <1>2 DEF CanaryRollback
  <2>2. h \in RollbackExecution /\ h.strategy = old.strategy /\ h.at = old.at
    BY <1>1 DEF RollbackExecution
  <2>. HIDE DEF h
  <2>. QED  BY <2>1, <2>2, RollbackGoesOn
<1>3. CASE PerformAction(c)
  <2>. DEFINE h == [old EXCEPT !.done = old.done + 1]
  <2>1. rolling' = [rolling EXCEPT ![c] = h] /\ old.pc = "act"
        /\ UNCHANGED <<clock, lastRollbacks, rollbackCounts, rollbacks>>
    BY <1>1, <1>3 DEF PerformAction
  <2>2. h.strategy = old.strategy /\ h.at = old.at
    BY <1>1 DEF RollbackExecution
  <2>3. old.done + 1 \in Nat
    <3>1. old.done \in Nat
      BY <1>1 DEF RollbackExecution
    <3>. QED  BY <3>1
  <2>4. h \in RollbackExecution
    BY <1>1, <2>3 DEF RollbackExecution
  <2>. HIDE DEF h
  <2>. QED  BY <2>1, <2>2, <2>4, RollbackGoesOn
<1>4. CASE RollbackFails(c)
  BY <1>4, NoExecutionIsTyped, RollbackGoesOn DEF RollbackFails
<1>5. CASE RollbackSucceeds(c)
  BY <1>5, SuccessKeeps
<1>. QED  BY <1>2, <1>3, <1>4, <1>5 DEF RollbackStep

LEMMA RationInit == Init => RationInv
<1>. SUFFICES ASSUME Init PROVE RationInv
  OBVIOUS
<1>1. /\ clock = 0 /\ rollbacks = {}
      /\ lastRollbacks = [s \in RollbackIds |-> Never]
      /\ rollbackCounts = [s \in RollbackIds |-> {}]
      /\ rolling = [c \in Callers |-> NoExecution]
  BY DEF Init, RollbackInit
<1>2. RollbackTypeOK /\ IsFiniteSet(rollbacks)
  BY <1>1, NoExecutionIsTyped, FS_EmptySet DEF RollbackTypeOK
<1>3. \A c \in Callers : rolling[c].pc = "idle"
  BY <1>1, NoExecutionIsTyped
<1>4. ASSUME NEW s \in RollbackIds
      PROVE  Rationed(s) /\ CooledDown(s)
  <2>1. Successes(s) = {} /\ Recent(s) = {} /\ InFlight(s) = {}
    BY <1>1, <1>3 DEF Successes, Recent, InFlight
  <2>2. Cardinality(Recent(s)) = 0 /\ Cardinality(InFlight(s)) = 0
    BY <2>1, FS_EmptySet
  <2>3. rollbackCounts[s] = {}
    BY <1>1
  <2>. QED  BY <2>1, <2>2, <2>3, RollbackConstants DEF Rationed, CooledDown
<1>. QED  BY <1>1, <1>2, <1>3, <1>4, TimeIsNatural DEF RationInv

LEMMA RationImplies == RationInv => RollbacksAreRationed
<1>. SUFFICES ASSUME RationInv, NEW s \in RollbackIds
              PROVE  /\ \A r1, r2 \in Successes(s) : r1.end < r2.start =>
                           r2.start - r1.end >= RollbackStrategy[s].cooldownPeriod
                     /\ Cardinality({r \in Successes(s) : r.end > clock - Hour})
                          < RollbackStrategy[s].maxRollbacksPerHour + Cardinality(Callers)
  BY DEF RollbacksAreRationed
<1>1. Rationed(s) /\ CooledDown(s) /\ IsFiniteSet(rollbacks)
  BY DEF RationInv
<1>2. Cardinality(Recent(s)) < RollbackStrategy[s].maxRollbacksPerHour + Cardinality(Callers)
  BY <1>1, CountsAreFinite, RollbackConstants DEF Rationed
<1>. QED  BY <1>1, <1>2 DEF Recent, CooledDown, Apart

----------------------------------------------------------------------------
(* The alerts.                                                             *)

(* A pending alert waits since it last fired.                              *)
WaitsSinceFired ==
  /\ clock \in Time
  /\ pendingAlerts \in [Alerts -> Time \cup {Never}]
  /\ firedAt \in [Alerts -> Time \cup {Never}]
  /\ \A a \in Alerts : pendingAlerts[a] # Never => pendingAlerts[a] = firedAt[a]

LEMMA LeastIsMember ==
  ASSUME NEW S \in SUBSET Nat, S # {}
  PROVE  Min(S) \in S
<1>. DEFINE less == OpToRel(<, Nat)
<1>1. PICK x \in S : \A y \in S : <<y, x>> \notin less
  <2>. HIDE DEF less
  <2>1. IsWellFoundedOn(less, Nat)
    BY NatLessThanWellFounded DEF less
  <2>. QED  BY <2>1, WFMin
<1>2. \A y \in S : x <= y
  <2>1. \A y \in S : ~ (y < x)
    BY <1>1 DEF OpToRel
  <2>. HIDE DEF less
  <2>. QED  BY <2>1
<1>. QED  BY <1>2 DEF Min

(* The rule that acknowledges an alert has seen each of its waits pass.    *)
LEMMA RuleHasWaited ==
  ASSUME NEW metrics, NEW a \in AutoAcknowledged(metrics),
         NEW w \in WaitsOf(AcknowledgingRule(metrics, a))
  PROVE  TimeElapsed(a, w)
<1>. DEFINE first == Min(Acknowledging(metrics, a))
            resolving == Resolving(AcknowledgmentRule[first].alertRuleId, metrics, a)
            rule == AcknowledgmentRule[Min(resolving)]
<1>1. DOMAIN AcknowledgmentRule \subseteq Nat
  BY RuleAssumption
<1>2. first \in Acknowledging(metrics, a)
  BY <1>1, LeastIsMember DEF AutoAcknowledged, Acknowledging, EnabledRules
<1>3. resolving # {} /\ resolving \subseteq Nat
  BY <1>1, <1>2 DEF Acknowledging, Resolving, EnabledRules
<1>4. Min(resolving) \in resolving
  BY <1>3, LeastIsMember
<1>5. RuleResolved(rule, metrics, a)
  BY <1>4 DEF Resolving
<1>6. AcknowledgingRule(metrics, a) = rule
  BY DEF AcknowledgingRule
<1>. HIDE DEF rule
<1>7. PICK i \in DOMAIN rule.conditions :
         rule.conditions[i].type = "time_elapsed" /\ w = rule.conditions[i].wait
  BY <1>6 DEF WaitsOf
<1>8. ConditionResolved(rule.conditions[i], metrics, a)
  BY <1>5, <1>7 DEF RuleResolved
<1>. QED  BY <1>7, <1>8 DEF ConditionResolved

LEMMA AcknowledgeKeeps ==
  ASSUME WaitsSinceFired, NEW record, Acknowledge(record), UNCHANGED firedAt,
         UNCHANGED clock
  PROVE  WaitsSinceFired'
BY DEF WaitsSinceFired, Acknowledge

LEMMA AlertsKeep ==
  ASSUME WaitsSinceFired, [Next]_vars
  PROVE  WaitsSinceFired'
<1>1. CASE UNCHANGED <<clock, pendingAlerts, firedAt>>
  BY <1>1 DEF WaitsSinceFired
<1>2. CASE Tick
  BY <1>2, ClockAssumption DEF WaitsSinceFired, Tick, alertVars, Time
<1>3. ASSUME NEW t, NEW c, NEW m, RunAutomationCycle(t, c, m)
      PROVE  WaitsSinceFired'
  BY <1>3, AcknowledgeKeeps DEF RunAutomationCycle, EvaluateAlertAcknowledgments
<1>4. ASSUME NEW a \in Alerts, RecordAlert(a)
      PROVE  WaitsSinceFired'
  <2>1. /\ pendingAlerts' = [pendingAlerts EXCEPT ![a] = clock]
        /\ firedAt' = [firedAt EXCEPT ![a] = clock] /\ clock' = clock
    BY <1>4 DEF RecordAlert, Pend
  <2>. QED  BY <2>1 DEF WaitsSinceFired
<1>5. ASSUME NEW a \in Alerts, ManuallyAcknowledge(a) \/ RecordAcknowledgment(a)
      PROVE  WaitsSinceFired'
  BY <1>5, AcknowledgeKeeps DEF ManuallyAcknowledge, RecordAcknowledgment
<1>6. CASE AlertServed
  BY <1>4, <1>5, <1>6 DEF AlertServed
<1>7. ASSUME NEW c, RunRollback(c) \/ CycleEnds(c) \/ HealingRuns(c) \/ RollbackRuns(c)
      PROVE  UNCHANGED <<clock, pendingAlerts, firedAt>>
  BY <1>7 DEF RunRollback, StartRollback, CycleEnds, HealingRuns, HealingStep,
     ExecuteStrategy, ActionSucceeds, ActionTimesOut, UndoAction, RolledBack,
     StrategySucceeds, NothingLeft, LateCompletion, RollbackRuns, RollbackStep,
     CanaryRollback, PerformAction, RollbackFails, RollbackSucceeds, alertVars
<1>8. ASSUME NEW v, SetEnabled(v) \/ SetMode(v)
      PROVE  UNCHANGED <<clock, pendingAlerts, firedAt>>
  BY <1>8 DEF SetEnabled, SetMode, alertVars
<1>. QED
  BY <1>1, <1>2, <1>3, <1>6, <1>7, <1>8 DEF Next, vars, alertVars

----------------------------------------------------------------------------
AutomationInv == HealingInv /\ RationInv /\ WaitsSinceFired

LEMMA AutomationInit == Init => AutomationInv
<1>1. Init => WaitsSinceFired
  BY TimeIsNatural DEF Init, AlertInit, WaitsSinceFired
<1>. QED  BY <1>1, HealingInit0, RationInit DEF AutomationInv

(* One step, service by service: the others' state is left alone.          *)
LEMMA AutomationNext == AutomationInv /\ [Next]_vars => AutomationInv'
<1>. SUFFICES ASSUME AutomationInv, [Next]_vars PROVE AutomationInv'
  OBVIOUS
<1>. USE DEF AutomationInv
<1>1. WaitsSinceFired'
  BY AlertsKeep
<1>2. clock \in Time /\ clock \in Nat
  BY TimeIsNatural DEF HealingInv
<1>3. ASSUME UNCHANGED <<clock, rollbackVars>> PROVE RationInv'
  BY <1>2, <1>3, RollbackUntouched
<1>4. CASE UNCHANGED <<clock, healingVars, rollbackVars>>
  BY <1>3, <1>4, HealingUntouched, <1>1
<1>5. ASSUME NEW t, NEW c \in Callers, NEW m, RunAutomationCycle(t, c, m)
      PROVE  HealingInv' /\ RationInv'
  <2>1. UNCHANGED <<clock, rollbackVars>>
    BY <1>5 DEF RunAutomationCycle
  <2>2. HealingInv'
    BY <1>5, <2>1, HealingUntouched, EvaluationKeeps DEF RunAutomationCycle
  <2>. QED  BY <1>3, <2>1, <2>2
<1>6. ASSUME NEW c \in Callers, RunRollback(c)
      PROVE  HealingInv' /\ RationInv'
  <2>1. StartRollback(c, cycle[c].metrics) /\ UNCHANGED <<clock, healingVars>>
    BY <1>6 DEF RunRollback, StartRollback
  <2>. QED  BY <2>1, HealingUntouched, StartKeeps
<1>7. ASSUME NEW c \in Callers, HealingRuns(c)
      PROVE  HealingInv' /\ RationInv'
  <2>1. HealingStep(c) /\ UNCHANGED <<clock, rollbackVars>>
    BY <1>7 DEF HealingRuns, HealingStep, ExecuteStrategy, ActionSucceeds, ActionTimesOut,
       UndoAction, RolledBack, StrategySucceeds, NothingLeft, LateCompletion
  <2>. QED  BY <1>3, <2>1, HealingStepKeeps
<1>8. ASSUME NEW c \in Callers, RollbackRuns(c)
      PROVE  HealingInv' /\ RationInv'
  <2>1. RollbackStep(c) /\ UNCHANGED <<clock, healingVars>>
    BY <1>8 DEF RollbackRuns, RollbackStep, CanaryRollback, PerformAction, RollbackFails,
       RollbackSucceeds
  <2>. QED  BY <2>1, HealingUntouched, RollbackStepKeeps
<1>9. CASE Tick
  <2>1. UNCHANGED rollbackVars /\ clock' \in Time /\ clock <= clock'
    BY <1>2, <1>9, ClockAssumption DEF Tick, Time
  <2>. QED  BY <1>1, <1>9, <2>1, RollbackUntouched, TickKeepsHealing
<1>10. ASSUME NEW c, CycleEnds(c)
       PROVE  UNCHANGED <<clock, healingVars, rollbackVars>>
  BY <1>10 DEF CycleEnds
<1>11. ASSUME NEW v, SetEnabled(v) \/ SetMode(v)
       PROVE  UNCHANGED <<clock, healingVars, rollbackVars>>
  BY <1>11 DEF SetEnabled, SetMode
<1>12. CASE AlertServed
  <2>1. UNCHANGED <<clock, healingVars, rollbackVars>>
    BY <1>12 DEF AlertServed, RecordAlert, ManuallyAcknowledge, RecordAcknowledgment
  <2>. QED  BY <1>4, <2>1
<1>13. CASE UNCHANGED vars
  BY <1>4, <1>13 DEF vars
<1>. QED
  BY <1>1, <1>4, <1>5, <1>6, <1>7, <1>8, <1>9, <1>10, <1>11, <1>12, <1>13 DEF Next

LEMMA AutomationHolds == Spec => []AutomationInv
<1>. QED  BY AutomationInit, AutomationNext, PTL DEF Spec

(* A healing that was rolled back leaves in effect only what went on after *)
(* its own timeout, for any strategies and timeouts and any number of      *)
(* evaluations that overlap (executeStrategy and rollback).                *)
THEOREM HealingIsUndone == Spec => []RollbackUndoesSuccesses
<1>1. AutomationInv => RollbackUndoesSuccesses
  <2>. SUFFICES ASSUME AutomationInv, NEW c \in Callers,
                       healing[c].pc = "undo", healing[c].undone = 0,
                       NEW i \in DOMAIN healing[c].performed,
                       healing[c].performed[i] = "success"
                PROVE  i \notin healing[c].applied
    BY DEF RollbackUndoesSuccesses
  <2>1. Reversible(healing[c]) /\ healing[c] \in HealingExecution
    BY DEF AutomationInv, HealingInv, HealingTypeOK
  <2>2. i > 0
    BY <2>1 DEF HealingExecution
  <2>. QED  BY <2>1, <2>2 DEF Reversible
<1>. QED  BY <1>1, AutomationHolds, PTL

(* The cooldown holds between a rollback and any that starts after it, and *)
(* the hourly limit up to the rollbacks that were in flight together, for  *)
(* any strategies and any number of cycles that overlap (isInCooldown,     *)
(* hasExceededRollbackLimit and recordRollback).                           *)
THEOREM RollbacksStayRationed == Spec => []RollbacksAreRationed
<1>1. AutomationInv => RollbacksAreRationed
  BY RationImplies DEF AutomationInv
<1>. QED  BY <1>1, AutomationHolds, PTL

(* No strategy is selected whose condition any evaluation found unmet      *)
(* within its duration, however the evaluations of the callers interleave  *)
(* (findApplicableStrategies and its conditionTracker).                    *)
THEOREM SelectionIsEarned == Spec => SelectedHasPersisted
<1>1. AutomationInv /\ [Next]_vars =>
        [\A c \in Callers :
            healing[c].pc = "idle" /\ healing'[c].pc = "select" =>
                \A s \in ToSet(healing'[c].queue) :
                    clock - unmetAt[s] >= HealingStrategy[s].condition.duration]_<<clock, healingVars>>
  <2>. SUFFICES ASSUME AutomationInv, [Next]_vars, NEW c \in Callers,
                       healing[c].pc = "idle", healing'[c].pc = "select",
                       NEW s \in ToSet(healing'[c].queue)
                PROVE  clock - unmetAt[s] >= HealingStrategy[s].condition.duration
    OBVIOUS
  <2>1. HealingInv
    BY DEF AutomationInv
  <2>2. healing' # healing
    OBVIOUS
  <2>3. ASSUME NEW t, NEW d \in Callers, NEW m, RunAutomationCycle(t, d, m)
        PROVE  clock - unmetAt[s] >= HealingStrategy[s].condition.duration
    BY <2>1, <2>2, <2>3, EvaluationSelects DEF RunAutomationCycle, healingVars
  <2>4. ASSUME NEW d \in Callers, HealingRuns(d)
        PROVE  FALSE
    BY <2>1, <2>4, HealingStepSelectsNone DEF HealingRuns
  <2>5. \A v : ~ SetEnabled(v) /\ ~ SetMode(v) /\ ~ RunRollback(v) /\ ~ CycleEnds(v)
               /\ ~ RollbackRuns(v)
    BY <2>2 DEF SetEnabled, SetMode, RunRollback, CycleEnds, RollbackRuns, healingVars
  <2>6. ~ AlertServed /\ ~ Tick /\ ~ UNCHANGED vars
    BY <2>2 DEF AlertServed, Tick, vars, healingVars
  <2>. QED  BY <2>3, <2>4, <2>5, <2>6 DEF Next
<1>. QED  BY <1>1, AutomationHolds, PTL DEF Spec, SelectedHasPersisted

(* An automatic acknowledgment has waited, since its alert last fired, as  *)
(* long as its rule asks, whatever fired or was acknowledged in between    *)
(* (evaluateAlertAcknowledgments and acknowledgeAlert).                    *)
THEOREM AcknowledgmentsWait == Spec => AcknowledgedAfterWait
<1>1. AutomationInv /\ [Next]_vars =>
        [\A id \in DOMAIN acknowledgments' \ DOMAIN acknowledgments :
            acknowledgments'[id].method = "auto" =>
                \A w \in acknowledgments'[id].waits :
                    id[2] - firedAt[id[1]] >= w]_<<clock, requests, alertVars>>
  <2>. SUFFICES ASSUME AutomationInv, [Next]_vars,
                       NEW id \in DOMAIN acknowledgments' \ DOMAIN acknowledgments,
                       NEW w \in acknowledgments'[id].waits
                PROVE  id[2] - firedAt[id[1]] >= w
    OBVIOUS
  <2>1. acknowledgments' # acknowledgments
    OBVIOUS
  <2>2. ASSUME NEW record, Acknowledge(record)
        PROVE  \E a \in DOMAIN record : id = AckId(a) /\ acknowledgments'[id] = record[a]
    BY <2>2 DEF Acknowledge, AckId
  <2>3. ASSUME NEW t, NEW d \in Callers, NEW m, RunAutomationCycle(t, d, m)
        PROVE  id[2] - firedAt[id[1]] >= w
    <3>. DEFINE record == [a \in AutoAcknowledged(m) |->
                   [rule |-> AcknowledgingRule(m, a).id, method |-> "auto",
                    waits |-> WaitsOf(AcknowledgingRule(m, a))]]
    <3>1. Acknowledge(record)
      BY <2>3 DEF RunAutomationCycle, EvaluateAlertAcknowledgments
    <3>2. PICK a \in AutoAcknowledged(m) : id = AckId(a) /\ acknowledgments'[id] = record[a]
      BY <2>2, <3>1
    <3>3. w \in WaitsOf(AcknowledgingRule(m, a))
      BY <3>2
    <3>4. TimeElapsed(a, w)
      BY <3>3, RuleHasWaited
    <3>5. pendingAlerts[a] = firedAt[a]
      BY <3>4 DEF AutomationInv, WaitsSinceFired, TimeElapsed, AutoAcknowledged
    <3>. QED  BY <3>2, <3>4, <3>5 DEF TimeElapsed, AckId
  <2>4. ASSUME NEW a, ManuallyAcknowledge(a) \/ RecordAcknowledgment(a)
        PROVE  FALSE
    <3>1. PICK method \in {"manual", "auto"} :
            Acknowledge([x \in {a} |-> [rule |-> "manual", method |-> method, waits |-> {}]])
      BY <2>4 DEF ManuallyAcknowledge, RecordAcknowledgment
    <3>2. acknowledgments'[id] = [rule |-> "manual", method |-> method, waits |-> {}]
      BY <2>2, <3>1
    <3>. QED  BY <3>2
  <2>5. \A v : ~ SetEnabled(v) /\ ~ SetMode(v) /\ ~ RunRollback(v) /\ ~ CycleEnds(v)
               /\ ~ RollbackRuns(v) /\ ~ HealingRuns(v) /\ ~ RecordAlert(v)
    BY <2>1 DEF SetEnabled, SetMode, RunRollback, CycleEnds, RollbackRuns, HealingRuns,
       RecordAlert, alertVars
  <2>6. ~ Tick /\ ~ UNCHANGED vars
    BY <2>1 DEF Tick, vars, alertVars
  <2>. QED  BY <2>3, <2>4, <2>5, <2>6 DEF Next, AlertServed
<1>. QED  BY <1>1, AutomationHolds, PTL DEF Spec, AcknowledgedAfterWait

============================================================================
