--------------------------- MODULE Pipeline_proofs ---------------------------
(* Theorems about Pipeline, for any commands, ideas, modes and approvals.  *)
EXTENDS Pipeline, SequenceTheorems, TLAPS

-----------------------------------------------------------------------------
(* The gates. *)

Statuses == {"pass", "needs-review", "blocked"}

LEMMA EvaluatedStatus ==
  ASSUME NEW g, NEW m, NEW intake, NEW tasks, NEW skills
  PROVE  Evaluated(g, m, intake, tasks, skills) \in Statuses
BY DEF Evaluated, Statuses

LEMMA DecisionStatus ==
  ASSUME NEW g, NEW m, NEW approved, NEW intake, NEW tasks, NEW skills
  PROVE  Decision(g, m, approved, intake, tasks, skills) \in Statuses
BY EvaluatedStatus DEF Decision, Statuses

(* The gates pass when each of them does.                                  *)
LEMMA OverallPasses ==
  ASSUME NEW m, NEW approved, NEW intake, NEW tasks, NEW skills,
         Overall(m, approved, intake, tasks, skills) = "pass",
         NEW g \in GateIds, g \notin approved
  PROVE  LET status == Evaluated(g, m, intake, tasks, skills) IN
         status = "pass" \/ (m = "turbo" /\ status = "needs-review")
<1>1. Decision(g, m, approved, intake, tasks, skills) \in Statuses
  BY DecisionStatus
<1>2. Decision(g, m, approved, intake, tasks, skills) = "pass"
  BY <1>1 DEF Overall, Statuses
<1>. QED  BY <1>2 DEF Decision

(* Two modes of which each gate is stricter in the second.                 *)
LEMMA OverallMonotone ==
  ASSUME NEW m, NEW n, NEW approved, NEW x, NEW y, NEW tasks, NEW skills,
         \A g \in GateIds : Severity(Decision(g, m, approved, x, tasks, skills))
                              <= Severity(Decision(g, n, approved, y, tasks, skills))
  PROVE  Severity(Overall(m, approved, x, tasks, skills))
           <= Severity(Overall(n, approved, y, tasks, skills))
<1>. DEFINE D(g) == Decision(g, m, approved, x, tasks, skills)
            E(g) == Decision(g, n, approved, y, tasks, skills)
<1>1. \A g \in GateIds : D(g) \in Statuses /\ E(g) \in Statuses
  BY DecisionStatus
<1>2. \A s \in Statuses : /\ s = "pass" => Severity(s) = 0
                          /\ s = "needs-review" => Severity(s) = 1
                          /\ s = "blocked" => Severity(s) = 2
  BY DEF Severity, Statuses
<1>3. /\ Overall(m, approved, x, tasks, skills)
           = IF "blocked" \in {D(g) : g \in GateIds} THEN "blocked"
             ELSE IF "needs-review" \in {D(g) : g \in GateIds} THEN "needs-review" ELSE "pass"
      /\ Overall(n, approved, y, tasks, skills)
           = IF "blocked" \in {E(g) : g \in GateIds} THEN "blocked"
             ELSE IF "needs-review" \in {E(g) : g \in GateIds} THEN "needs-review" ELSE "pass"
  BY DEF Overall
<1>4. \A g \in GateIds : Severity(D(g)) <= Severity(E(g))
  OBVIOUS
<1>. HIDE DEF D, E
<1>5. CASE \E g \in GateIds : E(g) = "blocked"
  <2>1. Overall(n, approved, y, tasks, skills) = "blocked"
    BY <1>3, <1>5
  <2>2. Overall(m, approved, x, tasks, skills) \in Statuses
    BY <1>3 DEF Statuses
  <2>. QED  BY <2>1, <2>2, <1>2 DEF Statuses
<1>6. CASE /\ \A g \in GateIds : E(g) # "blocked"
           /\ \E g \in GateIds : E(g) = "needs-review"
  <2>1. Overall(n, approved, y, tasks, skills) = "needs-review"
    BY <1>3, <1>6
  <2>2. \A g \in GateIds : D(g) # "blocked"
    BY <1>1, <1>2, <1>4, <1>6 DEF Statuses
  <2>3. Overall(m, approved, x, tasks, skills) \in {"pass", "needs-review"}
    BY <1>3, <2>2
  <2>. QED  BY <2>1, <2>3, <1>2 DEF Statuses
<1>7. CASE \A g \in GateIds : E(g) \notin {"blocked", "needs-review"}
  <2>1. \A g \in GateIds : D(g) \notin {"blocked", "needs-review"}
    BY <1>1, <1>2, <1>4, <1>7 DEF Statuses
  <2>2. /\ Overall(m, approved, x, tasks, skills) = "pass"
        /\ Overall(n, approved, y, tasks, skills) = "pass"
    BY <1>3, <1>7, <2>1
  <2>. QED  BY <2>2, <1>2 DEF Statuses
<1>. QED  BY <1>5, <1>6, <1>7

(* The same intake as two modes trim it: whatever the number of questions, *)
(* assumptions and tasks and whatever skills there are, no gate is milder   *)
(* in the stricter mode.                                                    *)
LEMMA GateMonotone ==
  ASSUME NEW i \in 1 .. 5, NEW g \in GateIds, NEW approved,
         NEW q \in Nat, NEW tasks \in Nat,
         NEW skills \in [selected : Nat, specialists : Nat],
         NEW x, NEW y, x.usable <=> y.usable, x.clear <=> y.clear,
         x.assumptions = y.assumptions, x.assumptions \in Nat,
         x.questions = Trimmed(q, Strictness[i]), y.questions = Trimmed(q, Strictness[i + 1])
  PROVE  Severity(Decision(g, Strictness[i], approved, x, tasks, skills))
           <= Severity(Decision(g, Strictness[i + 1], approved, y, tasks, skills))
<1>. DEFINE m == Strictness[i]  n == Strictness[i + 1]
<1>1. \/ m = "turbo" /\ n = "builder"
      \/ m = "builder" /\ n = "balanced"
      \/ m = "balanced" /\ n = "pro"
      \/ m = "pro" /\ n = "expert"
      \/ m = "expert" /\ n = "safe"
  BY DEF Strictness
<1>2. x.questions = Trimmed(q, m) /\ y.questions = Trimmed(q, n)
  OBVIOUS
<1>. HIDE DEF m, n
<1>3. DEFINE Row(k, ask, rq, bq, ts, ss, ra, ba) ==
        /\ Policy(k).maxClarifyingQuestions = ask
        /\ Policy(k).maxQuestionsBeforeReview = rq
        /\ Policy(k).maxQuestionsBeforeBlock = bq
        /\ Policy(k).minimumPlanTasks = ts
        /\ Policy(k).minimumSelectedSkills = ss
        /\ Policy(k).ambiguityReviewThreshold = ra
        /\ Policy(k).ambiguityBlockThreshold = ba
<1>4. /\ Row("turbo", 2, 99, 15, 3, 1, 10, 15)
      /\ Row("builder", 5, 5, 10, 5, 2, 4, 8)
      /\ Row("balanced", 10, 4, 8, 6, 2, 3, 6)
      /\ Row("pro", 8, 3, 8, 6, 2, 2, 6)
      /\ Row("expert", 15, 1, 5, 8, 3, 1, 4)
      /\ Row("safe", 20, 1, 3, 10, 3, 1, 2)
  BY DEF Policy, Thresholds
<1>5. \A k : Trimmed(q, k) = IF q > Policy(k).maxClarifyingQuestions
                            THEN Policy(k).maxClarifyingQuestions ELSE q
  BY DEF Trimmed
<1>6. Blocks(g, m, x, tasks, skills) => Blocks(g, n, y, tasks, skills)
  <2>1. CASE g = "objective-clarity"
    BY <2>1 DEF Blocks
  <2>2. CASE g \in {"plan-readiness", "skill-coverage"}
    BY <2>2 DEF Blocks
  <2>3. CASE g = "requirements-completeness"
    <3>1. /\ Blocks(g, m, x, tasks, skills) <=> (x.questions >= Policy(m).maxQuestionsBeforeBlock)
          /\ Blocks(g, n, y, tasks, skills) <=> (y.questions >= Policy(n).maxQuestionsBeforeBlock)
      BY <2>3 DEF Blocks
    <3>. QED  BY <3>1, <1>1, <1>2, <1>4, <1>5
  <2>4. CASE g = "ambiguity-risk"
    <3>1. /\ Blocks(g, m, x, tasks, skills) <=> (x.questions >= Policy(m).ambiguityBlockThreshold)
          /\ Blocks(g, n, y, tasks, skills) <=> (y.questions >= Policy(n).ambiguityBlockThreshold)
      BY <2>4 DEF Blocks
    <3>. QED  BY <3>1, <1>1, <1>2, <1>4, <1>5
  <2>. QED  BY <2>1, <2>2, <2>3, <2>4 DEF GateIds
<1>7. Doubts(g, m, x, tasks, skills) => Doubts(g, n, y, tasks, skills)
  <2>1. CASE g = "objective-clarity"
    BY <2>1 DEF Doubts
  <2>2. CASE g = "plan-readiness"
    <3>1. /\ Doubts(g, m, x, tasks, skills) <=> (tasks < Policy(m).minimumPlanTasks)
          /\ Doubts(g, n, y, tasks, skills) <=> (tasks < Policy(n).minimumPlanTasks)
      BY <2>2 DEF Doubts
    <3>. QED  BY <3>1, <1>1, <1>4
  <2>3. CASE g = "skill-coverage"
    <3>1. /\ Doubts(g, m, x, tasks, skills) <=> \/ skills.selected < Policy(m).minimumSelectedSkills
                                             \/ skills.specialists = 0
          /\ Doubts(g, n, y, tasks, skills) <=> \/ skills.selected < Policy(n).minimumSelectedSkills
                                             \/ skills.specialists = 0
      BY <2>3 DEF Doubts
    <3>. QED  BY <3>1, <1>1, <1>4
  <2>4. CASE g = "requirements-completeness"
    <3>1. /\ Doubts(g, m, x, tasks, skills) <=> (x.questions >= Policy(m).maxQuestionsBeforeReview)
          /\ Doubts(g, n, y, tasks, skills) <=> (y.questions >= Policy(n).maxQuestionsBeforeReview)
      BY <2>4 DEF Doubts
    <3>. QED  BY <3>1, <1>1, <1>2, <1>4, <1>5
  <2>5. CASE g = "ambiguity-risk"
    <3>1. /\ Doubts(g, m, x, tasks, skills) <=> \/ x.assumptions > 6
                                             \/ x.questions >= Policy(m).ambiguityReviewThreshold
          /\ Doubts(g, n, y, tasks, skills) <=> \/ y.assumptions > 6
                                             \/ y.questions >= Policy(n).ambiguityReviewThreshold
      BY <2>5 DEF Doubts
    <3>. QED  BY <3>1, <1>1, <1>2, <1>4, <1>5
  <2>. QED  BY <2>1, <2>2, <2>3, <2>4, <2>5 DEF GateIds
<1>8. CASE g \in approved
  BY <1>8 DEF Decision, Severity
<1>9. CASE g \notin approved
  <2>. DEFINE d == Evaluated(g, m, x, tasks, skills)  e == Evaluated(g, n, y, tasks, skills)
  <2>1. /\ d \in Statuses /\ e \in Statuses
        /\ d = "blocked" => e = "blocked"
        /\ d = "needs-review" => e # "pass"
    BY <1>6, <1>7, EvaluatedStatus DEF Evaluated
  <2>2. /\ Decision(g, m, approved, x, tasks, skills) \in {d, "pass"}
        /\ Decision(g, n, approved, y, tasks, skills) = e
    BY <1>9, <1>1 DEF Decision
  <2>. HIDE DEF d, e
  <2>. QED  BY <2>1, <2>2 DEF Severity, Statuses, m, n
<1>. QED  BY <1>8, <1>9

-----------------------------------------------------------------------------
(* The invariant. A report is sound for a set G of approvals given; G only  *)
(* grows, and what is sound stays so.                                       *)

Sound(r, G) ==
  /\ r \in Report
  /\ r.approved \subseteq G
  /\ InOrder(r)
  /\ Len(r.done) > 3 => OverallOf(r) = "pass"
  /\ r.bundle # None => /\ Len(r.done) > 3
                        /\ r.bundle.approved => "building" \in r.approved

SoundMemory(m, G) == m \in Memory /\ Approvals(m) \subseteq G

Built(r) ==
  /\ r.phase = "building"
  /\ r.bundle \in Bundles
  /\ r.bundle.approved => "building" \in r.approved

SoundCommand(c, G) ==
  \/ c = Idle
  \/ /\ c.pc \in {"step", "executing", "record"}
     /\ c = Command(c.pc, c.by, c.report, None)
     /\ c.by \in {"cli", "service"}
     /\ Sound(c.report, G)
     /\ c.pc \in {"step", "executing"} => ~ c.report.finished
     /\ c.pc = "executing" => Built(c.report)
  \/ /\ c = Command("save", c.by, None, c.mem)
     /\ c.by \in {"cli", "service"}
     /\ SoundMemory(c.mem, G)

IInv ==
  /\ SoundMemory(memory, given.gates)
  /\ cmd = [p \in Invocations |-> cmd[p]]
  /\ \A p \in Invocations : SoundCommand(cmd[p], given.gates)

-----------------------------------------------------------------------------
(* Phases. *)

LEMMA PhaseFacts ==
  /\ Len(Phases) = 8
  /\ Phases[1] = "intake" /\ Phases[2] = "planning" /\ Phases[3] = "skills"
  /\ Phases[4] = "gating" /\ Phases[5] = "building" /\ Phases[6] = "testing"
  /\ Phases[7] = "reviewing" /\ Phases[8] = "deployment"
  /\ PhaseSet = {"intake", "planning", "skills", "gating", "building",
                 "testing", "reviewing", "deployment"}
BY DEF Phases, PhaseSet

(* The phase of a report in order tells how many are done.                  *)
LEMMA DoneAt ==
  ASSUME NEW r \in Report, InOrder(r)
  PROVE  /\ Len(r.done) \in 0 .. 7
         /\ r.phase = "intake"     <=> Len(r.done) = 0
         /\ r.phase = "planning"   <=> Len(r.done) = 1
         /\ r.phase = "skills"     <=> Len(r.done) = 2
         /\ r.phase = "gating"     <=> Len(r.done) = 3
         /\ r.phase = "building"   <=> Len(r.done) = 4
         /\ r.phase = "testing"    <=> Len(r.done) = 5
         /\ r.phase = "reviewing"  <=> Len(r.done) = 6
         /\ r.phase = "deployment" <=> Len(r.done) = 7
<1>. DEFINE n == Len(r.done)
<1>1. n \in 0 .. 7 /\ r.phase = Phases[n + 1]
  <2>1. r.done \in Seq(PhaseSet)
    BY DEF Report
  <2>2. n \in Nat
    BY <2>1, LenProperties
  <2>3. n < Len(Phases) /\ r.phase = Phases[n + 1]
    BY DEF InOrder
  <2>4. n < 8
    BY <2>3, PhaseFacts
  <2>. HIDE DEF n
  <2>. QED  BY <2>2, <2>3, <2>4
<1>. HIDE DEF n
<1>2. n \in {0, 1, 2, 3, 4, 5, 6, 7}
  BY <1>1
<1>3. /\ r.phase = "intake" <=> n = 0
      /\ r.phase = "planning" <=> n = 1
      /\ r.phase = "skills" <=> n = 2
      /\ r.phase = "gating" <=> n = 3
      /\ r.phase = "building" <=> n = 4
      /\ r.phase = "testing" <=> n = 5
      /\ r.phase = "reviewing" <=> n = 6
      /\ r.phase = "deployment" <=> n = 7
  BY <1>1, <1>2, PhaseFacts
<1>. QED  BY <1>1, <1>3 DEF n

(* A phase that succeeds, and leaves what the next one needs, moves on.     *)
LEMMA MovesOn ==
  ASSUME None \notin PhaseSet, NEW G, NEW r, Sound(r, G), ~ r.finished,
         NEW n \in 0 .. 6, Len(r.done) = n, NEW next, next = Phases[n + 2],
         r.intake # None,
         n > 0 => r.tasks # None,
         n > 1 => r.skills # None,
         n > 2 => OverallOf(r) = "pass"
  PROVE  Sound(Advanced(r, next, "success"), G)
<1>. DEFINE a == Advanced(r, next, "success")
<1>1. r \in Report /\ InOrder(r)
  BY DEF Sound
<1>2. r.done \in Seq(PhaseSet) /\ r.phase \in PhaseSet
  BY <1>1 DEF Report
<1>3. n \in 0 .. 6 /\ r.phase = Phases[n + 1] /\ \A i \in 1 .. n : r.done[i] = Phases[i]
  BY <1>1 DEF InOrder
<1>4. next \in PhaseSet /\ next # None
  <2>1. n \in {0, 1, 2, 3, 4, 5, 6}
    BY <1>3
  <2>. QED  BY <2>1, PhaseFacts
<1>5. a = [r EXCEPT !.done = Append(r.done, r.phase), !.phase = next, !.status = "in-progress"]
  BY <1>4 DEF Advanced
<1>6. /\ Append(r.done, r.phase) \in Seq(PhaseSet)
      /\ Len(Append(r.done, r.phase)) = n + 1
      /\ \A i \in 1 .. n + 1 : Append(r.done, r.phase)[i] = Phases[i]
  <2>1. /\ Append(r.done, r.phase) \in Seq(PhaseSet)
        /\ Len(Append(r.done, r.phase)) = n + 1
        /\ \A i \in 1 .. n : Append(r.done, r.phase)[i] = r.done[i]
        /\ Append(r.done, r.phase)[n + 1] = r.phase
    BY <1>2, AppendProperties
  <2>. QED  BY <2>1, <1>3
<1>7. /\ a \in Report
      /\ a.idea = r.idea /\ a.mode = r.mode /\ a.approved = r.approved
      /\ a.done = Append(r.done, r.phase) /\ a.phase = next /\ a.finished = r.finished
      /\ a.intake = r.intake /\ a.tasks = r.tasks /\ a.skills = r.skills /\ a.bundle = r.bundle
  <2>. DEFINE done == Append(r.done, r.phase)
  <2>1. done \in Seq(PhaseSet)
    BY <1>6
  <2>. HIDE DEF done
  <2>. QED  BY <1>1, <1>4, <1>5, <2>1 DEF Report, done
<1>. HIDE DEF a
<1>8. Len(a.done) = n + 1 /\ \A i \in 1 .. n + 1 : a.done[i] = Phases[i]
  BY <1>6, <1>7
<1>9. InOrder(a)
  <2>1. /\ Len(a.done) = n + 1 /\ n + 1 < 8 /\ a.phase = Phases[n + 2]
    BY <1>8, <1>3, <1>7
  <2>2. (n + 1) + 1 = n + 2
    BY <1>3
  <2>3. a.intake # None /\ (n + 1 > 1 => a.tasks # None) /\ (n + 1 > 2 => a.skills # None)
    BY <1>3, <1>7
  <2>4. ~ a.finished
    BY <1>7
  <2>. QED  BY <1>8, <2>1, <2>2, <2>3, <2>4, PhaseFacts DEF InOrder
<1>10. OverallOf(a) = OverallOf(r)
  BY <1>7 DEF OverallOf
<1>11. Len(a.done) > 3 => OverallOf(a) = "pass"
  BY <1>10, <1>8, <1>3
<1>12. a.bundle # None => Len(a.done) > 3 /\ (a.bundle.approved => "building" \in a.approved)
  BY <1>7, <1>8, <1>3 DEF Sound
<1>13. a.approved \subseteq G
  BY <1>7 DEF Sound
<1>14. Sound(a, G)
  BY <1>7, <1>9, <1>11, <1>12, <1>13 DEF Sound
<1>. QED  BY <1>14 DEF a

(* A phase that does not succeed leaves the report where it is.             *)
LEMMA StaysThere ==
  ASSUME NEW G, NEW r, Sound(r, G), NEW next, NEW status, status # "success"
  PROVE  Sound(Advanced(r, next, status), G)
<1>. DEFINE s == IF status = "blocked" THEN "blocked" ELSE "awaiting-approval"
            a == Advanced(r, next, status)
<1>1. a = [r EXCEPT !.status = s]
  BY DEF Advanced
<1>2. r \in Report /\ s \in {"blocked", "awaiting-approval"}
  BY DEF Sound
<1>. HIDE DEF s, a
<1>3. /\ a \in Report
      /\ a.idea = r.idea /\ a.mode = r.mode /\ a.approved = r.approved
      /\ a.done = r.done /\ a.phase = r.phase /\ a.finished = r.finished
      /\ a.intake = r.intake /\ a.tasks = r.tasks /\ a.skills = r.skills /\ a.bundle = r.bundle
  BY <1>1, <1>2 DEF Report
<1>4. InOrder(a)
  BY <1>3 DEF InOrder, Sound
<1>5. OverallOf(a) = OverallOf(r)
  BY <1>3 DEF OverallOf
<1>6. Sound(a, G)
  BY <1>3, <1>4, <1>5 DEF Sound
<1>. QED  BY <1>6 DEF a

(* The last phase finishes the report.                                      *)
LEMMA Finishes ==
  ASSUME NEW G, NEW r, Sound(r, G), Len(r.done) = 7
  PROVE  Sound(Advanced(r, None, "success"), G)
<1>. DEFINE a == Advanced(r, None, "success")
<1>1. a = [r EXCEPT !.finished = TRUE, !.status = "success"]
  BY DEF Advanced
<1>2. r \in Report
  BY DEF Sound
<1>. HIDE DEF a
<1>3. /\ a.idea = r.idea /\ a.mode = r.mode /\ a.approved = r.approved
      /\ a.done = r.done /\ a.phase = r.phase /\ a.finished = TRUE /\ a.status = "success"
      /\ a.intake = r.intake /\ a.tasks = r.tasks /\ a.skills = r.skills /\ a.bundle = r.bundle
  BY <1>1, <1>2 DEF Report
<1>4. a \in Report
  BY <1>1, <1>2 DEF Report
<1>5. InOrder(a)
  BY <1>3 DEF InOrder, Sound
<1>6. OverallOf(a) = OverallOf(r)
  BY <1>3 DEF OverallOf
<1>7. Sound(a, G)
  BY <1>3, <1>4, <1>5, <1>6 DEF Sound
<1>. QED  BY <1>7 DEF a

(* A phase fills in its artifact before the gates have been passed, and the *)
(* building phase its bundle after.                                         *)
LEMMA FillsIn ==
  ASSUME NEW G, NEW r, Sound(r, G), NEW a \in Report,
         a.idea = r.idea, a.mode = r.mode, a.approved = r.approved,
         a.done = r.done, a.phase = r.phase, a.finished = r.finished,
         r.intake # None => a.intake # None,
         r.tasks # None => a.tasks # None,
         r.skills # None => a.skills # None,
         \/ Len(r.done) < 4 /\ a.bundle = r.bundle
         \/ /\ Len(r.done) > 3 /\ a.intake = r.intake /\ a.tasks = r.tasks /\ a.skills = r.skills
            /\ a.bundle.approved => "building" \in r.approved
  PROVE  Sound(a, G)
<1>1. InOrder(a)
  BY DEF InOrder, Sound
<1>2. CASE Len(r.done) < 4 /\ a.bundle = r.bundle
  <2>1. Len(r.done) \in Nat
    BY DoneAt DEF Sound
  <2>2. ~ (Len(a.done) > 3)
    BY <1>2, <2>1
  <2>3. a.bundle = None
    BY <1>2, <2>2 DEF Sound
  <2>. QED  BY <1>1, <2>2, <2>3 DEF Sound
<1>3. CASE /\ Len(r.done) > 3 /\ a.intake = r.intake /\ a.tasks = r.tasks /\ a.skills = r.skills
           /\ a.bundle.approved => "building" \in r.approved
  <2>1. OverallOf(a) = OverallOf(r)
    BY <1>3 DEF OverallOf
  <2>. QED  BY <1>1, <1>3, <2>1 DEF Sound
<1>. QED  BY <1>2, <1>3

-----------------------------------------------------------------------------
(* The phases keep a report sound. *)

LEMMA IntakeSound ==
  ASSUME PipelineAssumption, NEW G, NEW r, Sound(r, G), r.phase = "intake", ~ r.finished,
         NEW s \in IntakeDone(r)
  PROVE  Sound(s, G)
<1>. DEFINE i == Intake(r.idea, r.mode)  a == [r EXCEPT !.intake = i]
<1>1. r \in Report /\ InOrder(r)
  BY DEF Sound
<1>2. Len(r.done) = 0
  BY <1>1, DoneAt
<1>3. i \in Intakes /\ i # None
  BY <1>1 DEF Report, Intakes, PipelineAssumption
<1>. HIDE DEF i
<1>4. /\ a \in Report /\ a.intake = i
      /\ a.idea = r.idea /\ a.mode = r.mode /\ a.approved = r.approved
      /\ a.done = r.done /\ a.phase = r.phase /\ a.finished = r.finished
      /\ a.tasks = r.tasks /\ a.skills = r.skills /\ a.bundle = r.bundle
  BY <1>1, <1>3 DEF Report
<1>5. s = Advanced(a, "planning", "success")
  BY DEF IntakeDone, i
<1>. HIDE DEF a
<1>6. Sound(a, G)
  <2>1. Len(r.done) < 4
    BY <1>2
  <2>2. /\ r.intake # None => a.intake # None
        /\ r.tasks # None => a.tasks # None
        /\ r.skills # None => a.skills # None
    BY <1>3, <1>4
  <2>. QED  BY <1>4, <2>1, <2>2, FillsIn
<1>7. None \notin PhaseSet /\ Phases[0 + 2] = "planning"
  BY PhaseFacts DEF PipelineAssumption
<1>8. /\ Len(a.done) = 0 /\ 0 \in 0 .. 6 /\ ~ a.finished /\ a.intake # None
      /\ 0 > 0 => a.tasks # None
      /\ 0 > 1 => a.skills # None
      /\ 0 > 2 => OverallOf(a) = "pass"
  BY <1>2, <1>3, <1>4
<1>. QED  BY <1>5, <1>6, <1>7, <1>8, MovesOn

LEMMA PlanningSound ==
  ASSUME PipelineAssumption, NEW G, NEW r, Sound(r, G), r.phase = "planning", ~ r.finished,
         NEW s \in PlanningDone(r)
  PROVE  Sound(s, G)
<1>. DEFINE t == PlanTasks(r.idea)  a == [r EXCEPT !.tasks = t]
<1>1. r \in Report /\ InOrder(r)
  BY DEF Sound
<1>2. Len(r.done) = 1
  BY <1>1, DoneAt
<1>3. t \in 6 .. 8 /\ t # None
  BY DEF PlanTasks, PipelineAssumption
<1>. HIDE DEF t
<1>4. /\ a \in Report /\ a.tasks = t
      /\ a.idea = r.idea /\ a.mode = r.mode /\ a.approved = r.approved
      /\ a.done = r.done /\ a.phase = r.phase /\ a.finished = r.finished
      /\ a.intake = r.intake /\ a.skills = r.skills /\ a.bundle = r.bundle
  BY <1>1, <1>3 DEF Report
<1>5. s = Advanced(a, "skills", "success")
  BY DEF PlanningDone, t
<1>6. r.intake # None
  BY <1>1, <1>2 DEF InOrder
<1>. HIDE DEF a
<1>7. Sound(a, G)
  <2>1. Len(r.done) < 4
    BY <1>2
  <2>2. /\ r.intake # None => a.intake # None
        /\ r.tasks # None => a.tasks # None
        /\ r.skills # None => a.skills # None
    BY <1>3, <1>4
  <2>. QED  BY <1>4, <2>1, <2>2, FillsIn
<1>8. None \notin PhaseSet /\ Phases[1 + 2] = "skills"
  BY PhaseFacts DEF PipelineAssumption
<1>9. /\ Len(a.done) = 1 /\ 1 \in 0 .. 6 /\ ~ a.finished /\ a.intake # None /\ a.tasks # None
      /\ 1 > 1 => a.skills # None
      /\ 1 > 2 => OverallOf(a) = "pass"
  BY <1>2, <1>3, <1>4, <1>6
<1>. QED  BY <1>5, <1>7, <1>8, <1>9, MovesOn

LEMMA SkillsSound ==
  ASSUME PipelineAssumption, NEW G, NEW r, Sound(r, G), r.phase = "skills", ~ r.finished,
         NEW s \in SkillsDone(r)
  PROVE  Sound(s, G)
<1>1. PICK found \in SkillsFound : s = Advanced([r EXCEPT !.skills = found], "gating", "success")
  BY DEF SkillsDone
<1>. DEFINE a == [r EXCEPT !.skills = found]
<1>2. r \in Report /\ InOrder(r)
  BY DEF Sound
<1>3. Len(r.done) = 2
  BY <1>2, DoneAt
<1>4. found # None
  BY DEF PipelineAssumption
<1>5. /\ a \in Report /\ a.skills = found
      /\ a.idea = r.idea /\ a.mode = r.mode /\ a.approved = r.approved
      /\ a.done = r.done /\ a.phase = r.phase /\ a.finished = r.finished
      /\ a.intake = r.intake /\ a.tasks = r.tasks /\ a.bundle = r.bundle
  BY <1>2 DEF Report
<1>6. r.intake # None /\ r.tasks # None
  BY <1>2, <1>3 DEF InOrder
<1>. HIDE DEF a
<1>7. Sound(a, G)
  <2>1. Len(r.done) < 4
    BY <1>3
  <2>2. /\ r.intake # None => a.intake # None
        /\ r.tasks # None => a.tasks # None
        /\ r.skills # None => a.skills # None
    BY <1>4, <1>5
  <2>. QED  BY <1>5, <2>1, <2>2, FillsIn
<1>8. None \notin PhaseSet /\ Phases[2 + 2] = "gating"
  BY PhaseFacts DEF PipelineAssumption
<1>9. s = Advanced(a, "gating", "success")
  BY <1>1 DEF a
<1>10. /\ Len(a.done) = 2 /\ 2 \in 0 .. 6 /\ ~ a.finished
       /\ a.intake # None /\ a.tasks # None /\ a.skills # None
       /\ 2 > 2 => OverallOf(a) = "pass"
  BY <1>3, <1>4, <1>5, <1>6
<1>. QED  BY <1>7, <1>8, <1>9, <1>10, MovesOn

(* Only gates that pass lead to the building phase.                         *)
LEMMA GatingSound ==
  ASSUME PipelineAssumption, NEW G, NEW r, Sound(r, G), r.phase = "gating", ~ r.finished,
         NEW s \in GatingDone(r)
  PROVE  Sound(s, G)
<1>1. r \in Report /\ InOrder(r)
  BY DEF Sound
<1>2. Len(r.done) = 3
  BY <1>1, DoneAt
<1>3. r.intake # None /\ r.tasks # None /\ r.skills # None
  BY <1>1, <1>2 DEF InOrder
<1>4. CASE OverallOf(r) = "pass"
  <2>1. s = Advanced(r, "building", "success")
    BY <1>4 DEF GatingDone
  <2>2. None \notin PhaseSet /\ Phases[3 + 2] = "building"
    BY PhaseFacts DEF PipelineAssumption
  <2>3. 3 \in 0 .. 6
    OBVIOUS
  <2>. QED  BY <1>2, <1>3, <1>4, <2>1, <2>2, <2>3, MovesOn
<1>5. CASE OverallOf(r) # "pass"
  <2>1. \E status : status # "success" /\ s = Advanced(r, "gating", status)
    BY <1>5 DEF GatingDone
  <2>. QED  BY <2>1, StaysThere
<1>. QED  BY <1>4, <1>5

LEMMA SimulatedSound ==
  ASSUME PipelineAssumption, NEW G, NEW r, Sound(r, G), ~ r.finished,
         r.phase \in {"testing", "reviewing", "deployment"}, NEW s \in Simulated(r)
  PROVE  Sound(s, G)
<1>1. r \in Report /\ InOrder(r)
  BY DEF Sound
<1>2. /\ r.phase = "testing" => Len(r.done) = 5
      /\ r.phase = "reviewing" => Len(r.done) = 6
      /\ r.phase = "deployment" => Len(r.done) = 7
  BY <1>1, DoneAt
<1>3. /\ r.intake # None /\ r.tasks # None /\ r.skills # None
      /\ OverallOf(r) = "pass"
  <2>1. Len(r.done) > 3 /\ Len(r.done) > 2 /\ Len(r.done) > 1 /\ Len(r.done) > 0
    <3>1. Len(r.done) = 5 \/ Len(r.done) = 6 \/ Len(r.done) = 7
      BY <1>2
    <3>. QED  BY <3>1
  <2>2. r.intake # None /\ r.tasks # None /\ r.skills # None
    BY <1>1, <2>1 DEF InOrder
  <2>3. OverallOf(r) = "pass"
    BY <2>1 DEF Sound
  <2>. QED  BY <2>2, <2>3
<1>4. /\ None \notin PhaseSet /\ Phases[5 + 2] = "reviewing" /\ Phases[6 + 2] = "deployment"
  BY PhaseFacts DEF PipelineAssumption
<1>5. CASE r.phase = "testing"
  <2>1. s = Advanced(r, "reviewing", "success")
    BY <1>5 DEF Simulated
  <2>2. Len(r.done) = 5 /\ 5 \in 0 .. 6
    BY <1>2, <1>5
  <2>. QED  BY <1>3, <1>4, <2>1, <2>2, MovesOn
<1>6. CASE r.phase = "reviewing"
  <2>1. s = Advanced(r, "deployment", "success")
    BY <1>6 DEF Simulated
  <2>2. Len(r.done) = 6 /\ 6 \in 0 .. 6
    BY <1>2, <1>6
  <2>. QED  BY <1>3, <1>4, <2>1, <2>2, MovesOn
<1>7. CASE r.phase = "deployment"
  <2>1. s = Advanced(r, None, "success")
    BY <1>7 DEF Simulated
  <2>. QED  BY <1>2, <1>7, <2>1, Finishes
<1>. QED  BY <1>5, <1>6, <1>7

LEMMA PhaseSound ==
  ASSUME PipelineAssumption, NEW G, NEW r, Sound(r, G), ~ r.finished, r.phase # "building",
         NEW s \in PhaseDone(r)
  PROVE  Sound(s, G)
<1>1. r.phase \in {"intake", "planning", "skills", "gating", "testing", "reviewing", "deployment"}
  BY PhaseFacts DEF Sound, Report
<1>2. CASE r.phase = "intake"
  <2>. s \in IntakeDone(r)
    BY <1>2 DEF PhaseDone
  <2>. QED  BY <1>2, IntakeSound
<1>3. CASE r.phase = "planning"
  <2>. s \in PlanningDone(r)
    BY <1>3 DEF PhaseDone
  <2>. QED  BY <1>3, PlanningSound
<1>4. CASE r.phase = "skills"
  <2>. s \in SkillsDone(r)
    BY <1>4 DEF PhaseDone
  <2>. QED  BY <1>4, SkillsSound
<1>5. CASE r.phase = "gating"
  <2>. s \in GatingDone(r)
    BY <1>5 DEF PhaseDone
  <2>. QED  BY <1>5, GatingSound
<1>6. CASE r.phase \in {"testing", "reviewing", "deployment"}
  <2>. s \in Simulated(r)
    BY <1>6 DEF PhaseDone
  <2>. QED  BY <1>6, SimulatedSound
<1>. QED  BY <1>1, <1>2, <1>3, <1>4, <1>5, <1>6

LEMMA BundleSound ==
  ASSUME NEW G, NEW r, Sound(r, G), r.phase = "building"
  PROVE  LET a == [r EXCEPT !.bundle = Bundle(r)] IN
         Sound(a, G) /\ Built(a)
<1>. DEFINE b == Bundle(r)  a == [r EXCEPT !.bundle = b]
<1>1. r \in Report /\ InOrder(r)
  BY DEF Sound
<1>2. Len(r.done) > 3
  BY <1>1, DoneAt
<1>3. b \in Bundles /\ (b.approved => "building" \in r.approved)
  <2>. DEFINE q == "building" \in r.approved
  <2>1. q \in BOOLEAN /\ (q => "building" \in r.approved)
    OBVIOUS
  <2>2. b = [approved |-> q, status |-> "planned"]
    BY DEF Bundle
  <2>. HIDE DEF q, b
  <2>3. b \in Bundles
    BY <2>1, <2>2 DEF Bundles
  <2>4. b.approved = q
    BY <2>2
  <2>. QED  BY <2>1, <2>3, <2>4, Zenon
<1>. HIDE DEF b
<1>4. /\ a \in Report /\ a.bundle = b
      /\ a.idea = r.idea /\ a.mode = r.mode /\ a.approved = r.approved
      /\ a.done = r.done /\ a.phase = r.phase /\ a.finished = r.finished
      /\ a.intake = r.intake /\ a.tasks = r.tasks /\ a.skills = r.skills
  BY <1>1, <1>3 DEF Report
<1>. HIDE DEF a
<1>5. a.bundle.approved => "building" \in r.approved
  BY <1>3, <1>4
<1>6. Sound(a, G)
  BY <1>2, <1>4, <1>5, FillsIn
<1>7. Sound(a, G) /\ Built(a)
  BY <1>3, <1>4, <1>5, <1>6 DEF Built
<1>. QED  BY <1>7 DEF a, b

LEMMA BuildingSound ==
  ASSUME PipelineAssumption, NEW G, NEW r, Sound(r, G), ~ r.finished,
         Built(r),
         NEW outcome \in {"paused", "failed", "completed"}
  PROVE  Sound(BuildingDone(r, outcome), G)
<1>. DEFINE b == [r.bundle EXCEPT !.status = outcome]  a == [r EXCEPT !.bundle = b]
<1>1. r \in Report /\ InOrder(r)
  BY DEF Sound
<1>2. Len(r.done) = 4
  BY <1>1, DoneAt DEF Built
<1>3. b \in Bundles /\ b.approved = r.bundle.approved
  BY DEF Bundles, Built
<1>4. r.bundle.approved => "building" \in r.approved
  BY DEF Built
<1>5. BuildingDone(r, outcome)
        = Advanced(a, IF outcome = "completed" THEN "testing" ELSE "building",
                   CASE outcome = "paused"    -> "awaiting-approval"
                     [] outcome = "failed"    -> "failure"
                     [] outcome = "completed" -> "success")
  BY DEF BuildingDone
<1>. HIDE DEF b
<1>6. /\ a \in Report /\ a.bundle = b
      /\ a.idea = r.idea /\ a.mode = r.mode /\ a.approved = r.approved
      /\ a.done = r.done /\ a.phase = r.phase /\ a.finished = r.finished
      /\ a.intake = r.intake /\ a.tasks = r.tasks /\ a.skills = r.skills
  BY <1>1, <1>3 DEF Report
<1>. HIDE DEF a
<1>7. a.bundle.approved => "building" \in r.approved
  BY <1>3, <1>4, <1>6
<1>8. Sound(a, G)
  <2>1. Len(r.done) > 3
    BY <1>2
  <2>. QED  BY <1>6, <1>7, <2>1, FillsIn
<1>9. CASE outcome = "completed"
  <2>1. BuildingDone(r, outcome) = Advanced(a, "testing", "success")
    BY <1>5, <1>9
  <2>2. Len(r.done) > 3 /\ Len(r.done) > 2 /\ Len(r.done) > 1 /\ Len(r.done) > 0
    BY <1>2
  <2>3. r.intake # None /\ r.tasks # None /\ r.skills # None
    BY <1>1, <2>2 DEF InOrder
  <2>4. OverallOf(a) = "pass"
    BY <1>6, <1>8, <2>2 DEF Sound
  <2>5. None \notin PhaseSet /\ Phases[4 + 2] = "testing" /\ 4 \in 0 .. 6
    BY PhaseFacts DEF PipelineAssumption
  <2>6. /\ Len(a.done) = 4 /\ ~ a.finished
        /\ a.intake # None /\ a.tasks # None /\ a.skills # None
    BY <1>2, <1>6, <2>3
  <2>. QED  BY <1>8, <2>1, <2>4, <2>5, <2>6, MovesOn
<1>10. CASE outcome # "completed"
  <2>1. \E status : status # "success"
                    /\ BuildingDone(r, outcome) = Advanced(a, "building", status)
    BY <1>5, <1>10
  <2>. QED  BY <1>8, <2>1, StaysThere
<1>. QED  BY <1>9, <1>10

-----------------------------------------------------------------------------
(* What is sound stays so when more has been approved. *)

LEMMA SoundCommandGrows ==
  ASSUME NEW G, NEW H, G \subseteq H, NEW c, SoundCommand(c, G)
  PROVE  SoundCommand(c, H)
<1>1. \A r : Sound(r, G) => Sound(r, H)
  BY DEF Sound
<1>2. \A m : SoundMemory(m, G) => SoundMemory(m, H)
  BY DEF SoundMemory
<1>. QED  BY <1>1, <1>2 DEF SoundCommand

(* What a step of an invocation must show.                                  *)
LEMMA SetSound ==
  ASSUME NEW G, NEW H, G \subseteq H, given.gates = G, given'.gates = H,
         IInv, NEW p \in Invocations, NEW c, SoundCommand(c, H), Set(p, c),
         SoundMemory(memory', H)
  PROVE  IInv'
<1>1. cmd' = [q \in Invocations |-> IF q = p THEN c ELSE cmd[q]]
  BY DEF IInv, Set
<1>2. cmd' = [q \in Invocations |-> cmd'[q]]
  BY <1>1
<1>3. \A q \in Invocations : SoundCommand(cmd'[q], H)
  <2>. SUFFICES ASSUME NEW q \in Invocations  PROVE SoundCommand(cmd'[q], H)
    OBVIOUS
  <2>1. SoundCommand(cmd[q], H)
    BY SoundCommandGrows DEF IInv
  <2>. QED  BY <1>1, <2>1
<1>4. SoundMemory(memory', given'.gates)
  OBVIOUS
<1>5. \A q \in Invocations : SoundCommand(cmd'[q], given'.gates)
  BY <1>3
<1>. QED  BY <1>2, <1>4, <1>5 DEF IInv, SoundMemory, SoundCommand, Approvals, Sound, Built, InOrder, OverallOf

-----------------------------------------------------------------------------
(* The actions. *)

LEMMA NewReportSound ==
  ASSUME PipelineAssumption, NEW G, NEW idea \in Ideas, NEW mode \in Modes,
         NEW approved \in SUBSET Approvable, approved \subseteq G
  PROVE  Sound(NewReport(idea, mode, approved), G) /\ ~ NewReport(idea, mode, approved).finished
<1>. DEFINE r == NewReport(idea, mode, approved)
<1>1. /\ r.idea = idea /\ r.mode = mode /\ r.approved = approved
      /\ r.phase = "intake" /\ r.done = <<>> /\ r.finished = FALSE /\ r.bundle = None
  BY DEF NewReport
<1>2. r \in Report
  <2>1. "intake" \in PhaseSet /\ <<>> \in Seq(PhaseSet)
    BY PhaseFacts, EmptySeq
  <2>. QED  BY <2>1 DEF NewReport, Report
<1>. HIDE DEF r
<1>3. Len(r.done) = 0
  BY <1>1, EmptySeq
<1>4. InOrder(r)
  <2>1. 0 < Len(Phases) /\ Phases[0 + 1] = "intake"
    BY PhaseFacts
  <2>2. /\ ~ (0 > 0) /\ ~ (0 > 1) /\ ~ (0 > 2) /\ \A i \in 1 .. 0 : FALSE
    OBVIOUS
  <2>. QED  BY <1>1, <1>3, <2>1, <2>2 DEF InOrder
<1>5. ~ (Len(r.done) > 3)
  BY <1>3
<1>6. Sound(r, G) /\ ~ r.finished
  BY <1>1, <1>2, <1>4, <1>5 DEF Sound
<1>. QED  BY <1>6 DEF r

(* A run that starts.                                                       *)
LEMMA StartsSound ==
  ASSUME PipelineAssumption, NEW G, NEW idea \in Ideas, NEW mode \in Modes,
         NEW approved \in SUBSET Approvable, approved \subseteq G,
         NEW by \in {"cli", "service"}
  PROVE  SoundCommand(Command("step", by, NewReport(idea, mode, approved), None), G)
<1>. DEFINE r == NewReport(idea, mode, approved)  c == Command("step", by, r, None)
<1>1. Sound(r, G) /\ ~ r.finished
  BY NewReportSound
<1>. HIDE DEF r
<1>2. /\ c.pc = "step" /\ c.by = by /\ c.report = r
      /\ c = Command(c.pc, c.by, c.report, None)
  BY DEF Command
<1>. HIDE DEF c
<1>3. SoundCommand(c, G)
  BY <1>1, <1>2 DEF SoundCommand
<1>. QED  BY <1>3 DEF c, r

LEMMA SavesSound ==
  ASSUME NEW G, NEW m, SoundMemory(m, G), NEW by \in {"cli", "service"}
  PROVE  SoundCommand(Command("save", by, None, m), G)
<1>. DEFINE c == Command("save", by, None, m)
<1>1. c.by = by /\ c.mem = m /\ c = Command("save", c.by, None, c.mem)
  BY DEF Command
<1>. HIDE DEF c
<1>2. SoundCommand(c, G)
  BY <1>1 DEF SoundCommand
<1>. QED  BY <1>2 DEF c

(* An invocation at work.                                                   *)
LEMMA AtWork ==
  ASSUME NEW G, NEW c, SoundCommand(c, G), c.pc \in {"step", "executing", "record"}
  PROVE  /\ c = Command(c.pc, c.by, c.report, None) /\ c.by \in {"cli", "service"}
         /\ Sound(c.report, G)
         /\ c.pc \in {"step", "executing"} => ~ c.report.finished
         /\ c.pc = "executing" => Built(c.report)
<1>1. c # Idle
  BY DEF Idle, Command
<1>2. ~ (c = Command("save", c.by, None, c.mem))
  BY DEF Command
<1>. QED  BY <1>1, <1>2 DEF SoundCommand

LEMMA AcceptGrows ==
  ASSUME NEW p, NEW by, NEW mode, NEW gates, Accept(p, by, mode, gates)
  PROVE  given'.gates = given.gates \cup gates
BY DEF Accept, AcceptAs

LEMMA RunPipelineSound ==
  ASSUME PipelineAssumption, IInv, NEW p \in Invocations,
         NEW idea \in IdeasGiven \cup {None}, NEW mode \in Modes \cup {None},
         RunPipeline(p, idea, mode)
  PROVE  IInv'
<1>. DEFINE target == IF idea = None THEN memory.idea ELSE idea
            m == IF mode = None THEN ModeOf(memory) ELSE mode
            c == Command("step", "cli", NewReport(target, m, Approvals(memory)), None)
<1>1. /\ target # None /\ Set(p, c) /\ memory' = memory /\ Accept(p, "cli", mode, {})
  BY DEF RunPipeline
<1>2. given'.gates = given.gates
  BY <1>1, AcceptGrows
<1>3. memory \in Memory /\ Approvals(memory) \subseteq given.gates
  BY DEF IInv, SoundMemory
<1>4. target \in Ideas
  BY <1>1, <1>3 DEF Memory, PipelineAssumption
<1>5. m \in Modes /\ Approvals(memory) \in SUBSET Approvable
  <2>1. CASE memory.entry = None
    BY <2>1 DEF PipelineAssumption, ModeOf, Approvals, Modes
  <2>2. CASE memory.entry # None
    <3>1. memory.entry \in Entries
      BY <1>3, <2>2 DEF Memory
    <3>. QED  BY <2>2, <3>1 DEF PipelineAssumption, Entries, ModeOf, Approvals, Modes
  <2>. QED  BY <2>1, <2>2
<1>. HIDE DEF target, m
<1>6. SoundCommand(c, given.gates)
  BY <1>3, <1>4, <1>5, StartsSound
<1>. HIDE DEF c
<1>7. SoundMemory(memory', given.gates)
  BY <1>1, <1>3 DEF SoundMemory
<1>. QED  BY <1>1, <1>2, <1>6, <1>7, SetSound

LEMMA CreateRunSound ==
  ASSUME PipelineAssumption, IInv, NEW p \in Invocations,
         NEW idea \in IdeasGiven, NEW mode \in ModesGiven, CreateRun(p, idea, mode)
  PROVE  IInv'
<1>. DEFINE c == Command("step", "service", NewReport(idea, mode, {}), None)
<1>1. Set(p, c) /\ memory' = memory /\ Accept(p, "service", None, {})
  BY DEF CreateRun
<1>2. given'.gates = given.gates
  BY <1>1, AcceptGrows
<1>3. idea \in Ideas /\ mode \in Modes
  BY DEF PipelineAssumption
<1>4. SoundCommand(c, given.gates)
  BY <1>3, StartsSound
<1>. HIDE DEF c
<1>5. SoundMemory(memory', given.gates)
  BY <1>1 DEF SoundMemory, IInv
<1>. QED  BY <1>1, <1>2, <1>4, <1>5, SetSound

LEMMA LeaveSound ==
  ASSUME IInv, NEW p \in Invocations, cmd[p].pc \in {"step", "executing"}, NEW report,
         Sound(report, given.gates), Leave(p, report), UNCHANGED <<memory, given>>
  PROVE  IInv'
<1>. DEFINE pc == IF Continues(report) THEN "step" ELSE "record"
            c == Command(pc, cmd[p].by, report, None)
<1>1. Set(p, c)
  BY DEF Leave
<1>2. /\ cmd[p] = Command(cmd[p].pc, cmd[p].by, cmd[p].report, None)
      /\ cmd[p].by \in {"cli", "service"}
  BY AtWork DEF IInv
<1>3. pc \in {"step", "record"} /\ (pc = "step" => ~ report.finished)
  BY DEF Continues
<1>. HIDE DEF pc
<1>4. c.pc = pc /\ c.by = cmd[p].by /\ c.report = report /\ c = Command(c.pc, c.by, c.report, None)
  BY DEF Command
<1>. HIDE DEF c
<1>5. SoundCommand(c, given.gates)
  BY <1>2, <1>3, <1>4 DEF SoundCommand
<1>6. SoundMemory(memory', given.gates) /\ given'.gates = given.gates
  BY DEF IInv, SoundMemory
<1>. QED  BY <1>1, <1>5, <1>6, SetSound

LEMMA StepSound ==
  ASSUME PipelineAssumption, IInv, NEW p \in Invocations, Step(p)
  PROVE  IInv'
<1>1. PICK report \in PhaseDone(cmd[p].report) : Leave(p, report)
  BY DEF Step
<1>2. cmd[p].pc = "step" /\ cmd[p].report.phase # "building" /\ UNCHANGED <<memory, given>>
  BY DEF Step
<1>3. Sound(cmd[p].report, given.gates) /\ ~ cmd[p].report.finished
  BY <1>2, AtWork DEF IInv
<1>4. Sound(report, given.gates)
  BY <1>2, <1>3, PhaseSound
<1>. QED  BY <1>1, <1>2, <1>4, LeaveSound

LEMMA StartBuildingSound ==
  ASSUME IInv, NEW p \in Invocations, StartBuilding(p)
  PROVE  IInv'
<1>. DEFINE r == cmd[p].report
            a == [r EXCEPT !.bundle = Bundle(r)]
            c == Command("executing", cmd[p].by, a, None)
<1>1. Set(p, c) /\ cmd[p].pc = "step" /\ r.phase = "building" /\ UNCHANGED <<memory, given>>
  BY DEF StartBuilding
<1>2. /\ cmd[p] = Command(cmd[p].pc, cmd[p].by, r, None) /\ cmd[p].by \in {"cli", "service"}
      /\ Sound(r, given.gates) /\ ~ r.finished
  BY <1>1, AtWork DEF IInv
<1>3. Sound(a, given.gates) /\ Built(a)
  BY <1>1, <1>2, BundleSound
<1>4. a.finished = r.finished
  BY <1>2 DEF Sound, Report
<1>5. /\ c.pc = "executing" /\ c.by = cmd[p].by /\ c.report = a
      /\ c = Command(c.pc, c.by, c.report, None)
  BY DEF Command
<1>. HIDE DEF a, c, r
<1>6. SoundCommand(c, given.gates)
  BY <1>2, <1>3, <1>4, <1>5 DEF SoundCommand
<1>7. SoundMemory(memory', given.gates) /\ given'.gates = given.gates
  BY <1>1 DEF IInv, SoundMemory
<1>. QED  BY <1>1, <1>6, <1>7, SetSound

LEMMA EndBuildingSound ==
  ASSUME PipelineAssumption, IInv, NEW p \in Invocations, EndBuilding(p)
  PROVE  IInv'
<1>1. PICK outcome \in {"paused", "failed", "completed"} :
        Leave(p, BuildingDone(cmd[p].report, outcome))
  BY DEF EndBuilding
<1>2. cmd[p].pc = "executing" /\ UNCHANGED <<memory, given>>
  BY DEF EndBuilding
<1>3. Sound(cmd[p].report, given.gates) /\ ~ cmd[p].report.finished /\ Built(cmd[p].report)
  BY <1>2, AtWork DEF IInv
<1>4. Sound(BuildingDone(cmd[p].report, outcome), given.gates)
  BY <1>3, BuildingSound
<1>. QED  BY <1>1, <1>2, <1>4, LeaveSound

LEMMA LoadForRecordSound ==
  ASSUME IInv, NEW p \in Invocations, LoadForRecord(p)
  PROVE  IInv'
<1>. DEFINE r == cmd[p].report  m == Recorded(memory, r)
            c == Command("save", cmd[p].by, None, m)
<1>1. cmd[p].pc = "record" /\ Set(p, c) /\ UNCHANGED <<memory, given>>
  BY DEF LoadForRecord
<1>2. cmd[p].by \in {"cli", "service"} /\ Sound(r, given.gates)
  BY <1>1, AtWork DEF IInv
<1>3. memory.idea \in Ideas \cup {None}
  BY DEF IInv, SoundMemory, Memory
<1>4. r.idea \in Ideas /\ r.mode \in Modes /\ r.approved \in SUBSET Approvable
      /\ r.approved \subseteq given.gates
  BY <1>2 DEF Sound, Report
<1>. HIDE DEF r
<1>5. SoundMemory(m, given.gates)
  <2>1. m \in Memory /\ m.entry.approved = r.approved
    BY <1>3, <1>4 DEF Recorded, IdeaOf, ModeKept, Memory, Entries
  <2>. QED  BY <1>4, <2>1 DEF SoundMemory, Approvals
<1>. HIDE DEF m
<1>6. SoundCommand(c, given.gates)
  BY <1>2, <1>5, SavesSound
<1>. HIDE DEF c
<1>7. SoundMemory(memory', given.gates) /\ given'.gates = given.gates
  BY <1>1 DEF IInv, SoundMemory
<1>. QED  BY <1>1, <1>6, <1>7, SetSound

LEMMA ApproveSound ==
  ASSUME PipelineAssumption, IInv, NEW p \in Invocations, NEW gate \in GatesGiven, Approve(p, gate)
  PROVE  IInv'
<1>. DEFINE m == [memory EXCEPT !.entry.approved = @ \cup {gate}]
            c == Command("save", "cli", None, m)
            H == given.gates \cup {gate}
<1>1. /\ memory.entry # None /\ Set(p, c) /\ memory' = memory
      /\ Accept(p, "cli", None, {gate})
  BY DEF Approve
<1>2. given'.gates = H
  BY <1>1, AcceptGrows
<1>3. SoundMemory(memory, given.gates) /\ memory \in Memory
  BY DEF IInv, SoundMemory
<1>4. gate \in Approvable
  BY DEF PipelineAssumption
<1>5. memory.entry \in Entries
  BY <1>1, <1>3 DEF Memory
<1>6. m.entry = [memory.entry EXCEPT !.approved = @ \cup {gate}] /\ m.idea = memory.idea
      /\ m = [memory EXCEPT !.entry = m.entry]
  BY <1>3 DEF Memory
<1>7. m.entry \in Entries
      /\ m.entry.approved = memory.entry.approved \cup {gate}
  BY <1>4, <1>5, <1>6 DEF Entries
<1>. HIDE DEF m
<1>8. m \in Memory
  BY <1>3, <1>6, <1>7 DEF Memory
<1>9. memory.entry.approved \subseteq given.gates
  BY <1>1, <1>3 DEF SoundMemory, Approvals
<1>10. Approvals(m) \subseteq H
  BY <1>7, <1>9 DEF Approvals
<1>11. SoundMemory(m, H) /\ SoundMemory(memory', H)
  BY <1>1, <1>3, <1>8, <1>10 DEF SoundMemory
<1>12. SoundCommand(c, H)
  BY <1>11, SavesSound
<1>. HIDE DEF c
<1>13. given.gates \subseteq H
  OBVIOUS
<1>. HIDE DEF H
<1>. QED  BY <1>1, <1>2, <1>11, <1>12, <1>13, SetSound

LEMMA SetRecordedModeSound ==
  ASSUME PipelineAssumption, IInv, NEW p \in Invocations, NEW mode \in ModesSet,
         SetRecordedMode(p, mode)
  PROVE  IInv'
<1>. DEFINE m == [memory EXCEPT !.entry.mode = mode]
            c == Command("save", "cli", None, m)
<1>1. /\ memory.entry # None /\ Set(p, c) /\ memory' = memory
      /\ Accept(p, "cli", mode, {})
  BY DEF SetRecordedMode
<1>2. given'.gates = given.gates
  <2>1. given'.gates = given.gates \cup {}
    BY <1>1, AcceptGrows
  <2>. QED  BY <2>1
<1>3. SoundMemory(memory, given.gates) /\ memory \in Memory
  BY DEF IInv, SoundMemory
<1>4. mode \in Modes
  BY DEF PipelineAssumption
<1>5. memory.entry \in Entries
  BY <1>1, <1>3 DEF Memory
<1>6. m.entry = [memory.entry EXCEPT !.mode = mode] /\ m.idea = memory.idea
      /\ m = [memory EXCEPT !.entry = m.entry]
  BY <1>3 DEF Memory
<1>7. m.entry \in Entries
      /\ m.entry.approved = memory.entry.approved
  BY <1>4, <1>5, <1>6 DEF Entries
<1>. HIDE DEF m
<1>8. m \in Memory
  BY <1>3, <1>6, <1>7 DEF Memory
<1>9. memory.entry.approved \subseteq given.gates
  BY <1>1, <1>3 DEF SoundMemory, Approvals
<1>10. Approvals(m) \subseteq given.gates
  BY <1>7, <1>9 DEF Approvals
<1>11. SoundMemory(m, given.gates) /\ SoundMemory(memory', given.gates)
  BY <1>1, <1>3, <1>8, <1>10 DEF SoundMemory
<1>12. SoundCommand(c, given.gates)
  BY <1>11, SavesSound
<1>. HIDE DEF c
<1>. QED  BY <1>1, <1>2, <1>11, <1>12, SetSound

(* Without a recorded run nothing changes but the history.                  *)
LEMMA SetUnrecordedModeSound ==
  ASSUME IInv, NEW p \in Invocations, NEW mode, SetUnrecordedMode(p, mode)
  PROVE  IInv'
<1>1. memory' = memory /\ cmd' = cmd /\ given'.gates = given.gates \cup {}
  BY DEF SetUnrecordedMode, AcceptAs
<1>2. given'.gates = given.gates
  BY <1>1
<1>. QED  BY <1>1, <1>2 DEF IInv

LEMMA SetModeSound ==
  ASSUME PipelineAssumption, IInv, NEW p \in Invocations, NEW mode \in ModesSet, SetMode(p, mode)
  PROVE  IInv'
BY SetRecordedModeSound, SetUnrecordedModeSound DEF SetMode

LEMMA SaveSound ==
  ASSUME IInv, NEW p \in Invocations, Save(p)
  PROVE  IInv'
<1>1. cmd[p].pc = "save" /\ memory' = cmd[p].mem /\ Set(p, Idle) /\ given' = given
  BY DEF Save
<1>2. SoundMemory(cmd[p].mem, given.gates)
  <2>1. SoundCommand(cmd[p], given.gates)
    BY DEF IInv
  <2>. QED  BY <1>1, <2>1 DEF SoundCommand, Idle, Command
<1>3. SoundMemory(memory', given.gates)
  BY <1>1, <1>2 DEF SoundMemory
<1>4. SoundCommand(Idle, given.gates)
  BY DEF SoundCommand
<1>. QED  BY <1>1, <1>3, <1>4, SetSound

LEMMA DieSound ==
  ASSUME IInv, NEW p \in Invocations, Die(p)
  PROVE  IInv'
<1>1. Set(p, Idle) /\ memory' = memory /\ given' = given
  BY DEF Die
<1>2. SoundMemory(memory', given.gates)
  BY <1>1 DEF IInv, SoundMemory
<1>3. SoundCommand(Idle, given.gates)
  BY DEF SoundCommand
<1>. QED  BY <1>1, <1>2, <1>3, SetSound

LEMMA DieSavingSound ==
  ASSUME IInv, NEW p \in Invocations, DieSaving(p)
  PROVE  IInv'
<1>1. Set(p, Idle) /\ memory' \in {NoMemory, TornMemory} /\ given' = given
  BY DEF DieSaving
<1>2. SoundMemory(memory', given.gates)
  <2>1. memory'.entry = None
    BY <1>1 DEF NoMemory, TornMemory
  <2>2. memory' \in Memory
    <3>1. NoMemory \in Memory
      BY DEF NoMemory, Memory
    <3>2. TornMemory \in Memory
      BY DEF TornMemory, Memory
    <3>. QED  BY <1>1, <3>1, <3>2
  <2>. QED  BY <2>1, <2>2 DEF SoundMemory, Approvals
<1>3. SoundCommand(Idle, given.gates)
  BY DEF SoundCommand
<1>. QED  BY <1>1, <1>2, <1>3, SetSound

-----------------------------------------------------------------------------
(* The invariant holds. *)

LEMMA InitSound ==
  ASSUME PipelineAssumption, Init  PROVE IInv
<1>1. memory = NoMemory /\ given.gates = {}
  BY DEF Init
<1>2. SoundMemory(memory, given.gates)
  BY <1>1 DEF NoMemory, SoundMemory, Memory, Approvals
<1>3. cmd = [p \in Invocations |-> Idle]
  BY DEF Init
<1>. QED  BY <1>2, <1>3 DEF IInv, SoundCommand

LEMMA NextSound ==
  ASSUME PipelineAssumption, IInv, [Next]_vars  PROVE IInv'
<1>1. CASE Next
  <2>1. PICK p \in Invocations :
          \/ \E idea \in IdeasGiven \cup {None}, mode \in Modes \cup {None} : RunPipeline(p, idea, mode)
          \/ \E idea \in IdeasGiven, mode \in ModesGiven : CreateRun(p, idea, mode)
          \/ \E gate \in GatesGiven : Approve(p, gate)
          \/ \E mode \in ModesSet : SetMode(p, mode)
          \/ Goes(p)
          \/ Die(p) \/ DieSaving(p)
    <3>1. ModesGiven \subseteq Modes /\ "builder" \in Modes /\ "expert" \in Modes
      BY DEF PipelineAssumption, Modes
    <3>. QED  BY <1>1, <3>1 DEF Next, RunCommand, InitCommand, StageCommand
  <2>2. CASE \E idea \in IdeasGiven \cup {None}, mode \in Modes \cup {None} : RunPipeline(p, idea, mode)
    BY <2>2, RunPipelineSound
  <2>3. CASE \E idea \in IdeasGiven, mode \in ModesGiven : CreateRun(p, idea, mode)
    BY <2>3, CreateRunSound
  <2>4. CASE \E gate \in GatesGiven : Approve(p, gate)
    BY <2>4, ApproveSound
  <2>5. CASE \E mode \in ModesSet : SetMode(p, mode)
    BY <2>5, SetModeSound
  <2>6. CASE Goes(p)
    BY <2>6, StepSound, StartBuildingSound, EndBuildingSound, LoadForRecordSound, SaveSound DEF Goes
  <2>7. CASE Die(p) \/ DieSaving(p)
    BY <2>7, DieSound, DieSavingSound
  <2>. QED  BY <2>1, <2>2, <2>3, <2>4, <2>5, <2>6, <2>7
<1>2. CASE UNCHANGED vars
  <2>1. memory' = memory /\ cmd' = cmd /\ given' = given
    BY <1>2 DEF vars
  <2>. QED  BY <2>1 DEF IInv, SoundMemory, SoundCommand, Sound, Built, InOrder, OverallOf, Approvals
<1>. QED  BY <1>1, <1>2

(* Every report is sound, and so are the memory and every copy of it that   *)
(* a command is about to save: their approvals were given by somebody.      *)
THEOREM PipelineInvariant == Spec => []IInv
<1>1. Init => IInv
  BY InitSound, PipelineAssumption
<1>2. IInv /\ [Next]_vars => IInv'
  BY NextSound, PipelineAssumption
<1>. QED  BY <1>1, <1>2, PTL DEF Spec

-----------------------------------------------------------------------------
(* What follows from the invariant. *)

(* A reporting invocation has a sound report.                               *)
LEMMA ReportsSound ==
  ASSUME IInv, NEW p \in Reporting
  PROVE  Sound(cmd[p].report, given.gates)
<1>1. p \in Invocations /\ cmd[p].report # None
  BY DEF Reporting
<1>2. SoundCommand(cmd[p], given.gates)
  BY <1>1 DEF IInv
<1>3. cmd[p] # Idle /\ ~ (cmd[p] = Command("save", cmd[p].by, None, cmd[p].mem))
  BY <1>1 DEF Idle, Command
<1>. QED  BY <1>2, <1>3 DEF SoundCommand

(* The variables keep their types, whatever the commands do.                *)
THEOREM PipelineTypeCorrect == Spec => []TypeOK
<1>1. IInv => TypeOK
  BY DEF IInv, TypeOK, SoundMemory, SoundCommand, Sound
<1>. QED  BY <1>1, PipelineInvariant, PTL

(* No phase is skipped or left without the artifacts it reads.              *)
THEOREM PipelineInOrder == Spec => []PhasesInOrder
<1>1. IInv => PhasesInOrder
  <2>. SUFFICES ASSUME IInv, NEW p \in Reporting  PROVE InOrder(cmd[p].report)
    BY DEF PhasesInOrder
  <2>. QED  BY ReportsSound DEF Sound
<1>. QED  BY <1>1, PipelineInvariant, PTL

(* What is built has passed the gates, by itself or by approvals given.     *)
THEOREM PipelinePastGates == Spec => []BuildsOnlyPastGates
<1>1. IInv => BuildsOnlyPastGates
  <2>. SUFFICES ASSUME IInv, NEW p \in Reporting, cmd[p].report.bundle # None
                PROVE  /\ \A g \in GateIds \ given.gates : GateMet(g, cmd[p].report)
                       /\ cmd[p].report.bundle.approved => "building" \in given.gates
    BY DEF BuildsOnlyPastGates
  <2>. DEFINE r == cmd[p].report
  <2>1. Sound(r, given.gates)
    BY ReportsSound
  <2>2. /\ OverallOf(r) = "pass" /\ r.approved \subseteq given.gates
        /\ r.bundle.approved => "building" \in r.approved
    BY <2>1 DEF Sound
  <2>3. ASSUME NEW g \in GateIds \ given.gates  PROVE GateMet(g, r)
    <3>1. Overall(r.mode, r.approved, r.intake, r.tasks, r.skills) = "pass" /\ g \notin r.approved
      BY <2>2 DEF OverallOf
    <3>. HIDE DEF r
    <3>. QED  BY <3>1, OverallPasses DEF GateMet
  <2>. QED  BY <2>2, <2>3
<1>. QED  BY <1>1, PipelineInvariant, PTL

(* The modes are ever stricter, from turbo to safe.                         *)
THEOREM PipelineStricter == Spec => []StricterModeIsStricter
<1>1. IInv => StricterModeIsStricter
  <2>. SUFFICES ASSUME IInv, NEW p \in Reporting, cmd[p].report.phase = "gating", NEW i \in 1 .. 5
                PROVE  SeverityIn(i, cmd[p].report) <= SeverityIn(i + 1, cmd[p].report)
    BY DEF StricterModeIsStricter
  <2>. DEFINE r == cmd[p].report
              m == Strictness[i]
              n == Strictness[i + 1]
              x == Intake(r.idea, m)
              y == Intake(r.idea, n)
              q == Questions(r.idea)
  <2>1. r \in Report /\ InOrder(r)
    BY ReportsSound DEF Sound
  <2>2. Len(r.done) = 3
    BY <2>1, DoneAt
  <2>3. r.tasks # None /\ r.skills # None
    BY <2>1, <2>2 DEF InOrder
  <2>4. r.tasks \in Nat
    BY <2>1, <2>3 DEF Report
  <2>5. r.skills \in [selected : Nat, specialists : Nat]
    <3>1. r.skills \in SkillSelections
      BY <2>1, <2>3, PipelineAssumption DEF Report, PipelineAssumption
    <3>. QED  BY <3>1 DEF SkillSelections
  <2>6. q \in Nat /\ Assumptions(r.idea) \in Nat
    BY DEF Questions, Assumptions
  <2>7. /\ x.usable <=> y.usable
        /\ x.clear <=> y.clear
        /\ x.assumptions = y.assumptions /\ x.assumptions \in Nat
        /\ x.questions = Trimmed(q, m) /\ y.questions = Trimmed(q, n)
    BY <2>6 DEF Intake
  <2>. HIDE DEF r, q, x, y
  <2>8. \A g \in GateIds : Severity(Decision(g, m, r.approved, x, r.tasks, r.skills))
                             <= Severity(Decision(g, n, r.approved, y, r.tasks, r.skills))
    BY <2>4, <2>5, <2>6, <2>7, GateMonotone
  <2>. HIDE DEF m, n
  <2>9. Severity(Overall(m, r.approved, x, r.tasks, r.skills))
          <= Severity(Overall(n, r.approved, y, r.tasks, r.skills))
    BY <2>8, OverallMonotone
  <2>. QED  BY <2>9 DEF SeverityIn, m, n, x, y, r
<1>. QED  BY <1>1, PipelineInvariant, PTL

-----------------------------------------------------------------------------
(* What the memory hands from one command to the next. While commands do    *)
(* not overlap the one under way carries the approvals and the mode of the  *)
(* memory it will replace, so that nothing is forgotten on the way.         *)

Working == {"step", "executing", "record"}

CarriesApprovals(c, approved) ==
  /\ c.pc \in Working => approved \subseteq c.report.approved
  /\ c.pc = "save" => approved \subseteq Approvals(c.mem)

(* Fits, of the history g.                                                  *)
FitsIn(mode, g) ==
  mode = g.mode \/ (mode = "builder" /\ ~ (g.kept /\ g.mode \in Remembered))

CarriesMode(c, g) ==
  /\ c.pc \in Working => FitsIn(c.report.mode, g)
  /\ c.pc = "save" => FitsIn(ModeOf(c.mem), g)

Disturbances == {"overlap", "service", "torn"}

OneAtATime ==
  "overlap" \notin mishaps =>
    \A p, q \in Invocations : cmd[p].pc # "idle" /\ cmd[q].pc # "idle" => p = q

ApprovalsHandedOn ==
  mishaps \cap Disturbances = {} =>
    \A p \in Invocations : CarriesApprovals(cmd[p], Approvals(memory))

ModeHandedOn ==
  mishaps = {} =>
    /\ \A p \in Invocations : CarriesMode(cmd[p], given)
    /\ (\A p \in Invocations : cmd[p].pc = "idle") => FitsIn(ModeOf(memory), given)

HandedOn == OneAtATime /\ ApprovalsHandedOn /\ ModeHandedOn

LEMMA InitHandedOn == Init => HandedOn
<1>. SUFFICES ASSUME Init PROVE HandedOn
  OBVIOUS
<1>1. /\ \A p \in Invocations : cmd[p].pc = "idle"
      /\ memory.entry = None /\ given.mode = "builder"
  BY DEF Init, Idle, Command, NoMemory
<1>. QED  BY <1>1 DEF HandedOn, OneAtATime, ApprovalsHandedOn, ModeHandedOn, CarriesApprovals,
            CarriesMode, Working, ModeOf, FitsIn

LEMMA CommandFields ==
  ASSUME NEW pc, NEW by, NEW report, NEW mem
  PROVE  /\ Command(pc, by, report, mem).pc = pc
         /\ Command(pc, by, report, mem).report = report
         /\ Command(pc, by, report, mem).mem = mem
BY DEF Command

LEMMA AfterSet ==
  ASSUME IInv, NEW p \in Invocations, NEW c, Set(p, c)
  PROVE  cmd'[p] = c /\ \A q \in Invocations : q # p => cmd'[q] = cmd[q]
<1>1. cmd = [q \in Invocations |-> cmd[q]]
  BY DEF IInv
<1>2. cmd' = [q \in Invocations |-> IF q = p THEN c ELSE cmd[q]]
  BY <1>1 DEF Set
<1>. QED  BY <1>2

(* A step of a command that goes on, and carries what it carried.           *)
LEMMA GoesOn ==
  ASSUME IInv, HandedOn, NEW p \in Invocations, NEW c, Set(p, c), cmd[p].pc \in Working,
         c.pc \in Working \cup {"save"}, UNCHANGED <<memory, given, mishaps>>,
         \A approved : CarriesApprovals(cmd[p], approved) => CarriesApprovals(c, approved),
         CarriesMode(cmd[p], given) => CarriesMode(c, given)
  PROVE  HandedOn'
<1>1. cmd'[p] = c /\ \A q \in Invocations : q # p => cmd'[q] = cmd[q]
  BY AfterSet
<1>2. OneAtATime'
  BY <1>1 DEF HandedOn, OneAtATime, Working
<1>3. ApprovalsHandedOn'
  BY <1>1 DEF HandedOn, ApprovalsHandedOn
<1>4. ModeHandedOn'
  <2>1. c.pc # "idle"
    BY DEF Working
  <2>. QED  BY <1>1, <2>1 DEF HandedOn, ModeHandedOn
<1>. QED  BY <1>2, <1>3, <1>4 DEF HandedOn

(* A new command.                                                           *)
LEMMA Starts ==
  ASSUME IInv, HandedOn, NEW p \in Invocations, NEW by, NEW mode, NEW gates, NEW c,
         Accept(p, by, mode, gates), Set(p, c), memory' = memory, c.pc # "idle",
         by = "service" \/ CarriesApprovals(c, Approvals(memory)),
         \/ by = "service"
         \/ (mode = None => FitsIn(ModeOf(memory), given')) => CarriesMode(c, given')
  PROVE  HandedOn'
<1>1. cmd'[p] = c /\ \A q \in Invocations : q # p => cmd'[q] = cmd[q]
  BY AfterSet
<1>2. /\ cmd[p].pc = "idle"
      /\ mishaps' = mishaps \cup (IF Alone(p) THEN {} ELSE {"overlap"})
                            \cup (IF by = "service" THEN {"service"} ELSE {})
      /\ mode = None => given'.mode = given.mode /\ given'.kept = given.kept
  BY DEF Accept, AcceptAs
<1>3. "overlap" \notin mishaps' =>
        "overlap" \notin mishaps /\ \A q \in Invocations : cmd[q].pc = "idle"
  BY <1>2 DEF Alone
<1>4. OneAtATime'
  BY <1>1, <1>3 DEF OneAtATime
<1>5. ApprovalsHandedOn'
  <2>. SUFFICES ASSUME mishaps' \cap Disturbances = {}
                PROVE  \A q \in Invocations : CarriesApprovals(cmd'[q], Approvals(memory))
    BY DEF ApprovalsHandedOn
  <2>1. /\ \A q \in Invocations : q # p => cmd'[q].pc = "idle"
        /\ CarriesApprovals(c, Approvals(memory))
    BY <1>1, <1>2, <1>3 DEF Disturbances
  <2>. QED  BY <1>1, <2>1 DEF CarriesApprovals, Working
<1>6. ModeHandedOn'
  <2>. SUFFICES ASSUME mishaps' = {}
                PROVE  \A q \in Invocations : CarriesMode(cmd'[q], given')
    BY <1>1 DEF ModeHandedOn
  <2>1. /\ \A q \in Invocations : cmd[q].pc = "idle" /\ (q # p => cmd'[q].pc = "idle")
        /\ mishaps = {} /\ by # "service"
    BY <1>1, <1>2, <1>3
  <2>2. mode = None => FitsIn(ModeOf(memory), given')
    BY <1>2, <2>1 DEF HandedOn, ModeHandedOn, FitsIn
  <2>3. CarriesMode(c, given')
    BY <2>1, <2>2
  <2>. QED  BY <1>1, <2>1, <2>3 DEF CarriesMode, Working
<1>. QED  BY <1>4, <1>5, <1>6 DEF HandedOn

LEMMA AdvancedKeeps ==
  ASSUME NEW r \in Report, NEW next, NEW status
  PROVE  /\ Advanced(r, next, status).mode = r.mode
         /\ Advanced(r, next, status).approved = r.approved
BY DEF Advanced, Report

LEMMA PhaseKeeps ==
  ASSUME PipelineAssumption, NEW r \in Report, NEW report \in PhaseDone(r)
  PROVE  report.mode = r.mode /\ report.approved = r.approved
<1>1. CASE \E next, status : report = Advanced(r, next, status)
  BY <1>1, AdvancedKeeps
<1>2. CASE report \in IntakeDone(r) /\ r.phase = "intake"
  <2>. DEFINE a == [r EXCEPT !.intake = Intake(r.idea, r.mode)]
  <2>1. a \in Report /\ a.mode = r.mode /\ a.approved = r.approved
    BY DEF Report, Intakes
  <2>2. report = Advanced(a, "planning", "success")
    BY <1>2 DEF IntakeDone
  <2>. HIDE DEF a
  <2>. QED  BY <2>1, <2>2, AdvancedKeeps
<1>3. CASE report \in PlanningDone(r)
  <2>. DEFINE a == [r EXCEPT !.tasks = PlanTasks(r.idea)]
  <2>1. a \in Report /\ a.mode = r.mode /\ a.approved = r.approved
    BY DEF Report, PlanTasks
  <2>2. report = Advanced(a, "skills", "success")
    BY <1>3 DEF PlanningDone
  <2>. HIDE DEF a
  <2>. QED  BY <2>1, <2>2, AdvancedKeeps
<1>4. CASE report \in SkillsDone(r)
  <2>1. PICK found \in SkillsFound : report = Advanced([r EXCEPT !.skills = found], "gating", "success")
    BY <1>4 DEF SkillsDone
  <2>. DEFINE a == [r EXCEPT !.skills = found]
  <2>2. a \in Report /\ a.mode = r.mode /\ a.approved = r.approved
    BY DEF Report
  <2>3. report = Advanced(a, "gating", "success")
    BY <2>1
  <2>. HIDE DEF a
  <2>. QED  BY <2>2, <2>3, AdvancedKeeps
<1>5. (report \in GatingDone(r) \/ report \in Simulated(r)) => \E next, status : report = Advanced(r, next, status)
  BY DEF GatingDone, Simulated
<1>6. \/ report \in IntakeDone(r) /\ r.phase = "intake"
      \/ report \in PlanningDone(r) \/ report \in SkillsDone(r)
      \/ report \in GatingDone(r) \/ report \in Simulated(r)
  <2>. DEFINE A == IntakeDone(r)  B == PlanningDone(r)  C == SkillsDone(r)
              D == GatingDone(r)  E == Simulated(r)
  <2>1. PhaseDone(r) = CASE r.phase = "intake" -> A [] r.phase = "planning" -> B
                         [] r.phase = "skills" -> C [] r.phase = "gating" -> D [] OTHER -> E
    BY DEF PhaseDone
  <2>. HIDE DEF A, B, C, D, E
  <2>2. \/ report \in A /\ r.phase = "intake"
        \/ report \in B \/ report \in C \/ report \in D \/ report \in E
    BY <2>1
  <2>. QED  BY <2>2 DEF A, B, C, D, E
<1>. QED  BY <1>1, <1>2, <1>3, <1>4, <1>5, <1>6

LEMMA LeaveHandsOn ==
  ASSUME IInv, HandedOn, NEW p \in Invocations, cmd[p].pc \in {"step", "executing"},
         NEW report, Leave(p, report), UNCHANGED <<memory, given, mishaps>>,
         report.mode = cmd[p].report.mode, report.approved = cmd[p].report.approved
  PROVE  HandedOn'
<1>. DEFINE pc == IF Continues(report) THEN "step" ELSE "record"
            c == Command(pc, cmd[p].by, report, None)
<1>1. Set(p, c)
  BY DEF Leave
<1>2. c.pc \in {"step", "record"} /\ c.report = report
  BY CommandFields
<1>. HIDE DEF c
<1>3. /\ \A approved : CarriesApprovals(cmd[p], approved) => CarriesApprovals(c, approved)
      /\ CarriesMode(cmd[p], given) => CarriesMode(c, given)
  BY <1>2 DEF CarriesApprovals, CarriesMode, Working
<1>. QED  BY <1>1, <1>2, <1>3, GoesOn DEF Working

LEMMA WorkHandsOn ==
  ASSUME PipelineAssumption, IInv, HandedOn, NEW p \in Invocations,
         Step(p) \/ StartBuilding(p) \/ EndBuilding(p)
  PROVE  HandedOn'
<1>. DEFINE r == cmd[p].report
<1>1. cmd[p].pc \in {"step", "executing"} /\ UNCHANGED <<memory, given, mishaps>>
  BY DEF Step, StartBuilding, EndBuilding
<1>2. r \in Report /\ (cmd[p].pc = "executing" => r.bundle \in Bundles)
  BY <1>1, AtWork DEF IInv, Sound, Built
<1>3. CASE Step(p)
  <2>1. PICK report \in PhaseDone(r) : Leave(p, report)
    BY <1>3 DEF Step
  <2>2. report.mode = r.mode /\ report.approved = r.approved
    BY <1>2, PhaseKeeps
  <2>. QED  BY <1>1, <2>1, <2>2, LeaveHandsOn
<1>4. CASE StartBuilding(p)
  <2>. DEFINE a == [r EXCEPT !.bundle = Bundle(r)]
              c == Command("executing", cmd[p].by, a, None)
  <2>1. Set(p, c) /\ cmd[p].pc = "step"
    BY <1>4 DEF StartBuilding
  <2>2. a.mode = r.mode /\ a.approved = r.approved
    BY <1>2 DEF Report
  <2>3. c.pc = "executing" /\ c.report = a
    BY CommandFields
  <2>. HIDE DEF c, a
  <2>4. /\ \A approved : CarriesApprovals(cmd[p], approved) => CarriesApprovals(c, approved)
        /\ CarriesMode(cmd[p], given) => CarriesMode(c, given)
    BY <2>1, <2>2, <2>3 DEF CarriesApprovals, CarriesMode, Working
  <2>. QED  BY <1>1, <2>1, <2>3, <2>4, GoesOn DEF Working
<1>5. CASE EndBuilding(p)
  <2>1. PICK outcome \in {"paused", "failed", "completed"} : Leave(p, BuildingDone(r, outcome))
    BY <1>5 DEF EndBuilding
  <2>. DEFINE a == [r EXCEPT !.bundle.status = outcome]
  <2>2. a \in Report /\ a.mode = r.mode /\ a.approved = r.approved
    <3>1. [r.bundle EXCEPT !.status = outcome] \in Bundles
      BY <1>2, <1>5 DEF EndBuilding, Bundles
    <3>2. a = [r EXCEPT !.bundle = [r.bundle EXCEPT !.status = outcome]]
      BY <1>2 DEF Report
    <3>. QED  BY <1>2, <3>1, <3>2 DEF Report
  <2>3. \E next, status : BuildingDone(r, outcome) = Advanced(a, next, status)
    BY DEF BuildingDone
  <2>. HIDE DEF a
  <2>4. BuildingDone(r, outcome).mode = r.mode /\ BuildingDone(r, outcome).approved = r.approved
    BY <2>2, <2>3, AdvancedKeeps
  <2>. QED  BY <1>1, <2>1, <2>4, LeaveHandsOn
<1>. QED  BY <1>3, <1>4, <1>5

(* A memory whose entry is one is not taken for an empty one.               *)
LEMMA EntryFields ==
  ASSUME PipelineAssumption, NEW m, m.entry \in Entries
  PROVE  /\ Approvals(m) = m.entry.approved
         /\ m.entry.mode # None => ModeOf(m) = m.entry.mode
BY DEF PipelineAssumption, Approvals, ModeOf

LEMMA RecordHandsOn ==
  ASSUME PipelineAssumption, IInv, HandedOn, NEW p \in Invocations, LoadForRecord(p)
  PROVE  HandedOn'
<1>. DEFINE r == cmd[p].report  m == Recorded(memory, r)
            c == Command("save", cmd[p].by, None, m)
<1>1. cmd[p].pc = "record" /\ Set(p, c) /\ UNCHANGED <<memory, given, mishaps>>
  BY DEF LoadForRecord
<1>2. r \in Report
  BY <1>1, AtWork DEF IInv, Sound
<1>3. /\ m.entry \in Entries /\ m.entry.approved = r.approved /\ m.entry.mode = ModeKept(r)
  BY <1>2 DEF Recorded, ModeKept, Entries, Report
<1>4. r.mode \in Remembered => ModeKept(r) = r.mode /\ r.mode # None
  BY <1>2 DEF ModeKept, Report, PipelineAssumption
<1>5. /\ Approvals(m) = r.approved
      /\ r.mode \in Remembered => ModeOf(m) = r.mode
      /\ r.mode \notin Remembered => ModeOf(m) = "builder"
  BY <1>3, <1>4, EntryFields DEF ModeKept, ModeOf
<1>6. c.pc = "save" /\ c.mem = m
  BY CommandFields
<1>. HIDE DEF m, c
<1>7. /\ \A approved : CarriesApprovals(cmd[p], approved) => CarriesApprovals(c, approved)
      /\ CarriesMode(cmd[p], given) => CarriesMode(c, given)
  <2>1. FitsIn(r.mode, given) => FitsIn(ModeOf(m), given)
    BY <1>5 DEF FitsIn, Remembered
  <2>. QED  BY <1>1, <1>5, <1>6, <2>1 DEF CarriesApprovals, CarriesMode, Working
<1>. QED  BY <1>1, <1>6, <1>7, GoesOn DEF Working

(* A command that is over, when the memory is what it carried or nothing    *)
(* has been promised of the memory any more.                                *)
LEMMA Ends ==
  ASSUME IInv, HandedOn, NEW p \in Invocations, cmd[p].pc # "idle", Set(p, Idle), given' = given,
         mishaps \subseteq mishaps',
         \/ memory' = memory
         \/ "torn" \in mishaps'
         \/ cmd[p].pc = "save",
         mishaps' = {} => cmd[p].pc = "save" /\ memory' = cmd[p].mem
  PROVE  HandedOn'
<1>1. cmd'[p].pc = "idle" /\ \A q \in Invocations : q # p => cmd'[q] = cmd[q]
  BY AfterSet, CommandFields DEF Idle
<1>2. OneAtATime'
  BY <1>1 DEF HandedOn, OneAtATime
<1>3. "overlap" \notin mishaps' => \A q \in Invocations : cmd'[q].pc = "idle"
  BY <1>1 DEF HandedOn, OneAtATime
<1>4. ApprovalsHandedOn'
  <2>1. mishaps' \cap Disturbances = {} => "overlap" \notin mishaps'
    BY DEF Disturbances
  <2>. QED  BY <1>3, <2>1 DEF ApprovalsHandedOn, CarriesApprovals, Working
<1>5. ModeHandedOn'
  <2>. SUFFICES ASSUME mishaps' = {}
                PROVE  /\ \A q \in Invocations : CarriesMode(cmd'[q], given)
                       /\ FitsIn(ModeOf(memory'), given)
    BY DEF ModeHandedOn
  <2>1. mishaps = {} /\ \A q \in Invocations : cmd'[q].pc = "idle"
    BY <1>3
  <2>2. CarriesMode(cmd[p], given)
    BY <2>1 DEF HandedOn, ModeHandedOn
  <2>. QED  BY <2>1, <2>2 DEF CarriesMode, Working
<1>. QED  BY <1>2, <1>4, <1>5 DEF HandedOn

LEMMA RunPipelineHandsOn ==
  ASSUME PipelineAssumption, IInv, HandedOn, NEW p \in Invocations,
         NEW idea, NEW mode \in Modes \cup {None}, RunPipeline(p, idea, mode)
  PROVE  HandedOn'
<1>. DEFINE target == IF idea = None THEN memory.idea ELSE idea
            m == IF mode = None THEN ModeOf(memory) ELSE mode
            r == NewReport(target, m, Approvals(memory))
            c == Command("step", "cli", r, None)
<1>1. /\ Set(p, c) /\ memory' = memory /\ Accept(p, "cli", mode, {})
  BY DEF RunPipeline
<1>2. r.mode = m /\ r.approved = Approvals(memory)
  BY DEF NewReport
<1>3. c.pc = "step" /\ c.report = r
  BY CommandFields
<1>4. given'.mode = IF mode = None THEN given.mode ELSE mode
  BY <1>1 DEF Accept, AcceptAs
<1>5. (mode = None => FitsIn(ModeOf(memory), given')) => FitsIn(m, given')
  BY <1>4 DEF FitsIn
<1>. HIDE DEF c, r, m
<1>6. CarriesApprovals(c, Approvals(memory))
  BY <1>2, <1>3 DEF CarriesApprovals, Working
<1>7. (mode = None => FitsIn(ModeOf(memory), given')) => CarriesMode(c, given')
  BY <1>2, <1>3, <1>5 DEF CarriesMode, Working
<1>8. c.pc # "idle"
  BY <1>3
<1>. QED  BY <1>1, <1>6, <1>7, <1>8, Starts

LEMMA CreateRunHandsOn ==
  ASSUME IInv, HandedOn, NEW p \in Invocations, NEW idea, NEW mode, CreateRun(p, idea, mode)
  PROVE  HandedOn'
<1>. DEFINE c == Command("step", "service", NewReport(idea, mode, {}), None)
<1>1. Set(p, c) /\ memory' = memory /\ Accept(p, "service", None, {})
  BY DEF CreateRun
<1>2. c.pc # "idle"
  BY CommandFields
<1>. HIDE DEF c
<1>. QED  BY <1>1, <1>2, Starts

LEMMA EntryChanged ==
  ASSUME IInv, memory.entry # None, NEW e
  PROVE  [memory EXCEPT !.entry = e].entry = e
BY DEF IInv, SoundMemory, Memory

LEMMA ApproveHandsOn ==
  ASSUME PipelineAssumption, IInv, HandedOn, NEW p \in Invocations, NEW gate \in GatesGiven,
         Approve(p, gate)
  PROVE  HandedOn'
<1>. DEFINE e == [memory.entry EXCEPT !.approved = @ \cup {gate}]
            m == [memory EXCEPT !.entry.approved = @ \cup {gate}]
            c == Command("save", "cli", None, m)
<1>1. /\ memory.entry # None /\ Set(p, c) /\ memory' = memory
      /\ Accept(p, "cli", None, {gate})
  BY DEF Approve
<1>2. memory \in Memory /\ memory.entry \in Entries /\ gate \in Approvable
  BY <1>1 DEF IInv, SoundMemory, Memory, PipelineAssumption
<1>3. m.entry = e
  BY <1>2 DEF Memory
<1>4. e \in Entries /\ e.mode = memory.entry.mode /\ memory.entry.approved \subseteq e.approved
  BY <1>2 DEF Entries
<1>. HIDE DEF m, e
<1>5. Approvals(memory) \subseteq Approvals(m)
  BY <1>2, <1>3, <1>4, EntryFields
<1>6. ModeOf(m) = ModeOf(memory)
  BY <1>1, <1>2, <1>3, <1>4 DEF ModeOf, PipelineAssumption
<1>7. c.pc = "save" /\ c.mem = m
  BY CommandFields
<1>. HIDE DEF c
<1>8. c.pc # "idle" /\ CarriesApprovals(c, Approvals(memory))
  BY <1>5, <1>7 DEF CarriesApprovals, Working
<1>9. FitsIn(ModeOf(memory), given') => CarriesMode(c, given')
  BY <1>6, <1>7 DEF CarriesMode, Working
<1>. QED  BY <1>1, <1>8, <1>9, Starts

LEMMA SetRecordedModeHandsOn ==
  ASSUME PipelineAssumption, IInv, HandedOn, NEW p \in Invocations, NEW mode \in ModesSet,
         SetRecordedMode(p, mode)
  PROVE  HandedOn'
<1>. DEFINE e == [memory.entry EXCEPT !.mode = mode]
            m == [memory EXCEPT !.entry.mode = mode]
            c == Command("save", "cli", None, m)
<1>1. /\ memory.entry # None /\ Set(p, c) /\ memory' = memory
      /\ Accept(p, "cli", mode, {})
  BY DEF SetRecordedMode
<1>2. memory \in Memory /\ memory.entry \in Entries /\ mode \in Modes /\ mode # None
  BY <1>1 DEF IInv, SoundMemory, Memory, PipelineAssumption
<1>3. m.entry = e
  BY <1>2 DEF Memory
<1>4. e \in Entries /\ e.mode = mode /\ e.approved = memory.entry.approved
  BY <1>2 DEF Entries
<1>. HIDE DEF m, e
<1>5. Approvals(memory) \subseteq Approvals(m) /\ ModeOf(m) = mode
  BY <1>2, <1>3, <1>4, EntryFields
<1>6. given'.mode = mode
  BY <1>1, <1>2 DEF Accept, AcceptAs
<1>7. c.pc = "save" /\ c.mem = m
  BY CommandFields
<1>. HIDE DEF c
<1>8. c.pc # "idle" /\ CarriesApprovals(c, Approvals(memory))
  BY <1>5, <1>7 DEF CarriesApprovals, Working
<1>9. CarriesMode(c, given')
  BY <1>5, <1>6, <1>7 DEF CarriesMode, FitsIn, Working
<1>. QED  BY <1>1, <1>8, <1>9, Starts

(* Without a recorded run the mode asked for has no place to be kept, and   *)
(* the runs that follow are builder's.                                      *)
LEMMA SetUnrecordedModeHandsOn ==
  ASSUME IInv, HandedOn, NEW p \in Invocations, NEW mode \in Modes, mode # None,
         SetUnrecordedMode(p, mode)
  PROVE  HandedOn'
<1>1. /\ memory' = memory /\ cmd' = cmd /\ memory.entry = None /\ cmd[p].pc = "idle"
      /\ given'.mode = mode /\ given'.kept = FALSE
      /\ mishaps' = mishaps \cup (IF Alone(p) THEN {} ELSE {"overlap"})
                            \cup (IF "cli" = "service" THEN {"service"} ELSE {})
  BY DEF SetUnrecordedMode, AcceptAs
<1>2. mishaps \subseteq mishaps'
  BY <1>1
<1>3. OneAtATime'
  BY <1>1, <1>2 DEF HandedOn, OneAtATime
<1>4. ApprovalsHandedOn'
  BY <1>1, <1>2 DEF HandedOn, ApprovalsHandedOn
<1>5. ModeHandedOn'
  <2>. SUFFICES ASSUME mishaps' = {}
                PROVE  /\ \A q \in Invocations : CarriesMode(cmd[q], given')
                       /\ FitsIn(ModeOf(memory), given')
    BY <1>1 DEF ModeHandedOn
  <2>1. \A q \in Invocations : cmd[q].pc = "idle"
    BY <1>1 DEF Alone
  <2>2. FitsIn(ModeOf(memory), given')
    BY <1>1 DEF ModeOf, FitsIn
  <2>. QED  BY <2>1, <2>2 DEF CarriesMode, Working
<1>. QED  BY <1>3, <1>4, <1>5 DEF HandedOn

LEMMA SetModeHandsOn ==
  ASSUME PipelineAssumption, IInv, HandedOn, NEW p \in Invocations, NEW mode \in ModesSet,
         SetMode(p, mode)
  PROVE  HandedOn'
<1>1. mode \in Modes /\ mode # None
  BY DEF PipelineAssumption
<1>. QED  BY <1>1, SetRecordedModeHandsOn, SetUnrecordedModeHandsOn DEF SetMode

LEMMA EndHandsOn ==
  ASSUME IInv, HandedOn, NEW p \in Invocations, Save(p) \/ Die(p) \/ DieSaving(p)
  PROVE  HandedOn'
<1>1. /\ cmd[p].pc # "idle" /\ Set(p, Idle) /\ given' = given /\ mishaps \subseteq mishaps'
      /\ memory' = memory \/ "torn" \in mishaps' \/ cmd[p].pc = "save"
      /\ mishaps' = {} => cmd[p].pc = "save" /\ memory' = cmd[p].mem
  BY DEF Save, Die, DieSaving
<1>. QED  BY <1>1, Ends

LEMMA NextHandedOn ==
  ASSUME PipelineAssumption, IInv, HandedOn, [Next]_vars  PROVE HandedOn'
<1>1. CASE UNCHANGED vars
  BY <1>1 DEF vars, HandedOn, OneAtATime, ApprovalsHandedOn, ModeHandedOn, CarriesApprovals,
              CarriesMode, FitsIn, Approvals, ModeOf
<1>2. CASE Next
  <2>1. PICK p \in Invocations :
          \/ \E idea \in IdeasGiven \cup {None}, mode \in Modes \cup {None} : RunPipeline(p, idea, mode)
          \/ \E idea \in IdeasGiven, mode \in ModesGiven : CreateRun(p, idea, mode)
          \/ \E gate \in GatesGiven : Approve(p, gate)
          \/ \E mode \in ModesSet : SetMode(p, mode)
          \/ Goes(p)
          \/ Die(p) \/ DieSaving(p)
    <3>1. ModesGiven \subseteq Modes /\ "builder" \in Modes /\ "expert" \in Modes
      BY DEF PipelineAssumption, Modes
    <3>. QED  BY <1>2, <3>1 DEF Next, RunCommand, InitCommand, StageCommand
  <2>. QED  BY <2>1, RunPipelineHandsOn, CreateRunHandsOn, ApproveHandsOn, SetModeHandsOn,
               WorkHandsOn, RecordHandsOn, EndHandsOn DEF Goes
<1>. QED  BY <1>1, <1>2

(* While commands neither overlap nor die, every command that does not set  *)
(* the mode hands it on; a mode that was never kept, or that isMode does    *)
(* not know, gives way to builder and to no other.                          *)
THEOREM PipelineKeepsMode == Spec => []RememberedModeIsKept
<1>1. IInv /\ HandedOn => RememberedModeIsKept
  <2>. SUFFICES ASSUME IInv, HandedOn, mishaps = {}, NEW p \in Reporting
                PROVE  FitsIn(cmd[p].report.mode, given)
    BY DEF RememberedModeIsKept, Fits, Keepable, FitsIn
  <2>1. p \in Invocations /\ cmd[p].report # None /\ SoundCommand(cmd[p], given.gates)
    BY DEF Reporting, IInv
  <2>2. cmd[p].pc \in Working
    BY <2>1 DEF SoundCommand, Idle, Command, Working
  <2>. QED  BY <2>1, <2>2 DEF HandedOn, ModeHandedOn, CarriesMode
<1>2. Init => HandedOn
  BY InitHandedOn
<1>3. IInv /\ HandedOn /\ [Next]_vars => HandedOn'
  BY NextHandedOn, PipelineAssumption
<1>. QED  BY <1>1, <1>2, <1>3, PipelineInvariant, PTL DEF Spec

(* An approval that is recorded stays recorded, whatever runs and commands  *)
(* follow and die, unless they overlap, the service records a run of its    *)
(* own, or one dies within the write.                                       *)
THEOREM PipelineKeepsApprovals == Spec => ApprovalsAreKept
<1>1. ASSUME IInv, HandedOn, [Next]_vars, mishaps' \cap {"overlap", "service", "torn"} = {}
      PROVE  Approvals(memory) \subseteq Approvals(memory')
  <2>1. CASE memory' = memory
    BY <2>1
  <2>2. CASE memory' # memory
    <3>1. PICK p \in Invocations : Save(p) \/ DieSaving(p)
      BY <1>1, <2>2 DEF Next, vars, RunCommand, InitCommand, StageCommand, RunPipeline, CreateRun,
                        Approve, SetMode, SetRecordedMode,
                        SetUnrecordedMode, Goes, Step, StartBuilding, EndBuilding, LoadForRecord, Die
    <3>2. cmd[p].pc = "save" /\ memory' = cmd[p].mem /\ mishaps' = mishaps
      BY <1>1, <3>1 DEF Save, DieSaving
    <3>3. CarriesApprovals(cmd[p], Approvals(memory))
      BY <1>1, <3>2 DEF HandedOn, ApprovalsHandedOn, Disturbances
    <3>. QED  BY <3>2, <3>3 DEF CarriesApprovals
  <2>. QED  BY <2>1, <2>2
<1>2. Init => HandedOn
  BY InitHandedOn
<1>3. IInv /\ HandedOn /\ [Next]_vars => HandedOn'
  BY NextHandedOn, PipelineAssumption
<1>4. IInv /\ HandedOn /\ [Next]_vars
        => [mishaps' \cap {"overlap", "service", "torn"} = {}
              => Approvals(memory) \subseteq Approvals(memory')]_vars
  BY <1>1
<1>. QED  BY <1>2, <1>3, <1>4, PipelineInvariant, PTL DEF Spec, ApprovalsAreKept
==============================================================================
