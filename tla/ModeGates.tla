------------------------------ MODULE ModeGates ------------------------------
(* What the gating phase of the orchestrator decides: the policy of each   *)
(* mode, the intake it trims, and the five gates evaluated over the        *)
(* artifacts of the phases before. Pure operators: Pipeline uses them.     *)
EXTENDS Naturals

(* What the code tells of an idea: the category inferSolutionCategory      *)
(* finds in it; "blank" has no text once trimmed.                          *)
Ideas == {"web-app", "website", "automation", "ai-agent", "api", "unknown", "blank"}

Modes == {"turbo", "builder", "pro", "expert", "safe", "balanced", "god"}

GateIds == {"objective-clarity", "requirements-completeness", "plan-readiness",
            "skill-coverage", "ambiguity-risk"}

-----------------------------------------------------------------------------
(* A policy: how many questions are asked, and the thresholds of the gates.*)

Thresholds(ask, reviewQuestions, blockQuestions, tasks, skills, reviewAmbiguity, blockAmbiguity) ==
  [maxClarifyingQuestions   |-> ask,
   maxQuestionsBeforeReview |-> reviewQuestions,
   maxQuestionsBeforeBlock  |-> blockQuestions,
   minimumPlanTasks         |-> tasks,
   minimumSelectedSkills    |-> skills,
   ambiguityReviewThreshold |-> reviewAmbiguity,
   ambiguityBlockThreshold  |-> blockAmbiguity]

Policy(mode) ==
  CASE mode = "turbo"    -> Thresholds(2, 99, 15, 3, 1, 10, 15)
    [] mode = "builder"  -> Thresholds(5, 5, 10, 5, 2, 4, 8)
    [] mode = "pro"      -> Thresholds(8, 3, 8, 6, 2, 2, 6)
    [] mode = "expert"   -> Thresholds(15, 1, 5, 8, 3, 1, 4)
    [] mode = "safe"     -> Thresholds(20, 1, 3, 10, 3, 1, 2)
    [] mode = "balanced" -> Thresholds(10, 4, 8, 6, 2, 3, 6)
    [] mode = "god"      -> Thresholds(0, 100, 100, 1, 0, 100, 100)

-----------------------------------------------------------------------------
(* The artifacts. *)

Questions(idea) == IF idea \in {"web-app", "website"} THEN 4 ELSE 3

Assumptions(idea) == IF idea \in {"web-app", "website", "automation"} THEN 3 ELSE 1

Trimmed(questions, mode) ==
  LET most == Policy(mode).maxClarifyingQuestions
  IN  IF questions > most THEN most ELSE questions

Intake(idea, mode) ==
  [usable      |-> idea # "blank",
   clear       |-> idea \notin {"unknown", "blank"},
   questions   |-> Trimmed(Questions(idea), mode),
   assumptions |-> Assumptions(idea)]

(* The tasks of buildPlan: six of every plan and those of the category. An *)
(* idea of unknown category is planned as a web app, or as an agent if its *)
(* text says so.                                                           *)
PlanTasks(idea) == CASE idea = "blank" -> 6 [] idea = "api" -> 7 [] OTHER -> 8

(* What selectSkills may come to: up to six skills, of which some are      *)
(* specialists; the fallback skill alone if none scores.                   *)
SkillSelections == {s \in [selected : 1 .. 6, specialists : 0 .. 6] : s.specialists <= s.selected}

-----------------------------------------------------------------------------
(* One gate: blocked, needs-review or pass. *)

Blocks(gate, mode, intake, tasks, skills) ==
  CASE gate = "objective-clarity"         -> ~ intake.usable
    [] gate = "requirements-completeness" -> intake.questions >= Policy(mode).maxQuestionsBeforeBlock
    [] gate = "plan-readiness"            -> tasks = 0
    [] gate = "skill-coverage"            -> skills.selected = 0
    [] gate = "ambiguity-risk"            -> intake.questions >= Policy(mode).ambiguityBlockThreshold

Doubts(gate, mode, intake, tasks, skills) ==
  CASE gate = "objective-clarity"         -> ~ intake.clear
    [] gate = "requirements-completeness" -> intake.questions >= Policy(mode).maxQuestionsBeforeReview
    [] gate = "plan-readiness"            -> tasks < Policy(mode).minimumPlanTasks
    [] gate = "skill-coverage"            -> \/ skills.selected < Policy(mode).minimumSelectedSkills
                                             \/ skills.specialists = 0
    [] gate = "ambiguity-risk"            -> \/ intake.assumptions > 6
                                             \/ intake.questions >= Policy(mode).ambiguityReviewThreshold

Evaluated(gate, mode, intake, tasks, skills) ==
  IF Blocks(gate, mode, intake, tasks, skills) THEN "blocked"
  ELSE IF Doubts(gate, mode, intake, tasks, skills) THEN "needs-review"
  ELSE "pass"

(* Mutants: turbo passes what is blocked; the wrong mode is let off.       *)
DecisionTurboPassesAll(gate, mode, approved, intake, tasks, skills) ==
  LET status == Evaluated(gate, mode, intake, tasks, skills) IN
  IF gate \in approved \/ mode = "turbo" THEN "pass" ELSE status

DecisionExpertPasses(gate, mode, approved, intake, tasks, skills) ==
  LET status == Evaluated(gate, mode, intake, tasks, skills) IN
  IF gate \in approved \/ (mode = "expert" /\ status = "needs-review") THEN "pass" ELSE status

(* A manual approval passes any gate; turbo passes one that needs review.  *)
Decision(gate, mode, approved, intake, tasks, skills) ==
  LET status == Evaluated(gate, mode, intake, tasks, skills) IN
  IF gate \in approved \/ (mode = "turbo" /\ status = "needs-review") THEN "pass" ELSE status

Overall(mode, approved, intake, tasks, skills) ==
  LET decided == {Decision(g, mode, approved, intake, tasks, skills) : g \in GateIds} IN
  IF "blocked" \in decided THEN "blocked"
  ELSE IF "needs-review" \in decided THEN "needs-review"
  ELSE "pass"
=============================================================================
