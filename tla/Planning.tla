------------------------------ MODULE Planning ------------------------------
(***************************************************************************)
(* From an idea to a plan and its skills.  Intake, planner and selector    *)
(* each classify the idea in their own way; the plan is a list of tasks    *)
(* with dependencies, the skills are the best of a registry.               *)
(* Source: packages/orchestrator/src/intake.ts, planner.ts;                *)
(*         packages/skill-engine/src/selector.ts                           *)
(*                                                                         *)
(* A text is the set of the words in it that some pattern looks for; an    *)
(* idea is its words and whether nothing is left of it when it is trimmed. *)
(***************************************************************************)
EXTENDS Integers, Sequences, FiniteSets, FiniteSetsExt, SequencesExt

CONSTANTS
    SkillRegistry,  \* the entries: [id, words, projectTypes, taskTriggers, priority]
    PlanWords,      \* category -> the words of its plan, but for those of the idea
    AskedWords,     \* type -> the words of the assumptions and questions of intake
    MaxSkills, MinimumScore

ASSUME PlanningAssumption ==
    /\ MaxSkills \in Nat /\ MinimumScore \in Nat
    /\ IsFiniteSet(SkillRegistry)
    /\ \A s \in SkillRegistry :
          /\ s.id \in Nat /\ s.priority \in Int
          /\ IsFiniteSet(s.words) /\ IsFiniteSet(s.taskTriggers)
    /\ \A s, t \in SkillRegistry : s.id = t.id => s = t

Categories == << "web-app", "website", "automation", "ai-agent", "api" >>

\* inferSolutionCategory: the patterns of intake, the first that matches.
IntakeWords ==
    [c \in ToSet(Categories) |->
        CASE c = "web-app"    -> {"crm", "platform", "portal", "dashboard", "app", "saas"}
          [] c = "website"    -> {"landing page", "website", "homepage", "marketing site"}
          [] c = "automation" ->
                {"automation", "automate", "workflow", "zapier", "make.com", "n8n", "reminder"}
          [] c = "ai-agent"   -> {"agent", "triage", "tool-using", "assistant system", "autonomous"}
          [] c = "api"        -> {"api", "backend", "endpoint", "microservice"}]

\* normalizeCategory: what the planner looks for in the type that intake
\* inferred, and in the idea when it inferred none.
PlannerTypeWords ==
    [c \in ToSet(Categories) |->
        CASE c = "web-app"    -> {"crm", "saas", "platform", "dashboard", "web-app", "app"}
          [] c = "website"    -> {"website", "landing page", "marketing site", "site"}
          [] c = "automation" -> {"automation", "workflow", "integration", "zap", "process"}
          [] c = "ai-agent"   ->
                {"agent", "copilot", "assistant", "multi-agent", "ai-agent", "agent-system"}
          [] c = "api"        -> {"api", "backend", "service"}]

PlannerIdeaWords ==
    [c \in ToSet(Categories) |->
        CASE c = "web-app"    -> {}
          [] c = "website"    -> {"website", "landing page"}
          [] c = "automation" -> {"automation", "workflow"}
          [] c = "ai-agent"   -> {"agent", "assistant", "copilot"}
          [] c = "api"        -> {"api", "backend"}]

\* normalizeProjectType: what the selector looks for in the type.
SelectorWords ==
    [c \in ToSet(Categories) |->
        CASE c = "web-app"    -> {"app", "crm", "portal", "dashboard"}
          [] c = "website"    -> {"website", "landing"}
          [] c = "automation" -> {"automation"}
          [] c = "ai-agent"   -> {"agent"}
          [] c = "api"        -> {"api"}]

\* The patterns a type contains.
TypeWords(type) ==
    CASE type = "web-app"    -> {"web-app", "app"}
      [] type = "website"    -> {"website", "site"}
      [] type = "automation" -> {"automation"}
      [] type = "ai-agent"   -> {"ai-agent", "agent"}
      [] type = "api"        -> {"api"}
      [] type = "unknown"    -> {}

FirstMatch(order, words, patterns, otherwise) ==
    LET found == {i \in DOMAIN order : words \cap patterns[order[i]] # {}}
    IN  IF found = {} THEN otherwise ELSE order[Min(found)]

InferSolutionCategory(words) == FirstMatch(Categories, words, IntakeWords, "unknown")

\* An idea of no type is planned as a web app, if it says anything at all.
NormalizeCategory(type, idea) ==
    FirstMatch(Categories, TypeWords(type), PlannerTypeWords,
        FirstMatch(Categories, idea.words, PlannerIdeaWords,
            IF idea.blank THEN "unknown" ELSE "web-app"))

NormalizeProjectType(type) ==
    FirstMatch(<< "website", "ai-agent", "automation", "api", "web-app" >>,
        TypeWords(type), SelectorWords, "unknown")

----------------------------------------------------------------------------
PlannedTask(id, dependencies) == [id |-> id, dependencies |-> dependencies]

\* getCategoryTasks: most categories have two tasks, api has one.
CategoryTaskIds(category) ==
    CASE category = "website"    -> << "design-content-structure", "plan-launch-analytics" >>
      [] category = "automation" -> << "map-workflow-systems", "define-failure-handling" >>
      [] category = "ai-agent"   -> << "define-agent-workflows", "design-evaluation-safety" >>
      [] category = "web-app"    -> << "design-core-user-flows", "plan-delivery-slices" >>
      [] category = "api"        -> << "define-api-contracts" >>
      [] OTHER                   -> << >>

CategoryTasks(category) ==
    LET ids == CategoryTaskIds(category)
    IN  [i \in DOMAIN ids |->
            PlannedTask(ids[i], IF i = 1 THEN {"clarify-scope", "define-architecture"}
                                ELSE {ids[1], "validate-risks"})]

\* getImplementationDependencies
ImplementationDependencies(category) ==
    ToSet(CategoryTaskIds(category)) \cup {"identify-skills", "validate-risks"}

\* buildPlan
BuildPlan(category) ==
    << PlannedTask("clarify-scope", {}),
       PlannedTask("define-architecture", {"clarify-scope"}),
       PlannedTask("identify-skills", {"define-architecture"}),
       PlannedTask("validate-risks", {"clarify-scope", "define-architecture"}) >>
    \o CategoryTasks(category)
    \o << PlannedTask("choose-implementation-path", ImplementationDependencies(category)),
          PlannedTask("prepare-execution-report",
              {"choose-implementation-path", "identify-skills", "validate-risks"}) >>

----------------------------------------------------------------------------
PriorityBonus(priority) ==
    CASE priority >= 95 -> 3
      [] priority \in 85..94 -> 2
      [] priority \in 70..84 -> 1
      [] priority < 70 -> 0

\* collectObjectiveText: the idea, its type, and what intake assumes and asks.
ObjectiveWords(words, type) == words \cup TypeWords(type) \cup AskedWords[type]

\* scoreSkill: what the idea says is said again in the plan, where the task
\* clarify-scope quotes it.
ScoreSkill(s, type, words, category, plan) ==
    LET triggered == s.taskTriggers \cap {plan[i].id : i \in DOMAIN plan}
    IN  (IF type \in s.projectTypes THEN 5 ELSE 0)
          + 4 * Cardinality(s.words \cap ObjectiveWords(words, type))
          + 2 * Cardinality(s.words \cap (words \cup PlanWords[category]))
          + 3 * Cardinality(triggered)
          + PriorityBonus(s.priority)

ScoresMutPriorityFirst(s, t, score) ==
    \/ s.priority > t.priority
    \/ s.priority = t.priority /\ score[s] > score[t]
    \/ s.priority = t.priority /\ score[s] = score[t] /\ s.id < t.id

\* compareScoredSkills; ids are numbered in the order of localeCompare.
Before(s, t, score) ==
    \/ score[s] > score[t]
    \/ score[s] = score[t] /\ s.priority > t.priority
    \/ score[s] = score[t] /\ s.priority = t.priority /\ s.id < t.id

\* selectSkills: the first of those that score enough; when there are none
\* the fallback is selected instead.
SelectSkills(type, words, category, plan) ==
    LET score == [s \in SkillRegistry |-> ScoreSkill(s, NormalizeProjectType(type), words, category, plan)]
        good  == {s \in SkillRegistry : score[s] >= MinimumScore}
        most  == IF MaxSkills > 1 THEN MaxSkills ELSE 1
    IN  {s \in good : Cardinality({t \in good : Before(t, s, score)}) < most}

----------------------------------------------------------------------------
\* Whatever the idea says: planner and selector take it for what intake took
\* it for, if intake knew; if not, the skills are chosen for no type, while the
\* plan is that of an assistant, if the idea names one, or of a web app, and
\* bare only if there is no idea; a task of the plan waits only for tasks before it
\* and the report waits for all of them, through others or not; and no skill
\* is left out that scores more than one that is selected, nor any that
\* scores enough while there is room.
PlanHangsTogether(idea) ==
    LET words == idea.words
        type == InferSolutionCategory(words)
        category == NormalizeCategory(type, idea)
        plan == BuildPlan(category)
        ids == {plan[i].id : i \in DOMAIN plan}
        selected == SelectSkills(type, words, category, plan)
        score(s) == ScoreSkill(s, NormalizeProjectType(type), words, category, plan)
    IN  /\ NormalizeProjectType(type) = type
        /\ type # "unknown" => category = type
        /\ type = "unknown" => category =
              IF words \cap {"assistant", "copilot"} # {} THEN "ai-agent"
              ELSE IF idea.blank THEN "unknown" ELSE "web-app"
        /\ \A i \in DOMAIN plan : plan[i].dependencies \subseteq {plan[j].id : j \in 1..(i - 1)}
        /\ \A S \in SUBSET ids :
              /\ "prepare-execution-report" \in S
              /\ \A i \in DOMAIN plan : plan[i].id \in S => plan[i].dependencies \subseteq S
              => S = ids
        /\ \A s \in selected, t \in SkillRegistry \ selected : score(t) <= score(s)
        /\ Cardinality(selected) < MaxSkills =>
              \A t \in SkillRegistry \ selected : score(t) < MinimumScore

=============================================================================
