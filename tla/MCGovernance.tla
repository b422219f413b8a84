---------------------------- MODULE MCGovernance ----------------------------
(***************************************************************************)
(* Small instances of GateEvents, GateDecisions, Governance and Rules,     *)
(* which share no state: a behaviour is one of one of them.  Each rule is  *)
(* asked about every input of a set, an initial state per input.           *)
(***************************************************************************)
EXTENDS Rules, GateEvents, GateDecisions, TLC

MCBallots == [Agents -> [decision : Decisions, confidence : {0, 100}] \cup {NoVote}]

MCContexts ==
    {c \in [project : {"declared", "unknown"}, files : SUBSET {"inside", "outside", "artifact"},
            cost : {"none", "within", "over"}, target : {"none", "staging", "canary", "production"},
            coverage : {"none", "less", "kept"}, build : {"none", "failed", "success", "other"},
            risk : {20, 25, 30, 31, 90}] :
        c.cost # "over" \/ c.build = "success"}

MCSuites ==
    UNION {[1..n -> [seconds : {5, 60, 90}, clean : BOOLEAN, exits : {TRUE}, maxDuration : {0, 30}]] :
             n \in 0..2}
      \cup [1..1 -> [seconds : {5}, clean : BOOLEAN, exits : {FALSE}, maxDuration : {0}]]

\* Ideas with the words of one that names an assistant system, which is an
\* assistant; one with none of the words; and none.
MCIdeaTexts ==
    {[words |-> w, blank |-> FALSE] :
        w \in {v \in SUBSET {"crm", "app", "website", "n8n", "agent", "assistant", "assistant system",
                             "copilot", "api", "backend"} :
                 "assistant system" \in v => "assistant" \in v}}
      \cup {[words |-> {}, blank |-> TRUE]}

MCInit ==
    /\ GovernInit /\ Init /\ DecisionsInit
    /\ \/ part \in {"governed", "events", "decisions"} /\ subject = {}
       \/ RulesInit
    /\ part # "events" => facts = CHOOSE f \in Facts : TRUE

MCNext ==
    \/ part = "governed" /\ GovernNext /\ UNCHANGED <<rulesVars, vars, decisionVars>>
    \/ part = "events" /\ Next /\ UNCHANGED <<rulesVars, governVars, decisionVars>>
    \/ part = "decisions" /\ DecisionsNext /\ UNCHANGED <<rulesVars, governVars, vars>>

MCSpec == MCInit /\ [][MCNext]_<<rulesVars, governVars, vars, decisionVars>>

MCGateNames == << "cost", "risk" >>

MCCond(type, operator, names, value) ==
    [type |-> type, operator |-> operator, names |-> names, value |-> value]

MCApprovalRule ==
    [lowRisk |-> [gate |-> "security", priority |-> 80, enabled |-> TRUE, dependencies |-> {},
        conditions |-> << MCCond("test_pass", "equals", {}, 0),
                          MCCond("coverage_threshold", "greater_than", {}, 85) >>,
        actions |-> << "approve", "log" >>],
     docs |-> [gate |-> "architecture", priority |-> 90, enabled |-> TRUE, dependencies |-> {"security"},
        conditions |-> << MCCond("quality_score", "greater_than", {}, 90) >>,
        actions |-> << "log" >>],
     late |-> [gate |-> "deployment", priority |-> 70, enabled |-> TRUE,
        dependencies |-> {"security", "architecture"},
        conditions |-> << >>, actions |-> << "notify" >>]]

\* In the first nobody ran a test, in the second one failed.
MCFacts ==
    {[tests |-> <<>>, coverage |-> 90, quality |-> 95, age |-> 0],
     [tests |-> [unit |-> "failed"], coverage |-> 90, quality |-> 95, age |-> 9]}

Alike == Permutations(Workers) \cup Permutations(Runs) \cup Permutations(Reviewers)

----------------------------------------------------------------------------
MCVote(decision, confidence) == [decision |-> decision, confidence |-> confidence]

MCAllSay(v) == [a \in Agents |-> v]

MCWrite(path) == [type |-> "write_file", path |-> path, command |-> ""]
MCRun(command) == [type |-> "run_command", path |-> "", command |-> command]

MCPrefixesOf == [p \in {"src/a", "etc/b", ""} |->
    CASE p = "src/a" -> {"src"} [] p = "etc/b" -> {"etc"} [] OTHER -> {}]
MCPatternsOf == [c \in {"ls", "rm", ""} |-> IF c = "rm" THEN {"rm"} ELSE {}]

MCBatch(actions, words, complete) == [actions |-> actions, words |-> words, complete |-> complete]

MCGovernedInputs ==
    LET batches ==
          {MCBatch(<< MCWrite("src/a") >>, {"crm", "leads"}, TRUE),
           MCBatch(<< MCWrite("src/a"), MCRun("rm") >>, {"crm", "leads"}, TRUE),
           MCBatch(<< MCWrite("etc/b") >>, {"crm", "leads"}, TRUE),
           MCBatch(<< MCRun("ls") >>, {}, TRUE),
           MCBatch(<< >>, {"crm"}, FALSE)}
        policy == [allowedPaths |-> {"src"}, blockedPaths |-> {"etc"}, blockedTypes |-> {"create_dir"},
                   blockedPatterns |-> {"rm"}, maxActions |-> 2, maxFiles |-> 1, maxCommands |-> NoLimit]
        votes == {MCAllSay(MCVote("approve", 100)),
                  [MCAllSay(MCVote("approve", 50)) EXCEPT !["builder"] = MCVote("reject", 0)],
                  [MCAllSay(MCVote("approve", 100)) EXCEPT !["security"] = MCVote("reject", 100)],
                  MCAllSay(NoVote)}
        input(v, r, b) == [votes |-> v, risk |-> r, batch |-> b, policy |-> policy]
        agreed == MCAllSay(MCVote("approve", 100))
    IN  {input(agreed, "low", b) : b \in batches}
          \cup {input(v, "low", MCBatch(<< MCWrite("src/a") >>, {"crm", "leads"}, TRUE)) : v \in votes}
          \cup {input(agreed, r, MCBatch(<< MCWrite("etc/b") >>, {"crm", "leads"}, TRUE)) :
                   r \in {"high", "undefined"}}

MCTestRule(gate, enabled, failureAction, parallel, timeout, minPass) ==
    [gate |-> gate, enabled |-> enabled, failureAction |-> failureAction, parallel |-> parallel,
     timeout |-> timeout, minPass |-> minPass]

MCTestRules ==
    << MCTestRule("qa", FALSE, "block", FALSE, 300, 0),
       MCTestRule("build", TRUE, "block", FALSE, 70, 50),
       MCTestRule("build", TRUE, "log", TRUE, 70, 100),
       MCTestRule("security", TRUE, "warn", TRUE, 60, 100) >>

MCSkill(id, words, projectTypes, taskTriggers, priority) ==
    [id |-> id, words |-> words, projectTypes |-> projectTypes, taskTriggers |-> taskTriggers,
     priority |-> priority]

MCSkillRegistry ==
    {MCSkill(1, {}, ToSet(Categories) \cup {"unknown"}, {"define-architecture"}, 100),
     MCSkill(2, {"crm"}, {"web-app", "automation", "api"}, {"clarify-scope", "identify-skills"}, 95),
     MCSkill(3, {"website"}, {"website"}, {"design-content-structure", "plan-launch-analytics"}, 94),
     MCSkill(4, {"agent", "assistant"}, {"ai-agent"}, {"validate-risks"}, 99),
     MCSkill(5, {"api", "backend"}, {"api", "web-app"}, {"define-api-contracts"}, 70)}

MCPlanWords == [c \in ToSet(Categories) \cup {"unknown"} |->
    CASE c = "website" -> {"website"} [] c = "ai-agent" -> {"agent"} [] c = "api" -> {"api"} [] OTHER -> {}]

MCAskedWords == [t \in ToSet(Categories) \cup {"unknown"} |->
    CASE t = "website" -> {"landing page"} [] t = "automation" -> {"api"} [] OTHER -> {}]

=============================================================================
