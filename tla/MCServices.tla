----------------------------- MODULE MCServices -----------------------------
(***************************************************************************)
(* Small instances of ActionBatch, ControlService and StepAdapters.  They  *)
(* share no state: a behaviour is one of one of them.                      *)
(***************************************************************************)
EXTENDS ActionBatch, ControlService, StepAdapters, TLC

CONSTANT healStep   \* the healer that is the command line

VARIABLE part

\* Tasks, with their attempts and whether the plan asks for approval.
MCPlanned(task, attempts) == [task |-> task, maxAttempts |-> attempts, requiresApproval |-> FALSE]

MCWrite(undo) == [adapter |-> "fs", action |-> "write", path |-> "f", protected |-> FALSE, undo |-> undo]
MCRun(c) == [adapter |-> "terminal", action |-> "run", command |-> c, real |-> TRUE, undo |-> "none"]
MCGit(action, addAll, undo) ==
    [adapter |-> "github", action |-> action, addAll |-> addAll, paths |-> {"f"}, undo |-> undo]

MCTerminalPlan == << MCPlanned(MCRun("quiet"), 1), MCPlanned(MCRun("forbidden"), 1) >>

MCPlans ==
    {<< MCPlanned(MCWrite("rm"), 1), MCPlanned(MCGit("commit-and-pr", TRUE, "soft"), 2) >>,
     << MCPlanned(MCWrite("none"), 1), MCPlanned(MCGit("commit", FALSE, "hard"), 2),
        MCPlanned(MCGit("push", TRUE, "none"), 1) >>,
     MCTerminalPlan}

\* One that is transient, and one that two rules know.
MCMessages == {{"network"}, {"auth", "branch"}}

\* In "steps" only the executor heals; in "healing" the command does, too, and
\* the plan is the short one of commands.
MCInit ==
    /\ BatchInit /\ ServiceInit /\ StepInit
    /\ part \in {"batches", "service", "steps", "healing"}
    /\ part # "steps" => plan = MCTerminalPlan
    /\ part \in {"batches", "service"} => repo.changes = {} /\ healMode = "auto"

MCNext ==
    \/ part = "batches" /\ BatchNext /\ UNCHANGED <<part, serviceVars, stepVars, healVars>>
    \/ part = "service" /\ ServiceNext /\ UNCHANGED <<part, batchVars, stepVars, healVars>>
    \/ /\ part \in {"steps", "healing"}
       /\ StepNext
       /\ part = "steps" => healing'[healStep] = NoHealing
       /\ UNCHANGED <<part, batchVars, serviceVars>>

MCSpec == MCInit /\ [][MCNext]_<<part, batchVars, serviceVars, stepVars, healVars>>

MCAction(type, target, class) == [type |-> type, target |-> target, class |-> class]

MCAbove ==
    [x \in {"a", "a/b", "a/y", "a/b/x"} |-> CASE x = "a" -> {} [] x = "a/b/x" -> {"a", "a/b"} [] OTHER -> {"a"}]

\* The first makes a on its way, unlisted; the last finds a there, or not.
MCBatches ==
    {[run |-> "r1", phase |-> "build",
      actions |-> << MCAction("create_dir", "a/b", "safe"), MCAction("write_file", "a/b/x", "safe") >>],
     [run |-> "r1", phase |-> "build",
      actions |-> << MCAction("append_file", "a/b/x", "safe"), MCAction("run_command", "", "high"),
                     MCAction("write_file", "a/y", "unsafe") >>],
     [run |-> "r1", phase |-> "qa",
      actions |-> << MCAction("run_command", "", "ordinary"), MCAction("create_dir", "a", "safe"),
                     MCAction("write_file", "a/y", "safe") >>]}

\* There is no last run, it was a safe one, or in a mode that is forgotten.
MCLastRuns == {NoRun, [run |-> "r1", mode |-> "safe"], [run |-> "r1", mode |-> ""]}

\* The second instance is of a newer release.
MCReleases == [i \in {"old", "new"} |-> IF i = "old" THEN << "m1" >> ELSE << "m1", "m2" >>]

Alike == Permutations(Commands) \cup Permutations(Requests)
=============================================================================
