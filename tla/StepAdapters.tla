---------------------------- MODULE StepAdapters ----------------------------
(***************************************************************************)
(* The steps of a run as the adapters carry them out: files are written,   *)
(* commands run, and what was written is committed, pushed and proposed as *)
(* a pull request, over attempts, healing and rollback.                    *)
(* Source: packages/adapters/src/providers/, packages/adapters/src/index.ts*)
(*         packages/core/src/policy-engine.ts, packages/orchestrator/src/  *)
(*         execution-engine.ts                                             *)
(*                                                                         *)
(* RunExecution has the requests and the state of a run; here one executor *)
(* goes through one plan and the world the steps change is in view.  Every *)
(* git command and every call to GitHub is a step of its own: others may   *)
(* use the working copy in between, and each can fail before or after it   *)
(* has had its effect (a git command is killed after 30 seconds).          *)
(***************************************************************************)
EXTENDS StepHealing

CONSTANTS
    Executor,       \* the healer that executes the run
    Plans,          \* the plans runs can have: sequences of tasks
    Paths,          \* files of the working copy that the steps and others write
    OthersPaths,    \* those that others write
    MaxChangedFiles,\* validateDiff's limit on staged files; 25
    Messages,       \* messages failing commands and calls can have: sets of words
    MaxExecutions,  \* bound: times the run is executed
    MaxEdits        \* bound: times others use the working copy

Branch == "work"    \* the branch the tasks name

GithubAction == {"validate-diff", "commit", "push", "create-pr", "create-check", "commit-and-pr"}

\* A task: its payload and, in undo, its rollback payload.
FsTask == [adapter : {"fs"}, action : {"write"}, path : Paths, protected : BOOLEAN, undo : {"none", "rm"}]
TerminalTask ==
    [adapter : {"terminal"}, action : {"run"}, command : {"quiet", "other-safe", "unsafe", "forbidden"},
     real : BOOLEAN, undo : {"none"}]
GithubTask ==
    [adapter : {"github"}, action : GithubAction, addAll : BOOLEAN, paths : SUBSET Paths,
     undo : {"none", "soft", "hard"}]

Planned ==
    [task : FsTask \cup TerminalTask \cup GithubTask, maxAttempts : Nat, requiresApproval : BOOLEAN]

ASSUME StepAssumption ==
    /\ Executor \in Healers
    /\ \A p \in Plans : p \in Seq(Planned) /\ p # <<>>
    /\ OthersPaths \subseteq Paths
    /\ \A m \in Messages : m \subseteq Words

VARIABLES
    repo,           \* the working copy: [changes, index, on, tip]
    commits,        \* commits made so far; the id of the latest one
    remote,         \* the branch at the remote: its history
    pullRequest,    \* has a pull request of the branch been opened?
    plan,           \* the plan of the run: [task, maxAttempts, requiresApproval]
    step,           \* what the executor does: [pc, at, left, todo, message]
    stepApproved,   \* state.approved of the run
    executions, edits,  \* times the run was executed, and others used the copy
    found,          \* history: the copy as the step found it, what happened since
    owed            \* history: the files that steps which succeeded had to publish

worldVars == <<repo, commits, remote, pullRequest>>
stepVars == <<worldVars, plan, step, stepApproved, executions, edits, found, owed>>

\* A history is a sequence of commits.  Those of the base change none of Paths.
Base == << [id |-> 0, files |-> {}], [id |-> 1, files |-> {}] >>

FilesIn(history) == UNION {history[i].files : i \in DOMAIN history}

HeadOf(r) == r.tip[r.on]

Task == plan[step.at].task

\* The step finds the copy as it is.
Finds == [tip |-> HeadOf(repo), changes |-> repo.changes, commits |-> 0, others |-> {}]

At(pc, index) == [pc |-> pc, at |-> index, left |-> 0, todo |-> <<>>, message |-> {}]

StepInit ==
    /\ HealingInit
    /\ \E s \in SUBSET OthersPaths :
          repo = [changes |-> s, index |-> {}, on |-> "main",
                  tip |-> [b \in {"main", Branch} |-> IF b = "main" THEN Base ELSE <<>>]]
    /\ commits = 1 /\ remote = <<>> /\ pullRequest = FALSE
    /\ plan \in Plans
    /\ step = At("idle", 1)
    /\ stepApproved = FALSE
    /\ executions = 0 /\ edits = 0
    /\ found = Finds /\ owed = {}

----------------------------------------------------------------------------
\* estimateRisk of each adapter; simulate asks for approval unless it is low.
FsRisk(t) == IF t.protected THEN "high" ELSE "low"
TerminalRisk(t) == IF t.real /\ t.command # "quiet" THEN "medium" ELSE "low"
GithubRisk(t) ==
    CASE t.action = "validate-diff" -> "low" [] t.action = "commit" -> "medium" [] OTHER -> "high"

TaskRisk(t) ==
    CASE t.adapter = "fs" -> FsRisk(t)
      [] t.adapter = "terminal" -> TerminalRisk(t)
      [] t.adapter = "github" -> GithubRisk(t)

\* The rules are the default ones: config/policy.json has no "rules".
RequireApprovalFor == {"github", "api"}

\* evaluatePolicy
PolicyForbids(t) == t.adapter = "terminal" /\ t.command = "forbidden"
PolicyRequiresApproval(t) == t.adapter \in RequireApprovalFor

\* The plan, the policy, the simulation and the risk can each ask for it.
TaskNeedsApproval ==
    \/ plan[step.at].requiresApproval
    \/ PolicyRequiresApproval(Task)
    \/ TaskRisk(Task) # "low"

\* What an action consists of, each a command or a call that can fail.
CommitStages == << "checkout", "add", "status", "diff", "commit" >>

Stages(t) ==
    CASE t.adapter # "github" -> << t.action >>
      [] t.action = "commit" -> CommitStages
      [] t.action = "commit-and-pr" -> CommitStages \o << "push", "create-pr" >>
      [] t.action = "validate-diff" -> << "diff" >>
      [] OTHER -> << t.action >>

Attempt(left) ==
    step' = [step EXCEPT !.pc = "execute", !.left = left, !.todo = Stages(Task)]

\* The run is executed, or executed again from the step that failed.
StartRun ==
    /\ step.pc \in {"idle", "failed"}
    /\ executions < MaxExecutions
    /\ executions' = executions + 1
    /\ step' = [step EXCEPT !.pc = "gate"]
    /\ UNCHANGED <<worldVars, plan, stepApproved, edits, found, owed, healVars>>

ApproveStep ==
    /\ step.pc = "paused"
    /\ executions < MaxExecutions
    /\ executions' = executions + 1
    /\ stepApproved' = TRUE
    /\ step' = [step EXCEPT !.pc = "gate"]
    /\ UNCHANGED <<worldVars, plan, edits, found, owed, healVars>>

\* executeTask up to the loop of attempts.
BeginStep ==
    /\ step.pc = "gate"
    /\ \/ /\ PolicyForbids(Task)
          /\ step' = [step EXCEPT !.pc = "failed"]
          /\ UNCHANGED found
       \/ /\ ~PolicyForbids(Task)
          /\ TaskNeedsApproval /\ ~stepApproved
          /\ step' = [step EXCEPT !.pc = "paused"]
          /\ UNCHANGED found
       \/ /\ ~PolicyForbids(Task)
          /\ TaskNeedsApproval => stepApproved
          /\ Attempt(plan[step.at].maxAttempts)
          /\ found' = Finds
    /\ UNCHANGED <<worldVars, plan, stepApproved, executions, edits, owed, healVars>>

----------------------------------------------------------------------------
Stage == Head(step.todo)

\* What the task stages: everything, or the paths it names.
ToAdd(t) == IF t.addAll THEN repo.changes ELSE t.paths \cap repo.changes

\* The terminal runs commands of a list only; without leave to, it says so.
Runs == Task.command # "unsafe"

\* A file is written.  What is committed already is left as it is by that.
Written ==
    [repo EXCEPT !.changes = IF Task.path \in FilesIn(HeadOf(repo))
                             THEN @ \ {Task.path} ELSE @ \cup {Task.path}]

\* Whether the command or call can succeed ...
CanSucceed ==
    CASE Stage = "diff" -> Cardinality(repo.index) <= MaxChangedFiles
      [] Stage = "commit" -> repo.index # {}
      [] Stage = "push" ->          \* without force: the remote must be behind
            repo.tip[Branch] # <<>> /\ IsPrefix(remote, repo.tip[Branch])
      [] Stage = "create-pr" ->     \* one is open already, or there is nothing in it
            ~pullRequest /\ FilesIn(remote) # {}
      [] Stage = "run" -> Runs
      [] OTHER -> TRUE

\* ... and what it does.  "checkout" is -B: the branch begins anew where HEAD is.
Effect ==
    /\ repo' =
        CASE Stage = "write" -> Written
          [] Stage = "checkout" -> [repo EXCEPT !.on = Branch, !.tip[Branch] = HeadOf(repo)]
          [] Stage = "add" -> [repo EXCEPT !.index = @ \cup ToAdd(Task)]
          [] Stage = "commit" ->
                [repo EXCEPT !.tip[repo.on] = Append(@, [id |-> commits + 1, files |-> repo.index]),
                             !.changes = @ \ repo.index, !.index = {}]
          [] OTHER -> repo
    /\ commits' = IF Stage = "commit" THEN commits + 1 ELSE commits
    /\ found' = IF Stage = "commit" THEN [found EXCEPT !.commits = @ + 1] ELSE found
    /\ remote' = IF Stage = "push" THEN repo.tip[Branch] ELSE remote
    /\ pullRequest' = (pullRequest \/ Stage = "create-pr")

SucceedsWhenClean ==
    IF Stage = "status" /\ repo.changes = {} THEN <<>> ELSE Tail(step.todo)

\* With nothing to commit, the stages up to the commit are left out.
AfterStage ==
    IF Stage = "status" /\ repo.changes = {}
    THEN SubSeq(step.todo, 4, Len(step.todo))
    ELSE Tail(step.todo)

StageSucceeds ==
    /\ step.pc = "execute" /\ step.todo # <<>>
    /\ CanSucceed /\ Effect
    /\ step' = [step EXCEPT !.todo = AfterStage]
    /\ UNCHANGED <<plan, stepApproved, executions, edits, owed, healVars>>

\* The attempt throws: the next one, or healing after the last.
AttemptFailed(message) ==
    IF step.left > 1 THEN Attempt(step.left - 1)
    ELSE step' = [At("heal", step.at) EXCEPT !.message = message]

\* A command or call fails, before or after it has had its effect.  A command
\* that is not run cannot, and one that is not on the list fails with words
\* that no rule knows.
StageFails(message) ==
    /\ step.pc = "execute" /\ step.todo # <<>>
    /\ Stage = "run" /\ Runs => Task.real
    /\ \/ UNCHANGED <<worldVars, found>>
       \/ CanSucceed /\ Effect
    /\ AttemptFailed(IF Stage = "run" /\ ~Runs THEN {} ELSE message)
    /\ UNCHANGED <<plan, stepApproved, executions, edits, owed, healVars>>

\* What verify looks at: that the file is there, that a committed copy has
\* little left that is staged; a command that succeeded is taken at its word.
Verifies(t) ==
    t.action = "commit" => Cardinality(repo.index) <= MaxChangedFiles

StepSucceeded ==
    /\ step.pc = "execute" /\ step.todo = <<>>
    /\ Verifies(Task)
    /\ step' = IF step.at = Len(plan) THEN At("completed", step.at) ELSE At("gate", step.at + 1)
    /\ stepApproved' = FALSE
    /\ owed' = IF Task.action = "commit-and-pr" /\ "switch" \notin found.others
                   THEN owed \cup (IF Task.addAll THEN found.changes
                                       ELSE Task.paths \cap found.changes)
                   ELSE owed
    /\ UNCHANGED <<worldVars, plan, executions, edits, found, healVars>>

\* The check, or the command it needs, fails; the message says so.
VerificationFails ==
    /\ step.pc = "execute" /\ step.todo = <<>>
    /\ Task.adapter # "terminal"
    /\ AttemptFailed({"verify"})
    /\ UNCHANGED <<worldVars, found, plan, stepApproved, executions, edits, owed, healVars>>

----------------------------------------------------------------------------
HealStep ==
    /\ step.pc = "heal"
    /\ BeginHealing(Executor, Task.adapter, step.message)
    /\ step' = At("healing", step.at)
    /\ UNCHANGED <<worldVars, plan, stepApproved, executions, edits, found, owed>>

\* Healing has answered, or thrown: one more attempt, a pause, or rollback.
HealingAnswered ==
    /\ step.pc = "healing"
    /\ ~Underway(Executor)
    /\ LET call == healing[Executor]
           came(status) == call.pc = "returned" /\ call.status = status
       IN  \/ came("verified") /\ Attempt(1)
           \/ came("awaiting-approval") /\ step' = [step EXCEPT !.pc = "paused"]
           \/ /\ ~came("verified") /\ ~came("awaiting-approval")
              /\ step' = [step EXCEPT !.pc = "rollback"]
    /\ healing' = [healing EXCEPT ![Executor] = NoHealing]
    /\ UNCHANGED <<worldVars, plan, stepApproved, executions, edits, found, owed,
                   healMode, healLog, healStats, healings, healed, healOverlap>>

\* git reset HEAD~1: the last commit is dropped, whoever made it.  --soft keeps
\* what it changed, staged; --hard leaves only files git does not know.
Reset(r, hard) ==
    LET dropped == Last(HeadOf(r)).files
    IN  [r EXCEPT !.tip[r.on] = Front(@),
                  !.index = IF hard THEN {} ELSE @ \cup dropped,
                  !.changes = IF hard THEN @ \ (r.index \cup FilesIn(HeadOf(r))) ELSE @ \cup dropped]

Removed ==
    [repo EXCEPT !.changes = IF Task.path \in FilesIn(HeadOf(repo))
                             THEN @ \cup {Task.path} ELSE @ \ {Task.path}]

UndoIsAlwaysHard(undo) ==
    CASE undo = "rm" -> Removed
      [] undo \in {"soft", "hard"} -> Reset(repo, TRUE)
      [] OTHER -> repo

\* rollbackTask: what the rollback payload of the task asks for.
Undo(undo) ==
    CASE undo = "rm" -> Removed
      [] undo \in {"soft", "hard"} -> Reset(repo, undo = "hard")
      [] OTHER -> repo

RollBackStep ==
    /\ step.pc = "rollback"
    /\ Task.undo \in {"soft", "hard"} => Len(HeadOf(repo)) > 1
    /\ repo' = Undo(Task.undo)
    /\ step' = [step EXCEPT !.pc = "failed"]
    /\ UNCHANGED <<commits, remote, pullRequest, plan, stepApproved, executions, edits, found, owed,
                   healVars>>

\* The process dies, or a rollback throws: the stored state stays as it was.
ExecutorDies ==
    /\ step.pc \in {"execute", "heal", "healing", "rollback"}
    /\ step' = At("idle", step.at)
    /\ healing' = [healing EXCEPT ![Executor] = NoHealing]
    /\ UNCHANGED <<worldVars, plan, stepApproved, executions, edits, found, owed,
                   healMode, healLog, healStats, healings, healed, healOverlap>>

----------------------------------------------------------------------------
Others(what) ==
    /\ edits < MaxEdits
    /\ edits' = edits + 1
    /\ found' = [found EXCEPT !.others = @ \cup {what}]
    /\ UNCHANGED <<commits, remote, pullRequest, plan, step, stepApproved, executions, owed, healVars>>

OthersEdit ==
    /\ Others("edit")
    /\ \E f \in OthersPaths \ repo.changes : repo' = [repo EXCEPT !.changes = @ \cup {f}]

\* Changes are taken along, if the branches do not differ in them.
OthersSwitch ==
    /\ Others("switch")
    /\ repo.on = Branch
    /\ repo.changes \cap (FilesIn(repo.tip[Branch]) \ FilesIn(repo.tip["main"])) = {}
    /\ repo' = [repo EXCEPT !.on = "main"]

\* heal-step: any adapter and any message, on the command line.
HealCommand(h) ==
    /\ h # Executor
    /\ \E adapter \in AdapterIds, m \in Messages : BeginHealing(h, adapter, m)
    /\ UNCHANGED stepVars

StepNext ==
    \/ StartRun \/ ApproveStep \/ BeginStep
    \/ StageSucceeds \/ (\E m \in Messages : StageFails(m))
    \/ StepSucceeded \/ VerificationFails
    \/ HealStep \/ HealingAnswered \/ RollBackStep \/ ExecutorDies
    \/ OthersEdit \/ OthersSwitch
    \/ \E h \in Healers :
          \/ HealCommand(h)
          \/ HealingContinues(h) /\ UNCHANGED stepVars
          \/ HealingDies(h) /\ UNCHANGED stepVars

StepSpec == StepInit /\ [][StepNext]_<<stepVars, healVars>>

----------------------------------------------------------------------------
\* When a step that commits and proposes its changes has succeeded, what it
\* found changed is on the branch at the remote and a pull request is open,
\* whichever attempts failed half-way and whatever was executed before; only
\* somebody who switches the branch under it can prevent that.
SuccessIsPublished ==
    /\ owed \subseteq FilesIn(remote)
    /\ owed # {} => pullRequest

\* A step that committed, failed and was rolled back while nobody else used
\* the copy leaves the branch where it found it, after any number of attempts,
\* and, with a soft reset, the changes it had found.
RollbackRestoresBranch ==
    step.pc = "failed" /\ Task.undo \in {"soft", "hard"} /\ found.commits > 0 /\ found.others = {} =>
        /\ HeadOf(repo) = found.tip
        /\ Task.undo = "soft" => found.changes \subseteq repo.changes
=============================================================================
