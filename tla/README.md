# Code Kit Ultra in TLA+

Formal models of Code Kit Ultra: how a run is executed, approved, healed, retried,
rolled back and rejected; how an idea gets through phases, gates and plans to a
run; what the services around it, its stores, its audit trails and its clients
promise when requests overlap, processes die and answers are late; and proofs,
for every value of the constants, of every safety property that holds in the runs.
Source paths are relative to `src/`.

## The system

Code Kit Ultra turns an idea into a *run*: a plan of tasks that adapters (file
system, terminal, GitHub) carry out. A run is a directory of JSON files under
`.codekit/runs/<id>`; the service is one Node.js process (plus the command line,
a process of its own), so what interleaves is decided by where the code awaits.

| Component | State | Operations | Modules |
|---|---|---|---|
| Execution engine (`packages/orchestrator/src/execution-engine.ts`, `resume-run.ts`) | the bundle of a run, in memory during a request | `executeRunBundle`, `executeTask`, `retryTask`, `rollbackTask`, `resumeRun` | `RunExecution`, `StepAdapters` |
| Request handlers (`apps/control-service/src/handlers`, `services/approval-service.ts`) | the bundle they loaded | approve-gate, resume, retry-step, rollback, reject-gate, create-run | `RunExecution`, `Pipeline`, `GateDecisions` |
| Adapters (`packages/adapters`), policy (`packages/core/src/policy-engine.ts`) | the working copy, the remote, the pull request | `validate`, `execute`, `verify`, `rollback` | `StepAdapters` |
| Healing (`packages/healing`, `healing-integration.ts`) | log of a run, statistics | `attemptHealing`, `heal-step` | `StepHealing` |
| Phase engine (`phase-engine.ts`, `run-vertical-slice.ts`, `intake.ts`) | the run report: phase, approved gates | `runOrchestrationStep`, one handler per phase | `Pipeline`, `ModeGates` |
| Planner and skills (`planner.ts`, `packages/skill-engine`) | none | `buildPlan`, `selectSkills` | `Planning`, `Rules` |
| Command line (`apps/cli/src/index.ts`) | the session file | pipeline, approve, mode, batches, rollback, heal-step, outcome, login | `Pipeline`, `ActionBatch`, `StepHealing`, `Learning`, `ClientSessions` |
| Editor extension (`extensions/code-kit-vscode`) | token, session, status bar | sign in and out, poll | `ClientSessions` |
| Run store (`packages/memory/src/run-store.ts`, `packages/storage`) | the run's files, project memory | `update*`, `loadRunBundle`, `recordRun` | `StateMirror`, `Pipeline` |
| Audit (`packages/audit`, `packages/core/src/audit-logger.ts`) | hash chains, in a file and in Postgres | `writeAuditEvent`, `appendAuditEvent`, `AuditLogger.emit` | `AuditStream`, `AuditTable` |
| Governance gates (`packages/governance/src/gate-manager.ts`, `gate-store.ts`, `gates/`) | decisions in Postgres | evaluate, record, override, reject | `GateDecisions`, `GovernanceGates` |
| Governance analysis (`governed-pipeline.ts`, consensus, constraints, kill switch, `gate-controller.ts`) | approval files | `runGovernedAutonomy`, `waitForApproval` | `Governance` |
| Auto-approval (`services/auto-approval-engine.ts`, `auto-approval-chain-handlers.ts`, `alert-store.ts`) | `state.json`, alerts | evaluate, handle an event | `GateEvents` |
| Automation (`automation-orchestrator.ts`, `healing-engine.ts`, `rollback-automation.ts`, `alert-acknowledgment-service.ts`) | timers, trackers, cooldowns, pending alerts, all in memory | a cycle per period | `AutomationOrchestrator` and the modules it extends |
| Test verification (`test-verification-service.ts`) | rules | run suites, approve | `TestVerification`, `Rules` |
| Batches (`action-runner.ts`, `rollback-engine.ts`, `batch-queue.ts`) | queue, rollback logs, the workspace | queue, approve, execute, roll back | `ActionBatch` |
| Learning (`packages/learning`, `outcome-engine.ts`) | learning store, learning state | record an outcome, a learning cycle | `Learning` |
| Service lifecycle, authentication (`index.ts`, `db/`, `middleware/`, `session-revocation.ts`) | migrations, seed, revoked sessions | start, serve, revoke, shut down | `ControlService` |

What is hard about it, and where:

* *Overlapping requests.* Every handler loads the whole bundle, works on a copy
  over many awaits and writes the whole state back. Nothing locks a run.
* *Stale writes.* The approve-gate handler keeps the bundle it loaded before the
  execution it triggers and writes it afterwards; the building phase executes
  the bundle it loaded before it awaited the event bus.
* *Approvals.* One flag, set by an approval, tested by the gate of a step and
  reset by the success of a step, must survive pauses, failures, retries,
  rollbacks, crashes and stale writes without covering more than it was given for.
* *Partial failure.* The effect of an adapter and its record are separated by an
  await; the process may die, or the adapter may reject, in between.
* *Termination.* The attempt loop is extended by healing from inside; the loop of
  the vertical slice ends by the status its phases leave.
* *Memory between runs.* Mode and approvals of a run come from the entry of the
  last one, in a file that every command reads, changes and writes.
* *Thresholds.* A mode cuts off the questions and its gates count what is left.
* *Two writers to one file.* Every update writes synchronously and again
  asynchronously; two audit writers share a chain; statistics, learning and
  memory are read, changed and written whole by processes that do not know of
  each other, and written in place: a death leaves an empty or a torn file.
* *Several effects in one step.* Commit, push and pull request are one attempt;
  each can fail, or succeed and not be heard of, and rollback undoes one commit.
* *Timers.* Automation cycles are not awaited, so they overlap; cooldowns are
  checked before the first await and recorded after the last.
* *Late answers.* A client's question is answered about the token it was sent
  with, when another is in place.

`PROJECT.json` lists these hazards at their lines with the properties that
cover them.

## Modules

| Module | What it models |
|---|---|
| `RunExecution` | one run: its files, and any number of requests executing, approving, retrying, rolling back and rejecting it |
| `RunLifecycle` | the abstract specification: what an observer of the state file is promised |
| `MCRunExecution` | instance of `RunExecution` for TLC, and the refinement mapping |
| `RunExecution_proofs` | theorems about `RunExecution`, for overlapping and for serialised requests, and that it implements `RunLifecycle` |
| `StateMirror` | one file of a run, written synchronously and asynchronously by each update |
| `AuditStream` | the audit stream and the logs of the runs, written by processes that share the files |
| `AuditTable` | the hash chains in the Postgres table `audit_events` |
| `MCRecords` | instances of the three, and of `Learning` |
| `AuditStream_proofs` | theorems about `AuditStream` |
| `Persistence_proofs` | theorems about `StateMirror`, `AuditTable` and `Learning` |
| `ModeGates` | policies of the modes, intake, plan sizes, and the five gates; operators only |
| `Pipeline` | the phases, and the commands around them with the project memory they share |
| `ClientSessions` | the sessions of the command line and of the editor extension |
| `MCPipeline`, `Pipeline_proofs` | instances of the two, and theorems about `Pipeline` |
| `StepHealing` | healing of a failed step: classification, strategies, policy, log and statistics |
| `StepAdapters` | extends it by the steps of a run at the working copy, the remote and GitHub |
| `ActionBatch` | batches: queue, policy, runner, rollback logs, rollback |
| `ControlService` | instances of the service: migrations, seed, revocation of sessions, shutdown |
| `MCServices` | instances of the three |
| `MCRollbackOrder` | `ActionBatch` with a history of the order in which rollback logs are written |
| `Steps_proofs` | theorems about `StepAdapters` and `StepHealing` |
| `Services_proofs` | theorems about `ClientSessions`, `ControlService` and `ActionBatch` |
| `ServiceClock` | the clock and the callers the automation services share |
| `HealingStrategies`, `RollbackAutomation`, `AlertAcknowledgment` | the three automation services |
| `AutomationOrchestrator` | their composition: the automation loop that drives them |
| `MCAutomation`, `Automation_proofs` | its instance, and theorems about it |
| `GateEvents` | the auto-approval engine, the event handlers, the run's state they share with an execution, the alert store |
| `GateDecisions` | gates evaluated, recorded, overridden and rejected in the table `gates` |
| `Governance` | governed autonomy: consensus, constraints, confidence, kill switch, the wait for a person |
| `Learning` | the learning store and the learning state |
| `GovernanceGates`, `TestVerification`, `Planning` | the rules of gates, test suites, plans and skills; operators only |
| `Rules` | asks each of these rules, and that of the consensus, once, about one of the inputs it may get |
| `MCGovernance` | instances of `GateEvents`, `GateDecisions`, `Governance` and, through `Rules`, the rules |
| `Gates_proofs` | theorems about `GateEvents`, `GateDecisions`, `Governance` and `Rules` |

Modules that one MC module instantiates together without sharing state
(`MCRecords`, `MCPipeline`, `MCServices`, `MCGovernance`) are parts of one run:
its variable `part` says which of them a behaviour is one of.

### RunExecution

State and code:

| Variable | Code |
|---|---|
| `stateFile` | `state.json`: `status`, `currentStepIndex`, `approved`, `approvalRequired` |
| `adaptersFile` | `adapters.json`: the last recorded outcome of each task |
| `effect` | the world: whether the artifact of a step is in place |
| `req[p]` | a request: where it awaits (`pc`), its copy of the bundle (`mem`, `sums`), the state the approve-gate handler loaded before (`snap`), the loop's step and remaining attempts (`at`, `left`) |
| `approvals`, `consumed`, `successes`, `req[p].used` | history only: approvals given, risky successes, successes per step; no action reads them, except that `approvals` bounds the approvals TLC gives |

An action is the code between two awaits. The requests that arrive are
`Resume`, `Approve` (the auto-approval engine's call), `ApproveGate` (the HTTP
handler), `Building` (the phase engine), `Retry`, `RetryCurrent`, `Rollback` and
`Reject`; those that continue are the stages of `executeTask` (simulate, gate,
validate, attempts, verify, heal, compensate), the loop of `executeRunBundle`,
the tails of `rollbackTask` and of the approve-gate handler, a rejecting
adapter, and the crash of the process. Whether the policy blocks a step, an
adapter accepts, fails or rejects, and what healing answers, is the
environment's choice. `Ops` and `Env` restrict the environment of a run, and
`Serial` says whether callers wait for each other: the specification of the
life cycle (`docs/03_specs/SPEC_RUN_LIFECYCLE.md:285`) leaves serialising to the
API layer, so properties are stated for both.

Left out: the execution log (append-only; the only thing read from it is the
default target of a rollback, which the model lets be any step), texts, audit
events, times, tenants, the asynchronous second write of the run store (see
`StateMirror`), and failures of the file system. The two writes with which a
success is recorded, `adapters.json` and `state.json`
(`execution-engine.ts:296-307`), have no await between them and are one action:
a death in the instant between the two is not modelled.

### RunLifecycle

`status`, `index` and the set of steps done, with six actions. It says that the
checkpoint moves one step at a time, over a step that has just succeeded, that
a run stops at its checkpoint, and that it completes behind its last step only.
`MCRunExecution!Lifecycle` maps `status` and `index` to the state file and
`done` to the steps with a recorded success.

Its `Reopen` lets a run that failed or was cancelled run again, as `resumeRun`
and `retryTask` do; `SPEC_RUN_LIFECYCLE.md:225` says that terminal states are
final. So the refinement is silent on that sentence, and `CancelledIsFinal`, which
states it of a cancelled run, is refuted by a run of its own.

### StateMirror

An update of `packages/memory/src/run-store.ts` writes its file synchronously
and then calls the storage provider, whose base directory is the same one, so
both write one path. `Update` is the synchronous part and the first await of
`LocalStorageProvider.put`; `PutOpens`, `PutWrites` and `PutReturns` are its
stages. The executor, the phase engine and the handlers start many updates
without awaiting them, so any number may be in flight. `disk` says which
update's text the file holds, or that it is absent, empty or a mixture (a
shorter text written over a longer one). `Crash` kills the process with puts in
flight, also because one rejects: the service exits on an unhandled rejection.
`CutShort` kills it inside a synchronous write; `Accidents` says which of the two
may happen. `overlap` and `torn` are history.

### AuditStream

`stream` is `.codekit/audit/events.ndjson`, `runLog[r]` the run's
`audit-log.json`. `proc[p]` is where a process is in `writeAuditEvent` and the
`appendAuditEvent` it calls; one action is one file operation. In one process
the two functions are synchronous, so the instance has one call under way per
process; the service and the command line interleave. Hashes are numbers in the
order of creation. Left out: a death inside a file operation, and failures of
the file system, which `writeAuditEvent` swallows for the log of the run.

### AuditTable

`AuditLogger.emit` is a transaction: `Begin` fixes its `NOW()`, `Lock` waits for
the one advisory lock of all organisations, `ReadLastHash` reads the hash of the
newest row of the organisation, `InsertAndCommit` adds a row and frees the lock,
`Fail` rolls back. Two transactions never begin at the same time in the model;
Postgres has microseconds, and equal times would only let `ReadLastHash` choose.

### ModeGates and Pipeline

`ModeGates` keeps of an idea what the code finds in it, its category. Of the
intake it keeps whether there is text, whether the category is known, and the
numbers of questions and assumptions; of the plan the number of tasks (every
plan has dependencies); of the skills how many there are and how many are not
the fallback. `Decision` and `Overall` are `evaluateGates`, for every mode.

In `Pipeline` an invocation (`cmd[p]`) is a command or a create-run request: it
steps its report through the phases, records it in the memory and is gone.
`memory` is `project-memory.json`, of which the commands read the last idea and
the entry of the last run. `RunCommand`, `InitCommand` and `StageCommand` are
what the command line starts (`/ck-run`, `/ck-init`, and `/ck-build`, `/ck-test`,
`/ck-review`, whose stage is only printed: each is an expert run from the intake
of the last idea). `Advanced` is what `runOrchestrationStep` makes of a
handler's answer; `PhaseDone` the handlers; `StartBuilding` and `EndBuilding`
the building phase around its await of the executor, whose result is a choice
here. `LoadForRecord` and `Save` are the two halves of `recordRun`, and
`Approve` and `SetMode` read the memory that `Save` writes. `/ck-mode` without a
recorded run prints the mode as set and stores nothing: `SetUnrecordedMode`
changes what the user asked for (`given.mode`) and no memory. A death is `Die`, or
`DieSaving` when it falls inside the `writeFileSync`: the file is then empty,
which is read as a memory without runs, or `torn`, and every later command that
parses it throws. `given` and `mishaps` are history. A phase that throws leaves
nothing behind, as a death does, and is `Die`.

Left out: texts and files of the report; `currentRun`, which no caller passes;
modes the service accepts although no policy knows them (they get builder's);
two create-run requests at once, which share nothing before they record and
record without an await.

### ClientSessions

`sessionFile` is `~/.ck/session.json`, `login[c]` a login of a process of the
command line; `editor` is the extension's token, session and status bar,
`secret` the token in the secret storage, and `refresh` the questions the poll,
a sign-in and a sign-out wait for. A question carries the token it was sent with
(`sent`) and the answer is about that one. A login while another token is in
the file verifies that one, because the interceptor overwrites the header: that
is `relogin`, and `LoginIsVerified` is stated for the others. The legacy
authentication mode and the views, which list what the service answers, are
left out.

### StepHealing and StepAdapters

`StepAdapters` has one plan in detail where `RunExecution` has adapters as a
choice: `repo` is the working copy with its branches, `remote` the branch at the
remote, `step` the executor's place in the plan with the commands it still has
`todo` in this attempt. A step of a `commit-and-pr` task is one git command or
one call of GitHub; each can fail before it has had its effect or after it (the
answer is lost), and `OthersEdit` and `OthersSwitch` are a person in the same
working copy. `TaskNeedsApproval` is `evaluatePolicy` with the default rules,
which are the ones in force: `config/policy.json` says `restrictions` where the
code reads `rules`.

In `StepHealing`, `healing[h]` is a call of `attemptHealing`: by the executor
after the last attempt of a step, or by the command `heal-step` from another
process. `Rules` and `HealingStrategyList` are the tables of the code.
`healLog` and `healStats` are read and written whole.

What shows in these models beside the properties: the executor's adapter id is
`fs` and the strategies say `file-system`, so no strategy is ever found for a
file step; the message of the terminal's own timeout is not classified as
transient; assist mode waits for consent but nothing applies the repair after
it; the limits on attempts in policy and strategies are never read, so auto mode
repeats on a persistent transient error; a step whose pull request was made but
whose answer was lost fails on every retry with "already exists"; rollback
leaves the commit on the remote, so that a later push is refused.

### ActionBatch

`queue` holds the batches with their status, `tree` the paths that exist,
`rollbackLog` the logs of the runs, one per phase, `command[c]` a process.
`Above` gives each path the directories it lies in, at any depth: an action makes
all of them (`Made`, `mkdirSync` with `recursive`), a directory goes only when
nothing lies in it, and an action that fails may leave a part of what it makes
(`Leaves`); a command may leave any workspace. The
`BatchAssumption` has no path that is used both as a file and as a directory.
`RunAction` is one action with its checks by `assessAction` and mode,
`UndoEntry` one entry of a rollback; `CkApproveBatch`, `CkExecute` and
`CkRollback` are the commands with the context they take from the project
memory. `LogsOf` has the phases whose logs there are; `ReadInOrder` takes them in
the order the code does, which is by file name backwards and not by time
(`rollback-engine.ts:28` says chronological: the run `rollback_order`). `Reversed`
says what a rollback owes an entry: the file is gone, and so is the directory,
unless it still holds something, or held, at its turn, what an entry made that
the rollback only came to later (`UndoneLater`: one before it in its log, or one
of a log with an earlier name).
Left out: contents of files and the artifacts' text.

### ControlService

`instance[i]` is a process: it connects, runs the migrations of its release one
after the other, seeds, serves, and shuts down gracefully or by force; `applied`
is the table `schema_migrations`, `seeded` the inserts of the seed; `request[q]`
goes through `authenticate` and `verifyRevocation`; `revokedUntil` is what Redis
holds. Left out: service accounts (created in a `Map`, looked up in a table, so
that rotation always answers 404) and the checks of execution tokens, which are
pure.

### The automation services

`ServiceClock` has the time, the metrics (an input) and the callers.
`HealingStrategies` keeps since when a condition has held and which actions a
caller has done; `RollbackAutomation` the history the limits are checked
against; `AlertAcknowledgment` the pending alerts. `AutomationOrchestrator` has
the timers and the cycle of each caller: a timer fires whether or not its last
cycle has ended. The default strategies give 30 or 60 as timeouts in
milliseconds, where the comments speak of seconds, so these actions always fail
and are rolled back; the instance has such an action, and one that succeeds.

### GateEvents and GateDecisions

`GateEvents` is about `state.json`: a handler loads the run, awaits the audit
trail and writes back what it loaded with its change; `state` is the file,
`worker` what is in flight, `granted` and `lone` are history. `GateDecisions` is
about the table `gates`: an evaluation records one decision after the other,
while reviewers override (`OverrideGateDecision`) or reject (`RejectGate`,
`RejectUpdates`). The reject handler reads, decides, and writes in two queries,
and answers 200 also when the gate was settled in between. Nothing in `src/`
dispatches the events: `Dispatch` assumes that an approval event is about a gate
the engine approved.

### Governance, Learning and the rules

`Governance` has for each process (`governor[p]`) where `runGovernedAutonomy`
is, and the files a person answers with (`signals`); `FinalDecision`,
`EvaluateConstraints`, `Confident` and `KillSwitch` are operators. `Learning`
has the learning store, which the executor adds the outcome of a run to, and the
learning state, which `/ck-outcome` moves; both are read, changed and written
whole, and a death while writing leaves a `Broken` file. `GovernanceGates`,
`TestVerification` and `Planning` are functions of their input: the nine gates
over a context, a test suite with its timeout (`Seconds` counts what its tests
take in turn), and the plan and the skills of an idea. An idea is the words in it
that some pattern looks for, and whether it is blank; an idea with none of them
is a web app to the planner and of no type to intake and selector. The plan
quotes the idea (`planner.ts:254-261`), so each word of the idea counts for a
skill twice, once in the objective and once in the plan; `PlanWords` and
`AskedWords` are the words the code adds of its own, in one mode. `Rules` turns
these functions, and the consensus, into a specification whose initial states are the questions: a
`part` and its `subject`, from sets that are constants, so that what TLC checks
of the inputs of an instance is a theorem about all inputs.

## Runs

| Run | Instance | Shows |
|---|---|---|
| `serial` | 3 steps, {0, 2} need approval, {0, 1} reversible; every request, one at a time; healing; 2 approvals | every risky success is covered by an approval of its own, although approve-gate writes an old state back; `adapters.json` agrees with the world between requests |
| `in_order` | the same plan; approvals by both routes, requests that follow the checkpoint, rejections; crashes, rejecting adapters, repairs; 3 approvals | no step succeeds twice; completed means done; the run implements `RunLifecycle` |
| `concurrent` | 2 steps, both risky, 2 attempts; 2 overlapping requests (the phase engine, approve-gate, retry); crashes, healing that verifies repairs, asks for consent or fails; 1 approval; weak fairness | no request carries out two risky steps; nothing risky before an approval; every accepted request is answered or dies with the process, unless it is repaired again and again |
| `records` | five parts: 4 updates of one file, crashes anywhere; two processes, one run, 5 events, crashes; 2 emitters, 2 organisations, 4 transactions, failures, fairness; 2 learners and 10 outcomes, or 3 cycles | nothing older than the updates in flight comes back, and an update that overlaps none is what the file ends with; the log of a run stays a chain, which the stream holds unless a process died, and while calls do not overlap the stream's own events follow the line before them; a fork needs an overlap, emits that do not overlap leave a chain, every emit returns, and a failed one never keeps the lock; what was learnt to be careful about stays |
| `pipeline` | 2 invocations, 3 commands; two ideas, modes turbo, expert and the default; 2 kinds of approval, deaths also while saving. On its own: 2 logins, 2 tokens, the extension, 4 acts of the user, fairness | building only past the gates; a stricter mode is stricter; approvals last from run to run, and modes but for those `/ck-mode` could not keep; a fresh login is a verified one; the status bar comes to show the token in place |
| `automation` | 2 cycles at once, 2 timers, 1 alert, 4 instants; 2 healing and 3 rollback strategies, 2 acknowledgment rules | what had succeeded is undone; rollbacks are rationed up to the overlap; a strategy is selected only for what has persisted; an alert is acknowledged only after its wait |
| `services` | four parts: 2 commands on batches of 2 phases, with a directory in a directory; 2 instances of 2 releases; a run of 3 plans with another user; the same with `heal-step` | the queue's status tells the truth; a rollback alone leaves no file a log lists and no directory without a reason; an instance listens only once its own schema is complete; a revoked session is refused; healings are accounted for; success is published; rollback restores the branch |
| `governance` | 2 events in flight, 4 served, 3 rules, 2 facts about the run; 2 runs in 3 modes, 2 gates, 2 reviewers; 2 processes wait for a person; votes, contexts, suites and ideas, of a type or of none, enumerated as initial states | an event handled alone is not lost; a gate is approved only behind its dependencies; a rejection that nothing overlaps holds; autonomy needs consent, of the agents or of a person; the rules are monotone; every plan and its skills fit together |

Modules that share no state are parts of one run (`part`): the properties of a
run are about one part each and the others leave its variables alone.

Four runs end in a counterexample, a disagreement between the code and its
documents or comments:

* `gate_approval_rewinds` (1 request at a time): the approve-gate handler, which
  writes the state it loaded before the execution, moves the checkpoint back,
  where the life cycle's specification says only a rollback does
  (`SPEC_RUN_LIFECYCLE.md:226`);
* `cancelled_run_resumes` (1 step, 1 request): a rejected run is resumed and
  executes, where terminal states are final (`SPEC_RUN_LIFECYCLE.md:225`);
* `healing_runs_out` (1 step, 1 request, fairness): a repair that is verified grants
  another attempt every time, and a request that is repaired for ever is never
  answered, where `healing-policy.json` and `SEQUENCE_DIAGRAMS.md:452-464` limit
  the healings of a step;
* `rollback_order` (1 command, 2 batches): the logs of a run are undone in the
  order of their names and not backwards in time, so that a directory made in
  the phase qa stays behind, empty, when a later batch of deploy wrote into it.

More that the models show, without a run of their own:

* two overlapping resumes execute one step twice; a resume executes a failed
  run; a resume that approves nothing goes past a pause for healing; retrying a
  step beyond the checkpoint moves the checkpoint over the steps between;
* a crash during the asynchronous copy of an update leaves an empty file;
* `appendAuditEvent` puts lines in the stream that are linked to the run's log
  and not to the line before; two emits of an organisation that overlap can fork
  its chain, since `NOW()` is fixed before the lock is granted; two processes
  can lose an event of a run's log;
* every `/ck-run` starts again at the intake, so that expert mode never leaves
  it and `/ck-build` never builds; `/ck-mode` prints as set a mode that the next run
  does not use, when no run was recorded before (`apps/cli/src/index.ts:219-225`) or
  the mode is balanced, which the memory does not know;
  approvals given for one idea count for the next one; an approval given while
  a run is under way is lost when the run is recorded; god mode, whose gates the
  specification calls effectively bypassed
  (`docs/03_specs/SPEC_PHASE_ENGINE.md:242`), still waits when the category is
  unknown or only the fallback skill was found; a failed execution is reported
  as awaiting approval;
* a batch can be approved and executed twice; it is marked executed even when
  actions were blocked; a second batch of a phase replaces the rollback log of
  the first;
* a person's answer overrides the kill switch, also when constraints are
  violated; a broken learning store blocks every later run, since the function
  that would reset it has no caller; suites that time out are approved under
  `warn` and `log` while suites that complete with failures are refused;
  production needs no approval in god mode although `launch-gate.ts:13` says it
  always does; a failed recording gives a gate a second result, and evaluation
  goes on past a blocked gate.

Bounds. Three steps are enough for a first, a middle and a last step, with a
risky step at each end and a reversible, harmless one between; the concurrent
run keeps two, a step before and a step behind the checkpoint, with two attempts
each, so that the attempt loop repeats, by itself and by a repair. Two requests show
every pairwise interleaving; the proofs cover more. `AttemptLimits` {0, 1, 2}
holds no attempt (a hand-written plan), a single one, and a retry; the optimizer
only suggests 1 or 2. `MaxApprovals` (2 or 3; 1 in the concurrent run) lets every risky step be
approved once and one approval be left over. The success counters stop at 2, because the
properties only tell 0, 1 and more apart. Four updates let two overlap while a
third comes and one is made after they are done. Five events let two processes
overlap, and write again after a crash; four transactions of two emitters are
what a fork needs (an older one that waits, a newer one, and the one linked to
it), and one more. In `pipeline` three commands are a run, an approval or a change
of mode, and the run that should notice; two invocations overlap them. A web app
has questions enough for the modes to differ on it, and a blank idea is blocked
by a gate. `StricterModeIsStricter` compares all modes from turbo to safe in
every state at the gates, whatever mode the run is in; the theorem says it of
every idea and every choice of skills. `MaxClientActs` 4 is a sign-in, a
sign-out, a sign-in and an expiry.

In `automation` a period of the loop is the unit of time; `Hour` 3 and
`MaxTime` 3 let the limit of an hour be reached and forgotten, two callers and
two timers are what makes cycles overlap. In `governance` a chain of three gates
has a middle; `MaxServed` 4 is the approval of two gates with an event for each.
In `services`, the batches make `a/b` in a directory that no log lists, and files
at both depths, in two phases; `MaxChangedFiles` 1 stands for the 25 of
`validateDiff`, with two files that can be changed; `MaxExecutions` 3 is a first execution, one that
follows an approval, and a retry; `Ttl` 2 in `MaxTime` 4 lets a revocation
expire and another be made; `Statements` 2 stands for the inserts of the seed.
For the learning stores, ten outcomes are the fewest at which an adapter is held back by a
failure seen three times at a reliability above the limit (seven successes and
three failures are 0.76); three cycles with two overlaps lose an update and
notice.

Restrictions that matter. `RecordedSuccessIsInPlace` is checked without crashes
and rejecting adapters: with them it fails by nature of the code, since nothing
reconciles the files with the world after a restart. `CompletedMeansDone` is
checked without arbitrary retries, and `SucceedsAtMostOnce` with serialised
requests: otherwise the code violates what its documents say, see above.
`ApprovalsAreKept` and `RememberedModeIsKept` ask that no two commands
overlapped, that none died inside the write, and that the service recorded no
run of its own (it starts without approvals and with its own mode);
`RememberedModeIsKept` also that no command died. What is used in place of a mode
that could not be kept is builder, never an older mode. `EventsFollowStream` and
`TrailIsChain` are conditional on calls that do not overlap, and
`StreamCoversRunLogs` on no death between the two writes. `SuccessIsPublished`
excludes that somebody switched the branch between two commands of the step, and
`RollbackRestoresBranch` is about steps that committed while nobody else used
the working copy: rollback drops the last commit, whoever made it.
`LoneRollbackCleans`, `LoneRejectionHolds` and `EventsAreKept` are about calls
that overlapped with no other. In each case a history variable tells, and the
instances contain both cases.

Fairness. `FairSpec` of `RunExecution` assumes weak fairness of the steps of each
request in flight: the adapters, the event bus and healing answer eventually,
and the event loop of Node.js runs every continuation that is ready. Nobody is
assumed to send requests. `AuditTable` assumes that Postgres answers the queries
of a transaction and grants its lock in the order it was asked for (strong
fairness of `Lock`). `ClientFairness` assumes that `setInterval` goes on polling,
that a question ends (both have a timeout of two seconds) and that the secret
storage answers; not that a user does anything. The automation loop has no
liveness property: an action may take as long as it likes.

## Proofs

Every safety property that a passing run checks is a theorem too, for every value
of the constants; so is the refinement of `RunLifecycle`. The only assumptions are
the named `ASSUME`s of the modules: types of the constants, and what the code
fixes about them (each comment says why). The proof modules say nothing about
small instances, bounds or fairness; where a bound stands in a guard, the
theorem holds for any bound.

Few of the properties are inductive. Each needs an invariant that speaks of what
is *in flight*: of the copy a request holds, the text a write has yet to put,
the log a process will save. The invariants share three patterns:

* *every copy is as good as the original*, since any of them may be written
  over it later (`StateSound`, `Sound`, `LogsInHandChained`, `StateKnown`,
  `StoreSound`);
* *what is in hand agrees with what is on file while nobody interfered*, with a
  history variable that says whether somebody did (`InOrder`, `HandedOn`,
  `CallSound`, `AloneIsAlone`, `Careful`);
* *an account*: what was given, less what was used, is what the copies are
  worth (`Account`, `Rationed`, `Balanced`).

Each proof has a lemma per kind of change, a lemma that says what an action must
show, and one case per action.

### RunExecution_proofs

For every plan, set of requests and environment, by the invariant `IInv`:
`TypeCorrect` (`TypeOK`), `OneRiskyStep` (`OneRiskyStepPerRequest`),
`ApprovalFirst` (`NoRiskyStepBeforeApproval`), `WaitingPointsAtStep`
(`WaitingRunPointsAtStep`). `TypeOK` is not inductive: the counter of attempts
stays a natural number only because an attempt starts with one left, and the
checkpoint stays in the plan only because a request inside `executeTask` is at a
step. `StateSound` says of a copy that it asks for approval at a step only and is
approved only if an approval was given; `RequestSound` says it of both copies a
request holds, that a request past the gate of a risky step is approved in
memory, and that it no longer is once it has carried out such a step.

For serialised requests, `ApprovalsCover` (`ApprovalsCoverRiskySteps`): an
approved copy of the state is worth one approval, and `consumed` plus the worth
of a copy that may still be written never exceeds `approvals` (`Account`). The
delicate copy is the one the approve-gate handler loaded before it approved: it
may be approved itself, and is written after the approval given since has been
spent. While that request runs, the copy is covered by the approval it has just
added, or by its use (`req[p].used`).

For serialised requests that follow the checkpoint (`RunsInOrder`: no approve-gate,
no arbitrary retry, no rollback; crashes and rejecting adapters are allowed):

* `ImplementsRunLifecycle`: the run implements `RunLifecycle`, every step a step
  of it or a stutter;
* `SucceedsOnce` (`SucceedsAtMostOnce`), `CompletedIsDone` (`CompletedMeansDone`),
  `CheckpointAdvances` (`IndexNeverRegresses`, the one the run
  `gate_approval_rewinds` refutes when approve-gate is allowed).

`InOrder` says that the request in flight holds exactly the state on file and is
at its checkpoint, and `Progress` that every step before the checkpoint has
succeeded once and is in place, and none behind it. For serialised requests
without crashes and rejecting adapters (`RunsUndisturbed`), `SuccessIsInPlace`
(`RecordedSuccessIsInPlace`): a recorded success is in place except while a
rollback has undone it and not yet said so, and what a request holds of
`adapters.json` is what is on file (`InPlace`).

### Persistence_proofs

* `StateMirror`, any number of updates and crashes anywhere: `MirrorTypeCorrect`,
  `RecentFile`, `LoneUpdate`. Every put in flight belongs to the last update or
  to `overlap`, which makes whatever it writes recent; a lone update's put and
  its synchronous write leave the same text.
* `AuditTable`, any emitters, organisations and failures: `LinksLeadHome` (links
  stay in an organisation), `ForksOverlap`, `TrailIsAChain` (`TrailIsChain`).
  While an emitter holds the lock nobody inserts, so the newest row it read is
  still the newest (`ReadIsCurrent`), and rows linked to it can only have been
  inserted before, by a transaction older than the row. A transaction that
  nobody overlapped is later than every row (`Alone`).
* `Learning`, any processes, adapters, agents and outcomes: `LearningStaysCautious`
  (`CautionIsKept`). That an adapter which failed three times in one way needs
  approval holds in *every* copy of the store (`StoreSound`): the counter of a
  pattern is never less than the failures it counts, and a repeated pattern has
  its overlay. Without overlaps, the copy a process has yet to write is at least
  as careful as the file it will replace (`Careful`), whoever dies.

### AuditStream_proofs

For any processes and runs: `AuditTypeCorrect`; `RunLogsChained` (the log a
process holds is a chain too, since it may be saved over any other);
`StreamIsComplete` (`StreamCoversRunLogs`: an event that is in a log and not in
the stream is the last of a log some process is about to record, unless one
died, `CoverInv`); `StreamIsLinked` (`EventsFollowStream`: a process that is
alone and about to append has read the hash of the last line, `LinkedLines`).

### Pipeline_proofs

For any invocations, ideas, modes and approvals, and deaths anywhere:
`PipelineTypeCorrect`, `PipelineInOrder`, `PipelinePastGates`, `PipelineStricter`.
Every report is `Sound`: in order, its approvals given by somebody, its gates
passed if it is past them. Approvals reach a report through the memory and the
copies of it that commands are about to save, so the invariant bounds those too.
`PipelineStricter` rests on `GateMonotone` (the questions each mode has cut off,
against its thresholds, for any number of questions, tasks and skills) and
`OverallMonotone`. `PipelineKeepsMode` (`RememberedModeIsKept`) and
`PipelineKeepsApprovals` (the action property `ApprovalsAreKept`) need `HandedOn`:
while commands do not overlap, the one in flight carries the approvals of the
memory and a mode that `Fits`, as its report until it is recorded and as
the memory it is about to save after that: the mode last asked for, or builder
if `/ck-mode` or the record could not keep that one (`Keepable`).

### Services_proofs

* `LoginVerified`, any processes and tokens: a login under way was sent with the
  token it is about, unless it is one that `relogin` tells of.
* `RevokedStaysOut`, any instances, actors and requests: what an answer promised
  is never more than what Redis holds, a revocation never shortens another one
  because each is set for the whole `Ttl` from now, and a request passes only
  when Redis could be asked and the revocation is over.
* `SchemaIsComplete` (`ListensOnItsSchema`), any instances, and releases that
  extend one another: what was applied is a start of some release, and what an
  instance does not take for pending was applied before (`SchemaInv`).
* `QueueIsTrue` (`QueueTellsTheTruth`), any batches and commands that run together,
  twice or die: a command that may run what wants approval runs a queued batch
  that is not pending any more, and one that has run it has written its log.
* `RollbackReverses` (`LoneRollbackCleans`), any nesting of directories: a rollback
  that no command overlaps has come down to some entry of some log (`Progress`),
  what is behind it is `Reversed`, and what is ahead is still to be read. An entry
  once reversed stays so (`ReversedStays`): undoing makes no path, and whatever a
  directory held when it was passed over is either there still or undone later.

### Gates_proofs

* `EventsStayKept`, `DependenciesComeFirst`, any gates, rules and workers: every
  copy that may be written knows of its alerts and contains the lone events, and
  a writer that is alone has what is on file.
* `RejectionHolds`, any runs, gates and reviewers: the row a review has found or
  made is the newest on its gate until somebody disturbs it (`ReviewStands`).
* `ConsentIsNeeded` (`AutonomyNeedsConsent`), any votes, batches, policies and
  ideas: the work is in the numbers (`ConsentOfAgents`). What no person let through
  was approved by the agents at low risk and passed the kill switch, which wants
  the policy kept and a confidence at the threshold; a batch that shares no word
  with the idea has at most 0.65, whatever the agents say.
* The rules: `ConsensusIsMonotone` for any votes, `SafeIsStrictest` for any context
  of the gates, and with them `RulesStayMonotone` (`RulesAreMonotone`), which adds
  that tests which run together are late only if they are late in turn.
  `PlansAreSound` (`EveryPlanHangsTogether`), any idea and registry of skills: where
  intake knows the type, the three classifications agree; where it does not, the
  words the planner still looks for are few (`MatchesNowhere`: the others would
  have told intake), so that it guesses a web app, or an agent from assistant and
  copilot (`PlannerGuesses`), and the selector knows nothing. The plan is ordered
  in each category, and the skills with fewer than `MaxSkills` before them are
  the best.

### Steps_proofs

For any plan, files, messages, limit on staged files and number of healers:

* `PublishedOnSuccess` (`SuccessIsPublished`): how far the attempt under way has
  carried what the step found changed is a function of the commands it still has
  to do (`Carried`), and what it has not carried yet is still changed or in the
  branch, through failed attempts, lost answers and edits;
* `RollbackIsExact` (`RollbackRestoresBranch`): a step that committed has put one
  commit on what it found, and no attempt after it can add another, because
  nothing is left to stage (`Undoable`);
* `HealingsAddUp` (`HealingsAreAccounted`): the counter of repairs lies between the
  healings the log tells of as repaired and those with the ones still planned,
  each healing under way being worth at most one (`HealInv`).

### Automation_proofs

For any strategies, readings and number of cycles that overlap: `HealingIsUndone`
(`RollbackUndoesSuccesses`), `RollbacksStayRationed` (`RollbacksAreRationed`: the
rollbacks of the last hour and those in flight together are fewer than the limit
and the callers, and every two of a strategy are apart unless they overlapped),
`SelectionIsEarned` (the action property `SelectedHasPersisted`: a tracker was not
set before the condition was last seen unmet), `AcknowledgmentsWait` (the action
property `AcknowledgedAfterWait`).

### Model-checked only

* Liveness (`RequestsAreAnswered`, `EmitReturns`, `StatusSettles`): it rests on
  fairness, hence on ENABLED, which the prover does not handle.
* `RequestsAreAnswered` says that a request is answered *or* is repaired again and
  again: a verified repair is the one branch that stays in the attempt loop, and
  `healing_runs_out` shows that nothing limits it.
* What the four runs refute that end in a counterexample. `RollbackIsChronological`
  and the others are about the code's documents and not promises of the code.
* The mapping of `MCRunExecution` to `RunLifecycle` without `RunsInOrder`: it does
  not hold (approve-gate moves the checkpoint back).

Three definitions were chosen so that they can be reasoned about: the order in
which a set is gone through (strategies of one priority, skills, files) is a
rank or any order its priorities allow; a list that is added up is a set that is
counted (the failures of an adapter, the seconds of a suite, the repairs of a
log); and the first that applies is the least index that does.

## Not modelled, and why

* Prompts (`packages/prompt-system`): imported by nothing, and its registry says
  `id` and `active_version` where the code reads `promptId` and `activeVersion`,
  so that every build throws.
* Web pages: they show mock data, or fetch once; the panel of a run in the
  extension, which may show answers out of order, keeps nothing.
* Postgres run store, `alert-rules.ts`, the rate limiter: no caller in the paths
  that execute a run, or one counter behind a library.
* Realtime events: fire and forget, nothing waits for them.
* Validators, previews of differences, traces, reports, interactive prompts:
  pure functions or texts.
* Service accounts: two stores that never meet (see `ControlService`).
* Signatures, tokens and provenance: cryptography; a token is accepted or not.
* Generated skills and reading the registry of skills; release scripts;
  deployment files.

## What is left

In this order: an abstract store that `StateMirror` and `Learning` implement while
writers do not overlap (what is read is what was written last), as `RunExecution`
implements `RunLifecycle`; the life cycle of a batch (pending, approved, executed)
as an abstract specification of `ActionBatch`, and of a gate's decisions for
`GateDecisions`; the queue and the runner composed with `Pipeline`, whose memory
gives them their context.
