---------------------------- MODULE RunExecution ----------------------------
(***************************************************************************)
(* One run of the orchestrator: its persisted bundle, and the requests     *)
(* (HTTP handlers, CLI commands, the phase engine) that execute, approve,  *)
(* retry, roll back and reject it.                                         *)
(*                                                                         *)
(* Every request loads the bundle into memory, works on that private copy  *)
(* and writes the whole state back; nothing locks a run.  The program is   *)
(* single threaded, so an action of this module is what happens between    *)
(* two awaits: requests interleave exactly where the code awaits an        *)
(* adapter.  State and adapter summaries are rewritten from the            *)
(* request's copy, as updateRunState and updateAdapters do.                *)
(*                                                                         *)
(* Abstracted: execution-log.json (the executor only appends to it; its    *)
(* last entry is the default target of a rollback, which here may be any   *)
(* step), summaries, pause reasons, audit events, times and tenants.       *)
(***************************************************************************)
EXTENDS Naturals

CONSTANTS
  NumSteps,       \* plan.tasks.length
  NeedsApproval,  \* steps for which executeTask computes requiresApproval
  Rollbackable,   \* steps with a rollbackPayload and an adapter.rollback
  AttemptLimits,  \* values maxAttempts can have: the plan's or the optimizer's
  Requests,       \* identities of the requests that may be in flight
  Ops,            \* the operations this environment uses
  Env,            \* what the environment may do besides answering
  Serial,         \* TRUE when callers serialise the requests on a run
  MaxApprovals    \* bound: approvals the operators give

Steps == 0 .. NumSteps - 1

RunStatus == {"planned", "running", "paused", "completed", "failed", "cancelled"}
OpNames == {"building", "resume", "approve", "approve-gate", "retry",
            "retry-current", "rollback", "reject"}
EnvNames == {"throw", "crash", "healed", "healing-approval"}

ASSUME RunExecutionAssumption ==
  /\ NumSteps \in Nat
  /\ NeedsApproval \subseteq Steps
  /\ Rollbackable \subseteq Steps
  /\ AttemptLimits \subseteq Nat
  /\ Ops \subseteq OpNames
  /\ Env \subseteq EnvNames
  /\ Serial \in BOOLEAN
  /\ MaxApprovals \in Nat

VARIABLES
  stateFile,     \* state.json of the run
  adaptersFile,  \* adapters.json: last recorded outcome of every step
  effect,        \* the world: is the artifact of a step in place?
  req,           \* the requests: program counter and in-memory bundle
  approvals,     \* history: approvals given so far
  consumed,      \* history: successes of steps that need an approval
  successes      \* history: successes recorded per step (2 stands for more)

vars == <<stateFile, adaptersFile, effect, req,
          approvals, consumed, successes>>
history == <<approvals, consumed, successes>>

RunState == [status : RunStatus, index : 0 .. NumSteps,
             approved : BOOLEAN, approvalRequired : BOOLEAN]
Summary == {"none", "success", "failed", "rolled-back"}
PC == {"idle", "emit", "loop", "simulate", "validate", "execute", "verify",
       "heal", "rollback", "undone", "reply"}

Request == [pc : PC, op : OpNames \cup {"none"}, mem : RunState,
            sums : [Steps -> Summary], snap : RunState,
            at : 0 .. NumSteps, left : Nat, used : Nat]

Planned(a) == [status |-> "planned", index |-> 0, approved |-> a, approvalRequired |-> FALSE]
NoSummaries == [s \in Steps |-> "none"]

Idle == [pc |-> "idle", op |-> "none", mem |-> Planned(FALSE),
         sums |-> NoSummaries, snap |-> Planned(FALSE),
         at |-> 0, left |-> 0, used |-> 0]

(* The plan is created with the run; a building gate approved beforehand   *)
(* starts it approved.                                                     *)
Init ==
  /\ approvals \in {0, 1}
  /\ stateFile = Planned(approvals > 0)
  /\ adaptersFile = NoSummaries
  /\ effect = [s \in Steps |-> FALSE]
  /\ req = [p \in Requests |-> Idle]
  /\ consumed = 0
  /\ successes = [s \in Steps |-> 0]

-----------------------------------------------------------------------------
(* Vocabulary of the handlers.                                             *)

AllIdle == \A q \in Requests : req[q].pc = "idle"

MayStart(p, op) ==
  /\ op \in Ops
  /\ req[p].pc = "idle"
  /\ Serial => AllIdle

Loaded(op) == [Idle EXCEPT !.op = op, !.mem = stateFile, !.sums = adaptersFile]

Set(p, r) == req' = [req EXCEPT ![p] = r]

(* What is left of a request when its executor returns: the approve-gate   *)
(* handler still holds the state it loaded before it approved.             *)
Finished(r) ==
  IF r.op = "approve-gate"
  THEN [Idle EXCEPT !.pc = "reply", !.op = r.op, !.snap = r.snap]
  ELSE Idle

(* Mutants of the state writes: an approval survives the success of its    *)
(* step; a failure moves the checkpoint past the step; a pause does.       *)
AdvancedKeepsApproval(st, s) == [st EXCEPT !.index = s + 1, !.approvalRequired = FALSE]
PausedMovesOn(st, s) == [st EXCEPT !.status = "paused", !.index = s + 1, !.approvalRequired = TRUE]
FailedMovesOn(st, s) == [st EXCEPT !.status = "failed", !.index = s + 1]

(* The writes of markState and of the approval and success paths.          *)
Begun(st) == [st EXCEPT !.status = IF @ = "planned" THEN "running" ELSE @]
Approved(st) == [st EXCEPT !.approved = TRUE, !.approvalRequired = FALSE]
Failed(st, s) == [st EXCEPT !.status = "failed", !.index = s]
Paused(st, s) == [st EXCEPT !.status = "paused", !.index = s, !.approvalRequired = TRUE]
Advanced(st, s) == [st EXCEPT !.index = s + 1, !.approved = FALSE, !.approvalRequired = FALSE]
Completed(st) == [st EXCEPT !.status = "completed", !.index = NumSteps, !.approvalRequired = FALSE]

(* A step that fails outside the attempt loop, or after it.                *)
FailTask(p, r) ==
  /\ adaptersFile' = [r.sums EXCEPT ![r.at] = "failed"]
  /\ stateFile' = Failed(r.mem, r.at)
  /\ Set(p, Finished(r))

(* executeTask up to its first await.  `saved' is the state its caller has *)
(* just written.  A step the policy blocks, or without adapter, fails.     *)
EnterTask(p, r, saved) ==
  \/ /\ Set(p, [r EXCEPT !.pc = "simulate"])
     /\ stateFile' = saved
     /\ UNCHANGED adaptersFile
  \/ FailTask(p, r)

-----------------------------------------------------------------------------
(* Requests that drive the run.                                            *)

(* Mutant: the loop starts at the first step instead of the checkpoint.    *)
ResumeFromStart(p, r, st) ==
  /\ IF st.status = "completed"
     THEN /\ stateFile' = st
          /\ Set(p, Finished(r))
     ELSE /\ stateFile' = Begun(st)
          /\ Set(p, [r EXCEPT !.pc = "loop", !.mem = Begun(st)])
  /\ UNCHANGED <<adaptersFile, effect, consumed, successes>>

(* resumeRun: loads, optionally approves, and executes unless completed.   *)
ResumeWith(p, r, st) ==
  /\ IF st.status = "completed"
     THEN /\ stateFile' = st
          /\ Set(p, Finished(r))
     ELSE /\ stateFile' = Begun(st)
          /\ Set(p, [r EXCEPT !.pc = "loop", !.mem = Begun(st), !.at = st.index])
  /\ UNCHANGED <<adaptersFile, effect, consumed, successes>>

Resume(p) ==
  /\ MayStart(p, "resume")
  /\ ResumeWith(p, Loaded("resume"), stateFile)
  /\ UNCHANGED approvals

(* ApprovalService.approve, as the auto-approval engine calls it.          *)
Approve(p) ==
  /\ MayStart(p, "approve")
  /\ approvals < MaxApprovals
  /\ ResumeWith(p, Loaded("approve"), Approved(stateFile))
  /\ approvals' = approvals + 1

(* POST /v1/gates/:id/approve: loads its own copy, then approves.          *)
ApproveGate(p) ==
  /\ MayStart(p, "approve-gate")
  /\ approvals < MaxApprovals
  /\ ResumeWith(p, [Loaded("approve-gate") EXCEPT !.snap = stateFile], Approved(stateFile))
  /\ approvals' = approvals + 1

(* ... and, once the execution it triggered has returned, writes that copy.*)
ApproveGateReply(p) ==
  /\ req[p].pc = "reply"
  /\ stateFile' = req[p].snap
  /\ Set(p, Idle)
  /\ UNCHANGED <<adaptersFile, effect, history>>

(* The building phase loads the bundle, awaits the publication of          *)
(* execution.started, and executes the copy it loaded.                     *)
Building(p) ==
  /\ MayStart(p, "building")
  /\ Set(p, [Loaded("building") EXCEPT !.pc = "emit"])
  /\ UNCHANGED <<stateFile, adaptersFile, effect, history>>

BuildingExecutes(p) ==
  /\ req[p].pc = "emit"
  /\ LET st == Begun(req[p].mem)
     IN  /\ stateFile' = st
         /\ Set(p, [req[p] EXCEPT !.pc = "loop", !.mem = st, !.at = st.index])
  /\ UNCHANGED <<adaptersFile, effect, history>>

(* retryTask: any step of the plan, whatever the status of the run.        *)
RetryStep(p, op, s) ==
  LET st == [stateFile EXCEPT !.index = s, !.status = "running"]
  IN  /\ EnterTask(p, [Loaded(op) EXCEPT !.mem = st, !.at = s], st)
      /\ UNCHANGED <<effect, history>>

Retry(p, s) == MayStart(p, "retry") /\ RetryStep(p, "retry", s)

RetryCurrent(p) ==
  /\ MayStart(p, "retry-current")
  /\ stateFile.index < NumSteps
  /\ RetryStep(p, "retry-current", stateFile.index)

(* rollbackTask up to its await of adapter.rollback.                       *)
Rollback(p, s) ==
  /\ MayStart(p, "rollback")
  /\ s \in Rollbackable
  /\ Set(p, [Loaded("rollback") EXCEPT !.pc = "rollback", !.at = s])
  /\ UNCHANGED <<stateFile, adaptersFile, effect, history>>

(* ApprovalService.reject loads and saves without awaiting.                *)
Reject ==
  /\ "reject" \in Ops
  /\ Serial => AllIdle
  /\ stateFile' = [stateFile EXCEPT !.status = "cancelled"]
  /\ UNCHANGED <<adaptersFile, effect, req, history>>

-----------------------------------------------------------------------------
(* The executor.                                                           *)

IsRetry(r) == r.op \in {"retry", "retry-current"}

NextTask(p) ==
  /\ req[p].pc = "loop"
  /\ req[p].at < NumSteps
  /\ EnterTask(p, req[p], stateFile)
  /\ UNCHANGED <<effect, history>>

CompleteRun(p) ==
  /\ req[p].pc = "loop"
  /\ req[p].at = NumSteps
  /\ stateFile' = Completed(req[p].mem)
  /\ Set(p, Finished(req[p]))
  /\ UNCHANGED <<adaptersFile, effect, history>>

(* Mutant: the approval gate is not consulted.                             *)
PassWithoutApproval(p) ==
  /\ req[p].pc = "simulate"
  /\ Set(p, [req[p] EXCEPT !.pc = "validate"])
  /\ UNCHANGED <<stateFile, adaptersFile, effect, history>>

(* Simulation and risk are known: the step goes on if it is approved or    *)
(* needs no approval, otherwise the run pauses.                            *)
PassApproval(p) ==
  /\ req[p].pc = "simulate"
  /\ req[p].at \in NeedsApproval => req[p].mem.approved
  /\ Set(p, [req[p] EXCEPT !.pc = "validate"])
  /\ UNCHANGED <<stateFile, adaptersFile, effect, history>>

PauseForApproval(p) ==
  /\ req[p].pc = "simulate"
  /\ req[p].at \in NeedsApproval
  /\ ~ req[p].mem.approved
  /\ stateFile' = Paused(req[p].mem, req[p].at)
  /\ Set(p, Finished(req[p]))
  /\ UNCHANGED <<adaptersFile, effect, history>>

(* The limit of attempts is fixed when the loop is entered; a limit of     *)
(* zero fails the run without an attempt.                                  *)
ValidationPasses(p) ==
  /\ req[p].pc = "validate"
  /\ \E limit \in AttemptLimits :
       \/ /\ limit > 0
          /\ Set(p, [req[p] EXCEPT !.pc = "execute", !.left = limit])
          /\ UNCHANGED stateFile
       \/ /\ limit = 0
          /\ Set(p, Finished(req[p]))
          /\ stateFile' = Failed(req[p].mem, req[p].at)
  /\ UNCHANGED <<adaptersFile, effect, history>>

ValidationFails(p) ==
  /\ req[p].pc = "validate"
  /\ FailTask(p, req[p])
  /\ UNCHANGED <<effect, history>>

(* Mutant: a failed attempt does not count.                                *)
AttemptNotCounted(p) ==
  /\ Set(p, [req[p] EXCEPT !.pc = IF req[p].left > 0 THEN "execute" ELSE "heal"])
  /\ UNCHANGED <<stateFile, adaptersFile, history>>

(* An attempt that throws: the next one follows, or, after the last one,   *)
(* healing is consulted.                                                   *)
AttemptFails(p) ==
  /\ Set(p, [req[p] EXCEPT !.left = @ - 1,
                           !.pc = IF req[p].left > 1 THEN "execute" ELSE "heal"])
  /\ UNCHANGED <<stateFile, adaptersFile, history>>

ExecuteSucceeds(p) ==
  /\ req[p].pc = "execute"
  /\ effect' = [effect EXCEPT ![req[p].at] = TRUE]
  /\ Set(p, [req[p] EXCEPT !.pc = "verify"])
  /\ UNCHANGED <<stateFile, adaptersFile, history>>

(* A failed execution may have changed the world before it failed.         *)
ExecuteFails(p) ==
  /\ req[p].pc = "execute"
  /\ AttemptFails(p)
  /\ effect' \in {effect, [effect EXCEPT ![req[p].at] = TRUE]}

VerifyFails(p) ==
  /\ req[p].pc = "verify"
  /\ AttemptFails(p)
  /\ UNCHANGED effect

(* The step is recorded, the run advances and the approval is spent.       *)
StepSucceeds(p) ==
  /\ req[p].pc = "verify"
  /\ LET r == req[p]
         st == Advanced(r.mem, r.at)
         sums == [r.sums EXCEPT ![r.at] = "success"]
         spent == IF r.at \in NeedsApproval THEN 1 ELSE 0
     IN  /\ adaptersFile' = sums
         /\ stateFile' = st
         /\ Set(p, IF IsRetry(r) THEN Finished(r)
                   ELSE [r EXCEPT !.pc = "loop", !.mem = st, !.sums = sums,
                                  !.at = r.at + 1, !.left = 0, !.used = @ + spent])
         /\ consumed' = IF consumed > approvals THEN consumed ELSE consumed + spent
         /\ successes' = [successes EXCEPT ![r.at] = IF @ = 2 THEN 2 ELSE @ + 1]
  /\ UNCHANGED <<effect, approvals>>

(* healFailedStep after the last attempt: a verified repair grants one     *)
(* more attempt, and is consulted again if that one fails too.             *)
HealingVerified(p) ==
  /\ "healed" \in Env
  /\ req[p].pc = "heal"
  /\ Set(p, [req[p] EXCEPT !.pc = "execute", !.left = 1])
  /\ UNCHANGED <<stateFile, adaptersFile, effect, history>>

HealingNeedsApproval(p) ==
  /\ "healing-approval" \in Env
  /\ req[p].pc = "heal"
  /\ stateFile' = Paused(req[p].mem, req[p].at)
  /\ Set(p, Finished(req[p]))
  /\ UNCHANGED <<adaptersFile, effect, history>>

(* Escalated, failed or throwing healing: compensate if the step can be.   *)
HealingGivesUp(p) ==
  /\ req[p].pc = "heal"
  /\ IF req[p].at \in Rollbackable
     THEN /\ Set(p, [req[p] EXCEPT !.pc = "rollback"])
          /\ UNCHANGED <<stateFile, adaptersFile>>
     ELSE FailTask(p, req[p])
  /\ UNCHANGED <<effect, history>>

(* The adapter undoes the step; the continuation runs later.               *)
AdapterRollsBack(p) ==
  /\ req[p].pc = "rollback"
  /\ effect' = [effect EXCEPT ![req[p].at] = FALSE]
  /\ Set(p, [req[p] EXCEPT !.pc = "undone"])
  /\ UNCHANGED <<stateFile, adaptersFile, history>>

AutoRollbackDone(p) ==
  /\ req[p].pc = "undone"
  /\ req[p].op # "rollback"
  /\ FailTask(p, req[p])
  /\ UNCHANGED <<effect, history>>

(* Mutant: a rollback leaves the summary of the step as it was.            *)
RollbackUnrecorded(p) ==
  /\ req[p].pc = "undone"
  /\ req[p].op = "rollback"
  /\ stateFile' = [req[p].mem EXCEPT !.index = IF @ > 0 THEN @ - 1 ELSE @]
  /\ Set(p, Idle)
  /\ UNCHANGED <<adaptersFile, effect, history>>

(* rollbackTask after the adapter has answered.                            *)
ManualRollbackDone(p) ==
  /\ req[p].pc = "undone"
  /\ req[p].op = "rollback"
  /\ adaptersFile' = [req[p].sums EXCEPT ![req[p].at] = "rolled-back"]
  /\ stateFile' = [req[p].mem EXCEPT !.index = IF @ > 0 THEN @ - 1 ELSE @]
  /\ Set(p, Idle)
  /\ UNCHANGED <<effect, history>>

(* An adapter promise that rejects where the engine does not catch it: the *)
(* request answers 500 and nothing more is written.  A rollback may have   *)
(* taken place before it rejects.                                          *)
AdapterThrows(p) ==
  /\ "throw" \in Env
  /\ req[p].pc \in {"simulate", "validate", "rollback"}
  /\ Set(p, Idle)
  /\ IF req[p].pc = "rollback"
     THEN effect' \in {effect, [effect EXCEPT ![req[p].at] = FALSE]}
     ELSE UNCHANGED effect
  /\ UNCHANGED <<stateFile, adaptersFile, history>>

(* The process dies and restarts: the files remain, the requests do not.   *)
Crash ==
  /\ "crash" \in Env
  /\ ~ AllIdle
  /\ req' = [p \in Requests |-> Idle]
  /\ UNCHANGED <<stateFile, adaptersFile, effect, history>>

-----------------------------------------------------------------------------

(* Steps of a request in flight: an adapter or the event bus has answered. *)
Continue(p) ==
  \/ ApproveGateReply(p) \/ BuildingExecutes(p)
  \/ NextTask(p) \/ CompleteRun(p)
  \/ PassApproval(p) \/ PauseForApproval(p)
  \/ ValidationPasses(p) \/ ValidationFails(p)
  \/ ExecuteSucceeds(p) \/ ExecuteFails(p)
  \/ VerifyFails(p) \/ StepSucceeds(p)
  \/ HealingVerified(p) \/ HealingNeedsApproval(p) \/ HealingGivesUp(p)
  \/ AdapterRollsBack(p) \/ AutoRollbackDone(p) \/ ManualRollbackDone(p)
  \/ AdapterThrows(p)

(* Requests that arrive.                                                   *)
Arrive(p) ==
  \/ Resume(p) \/ Approve(p) \/ ApproveGate(p) \/ Building(p) \/ RetryCurrent(p)
  \/ \E s \in Steps : Retry(p, s) \/ Rollback(p, s)

Next ==
  \/ \E p \in Requests : Arrive(p) \/ Continue(p)
  \/ Reject
  \/ Crash

Spec == Init /\ [][Next]_vars

(* Adapters, the event bus and healing answer; nobody has to send requests.*)
Fairness == \A p \in Requests : WF_vars(Continue(p))
FairSpec == Spec /\ Fairness

-----------------------------------------------------------------------------
(* Properties.                                                             *)

TypeOK ==
  /\ stateFile \in RunState
  /\ adaptersFile \in [Steps -> Summary]
  /\ effect \in [Steps -> BOOLEAN]
  /\ req \in [Requests -> Request]
  /\ approvals \in Nat
  /\ consumed \in Nat
  /\ successes \in [Steps -> 0 .. 2]

(* executeTask gates on, and a success resets, the approval in the memory  *)
(* of the request: no request carries out two steps that need an approval, *)
(* whatever the other requests write meanwhile.                            *)
OneRiskyStepPerRequest == \A p \in Requests : req[p].used <= 1

(* Without any approval no step that needs one ever succeeds: no stale     *)
(* write, retry, rollback, crash or healing sets approved by itself.       *)
NoRiskyStepBeforeApproval == consumed > 0 => approvals > 0

(* Requests one at a time: every success of a step that needs an approval  *)
(* spends an approval of its own, even though the approve-gate handler     *)
(* writes an old state over the one the execution left.                    *)
ApprovalsCoverRiskySteps == Serial => consumed <= approvals

(* A run listed as awaiting approval (getApprovals reads approvalRequired) *)
(* awaits it for a step that exists, whoever wrote its state last.         *)
WaitingRunPointsAtStep == stateFile.approvalRequired => stateFile.index < NumSteps

(* Between requests, a step that adapters.json records as a success has    *)
(* its artifact in place: compensations are recorded with the undo.        *)
RecordedSuccessIsInPlace ==
  AllIdle => \A s \in Steps : adaptersFile[s] = "success" => effect[s]

(* The loop resumes at the checkpoint: no step succeeds a second time.     *)
SucceedsAtMostOnce == \A s \in Steps : successes[s] <= 1

(* RUN_COMPLETED: every step of the plan has succeeded and is in place.    *)
CompletedMeansDone ==
  stateFile.status = "completed" => \A s \in Steps : successes[s] > 0 /\ effect[s]

(* The checkpoint never moves back.                                        *)
IndexNeverRegresses == [][stateFile'.index >= stateFile.index]_vars

(* A run that was cancelled stays cancelled.                               *)
CancelledIsFinal ==
  [][stateFile.status = "cancelled" => stateFile'.status = "cancelled"]_vars

(* Every request that was accepted is answered, however its steps fail,    *)
(* unless healing verifies repairs in it again and again for ever: that is *)
(* the one branch of the attempt loop that does not lead out of it.        *)
RequestsAreAnswered ==
  \A p \in Requests :
    []<>(req[p].pc = "idle") \/ []<><<HealingVerified(p)>>_vars

(* The healing of a step runs out: no request is repaired for ever.  The   *)
(* documents and healing-policy.json limit the healings of a step, and     *)
(* nothing reads that limit.                                               *)
HealingRunsOut ==
  \A p \in Requests :
    []<>(req[p].pc = "idle") \/ <>[][~ HealingVerified(p)]_vars
=============================================================================
