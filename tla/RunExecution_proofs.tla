------------------------ MODULE RunExecution_proofs ------------------------
(***************************************************************************)
(* Theorems about RunExecution, for every plan, every set of requests and  *)
(* every choice of operations and environment.                             *)
(*                                                                         *)
(* Requests that overlap: type correctness, one risky step per request, no *)
(* risky step before an approval, a waiting run points at a step.          *)
(*                                                                         *)
(* Requests whose callers serialise them:                                  *)
(*                                                                         *)
(* Approvals: every success of a step that needs an approval is covered by *)
(* an approval of its own.  The argument is an account: an approved copy   *)
(* of the state is worth one approval, and whatever copy may still be      *)
(* written is worth no more than the approvals not yet consumed.           *)
(*                                                                         *)
(* Order: while no request goes back to a chosen step, the copy a request  *)
(* holds is the state on disk and exactly the steps before the checkpoint  *)
(* have succeeded; the run implements RunLifecycle.                        *)
(*                                                                         *)
(* Artifacts: while no adapter throws and the process does not die, a step *)
(* recorded as a success has its artifact in place between requests.       *)
(***************************************************************************)
EXTENDS MCRunExecution, TLAPS

(* Program counters of a request inside executeTask, and those behind its  *)
(* approval gate.                                                          *)
InTask == {"simulate", "validate", "execute", "verify", "heal", "rollback", "undone"}
PastGate == {"validate", "execute", "verify", "heal"}

(* Of a copy of the state, on disk or in memory, when n approvals have     *)
(* been given.                                                             *)
StateSound(st, n) ==
  /\ st.approvalRequired => st.index < NumSteps
  /\ st.approved => n > 0

RequestSound(r, n) ==
  /\ r.pc \in InTask => r.at < NumSteps
  /\ r.pc \in {"execute", "verify"} => r.left > 0
  /\ r.used <= 1
  /\ r.mem.approved => r.used = 0
  /\ (r.pc \in PastGate /\ r.at \in NeedsApproval) => r.mem.approved
  /\ StateSound(r.mem, n)
  /\ StateSound(r.snap, n)

(* The inductive invariant.                                                *)
IInv ==
  /\ TypeOK
  /\ StateSound(stateFile, approvals)
  /\ \A p \in Requests : RequestSound(req[p], approvals)
  /\ consumed > 0 => approvals > 0

-----------------------------------------------------------------------------
(* The state writes keep a sound state sound.                              *)

LEMMA BegunSound ==
  ASSUME NEW st \in RunState, NEW n \in Nat, StateSound(st, n)
  PROVE  Begun(st) \in RunState /\ StateSound(Begun(st), n) /\ Begun(st).approved = st.approved
BY DEF Begun, RunState, RunStatus, StateSound

LEMMA ApprovedSound ==
  ASSUME NEW st \in RunState, NEW n \in Nat, n > 0
  PROVE  Approved(st) \in RunState /\ StateSound(Approved(st), n)
BY DEF Approved, RunState, RunStatus, StateSound

LEMMA FailedSound ==
  ASSUME NEW st \in RunState, NEW n \in Nat, StateSound(st, n), NEW s \in 0 .. NumSteps, s < NumSteps
  PROVE  Failed(st, s) \in RunState /\ StateSound(Failed(st, s), n)
BY RunExecutionAssumption DEF Failed, RunState, RunStatus, StateSound

LEMMA PausedSound ==
  ASSUME NEW st \in RunState, NEW n \in Nat, StateSound(st, n), NEW s \in 0 .. NumSteps, s < NumSteps
  PROVE  Paused(st, s) \in RunState /\ StateSound(Paused(st, s), n)
BY RunExecutionAssumption DEF Paused, RunState, RunStatus, StateSound

LEMMA RunStateUpdate ==
  ASSUME NEW st \in RunState, NEW u \in RunStatus, NEW i \in 0 .. NumSteps,
         NEW a \in BOOLEAN, NEW b \in BOOLEAN
  PROVE  /\ [st EXCEPT !.index = i, !.approved = a, !.approvalRequired = b] \in RunState
         /\ [st EXCEPT !.status = u, !.index = i, !.approvalRequired = b] \in RunState
BY DEF RunState

LEMMA AdvancedSound ==
  ASSUME NEW st \in RunState, NEW n \in Nat, NEW s \in 0 .. NumSteps, s < NumSteps
  PROVE  /\ Advanced(st, s) \in RunState
         /\ StateSound(Advanced(st, s), n)
         /\ ~ Advanced(st, s).approved
<1>. DEFINE i == s + 1
<1>1. i \in 0 .. NumSteps /\ FALSE \in BOOLEAN
  BY RunExecutionAssumption
<1>2. Advanced(st, s) = [st EXCEPT !.index = i, !.approved = FALSE, !.approvalRequired = FALSE]
  BY DEF Advanced
<1>. HIDE DEF i
<1>3. "planned" \in RunStatus
  BY DEF RunStatus
<1>4. Advanced(st, s) \in RunState
  BY <1>1, <1>2, <1>3, RunStateUpdate
<1>5. ~ Advanced(st, s).approved /\ ~ Advanced(st, s).approvalRequired
  BY DEF Advanced, RunState
<1>. QED  BY <1>4, <1>5 DEF StateSound

LEMMA CompletedSound ==
  ASSUME NEW st \in RunState, NEW n \in Nat, StateSound(st, n)
  PROVE  /\ Completed(st) \in RunState
         /\ StateSound(Completed(st), n)
         /\ Completed(st).approved = st.approved
<1>1. NumSteps \in 0 .. NumSteps /\ FALSE \in BOOLEAN /\ "completed" \in RunStatus
  BY RunExecutionAssumption DEF RunStatus
<1>2. Completed(st) \in RunState
  BY <1>1, RunStateUpdate DEF Completed
<1>3. Completed(st).approved = st.approved /\ ~ Completed(st).approvalRequired
  BY DEF Completed, RunState
<1>. QED  BY <1>2, <1>3 DEF StateSound

LEMMA IdleSound ==
  ASSUME NEW n \in Nat
  PROVE  /\ Planned(FALSE) \in RunState
         /\ Planned(TRUE) \in RunState
         /\ NoSummaries \in [Steps -> Summary]
         /\ Idle \in Request
         /\ RequestSound(Idle, n)
<1>. /\ 0 \in 0 .. NumSteps
     /\ "planned" \in RunStatus
  BY RunExecutionAssumption DEF RunStatus
<1>1. /\ Planned(FALSE) \in RunState
      /\ Planned(TRUE) \in RunState
      /\ NoSummaries \in [Steps -> Summary]
  BY DEF Planned, RunState, NoSummaries, Summary
<1>2. Idle \in Request
  BY <1>1, RunExecutionAssumption DEF Idle, Request, PC
<1>3. StateSound(Planned(FALSE), n)
  BY DEF StateSound, Planned
<1>4. RequestSound(Idle, n)
  BY <1>3 DEF RequestSound, Idle, InTask, PastGate, Planned
<1>. QED  BY <1>1, <1>2, <1>4

LEMMA FinishedSound ==
  ASSUME NEW n \in Nat, NEW r \in Request, RequestSound(r, n)
  PROVE  Finished(r) \in Request /\ RequestSound(Finished(r), n)
<1>1. Idle \in Request /\ RequestSound(Idle, n)
  BY IdleSound
<1>2. CASE r.op = "approve-gate"
  <2>1. Finished(r) = [Idle EXCEPT !.pc = "reply", !.op = r.op, !.snap = r.snap]
    BY <1>2 DEF Finished
  <2>2. r.op \in OpNames \cup {"none"} /\ r.snap \in RunState
    BY DEF Request
  <2>3. Finished(r) \in Request
    BY <1>1, <2>1, <2>2 DEF Request, PC
  <2>4. RequestSound(Finished(r), n)
    BY <1>1, <2>1 DEF RequestSound, InTask, PastGate, Idle
  <2>. QED  BY <2>3, <2>4
<1>3. CASE r.op # "approve-gate"
  BY <1>1, <1>3 DEF Finished
<1>. QED  BY <1>2, <1>3

(* More approvals do not make anything unsound.                            *)
LEMMA MoreApprovals ==
  ASSUME NEW n \in Nat, NEW m \in Nat, n <= m, NEW r, RequestSound(r, n)
  PROVE  RequestSound(r, m)
BY DEF RequestSound, StateSound

(* What an action has to show.                                             *)
LEMMA StepKeepsIInv ==
  ASSUME IInv, NEW p \in Requests, NEW r \in Request, Set(p, r),
         approvals' \in Nat, approvals <= approvals',
         RequestSound(r, approvals'),
         stateFile' \in RunState, StateSound(stateFile', approvals'),
         adaptersFile' \in [Steps -> Summary], effect' \in [Steps -> BOOLEAN],
         consumed' \in Nat, consumed' > 0 => approvals' > 0,
         successes' \in [Steps -> 0 .. 2]
  PROVE  IInv'
<1>1. req' = [req EXCEPT ![p] = r] /\ req \in [Requests -> Request] /\ approvals \in Nat
  BY DEF Set, IInv, TypeOK
<1>2. req' \in [Requests -> Request]
  BY <1>1
<1>3. ASSUME NEW q \in Requests
      PROVE  RequestSound(req'[q], approvals')
  <2>1. RequestSound(req[q], approvals')
    BY <1>1, MoreApprovals DEF IInv
  <2>. QED  BY <1>1, <2>1
<1>. QED  BY <1>2, <1>3 DEF IInv, TypeOK

(* The case of a step that leaves the history alone.                       *)
LEMMA QuietStepKeepsIInv ==
  ASSUME IInv, NEW p \in Requests, NEW r \in Request, Set(p, r),
         RequestSound(r, approvals), UNCHANGED history,
         stateFile' \in RunState, StateSound(stateFile', approvals),
         adaptersFile' \in [Steps -> Summary], effect' \in [Steps -> BOOLEAN]
  PROVE  IInv'
<1>1. /\ approvals \in Nat /\ approvals' = approvals
      /\ consumed \in Nat /\ consumed' = consumed
      /\ consumed > 0 => approvals > 0
      /\ successes' = successes /\ successes \in [Steps -> 0 .. 2]
  BY DEF IInv, TypeOK, history
<1>. QED  BY <1>1, StepKeepsIInv

-----------------------------------------------------------------------------
(* Every action keeps the inductive invariant.                             *)

LEMMA Facts ==
  ASSUME IInv
  PROVE  /\ stateFile \in RunState /\ StateSound(stateFile, approvals)
         /\ adaptersFile \in [Steps -> Summary] /\ effect \in [Steps -> BOOLEAN]
         /\ approvals \in Nat
         /\ \A p \in Requests : req[p] \in Request /\ RequestSound(req[p], approvals)
BY DEF IInv, TypeOK

LEMMA Fields ==
  ASSUME NEW r \in Request
  PROVE  /\ r.pc \in PC /\ r.op \in OpNames \cup {"none"}
         /\ r.mem \in RunState /\ r.snap \in RunState
         /\ r.sums \in [Steps -> Summary]
         /\ r.at \in 0 .. NumSteps /\ r.left \in Nat /\ r.used \in Nat
BY DEF Request

(* A request that has just loaded the bundle.                              *)
LEMMA LoadedSound ==
  ASSUME IInv, NEW op \in OpNames
  PROVE  /\ Loaded(op) \in Request /\ RequestSound(Loaded(op), approvals)
         /\ Loaded(op).used = 0 /\ Loaded(op).pc = "idle" /\ Loaded(op).mem = stateFile
         /\ Loaded(op).snap = Planned(FALSE)
         /\ Loaded(op).op = op /\ Loaded(op).sums = adaptersFile
<1>1. Idle \in Request /\ RequestSound(Idle, approvals)
  BY Facts, IdleSound
<1>2. /\ Loaded(op).used = 0 /\ Loaded(op).pc = "idle" /\ Loaded(op).mem = stateFile
      /\ Loaded(op).snap = Planned(FALSE) /\ Loaded(op).op = op /\ Loaded(op).sums = adaptersFile
  BY DEF Loaded, Idle
<1>3. Loaded(op) \in Request
  BY <1>1, Facts DEF Loaded, Request
<1>4. RequestSound(Loaded(op), approvals)
  BY <1>1, <1>2, Facts DEF RequestSound, InTask, PastGate, Idle
<1>. QED  BY <1>2, <1>3, <1>4

LEMMA FailTaskStep ==
  ASSUME IInv, NEW p \in Requests, NEW r \in Request, RequestSound(r, approvals),
         r.at < NumSteps, FailTask(p, r), UNCHANGED <<effect, history>>
  PROVE  IInv'
<1>1. Finished(r) \in Request /\ RequestSound(Finished(r), approvals)
  BY Facts, FinishedSound
<1>2. Failed(r.mem, r.at) \in RunState /\ StateSound(Failed(r.mem, r.at), approvals)
  BY Facts, Fields, FailedSound DEF RequestSound
<1>3. [r.sums EXCEPT ![r.at] = "failed"] \in [Steps -> Summary]
  BY Fields DEF Summary
<1>. QED  BY <1>1, <1>2, <1>3, Facts, QuietStepKeepsIInv DEF FailTask

LEMMA EnterTaskStep ==
  ASSUME IInv, NEW p \in Requests, NEW r \in Request, RequestSound(r, approvals),
         r.at < NumSteps, NEW saved \in RunState, StateSound(saved, approvals),
         EnterTask(p, r, saved), UNCHANGED <<effect, history>>
  PROVE  IInv'
<1>1. CASE FailTask(p, r)
  BY <1>1, FailTaskStep
<1>2. CASE /\ Set(p, [r EXCEPT !.pc = "simulate"])
           /\ stateFile' = saved
           /\ UNCHANGED adaptersFile
  <2>. DEFINE t == [r EXCEPT !.pc = "simulate"]
  <2>1. t \in Request
    BY DEF Request, PC
  <2>2. RequestSound(t, approvals)
    BY DEF RequestSound, InTask, PastGate, Request
  <2>. HIDE DEF t
  <2>. QED  BY <1>2, <2>1, <2>2, Facts, QuietStepKeepsIInv DEF t
<1>. QED  BY <1>1, <1>2 DEF EnterTask

LEMMA ResumeWithStep ==
  ASSUME IInv, NEW p \in Requests, NEW r \in Request, RequestSound(r, approvals'),
         r.used = 0, NEW st \in RunState, StateSound(st, approvals'),
         approvals' \in Nat, approvals <= approvals', ResumeWith(p, r, st)
  PROVE  IInv'
<1>1. /\ adaptersFile' \in [Steps -> Summary] /\ effect' \in [Steps -> BOOLEAN]
      /\ consumed' \in Nat /\ (consumed' > 0 => approvals' > 0)
      /\ successes' \in [Steps -> 0 .. 2]
  BY DEF ResumeWith, IInv, TypeOK
<1>2. CASE st.status = "completed"
  <2>1. Finished(r) \in Request /\ RequestSound(Finished(r), approvals')
    BY FinishedSound
  <2>. QED  BY <1>1, <1>2, <2>1, StepKeepsIInv DEF ResumeWith
<1>3. CASE st.status # "completed"
  <2>. DEFINE t == [r EXCEPT !.pc = "loop", !.mem = Begun(st), !.at = st.index]
  <2>1. Begun(st) \in RunState /\ StateSound(Begun(st), approvals')
    BY BegunSound
  <2>2. st.index \in 0 .. NumSteps
    BY DEF RunState
  <2>3. t \in Request
    BY <2>1, <2>2 DEF Request, PC
  <2>4. /\ t.pc = "loop" /\ t.mem = Begun(st) /\ t.used = 0 /\ t.snap = r.snap
    BY DEF Request
  <2>5. RequestSound(t, approvals')
    BY <2>1, <2>4 DEF RequestSound, InTask, PastGate
  <2>6. Set(p, t) /\ stateFile' = Begun(st)
    BY <1>3 DEF ResumeWith
  <2>. HIDE DEF t
  <2>. QED  BY <1>1, <2>1, <2>3, <2>5, <2>6, StepKeepsIInv
<1>. QED  BY <1>2, <1>3

(* Requests that arrive.                                                   *)
LEMMA ArriveStep ==
  ASSUME IInv, NEW p \in Requests, Arrive(p)
  PROVE  IInv'
<1>1. CASE Resume(p)
  <2>1. "resume" \in OpNames /\ approvals' = approvals
    BY <1>1 DEF OpNames, Resume
  <2>2. ResumeWith(p, Loaded("resume"), stateFile)
    BY <1>1 DEF Resume
  <2>3. /\ Loaded("resume") \in Request /\ RequestSound(Loaded("resume"), approvals')
        /\ Loaded("resume").used = 0
    BY <2>1, LoadedSound
  <2>4. /\ stateFile \in RunState /\ StateSound(stateFile, approvals')
        /\ approvals' \in Nat /\ approvals <= approvals'
    BY <2>1, Facts
  <2>. QED  BY <2>2, <2>3, <2>4, ResumeWithStep
<1>2. CASE Approve(p)
  <2>1. "approve" \in OpNames /\ approvals' = approvals + 1 /\ approvals \in Nat
    BY <1>2, Facts DEF OpNames, Approve
  <2>2. Approved(stateFile) \in RunState /\ StateSound(Approved(stateFile), approvals')
    BY <2>1, Facts, ApprovedSound
  <2>3. /\ Loaded("approve") \in Request /\ RequestSound(Loaded("approve"), approvals)
        /\ Loaded("approve").used = 0
    BY <2>1, LoadedSound
  <2>5. /\ approvals' \in Nat /\ approvals <= approvals'
        /\ RequestSound(Loaded("approve"), approvals')
    BY <2>1, <2>3, MoreApprovals
  <2>4. ResumeWith(p, Loaded("approve"), Approved(stateFile))
    BY <1>2 DEF Approve
  <2>. QED  BY <2>2, <2>3, <2>4, <2>5, ResumeWithStep
<1>3. CASE ApproveGate(p)
  <2>. DEFINE l == Loaded("approve-gate")
              t == [l EXCEPT !.snap = stateFile]
  <2>1. "approve-gate" \in OpNames /\ approvals' = approvals + 1 /\ approvals \in Nat
    BY <1>3, Facts DEF OpNames, ApproveGate
  <2>2. Approved(stateFile) \in RunState /\ StateSound(Approved(stateFile), approvals')
    BY <2>1, Facts, ApprovedSound
  <2>3. t \in Request /\ RequestSound(t, approvals) /\ t.used = 0
    <3>. /\ l \in Request /\ l.pc = "idle" /\ l.used = 0 /\ l.mem = stateFile
         /\ stateFile \in RunState
      BY <2>1, Facts, LoadedSound
    <3>. HIDE DEF l
    <3>1. t \in Request
      BY DEF Request
    <3>2. /\ t.snap = stateFile /\ t.pc = "idle" /\ t.used = 0 /\ t.mem = stateFile
      BY DEF Request
    <3>. QED  BY <3>1, <3>2, Facts DEF RequestSound, InTask, PastGate
  <2>4. ResumeWith(p, t, Approved(stateFile))
    BY <1>3 DEF ApproveGate
  <2>. HIDE DEF t
  <2>5. /\ RequestSound(t, approvals')
        /\ approvals' \in Nat /\ approvals <= approvals'
    BY <2>1, <2>3, MoreApprovals
  <2>. QED  BY <2>1, <2>2, <2>3, <2>4, <2>5, ResumeWithStep
<1>4. CASE Building(p)
  <2>. DEFINE l == Loaded("building")
              t == [l EXCEPT !.pc = "emit"]
  <2>1. "building" \in OpNames
    BY DEF OpNames
  <2>. l \in Request /\ RequestSound(l, approvals)
    BY <2>1, LoadedSound
  <2>4. Set(p, t) /\ UNCHANGED <<stateFile, adaptersFile, effect, history>>
    BY <1>4 DEF Building
  <2>. HIDE DEF l
  <2>2. t \in Request
    BY DEF Request, PC
  <2>3. RequestSound(t, approvals)
    BY DEF RequestSound, InTask, PastGate, Request
  <2>. HIDE DEF t
  <2>. QED  BY <2>2, <2>3, <2>4, Facts, QuietStepKeepsIInv
<1>5. ASSUME NEW op \in OpNames, NEW s \in 0 .. NumSteps, s < NumSteps, RetryStep(p, op, s)
      PROVE  IInv'
  <2>. DEFINE st == [stateFile EXCEPT !.index = s, !.status = "running"]
              l == Loaded(op)
              t == [l EXCEPT !.mem = st, !.at = s]
  <2>1. st \in RunState /\ StateSound(st, approvals)
    BY <1>5, Facts DEF RunState, RunStatus, StateSound
  <2>5. EnterTask(p, t, st) /\ UNCHANGED <<effect, history>>
    BY <1>5 DEF RetryStep
  <2>. /\ l \in Request /\ RequestSound(l, approvals) /\ l.pc = "idle" /\ l.used = 0
    BY LoadedSound
  <2>. HIDE DEF l, st
  <2>2. t \in Request
    BY <1>5, <2>1 DEF Request
  <2>3. /\ t.pc = "idle" /\ t.used = 0 /\ t.mem = st /\ t.at = s /\ t.snap = l.snap
    BY <1>5 DEF Request
  <2>4. RequestSound(t, approvals)
    BY <2>1, <2>3 DEF RequestSound, InTask, PastGate
  <2>. HIDE DEF t
  <2>. QED  BY <1>5, <2>1, <2>2, <2>3, <2>4, <2>5, EnterTaskStep
<1>6. CASE RetryCurrent(p)
  <2>1. "retry-current" \in OpNames /\ stateFile.index \in 0 .. NumSteps
    BY Facts DEF OpNames, RunState
  <2>. QED  BY <1>5, <1>6, <2>1 DEF RetryCurrent
<1>7. ASSUME NEW s \in Steps, Retry(p, s)
      PROVE  IInv'
  <2>1. "retry" \in OpNames /\ s \in 0 .. NumSteps /\ s < NumSteps
    BY RunExecutionAssumption DEF OpNames, Steps
  <2>. QED  BY <1>5, <1>7, <2>1 DEF Retry
<1>8. ASSUME NEW s \in Steps, Rollback(p, s)
      PROVE  IInv'
  <2>. DEFINE l == Loaded("rollback")
              t == [l EXCEPT !.pc = "rollback", !.at = s]
  <2>1. "rollback" \in OpNames /\ s \in 0 .. NumSteps /\ s < NumSteps
    BY RunExecutionAssumption DEF OpNames, Steps
  <2>. l \in Request /\ RequestSound(l, approvals)
    BY <2>1, LoadedSound
  <2>4. Set(p, t) /\ UNCHANGED <<stateFile, adaptersFile, effect, history>>
    BY <1>8 DEF Rollback
  <2>. HIDE DEF l
  <2>2. t \in Request
    BY <2>1 DEF Request, PC
  <2>3. RequestSound(t, approvals)
    BY <2>1 DEF RequestSound, InTask, PastGate, Request
  <2>. HIDE DEF t
  <2>. QED  BY <2>2, <2>3, <2>4, Facts, QuietStepKeepsIInv
<1>. QED  BY <1>1, <1>2, <1>3, <1>4, <1>6, <1>7, <1>8 DEF Arrive

(* Steps of a request in flight.                                           *)

(* A step that only moves the request on, to t.                            *)
LEMMA MoveOn ==
  ASSUME IInv, NEW p \in Requests, NEW t \in Request, RequestSound(t, approvals),
         Set(p, t), effect' \in [Steps -> BOOLEAN],
         UNCHANGED <<stateFile, adaptersFile, history>>
  PROVE  IInv'
<1>1. /\ stateFile' = stateFile /\ adaptersFile' = adaptersFile /\ UNCHANGED history
  OBVIOUS
<1>. QED  BY <1>1, Facts, QuietStepKeepsIInv

LEMMA EffectOfStep ==
  ASSUME IInv, NEW s \in 0 .. NumSteps, NEW b \in BOOLEAN
  PROVE  [effect EXCEPT ![s] = b] \in [Steps -> BOOLEAN]
BY Facts

LEMMA AttemptFailsStep ==
  ASSUME IInv, NEW p \in Requests, req[p].pc \in {"execute", "verify"},
         AttemptFails(p), effect' \in [Steps -> BOOLEAN]
  PROVE  IInv'
<1>. DEFINE r == req[p]
            next == IF r.left > 1 THEN "execute" ELSE "heal"
            t == [r EXCEPT !.left = @ - 1, !.pc = next]
<1>1. r \in Request /\ RequestSound(r, approvals) /\ r.pc \in {"execute", "verify"}
  BY Facts
<1>2. Set(p, t) /\ UNCHANGED <<stateFile, adaptersFile, history>>
  BY DEF AttemptFails
<1>. HIDE DEF r
<1>3. /\ r.left \in Nat /\ r.left > 0 /\ r.left - 1 \in Nat
      /\ next \in {"execute", "heal"} /\ (next = "execute" => r.left - 1 > 0)
  BY <1>1, Fields DEF RequestSound
<1>. HIDE DEF next
<1>4. t \in Request
  BY <1>1, <1>3 DEF Request, PC
<1>5. /\ t.pc = next /\ t.left = r.left - 1 /\ t.mem = r.mem /\ t.snap = r.snap
      /\ t.at = r.at /\ t.used = r.used
  BY <1>1 DEF Request
<1>6. RequestSound(t, approvals)
  BY <1>1, <1>3, <1>5 DEF RequestSound, InTask, PastGate
<1>. HIDE DEF t
<1>. QED  BY <1>2, <1>4, <1>6, MoveOn

(* A step of a request that changes nothing but its program counter and    *)
(* what is left of its attempts.                                           *)
LEMMA Repositioned ==
  ASSUME NEW n, NEW r \in Request, RequestSound(r, n), NEW pc \in PC, NEW k \in Nat,
         pc \in InTask => r.pc \in InTask,
         pc \in {"execute", "verify"} => k > 0,
         pc \in PastGate => r.pc \in PastGate \/ r.at \notin NeedsApproval \/ r.mem.approved
  PROVE  /\ [r EXCEPT !.pc = pc, !.left = k] \in Request
         /\ RequestSound([r EXCEPT !.pc = pc, !.left = k], n)
<1>. DEFINE t == [r EXCEPT !.pc = pc, !.left = k]
<1>1. t \in Request
  BY DEF Request
<1>2. /\ t.pc = pc /\ t.left = k /\ t.mem = r.mem /\ t.snap = r.snap
      /\ t.at = r.at /\ t.used = r.used
  BY DEF Request
<1>3. RequestSound(t, n)
  BY <1>2 DEF RequestSound
<1>. QED  BY <1>1, <1>3

LEMMA Moved ==
  ASSUME NEW n, NEW r \in Request, RequestSound(r, n), NEW pc \in PC,
         pc \in InTask => r.pc \in InTask,
         pc \in {"execute", "verify"} => r.left > 0,
         pc \in PastGate => r.pc \in PastGate \/ r.at \notin NeedsApproval \/ r.mem.approved
  PROVE  /\ [r EXCEPT !.pc = pc] \in Request
         /\ RequestSound([r EXCEPT !.pc = pc], n)
<1>. DEFINE t == [r EXCEPT !.pc = pc]
<1>1. t \in Request
  BY DEF Request
<1>2. /\ t.pc = pc /\ t.left = r.left /\ t.mem = r.mem /\ t.snap = r.snap
      /\ t.at = r.at /\ t.used = r.used
  BY DEF Request
<1>3. RequestSound(t, n)
  BY <1>2 DEF RequestSound
<1>. QED  BY <1>1, <1>3

LEMMA StepSucceedsStep ==
  ASSUME IInv, NEW p \in Requests, StepSucceeds(p)
  PROVE  IInv'
<1>. DEFINE r == req[p]
            st == Advanced(r.mem, r.at)
            sums == [r.sums EXCEPT ![r.at] = "success"]
            spent == IF r.at \in NeedsApproval THEN 1 ELSE 0
            k == r.used + spent
            j == r.at + 1
            t == [r EXCEPT !.pc = "loop", !.mem = st, !.sums = sums, !.at = j,
                           !.left = 0, !.used = k]
            u == IF IsRetry(r) THEN Finished(r) ELSE t
<1>1. /\ r \in Request /\ RequestSound(r, approvals) /\ r.pc = "verify"
      /\ approvals \in Nat /\ consumed \in Nat /\ (consumed > 0 => approvals > 0)
  BY Facts DEF StepSucceeds, IInv, TypeOK
<1>2. /\ adaptersFile' = sums /\ stateFile' = st /\ Set(p, u)
      /\ consumed' = IF consumed > approvals THEN consumed ELSE consumed + spent
      /\ successes' = [successes EXCEPT ![r.at] = IF @ = 2 THEN 2 ELSE @ + 1]
      /\ effect' = effect /\ approvals' = approvals
  BY DEF StepSucceeds
<1>3. successes' \in [Steps -> 0 .. 2] /\ effect' \in [Steps -> BOOLEAN]
  <2>. DEFINE c == IF successes[r.at] = 2 THEN 2 ELSE successes[r.at] + 1
  <2>1. successes \in [Steps -> 0 .. 2] /\ effect \in [Steps -> BOOLEAN]
    BY DEF IInv, TypeOK
  <2>2. r.at \in Steps
    BY <1>1, Fields, RunExecutionAssumption DEF RequestSound, InTask, Steps
  <2>3. c \in 0 .. 2
    BY <2>1, <2>2
  <2>4. successes' = [successes EXCEPT ![r.at] = c]
    BY <1>2
  <2>. HIDE DEF c
  <2>. QED  BY <1>2, <2>1, <2>3, <2>4
<1>. HIDE DEF r
<1>4. /\ r.mem \in RunState /\ r.snap \in RunState /\ r.sums \in [Steps -> Summary]
      /\ r.at \in 0 .. NumSteps /\ r.used \in Nat /\ r.at < NumSteps
      /\ r.used <= 1 /\ (r.mem.approved => r.used = 0) /\ StateSound(r.mem, approvals)
      /\ (r.at \in NeedsApproval => r.mem.approved)
      /\ StateSound(r.snap, approvals)
  BY <1>1, Fields DEF RequestSound, InTask, PastGate
<1>5. /\ st \in RunState /\ StateSound(st, approvals) /\ ~ st.approved
  BY <1>1, <1>4, AdvancedSound
<1>6. sums \in [Steps -> Summary]
  BY <1>4 DEF Summary
<1>7. /\ spent \in {0, 1} /\ k \in Nat /\ k <= 1 /\ (spent = 1 => approvals > 0)
  BY <1>4, <1>1 DEF StateSound
<1>8. j \in 0 .. NumSteps
  BY <1>4, RunExecutionAssumption
<1>. HIDE DEF st, sums, spent, k, j
<1>9. t \in Request
  BY <1>1, <1>5, <1>6, <1>7, <1>8 DEF Request, PC
<1>10. /\ t.pc = "loop" /\ t.mem = st /\ t.snap = r.snap /\ t.used = k
  BY <1>1 DEF Request
<1>11. RequestSound(t, approvals)
  BY <1>4, <1>5, <1>7, <1>10 DEF RequestSound, InTask, PastGate
<1>12. Finished(r) \in Request /\ RequestSound(Finished(r), approvals)
  BY <1>1, FinishedSound
<1>13. u \in Request /\ RequestSound(u, approvals)
  BY <1>9, <1>11, <1>12
<1>14. /\ consumed' \in Nat /\ (consumed' > 0 => approvals' > 0)
       /\ approvals' \in Nat /\ approvals <= approvals'
  BY <1>1, <1>2, <1>7
<1>. HIDE DEF t, u
<1>. QED  BY <1>2, <1>3, <1>5, <1>6, <1>13, <1>14, StepKeepsIInv

LEMMA ContinueStep ==
  ASSUME IInv, NEW p \in Requests, Continue(p)
  PROVE  IInv'
<1>. DEFINE r == req[p]
<1>0. /\ r \in Request /\ RequestSound(r, approvals)
      /\ r.mem \in RunState /\ r.snap \in RunState /\ r.sums \in [Steps -> Summary]
      /\ r.at \in 0 .. NumSteps /\ r.left \in Nat /\ approvals \in Nat
      /\ StateSound(r.mem, approvals) /\ StateSound(r.snap, approvals)
      /\ (r.pc \in InTask => r.at < NumSteps)
  BY Facts, Fields DEF RequestSound
<1>a. /\ Finished(r) \in Request /\ RequestSound(Finished(r), approvals)
      /\ Idle \in Request /\ RequestSound(Idle, approvals)
  BY <1>0, FinishedSound, IdleSound
<1>b. r.pc \in InTask => /\ Failed(r.mem, r.at) \in RunState
                         /\ StateSound(Failed(r.mem, r.at), approvals)
                         /\ Paused(r.mem, r.at) \in RunState
                         /\ StateSound(Paused(r.mem, r.at), approvals)
  BY <1>0, FailedSound, PausedSound
<1>1. CASE ApproveGateReply(p)
  BY <1>1, <1>0, <1>a, Facts, QuietStepKeepsIInv DEF ApproveGateReply
<1>2. CASE BuildingExecutes(p)
  <2>. DEFINE st == Begun(r.mem)
              t == [r EXCEPT !.pc = "loop", !.mem = st, !.at = st.index]
  <2>1. st \in RunState /\ StateSound(st, approvals) /\ st.approved = r.mem.approved
    BY <1>0, BegunSound
  <2>2. stateFile' = st /\ Set(p, t) /\ UNCHANGED <<adaptersFile, effect, history>>
    BY <1>2 DEF BuildingExecutes
  <2>. HIDE DEF st, r
  <2>3. st.index \in 0 .. NumSteps
    BY <2>1 DEF RunState
  <2>4. t \in Request
    BY <1>0, <2>1, <2>3 DEF Request, PC
  <2>5. t.pc = "loop" /\ t.mem = st /\ t.snap = r.snap /\ t.used = r.used
    BY <1>0 DEF Request
  <2>6. RequestSound(t, approvals)
    BY <1>0, <2>1, <2>5 DEF RequestSound, InTask, PastGate
  <2>. HIDE DEF t
  <2>. QED  BY <2>1, <2>2, <2>4, <2>6, Facts, QuietStepKeepsIInv
<1>3. CASE NextTask(p)
  <2>1. r.at < NumSteps /\ EnterTask(p, r, stateFile) /\ UNCHANGED <<effect, history>>
    BY <1>3, <1>0, RunExecutionAssumption DEF NextTask
  <2>. QED  BY <2>1, <1>0, Facts, EnterTaskStep
<1>4. CASE CompleteRun(p)
  <2>1. Completed(r.mem) \in RunState /\ StateSound(Completed(r.mem), approvals)
    BY <1>0, CompletedSound
  <2>. QED  BY <1>4, <1>a, <2>1, Facts, QuietStepKeepsIInv DEF CompleteRun
<1>5. CASE PassApproval(p)
  BY <1>5, <1>0, Moved, MoveOn, Facts DEF PassApproval, InTask, PastGate, PC
<1>6. CASE PauseForApproval(p)
  BY <1>6, <1>0, <1>a, <1>b, Facts, QuietStepKeepsIInv DEF PauseForApproval, InTask
<1>7. CASE ValidationPasses(p)
  <2>. PICK limit \in AttemptLimits :
         \/ /\ limit > 0
            /\ Set(p, [r EXCEPT !.pc = "execute", !.left = limit])
            /\ UNCHANGED stateFile
         \/ /\ limit = 0
            /\ Set(p, Finished(r))
            /\ stateFile' = Failed(r.mem, r.at)
    BY <1>7 DEF ValidationPasses
  <2>1. limit \in Nat /\ r.pc = "validate" /\ UNCHANGED <<adaptersFile, effect, history>>
    BY <1>7, RunExecutionAssumption DEF ValidationPasses
  <2>2. CASE limit = 0
    BY <2>1, <2>2, <1>0, <1>a, <1>b, Facts, QuietStepKeepsIInv DEF InTask
  <2>3. CASE limit > 0
    <3>. DEFINE t == [r EXCEPT !.pc = "execute", !.left = limit]
    <3>1. t \in Request /\ RequestSound(t, approvals)
      <4>1. "execute" \in PC /\ r.pc \in InTask /\ r.pc \in PastGate
        BY <2>1 DEF PC, InTask, PastGate
      <4>. HIDE DEF r
      <4>. QED  BY <2>1, <2>3, <4>1, <1>0, Repositioned
    <3>2. Set(p, t) /\ UNCHANGED stateFile /\ effect' \in [Steps -> BOOLEAN]
          /\ UNCHANGED <<adaptersFile, history>>
      BY <2>1, <2>3, Facts
    <3>. HIDE DEF t
    <3>. QED  BY <3>1, <3>2, MoveOn
  <2>. QED  BY <2>1, <2>2, <2>3
<1>8. CASE ValidationFails(p)
  BY <1>8, <1>0, FailTaskStep DEF ValidationFails, InTask
<1>9. CASE ExecuteSucceeds(p)
  <2>. DEFINE t == [r EXCEPT !.pc = "verify"]
  <2>1. r.pc = "execute" /\ Set(p, t) /\ UNCHANGED <<stateFile, adaptersFile, history>>
        /\ effect' \in [Steps -> BOOLEAN]
    BY <1>9, <1>0, EffectOfStep DEF ExecuteSucceeds
  <2>2. t \in Request /\ RequestSound(t, approvals)
    <3>1. r.left > 0
      BY <2>1, <1>0 DEF RequestSound
    <3>. QED  BY <2>1, <3>1, <1>0, Moved DEF InTask, PastGate, PC
  <2>. QED  BY <2>1, <2>2, MoveOn
<1>10. CASE ExecuteFails(p)
  BY <1>10, <1>0, Facts, EffectOfStep, AttemptFailsStep DEF ExecuteFails
<1>11. CASE VerifyFails(p)
  BY <1>11, Facts, AttemptFailsStep DEF VerifyFails
<1>12. CASE StepSucceeds(p)
  BY <1>12, StepSucceedsStep
<1>13. CASE HealingVerified(p)
  <2>. DEFINE t == [r EXCEPT !.pc = "execute", !.left = 1]
  <2>1. r.pc = "heal" /\ Set(p, t) /\ effect' \in [Steps -> BOOLEAN]
        /\ UNCHANGED <<stateFile, adaptersFile, history>>
    BY <1>13, Facts DEF HealingVerified
  <2>2. t \in Request /\ RequestSound(t, approvals)
    <3>1. "execute" \in PC /\ r.pc \in InTask /\ r.pc \in PastGate /\ 1 \in Nat /\ 1 > 0
      BY <2>1 DEF PC, InTask, PastGate
    <3>. HIDE DEF r
    <3>. QED  BY <3>1, <1>0, Repositioned
  <2>. HIDE DEF t
  <2>. QED  BY <2>1, <2>2, MoveOn
<1>14. CASE HealingNeedsApproval(p)
  BY <1>14, <1>0, <1>a, <1>b, Facts, QuietStepKeepsIInv DEF HealingNeedsApproval, InTask
<1>15. CASE HealingGivesUp(p)
  <2>1. r.pc = "heal" /\ UNCHANGED <<effect, history>>
    BY <1>15 DEF HealingGivesUp
  <2>2. CASE r.at \in Rollbackable
    BY <1>15, <2>1, <2>2, <1>0, Moved, MoveOn, Facts DEF HealingGivesUp, InTask, PastGate, PC
  <2>3. CASE r.at \notin Rollbackable
    BY <1>15, <2>1, <2>3, <1>0, FailTaskStep DEF HealingGivesUp, InTask
  <2>. QED  BY <2>2, <2>3
<1>16. CASE AdapterRollsBack(p)
  <2>1. r.pc = "rollback" /\ Set(p, [r EXCEPT !.pc = "undone"])
        /\ UNCHANGED <<stateFile, adaptersFile, history>> /\ effect' \in [Steps -> BOOLEAN]
    BY <1>16, <1>0, EffectOfStep DEF AdapterRollsBack
  <2>. QED  BY <2>1, <1>0, Moved, MoveOn DEF InTask, PastGate, PC
<1>17. CASE AutoRollbackDone(p)
  BY <1>17, <1>0, FailTaskStep DEF AutoRollbackDone, InTask
<1>18. CASE ManualRollbackDone(p)
  <2>. DEFINE i == IF r.mem.index > 0 THEN r.mem.index - 1 ELSE r.mem.index
              st == [r.mem EXCEPT !.index = i]
              sums == [r.sums EXCEPT ![r.at] = "rolled-back"]
  <2>1. /\ stateFile' = st /\ adaptersFile' = sums /\ Set(p, Idle)
        /\ UNCHANGED <<effect, history>>
    BY <1>18 DEF ManualRollbackDone
  <2>. HIDE DEF r
  <2>2. i \in 0 .. NumSteps /\ i <= r.mem.index
    BY <1>0, RunExecutionAssumption DEF RunState
  <2>. HIDE DEF i
  <2>3. st \in RunState /\ StateSound(st, approvals)
    BY <1>0, <2>2, RunExecutionAssumption DEF RunState, StateSound
  <2>4. sums \in [Steps -> Summary]
    BY <1>0 DEF Summary
  <2>. HIDE DEF st, sums
  <2>. QED  BY <2>1, <2>3, <2>4, <1>a, Facts, QuietStepKeepsIInv
<1>19. CASE AdapterThrows(p)
  <2>1. Set(p, Idle) /\ UNCHANGED <<stateFile, adaptersFile, history>>
    BY <1>19 DEF AdapterThrows
  <2>2. effect' \in [Steps -> BOOLEAN]
    BY <1>19, <1>0, Facts, EffectOfStep DEF AdapterThrows
  <2>. QED  BY <2>1, <2>2, <1>a, MoveOn
<1>. QED  BY <1>1, <1>2, <1>3, <1>4, <1>5, <1>6, <1>7, <1>8, <1>9, <1>10, <1>11, <1>12,
             <1>13, <1>14, <1>15, <1>16, <1>17, <1>18, <1>19 DEF Continue

LEMMA RejectStep ==
  ASSUME IInv, Reject
  PROVE  IInv'
<1>. DEFINE st == [stateFile EXCEPT !.status = "cancelled"]
<1>1. st \in RunState /\ StateSound(st, approvals)
  BY Facts DEF RunState, RunStatus, StateSound
<1>2. stateFile' = st /\ UNCHANGED <<adaptersFile, effect, req, approvals, consumed, successes>>
  BY DEF Reject, history
<1>. HIDE DEF st
<1>. QED  BY <1>1, <1>2 DEF IInv, TypeOK

LEMMA CrashStep ==
  ASSUME IInv, Crash
  PROVE  IInv'
<1>1. Idle \in Request /\ RequestSound(Idle, approvals)
  BY Facts, IdleSound
<1>2. /\ req' = [p \in Requests |-> Idle]
      /\ UNCHANGED <<stateFile, adaptersFile, effect, approvals, consumed, successes>>
  BY DEF Crash, history
<1>. QED  BY <1>1, <1>2 DEF IInv, TypeOK

-----------------------------------------------------------------------------

LEMMA InitIInv == Init => IInv
<1>. SUFFICES ASSUME Init PROVE IInv
  OBVIOUS
<1>1. approvals \in Nat /\ stateFile \in RunState /\ StateSound(stateFile, approvals)
  <2>1. stateFile = Planned(approvals > 0) /\ approvals \in Nat
    BY DEF Init
  <2>2. "planned" \in RunStatus /\ 0 \in 0 .. NumSteps
    BY RunExecutionAssumption DEF RunStatus
  <2>. DEFINE b == approvals > 0
  <2>3. b \in BOOLEAN
    BY <2>1
  <2>4. /\ stateFile = [status |-> "planned", index |-> 0, approved |-> b, approvalRequired |-> FALSE]
    BY <2>1 DEF Planned
  <2>5. stateFile.approved = b /\ ~ stateFile.approvalRequired
    BY <2>4
  <2>6. StateSound(stateFile, approvals)
    BY <2>5 DEF StateSound
  <2>. HIDE DEF b
  <2>7. stateFile \in RunState
    BY <2>2, <2>3, <2>4 DEF RunState
  <2>. QED  BY <2>1, <2>6, <2>7
<1>2. Idle \in Request /\ RequestSound(Idle, approvals) /\ NoSummaries \in [Steps -> Summary]
  BY <1>1, IdleSound
<1>3. TypeOK
  BY <1>1, <1>2 DEF Init, TypeOK
<1>4. StateSound(stateFile, approvals)
  BY <1>1
<1>5. ASSUME NEW p \in Requests
      PROVE  RequestSound(req[p], approvals)
  <2>1. req[p] = Idle
    BY DEF Init
  <2>. QED  BY <2>1, <1>2
<1>. QED  BY <1>3, <1>4, <1>5 DEF Init, IInv

LEMMA NextIInv == IInv /\ [Next]_vars => IInv'
<1>. SUFFICES ASSUME IInv, [Next]_vars PROVE IInv'
  OBVIOUS
<1>1. CASE Next
  BY <1>1, ArriveStep, ContinueStep, RejectStep, CrashStep DEF Next
<1>2. CASE UNCHANGED vars
  BY <1>2 DEF vars, IInv, TypeOK
<1>. QED  BY <1>1, <1>2

LEMMA IInvAlways == Spec => []IInv
BY InitIInv, NextIInv, PTL DEF Spec

(* The variables stay in their types, for every plan and environment: in   *)
(* particular the checkpoint never leaves the plan, whatever state a       *)
(* request writes back and however far a rollback moves it.                *)
THEOREM TypeCorrect == Spec => []TypeOK
<1>1. IInv => TypeOK
  BY DEF IInv
<1>. QED  BY <1>1, IInvAlways, PTL

(* However many requests interleave and whatever they write back: none     *)
(* carries out two steps that need an approval.                            *)
THEOREM OneRiskyStep == Spec => []OneRiskyStepPerRequest
<1>1. IInv => OneRiskyStepPerRequest
  BY DEF IInv, RequestSound, OneRiskyStepPerRequest
<1>. QED  BY <1>1, IInvAlways, PTL

(* No step that needs an approval succeeds in a run nobody has approved.   *)
THEOREM ApprovalFirst == Spec => []NoRiskyStepBeforeApproval
<1>1. IInv => NoRiskyStepBeforeApproval
  BY DEF IInv, NoRiskyStepBeforeApproval
<1>. QED  BY <1>1, IInvAlways, PTL

(* A run that waits for approval waits at a step of its plan.              *)
THEOREM WaitingPointsAtStep == Spec => []WaitingRunPointsAtStep
<1>1. IInv => WaitingRunPointsAtStep
  BY DEF IInv, StateSound, WaitingRunPointsAtStep
<1>. QED  BY <1>1, IInvAlways, PTL

-----------------------------------------------------------------------------
(* Serialised requests.                                                    *)

Credit(st) == IF st.approved THEN 1 ELSE 0

(* Of a request in flight, when c approvals have been consumed and n given.*)
(* The approve-gate handler will write back the state it loaded before it  *)
(* approved; until it may, its approval or the use of it outweighs that.   *)
Covered(r, c, n) ==
  /\ c + Credit(r.mem) <= n
  /\ r.pc = "reply" => c + Credit(r.snap) <= n
  /\ (r.op = "approve-gate" /\ r.pc # "reply") => c + Credit(r.snap) + 1 <= n + r.used

Exclusive == \A p, q \in Requests : req[p].pc # "idle" /\ req[q].pc # "idle" => p = q

Account ==
  /\ IInv
  /\ Exclusive
  /\ consumed + Credit(stateFile) <= approvals
  /\ \A p \in Requests : req[p].pc # "idle" => Covered(req[p], consumed, approvals)

-----------------------------------------------------------------------------

LEMMA CreditType ==
  ASSUME NEW st
  PROVE  Credit(st) \in {0, 1}
BY DEF Credit

(* What the state writes are worth.                                        *)
LEMMA CreditOfWrites ==
  ASSUME NEW st \in RunState, NEW s
  PROVE  /\ Credit(Begun(st)) = Credit(st)
         /\ Credit(Failed(st, s)) = Credit(st)
         /\ Credit(Paused(st, s)) = Credit(st)
         /\ Credit(Completed(st)) = Credit(st)
         /\ Credit(Advanced(st, s)) = 0
         /\ Credit(Approved(st)) = 1
<1>1. /\ Begun(st).approved = st.approved /\ Failed(st, s).approved = st.approved
      /\ Paused(st, s).approved = st.approved /\ Completed(st).approved = st.approved
  BY DEF Begun, Failed, Paused, Completed, RunState
<1>2. Advanced(st, s).approved = FALSE /\ Approved(st).approved = TRUE
  BY DEF Advanced, Approved, RunState
<1>. QED  BY <1>1, <1>2 DEF Credit

LEMMA CreditOfIdle == Credit(Planned(FALSE)) = 0
BY DEF Credit, Planned

(* A request that has been answered owes nothing more than the write back  *)
(* of the approve-gate handler.                                            *)
LEMMA FinishedCovered ==
  ASSUME NEW r \in Request, NEW c \in Nat, NEW n \in Nat, c <= n,
         r.op = "approve-gate" => c + Credit(r.snap) <= n
  PROVE  /\ Finished(r) \in Request
         /\ Finished(r).pc # "idle" => Covered(Finished(r), c, n)
<1>1. Finished(r) \in Request
  <2>1. Idle \in Request
    BY IdleSound, 0 \in Nat
  <2>2. r.snap \in RunState /\ r.op \in OpNames \cup {"none"}
    BY Fields
  <2>. QED  BY <2>1, <2>2 DEF Finished, Request, PC
<1>2. CASE r.op = "approve-gate"
  <2>1. /\ Finished(r).mem = Planned(FALSE) /\ Finished(r).pc = "reply"
        /\ Finished(r).snap = r.snap
    BY <1>2 DEF Finished, Idle
  <2>2. Credit(Finished(r).mem) = 0
    BY <2>1, CreditOfIdle
  <2>3. c + Credit(Finished(r).snap) <= n
    BY <1>2, <2>1
  <2>4. c + Credit(Finished(r).mem) <= n
    BY <2>2
  <2>. QED  BY <1>1, <2>1, <2>3, <2>4 DEF Covered
<1>3. CASE r.op # "approve-gate"
  BY <1>1, <1>3 DEF Finished, Idle
<1>. QED  BY <1>2, <1>3

(* ... which it may, once it has used its approval or still has it.        *)
LEMMA CoveredPays ==
  ASSUME NEW r \in Request, NEW c \in Nat, NEW n \in Nat, r.used <= 1, r.pc # "reply",
         Covered(r, c, n)
  PROVE  c <= n /\ (r.op = "approve-gate" => c + Credit(r.snap) <= n)
<1>1. Credit(r.mem) \in {0, 1} /\ Credit(r.snap) \in {0, 1} /\ r.used \in Nat
  BY CreditType, Fields
<1>. QED  BY <1>1 DEF Covered

(* What an action of a request has to show.                                *)
LEMMA StepKeepsAccount ==
  ASSUME Account, IInv', NEW p \in Requests, NEW r \in Request, Set(p, r),
         \A q \in Requests : q # p => req[q].pc = "idle",
         consumed' + Credit(stateFile') <= approvals',
         r.pc # "idle" => Covered(r, consumed', approvals')
  PROVE  Account'
<1>1. req' = [req EXCEPT ![p] = r] /\ req \in [Requests -> Request]
  BY DEF Set, Account, IInv, TypeOK
<1>2. /\ req'[p] = r
      /\ \A q \in Requests : q # p => req'[q].pc = "idle"
  BY <1>1
<1>3. Exclusive'
  BY <1>2 DEF Exclusive
<1>4. ASSUME NEW q \in Requests, req'[q].pc # "idle"
      PROVE  Covered(req'[q], consumed', approvals')
  BY <1>2, <1>4
<1>. QED  BY <1>3, <1>4 DEF Account

LEMMA OthersIdle ==
  ASSUME Account, NEW p \in Requests, req[p].pc # "idle"
  PROVE  \A q \in Requests : q # p => req[q].pc = "idle"
BY DEF Account, Exclusive

(* Every action keeps the account, when requests are serialised.           *)

LEMMA AccountFacts ==
  ASSUME Account
  PROVE  /\ IInv /\ consumed \in Nat /\ approvals \in Nat
         /\ consumed + Credit(stateFile) <= approvals
         /\ Credit(stateFile) \in {0, 1} /\ consumed <= approvals
         /\ \A p \in Requests : req[p].pc # "idle" => Covered(req[p], consumed, approvals)
<1>1. Credit(stateFile) \in {0, 1}
  BY CreditType
<1>. QED  BY <1>1 DEF Account, IInv, TypeOK

LEMMA FailTaskAccount ==
  ASSUME Account, IInv', NEW p \in Requests, NEW r \in Request,
         r.used <= 1, r.pc # "reply", Covered(r, consumed, approvals), FailTask(p, r),
         UNCHANGED history, \A q \in Requests : q # p => req[q].pc = "idle"
  PROVE  Account'
<1>1. Set(p, Finished(r)) /\ stateFile' = Failed(r.mem, r.at)
      /\ consumed' = consumed /\ approvals' = approvals
  BY DEF FailTask, history
<1>2. Finished(r) \in Request /\ (Finished(r).pc # "idle" => Covered(Finished(r), consumed, approvals))
  BY FinishedCovered, CoveredPays, AccountFacts
<1>3. Credit(stateFile') = Credit(r.mem)
  BY <1>1, Fields, CreditOfWrites
<1>4. consumed' + Credit(stateFile') <= approvals'
  BY <1>1, <1>3 DEF Covered
<1>. QED  BY <1>1, <1>2, <1>4, StepKeepsAccount

LEMMA EnterTaskAccount ==
  ASSUME Account, IInv', NEW p \in Requests, NEW r \in Request,
         r.used <= 1, r.pc # "reply", Covered(r, consumed, approvals),
         NEW saved, consumed + Credit(saved) <= approvals, EnterTask(p, r, saved),
         UNCHANGED history, \A q \in Requests : q # p => req[q].pc = "idle"
  PROVE  Account'
<1>1. CASE FailTask(p, r)
  BY <1>1, FailTaskAccount
<1>2. CASE Set(p, [r EXCEPT !.pc = "simulate"]) /\ stateFile' = saved
  <2>. DEFINE t == [r EXCEPT !.pc = "simulate"]
  <2>1. /\ t \in Request /\ t.pc = "simulate" /\ t.mem = r.mem /\ t.op = r.op
        /\ t.snap = r.snap /\ t.used = r.used
    BY DEF Request, PC
  <2>2. Covered(t, consumed, approvals)
    BY <2>1 DEF Covered
  <2>3. Set(p, t) /\ consumed' = consumed /\ approvals' = approvals /\ stateFile' = saved
    BY <1>2 DEF history
  <2>. HIDE DEF t
  <2>. QED  BY <2>1, <2>2, <2>3, StepKeepsAccount
<1>. QED  BY <1>1, <1>2 DEF EnterTask

LEMMA ResumeWithAccount ==
  ASSUME Account, IInv', NEW p \in Requests, NEW r \in Request,
         r.used = 0, r.pc = "idle", NEW st \in RunState, ResumeWith(p, r, st),
         approvals' \in Nat, consumed + Credit(st) <= approvals',
         r.op = "approve-gate" => consumed + Credit(r.snap) + 1 <= approvals',
         \A q \in Requests : q # p => req[q].pc = "idle"
  PROVE  Account'
<1>1. consumed' = consumed /\ consumed \in Nat
  BY AccountFacts DEF ResumeWith
<1>2. CASE st.status = "completed"
  <2>1. stateFile' = st /\ Set(p, Finished(r))
    BY <1>2 DEF ResumeWith
  <2>2. /\ consumed <= approvals'
        /\ (r.op = "approve-gate" => consumed + Credit(r.snap) <= approvals')
    <3>1. Credit(st) \in {0, 1} /\ Credit(r.snap) \in {0, 1}
      BY CreditType
    <3>. QED  BY <1>1, <3>1
  <2>3. /\ Finished(r) \in Request
        /\ (Finished(r).pc # "idle" => Covered(Finished(r), consumed', approvals'))
    BY <1>1, <2>2, FinishedCovered
  <2>. QED  BY <1>1, <2>1, <2>3, StepKeepsAccount
<1>3. CASE st.status # "completed"
  <2>. DEFINE t == [r EXCEPT !.pc = "loop", !.mem = Begun(st), !.at = st.index]
  <2>1. Set(p, t) /\ stateFile' = Begun(st)
    BY <1>3 DEF ResumeWith
  <2>2. Begun(st) \in RunState /\ st.index \in 0 .. NumSteps
    BY DEF Begun, RunState, RunStatus
  <2>3. t \in Request
    BY <2>2 DEF Request, PC
  <2>4. /\ t.pc = "loop" /\ t.mem = Begun(st) /\ t.op = r.op
        /\ t.snap = r.snap /\ t.used = 0
    BY DEF Request
  <2>5. Credit(Begun(st)) = Credit(st)
    BY CreditOfWrites
  <2>. HIDE DEF t
  <2>6. Covered(t, consumed, approvals')
    BY <2>4, <2>5 DEF Covered
  <2>7. consumed' + Credit(stateFile') <= approvals'
    BY <1>1, <2>1, <2>5
  <2>. QED  BY <1>1, <2>1, <2>3, <2>6, <2>7, StepKeepsAccount
<1>. QED  BY <1>2, <1>3

LEMMA ArriveAccount ==
  ASSUME Serial, Account, NEW p \in Requests, Arrive(p)
  PROVE  Account'
<1>. IInv /\ IInv'
  BY ArriveStep DEF Account
<1>a. ASSUME NEW op, MayStart(p, op)
      PROVE  /\ op \in OpNames
             /\ \A q \in Requests : q # p => req[q].pc = "idle"
  BY <1>a, RunExecutionAssumption DEF MayStart, AllIdle
<1>b. /\ consumed \in Nat /\ approvals \in Nat /\ stateFile \in RunState
      /\ consumed + Credit(stateFile) <= approvals /\ Credit(stateFile) \in {0, 1}
      /\ Credit(Planned(FALSE)) = 0
  BY AccountFacts, Facts, CreditOfIdle
<1>1. CASE Resume(p)
  <2>. DEFINE l == Loaded("resume")
  <2>1. /\ ResumeWith(p, l, stateFile) /\ approvals' = approvals
        /\ \A q \in Requests : q # p => req[q].pc = "idle"
    BY <1>1, <1>a DEF Resume
  <2>2. l \in Request /\ l.used = 0 /\ l.pc = "idle" /\ l.op = "resume"
    BY LoadedSound DEF OpNames
  <2>. HIDE DEF l
  <2>. QED  BY <1>b, <2>1, <2>2, ResumeWithAccount
<1>2. CASE Approve(p)
  <2>. DEFINE l == Loaded("approve")
              st == Approved(stateFile)
  <2>1. /\ ResumeWith(p, l, st) /\ approvals' = approvals + 1
        /\ \A q \in Requests : q # p => req[q].pc = "idle"
    BY <1>2, <1>a DEF Approve
  <2>2. l \in Request /\ l.used = 0 /\ l.pc = "idle" /\ l.op = "approve"
    BY LoadedSound DEF OpNames
  <2>3. st \in RunState /\ Credit(st) = 1
    BY <1>b, CreditOfWrites DEF Approved, RunState
  <2>. HIDE DEF l, st
  <2>4. approvals' \in Nat /\ consumed + Credit(st) <= approvals'
    BY <1>b, <2>1, <2>3
  <2>. QED  BY <2>1, <2>2, <2>3, <2>4, ResumeWithAccount
<1>3. CASE ApproveGate(p)
  <2>. DEFINE l == Loaded("approve-gate")
              t == [l EXCEPT !.snap = stateFile]
              st == Approved(stateFile)
  <2>1. /\ ResumeWith(p, t, st) /\ approvals' = approvals + 1
        /\ \A q \in Requests : q # p => req[q].pc = "idle"
    BY <1>3, <1>a DEF ApproveGate
  <2>2. l \in Request /\ l.used = 0 /\ l.pc = "idle"
    BY LoadedSound DEF OpNames
  <2>. HIDE DEF l
  <2>3. t \in Request /\ t.used = 0 /\ t.pc = "idle" /\ t.snap = stateFile
    BY <1>b, <2>2 DEF Request
  <2>4. st \in RunState /\ Credit(st) = 1
    BY <1>b, CreditOfWrites DEF Approved, RunState
  <2>. HIDE DEF t, st
  <2>5. /\ approvals' \in Nat /\ consumed + Credit(st) <= approvals'
        /\ consumed + Credit(t.snap) + 1 <= approvals'
    BY <1>b, <2>1, <2>3, <2>4
  <2>. QED  BY <2>1, <2>3, <2>4, <2>5, ResumeWithAccount
<1>4. CASE Building(p)
  <2>. DEFINE l == Loaded("building")
              t == [l EXCEPT !.pc = "emit"]
  <2>1. /\ Set(p, t) /\ UNCHANGED <<stateFile, history>>
        /\ \A q \in Requests : q # p => req[q].pc = "idle"
    BY <1>4, <1>a DEF Building
  <2>2. l \in Request /\ l.mem = stateFile /\ l.op = "building"
    BY LoadedSound DEF OpNames
  <2>. HIDE DEF l
  <2>3. t \in Request /\ t.mem = stateFile /\ t.op = "building" /\ t.pc = "emit"
    BY <2>2 DEF Request, PC
  <2>. HIDE DEF t
  <2>4. /\ consumed' = consumed /\ approvals' = approvals /\ stateFile' = stateFile
        /\ Covered(t, consumed, approvals)
    BY <1>b, <2>1, <2>3 DEF history, Covered
  <2>. QED  BY <1>b, <2>1, <2>3, <2>4, StepKeepsAccount
<1>5. ASSUME NEW op \in {"retry", "retry-current"}, MayStart(p, op), NEW s, RetryStep(p, op, s),
             s \in 0 .. NumSteps
      PROVE  Account'
  <2>. DEFINE l == Loaded(op)
              st == [stateFile EXCEPT !.index = s, !.status = "running"]
              t == [l EXCEPT !.mem = st, !.at = s]
  <2>1. EnterTask(p, t, st) /\ UNCHANGED history
    BY <1>5 DEF RetryStep
  <2>2. l \in Request /\ l.op = op /\ l.pc = "idle" /\ l.used = 0
    BY <1>5, LoadedSound DEF OpNames
  <2>3. st \in RunState /\ st.approved = stateFile.approved
    BY <1>b, <1>5 DEF RunState, RunStatus
  <2>4. Credit(st) = Credit(stateFile)
    BY <2>3 DEF Credit
  <2>. HIDE DEF l, st
  <2>5. t \in Request /\ t.op = op /\ t.pc = "idle" /\ t.mem = st /\ t.used = 0
    BY <1>5, <2>2, <2>3 DEF Request
  <2>. HIDE DEF t
  <2>6. Covered(t, consumed, approvals) /\ consumed + Credit(st) <= approvals
    BY <1>5, <1>b, <2>4, <2>5 DEF Covered
  <2>7. \A q \in Requests : q # p => req[q].pc = "idle"
    BY <1>5, <1>a
  <2>8. t.used <= 1 /\ t.pc # "reply"
    BY <2>5
  <2>. QED  BY <2>1, <2>5, <2>6, <2>7, <2>8, EnterTaskAccount
<1>6. CASE RetryCurrent(p)
  <2>1. stateFile.index \in 0 .. NumSteps
    BY <1>b DEF RunState
  <2>. QED  BY <2>1, <1>5, <1>6 DEF RetryCurrent
<1>7. ASSUME NEW s \in Steps, Retry(p, s)
      PROVE  Account'
  <2>1. s \in 0 .. NumSteps
    BY RunExecutionAssumption DEF Steps
  <2>. QED  BY <2>1, <1>5, <1>7 DEF Retry
<1>8. ASSUME NEW s \in Steps, Rollback(p, s)
      PROVE  Account'
  <2>. DEFINE l == Loaded("rollback")
              t == [l EXCEPT !.pc = "rollback", !.at = s]
  <2>1. /\ Set(p, t) /\ UNCHANGED <<stateFile, history>>
        /\ \A q \in Requests : q # p => req[q].pc = "idle"
    BY <1>8, <1>a DEF Rollback
  <2>2. l \in Request /\ l.mem = stateFile /\ l.op = "rollback"
    BY LoadedSound DEF OpNames
  <2>3. s \in 0 .. NumSteps
    BY RunExecutionAssumption DEF Steps
  <2>. HIDE DEF l
  <2>4. t \in Request /\ t.mem = stateFile /\ t.op = "rollback" /\ t.pc = "rollback"
    BY <2>2, <2>3 DEF Request, PC
  <2>. HIDE DEF t
  <2>5. /\ consumed' = consumed /\ approvals' = approvals /\ stateFile' = stateFile
        /\ Covered(t, consumed, approvals)
    BY <1>b, <2>1, <2>4 DEF history, Covered
  <2>. QED  BY <1>b, <2>1, <2>4, <2>5, StepKeepsAccount
<1>. QED  BY <1>1, <1>2, <1>3, <1>4, <1>6, <1>7, <1>8 DEF Arrive

(* A step that moves a request on without touching its copies.             *)
LEMMA MoveAccount ==
  ASSUME Account, IInv', NEW p \in Requests, req[p].pc \notin {"idle", "reply"},
         NEW t \in Request, Set(p, t), t.pc # "reply",
         t.mem = req[p].mem, t.snap = req[p].snap, t.op = req[p].op, t.used = req[p].used,
         UNCHANGED <<stateFile, history>>
  PROVE  Account'
<1>1. Covered(req[p], consumed, approvals) /\ consumed + Credit(stateFile) <= approvals
  BY AccountFacts
<1>2. Covered(t, consumed, approvals)
  BY <1>1 DEF Covered
<1>3. consumed' = consumed /\ approvals' = approvals /\ stateFile' = stateFile
  BY DEF history
<1>4. \A q \in Requests : q # p => req[q].pc = "idle"
  BY OthersIdle
<1>. QED  BY <1>1, <1>2, <1>3, <1>4, StepKeepsAccount

(* A request that is answered, having written a state worth its copy.      *)
LEMMA FinishAccount ==
  ASSUME Account, IInv', NEW p \in Requests, req[p].pc \notin {"idle", "reply"},
         Set(p, Finished(req[p])), UNCHANGED history,
         Credit(stateFile') = Credit(req[p].mem)
  PROVE  Account'
<1>1. /\ req[p] \in Request /\ req[p].used <= 1 /\ Covered(req[p], consumed, approvals)
      /\ consumed \in Nat /\ approvals \in Nat
  BY AccountFacts, Facts DEF RequestSound
<1>2. /\ Finished(req[p]) \in Request
      /\ (Finished(req[p]).pc # "idle" => Covered(Finished(req[p]), consumed, approvals))
  BY <1>1, FinishedCovered, CoveredPays
<1>3. consumed' = consumed /\ approvals' = approvals
  BY DEF history
<1>4. consumed' + Credit(stateFile') <= approvals'
  BY <1>1, <1>3 DEF Covered
<1>5. \A q \in Requests : q # p => req[q].pc = "idle"
  BY OthersIdle
<1>. QED  BY <1>2, <1>3, <1>4, <1>5, StepKeepsAccount

LEMMA StepSucceedsAccount ==
  ASSUME Account, IInv', NEW p \in Requests, StepSucceeds(p)
  PROVE  Account'
<1>. DEFINE r == req[p]
            st == Advanced(r.mem, r.at)
            sums == [r.sums EXCEPT ![r.at] = "success"]
            spent == IF r.at \in NeedsApproval THEN 1 ELSE 0
            k == r.used + spent
            j == r.at + 1
            t == [r EXCEPT !.pc = "loop", !.mem = st, !.sums = sums, !.at = j,
                           !.left = 0, !.used = k]
            u == IF IsRetry(r) THEN Finished(r) ELSE t
<1>1. /\ stateFile' = st /\ Set(p, u)
      /\ consumed' = IF consumed > approvals THEN consumed ELSE consumed + spent
      /\ approvals' = approvals
  BY DEF StepSucceeds
<1>2. /\ r \in Request /\ RequestSound(r, approvals) /\ r.pc = "verify"
      /\ Covered(r, consumed, approvals) /\ consumed \in Nat /\ approvals \in Nat
      /\ consumed <= approvals
  BY AccountFacts, Facts DEF StepSucceeds
<1>3. \A q \in Requests : q # p => req[q].pc = "idle"
  BY <1>2, OthersIdle
<1>. HIDE DEF r
<1>4. /\ r.mem \in RunState /\ r.snap \in RunState /\ r.sums \in [Steps -> Summary]
      /\ r.at \in 0 .. NumSteps /\ r.used \in Nat /\ r.at < NumSteps
      /\ (r.at \in NeedsApproval => r.mem.approved)
  BY <1>2, Fields DEF RequestSound, InTask, PastGate
<1>5. Credit(st) = 0 /\ st \in RunState
  BY <1>4, <1>2, CreditOfWrites, AdvancedSound
<1>6. spent \in {0, 1} /\ spent <= Credit(r.mem) /\ k \in Nat
  BY <1>4 DEF Credit
<1>7. sums \in [Steps -> Summary] /\ j \in 0 .. NumSteps
  <2>1. sums \in [Steps -> Summary]
    BY <1>4 DEF Summary
  <2>2. NumSteps \in Nat
    BY RunExecutionAssumption
  <2>3. j \in 0 .. NumSteps
    BY <1>4, <2>2
  <2>. QED  BY <2>1, <2>3
<1>8. k = r.used + spent
  OBVIOUS
<1>. HIDE DEF st, sums, spent, k, j
<1>9. consumed' = consumed + spent /\ consumed + spent <= approvals
  <2>1. consumed' = consumed + spent
    BY <1>1, <1>2
  <2>2. Credit(r.mem) \in {0, 1} /\ consumed + Credit(r.mem) <= approvals
    BY <1>2, CreditType DEF Covered
  <2>. QED  BY <1>2, <1>6, <2>1, <2>2
<1>10. t \in Request
  BY <1>2, <1>5, <1>6, <1>7 DEF Request, PC
<1>11. t.pc = "loop" /\ t.mem = st /\ t.snap = r.snap /\ t.op = r.op /\ t.used = k
  BY <1>2 DEF Request
<1>12. Covered(t, consumed', approvals)
  <2>1. Credit(r.snap) \in {0, 1} /\ Credit(t.snap) = Credit(r.snap) /\ Credit(t.mem) = 0
    BY <1>5, <1>11, CreditType
  <2>2. consumed' + Credit(t.mem) <= approvals
    BY <1>2, <1>6, <1>9, <2>1
  <2>3. ASSUME t.op = "approve-gate"
        PROVE  consumed' + Credit(t.snap) + 1 <= approvals + t.used
    <3>1. consumed + Credit(r.snap) + 1 <= approvals + r.used
      BY <1>2, <1>11, <2>3 DEF Covered
    <3>. QED  BY <1>2, <1>4, <1>6, <1>8, <1>9, <1>11, <2>1, <3>1
  <2>. QED  BY <1>11, <2>2, <2>3 DEF Covered
<1>13. ASSUME IsRetry(r)
       PROVE  /\ Finished(r) \in Request
              /\ (Finished(r).pc # "idle" => Covered(Finished(r), consumed', approvals))
  <2>1. r.op # "approve-gate"
    BY <1>13 DEF IsRetry
  <2>2. consumed' \in Nat /\ consumed' <= approvals
    BY <1>2, <1>6, <1>9
  <2>. QED  BY <1>2, <2>1, <2>2, FinishedCovered
<1>14. /\ u \in Request
       /\ (u.pc # "idle" => Covered(u, consumed', approvals'))
  BY <1>1, <1>10, <1>12, <1>13
<1>15. consumed' + Credit(stateFile') <= approvals'
  BY <1>1, <1>2, <1>5, <1>6, <1>9
<1>. HIDE DEF t, u
<1>. QED  BY <1>1, <1>3, <1>14, <1>15, StepKeepsAccount

LEMMA ContinueAccount ==
  ASSUME Serial, Account, NEW p \in Requests, Continue(p)
  PROVE  Account'
<1>. IInv /\ IInv'
  BY ContinueStep DEF Account
<1>. DEFINE r == req[p]
<1>a. /\ r \in Request /\ RequestSound(r, approvals) /\ r.mem \in RunState
      /\ r.used \in Nat /\ r.used <= 1 /\ r.at \in 0 .. NumSteps /\ r.snap \in RunState
      /\ (r.pc # "idle" => Covered(r, consumed, approvals))
  BY AccountFacts, Facts, Fields DEF RequestSound
<1>b. r.pc # "idle" => \A q \in Requests : q # p => req[q].pc = "idle"
  BY OthersIdle
<1>c. /\ Idle \in Request /\ Idle.pc = "idle"
      /\ consumed + Credit(stateFile) <= approvals /\ consumed <= approvals
      /\ consumed \in Nat /\ approvals \in Nat
  BY AccountFacts, IdleSound, 0 \in Nat DEF Idle
<1>d. ASSUME FailTask(p, r), UNCHANGED history, r.pc \notin {"idle", "reply"}
      PROVE  Account'
  <2>1. stateFile' = Failed(r.mem, r.at) /\ Set(p, Finished(r))
    BY <1>d DEF FailTask
  <2>2. Credit(stateFile') = Credit(r.mem)
    BY <2>1, <1>a, CreditOfWrites
  <2>. QED  BY <1>d, <2>1, <2>2, FinishAccount
<1>e. ASSUME NEW pc \in PC, pc # "reply", NEW k \in Nat, r.pc \notin {"idle", "reply"},
             \/ Set(p, [r EXCEPT !.pc = pc])
             \/ Set(p, [r EXCEPT !.pc = pc, !.left = k]),
             UNCHANGED <<stateFile, history>>
      PROVE  Account'
  <2>1. CASE Set(p, [r EXCEPT !.pc = pc])
    <3>. DEFINE t == [r EXCEPT !.pc = pc]
    <3>1. /\ t \in Request /\ t.pc = pc /\ t.mem = r.mem /\ t.snap = r.snap
          /\ t.op = r.op /\ t.used = r.used
      BY <1>a DEF Request
    <3>2. Set(p, t)
      BY <2>1
    <3>. HIDE DEF t
    <3>. QED  BY <1>e, <3>1, <3>2, MoveAccount
  <2>2. CASE Set(p, [r EXCEPT !.pc = pc, !.left = k])
    <3>. DEFINE t == [r EXCEPT !.pc = pc, !.left = k]
    <3>1. /\ t \in Request /\ t.pc = pc /\ t.mem = r.mem /\ t.snap = r.snap
          /\ t.op = r.op /\ t.used = r.used
      BY <1>a, <1>e DEF Request
    <3>2. Set(p, t)
      BY <2>2
    <3>. HIDE DEF t
    <3>. QED  BY <1>e, <3>1, <3>2, MoveAccount
  <2>. QED  BY <1>e, <2>1, <2>2
<1>f. ASSUME Set(p, Idle), UNCHANGED history, r.pc # "idle",
             Credit(stateFile') = Credit(stateFile) \/ Credit(stateFile') = Credit(r.mem)
      PROVE  Account'
  <2>1. consumed' = consumed /\ approvals' = approvals
    BY <1>f DEF history
  <2>2. consumed + Credit(r.mem) <= approvals
    BY <1>a, <1>f DEF Covered
  <2>3. consumed' + Credit(stateFile') <= approvals'
    BY <1>c, <1>f, <2>1, <2>2
  <2>. QED  BY <1>b, <1>c, <1>f, <2>3, StepKeepsAccount
<1>1. CASE ApproveGateReply(p)
  <2>1. /\ r.pc = "reply" /\ Set(p, Idle) /\ stateFile' = r.snap
        /\ consumed' = consumed /\ approvals' = approvals
    BY <1>1 DEF ApproveGateReply, history
  <2>2. consumed + Credit(r.snap) <= approvals
    BY <1>a, <2>1 DEF Covered
  <2>. QED  BY <1>b, <1>c, <2>1, <2>2, StepKeepsAccount
<1>2. CASE BuildingExecutes(p)
  <2>. DEFINE st == Begun(r.mem)
              t == [r EXCEPT !.pc = "loop", !.mem = st, !.at = st.index]
  <2>1. /\ r.pc = "emit" /\ stateFile' = st /\ Set(p, t)
        /\ consumed' = consumed /\ approvals' = approvals
    BY <1>2 DEF BuildingExecutes, history
  <2>2. Credit(st) = Credit(r.mem) /\ st \in RunState /\ st.index \in 0 .. NumSteps
    BY <1>a, CreditOfWrites DEF Begun, RunState, RunStatus
  <2>. HIDE DEF st, r
  <2>3. t \in Request
    BY <1>a, <2>2 DEF Request, PC
  <2>4. t.pc = "loop" /\ t.mem = st /\ t.snap = r.snap /\ t.op = r.op /\ t.used = r.used
    BY <1>a DEF Request
  <2>5. Covered(t, consumed, approvals) /\ consumed + Credit(st) <= approvals
    BY <1>a, <2>1, <2>2, <2>4 DEF Covered
  <2>. HIDE DEF t
  <2>. QED  BY <1>b, <2>1, <2>3, <2>5, StepKeepsAccount
<1>3. CASE NextTask(p)
  <2>1. r.pc = "loop" /\ EnterTask(p, r, stateFile) /\ UNCHANGED history
    BY <1>3 DEF NextTask
  <2>. QED  BY <1>a, <1>b, <1>c, <2>1, EnterTaskAccount
<1>4. CASE CompleteRun(p)
  <2>1. /\ r.pc = "loop" /\ Set(p, Finished(r)) /\ UNCHANGED history
        /\ stateFile' = Completed(r.mem)
    BY <1>4 DEF CompleteRun
  <2>2. Credit(stateFile') = Credit(r.mem)
    BY <1>a, <2>1, CreditOfWrites
  <2>. QED  BY <2>1, <2>2, FinishAccount
<1>5. CASE PassApproval(p)
  BY <1>5, <1>e, 0 \in Nat DEF PassApproval, PC
<1>6. CASE PauseForApproval(p)
  <2>1. /\ r.pc = "simulate" /\ Set(p, Finished(r)) /\ UNCHANGED history
        /\ stateFile' = Paused(r.mem, r.at)
    BY <1>6 DEF PauseForApproval
  <2>2. Credit(stateFile') = Credit(r.mem)
    BY <1>a, <2>1, CreditOfWrites
  <2>. QED  BY <2>1, <2>2, FinishAccount
<1>7. CASE ValidationPasses(p)
  <2>. PICK limit \in AttemptLimits :
         \/ /\ limit > 0
            /\ Set(p, [r EXCEPT !.pc = "execute", !.left = limit])
            /\ UNCHANGED stateFile
         \/ /\ limit = 0
            /\ Set(p, Finished(r))
            /\ stateFile' = Failed(r.mem, r.at)
    BY <1>7 DEF ValidationPasses
  <2>1. limit \in Nat /\ r.pc = "validate" /\ UNCHANGED history
    BY <1>7, RunExecutionAssumption DEF ValidationPasses
  <2>2. CASE limit = 0
    <3>1. Set(p, Finished(r)) /\ stateFile' = Failed(r.mem, r.at)
      BY <2>2
    <3>2. Credit(stateFile') = Credit(r.mem)
      BY <1>a, <3>1, CreditOfWrites
    <3>. QED  BY <2>1, <3>1, <3>2, FinishAccount
  <2>3. CASE limit > 0
    <3>1. Set(p, [r EXCEPT !.pc = "execute", !.left = limit]) /\ UNCHANGED stateFile
      BY <2>3
    <3>2. "execute" \in PC
      BY DEF PC
    <3>. QED  BY <1>e, <2>1, <3>1, <3>2
  <2>. QED  BY <2>1, <2>2, <2>3
<1>8. CASE ValidationFails(p)
  BY <1>8, <1>d DEF ValidationFails
<1>9. CASE ExecuteSucceeds(p)
  BY <1>9, <1>e, 0 \in Nat DEF ExecuteSucceeds, PC
<1>10. ASSUME AttemptFails(p), r.pc \in {"execute", "verify"}
       PROVE  Account'
  <2>. DEFINE next == IF r.left > 1 THEN "execute" ELSE "heal"
              k == r.left - 1
  <2>1. Set(p, [r EXCEPT !.pc = next, !.left = k]) /\ UNCHANGED <<stateFile, history>>
    <3>1. Set(p, [r EXCEPT !.left = k, !.pc = next]) /\ UNCHANGED <<stateFile, history>>
      BY <1>10 DEF AttemptFails
    <3>2. [r EXCEPT !.left = k, !.pc = next] = [r EXCEPT !.pc = next, !.left = k]
      BY <1>a DEF Request
    <3>. QED  BY <3>1, <3>2
  <2>2. next \in PC /\ next # "reply"
    BY DEF PC
  <2>3. k \in Nat
    BY <1>10, <1>a, Fields DEF RequestSound
  <2>. HIDE DEF next, k
  <2>. QED  BY <1>10, <1>e, <2>1, <2>2, <2>3
<1>11. CASE ExecuteFails(p) \/ VerifyFails(p)
  BY <1>10, <1>11 DEF ExecuteFails, VerifyFails
<1>12. CASE StepSucceeds(p)
  BY <1>12, StepSucceedsAccount
<1>13. CASE HealingVerified(p)
  <2>1. /\ r.pc = "heal" /\ Set(p, [r EXCEPT !.pc = "execute", !.left = 1])
        /\ UNCHANGED <<stateFile, history>>
    BY <1>13 DEF HealingVerified
  <2>2. "execute" \in PC /\ 1 \in Nat
    BY DEF PC
  <2>. QED  BY <1>e, <2>1, <2>2
<1>14. CASE HealingNeedsApproval(p)
  <2>1. /\ r.pc = "heal" /\ Set(p, Finished(r)) /\ UNCHANGED history
        /\ stateFile' = Paused(r.mem, r.at)
    BY <1>14 DEF HealingNeedsApproval
  <2>2. Credit(stateFile') = Credit(r.mem)
    BY <1>a, <2>1, CreditOfWrites
  <2>. QED  BY <2>1, <2>2, FinishAccount
<1>15. CASE HealingGivesUp(p)
  <2>1. r.pc = "heal" /\ UNCHANGED history
    BY <1>15 DEF HealingGivesUp
  <2>2. CASE r.at \in Rollbackable
    BY <1>15, <2>1, <2>2, <1>e, 0 \in Nat DEF HealingGivesUp, PC
  <2>3. CASE r.at \notin Rollbackable
    BY <1>15, <2>1, <2>3, <1>d DEF HealingGivesUp
  <2>. QED  BY <2>2, <2>3
<1>16. CASE AdapterRollsBack(p)
  BY <1>16, <1>e, 0 \in Nat DEF AdapterRollsBack, PC
<1>17. CASE AutoRollbackDone(p)
  BY <1>17, <1>d DEF AutoRollbackDone
<1>18. CASE ManualRollbackDone(p)
  <2>. DEFINE i == IF r.mem.index > 0 THEN r.mem.index - 1 ELSE r.mem.index
  <2>1. /\ r.pc = "undone" /\ Set(p, Idle) /\ UNCHANGED history
        /\ stateFile' = [r.mem EXCEPT !.index = i]
    BY <1>18 DEF ManualRollbackDone
  <2>2. stateFile'.approved = r.mem.approved
    BY <1>a, <2>1 DEF RunState
  <2>3. Credit(stateFile') = Credit(r.mem)
    BY <2>2 DEF Credit
  <2>. QED  BY <1>f, <2>1, <2>3
<1>19. CASE AdapterThrows(p)
  <2>1. r.pc # "idle" /\ Set(p, Idle) /\ UNCHANGED history /\ stateFile' = stateFile
    BY <1>19 DEF AdapterThrows
  <2>2. Credit(stateFile') = Credit(stateFile)
    BY <2>1
  <2>. QED  BY <1>f, <2>1, <2>2
<1>. QED  BY <1>1, <1>2, <1>3, <1>4, <1>5, <1>6, <1>7, <1>8, <1>9, <1>11, <1>12,
             <1>13, <1>14, <1>15, <1>16, <1>17, <1>18, <1>19 DEF Continue

(* Rejecting changes no approval; a restart leaves no copy but the file.   *)
LEMMA RejectAccount ==
  ASSUME Account, Reject
  PROVE  Account'
<1>1. IInv /\ IInv'
  BY RejectStep DEF Account
<1>2. req' = req /\ consumed' = consumed /\ approvals' = approvals
  BY DEF Reject, history
<1>3. stateFile'.approved = stateFile.approved
  BY <1>1, Facts DEF Reject, RunState
<1>4. Credit(stateFile') = Credit(stateFile)
  BY <1>3 DEF Credit
<1>5. Exclusive'
  BY <1>2 DEF Account, Exclusive
<1>6. \A p \in Requests : req'[p].pc # "idle" => Covered(req'[p], consumed', approvals')
  BY <1>2 DEF Account
<1>. QED  BY <1>1, <1>2, <1>4, <1>5, <1>6 DEF Account

LEMMA AllIdleAccount ==
  ASSUME IInv, AllIdle, consumed + Credit(stateFile) <= approvals
  PROVE  Account
BY DEF Account, AllIdle, Exclusive

LEMMA CrashAccount ==
  ASSUME Account, Crash
  PROVE  Account'
<1>1. IInv /\ IInv' /\ consumed + Credit(stateFile) <= approvals
  BY CrashStep DEF Account
<1>2. /\ req' = [p \in Requests |-> Idle]
      /\ consumed' = consumed /\ approvals' = approvals /\ stateFile' = stateFile
  BY DEF Crash, history
<1>3. \A p \in Requests : req'[p].pc = "idle"
  BY <1>2 DEF Idle
<1>. QED  BY <1>1, <1>2, <1>3 DEF Account, Exclusive

LEMMA InitAccount == Init => Account
<1>. SUFFICES ASSUME Init PROVE Account
  OBVIOUS
<1>1. IInv
  BY InitIInv
<1>2. AllIdle
  BY DEF Init, AllIdle, Idle
<1>3. consumed + Credit(stateFile) <= approvals
  <2>1. stateFile = Planned(approvals > 0)
    BY DEF Init
  <2>2. approvals \in {0, 1} /\ consumed = 0
    BY DEF Init
  <2>3. CASE approvals = 0
    <3>1. (approvals > 0) = FALSE
      BY <2>3
    <3>2. stateFile = Planned(FALSE)
      BY <2>1, <3>1, Zenon
    <3>3. Credit(stateFile) = 0
      BY <3>2, CreditOfIdle, Zenon
    <3>. QED  BY <2>2, <2>3, <3>3
  <2>4. CASE approvals = 1
    <3>1. Credit(stateFile) \in {0, 1}
      BY CreditType
    <3>. QED  BY <2>2, <2>4, <3>1
  <2>. QED  BY <2>2, <2>3, <2>4
<1>. QED  BY <1>1, <1>2, <1>3, AllIdleAccount

LEMMA NextAccount ==
  ASSUME Serial
  PROVE  Account /\ [Next]_vars => Account'
<1>. SUFFICES ASSUME Account, [Next]_vars PROVE Account'
  OBVIOUS
<1>1. CASE UNCHANGED vars
  <2>1. IInv'
    BY NextIInv DEF Account
  <2>. QED  BY <1>1, <2>1 DEF vars, Account, Exclusive
<1>2. CASE Next
  BY <1>2, ArriveAccount, ContinueAccount, RejectAccount, CrashAccount DEF Next
<1>. QED  BY <1>1, <1>2

(* ApprovalsCoverRiskySteps: with serialised requests, no more steps that  *)
(* need an approval succeed than approvals were given, for every plan,     *)
(* every choice of those steps and every number of requests and crashes.   *)
THEOREM ApprovalsCover == Spec => []ApprovalsCoverRiskySteps
<1>1. Account => ApprovalsCoverRiskySteps
  BY AccountFacts DEF ApprovalsCoverRiskySteps
<1>2. CASE Serial
  <2>1. Account /\ [Next]_vars => Account'
    BY <1>2, NextAccount
  <2>. QED  BY <1>1, <2>1, InitAccount, PTL DEF Spec
<1>3. CASE ~ Serial
  <2>1. ApprovalsCoverRiskySteps
    BY <1>3 DEF ApprovalsCoverRiskySteps
  <2>. QED  BY <2>1, PTL
<1>. QED  BY <1>2, <1>3

-----------------------------------------------------------------------------
(* In order: besides being serialised, no request retries a chosen step,   *)
(* rolls one back or writes an old state over the one its execution left.  *)

OutOfOrder == {"approve-gate", "retry", "rollback"}

RunsInOrder == Serial /\ Ops \cap OutOfOrder = {}

(* The copy a request works on is the state on disk; once it has begun, it *)
(* works at the checkpoint.                                                *)
RequestInOrder(r, st, eff) ==
  /\ r.op \notin OutOfOrder
  /\ r.pc # "reply"
  /\ r.mem = st
  /\ r.pc # "emit" => r.at = st.index /\ st.status # "planned"
  /\ r.pc = "verify" => eff[r.at]

(* Exactly the steps before the checkpoint have succeeded, each once.      *)
Progress ==
  /\ \A s \in Steps : successes[s] = IF s < stateFile.index THEN 1 ELSE 0
  /\ \A s \in Steps : s < stateFile.index => effect[s]
  /\ stateFile.status = "completed" => stateFile.index = NumSteps

InOrder ==
  /\ IInv
  /\ Exclusive
  /\ Progress
  /\ \A p \in Requests : req[p].pc # "idle" => RequestInOrder(req[p], stateFile, effect)

LifecycleStep == [Lifecycle!Next]_(Lifecycle!vars)

(* What the state writes do to the two fields the life cycle shows.        *)
LEMMA StatusAndIndex ==
  ASSUME NEW st \in RunState, NEW s
  PROVE  /\ Begun(st).index = st.index
         /\ Begun(st).status = IF st.status = "planned" THEN "running" ELSE st.status
         /\ Approved(st).index = st.index /\ Approved(st).status = st.status
         /\ Failed(st, s).index = s /\ Failed(st, s).status = "failed"
         /\ Paused(st, s).index = s /\ Paused(st, s).status = "paused"
         /\ Completed(st).index = NumSteps /\ Completed(st).status = "completed"
<1>1. /\ Begun(st).index = st.index
      /\ Begun(st).status = IF st.status = "planned" THEN "running" ELSE st.status
  BY DEF Begun, RunState
<1>2. Approved(st).index = st.index /\ Approved(st).status = st.status
  BY DEF Approved, RunState
<1>3. Failed(st, s).index = s /\ Failed(st, s).status = "failed"
  BY DEF Failed, RunState
<1>4. Paused(st, s).index = s /\ Paused(st, s).status = "paused"
  BY DEF Paused, RunState
<1>5. Completed(st).index = NumSteps /\ Completed(st).status = "completed"
  BY DEF Completed, RunState
<1>. QED  BY <1>1, <1>2, <1>3, <1>4, <1>5

LEMMA StatusAndIndexAdvanced ==
  ASSUME NEW st \in RunState, NEW s \in 0 .. NumSteps
  PROVE  Advanced(st, s).index = s + 1 /\ Advanced(st, s).status = st.status
<1>. DEFINE i == s + 1
<1>1. Advanced(st, s) = [st EXCEPT !.index = i, !.approved = FALSE, !.approvalRequired = FALSE]
  BY DEF Advanced
<1>. HIDE DEF i
<1>2. Advanced(st, s).index = i /\ Advanced(st, s).status = st.status
  BY <1>1 DEF RunState
<1>. QED  BY <1>2 DEF i

(* How the status may change while the checkpoint stays.                   *)
StatusStep ==
  \/ stateFile'.status = stateFile.status
  \/ stateFile.status = "planned" /\ stateFile'.status = "running"
  \/ stateFile.index < NumSteps /\ stateFile'.status \in {"running", "paused", "failed"}
  \/ stateFile'.status = "cancelled"
  \/ stateFile.index = NumSteps /\ stateFile'.status = "completed"

LEMMA QuietStepIsLifecycleStep ==
  ASSUME InOrder, stateFile'.index = stateFile.index, successes' = successes, StatusStep
  PROVE  LifecycleStep
<1>1. stateFile'.index = stateFile.index /\ DoneSteps' = DoneSteps
  BY DEF DoneSteps
<1>. HIDE DEF DoneSteps
<1>. QED  BY <1>1 DEF StatusStep, LifecycleStep, Lifecycle!Next, Lifecycle!vars, Lifecycle!Begin,
       Lifecycle!Reopen, Lifecycle!Stop, Lifecycle!Cancel, Lifecycle!Complete

LEMMA QuietStepKeepsProgress ==
  ASSUME InOrder, IInv', stateFile'.index = stateFile.index, successes' = successes, StatusStep,
         \A s \in Steps : effect[s] /\ s # stateFile.index => effect'[s]
  PROVE  Progress'
<1>1. stateFile.index \in 0 .. NumSteps /\ NumSteps \in Nat
  BY RunExecutionAssumption DEF InOrder, IInv, TypeOK, RunState
<1>2. \A s \in Steps : s < stateFile.index => s # stateFile.index
  BY <1>1 DEF Steps
<1>3. \A s \in Steps : s < stateFile'.index => effect'[s]
  BY <1>2 DEF InOrder, Progress
<1>4. stateFile'.status = "completed" => stateFile'.index = NumSteps
  BY DEF InOrder, Progress, StatusStep
<1>. QED  BY <1>3, <1>4 DEF InOrder, Progress

(* What an action of a request has to show, if no step succeeds in it.     *)
LEMMA QuietStepInOrder ==
  ASSUME InOrder, IInv', NEW p \in Requests, NEW r \in Request, Set(p, r),
         \A q \in Requests : q # p => req[q].pc = "idle",
         stateFile'.index = stateFile.index, successes' = successes, StatusStep,
         \A s \in Steps : effect[s] /\ s # stateFile.index => effect'[s],
         r.pc # "idle" => RequestInOrder(r, stateFile', effect')
  PROVE  InOrder' /\ LifecycleStep
<1>1. Progress' /\ LifecycleStep
  BY QuietStepKeepsProgress, QuietStepIsLifecycleStep
<1>2. req' = [req EXCEPT ![p] = r] /\ req \in [Requests -> Request]
  BY DEF Set, InOrder, IInv, TypeOK
<1>3. req'[p] = r /\ \A q \in Requests : q # p => req'[q].pc = "idle"
  BY <1>2
<1>4. Exclusive'
  BY <1>3 DEF Exclusive
<1>5. \A q \in Requests : req'[q].pc # "idle" => RequestInOrder(req'[q], stateFile', effect')
  BY <1>3
<1>. QED  BY <1>1, <1>4, <1>5 DEF InOrder
LEMMA OthersIdleInOrder ==
  ASSUME InOrder, NEW p \in Requests, req[p].pc # "idle"
  PROVE  \A q \in Requests : q # p => req[q].pc = "idle"
BY DEF InOrder, Exclusive

LEMMA InOrderFacts ==
  ASSUME InOrder
  PROVE  /\ IInv /\ Progress /\ stateFile \in RunState
         /\ stateFile.index \in 0 .. NumSteps /\ NumSteps \in Nat
         /\ effect \in [Steps -> BOOLEAN] /\ successes \in [Steps -> 0 .. 2]
         /\ \A p \in Requests : /\ req[p] \in Request
                                /\ req[p].pc # "idle" => RequestInOrder(req[p], stateFile, effect)
BY RunExecutionAssumption DEF InOrder, IInv, TypeOK, RunState

LEMMA FinishedInOrder ==
  ASSUME NEW r, r.op \notin OutOfOrder
  PROVE  Finished(r) = Idle /\ Idle \in Request /\ Idle.pc = "idle"
BY IdleSound, 0 \in Nat DEF Finished, OutOfOrder, Idle

LEMMA FailTaskInOrder ==
  ASSUME InOrder, IInv', NEW p \in Requests, NEW r \in Request, r.op \notin OutOfOrder,
         r.at = stateFile.index, r.at < NumSteps, FailTask(p, r),
         UNCHANGED <<effect, history>>, \A q \in Requests : q # p => req[q].pc = "idle"
  PROVE  InOrder' /\ LifecycleStep
<1>1. Set(p, Idle) /\ Idle \in Request /\ Idle.pc = "idle"
  BY FinishedInOrder DEF FailTask
<1>2. /\ stateFile'.index = stateFile.index /\ stateFile'.status = "failed"
      /\ successes' = successes /\ effect' = effect
  BY Fields, StatusAndIndex DEF FailTask, history
<1>3. StatusStep
  BY <1>2 DEF StatusStep
<1>. QED  BY <1>1, <1>2, <1>3, QuietStepInOrder

LEMMA EnterTaskInOrder ==
  ASSUME InOrder, IInv', NEW p \in Requests, NEW r \in Request, r.op \notin OutOfOrder,
         r.at = stateFile.index, r.at < NumSteps,
         NEW saved, r.mem = saved, saved.index = r.at, saved.status # "planned",
         saved.status \in {stateFile.status, "running"}, EnterTask(p, r, saved),
         UNCHANGED <<effect, history>>, \A q \in Requests : q # p => req[q].pc = "idle"
  PROVE  InOrder' /\ LifecycleStep
<1>1. CASE FailTask(p, r)
  BY <1>1, FailTaskInOrder
<1>2. CASE Set(p, [r EXCEPT !.pc = "simulate"]) /\ stateFile' = saved
  <2>. DEFINE t == [r EXCEPT !.pc = "simulate"]
  <2>1. t \in Request /\ t.pc = "simulate" /\ t.mem = r.mem /\ t.op = r.op /\ t.at = r.at
    BY DEF Request, PC
  <2>2. Set(p, t) /\ stateFile' = saved /\ successes' = successes /\ effect' = effect
    BY <1>2 DEF history
  <2>. HIDE DEF t
  <2>3. RequestInOrder(t, stateFile', effect')
    BY <2>1, <2>2 DEF RequestInOrder
  <2>4. StatusStep
    BY <2>2 DEF StatusStep
  <2>. QED  BY <2>1, <2>2, <2>3, <2>4, QuietStepInOrder
<1>. QED  BY <1>1, <1>2 DEF EnterTask

LEMMA ResumeWithInOrder ==
  ASSUME InOrder, IInv', NEW p \in Requests, NEW r \in Request, r.op \notin OutOfOrder,
         NEW st \in RunState, st.index = stateFile.index, st.status = stateFile.status,
         ResumeWith(p, r, st), \A q \in Requests : q # p => req[q].pc = "idle"
  PROVE  InOrder' /\ LifecycleStep
<1>1. successes' = successes /\ effect' = effect
  BY DEF ResumeWith
<1>2. CASE st.status = "completed"
  <2>1. stateFile' = st /\ Set(p, Idle) /\ Idle \in Request /\ Idle.pc = "idle"
    BY <1>2, FinishedInOrder DEF ResumeWith
  <2>2. StatusStep
    BY <2>1 DEF StatusStep
  <2>. QED  BY <1>1, <2>1, <2>2, QuietStepInOrder
<1>3. CASE st.status # "completed"
  <2>. DEFINE t == [r EXCEPT !.pc = "loop", !.mem = Begun(st), !.at = st.index]
  <2>1. Set(p, t) /\ stateFile' = Begun(st)
    BY <1>3 DEF ResumeWith
  <2>2. Begun(st) \in RunState /\ st.index \in 0 .. NumSteps
    BY DEF Begun, RunState, RunStatus
  <2>3. t \in Request
    BY <2>2 DEF Request, PC
  <2>4. t.pc = "loop" /\ t.mem = Begun(st) /\ t.op = r.op /\ t.at = st.index
    BY DEF Request
  <2>5. /\ Begun(st).index = st.index
        /\ Begun(st).status = IF st.status = "planned" THEN "running" ELSE st.status
    BY StatusAndIndex
  <2>. HIDE DEF t
  <2>6. RequestInOrder(t, stateFile', effect')
    BY <2>1, <2>4, <2>5 DEF RequestInOrder
  <2>7. StatusStep
    BY <2>1, <2>5 DEF StatusStep
  <2>. QED  BY <1>1, <2>1, <2>3, <2>5, <2>6, <2>7, QuietStepInOrder
<1>. QED  BY <1>2, <1>3

LEMMA ArriveInOrder ==
  ASSUME RunsInOrder, InOrder, NEW p \in Requests, Arrive(p)
  PROVE  InOrder' /\ LifecycleStep
<1>. IInv /\ IInv'
  BY ArriveStep DEF InOrder
<1>a. ASSUME NEW op, MayStart(p, op)
      PROVE  op \notin OutOfOrder /\ \A q \in Requests : q # p => req[q].pc = "idle"
  BY <1>a DEF MayStart, AllIdle, RunsInOrder
<1>b. stateFile \in RunState /\ stateFile.index \in 0 .. NumSteps
  BY InOrderFacts
<1>1. CASE Resume(p)
  <2>. DEFINE l == Loaded("resume")
  <2>1. /\ ResumeWith(p, l, stateFile)
        /\ \A q \in Requests : q # p => req[q].pc = "idle"
    BY <1>1, <1>a DEF Resume
  <2>2. l \in Request /\ l.op \notin OutOfOrder
    BY LoadedSound DEF OpNames, OutOfOrder
  <2>. HIDE DEF l
  <2>. QED  BY <1>b, <2>1, <2>2, ResumeWithInOrder
<1>2. CASE Approve(p)
  <2>. DEFINE l == Loaded("approve")
              st == Approved(stateFile)
  <2>1. /\ ResumeWith(p, l, st)
        /\ \A q \in Requests : q # p => req[q].pc = "idle"
    BY <1>2, <1>a DEF Approve
  <2>2. l \in Request /\ l.op \notin OutOfOrder
    BY LoadedSound DEF OpNames, OutOfOrder
  <2>3. st \in RunState /\ st.index = stateFile.index /\ st.status = stateFile.status
    BY <1>b, StatusAndIndex DEF Approved, RunState
  <2>. HIDE DEF l, st
  <2>. QED  BY <2>1, <2>2, <2>3, ResumeWithInOrder
<1>3. CASE Building(p)
  <2>. DEFINE l == Loaded("building")
              t == [l EXCEPT !.pc = "emit"]
  <2>1. /\ Set(p, t) /\ stateFile' = stateFile /\ effect' = effect /\ successes' = successes
        /\ \A q \in Requests : q # p => req[q].pc = "idle"
    BY <1>3, <1>a DEF Building, history
  <2>2. l \in Request /\ l.mem = stateFile /\ l.op \notin OutOfOrder
    BY LoadedSound DEF OpNames, OutOfOrder
  <2>. HIDE DEF l
  <2>3. t \in Request /\ t.mem = stateFile /\ t.op \notin OutOfOrder /\ t.pc = "emit"
    BY <2>2 DEF Request, PC
  <2>. HIDE DEF t
  <2>4. RequestInOrder(t, stateFile', effect') /\ StatusStep
    BY <2>1, <2>3 DEF RequestInOrder, StatusStep
  <2>. QED  BY <2>1, <2>3, <2>4, QuietStepInOrder
<1>4. CASE RetryCurrent(p)
  <2>. DEFINE l == Loaded("retry-current")
              s == stateFile.index
              st == [stateFile EXCEPT !.index = s, !.status = "running"]
              t == [l EXCEPT !.mem = st, !.at = s]
  <2>1. /\ EnterTask(p, t, st) /\ UNCHANGED <<effect, history>> /\ s < NumSteps
        /\ \A q \in Requests : q # p => req[q].pc = "idle"
    BY <1>4, <1>a DEF RetryCurrent, RetryStep
  <2>2. l \in Request /\ l.op \notin OutOfOrder
    BY LoadedSound DEF OpNames, OutOfOrder
  <2>3. st \in RunState /\ st.index = s /\ st.status = "running"
    BY <1>b DEF RunState, RunStatus
  <2>. HIDE DEF l, st
  <2>4. t \in Request /\ t.op \notin OutOfOrder /\ t.mem = st /\ t.at = s
    BY <1>b, <2>2, <2>3 DEF Request
  <2>. HIDE DEF t
  <2>. QED  BY <2>1, <2>3, <2>4, EnterTaskInOrder
<1>5. ~ ApproveGate(p) /\ ~ \E s \in Steps : Retry(p, s) \/ Rollback(p, s)
  BY <1>a DEF ApproveGate, Retry, Rollback, OutOfOrder
<1>. QED  BY <1>1, <1>2, <1>3, <1>4, <1>5 DEF Arrive

(* A request that has begun moves on, and the state stays.                 *)
LEMMA MoveInOrder ==
  ASSUME InOrder, IInv', NEW p \in Requests, req[p].pc \notin {"idle", "emit"},
         NEW t \in Request, Set(p, t), t.pc # "reply",
         t.mem = req[p].mem, t.op = req[p].op, t.at = req[p].at,
         UNCHANGED <<stateFile, history>>,
         \A s \in Steps : effect[s] /\ s # stateFile.index => effect'[s],
         t.pc = "verify" => effect'[t.at]
  PROVE  InOrder' /\ LifecycleStep
<1>1. RequestInOrder(req[p], stateFile, effect)
  BY InOrderFacts
<1>2. stateFile' = stateFile /\ successes' = successes
  BY DEF history
<1>3. RequestInOrder(t, stateFile', effect') /\ StatusStep
  BY <1>1, <1>2 DEF RequestInOrder, StatusStep
<1>4. \A q \in Requests : q # p => req[q].pc = "idle"
  BY OthersIdleInOrder
<1>. QED  BY <1>2, <1>3, <1>4, QuietStepInOrder

(* A request is answered, having written a state at its checkpoint.        *)
LEMMA FinishInOrder ==
  ASSUME InOrder, IInv', NEW p \in Requests, req[p].pc # "idle",
         Set(p, Finished(req[p])) \/ Set(p, Idle),
         stateFile'.index = stateFile.index, StatusStep,
         UNCHANGED history,
         \A s \in Steps : effect[s] /\ s # stateFile.index => effect'[s]
  PROVE  InOrder' /\ LifecycleStep
<1>1. RequestInOrder(req[p], stateFile, effect)
  BY InOrderFacts
<1>2. Set(p, Idle) /\ Idle \in Request /\ Idle.pc = "idle"
  BY <1>1, FinishedInOrder, IdleSound, 0 \in Nat DEF RequestInOrder, Idle
<1>3. successes' = successes
  BY DEF history
<1>4. \A q \in Requests : q # p => req[q].pc = "idle"
  BY OthersIdleInOrder
<1>. QED  BY <1>2, <1>3, <1>4, QuietStepInOrder

(* The step at the checkpoint succeeds, which takes it to the next.        *)
LEMMA StepSucceedsInOrder ==
  ASSUME InOrder, IInv', NEW p \in Requests, StepSucceeds(p)
  PROVE  InOrder' /\ LifecycleStep
<1>. DEFINE r == req[p]
            st == Advanced(r.mem, r.at)
            sums == [r.sums EXCEPT ![r.at] = "success"]
            spent == IF r.at \in NeedsApproval THEN 1 ELSE 0
            k == r.used + spent
            j == r.at + 1
            t == [r EXCEPT !.pc = "loop", !.mem = st, !.sums = sums, !.at = j,
                           !.left = 0, !.used = k]
            u == IF IsRetry(r) THEN Finished(r) ELSE t
            x == stateFile.index
            c == IF successes[x] = 2 THEN 2 ELSE successes[x] + 1
<1>1. /\ r \in Request /\ RequestInOrder(r, stateFile, effect) /\ r.pc = "verify"
      /\ RequestSound(r, approvals)
  BY InOrderFacts, Facts DEF StepSucceeds
<1>2. /\ r.at = x /\ r.mem = stateFile /\ stateFile.status # "planned"
      /\ r.op \notin OutOfOrder /\ x \in Nat /\ x < NumSteps /\ x \in Steps
      /\ NumSteps \in Nat /\ effect \in [Steps -> BOOLEAN] /\ successes \in [Steps -> 0 .. 2]
      /\ stateFile \in RunState /\ x \in 0 .. NumSteps /\ effect[x]
  BY <1>1, InOrderFacts DEF RequestInOrder, RequestSound, InTask, Steps
<1>3. stateFile' = st /\ Set(p, u) /\ effect' = effect
  BY DEF StepSucceeds
<1>4. successes' = [successes EXCEPT ![x] = c]
  BY <1>2 DEF StepSucceeds
<1>5. successes[x] = 0 /\ c = 1
  <2>1. successes[x] = IF x < x THEN 1 ELSE 0
    BY <1>2, InOrderFacts DEF Progress
  <2>. QED  BY <1>2, <2>1
<1>6. stateFile'.index = x + 1 /\ stateFile'.status = stateFile.status
  BY <1>2, <1>3, StatusAndIndexAdvanced
<1>7. \A s \in Steps : successes'[s] = IF s < x + 1 THEN 1 ELSE 0
  <2>. SUFFICES ASSUME NEW s \in Steps
                PROVE  successes'[s] = IF s < x + 1 THEN 1 ELSE 0
    OBVIOUS
  <2>1. s \in Nat /\ successes[s] = IF s < x THEN 1 ELSE 0
    BY <1>2, InOrderFacts DEF Progress, Steps
  <2>2. CASE s = x
    BY <1>2, <1>4, <1>5, <2>2
  <2>3. CASE s # x
    <3>1. successes'[s] = successes[s]
      BY <1>4, <2>3, <1>2
    <3>. QED  BY <1>2, <2>1, <2>3, <3>1
  <2>. QED  BY <2>2, <2>3
<1>8. \A s \in Steps : s < x + 1 => effect'[s]
  <2>. SUFFICES ASSUME NEW s \in Steps, s < x + 1
                PROVE  effect[s]
    BY <1>3
  <2>1. s < x \/ s = x
    BY <1>2 DEF Steps
  <2>. QED  BY <1>2, <2>1, InOrderFacts DEF Progress
<1>9. stateFile'.status # "completed"
  BY <1>2, <1>6, InOrderFacts DEF Progress
<1>10. Progress'
  BY <1>6, <1>7, <1>8, <1>9 DEF Progress
<1>11. \A q \in Requests : q # p => req[q].pc = "idle"
  BY <1>1, OthersIdleInOrder
<1>12. LifecycleStep
  <2>1. DoneSteps' = DoneSteps \cup {x}
    <3>1. \A s \in Steps : successes'[s] > 0 <=> s < x + 1
      BY <1>7
    <3>2. \A s \in Steps : successes[s] > 0 <=> s < x
      BY InOrderFacts DEF Progress
    <3>3. \A s \in Steps : s < x + 1 <=> s < x \/ s = x
      BY <1>2 DEF Steps
    <3>. QED  BY <3>1, <3>2, <3>3, <1>2 DEF DoneSteps
  <2>. HIDE DEF DoneSteps
  <2>2. Lifecycle!StepDone
    BY <1>2, <1>6, <2>1 DEF Lifecycle!StepDone
  <2>. QED  BY <2>2 DEF LifecycleStep, Lifecycle!Next
<1>13. Idle \in Request /\ Idle.pc = "idle" /\ Finished(r) = Idle
  BY <1>2, FinishedInOrder
<1>14. t.pc = "loop" /\ t.mem = st /\ t.op = r.op /\ t.at = j
  BY <1>1 DEF Request
<1>15. RequestInOrder(t, stateFile', effect')
  BY <1>2, <1>3, <1>6, <1>14 DEF RequestInOrder
<1>16. u.pc # "idle" => RequestInOrder(u, stateFile', effect')
  BY <1>13, <1>15
<1>17. req' = [req EXCEPT ![p] = u] /\ req \in [Requests -> Request]
  BY <1>3 DEF Set, InOrder, IInv, TypeOK
<1>. HIDE DEF u
<1>18. req'[p] = u /\ \A q \in Requests : q # p => req'[q].pc = "idle"
  BY <1>11, <1>17
<1>19. Exclusive'
  BY <1>18 DEF Exclusive
<1>20. \A q \in Requests : req'[q].pc # "idle" => RequestInOrder(req'[q], stateFile', effect')
  BY <1>16, <1>18
<1>. QED  BY <1>10, <1>12, <1>19, <1>20 DEF InOrder

LEMMA ContinueInOrder ==
  ASSUME InOrder, NEW p \in Requests, Continue(p)
  PROVE  InOrder' /\ LifecycleStep
<1>. IInv /\ IInv'
  BY ContinueStep DEF InOrder
<1>. DEFINE r == req[p]
<1>0. req[p].pc # "idle"
  BY DEF Continue, ApproveGateReply, BuildingExecutes, NextTask, CompleteRun, PassApproval,
         PauseForApproval, ValidationPasses, ValidationFails, ExecuteSucceeds, ExecuteFails,
         VerifyFails, StepSucceeds, HealingVerified, HealingNeedsApproval, HealingGivesUp,
         AdapterRollsBack, AutoRollbackDone, ManualRollbackDone, AdapterThrows
<1>a. /\ r \in Request /\ RequestInOrder(r, stateFile, effect) /\ RequestSound(r, approvals)
      /\ r.op \notin OutOfOrder /\ r.pc # "reply" /\ r.mem = stateFile
      /\ r.pc # "emit" => r.at = stateFile.index /\ stateFile.status # "planned"
      /\ r.pc \in InTask => r.at < NumSteps
      /\ stateFile \in RunState /\ stateFile.index \in 0 .. NumSteps /\ NumSteps \in Nat
      /\ effect \in [Steps -> BOOLEAN] /\ r.left \in Nat
  BY <1>0, InOrderFacts, Facts, Fields DEF RequestInOrder, RequestSound
<1>b. \A q \in Requests : q # p => req[q].pc = "idle"
  BY <1>0, OthersIdleInOrder
<1>c. ASSUME FailTask(p, r), UNCHANGED <<effect, history>>, r.pc \in InTask \cup {"loop"},
             r.at < NumSteps
      PROVE  InOrder' /\ LifecycleStep
  BY <1>a, <1>b, <1>c, FailTaskInOrder DEF InTask
<1>d. ASSUME NEW pc \in PC, NEW k \in Nat, pc # "reply", pc # "verify",
             \/ Set(p, [r EXCEPT !.pc = pc])
             \/ Set(p, [r EXCEPT !.pc = pc, !.left = k]),
             r.pc # "emit", UNCHANGED <<stateFile, history>>,
             \A s \in Steps : effect[s] /\ s # stateFile.index => effect'[s]
      PROVE  InOrder' /\ LifecycleStep
  <2>1. CASE Set(p, [r EXCEPT !.pc = pc])
    <3>. DEFINE u == [r EXCEPT !.pc = pc]
    <3>1. u \in Request /\ u.pc = pc /\ u.mem = r.mem /\ u.op = r.op /\ u.at = r.at
      BY <1>a DEF Request
    <3>2. Set(p, u)
      BY <2>1
    <3>. HIDE DEF u
    <3>. QED  BY <1>0, <1>d, <3>1, <3>2, MoveInOrder
  <2>2. CASE Set(p, [r EXCEPT !.pc = pc, !.left = k])
    <3>. DEFINE u == [r EXCEPT !.pc = pc, !.left = k]
    <3>1. u \in Request /\ u.pc = pc /\ u.mem = r.mem /\ u.op = r.op /\ u.at = r.at
      BY <1>a DEF Request
    <3>2. Set(p, u)
      BY <2>2
    <3>. HIDE DEF u
    <3>. QED  BY <1>0, <1>d, <3>1, <3>2, MoveInOrder
  <2>. QED  BY <1>d, <2>1, <2>2
<1>e. ASSUME Set(p, Finished(r)), r.pc \in InTask, UNCHANGED <<effect, history>>,
             stateFile' \in {Failed(r.mem, r.at), Paused(r.mem, r.at)}
      PROVE  InOrder' /\ LifecycleStep
  <2>1. /\ stateFile'.index = stateFile.index /\ stateFile'.status \in {"paused", "failed"}
        /\ stateFile.index < NumSteps
    BY <1>a, <1>e, StatusAndIndex DEF InTask
  <2>2. StatusStep
    BY <2>1 DEF StatusStep
  <2>. QED  BY <1>0, <1>e, <2>1, <2>2, FinishInOrder
<1>1. ~ ApproveGateReply(p) /\ ~ ManualRollbackDone(p)
  BY <1>a DEF ApproveGateReply, ManualRollbackDone, OutOfOrder
<1>2. CASE BuildingExecutes(p)
  <2>. DEFINE st == Begun(r.mem)
              t == [r EXCEPT !.pc = "loop", !.mem = st, !.at = st.index]
  <2>1. stateFile' = st /\ Set(p, t) /\ effect' = effect /\ successes' = successes
    BY <1>2 DEF BuildingExecutes, history
  <2>2. /\ st \in RunState /\ st.index = stateFile.index /\ st.index \in 0 .. NumSteps
        /\ st.status = IF stateFile.status = "planned" THEN "running" ELSE stateFile.status
    BY <1>a, StatusAndIndex DEF Begun, RunState, RunStatus
  <2>. HIDE DEF st, r
  <2>3. t \in Request
    BY <1>a, <2>2 DEF Request, PC
  <2>4. t.pc = "loop" /\ t.mem = st /\ t.op = r.op /\ t.at = st.index
    BY <1>a DEF Request
  <2>. HIDE DEF t
  <2>5. RequestInOrder(t, stateFile', effect')
    BY <1>a, <2>1, <2>2, <2>4 DEF RequestInOrder
  <2>6. StatusStep
    BY <2>1, <2>2 DEF StatusStep
  <2>. QED  BY <1>b, <2>1, <2>2, <2>3, <2>5, <2>6, QuietStepInOrder
<1>3. CASE NextTask(p)
  <2>1. r.pc = "loop" /\ r.at < NumSteps /\ EnterTask(p, r, stateFile) /\ UNCHANGED <<effect, history>>
    BY <1>3 DEF NextTask
  <2>. QED  BY <1>a, <1>b, <2>1, EnterTaskInOrder
<1>4. CASE CompleteRun(p)
  <2>1. /\ r.pc = "loop" /\ r.at = NumSteps /\ Set(p, Finished(r)) /\ UNCHANGED <<effect, history>>
        /\ stateFile' = Completed(r.mem)
    BY <1>4 DEF CompleteRun
  <2>2. stateFile'.index = stateFile.index /\ stateFile'.status = "completed"
        /\ stateFile.index = NumSteps
    BY <1>a, <2>1, StatusAndIndex
  <2>3. StatusStep
    BY <2>2 DEF StatusStep
  <2>. QED  BY <1>0, <2>1, <2>2, <2>3, FinishInOrder
<1>5. CASE PassApproval(p)
  BY <1>5, <1>d, 0 \in Nat DEF PassApproval, PC
<1>6. CASE PauseForApproval(p)
  BY <1>6, <1>e DEF PauseForApproval, InTask
<1>7. CASE ValidationPasses(p)
  <2>. PICK limit \in AttemptLimits :
         \/ /\ limit > 0
            /\ Set(p, [r EXCEPT !.pc = "execute", !.left = limit])
            /\ UNCHANGED stateFile
         \/ /\ limit = 0
            /\ Set(p, Finished(r))
            /\ stateFile' = Failed(r.mem, r.at)
    BY <1>7 DEF ValidationPasses
  <2>1. limit \in Nat /\ r.pc = "validate" /\ UNCHANGED <<effect, history>>
    BY <1>7, RunExecutionAssumption DEF ValidationPasses
  <2>2. CASE limit = 0
    BY <1>e, <2>1, <2>2 DEF InTask
  <2>3. CASE limit > 0
    <3>1. Set(p, [r EXCEPT !.pc = "execute", !.left = limit]) /\ UNCHANGED stateFile
      BY <2>3
    <3>2. "execute" \in PC
      BY DEF PC
    <3>. QED  BY <1>d, <2>1, <3>1, <3>2
  <2>. QED  BY <2>1, <2>2, <2>3
<1>8. CASE ValidationFails(p)
  BY <1>8, <1>a, <1>c DEF ValidationFails, InTask
<1>9. CASE ExecuteSucceeds(p)
  <2>. DEFINE t == [r EXCEPT !.pc = "verify"]
  <2>1. /\ r.pc = "execute" /\ Set(p, t) /\ UNCHANGED <<stateFile, history>>
        /\ effect' = [effect EXCEPT ![r.at] = TRUE]
    BY <1>9 DEF ExecuteSucceeds
  <2>2. t \in Request /\ t.pc = "verify" /\ t.mem = r.mem /\ t.op = r.op /\ t.at = r.at
    BY <1>a DEF Request, PC
  <2>3. effect'[t.at] /\ \A s \in Steps : effect[s] => effect'[s]
    BY <1>a, <2>1, <2>2 DEF Steps, InTask
  <2>. HIDE DEF t
  <2>. QED  BY <2>1, <2>2, <2>3, MoveInOrder
<1>10. ASSUME AttemptFails(p), r.pc \in {"execute", "verify"},
              effect' \in {effect, [effect EXCEPT ![r.at] = TRUE]}
       PROVE  InOrder' /\ LifecycleStep
  <2>. DEFINE next == IF r.left > 1 THEN "execute" ELSE "heal"
              k == r.left - 1
  <2>1. Set(p, [r EXCEPT !.pc = next, !.left = k]) /\ UNCHANGED <<stateFile, history>>
    <3>1. Set(p, [r EXCEPT !.left = k, !.pc = next]) /\ UNCHANGED <<stateFile, history>>
      BY <1>10 DEF AttemptFails
    <3>2. [r EXCEPT !.left = k, !.pc = next] = [r EXCEPT !.pc = next, !.left = k]
      BY <1>a DEF Request
    <3>. QED  BY <3>1, <3>2
  <2>2. next \in PC /\ next # "reply" /\ next # "verify"
    BY DEF PC
  <2>3. k \in Nat
    BY <1>10, <1>a DEF RequestSound
  <2>4. \A s \in Steps : effect[s] => effect'[s]
    BY <1>a, <1>10 DEF Steps
  <2>. HIDE DEF next, k
  <2>. QED  BY <1>10, <1>d, <2>1, <2>2, <2>3, <2>4
<1>11. CASE ExecuteFails(p) \/ VerifyFails(p)
  BY <1>10, <1>11 DEF ExecuteFails, VerifyFails
<1>12. CASE StepSucceeds(p)
  BY <1>12, StepSucceedsInOrder
<1>13. CASE HealingVerified(p)
  <2>1. /\ r.pc = "heal" /\ Set(p, [r EXCEPT !.pc = "execute", !.left = 1])
        /\ UNCHANGED <<stateFile, history>> /\ effect' = effect
    BY <1>13 DEF HealingVerified
  <2>2. "execute" \in PC /\ 1 \in Nat
    BY DEF PC
  <2>. QED  BY <1>d, <2>1, <2>2
<1>14. CASE HealingNeedsApproval(p)
  BY <1>14, <1>e DEF HealingNeedsApproval, InTask
<1>15. CASE HealingGivesUp(p)
  <2>1. r.pc = "heal" /\ UNCHANGED <<effect, history>>
    BY <1>15 DEF HealingGivesUp
  <2>2. CASE r.at \in Rollbackable
    BY <1>15, <2>1, <2>2, <1>d, 0 \in Nat DEF HealingGivesUp, PC
  <2>3. CASE r.at \notin Rollbackable
    BY <1>15, <2>1, <2>3, <1>a, <1>c DEF HealingGivesUp, InTask
  <2>. QED  BY <2>2, <2>3
<1>16. CASE AdapterRollsBack(p)
  <2>1. /\ r.pc = "rollback" /\ Set(p, [r EXCEPT !.pc = "undone"])
        /\ UNCHANGED <<stateFile, history>> /\ effect' = [effect EXCEPT ![r.at] = FALSE]
    BY <1>16 DEF AdapterRollsBack
  <2>2. \A s \in Steps : effect[s] /\ s # stateFile.index => effect'[s]
    BY <1>a, <2>1
  <2>. QED  BY <1>d, <2>1, <2>2, 0 \in Nat DEF PC
<1>17. CASE AutoRollbackDone(p)
  BY <1>17, <1>a, <1>c DEF AutoRollbackDone, InTask
<1>18. CASE AdapterThrows(p)
  <2>1. /\ r.pc \in {"simulate", "validate", "rollback"} /\ Set(p, Idle)
        /\ UNCHANGED history /\ stateFile' = stateFile
    BY <1>18 DEF AdapterThrows
  <2>2. \A s \in Steps : effect[s] /\ s # stateFile.index => effect'[s]
    BY <1>a, <2>1, <1>18 DEF AdapterThrows
  <2>3. StatusStep
    BY <2>1 DEF StatusStep
  <2>. QED  BY <1>0, <2>1, <2>2, <2>3, FinishInOrder
<1>. QED  BY <1>1, <1>2, <1>3, <1>4, <1>5, <1>6, <1>7, <1>8, <1>9, <1>11, <1>12,
             <1>13, <1>14, <1>15, <1>16, <1>17, <1>18 DEF Continue

(* A rejection finds no request in flight; a restart leaves none.          *)
LEMMA RejectInOrder ==
  ASSUME RunsInOrder, InOrder, Reject
  PROVE  InOrder' /\ LifecycleStep
<1>1. IInv /\ IInv' /\ stateFile \in RunState
  BY RejectStep, InOrderFacts DEF InOrder
<1>2. AllIdle /\ req' = req /\ effect' = effect /\ successes' = successes
  BY DEF Reject, history, RunsInOrder
<1>3. stateFile'.index = stateFile.index /\ stateFile'.status = "cancelled"
  BY <1>1 DEF Reject, RunState
<1>4. StatusStep
  BY <1>3 DEF StatusStep
<1>5. Progress' /\ LifecycleStep
  BY <1>1, <1>2, <1>3, <1>4, QuietStepKeepsProgress, QuietStepIsLifecycleStep
<1>. QED  BY <1>1, <1>2, <1>5 DEF InOrder, AllIdle, Exclusive

LEMMA CrashInOrder ==
  ASSUME InOrder, Crash
  PROVE  InOrder' /\ LifecycleStep
<1>1. IInv'
  BY CrashStep DEF InOrder
<1>2. /\ req' = [p \in Requests |-> Idle] /\ stateFile' = stateFile
      /\ effect' = effect /\ successes' = successes
  BY DEF Crash, history
<1>3. \A p \in Requests : req'[p].pc = "idle"
  BY <1>2 DEF Idle
<1>4. StatusStep
  BY <1>2 DEF StatusStep
<1>5. Progress' /\ LifecycleStep
  BY <1>1, <1>2, <1>4, QuietStepKeepsProgress, QuietStepIsLifecycleStep
<1>. QED  BY <1>1, <1>3, <1>5 DEF InOrder, Exclusive

LEMMA InitInOrder == Init => InOrder /\ Lifecycle!Init
<1>. SUFFICES ASSUME Init PROVE InOrder /\ Lifecycle!Init
  OBVIOUS
<1>1. IInv /\ NumSteps \in Nat
  BY InitIInv, RunExecutionAssumption
<1>2. stateFile.status = "planned" /\ stateFile.index = 0
  BY DEF Init, Planned
<1>3. \A s \in Steps : successes[s] = 0 /\ ~ (s < 0)
  BY <1>1 DEF Init, Steps
<1>4. Progress
  BY <1>2, <1>3 DEF Progress
<1>5. \A p \in Requests : req[p].pc = "idle"
  BY DEF Init, Idle
<1>6. DoneSteps = {}
  BY <1>3 DEF DoneSteps
<1>. HIDE DEF DoneSteps
<1>. QED  BY <1>1, <1>2, <1>4, <1>5, <1>6 DEF InOrder, Exclusive, Lifecycle!Init

LEMMA NextInOrder ==
  ASSUME RunsInOrder
  PROVE  InOrder /\ [Next]_vars => InOrder' /\ LifecycleStep
<1>. SUFFICES ASSUME InOrder, [Next]_vars PROVE InOrder' /\ LifecycleStep
  OBVIOUS
<1>1. CASE UNCHANGED vars
  <2>1. IInv'
    BY NextIInv DEF InOrder
  <2>2. /\ stateFile' = stateFile /\ req' = req /\ effect' = effect
        /\ successes' = successes /\ StatusStep
    BY <1>1 DEF vars, StatusStep
  <2>3. Progress' /\ LifecycleStep
    BY <2>1, <2>2, QuietStepKeepsProgress, QuietStepIsLifecycleStep
  <2>. QED  BY <2>1, <2>2, <2>3 DEF InOrder, Exclusive
<1>2. CASE Next
  BY <1>2, ArriveInOrder, ContinueInOrder, RejectInOrder, CrashInOrder DEF Next
<1>. QED  BY <1>1, <1>2

(* The abstract life cycle: of a run whose requests come one at a time and *)
(* in order, the state on disk moves as RunLifecycle says, whatever fails, *)
(* throws, crashes or is healed on the way.                                *)
THEOREM ImplementsRunLifecycle == RunsInOrder => (Spec => ImplementsLifecycle)
<1>. SUFFICES ASSUME RunsInOrder PROVE Spec => ImplementsLifecycle
  OBVIOUS
<1>1. InOrder /\ [Next]_vars => InOrder' /\ [Lifecycle!Next]_(Lifecycle!vars)
  BY NextInOrder DEF LifecycleStep
<1>2. Init => InOrder /\ Lifecycle!Init
  BY InitInOrder
<1>. QED  BY <1>1, <1>2, PTL DEF Spec, ImplementsLifecycle, Lifecycle!Spec

LEMMA InOrderAlways == RunsInOrder => (Spec => []InOrder)
<1>. SUFFICES ASSUME RunsInOrder PROVE Spec => []InOrder
  OBVIOUS
<1>1. InOrder /\ [Next]_vars => InOrder'
  BY NextInOrder
<1>. QED  BY <1>1, InitInOrder, PTL DEF Spec

(* SucceedsAtMostOnce: in order, the loop never runs a step again that has *)
(* succeeded.                                                              *)
THEOREM SucceedsOnce == RunsInOrder => (Spec => []SucceedsAtMostOnce)
<1>1. InOrder => SucceedsAtMostOnce
  BY DEF InOrder, Progress, SucceedsAtMostOnce
<1>. QED  BY <1>1, InOrderAlways, PTL

(* CompletedMeansDone: in order, a completed run has every step of its     *)
(* plan succeeded and in place.                                            *)
THEOREM CompletedIsDone == RunsInOrder => (Spec => []CompletedMeansDone)
<1>1. ASSUME InOrder
      PROVE  CompletedMeansDone
  <2>. SUFFICES ASSUME stateFile.status = "completed", NEW s \in Steps
                PROVE  successes[s] > 0 /\ effect[s]
    BY DEF CompletedMeansDone
  <2>1. s < stateFile.index
    BY <1>1, InOrderFacts DEF Progress, Steps
  <2>. QED  BY <1>1, <2>1, InOrderFacts DEF Progress
<1>. QED  BY <1>1, InOrderAlways, PTL

(* IndexNeverRegresses: in order, the checkpoint never moves back.         *)
THEOREM CheckpointAdvances == RunsInOrder => (Spec => IndexNeverRegresses)
<1>. SUFFICES ASSUME RunsInOrder PROVE Spec => IndexNeverRegresses
  OBVIOUS
<1>1. InOrder /\ [Next]_vars => [stateFile'.index >= stateFile.index]_vars
  <2>. SUFFICES ASSUME InOrder, [Next]_vars
                PROVE  stateFile'.index >= stateFile.index
    OBVIOUS
  <2>1. LifecycleStep /\ stateFile.index \in Nat
    BY NextInOrder, InOrderFacts
  <2>. HIDE DEF DoneSteps
  <2>. QED  BY <2>1 DEF LifecycleStep, Lifecycle!vars, Lifecycle!Next, Lifecycle!Begin,
         Lifecycle!Reopen, Lifecycle!StepDone, Lifecycle!Stop, Lifecycle!Cancel, Lifecycle!Complete
<1>2. InOrder /\ [Next]_vars => InOrder'
  BY NextInOrder
<1>. QED  BY <1>1, <1>2, InitInOrder, PTL DEF Spec, IndexNeverRegresses

-----------------------------------------------------------------------------
(* Requests one at a time, answered whatever they do: none throws where    *)
(* the engine does not catch it, and the process does not die.             *)
RunsUndisturbed == Serial /\ Env \cap {"throw", "crash"} = {}

(* The copy of the summaries a request works on is the one on disk; a      *)
(* success on disk lacks its artifact only while its undo awaits being     *)
(* recorded.                                                               *)
InPlace ==
  /\ IInv
  /\ Exclusive
  /\ \A s \in Steps : adaptersFile[s] = "success" =>
        effect[s] \/ \E p \in Requests : req[p].pc = "undone" /\ req[p].at = s
  /\ \A p \in Requests : /\ req[p].pc \notin {"idle", "reply"} => req[p].sums = adaptersFile
                         /\ req[p].pc = "verify" => effect[req[p].at]

LEMMA InPlaceFacts ==
  ASSUME InPlace
  PROVE  /\ IInv /\ stateFile \in RunState /\ NumSteps \in Nat
         /\ adaptersFile \in [Steps -> Summary] /\ effect \in [Steps -> BOOLEAN]
         /\ \A p \in Requests : /\ req[p] \in Request /\ RequestSound(req[p], approvals)
                                /\ req[p].pc \notin {"idle", "reply"} => req[p].sums = adaptersFile
                                /\ req[p].pc = "verify" => effect[req[p].at]
         /\ AllIdle => \A s \in Steps : adaptersFile[s] = "success" => effect[s]
BY RunExecutionAssumption, Facts DEF InPlace, IInv, TypeOK, AllIdle

LEMMA OthersIdleInPlace ==
  ASSUME InPlace, NEW p \in Requests, req[p].pc # "idle"
  PROVE  /\ \A q \in Requests : q # p => req[q].pc = "idle"
         /\ \A s \in Steps : adaptersFile[s] = "success" =>
               effect[s] \/ (req[p].pc = "undone" /\ req[p].at = s)
<1>1. \A q \in Requests : q # p => req[q].pc = "idle"
  BY DEF InPlace, Exclusive
<1>. QED  BY <1>1 DEF InPlace

(* What an action of a request has to show.                                *)
LEMMA StepInPlace ==
  ASSUME InPlace, IInv', NEW p \in Requests, NEW r \in Request, Set(p, r),
         \A q \in Requests : q # p => req[q].pc = "idle",
         \A s \in Steps : adaptersFile'[s] = "success" => effect'[s] \/ (r.pc = "undone" /\ r.at = s),
         r.pc \notin {"idle", "reply"} => r.sums = adaptersFile',
         r.pc = "verify" => effect'[r.at]
  PROVE  InPlace'
<1>1. req' = [req EXCEPT ![p] = r] /\ req \in [Requests -> Request]
  BY DEF Set, InPlace, IInv, TypeOK
<1>2. req'[p] = r /\ \A q \in Requests : q # p => req'[q].pc = "idle"
  BY <1>1
<1>3. Exclusive'
  BY <1>2 DEF Exclusive
<1>4. \A s \in Steps : adaptersFile'[s] = "success" =>
         effect'[s] \/ \E q \in Requests : req'[q].pc = "undone" /\ req'[q].at = s
  BY <1>2
<1>5. \A q \in Requests : /\ req'[q].pc \notin {"idle", "reply"} => req'[q].sums = adaptersFile'
                          /\ req'[q].pc = "verify" => effect'[req'[q].at]
  BY <1>2
<1>. QED  BY <1>3, <1>4, <1>5 DEF InPlace

LEMMA FinishedForm ==
  ASSUME NEW r \in Request
  PROVE  Finished(r) \in Request /\ Finished(r).pc \in {"idle", "reply"}
<1>1. Idle \in Request /\ Idle.pc = "idle"
  BY IdleSound, 0 \in Nat DEF Idle
<1>2. r.snap \in RunState /\ r.op \in OpNames \cup {"none"}
  BY Fields
<1>3. Finished(r) \in Request
  BY <1>1, <1>2 DEF Finished, Request, PC
<1>4. Finished(r).pc \in {"idle", "reply"}
  BY <1>1 DEF Finished, Idle
<1>. QED  BY <1>3, <1>4

(* A step that fails may have been recorded as a success before: it is one *)
(* no more, whether its artifact is left or undone.                        *)
LEMMA FailTaskInPlace ==
  ASSUME InPlace, IInv', NEW p \in Requests, NEW r \in Request, r.sums = adaptersFile,
         FailTask(p, r), UNCHANGED effect, r.at < NumSteps,
         \A q \in Requests : q # p => req[q].pc = "idle",
         \A s \in Steps : adaptersFile[s] = "success" => effect[s] \/ r.at = s
  PROVE  InPlace'
<1>1. Finished(r) \in Request /\ Finished(r).pc \in {"idle", "reply"}
  BY FinishedForm
<1>2. /\ adaptersFile' = [adaptersFile EXCEPT ![r.at] = "failed"] /\ effect' = effect
      /\ Set(p, Finished(r))
  BY DEF FailTask
<1>3. \A s \in Steps : adaptersFile'[s] = "success" => effect'[s]
  BY <1>2, InPlaceFacts
<1>. QED  BY <1>1, <1>2, <1>3, StepInPlace

(* One that leaves the files and the world alone, and is not behind an undo. *)
LEMMA QuietInPlace ==
  ASSUME InPlace, IInv', NEW p \in Requests, NEW r \in Request, Set(p, r), r.pc # "undone",
         \A q \in Requests : q # p => req[q].pc = "idle", req[p].pc # "undone",
         adaptersFile' = adaptersFile,
         \A s \in Steps : effect[s] => effect'[s],
         r.pc \notin {"idle", "reply"} => r.sums = adaptersFile,
         r.pc = "verify" => effect'[r.at]
  PROVE  InPlace'
<1>1. \A s \in Steps : adaptersFile[s] = "success" => effect[s]
  BY DEF InPlace
<1>. QED  BY <1>1, StepInPlace

LEMMA EnterTaskInPlace ==
  ASSUME InPlace, IInv', NEW p \in Requests, NEW r \in Request, r.sums = adaptersFile,
         r.at < NumSteps, NEW saved, EnterTask(p, r, saved), UNCHANGED effect,
         \A q \in Requests : q # p => req[q].pc = "idle", req[p].pc # "undone"
  PROVE  InPlace'
<1>1. CASE FailTask(p, r)
  <2>1. \A s \in Steps : adaptersFile[s] = "success" => effect[s]
    BY DEF InPlace
  <2>. QED  BY <1>1, <2>1, FailTaskInPlace
<1>2. CASE Set(p, [r EXCEPT !.pc = "simulate"]) /\ UNCHANGED adaptersFile
  <2>. DEFINE t == [r EXCEPT !.pc = "simulate"]
  <2>1. t \in Request /\ t.pc = "simulate" /\ t.sums = r.sums /\ Set(p, t)
    BY <1>2 DEF Request, PC
  <2>. HIDE DEF t
  <2>. QED  BY <1>2, <2>1, QuietInPlace
<1>. QED  BY <1>1, <1>2 DEF EnterTask

LEMMA ResumeWithInPlace ==
  ASSUME InPlace, IInv', NEW p \in Requests, NEW r \in Request, r.sums = adaptersFile,
         NEW st \in RunState, ResumeWith(p, r, st),
         \A q \in Requests : q # p => req[q].pc = "idle", req[p].pc = "idle"
  PROVE  InPlace'
<1>1. adaptersFile' = adaptersFile /\ effect' = effect
  BY DEF ResumeWith
<1>2. CASE st.status = "completed"
  BY <1>1, <1>2, FinishedForm, QuietInPlace DEF ResumeWith
<1>3. CASE st.status # "completed"
  <2>. DEFINE t == [r EXCEPT !.pc = "loop", !.mem = Begun(st), !.at = st.index]
  <2>1. Set(p, t)
    BY <1>3 DEF ResumeWith
  <2>2. Begun(st) \in RunState /\ st.index \in 0 .. NumSteps
    BY DEF Begun, RunState, RunStatus
  <2>3. t \in Request
    BY <2>2 DEF Request, PC
  <2>4. t.pc = "loop" /\ t.sums = r.sums
    BY DEF Request
  <2>. HIDE DEF t
  <2>. QED  BY <1>1, <2>1, <2>3, <2>4, QuietInPlace
<1>. QED  BY <1>2, <1>3

LEMMA ArriveInPlace ==
  ASSUME Serial, InPlace, NEW p \in Requests, Arrive(p)
  PROVE  InPlace'
<1>. IInv /\ IInv'
  BY ArriveStep DEF InPlace
<1>a. ASSUME NEW op, MayStart(p, op)
      PROVE  /\ op \in OpNames /\ req[p].pc = "idle"
             /\ \A q \in Requests : q # p => req[q].pc = "idle"
  BY <1>a, RunExecutionAssumption DEF MayStart, AllIdle
<1>b. stateFile \in RunState /\ NumSteps \in Nat
  BY InPlaceFacts
<1>c. ASSUME NEW op \in OpNames
      PROVE  Loaded(op) \in Request /\ Loaded(op).sums = adaptersFile
  BY LoadedSound
<1>1. CASE Resume(p)
  <2>1. ResumeWith(p, Loaded("resume"), stateFile) /\ MayStart(p, "resume")
    BY <1>1 DEF Resume
  <2>. QED  BY <1>a, <1>b, <1>c, <2>1, ResumeWithInPlace
<1>2. CASE Approve(p)
  <2>1. ResumeWith(p, Loaded("approve"), Approved(stateFile)) /\ MayStart(p, "approve")
    BY <1>2 DEF Approve
  <2>2. Approved(stateFile) \in RunState
    BY <1>b DEF Approved, RunState
  <2>. QED  BY <1>a, <1>c, <2>1, <2>2, ResumeWithInPlace
<1>3. CASE ApproveGate(p)
  <2>. DEFINE l == Loaded("approve-gate")
              t == [l EXCEPT !.snap = stateFile]
  <2>1. ResumeWith(p, t, Approved(stateFile)) /\ MayStart(p, "approve-gate")
    BY <1>3 DEF ApproveGate
  <2>2. Approved(stateFile) \in RunState
    BY <1>b DEF Approved, RunState
  <2>3. l \in Request /\ l.sums = adaptersFile
    BY <1>a, <1>c, <2>1
  <2>. HIDE DEF l
  <2>4. t \in Request /\ t.sums = adaptersFile
    BY <1>b, <2>3 DEF Request
  <2>. HIDE DEF t
  <2>. QED  BY <1>a, <2>1, <2>2, <2>4, ResumeWithInPlace
<1>4. CASE Building(p)
  <2>. DEFINE l == Loaded("building")
              t == [l EXCEPT !.pc = "emit"]
  <2>1. /\ Set(p, t) /\ adaptersFile' = adaptersFile /\ effect' = effect
        /\ MayStart(p, "building")
    BY <1>4 DEF Building
  <2>2. l \in Request /\ l.sums = adaptersFile
    BY <1>a, <1>c, <2>1
  <2>. HIDE DEF l
  <2>3. t \in Request /\ t.sums = adaptersFile /\ t.pc = "emit"
    BY <2>2 DEF Request, PC
  <2>. HIDE DEF t
  <2>. QED  BY <1>a, <2>1, <2>3, QuietInPlace
<1>5. ASSUME NEW op, MayStart(p, op), NEW s \in 0 .. NumSteps, s < NumSteps, RetryStep(p, op, s)
      PROVE  InPlace'
  <2>. DEFINE l == Loaded(op)
              st == [stateFile EXCEPT !.index = s, !.status = "running"]
              t == [l EXCEPT !.mem = st, !.at = s]
  <2>1. EnterTask(p, t, st) /\ UNCHANGED effect
    BY <1>5 DEF RetryStep
  <2>2. l \in Request /\ l.sums = adaptersFile
    BY <1>5, <1>a, <1>c
  <2>3. st \in RunState
    BY <1>b, <1>5 DEF RunState, RunStatus
  <2>. HIDE DEF l, st
  <2>4. t \in Request /\ t.sums = adaptersFile /\ t.at = s
    BY <1>5, <2>2, <2>3 DEF Request
  <2>. HIDE DEF t
  <2>. QED  BY <1>5, <1>a, <2>1, <2>4, EnterTaskInPlace
<1>6. CASE RetryCurrent(p)
  <2>1. stateFile.index \in 0 .. NumSteps
    BY <1>b DEF RunState
  <2>. QED  BY <2>1, <1>5, <1>6 DEF RetryCurrent
<1>7. ASSUME NEW s \in Steps, Retry(p, s)
      PROVE  InPlace'
  <2>1. s \in 0 .. NumSteps /\ s < NumSteps
    BY <1>b DEF Steps
  <2>. QED  BY <2>1, <1>5, <1>7 DEF Retry
<1>8. ASSUME NEW s \in Steps, Rollback(p, s)
      PROVE  InPlace'
  <2>. DEFINE l == Loaded("rollback")
              t == [l EXCEPT !.pc = "rollback", !.at = s]
  <2>1. /\ Set(p, t) /\ adaptersFile' = adaptersFile /\ effect' = effect
        /\ MayStart(p, "rollback")
    BY <1>8 DEF Rollback
  <2>2. l \in Request /\ l.sums = adaptersFile
    BY <1>a, <1>c, <2>1
  <2>3. s \in 0 .. NumSteps
    BY <1>b DEF Steps
  <2>. HIDE DEF l
  <2>4. t \in Request /\ t.sums = adaptersFile /\ t.pc = "rollback"
    BY <2>2, <2>3 DEF Request, PC
  <2>. HIDE DEF t
  <2>. QED  BY <1>a, <2>1, <2>4, QuietInPlace
<1>. QED  BY <1>1, <1>2, <1>3, <1>4, <1>6, <1>7, <1>8 DEF Arrive

(* A step that moves a request on and has its artifact, if any, in place.  *)
LEMMA MoveInPlace ==
  ASSUME InPlace, IInv', NEW p \in Requests, req[p].pc \notin {"idle", "reply", "undone"},
         NEW pc \in PC \ {"undone"}, NEW k \in Nat,
         \/ Set(p, [req[p] EXCEPT !.pc = pc])
         \/ Set(p, [req[p] EXCEPT !.pc = pc, !.left = k]),
         adaptersFile' = adaptersFile, \A s \in Steps : effect[s] => effect'[s],
         pc = "verify" => effect'[req[p].at]
  PROVE  InPlace'
<1>. DEFINE r == req[p]
<1>1. r \in Request /\ r.sums = adaptersFile /\ \A q \in Requests : q # p => req[q].pc = "idle"
  BY InPlaceFacts, OthersIdleInPlace
<1>2. CASE Set(p, [r EXCEPT !.pc = pc])
  <2>. DEFINE t == [r EXCEPT !.pc = pc]
  <2>1. t \in Request /\ t.pc = pc /\ t.sums = r.sums /\ t.at = r.at /\ Set(p, t)
    BY <1>1, <1>2 DEF Request
  <2>. HIDE DEF t
  <2>. QED  BY <1>1, <2>1, QuietInPlace
<1>3. CASE Set(p, [r EXCEPT !.pc = pc, !.left = k])
  <2>. DEFINE t == [r EXCEPT !.pc = pc, !.left = k]
  <2>1. t \in Request /\ t.pc = pc /\ t.sums = r.sums /\ t.at = r.at /\ Set(p, t)
    BY <1>1, <1>3 DEF Request
  <2>. HIDE DEF t
  <2>. QED  BY <1>1, <2>1, QuietInPlace
<1>. QED  BY <1>2, <1>3

LEMMA StepSucceedsInPlace ==
  ASSUME InPlace, IInv', NEW p \in Requests, StepSucceeds(p)
  PROVE  InPlace'
<1>. DEFINE r == req[p]
            st == Advanced(r.mem, r.at)
            sums == [r.sums EXCEPT ![r.at] = "success"]
            spent == IF r.at \in NeedsApproval THEN 1 ELSE 0
            k == r.used + spent
            j == r.at + 1
            t == [r EXCEPT !.pc = "loop", !.mem = st, !.sums = sums, !.at = j,
                           !.left = 0, !.used = k]
            u == IF IsRetry(r) THEN Finished(r) ELSE t
<1>1. /\ r \in Request /\ RequestSound(r, approvals) /\ r.pc = "verify"
      /\ r.sums = adaptersFile /\ effect[r.at]
  BY InPlaceFacts DEF StepSucceeds
<1>2. /\ adaptersFile' = sums /\ Set(p, u) /\ effect' = effect
  BY DEF StepSucceeds
<1>3. req'[p] = u /\ u \in Request
  <2>1. req \in [Requests -> Request] /\ req' \in [Requests -> Request]
    BY DEF InPlace, IInv, TypeOK
  <2>2. req'[p] = u
    BY <1>2, <2>1 DEF Set
  <2>. QED  BY <2>1, <2>2
<1>4. t.pc = "loop" /\ t.sums = sums
  BY <1>1 DEF Request
<1>5. Finished(r).pc \in {"idle", "reply"}
  BY <1>1, FinishedForm
<1>6. /\ u.pc \in {"idle", "reply", "loop"}
      /\ u.pc = "loop" => u.sums = sums
  BY <1>4, <1>5
<1>7. \A s \in Steps : sums[s] = "success" => effect[s]
  <2>1. \A s \in Steps : adaptersFile[s] = "success" => effect[s]
    BY <1>1, OthersIdleInPlace
  <2>. QED  BY <1>1, <2>1, InPlaceFacts
<1>8. \A q \in Requests : q # p => req[q].pc = "idle"
  BY <1>1, OthersIdleInPlace
<1>. HIDE DEF u, sums
<1>. QED  BY <1>2, <1>3, <1>6, <1>7, <1>8, StepInPlace

LEMMA ContinueInPlace ==
  ASSUME RunsUndisturbed, InPlace, NEW p \in Requests, Continue(p)
  PROVE  InPlace'
<1>. IInv /\ IInv'
  BY ContinueStep DEF InPlace
<1>. DEFINE r == req[p]
<1>0. r.pc # "idle"
  BY DEF Continue, ApproveGateReply, BuildingExecutes, NextTask, CompleteRun, PassApproval,
         PauseForApproval, ValidationPasses, ValidationFails, ExecuteSucceeds, ExecuteFails,
         VerifyFails, StepSucceeds, HealingVerified, HealingNeedsApproval, HealingGivesUp,
         AdapterRollsBack, AutoRollbackDone, ManualRollbackDone, AdapterThrows
<1>a. /\ r \in Request /\ RequestSound(r, approvals)
      /\ r.pc # "reply" => r.sums = adaptersFile
      /\ r.pc \in InTask => r.at < NumSteps
      /\ r.at \in 0 .. NumSteps /\ r.left \in Nat /\ r.mem \in RunState
      /\ stateFile \in RunState /\ NumSteps \in Nat
      /\ adaptersFile \in [Steps -> Summary] /\ effect \in [Steps -> BOOLEAN]
      /\ r.pc # "undone" => \A s \in Steps : adaptersFile[s] = "success" => effect[s]
      /\ \A s \in Steps : adaptersFile[s] = "success" => effect[s] \/ r.at = s
      /\ Idle \in Request /\ Idle.pc = "idle"
  BY <1>0, InPlaceFacts, OthersIdleInPlace, Fields, IdleSound, 0 \in Nat DEF RequestSound, Idle
<1>b. \A q \in Requests : q # p => req[q].pc = "idle"
  BY <1>0, OthersIdleInPlace
<1>c. ASSUME FailTask(p, r), UNCHANGED effect, r.pc \in InTask
      PROVE  InPlace'
  BY <1>a, <1>b, <1>c, FailTaskInPlace DEF InTask
<1>d. ASSUME Set(p, Finished(r)) \/ Set(p, Idle), r.pc # "undone",
             UNCHANGED <<adaptersFile, effect>>
      PROVE  InPlace'
  BY <1>a, <1>b, <1>d, FinishedForm, QuietInPlace
<1>e. ASSUME NEW pc \in {"validate", "execute", "rollback"}, NEW k \in Nat, r.pc \in PastGate \cup {"simulate"},
             \/ Set(p, [r EXCEPT !.pc = pc])
             \/ Set(p, [r EXCEPT !.pc = pc, !.left = k]),
             UNCHANGED <<adaptersFile, effect>>
      PROVE  InPlace'
  <2>1. pc \in PC \ {"undone"} /\ pc # "verify" /\ r.pc \notin {"idle", "reply", "undone"}
    BY <1>e DEF PC, PastGate
  <2>2. adaptersFile' = adaptersFile /\ \A s \in Steps : effect[s] => effect'[s]
    BY <1>e
  <2>. QED  BY <1>e, <2>1, <2>2, MoveInPlace
<1>1. CASE ApproveGateReply(p)
  BY <1>1, <1>d DEF ApproveGateReply
<1>2. CASE BuildingExecutes(p)
  <2>. DEFINE st == Begun(r.mem)
              t == [r EXCEPT !.pc = "loop", !.mem = st, !.at = st.index]
  <2>1. /\ r.pc = "emit" /\ Set(p, t) /\ effect' = effect /\ adaptersFile' = adaptersFile
    BY <1>2 DEF BuildingExecutes
  <2>2. st \in RunState /\ st.index \in 0 .. NumSteps
    BY <1>a DEF Begun, RunState, RunStatus
  <2>. HIDE DEF st, r
  <2>3. t \in Request
    BY <1>a, <2>2 DEF Request, PC
  <2>4. t.pc = "loop" /\ t.sums = r.sums
    BY <1>a DEF Request
  <2>. HIDE DEF t
  <2>. USE DEF r
  <2>. QED  BY <1>a, <1>b, <2>1, <2>3, <2>4, QuietInPlace
<1>3. CASE NextTask(p)
  <2>1. r.pc = "loop" /\ r.at < NumSteps /\ EnterTask(p, r, stateFile) /\ UNCHANGED effect
    BY <1>3 DEF NextTask
  <2>. QED  BY <1>a, <1>b, <2>1, EnterTaskInPlace
<1>4. CASE CompleteRun(p)
  BY <1>4, <1>d DEF CompleteRun
<1>5. CASE PassApproval(p)
  BY <1>5, <1>e, 0 \in Nat DEF PassApproval
<1>6. CASE PauseForApproval(p)
  BY <1>6, <1>d DEF PauseForApproval
<1>7. CASE ValidationPasses(p)
  <2>. PICK limit \in AttemptLimits :
         \/ /\ limit > 0
            /\ Set(p, [r EXCEPT !.pc = "execute", !.left = limit])
            /\ UNCHANGED stateFile
         \/ /\ limit = 0
            /\ Set(p, Finished(r))
            /\ stateFile' = Failed(r.mem, r.at)
    BY <1>7 DEF ValidationPasses
  <2>1. limit \in Nat /\ r.pc = "validate" /\ UNCHANGED <<adaptersFile, effect>>
    BY <1>7, RunExecutionAssumption DEF ValidationPasses
  <2>2. CASE limit = 0
    BY <1>d, <2>1, <2>2
  <2>3. CASE limit > 0
    <3>1. Set(p, [r EXCEPT !.pc = "execute", !.left = limit])
      BY <2>3
    <3>. QED  BY <2>1, <3>1, <1>e DEF PastGate
  <2>. QED  BY <2>1, <2>2, <2>3
<1>8. CASE ValidationFails(p)
  BY <1>8, <1>c DEF ValidationFails, InTask
<1>9. CASE ExecuteSucceeds(p)
  <2>1. /\ r.pc = "execute" /\ Set(p, [r EXCEPT !.pc = "verify"]) /\ adaptersFile' = adaptersFile
        /\ effect'[r.at] /\ \A s \in Steps : effect[s] => effect'[s]
    BY <1>9, <1>a DEF ExecuteSucceeds, Steps, InTask
  <2>. QED  BY <2>1, MoveInPlace, 0 \in Nat DEF PC
<1>10. ASSUME AttemptFails(p), r.pc \in {"execute", "verify"},
              effect' \in {effect, [effect EXCEPT ![r.at] = TRUE]}
       PROVE  InPlace'
  <2>. DEFINE next == IF r.left > 1 THEN "execute" ELSE "heal"
              k == r.left - 1
  <2>1. Set(p, [r EXCEPT !.pc = next, !.left = k]) /\ adaptersFile' = adaptersFile
    <3>1. Set(p, [r EXCEPT !.left = k, !.pc = next]) /\ adaptersFile' = adaptersFile
      BY <1>10 DEF AttemptFails
    <3>2. [r EXCEPT !.left = k, !.pc = next] = [r EXCEPT !.pc = next, !.left = k]
      BY <1>a DEF Request
    <3>. QED  BY <3>1, <3>2
  <2>2. next \in PC \ {"undone"} /\ next # "verify"
    BY DEF PC
  <2>3. k \in Nat
    BY <1>10, <1>a DEF RequestSound
  <2>4. \A s \in Steps : effect[s] => effect'[s]
    BY <1>a, <1>10
  <2>. HIDE DEF next, k
  <2>. QED  BY <1>10, <2>1, <2>2, <2>3, <2>4, MoveInPlace
<1>11. CASE ExecuteFails(p) \/ VerifyFails(p)
  BY <1>10, <1>11 DEF ExecuteFails, VerifyFails
<1>13. CASE HealingVerified(p)
  BY <1>13, <1>e, 1 \in Nat DEF HealingVerified, PastGate
<1>14. CASE HealingNeedsApproval(p)
  BY <1>14, <1>d DEF HealingNeedsApproval
<1>15. CASE HealingGivesUp(p)
  <2>1. CASE r.at \in Rollbackable
    BY <1>15, <2>1, <1>e, 0 \in Nat DEF HealingGivesUp, PastGate
  <2>2. CASE r.at \notin Rollbackable
    BY <1>15, <2>2, <1>c DEF HealingGivesUp, InTask
  <2>. QED  BY <2>1, <2>2
<1>17. CASE AutoRollbackDone(p)
  BY <1>17, <1>c DEF AutoRollbackDone, InTask
<1>19. ~ AdapterThrows(p)
  BY DEF AdapterThrows, RunsUndisturbed
<1>12. CASE StepSucceeds(p)
  BY <1>12, StepSucceedsInPlace
<1>16. CASE AdapterRollsBack(p)
  <2>. DEFINE t == [r EXCEPT !.pc = "undone"]
  <2>1. /\ r.pc = "rollback" /\ Set(p, t) /\ adaptersFile' = adaptersFile
        /\ effect' = [effect EXCEPT ![r.at] = FALSE]
    BY <1>16 DEF AdapterRollsBack
  <2>2. t \in Request /\ t.pc = "undone" /\ t.at = r.at /\ t.sums = r.sums
    BY <1>a DEF Request, PC
  <2>3. \A s \in Steps : adaptersFile'[s] = "success" => effect'[s] \/ (t.pc = "undone" /\ t.at = s)
    BY <1>a, <2>1, <2>2
  <2>. HIDE DEF t
  <2>. QED  BY <1>a, <1>b, <2>1, <2>2, <2>3, StepInPlace
<1>18. CASE ManualRollbackDone(p)
  <2>1. /\ r.pc = "undone" /\ Set(p, Idle) /\ effect' = effect
        /\ adaptersFile' = [r.sums EXCEPT ![r.at] = "rolled-back"]
    BY <1>18 DEF ManualRollbackDone
  <2>2. \A s \in Steps : adaptersFile'[s] = "success" => effect'[s]
    BY <1>a, <2>1
  <2>. QED  BY <1>a, <1>b, <2>1, <2>2, StepInPlace
<1>. QED  BY <1>1, <1>2, <1>3, <1>4, <1>5, <1>6, <1>7, <1>8, <1>9, <1>11, <1>12,
             <1>13, <1>14, <1>15, <1>16, <1>17, <1>18, <1>19 DEF Continue

LEMMA InitInPlace == Init => InPlace
<1>. SUFFICES ASSUME Init PROVE InPlace
  OBVIOUS
<1>1. IInv
  BY InitIInv
<1>2. \A p \in Requests : req[p].pc = "idle"
  BY DEF Init, Idle
<1>3. \A s \in Steps : adaptersFile[s] # "success"
  BY DEF Init, NoSummaries
<1>. QED  BY <1>1, <1>2, <1>3 DEF InPlace, Exclusive

LEMMA NextInPlace ==
  ASSUME RunsUndisturbed
  PROVE  InPlace /\ [Next]_vars => InPlace'
<1>. SUFFICES ASSUME InPlace, [Next]_vars PROVE InPlace'
  OBVIOUS
<1>1. IInv'
  BY NextIInv DEF InPlace
<1>2. CASE Reject \/ UNCHANGED vars
  <2>1. req' = req /\ adaptersFile' = adaptersFile /\ effect' = effect
    BY <1>2 DEF Reject, vars
  <2>. QED  BY <1>1, <2>1 DEF InPlace, Exclusive
<1>3. ~ Crash
  BY DEF Crash, RunsUndisturbed
<1>4. ASSUME NEW p \in Requests, Arrive(p) \/ Continue(p)
      PROVE  InPlace'
  BY <1>4, ArriveInPlace, ContinueInPlace DEF RunsUndisturbed
<1>. QED  BY <1>2, <1>3, <1>4 DEF Next

(* RecordedSuccessIsInPlace: between the requests of an undisturbed run,   *)
(* whatever they retry, roll back or heal, a step adapters.json records as *)
(* a success has its artifact.                                             *)
THEOREM SuccessIsInPlace == RunsUndisturbed => (Spec => []RecordedSuccessIsInPlace)
<1>. SUFFICES ASSUME RunsUndisturbed PROVE Spec => []RecordedSuccessIsInPlace
  OBVIOUS
<1>1. InPlace /\ [Next]_vars => InPlace'
  BY NextInPlace
<1>2. InPlace => RecordedSuccessIsInPlace
  BY InPlaceFacts DEF RecordedSuccessIsInPlace
<1>. QED  BY <1>1, <1>2, InitInPlace, PTL DEF Spec
=============================================================================
