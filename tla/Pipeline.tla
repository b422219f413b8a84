------------------------------ MODULE Pipeline -------------------------------
(* The pipeline of phases and the commands around it: the command line and *)
(* the create-run handler each take an idea through the phases, and share   *)
(* the project memory, where the mode and the approvals of the last run are *)
(* kept for the next. An action is the code between two awaits of a phase,  *)
(* or one access to the memory file.                                        *)
EXTENDS ModeGates, Sequences

CONSTANTS
  Invocations,    \* commands that can be under way at once, a process each
  IdeasGiven,     \* the ideas the environment comes with,
  ModesGiven,     \* the modes it passes as an option or in a request,
  ModesSet,       \* and sets by /ck-mode,
  GatesGiven,     \* the gates it approves
  SkillsFound,    \* what selectSkills may come to
  None,
  MaxCommands     \* bound: commands given

(* /ck-approve takes any text; "building" is the other one some code reads.*)
Approvable == GateIds \cup {"building"}

Phases == <<"intake", "planning", "skills", "gating", "building",
            "testing", "reviewing", "deployment">>

PhaseSet == {Phases[i] : i \in 1 .. Len(Phases)}

Intakes == {Intake(i, m) : i \in Ideas, m \in Modes}

(* What the memory keeps of a run.                                         *)
Entries == [mode : Modes \cup {None}, approved : SUBSET Approvable]

ASSUME PipelineAssumption ==
  /\ IdeasGiven \subseteq Ideas
  /\ ModesGiven \cup ModesSet \subseteq Modes
  /\ GatesGiven \subseteq Approvable
  /\ SkillsFound \subseteq SkillSelections
  /\ None \notin Modes \cup Ideas \cup PhaseSet
  /\ None \notin Entries /\ None \notin Intakes /\ None \notin 6 .. 8 /\ None \notin SkillsFound
  /\ MaxCommands \in Nat

VARIABLES
  memory,    \* project-memory.json: the last idea, the entry of the last run,
             \* and whether the file is torn
  cmd,       \* what each invocation is doing
  given,     \* history: the commands, the gates and the mode the user asked for,
             \* and whether there was a place to keep that mode in
  mishaps    \* history: "overlap", "death", "torn" or "service" once it has happened

vars == <<memory, cmd, given, mishaps>>

-----------------------------------------------------------------------------
(* Reports. *)

NewReport(idea, mode, approved) ==
  [idea |-> idea, mode |-> mode, approved |-> approved,
   phase |-> "intake", done |-> <<>>, status |-> "in-progress", finished |-> FALSE,
   intake |-> None, tasks |-> None, skills |-> None, bundle |-> None]

(* What runOrchestrationStep makes of a handler's answer.                  *)
Advanced(report, next, status) ==
  CASE status = "success" /\ next # None ->
         [report EXCEPT !.done = Append(@, report.phase), !.phase = next, !.status = "in-progress"]
    [] status = "success" /\ next = None ->
         [report EXCEPT !.finished = TRUE, !.status = "success"]
    [] OTHER ->
         [report EXCEPT !.status = IF status = "blocked" THEN "blocked" ELSE "awaiting-approval"]

(* The reports a phase may leave, building apart.                          *)
IntakeDone(report) ==
  {Advanced([report EXCEPT !.intake = Intake(report.idea, report.mode)], "planning", "success")}

PlanningDone(report) ==
  {Advanced([report EXCEPT !.tasks = PlanTasks(report.idea)], "skills", "success")}

SkillsDone(report) ==
  {Advanced([report EXCEPT !.skills = found], "gating", "success") : found \in SkillsFound}

OverallOf(report) ==
  Overall(report.mode, report.approved, report.intake, report.tasks, report.skills)

GatingDone(report) ==
  LET overall == OverallOf(report)
      status  == CASE overall = "pass"    -> "success"
                   [] overall = "blocked" -> "blocked"
                   [] OTHER               -> "awaiting-approval"
  IN  {Advanced(report, IF status = "success" THEN "building" ELSE "gating", status)}

Simulated(report) ==
  {Advanced(report,
            CASE report.phase = "testing"    -> "reviewing"
              [] report.phase = "reviewing"  -> "deployment"
              [] report.phase = "deployment" -> None,
            "success")}

PhaseDone(report) ==
  CASE report.phase = "intake"   -> IntakeDone(report)
    [] report.phase = "planning" -> PlanningDone(report)
    [] report.phase = "skills"   -> SkillsDone(report)
    [] report.phase = "gating"   -> GatingDone(report)
    [] OTHER                     -> Simulated(report)

(* The building phase makes a bundle and executes it; executeRunBundle     *)
(* returns it paused, failed or completed.                                 *)
Bundle(report) == [approved |-> "building" \in report.approved, status |-> "planned"]

BuildingDone(report, outcome) ==
  Advanced([report EXCEPT !.bundle.status = outcome],
           IF outcome = "completed" THEN "testing" ELSE "building",
           CASE outcome = "paused"    -> "awaiting-approval"
             [] outcome = "failed"    -> "failure"
             [] outcome = "completed" -> "success")

(* The loop of runVerticalSlice: one step in expert mode, otherwise as     *)
(* long as the report is in progress.                                      *)
Continues(report) ==
  report.mode # "expert" /\ ~ report.finished /\ report.status = "in-progress"

-----------------------------------------------------------------------------
(* Project memory. *)

NoMemory == [idea |-> None, entry |-> None, torn |-> FALSE]

(* JSON.parse throws at it, whoever reads it.                              *)
TornMemory == [idea |-> None, entry |-> None, torn |-> TRUE]

Approvals(mem) == IF mem.entry = None THEN {} ELSE mem.entry.approved

(* normalizeMode: a missing mode is builder.                               *)
ModeOf(mem) ==
  IF mem.entry = None \/ mem.entry.mode = None THEN "builder" ELSE mem.entry.mode

(* isMode knows four of the seven modes.                                   *)
Remembered == {"turbo", "builder", "pro", "expert"}

(* extractIdeaFromReport and extractModeFromReport: a blank idea is none,  *)
(* and neither is a mode that is not known.                                *)
IdeaOf(mem, report) == IF report.idea = "blank" THEN mem.idea ELSE report.idea

ModeKept(report) == IF report.mode \in Remembered THEN report.mode ELSE None

(* Mutants: the entry forgets the approvals, or the mode.                  *)
RecordedWithoutApprovals(mem, report) ==
  [idea |-> IdeaOf(mem, report), entry |-> [mode |-> ModeKept(report), approved |-> {}], torn |-> FALSE]

RecordedWithoutMode(mem, report) ==
  [idea |-> IdeaOf(mem, report), entry |-> [mode |-> None, approved |-> report.approved], torn |-> FALSE]

(* recordRun: the report becomes the entry of the last run; without an     *)
(* idea of its own it leaves the last one.                                 *)
Recorded(mem, report) ==
  [idea  |-> IdeaOf(mem, report),
   entry |-> [mode |-> ModeKept(report), approved |-> report.approved],
   torn  |-> FALSE]

-----------------------------------------------------------------------------
(* An invocation: where it is, whose it is, the report it is working on    *)
(* and the memory it is about to save.                                     *)
Command(pc, by, report, mem) == [pc |-> pc, by |-> by, report |-> report, mem |-> mem]

Idle == Command("idle", None, None, None)

Init ==
  /\ memory = NoMemory
  /\ cmd = [p \in Invocations |-> Idle]
  /\ given = [commands |-> 0, gates |-> {}, mode |-> "builder", kept |-> TRUE]
  /\ mishaps = {}

Alone(p) == \A q \in Invocations \ {p} : cmd[q].pc = "idle"

Set(p, c) == cmd' = [cmd EXCEPT ![p] = c]

(* A new command; what the user asked for is history.                      *)
AcceptAs(p, by, mode, kept, gates) ==
  /\ cmd[p].pc = "idle"
  /\ given.commands < MaxCommands
  /\ given' = [commands |-> given.commands + 1,
               gates    |-> given.gates \cup gates,
               mode     |-> IF mode = None THEN given.mode ELSE mode,
               kept     |-> IF mode = None THEN given.kept ELSE kept]
  /\ mishaps' = mishaps \cup (IF Alone(p) THEN {} ELSE {"overlap"})
                        \cup (IF by = "service" THEN {"service"} ELSE {})

Accept(p, by, mode, gates) == AcceptAs(p, by, mode, TRUE, gates)

(* executePipeline of the command line. Idea, mode and approvals left out  *)
(* come from the memory.                                                   *)
RunPipeline(p, idea, mode) ==
  LET target == IF idea = None THEN memory.idea ELSE idea
  IN  /\ ~ memory.torn
      /\ target # None
      /\ Accept(p, "cli", mode, {})
      /\ Set(p, Command("step", "cli",
                        NewReport(target, IF mode = None THEN ModeOf(memory) ELSE mode,
                                  Approvals(memory)), None))
      /\ UNCHANGED memory

(* The commands that call it: /ck-run and the interactive ones; /ck-init,  *)
(* which always builds; /ck-build, /ck-test and /ck-review, whose stage is *)
(* only printed: each is a run from the start, in expert mode.             *)
RunCommand(p, idea, mode) == RunPipeline(p, idea, mode)

InitCommand(p, idea) == RunPipeline(p, idea, "builder")

StageCommand(p) == RunPipeline(p, None, "expert")

(* createRunHandler of the service: its run starts without approvals. Two  *)
(* requests to the one process would not interleave while recording.       *)
CreateRun(p, idea, mode) ==
  /\ \A q \in Invocations : cmd[q].by # "service"
  /\ Accept(p, "service", None, {})
  /\ Set(p, Command("step", "service", NewReport(idea, mode, {}), None))
  /\ UNCHANGED memory

(* After a step the loop goes on or ends.                                  *)
Leave(p, report) ==
  Set(p, Command(IF Continues(report) THEN "step" ELSE "record", cmd[p].by, report, None))

Step(p) ==
  /\ cmd[p].pc = "step"
  /\ cmd[p].report.phase # "building"
  /\ \E report \in PhaseDone(cmd[p].report) : Leave(p, report)
  /\ UNCHANGED <<memory, given, mishaps>>

(* The building phase up to its await of the executor, and from there.     *)
StartBuilding(p) ==
  /\ cmd[p].pc = "step"
  /\ cmd[p].report.phase = "building"
  /\ LET report == [cmd[p].report EXCEPT !.bundle = Bundle(cmd[p].report)]
     IN  Set(p, Command("executing", cmd[p].by, report, None))
  /\ UNCHANGED <<memory, given, mishaps>>

EndBuilding(p) ==
  /\ cmd[p].pc = "executing"
  /\ \E outcome \in {"paused", "failed", "completed"} :
       Leave(p, BuildingDone(cmd[p].report, outcome))
  /\ UNCHANGED <<memory, given, mishaps>>

(* recordRun reads the memory and then writes it.                          *)
LoadForRecord(p) ==
  /\ cmd[p].pc = "record"
  /\ ~ memory.torn
  /\ Set(p, Command("save", cmd[p].by, None, Recorded(memory, cmd[p].report)))
  /\ UNCHANGED <<memory, given, mishaps>>

(* /ck-approve and /ck-mode read the memory, change the entry of the last  *)
(* run and write the memory.                                               *)
Approve(p, gate) ==
  /\ memory.entry # None      \* which a torn file has not
  /\ Accept(p, "cli", None, {gate})
  /\ Set(p, Command("save", "cli", None, [memory EXCEPT !.entry.approved = @ \cup {gate}]))
  /\ UNCHANGED memory

SetRecordedMode(p, mode) ==
  /\ memory.entry # None
  /\ Accept(p, "cli", mode, {})
  /\ Set(p, Command("save", "cli", None, [memory EXCEPT !.entry.mode = mode]))
  /\ UNCHANGED memory

(* Without a run in the memory the mode is printed as set, and that is all.*)
SetUnrecordedMode(p, mode) ==
  /\ memory.entry = None /\ ~ memory.torn
  /\ AcceptAs(p, "cli", mode, FALSE, {})
  /\ UNCHANGED <<memory, cmd>>

SetMode(p, mode) == SetRecordedMode(p, mode) \/ SetUnrecordedMode(p, mode)

Save(p) ==
  /\ cmd[p].pc = "save"
  /\ memory' = cmd[p].mem
  /\ Set(p, Idle)
  /\ UNCHANGED <<given, mishaps>>

(* The process dies, or a phase throws: a missing skill registry, an       *)
(* adapter that rejects, a memory that is torn.                            *)
Die(p) ==
  /\ cmd[p].pc # "idle"
  /\ Set(p, Idle)
  /\ mishaps' = mishaps \cup {"death"}
  /\ UNCHANGED <<memory, given>>

(* It dies within writeFileSync: the file is empty, which reads as no      *)
(* memory, or torn.                                                        *)
DieSaving(p) ==
  /\ cmd[p].pc = "save"
  /\ Set(p, Idle)
  /\ mishaps' = mishaps \cup {"death", "torn"}
  /\ memory' \in {NoMemory, TornMemory}
  /\ UNCHANGED given

Goes(p) ==
  Step(p) \/ StartBuilding(p) \/ EndBuilding(p) \/ LoadForRecord(p) \/ Save(p)

Next ==
  \E p \in Invocations :
    \/ \E idea \in IdeasGiven \cup {None}, mode \in ModesGiven \cup {None} : RunCommand(p, idea, mode)
    \/ \E idea \in IdeasGiven : InitCommand(p, idea)
    \/ StageCommand(p)
    \/ \E idea \in IdeasGiven, mode \in ModesGiven : CreateRun(p, idea, mode)
    \/ \E gate \in GatesGiven : Approve(p, gate)
    \/ \E mode \in ModesSet : SetMode(p, mode)
    \/ Goes(p)
    \/ Die(p) \/ DieSaving(p)

Spec == Init /\ [][Next]_vars
-----------------------------------------------------------------------------
(* Properties. *)

Bundles == [approved : BOOLEAN, status : {"planned", "paused", "failed", "completed"}]

Report ==
  [idea : Ideas, mode : Modes, approved : SUBSET Approvable, phase : PhaseSet,
   done : Seq(PhaseSet), status : {"in-progress", "success", "blocked", "awaiting-approval"},
   finished : BOOLEAN, intake : {None} \cup Intakes,
   tasks : {None} \cup 6 .. 8, skills : {None} \cup SkillsFound,
   bundle : {None} \cup Bundles]

Memory ==
  [idea : Ideas \cup {None},
   entry : {None} \cup Entries,
   torn : BOOLEAN]

TypeOK ==
  /\ memory \in Memory
  /\ \A p \in Invocations :
       \/ cmd[p] = Idle
       \/ /\ cmd[p].pc \in {"step", "executing", "record"}
          /\ cmd[p] = Command(cmd[p].pc, cmd[p].by, cmd[p].report, None)
          /\ cmd[p].by \in {"cli", "service"} /\ cmd[p].report \in Report
       \/ /\ cmd[p] = Command("save", cmd[p].by, None, cmd[p].mem)
          /\ cmd[p].by \in {"cli", "service"} /\ cmd[p].mem \in Memory

Reporting == {p \in Invocations : cmd[p].report # None}

(* Where a report is follows from the phases done.                          *)
InOrder(r) ==
  LET n == Len(r.done) IN
  /\ n < Len(Phases)
  /\ \A i \in 1 .. n : r.done[i] = Phases[i]
  /\ r.phase = Phases[n + 1]
  /\ n > 0 => r.intake # None
  /\ n > 1 => r.tasks # None
  /\ n > 2 => r.skills # None
  /\ r.finished => n = 7

(* The phases of a run are done in their order, none is skipped, and each   *)
(* finds what the phases before it had to leave: no handler throws because  *)
(* an artifact is missing.                                                  *)
PhasesInOrder == \A p \in Reporting : InOrder(cmd[p].report)

GateMet(g, r) ==
  LET status == Evaluated(g, r.mode, r.intake, r.tasks, r.skills) IN
  status = "pass" \/ (r.mode = "turbo" /\ status = "needs-review")

(* Nothing is built unless every gate either passed by itself, or was       *)
(* approved by somebody, or only needed a review in turbo mode; and the     *)
(* execution starts approved only if somebody approved building. Approvals  *)
(* reach a run through the memory that other commands read and write.       *)
BuildsOnlyPastGates ==
  \A p \in Reporting :
    LET r == cmd[p].report IN
    r.bundle # None =>
      /\ \A g \in GateIds \ given.gates : GateMet(g, r)
      /\ r.bundle.approved => "building" \in given.gates

Strictness == <<"turbo", "builder", "balanced", "pro", "expert", "safe">>

Severity(overall) == CASE overall = "pass" -> 0 [] overall = "needs-review" -> 1 [] overall = "blocked" -> 2

(* What the gates would say of the report in the i-th of these modes.       *)
SeverityIn(i, r) ==
  Severity(Overall(Strictness[i], r.approved, Intake(r.idea, Strictness[i]), r.tasks, r.skills))

(* From turbo to safe the modes are ever stricter: the same idea, approvals *)
(* and skills never fare better in a stricter mode. What each mode trims    *)
(* from the questions counts: turbo asks two and safe all of them.          *)
StricterModeIsStricter ==
  \A p \in Reporting :
    cmd[p].report.phase = "gating" =>
      \A i \in 1 .. 5 : SeverityIn(i, cmd[p].report) <= SeverityIn(i + 1, cmd[p].report)

(* An approval, once recorded, counts for the runs that follow, unless      *)
(* commands overlapped, the service recorded a run of its own, or one died   *)
(* within the write of the memory.                                          *)
ApprovalsAreKept ==
  [][mishaps' \cap {"overlap", "service", "torn"} = {} => Approvals(memory) \subseteq Approvals(memory')]_vars

(* While commands neither overlap nor die, a run that names no mode of its  *)
(* own uses the one last asked for, by an option of a run or by /ck-mode.   *)
(* It is forgotten in two cases only, and what is used then is builder and  *)
(* never an older mode: /ck-mode found no recorded run to keep it in, or    *)
(* isMode does not know it and a run has been recorded since.               *)
Keepable == given.kept /\ given.mode \in Remembered

Fits(mode) == mode = given.mode \/ (mode = "builder" /\ ~ Keepable)

RememberedModeIsKept ==
  mishaps = {} => \A p \in Reporting : Fits(cmd[p].report.mode)
=============================================================================
