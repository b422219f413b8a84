---------------------------- MODULE ActionBatch ----------------------------
(***************************************************************************)
(* Batches of actions: the queue they wait in, the policy that assesses    *)
(* them, the runner, its rollback logs and the command that rolls a run    *)
(* back.                                                                   *)
(* Source: packages/orchestrator/src/batch-queue.ts, action-runner.ts,     *)
(*         rollback-engine.ts, log-writer.ts, mode-controller.ts;          *)
(*         packages/security/src/action-policy.ts;                         *)
(*         packages/command-engine/src/handlers/                           *)
(*                                                                         *)
(* Every command is a process of its own.  What it does to the files is    *)
(* synchronous, so processes interleave and can die between the actions.   *)
(***************************************************************************)
EXTENDS Integers, Sequences, FiniteSets, SequencesExt

CONSTANTS
    Commands,       \* processes of the command line
    Dirs, Files,    \* paths of the workspace
    Above,          \* path -> the directories it lies in, at whatever depth
    Batches,        \* the batches users have: [run, phase, actions]
    LastRuns,       \* what the project memory may tell of the last run: [run, mode]
    MaxQueued,      \* bound: batches queued
    MaxCommands     \* bound: commands started

Phases == << "build", "deploy", "qa", "review" >>     \* in the order readdir lists them

NoRun == [run |-> "", mode |-> ""]      \* a mode that is not known is not remembered, either

BuilderAction ==
    [type : {"write_file", "append_file"}, target : Files, class : {"safe", "unsafe"}]
      \cup [type : {"create_dir"}, target : Dirs, class : {"safe", "unsafe"}]
      \cup [type : {"run_command"}, target : {""}, class : {"blocked", "high", "ordinary"}]

ASSUME BatchAssumption ==
    /\ \A b \in Batches : b.actions \in Seq(BuilderAction) /\ b.phase \in ToSet(Phases)
    /\ Dirs \cap Files = {}
    /\ Above \in [Dirs \cup Files -> SUBSET Dirs]
    /\ \A x \in Dirs \cup Files : \A d \in Above[x] : d # x /\ Above[d] \subseteq Above[x]
    /\ \A last \in LastRuns : last.run = "" => last = NoRun

VARIABLES
    tree,           \* the paths that exist
    rollbackLog,    \* <<run, phase>> -> the entries of its rollback log, if it has one
    queue,          \* the queued batches, in order: [batch, status]
    command,        \* process -> what it is doing
    ranRisky,       \* history: queued batches a risky action of which has run; 0 is none
    started         \* commands started

batchVars == <<tree, rollbackLog, queue, command, ranRisky, started>>

NoLog == << >>
Off == [pc |-> "off"]

BatchInit ==
    /\ tree = {}
    /\ rollbackLog = [x \in {} |-> NoLog]
    /\ queue = <<>>
    /\ command = [c \in Commands |-> Off]
    /\ ranRisky = {} /\ started = 0

----------------------------------------------------------------------------
\* assessAction
Allowed(a) == a.class \notin {"unsafe", "blocked"}

Risk(a) == CASE a.class = "safe" -> "low" [] a.class = "ordinary" -> "medium" [] OTHER -> "high"

DryRunByDefault(mode) == mode \notin {"turbo", "builder", "god"}

RequiresApproval(mode, risk) ==
    \/ risk = "high" /\ mode # "god"
    \/ risk = "medium" /\ mode \notin {"turbo", "god"}

AllowsCommands(mode) == mode # "safe"

----------------------------------------------------------------------------
CreateQueuedBatch(b) ==
    /\ Len(queue) < MaxQueued
    /\ queue' = Append(queue, [batch |-> b, status |-> "pending"])
    /\ UNCHANGED <<tree, rollbackLog, command, ranRisky, started>>

\* A command that starts, and whether it is alone while it lasts.
Starts(c, doing) ==
    /\ command[c].pc = "off"
    /\ started < MaxCommands
    /\ started' = started + 1
    /\ command' = [d \in Commands |->
          IF d = c THEN [doing EXCEPT !.alone = \A e \in Commands : command[e].pc = "off"]
          ELSE IF command[d].pc = "off" THEN Off
          ELSE [command[d] EXCEPT !.alone = FALSE]]

Runner(id, b, mode, approved, dry) ==
    [pc |-> "run", id |-> id, batch |-> b, mode |-> mode, approved |-> approved, dry |-> dry,
     left |-> b.actions, entries |-> <<>>, alone |-> TRUE]

ApproveMutLater(c, id, mode) ==
    /\ id \in DOMAIN queue
    /\ Starts(c, Runner(id, queue[id].batch, mode, TRUE, FALSE))
    /\ UNCHANGED <<tree, rollbackLog, ranRisky, queue>>

\* /ck-approve-batch of a batch in whatever status: its phase is approved.
ApproveBatch(c, id, mode) ==
    /\ id \in DOMAIN queue
    /\ Starts(c, Runner(id, queue[id].batch, mode, TRUE, FALSE))
    /\ queue' = [queue EXCEPT ![id].status = "approved"]
    /\ UNCHANGED <<tree, rollbackLog, ranRisky>>

\* /ck-execute of a batch the user passes: nothing is approved.
Execute(c, b, mode) ==
    /\ Starts(c, Runner(0, b, mode, FALSE, DryRunByDefault(mode)))
    /\ UNCHANGED <<tree, rollbackLog, queue, ranRisky>>

\* The command line: every command is given the mode and the run of the last
\* run; without one a batch can be approved, but not executed or rolled back.
ContextMode(last) == IF last.mode = "" THEN "builder" ELSE last.mode

CkApproveBatch(c, id, last) == ApproveBatch(c, id, ContextMode(last))

CkExecute(c, b, last) == last # NoRun /\ Execute(c, b, ContextMode(last))

\* What keeps the runner from executing an action.
HeldBack(r, a) ==
    \/ ~Allowed(a)
    \/ RequiresApproval(r.mode, Risk(a)) /\ ~r.approved
    \/ r.dry
    \/ a.type = "run_command" /\ ~AllowsCommands(r.mode)

\* The trees that can be: nothing is where its directories are not.
Workspaces == {t \in SUBSET (Dirs \cup Files) : \A x \in t : Above[x] \subseteq t}

\* An action on a path makes every directory on the way to it.
Made(a) == {a.target} \cup Above[a.target]

\* What an action may leave of the workspace t, whole or having failed on the
\* way; a command may do anything to it.
Leaves(a, t, whole) ==
    IF a.type = "run_command" THEN Workspaces
    ELSE IF whole THEN {t \cup Made(a)}
    ELSE {t \cup s : s \in SUBSET Made(a)} \cap Workspaces

Entry(a) == [type |-> a.type, target |-> a.target]

RunAction(c) ==
    /\ command[c].pc = "run"
    /\ command[c].left # <<>>
    /\ LET r == command[c]
           a == Head(r.left)
           skipped == [r EXCEPT !.left = Tail(@)]
           executed == [skipped EXCEPT !.entries = Append(@, Entry(a))]
       IN  \/ /\ HeldBack(r, a)
              /\ command' = [command EXCEPT ![c] = skipped]
              /\ UNCHANGED <<tree, ranRisky>>
           \/ /\ ~HeldBack(r, a)
              /\ command' = [command EXCEPT ![c] = executed]
              /\ tree' \in Leaves(a, tree, TRUE)
              /\ ranRisky' = IF RequiresApproval(r.mode, Risk(a)) THEN ranRisky \cup {r.id}
                             ELSE ranRisky
           \/ \* one that fails leaves no entry, though it may have made something
              /\ ~HeldBack(r, a)
              /\ command' = [command EXCEPT ![c] = skipped]
              /\ tree' \in Leaves(a, tree, FALSE)
              /\ UNCHANGED ranRisky
    /\ UNCHANGED <<rollbackLog, queue, started>>

\* Artifact and logs are written; the rollback log of the phase replaces the
\* one of an earlier batch.
WriteLogs(c) ==
    /\ command[c].pc = "run"
    /\ command[c].left = <<>>
    /\ LET log == <<command[c].batch.run, command[c].batch.phase>>
       IN  rollbackLog' = [l \in DOMAIN rollbackLog \cup {log} |->
              IF l = log THEN command[c].entries ELSE rollbackLog[l]]
    /\ command' = [command EXCEPT ![c] =
          IF @.approved THEN [pc |-> "executed", id |-> @.id, alone |-> @.alone] ELSE Off]
    /\ UNCHANGED <<tree, queue, ranRisky, started>>

\* handleApproveBatch marks the batch executed, whatever became of its actions.
MarkExecuted(c) ==
    /\ command[c].pc = "executed"
    /\ queue' = [queue EXCEPT ![command[c].id].status = "executed"]
    /\ command' = [command EXCEPT ![c] = Off]
    /\ UNCHANGED <<tree, rollbackLog, ranRisky, started>>

----------------------------------------------------------------------------
\* The logs of a run that are there, by the places of their names; each is
\* read when its turn comes, the last name first.
LogsOf(r) == {i \in DOMAIN Phases : <<r, Phases[i]>> \in DOMAIN rollbackLog}

Rollback(c, r) ==
    /\ Starts(c, [pc |-> "rollback", run |-> r, logs |-> LogsOf(r), entries |-> <<>>, alone |-> TRUE])
    /\ UNCHANGED <<tree, rollbackLog, queue, ranRisky>>

CkRollback(c, last) == last # NoRun /\ Rollback(c, last.run)

ReadInOrder(c) ==
    /\ command[c].pc = "rollback" /\ command[c].entries = <<>>
    /\ \E i \in command[c].logs :
          /\ \A j \in command[c].logs : j <= i
          /\ command' = [command EXCEPT ![c].logs = @ \ {i},
                            ![c].entries = rollbackLog[<<command[c].run, Phases[i]>>]]
    /\ UNCHANGED <<tree, rollbackLog, queue, ranRisky, started>>

ReadLog(c) ==
    /\ command[c].pc = "rollback" /\ command[c].entries = <<>>
    /\ \E i \in command[c].logs :
          /\ \A j \in command[c].logs : j <= i
          /\ command' = [command EXCEPT ![c].logs = @ \ {i},
                            ![c].entries = Reverse(rollbackLog[<<command[c].run, Phases[i]>>])]
    /\ UNCHANGED <<tree, rollbackLog, queue, ranRisky, started>>

\* A written file is deleted, whoever wrote it since; a directory must be
\* empty; appends and commands are left to the user.
Undone(e) ==
    CASE e.type = "write_file" -> {e.target}
      [] e.type = "create_dir" -> {e.target} \ UNION {Above[x] : x \in tree}
      [] OTHER -> {}

UndoEntry(c) ==
    /\ command[c].pc = "rollback" /\ command[c].entries # <<>>
    /\ tree' = tree \ Undone(Head(command[c].entries))
    /\ command' = [command EXCEPT ![c].entries = Tail(@)]
    /\ UNCHANGED <<rollbackLog, queue, ranRisky, started>>

RollbackEnds(c) ==
    /\ command[c].pc = "rollback" /\ command[c].entries = <<>> /\ command[c].logs = {}
    /\ command' = [command EXCEPT ![c] = Off]
    /\ UNCHANGED <<tree, rollbackLog, queue, ranRisky, started>>

\* The process dies; a queued batch may stay approved for ever.
CommandDies(c) ==
    /\ command[c].pc # "off"
    /\ command' = [command EXCEPT ![c] = Off]
    /\ UNCHANGED <<tree, rollbackLog, queue, ranRisky, started>>

BatchNext ==
    \/ \E b \in Batches : CreateQueuedBatch(b)
    \/ \E c \in Commands :
          \/ \E last \in LastRuns :
                \/ \E id \in 1..MaxQueued : CkApproveBatch(c, id, last)
                \/ \E b \in Batches : CkExecute(c, b, last)
                \/ CkRollback(c, last)
          \/ RunAction(c) \/ WriteLogs(c) \/ MarkExecuted(c)
          \/ ReadLog(c) \/ UndoEntry(c) \/ RollbackEnds(c)
          \/ CommandDies(c)

BatchSpec == BatchInit /\ [][BatchNext]_batchVars

----------------------------------------------------------------------------
\* What the queue says of a batch: while it is pending no action of it has
\* run that its mode wants approved, nor one of a batch that was never
\* queued; once it is executed it can be rolled back, whoever died when.
QueueTellsTheTruth ==
    /\ \A id \in ranRisky : id # 0 /\ queue[id].status # "pending"
    /\ \A id \in DOMAIN queue : queue[id].status = "executed" =>
          <<queue[id].batch.run, queue[id].batch.phase>> \in DOMAIN rollbackLog

\* The path x is what an entry made that the rollback of the run r comes to
\* after the entry i of the log of the phase p: one before it in that log, or
\* one of a phase whose name is before that of p.
UndoneLater(logs, r, p, i, x) ==
    \E q \in DOMAIN Phases :
        /\ <<r, Phases[q]>> \in DOMAIN logs
        /\ \E j \in DOMAIN logs[<<r, Phases[q]>>] :
              /\ q < p \/ (q = p /\ j < i)
              /\ logs[<<r, Phases[q]>>][j].type \in {"write_file", "create_dir"}
              /\ logs[<<r, Phases[q]>>][j].target = x

\* What a rollback that leaves the tree t owes that entry: the file it wrote is
\* gone, and so is the directory it made, unless that still holds something or
\* held, when its turn came, what was only undone after it.
Reversed(logs, r, p, i, t) ==
    LET e == logs[<<r, Phases[p]>>][i]
    IN  /\ e.type = "write_file" => e.target \notin t
        /\ e.type = "create_dir" /\ e.target \in t =>
              \E x \in Dirs \cup Files :
                 /\ e.target \in Above[x]
                 /\ x \in t \/ UndoneLater(logs, r, p, i, x)

\* A rollback that no other command overlaps reverses all that the logs of
\* the run list.
LoneRollbackCleans ==
    \A c \in Commands :
        command[c].pc = "rollback" /\ command[c].entries = <<>> /\ command[c].logs = {}
          /\ command[c].alone =>
            \A p \in LogsOf(command[c].run) :
                \A i \in DOMAIN rollbackLog[<<command[c].run, Phases[p]>>] :
                    Reversed(rollbackLog, command[c].run, p, i, tree)

============================================================================
