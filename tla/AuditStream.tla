---------------------------- MODULE AuditStream ----------------------------
(***************************************************************************)
(* The audit files: one stream for everything and one log per run.         *)
(*                                                                         *)
(* writeAuditEvent appends an event to the stream, linked to the last line *)
(* of it, and, when the event belongs to a run, has appendAuditEvent make  *)
(* another event: linked to the last one of the run's log, saved with that *)
(* log and appended to the stream as well.                                 *)
(*                                                                         *)
(* All of it is synchronous, so in one process it runs undisturbed; the    *)
(* service and the command line are processes of their own on the same     *)
(* files, and interleave between file operations.  An append is one write. *)
(* The hash of an event is its number; 0 is GENESIS_BLOCK.                 *)
(***************************************************************************)
EXTENDS Naturals, Sequences

CONSTANTS
  Processes,   \* processes that write audit events
  Runs,        \* runs
  NoRun,       \* stands for the runId of events of no run
  MaxEvents,   \* bound: events created
  StreamEnv    \* what may befall a process

ASSUME AuditStreamAssumption ==
  /\ NoRun \notin Runs
  /\ MaxEvents \in Nat
  /\ StreamEnv \subseteq {"crash"}

VARIABLES
  stream,      \* .codekit/audit/events.ndjson
  runLog,      \* .codekit/runs/<id>/audit-log.json
  lastHash,    \* module variable of a process
  proc,        \* where a process is in writeAuditEvent, and its locals
  created,     \* number of events created
  mishaps      \* history: has a write overlapped another, or a process died?

streamVars == <<stream, runLog, lastHash, proc, created, mishaps>>

Event == [hash : Nat, prev : Nat, run : Runs \cup {NoRun}]
WritePC == {"idle", "append", "load", "save", "record"}
Process == [pc : WritePC, run : Runs \cup {NoRun}, log : Seq(Event)]

Idle == [pc |-> "idle", run |-> NoRun, log |-> <<>>]

LastHashOf(events) == IF events = <<>> THEN 0 ELSE events[Len(events)].hash

StreamInit ==
  /\ stream = <<>>
  /\ runLog = [r \in Runs |-> <<>>]
  /\ lastHash = [p \in Processes |-> 0]
  /\ proc = [p \in Processes |-> Idle]
  /\ created = 0
  /\ mishaps = {}

Overlaps(p) == \E q \in Processes \ {p} : proc[q].pc # "idle"

Goto(p, pc) == proc' = [proc EXCEPT ![p].pc = pc]

(* Mutant: the tail of the file is not read, memory is trusted.            *)
WriteFromMemory(p, r) ==
  /\ proc[p].pc = "idle"
  /\ created < MaxEvents
  /\ proc' = [proc EXCEPT ![p].pc = "append", ![p].run = r]
  /\ mishaps' = mishaps \cup (IF Overlaps(p) THEN {"overlap"} ELSE {})
  /\ UNCHANGED <<stream, runLog, lastHash, created>>

(* writeAuditEvent reads the last line of the stream, if there is one.     *)
Write(p, r) ==
  /\ proc[p].pc = "idle"
  /\ created < MaxEvents
  /\ lastHash' = [lastHash EXCEPT ![p] = IF stream = <<>> THEN @ ELSE LastHashOf(stream)]
  /\ proc' = [proc EXCEPT ![p].pc = "append", ![p].run = r]
  /\ mishaps' = mishaps \cup (IF Overlaps(p) THEN {"overlap"} ELSE {})
  /\ UNCHANGED <<stream, runLog, created>>

(* It appends its event, which the model marks as none of a run's log.     *)
AppendEvent(p) ==
  /\ proc[p].pc = "append"
  /\ created' = created + 1
  /\ stream' = Append(stream, [hash |-> created + 1, prev |-> lastHash[p], run |-> NoRun])
  /\ lastHash' = [lastHash EXCEPT ![p] = created + 1]
  /\ Goto(p, IF proc[p].run = NoRun THEN "idle" ELSE "load")
  /\ UNCHANGED <<runLog, mishaps>>

(* appendAuditEvent loads the log of the run ...                           *)
LoadLog(p) ==
  /\ proc[p].pc = "load"
  /\ proc' = [proc EXCEPT ![p].pc = "save", ![p].log = runLog[proc[p].run]]
  /\ UNCHANGED <<stream, runLog, lastHash, created, mishaps>>

RunEvent(p) ==
  [hash |-> created + 1, prev |-> LastHashOf(proc[p].log), run |-> proc[p].run]

(* Mutants: the event is linked to the event of the stream; it is not      *)
(* appended to the stream.                                                 *)
SaveLinkedToStream(p) ==
  LET event == [RunEvent(p) EXCEPT !.prev = lastHash[p]]
      log == Append(proc[p].log, event)
  IN  /\ proc[p].pc = "save"
      /\ created' = created + 1
      /\ runLog' = [runLog EXCEPT ![proc[p].run] = log]
      /\ proc' = [proc EXCEPT ![p].pc = "record", ![p].log = log]
      /\ UNCHANGED <<stream, lastHash, mishaps>>

SaveWithoutStream(p) ==
  LET log == Append(proc[p].log, RunEvent(p))
  IN  /\ proc[p].pc = "save"
      /\ created' = created + 1
      /\ runLog' = [runLog EXCEPT ![proc[p].run] = log]
      /\ proc' = [proc EXCEPT ![p] = Idle]
      /\ UNCHANGED <<stream, lastHash, mishaps>>

(* ... adds its event and saves the whole log ...                          *)
SaveLog(p) ==
  LET log == Append(proc[p].log, RunEvent(p))
  IN  /\ proc[p].pc = "save"
      /\ created' = created + 1
      /\ runLog' = [runLog EXCEPT ![proc[p].run] = log]
      /\ proc' = [proc EXCEPT ![p].pc = "record", ![p].log = log]
      /\ UNCHANGED <<stream, lastHash, mishaps>>

(* ... and appends the event to the stream; lastHash is not its business.  *)
RecordInStream(p) ==
  LET log == proc[p].log
  IN  /\ proc[p].pc = "record"
      /\ stream' = Append(stream, log[Len(log)])
      /\ proc' = [proc EXCEPT ![p] = Idle]
      /\ UNCHANGED <<runLog, lastHash, created, mishaps>>

(* A process dies between two file operations; its successor starts with a *)
(* fresh module.                                                           *)
ProcessDies(p) ==
  /\ "crash" \in StreamEnv
  /\ proc[p].pc # "idle"
  /\ proc' = [proc EXCEPT ![p] = Idle]
  /\ lastHash' = [lastHash EXCEPT ![p] = 0]
  /\ mishaps' = mishaps \cup {"crash"}
  /\ UNCHANGED <<stream, runLog, created>>

StreamNext ==
  \E p \in Processes :
    \/ \E r \in Runs \cup {NoRun} : Write(p, r)
    \/ AppendEvent(p) \/ LoadLog(p) \/ SaveLog(p) \/ RecordInStream(p)
    \/ ProcessDies(p)

StreamSpec == StreamInit /\ [][StreamNext]_streamVars

-----------------------------------------------------------------------------

StreamTypeOK ==
  /\ stream \in Seq(Event)
  /\ runLog \in [Runs -> Seq(Event)]
  /\ lastHash \in [Processes -> Nat]
  /\ proc \in [Processes -> Process]
  /\ \A p \in Processes : proc[p].pc \in {"load", "save", "record"} => proc[p].run \in Runs
  /\ created \in Nat
  /\ mishaps \subseteq {"overlap", "crash"}

Chained(events) ==
  \A i \in 1 .. Len(events) :
    events[i].prev = IF i = 1 THEN 0 ELSE events[i - 1].hash

(* The log of a run is a chain from GENESIS_BLOCK, even when processes     *)
(* overwrite each other's log or die on the way.                           *)
RunLogChained == \A r \in Runs : Chained(runLog[r])

(* When nobody is writing, every event of a run's log is in the stream,    *)
(* however the writers interleaved, unless one of them died.               *)
StreamCoversRunLogs ==
  ("crash" \notin mishaps /\ \A p \in Processes : proc[p].pc = "idle") =>
    \A r \in Runs : \A i \in 1 .. Len(runLog[r]) :
      \E j \in 1 .. Len(stream) : stream[j] = runLog[r][i]

(* While no two processes write at once, an event of writeAuditEvent is    *)
(* linked to the line before it: whichever function and whichever process  *)
(* wrote that line, and also after a restart.                              *)
EventsFollowStream ==
  "overlap" \notin mishaps =>
    \A i \in 1 .. Len(stream) :
      stream[i].run = NoRun => stream[i].prev = IF i = 1 THEN 0 ELSE stream[i - 1].hash

=============================================================================
