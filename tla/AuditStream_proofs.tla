------------------------- MODULE AuditStream_proofs -------------------------
(***************************************************************************)
(* The log of every run stays one chain, for any number of processes that  *)
(* overwrite each other's log, and crashes anywhere: a log is only ever    *)
(* replaced by a chain with one more event linked to its end.              *)
(*                                                                         *)
(* Of the stream: no event of a run's log is missing from it unless a      *)
(* process died, and while no two processes write at once every event of   *)
(* writeAuditEvent is linked to the line before it.                        *)
(***************************************************************************)
EXTENDS AuditStream, TLAPS

LogsInHandChained ==
  \A p \in Processes : /\ proc[p].pc = "save" => Chained(proc[p].log)
                       /\ proc[p].pc = "record" => proc[p].log # <<>>

IInv == StreamTypeOK /\ RunLogChained /\ LogsInHandChained

LEMMA ChainedEmpty == Chained(<<>>)
BY DEF Chained

LEMMA LastHashType ==
  ASSUME NEW events \in Seq(Event)
  PROVE  LastHashOf(events) \in Nat
<1>1. CASE events = <<>>
  BY <1>1 DEF LastHashOf
<1>2. CASE events # <<>>
  <2>1. events[Len(events)] \in Event
    BY <1>2
  <2>. QED  BY <1>2, <2>1 DEF LastHashOf, Event
<1>. QED  BY <1>1, <1>2

LEMMA ChainedAppend ==
  ASSUME NEW events \in Seq(Event), Chained(events),
         NEW e \in Event, e.prev = LastHashOf(events)
  PROVE  Chained(Append(events, e))
<1>. DEFINE longer == Append(events, e)
<1>1. /\ longer \in Seq(Event) /\ Len(longer) = Len(events) + 1 /\ Len(events) \in Nat
      /\ \A i \in 1 .. Len(events) : longer[i] = events[i]
      /\ longer[Len(events) + 1] = e
  OBVIOUS
<1>2. events = <<>> <=> Len(events) = 0
  OBVIOUS
<1>. HIDE DEF longer
<1>3. ASSUME NEW i \in 1 .. Len(longer)
      PROVE  longer[i].prev = IF i = 1 THEN 0 ELSE longer[i - 1].hash
  <2>1. CASE i <= Len(events)
    <3>1. i \in 1 .. Len(events) /\ (i # 1 => i - 1 \in 1 .. Len(events))
      BY <1>1, <2>1
    <3>2. events[i].prev = IF i = 1 THEN 0 ELSE events[i - 1].hash
      BY <3>1 DEF Chained
    <3>. QED  BY <1>1, <3>1, <3>2
  <2>2. CASE i = Len(events) + 1
    <3>1. longer[i].prev = LastHashOf(events)
      BY <1>1, <2>2
    <3>2. CASE Len(events) = 0
      BY <1>2, <2>2, <3>1, <3>2 DEF LastHashOf
    <3>3. CASE Len(events) # 0
      <4>1. i # 1 /\ i - 1 = Len(events) /\ i - 1 \in 1 .. Len(events)
        BY <1>1, <2>2, <3>3
      <4>. QED  BY <1>1, <1>2, <3>1, <3>3, <4>1 DEF LastHashOf
    <3>. QED  BY <3>2, <3>3
  <2>. QED  BY <1>1, <2>1, <2>2
<1>. QED  BY <1>3 DEF Chained, longer

LEMMA IdleType == Idle \in Process
BY DEF Idle, Process, WritePC

LEMMA InitIInv == StreamInit => IInv
<1>. SUFFICES ASSUME StreamInit PROVE IInv
  OBVIOUS
<1>1. StreamTypeOK
  BY IdleType DEF StreamInit, StreamTypeOK, Idle
<1>2. RunLogChained
  BY ChainedEmpty DEF StreamInit, RunLogChained
<1>3. LogsInHandChained
  BY DEF StreamInit, LogsInHandChained, Idle
<1>. QED  BY <1>1, <1>2, <1>3 DEF IInv

(* A step of one process that leaves the logs of the runs alone.           *)
LEMMA LocalStep ==
  ASSUME IInv, NEW p \in Processes, NEW t \in Process, proc' = [proc EXCEPT ![p] = t],
         t.pc \in {"load", "save", "record"} => t.run \in Runs,
         t.pc = "save" => Chained(t.log), t.pc = "record" => t.log # <<>>,
         UNCHANGED runLog, stream' \in Seq(Event), lastHash' \in [Processes -> Nat],
         created' \in Nat, mishaps' \subseteq {"overlap", "crash"}
  PROVE  IInv'
<1>1. /\ proc' \in [Processes -> Process] /\ proc'[p] = t
      /\ \A q \in Processes : q # p => proc'[q] = proc[q]
  BY DEF IInv, StreamTypeOK
<1>2. StreamTypeOK'
  BY <1>1 DEF IInv, StreamTypeOK
<1>3. RunLogChained'
  BY DEF IInv, RunLogChained
<1>4. LogsInHandChained'
  BY <1>1 DEF IInv, LogsInHandChained
<1>. QED  BY <1>2, <1>3, <1>4 DEF IInv

LEMMA Facts ==
  ASSUME IInv, NEW p \in Processes
  PROVE  /\ proc[p] \in Process /\ proc[p].pc \in WritePC
         /\ proc[p].run \in Runs \cup {NoRun} /\ proc[p].log \in Seq(Event)
         /\ (proc[p].pc \in {"load", "save", "record"} => proc[p].run \in Runs)
         /\ stream \in Seq(Event) /\ lastHash \in [Processes -> Nat] /\ created \in Nat
         /\ runLog \in [Runs -> Seq(Event)] /\ proc \in [Processes -> Process]
         /\ (proc[p].pc = "save" => Chained(proc[p].log))
         /\ (proc[p].pc = "record" => proc[p].log # <<>>)
         /\ \A r \in Runs : Chained(runLog[r])
         /\ mishaps \subseteq {"overlap", "crash"}
BY DEF IInv, StreamTypeOK, Process, LogsInHandChained, RunLogChained

LEMMA WriteStep ==
  ASSUME IInv, NEW p \in Processes, NEW r \in Runs \cup {NoRun}, Write(p, r)
  PROVE  IInv'
<1>. DEFINE t == [proc[p] EXCEPT !.pc = "append", !.run = r]
<1>1. proc' = [proc EXCEPT ![p] = t] /\ UNCHANGED <<stream, runLog, created>>
      /\ mishaps' \subseteq {"overlap", "crash"}
  BY Facts DEF Write
<1>2. t \in Process /\ t.pc = "append"
  BY Facts DEF Process, WritePC
<1>3. lastHash' \in [Processes -> Nat]
  <2>. DEFINE h == IF stream = <<>> THEN lastHash[p] ELSE LastHashOf(stream)
  <2>1. h \in Nat
    BY Facts, LastHashType
  <2>2. lastHash' = [lastHash EXCEPT ![p] = h]
    BY DEF Write
  <2>. HIDE DEF h
  <2>. QED  BY <2>1, <2>2, Facts
<1>. HIDE DEF t
<1>. QED  BY <1>1, <1>2, <1>3, Facts, LocalStep

LEMMA AppendEventStep ==
  ASSUME IInv, NEW p \in Processes, AppendEvent(p)
  PROVE  IInv'
<1>. DEFINE pc == IF proc[p].run = NoRun THEN "idle" ELSE "load"
            t == [proc[p] EXCEPT !.pc = pc]
            e == [hash |-> created + 1, prev |-> lastHash[p], run |-> NoRun]
<1>1. /\ proc' = [proc EXCEPT ![p] = t] /\ runLog' = runLog /\ created' = created + 1
      /\ stream' = Append(stream, e) /\ lastHash' = [lastHash EXCEPT ![p] = created + 1]
      /\ mishaps' = mishaps
  BY Facts DEF AppendEvent, Goto
<1>2. e \in Event
  BY Facts DEF Event
<1>3. t \in Process /\ t.pc = pc /\ t.run = proc[p].run
  BY Facts DEF Process, WritePC
<1>4. t.pc \in {"load", "save", "record"} => t.run \in Runs
  BY <1>3, Facts
<1>5. t.pc \notin {"save", "record"}
  BY <1>3
<1>. HIDE DEF t, e, pc
<1>6. stream' \in Seq(Event) /\ lastHash' \in [Processes -> Nat] /\ created' \in Nat
      /\ mishaps' \subseteq {"overlap", "crash"}
  BY <1>1, <1>2, Facts
<1>. QED  BY <1>1, <1>3, <1>4, <1>5, <1>6, LocalStep

LEMMA LoadLogStep ==
  ASSUME IInv, NEW p \in Processes, LoadLog(p)
  PROVE  IInv'
<1>. DEFINE log == runLog[proc[p].run]
            t == [proc[p] EXCEPT !.pc = "save", !.log = log]
<1>1. /\ proc' = [proc EXCEPT ![p] = t] /\ proc[p].run \in Runs
      /\ UNCHANGED <<stream, runLog, lastHash, created, mishaps>>
  BY Facts DEF LoadLog
<1>2. log \in Seq(Event) /\ Chained(log)
  BY <1>1, Facts
<1>. HIDE DEF log
<1>3. t \in Process /\ t.run = proc[p].run /\ t.log = log /\ t.pc = "save"
  BY <1>2, Facts DEF Process, WritePC
<1>. HIDE DEF t
<1>. QED  BY <1>1, <1>2, <1>3, Facts, LocalStep

LEMMA SaveLogStep ==
  ASSUME IInv, NEW p \in Processes, SaveLog(p)
  PROVE  IInv'
<1>. DEFINE r == proc[p].run
            e == RunEvent(p)
            log == Append(proc[p].log, e)
            t == [proc[p] EXCEPT !.pc = "record", !.log = log]
<1>1. /\ proc' = [proc EXCEPT ![p] = t] /\ r \in Runs /\ proc[p].pc = "save"
      /\ runLog' = [runLog EXCEPT ![r] = log] /\ created' = created + 1
      /\ UNCHANGED <<stream, lastHash, mishaps>>
  BY Facts DEF SaveLog
<1>2. e \in Event /\ e.prev = LastHashOf(proc[p].log)
  <2>1. LastHashOf(proc[p].log) \in Nat /\ created + 1 \in Nat
    BY Facts, LastHashType
  <2>. QED  BY <1>1, <2>1 DEF Event, RunEvent
<1>. HIDE DEF e
<1>3. log \in Seq(Event) /\ Chained(log) /\ log # <<>>
  <2>1. proc[p].log \in Seq(Event) /\ Chained(proc[p].log)
    BY <1>1, Facts
  <2>2. Chained(log)
    BY <1>2, <2>1, ChainedAppend
  <2>. QED  BY <1>2, <2>1, <2>2
<1>. HIDE DEF log
<1>4. t \in Process /\ t.run = r /\ t.pc = "record" /\ t.log = log
  BY <1>3, Facts DEF Process, WritePC
<1>. HIDE DEF t, r
<1>5. /\ proc' \in [Processes -> Process] /\ proc'[p] = t
      /\ \A q \in Processes : q # p => proc'[q] = proc[q]
      /\ runLog' \in [Runs -> Seq(Event)] /\ runLog'[r] = log
      /\ \A x \in Runs : x # r => runLog'[x] = runLog[x]
  BY <1>1, <1>3, <1>4, Facts
<1>6. StreamTypeOK'
  BY <1>1, <1>4, <1>5 DEF IInv, StreamTypeOK
<1>7. RunLogChained'
  BY <1>3, <1>5 DEF IInv, RunLogChained
<1>8. LogsInHandChained'
  BY <1>3, <1>4, <1>5 DEF IInv, LogsInHandChained
<1>. QED  BY <1>6, <1>7, <1>8 DEF IInv

LEMMA RecordInStreamStep ==
  ASSUME IInv, NEW p \in Processes, RecordInStream(p)
  PROVE  IInv'
<1>1. proc[p].log[Len(proc[p].log)] \in Event
  BY Facts DEF RecordInStream
<1>2. stream' \in Seq(Event)
  BY <1>1, Facts DEF RecordInStream
<1>. QED  BY <1>2, Facts, IdleType, LocalStep DEF RecordInStream, Idle

LEMMA CrashStep ==
  ASSUME IInv, NEW p \in Processes, ProcessDies(p)
  PROVE  IInv'
<1>1. lastHash' \in [Processes -> Nat] /\ mishaps' \subseteq {"overlap", "crash"}
  BY Facts DEF ProcessDies
<1>. QED  BY <1>1, Facts, IdleType, LocalStep DEF ProcessDies, Idle

LEMMA NextIInv == IInv /\ [StreamNext]_streamVars => IInv'
<1>. SUFFICES ASSUME IInv, [StreamNext]_streamVars PROVE IInv'
  OBVIOUS
<1>1. CASE UNCHANGED streamVars
  BY <1>1 DEF streamVars, IInv, StreamTypeOK, RunLogChained, LogsInHandChained
<1>2. CASE StreamNext
  BY <1>2, WriteStep, AppendEventStep, LoadLogStep, SaveLogStep, RecordInStreamStep,
     CrashStep DEF StreamNext
<1>. QED  BY <1>1, <1>2

(* RunLogChained: the log of a run is a chain from GENESIS_BLOCK, however  *)
(* many processes write to it at once and whenever one of them dies.       *)
THEOREM RunLogsChained == StreamSpec => []RunLogChained
<1>1. IInv => RunLogChained
  BY DEF IInv
<1>. QED  BY <1>1, InitIInv, NextIInv, PTL DEF StreamSpec

(* StreamTypeOK: a process that works on the log of a run has a run to work on.  *)
THEOREM AuditTypeCorrect == StreamSpec => []StreamTypeOK
<1>1. IInv => StreamTypeOK
  BY DEF IInv
<1>. QED  BY <1>1, InitIInv, NextIInv, PTL DEF StreamSpec

-----------------------------------------------------------------------------
(* Every event of a run's log is in the stream, or about to be put there   *)
(* by the process that made it; and so is every event of the logs that     *)
(* processes have in hand, which replace the log of the run.               *)

LastOf(log) == log[Len(log)]

(* In lines of the stream, while the processes are where procs says.       *)
Accounted(e, lines, procs) ==
  \/ \E j \in 1 .. Len(lines) : lines[j] = e
  \/ \E p \in Processes : procs[p].pc = "record" /\ LastOf(procs[p].log) = e

LogAccounted(log, lines, procs) ==
  \A i \in 1 .. Len(log) : Accounted(log[i], lines, procs)

CoverInv ==
  "crash" \notin mishaps =>
    /\ \A r \in Runs : LogAccounted(runLog[r], stream, proc)
    /\ \A p \in Processes : proc[p].pc \in {"save", "record"} =>
         LogAccounted(proc[p].log, stream, proc)

LEMMA InitCover == StreamInit => CoverInv
<1>. SUFFICES ASSUME StreamInit PROVE CoverInv
  OBVIOUS
<1>1. /\ \A r \in Runs : runLog[r] = <<>>
      /\ \A p \in Processes : proc[p].pc = "idle"
  BY DEF StreamInit, Idle
<1>. QED  BY <1>1 DEF CoverInv, LogAccounted

LEMMA AppendKeeps ==
  ASSUME NEW events \in Seq(Event), NEW e \in Event
  PROVE  /\ Append(events, e) \in Seq(Event)
         /\ Len(Append(events, e)) = Len(events) + 1 /\ Len(events) \in Nat
         /\ \A i \in 1 .. Len(events) : /\ i \in 1 .. Len(Append(events, e))
                                        /\ Append(events, e)[i] = events[i]
         /\ Append(events, e)[Len(events) + 1] = e
         /\ LastOf(Append(events, e)) = e
         /\ \A i \in 1 .. Len(Append(events, e)) : i \in 1 .. Len(events) \/ i = Len(events) + 1
BY DEF LastOf

(* A step of process p keeps the accounts if what was accounted for stays  *)
(* so, and the logs it has changed hold only events accounted for.         *)
LEMMA CoverStep ==
  ASSUME CoverInv, NEW p \in Processes, "crash" \notin mishaps' => "crash" \notin mishaps,
         \A x : Accounted(x, stream, proc) => Accounted(x, stream', proc'),
         \A q \in Processes : q # p => proc'[q] = proc[q],
         "crash" \notin mishaps =>
           /\ \A r \in Runs : \/ runLog'[r] = runLog[r]
                              \/ LogAccounted(runLog'[r], stream', proc')
           /\ proc'[p].pc \in {"save", "record"} => LogAccounted(proc'[p].log, stream', proc')
  PROVE  CoverInv'
<1>. SUFFICES ASSUME "crash" \notin mishaps
              PROVE  /\ \A r \in Runs : LogAccounted(runLog'[r], stream', proc')
                     /\ \A q \in Processes : proc'[q].pc \in {"save", "record"} =>
                          LogAccounted(proc'[q].log, stream', proc')
  BY DEF CoverInv
<1>1. \A log : LogAccounted(log, stream, proc) => LogAccounted(log, stream', proc')
  BY DEF LogAccounted
<1>. QED  BY <1>1 DEF CoverInv

(* A step that neither appends to the stream nor ends a record.            *)
LEMMA QuietCover ==
  ASSUME CoverInv, NEW p \in Processes, UNCHANGED <<stream, runLog>>,
         "crash" \notin mishaps' => "crash" \notin mishaps, proc[p].pc # "record",
         \A q \in Processes : q # p => proc'[q] = proc[q],
         \/ proc'[p].pc \notin {"save", "record"}
         \/ \E r \in Runs : proc'[p].log = runLog[r]
  PROVE  CoverInv'
<1>1. \A x : Accounted(x, stream, proc) => Accounted(x, stream', proc')
  BY DEF Accounted
<1>2. "crash" \notin mishaps =>
        (proc'[p].pc \in {"save", "record"} => LogAccounted(proc'[p].log, stream', proc'))
  BY <1>1 DEF CoverInv, LogAccounted
<1>. QED  BY <1>1, <1>2, CoverStep

LEMMA AppendEventCover ==
  ASSUME IInv, CoverInv, NEW p \in Processes, AppendEvent(p)
  PROVE  CoverInv'
<1>. DEFINE e == [hash |-> created + 1, prev |-> lastHash[p], run |-> NoRun]
<1>1. stream' = Append(stream, e) /\ proc[p].pc = "append"
      /\ proc'[p].pc \notin {"save", "record"} /\ UNCHANGED <<runLog, mishaps>>
      /\ \A q \in Processes : q # p => proc'[q] = proc[q]
  BY Facts DEF AppendEvent, Goto, Process
<1>2. e \in Event
  BY Facts DEF Event
<1>. HIDE DEF e
<1>3. \A x : Accounted(x, stream, proc) => Accounted(x, stream', proc')
  <2>1. \A j \in 1 .. Len(stream) : j \in 1 .. Len(stream') /\ stream'[j] = stream[j]
    BY <1>1, <1>2, Facts, AppendKeeps
  <2>2. \A q \in Processes : proc[q].pc = "record" => proc'[q] = proc[q]
    BY <1>1
  <2>. QED  BY <2>1, <2>2 DEF Accounted
<1>. QED  BY <1>1, <1>3, CoverStep

LEMMA SaveLogCover ==
  ASSUME IInv, CoverInv, NEW p \in Processes, SaveLog(p)
  PROVE  CoverInv'
<1>. DEFINE e == RunEvent(p)
            log == Append(proc[p].log, e)
            r == proc[p].run
<1>1. /\ proc' = [proc EXCEPT ![p].pc = "record", ![p].log = log]
      /\ proc[p].pc = "save" /\ r \in Runs /\ runLog' = [runLog EXCEPT ![r] = log]
      /\ UNCHANGED <<stream, mishaps>>
  BY Facts DEF SaveLog
<1>2. /\ proc'[p].pc = "record" /\ proc'[p].log = log /\ runLog'[r] = log
      /\ \A q \in Processes : q # p => proc'[q] = proc[q]
      /\ \A x \in Runs : x # r => runLog'[x] = runLog[x]
  BY <1>1, Facts DEF Process
<1>3. e \in Event
  <2>1. LastHashOf(proc[p].log) \in Nat /\ created + 1 \in Nat
    BY Facts, LastHashType
  <2>. QED  BY <1>1, <2>1 DEF Event, RunEvent
<1>. HIDE DEF e
<1>4. \A x : Accounted(x, stream, proc) => Accounted(x, stream', proc')
  BY <1>1, <1>2 DEF Accounted
<1>5. Accounted(e, stream', proc')
  <2>1. proc'[p].pc = "record" /\ LastOf(proc'[p].log) = e
    BY <1>2, <1>3, Facts, AppendKeeps
  <2>. QED  BY <2>1 DEF Accounted
<1>6. "crash" \notin mishaps => LogAccounted(log, stream', proc')
  <2>. SUFFICES ASSUME "crash" \notin mishaps, NEW i \in 1 .. Len(log)
                PROVE  Accounted(log[i], stream', proc')
    BY DEF LogAccounted
  <2>1. CASE i \in 1 .. Len(proc[p].log)
    <3>1. Accounted(proc[p].log[i], stream, proc)
      BY <1>1, <2>1 DEF CoverInv, LogAccounted
    <3>2. log[i] = proc[p].log[i]
      BY <1>3, <2>1, Facts, AppendKeeps
    <3>. QED  BY <1>4, <3>1, <3>2
  <2>2. CASE i = Len(proc[p].log) + 1
    <3>1. log[i] = e
      BY <1>3, <2>2, Facts, AppendKeeps
    <3>. QED  BY <1>5, <3>1
  <2>. QED  BY <1>3, <2>1, <2>2, Facts, AppendKeeps
<1>. HIDE DEF log, r
<1>. QED  BY <1>1, <1>2, <1>4, <1>6, CoverStep

(* The event that was pending is in the stream now.                        *)
LEMMA RecordInStreamCover ==
  ASSUME IInv, CoverInv, NEW p \in Processes, RecordInStream(p)
  PROVE  CoverInv'
<1>. DEFINE e == LastOf(proc[p].log)
<1>1. /\ stream' = Append(stream, e) /\ proc'[p].pc = "idle" /\ UNCHANGED <<runLog, mishaps>>
      /\ proc[p].pc = "record" /\ \A q \in Processes : q # p => proc'[q] = proc[q]
  BY Facts DEF RecordInStream, LastOf, Idle
<1>2. e \in Event
  BY <1>1, Facts DEF LastOf
<1>. HIDE DEF e
<1>3. \A x : Accounted(x, stream, proc) => Accounted(x, stream', proc')
  <2>. SUFFICES ASSUME NEW x, Accounted(x, stream, proc) PROVE Accounted(x, stream', proc')
    OBVIOUS
  <2>1. Accounted(e, stream', proc')
    <3>1. Len(stream) + 1 \in 1 .. Len(stream') /\ stream'[Len(stream) + 1] = e
      BY <1>1, <1>2, Facts, AppendKeeps
    <3>. QED  BY <3>1 DEF Accounted
  <2>2. ASSUME NEW j \in 1 .. Len(stream), stream[j] = x
        PROVE  Accounted(x, stream', proc')
    <3>1. j \in 1 .. Len(stream') /\ stream'[j] = x
      BY <1>1, <1>2, <2>2, Facts, AppendKeeps
    <3>. QED  BY <3>1 DEF Accounted
  <2>3. ASSUME NEW q \in Processes, proc[q].pc = "record", LastOf(proc[q].log) = x, x # e
        PROVE  Accounted(x, stream', proc')
    <3>1. q # p
      BY <2>3 DEF e
    <3>. QED  BY <1>1, <2>3, <3>1 DEF Accounted
  <2>. QED  BY <2>1, <2>2, <2>3 DEF Accounted
<1>. QED  BY <1>1, <1>3, CoverStep

LEMMA NextCover == IInv /\ CoverInv /\ [StreamNext]_streamVars => CoverInv'
<1>. SUFFICES ASSUME IInv, CoverInv, [StreamNext]_streamVars PROVE CoverInv'
  OBVIOUS
<1>1. CASE UNCHANGED streamVars
  BY <1>1 DEF streamVars, CoverInv
<1>2. ASSUME NEW p \in Processes, NEW r \in Runs \cup {NoRun}, Write(p, r)
      PROVE  CoverInv'
  <2>1. /\ proc[p].pc # "record" /\ UNCHANGED <<stream, runLog>>
        /\ "crash" \notin mishaps' => "crash" \notin mishaps
    BY <1>2 DEF Write
  <2>2. /\ proc'[p].pc \notin {"save", "record"}
        /\ \A q \in Processes : q # p => proc'[q] = proc[q]
    BY <1>2, Facts DEF Write, Process
  <2>. QED  BY <2>1, <2>2, QuietCover
<1>3. ASSUME NEW p \in Processes, LoadLog(p)
      PROVE  CoverInv'
  <2>1. /\ proc[p].pc # "record" /\ UNCHANGED <<stream, runLog, mishaps>>
        /\ proc[p].run \in Runs
    BY <1>3, Facts DEF LoadLog
  <2>2. /\ proc'[p].log = runLog[proc[p].run]
        /\ \A q \in Processes : q # p => proc'[q] = proc[q]
    BY <1>3, Facts DEF LoadLog, Process
  <2>. QED  BY <2>1, <2>2, QuietCover
<1>4. ASSUME NEW p \in Processes, ProcessDies(p)
      PROVE  CoverInv'
  BY <1>4 DEF ProcessDies, CoverInv
<1>5. CASE StreamNext
  BY <1>5, <1>2, <1>3, <1>4, AppendEventCover, SaveLogCover, RecordInStreamCover DEF StreamNext
<1>. QED  BY <1>1, <1>5

(* StreamCoversRunLogs: unless a process died, the stream misses no event  *)
(* of any run's log when nobody is writing, however the writers            *)
(* interleaved and overwrote each other's logs.                            *)
THEOREM StreamIsComplete == StreamSpec => []StreamCoversRunLogs
<1>1. CoverInv => StreamCoversRunLogs
  BY DEF CoverInv, StreamCoversRunLogs, LogAccounted, Accounted
<1>. QED  BY <1>1, InitIInv, NextIInv, InitCover, NextCover, PTL DEF StreamSpec

-----------------------------------------------------------------------------
(* While no two processes write at once, the line a process has read is    *)
(* still the last one when it appends its event.  A module that has read   *)
(* no line has GENESIS_BLOCK, which is right only for an empty stream.     *)

Linked(lines) ==
  \A i \in 1 .. Len(lines) :
    lines[i].run = NoRun => lines[i].prev = IF i = 1 THEN 0 ELSE lines[i - 1].hash

LinkedLines ==
  /\ stream = <<>> => \A p \in Processes : lastHash[p] = 0
  /\ \A p \in Processes : proc[p].pc = "record" => LastOf(proc[p].log).run \in Runs
  /\ "overlap" \notin mishaps =>
       /\ \A p, q \in Processes : proc[p].pc # "idle" /\ proc[q].pc # "idle" => p = q
       /\ \A p \in Processes : proc[p].pc = "append" => lastHash[p] = LastHashOf(stream)
       /\ Linked(stream)

LEMMA InitTail == StreamInit => LinkedLines
<1>. SUFFICES ASSUME StreamInit PROVE LinkedLines
  OBVIOUS
<1>1. /\ stream = <<>> /\ \A p \in Processes : lastHash[p] = 0
      /\ \A p \in Processes : proc[p].pc = "idle"
  BY DEF StreamInit, Idle
<1>. QED  BY <1>1 DEF LinkedLines, Linked

LEMMA LinkedAppend ==
  ASSUME NEW lines \in Seq(Event), Linked(lines), NEW e \in Event,
         e.run = NoRun => e.prev = LastHashOf(lines)
  PROVE  Linked(Append(lines, e))
<1>. DEFINE longer == Append(lines, e)
<1>1. /\ Len(longer) = Len(lines) + 1 /\ Len(lines) \in Nat
      /\ \A i \in 1 .. Len(lines) : longer[i] = lines[i]
      /\ longer[Len(lines) + 1] = e
  OBVIOUS
<1>2. lines = <<>> <=> Len(lines) = 0
  OBVIOUS
<1>. HIDE DEF longer
<1>3. ASSUME NEW i \in 1 .. Len(longer), longer[i].run = NoRun
      PROVE  longer[i].prev = IF i = 1 THEN 0 ELSE longer[i - 1].hash
  <2>1. CASE i <= Len(lines)
    <3>1. i \in 1 .. Len(lines) /\ (i # 1 => i - 1 \in 1 .. Len(lines))
      BY <1>1, <2>1
    <3>2. lines[i].prev = IF i = 1 THEN 0 ELSE lines[i - 1].hash
      BY <1>1, <1>3, <3>1 DEF Linked
    <3>. QED  BY <1>1, <3>1, <3>2
  <2>2. CASE i = Len(lines) + 1
    <3>1. longer[i].prev = LastHashOf(lines)
      BY <1>1, <1>3, <2>2
    <3>2. CASE Len(lines) = 0
      BY <1>2, <2>2, <3>1, <3>2 DEF LastHashOf
    <3>3. CASE Len(lines) # 0
      <4>1. i # 1 /\ i - 1 = Len(lines) /\ i - 1 \in 1 .. Len(lines)
        BY <1>1, <2>2, <3>3
      <4>. QED  BY <1>1, <1>2, <3>1, <3>3, <4>1 DEF LastHashOf
    <3>. QED  BY <3>2, <3>3
  <2>. QED  BY <1>1, <2>1, <2>2
<1>. QED  BY <1>3 DEF Linked, longer

LEMMA WriteTail ==
  ASSUME IInv, LinkedLines, NEW p \in Processes, NEW r \in Runs \cup {NoRun}, Write(p, r)
  PROVE  LinkedLines'
<1>. DEFINE h == IF stream = <<>> THEN lastHash[p] ELSE LastHashOf(stream)
<1>1. /\ stream' = stream /\ proc[p].pc = "idle"
      /\ lastHash' = [lastHash EXCEPT ![p] = h]
      /\ mishaps' = mishaps \cup (IF Overlaps(p) THEN {"overlap"} ELSE {})
  BY DEF Write
<1>2. h = LastHashOf(stream)
  BY DEF LinkedLines, LastHashOf
<1>. HIDE DEF h
<1>3. /\ proc'[p].pc = "append" /\ \A q \in Processes : q # p => proc'[q] = proc[q]
      /\ lastHash'[p] = LastHashOf(stream)
      /\ \A q \in Processes : q # p => lastHash'[q] = lastHash[q]
  BY <1>1, <1>2, Facts DEF Write, Process
<1>4. "overlap" \notin mishaps' =>
        "overlap" \notin mishaps /\ \A q \in Processes \ {p} : proc[q].pc = "idle"
  BY <1>1 DEF Overlaps
<1>5. stream' = <<>> => \A q \in Processes : lastHash'[q] = 0
  BY <1>1, <1>3 DEF LinkedLines, LastHashOf
<1>6. \A q \in Processes : proc'[q].pc = "record" => LastOf(proc'[q].log).run \in Runs
  BY <1>3 DEF LinkedLines
<1>7. "overlap" \notin mishaps' =>
        /\ \A q, s \in Processes : proc'[q].pc # "idle" /\ proc'[s].pc # "idle" => q = s
        /\ \A q \in Processes : proc'[q].pc = "append" => lastHash'[q] = LastHashOf(stream')
        /\ Linked(stream')
  BY <1>1, <1>3, <1>4 DEF LinkedLines
<1>. QED  BY <1>5, <1>6, <1>7 DEF LinkedLines

(* A step of a process that is under way and does not end at "append".     *)
LEMMA TailStep ==
  ASSUME LinkedLines, NEW p \in Processes, proc[p].pc # "idle",
         \A q \in Processes : q # p => proc'[q] = proc[q],
         proc'[p].pc # "append",
         proc'[p].pc = "record" => LastOf(proc'[p].log).run \in Runs,
         "overlap" \in mishaps => "overlap" \in mishaps',
         stream' = <<>> => \A q \in Processes : lastHash'[q] = 0,
         "overlap" \notin mishaps => Linked(stream')
  PROVE  LinkedLines'
<1>1. "overlap" \notin mishaps' =>
        /\ \A q, s \in Processes : proc'[q].pc # "idle" /\ proc'[s].pc # "idle" => q = s
        /\ \A q \in Processes : proc'[q].pc = "append" => lastHash'[q] = LastHashOf(stream')
  BY DEF LinkedLines
<1>. QED  BY <1>1 DEF LinkedLines

LEMMA AppendEventTail ==
  ASSUME IInv, LinkedLines, NEW p \in Processes, AppendEvent(p)
  PROVE  LinkedLines'
<1>. DEFINE e == [hash |-> created + 1, prev |-> lastHash[p], run |-> NoRun]
<1>1. /\ stream' = Append(stream, e) /\ proc[p].pc = "append" /\ mishaps' = mishaps
      /\ proc'[p].pc \notin {"append", "record"}
      /\ \A q \in Processes : q # p => proc'[q] = proc[q]
  BY Facts DEF AppendEvent, Goto, Process
<1>2. e \in Event /\ e.prev = lastHash[p]
  BY Facts DEF Event
<1>. HIDE DEF e
<1>3. stream' # <<>>
  BY <1>1, <1>2, Facts, AppendKeeps
<1>4. "overlap" \notin mishaps => Linked(stream')
  BY <1>1, <1>2, Facts, LinkedAppend DEF LinkedLines
<1>. QED  BY <1>1, <1>3, <1>4, TailStep

LEMMA RecordInStreamTail ==
  ASSUME IInv, LinkedLines, NEW p \in Processes, RecordInStream(p)
  PROVE  LinkedLines'
<1>. DEFINE e == LastOf(proc[p].log)
<1>1. /\ stream' = Append(stream, e) /\ proc'[p].pc = "idle" /\ mishaps' = mishaps
      /\ proc[p].pc = "record" /\ \A q \in Processes : q # p => proc'[q] = proc[q]
  BY Facts DEF RecordInStream, LastOf, Idle
<1>2. e \in Event /\ e.run # NoRun
  BY <1>1, Facts, AuditStreamAssumption DEF LastOf, LinkedLines
<1>. HIDE DEF e
<1>3. stream' # <<>>
  BY <1>1, <1>2, Facts, AppendKeeps
<1>4. "overlap" \notin mishaps => Linked(stream')
  BY <1>1, <1>2, Facts, LinkedAppend DEF LinkedLines
<1>. QED  BY <1>1, <1>3, <1>4, TailStep

LEMMA SaveLogTail ==
  ASSUME IInv, LinkedLines, NEW p \in Processes, SaveLog(p)
  PROVE  LinkedLines'
<1>. DEFINE e == RunEvent(p)
            log == Append(proc[p].log, e)
<1>1. /\ proc' = [proc EXCEPT ![p].pc = "record", ![p].log = log]
      /\ proc[p].pc = "save" /\ proc[p].run \in Runs /\ UNCHANGED <<stream, lastHash, mishaps>>
  BY Facts DEF SaveLog
<1>2. /\ proc'[p].pc = "record" /\ proc'[p].log = log
      /\ \A q \in Processes : q # p => proc'[q] = proc[q]
  BY <1>1, Facts DEF Process
<1>3. e \in Event /\ e.run \in Runs
  <2>1. LastHashOf(proc[p].log) \in Nat /\ created + 1 \in Nat
    BY Facts, LastHashType
  <2>. QED  BY <1>1, <2>1 DEF Event, RunEvent
<1>. HIDE DEF e
<1>4. LastOf(log) = e
  BY <1>3, Facts, AppendKeeps
<1>. HIDE DEF log
<1>5. "overlap" \notin mishaps => Linked(stream')
  BY <1>1 DEF LinkedLines
<1>6. stream' = <<>> => \A q \in Processes : lastHash'[q] = 0
  BY <1>1 DEF LinkedLines
<1>. QED  BY <1>1, <1>2, <1>3, <1>4, <1>5, <1>6, TailStep

LEMMA NextTail == IInv /\ LinkedLines /\ [StreamNext]_streamVars => LinkedLines'
<1>. SUFFICES ASSUME IInv, LinkedLines, [StreamNext]_streamVars PROVE LinkedLines'
  OBVIOUS
<1>1. CASE UNCHANGED streamVars
  BY <1>1 DEF streamVars, LinkedLines
<1>2. ASSUME NEW p \in Processes, LoadLog(p)
      PROVE  LinkedLines'
  <2>1. proc[p].pc # "idle" /\ UNCHANGED <<stream, lastHash, mishaps>>
    BY <1>2 DEF LoadLog
  <2>2. proc'[p].pc = "save" /\ \A q \in Processes : q # p => proc'[q] = proc[q]
    BY <1>2, Facts DEF LoadLog, Process
  <2>3. /\ "overlap" \notin mishaps => Linked(stream')
        /\ stream' = <<>> => \A q \in Processes : lastHash'[q] = 0
    BY <2>1 DEF LinkedLines
  <2>. QED  BY <2>1, <2>2, <2>3, TailStep
<1>3. ASSUME NEW p \in Processes, ProcessDies(p)
      PROVE  LinkedLines'
  <2>1. /\ proc[p].pc # "idle" /\ stream' = stream
        /\ lastHash' = [lastHash EXCEPT ![p] = 0] /\ mishaps' = mishaps \cup {"crash"}
    BY <1>3 DEF ProcessDies
  <2>2. proc'[p].pc = "idle" /\ \A q \in Processes : q # p => proc'[q] = proc[q]
    BY <1>3, Facts DEF ProcessDies, Idle
  <2>3. /\ "overlap" \notin mishaps => Linked(stream')
        /\ stream' = <<>> => \A q \in Processes : lastHash'[q] = 0
    BY <2>1, Facts DEF LinkedLines
  <2>. QED  BY <2>1, <2>2, <2>3, TailStep
<1>4. CASE StreamNext
  BY <1>4, <1>2, <1>3, WriteTail, AppendEventTail, SaveLogTail, RecordInStreamTail DEF StreamNext
<1>. QED  BY <1>1, <1>4

(* EventsFollowStream: while no two processes write at once, an event of   *)
(* writeAuditEvent is linked to the line before it, after any crash.       *)
THEOREM StreamIsLinked == StreamSpec => []EventsFollowStream
<1>1. LinkedLines => EventsFollowStream
  BY DEF LinkedLines, Linked, EventsFollowStream
<1>. QED  BY <1>1, InitIInv, NextIInv, InitTail, NextTail, PTL DEF StreamSpec
=============================================================================
