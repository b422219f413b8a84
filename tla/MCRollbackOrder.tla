-------------------------- MODULE MCRollbackOrder --------------------------
(***************************************************************************)
(* ActionBatch, watched for the order in which the logs of a run are       *)
(* written: a batch of qa makes a directory, one of deploy writes into it. *)
(***************************************************************************)
EXTENDS ActionBatch

VARIABLE written    \* history: the logs there are, the last written last

MCInit == BatchInit /\ written = <<>>

MCWrites(c) ==
    /\ WriteLogs(c)
    /\ LET log == <<command[c].batch.run, command[c].batch.phase>>
       IN  written' = Append(SelectSeq(written, LAMBDA l : l # log), log)

MCNext ==
    \/ \E c \in Commands : MCWrites(c)
    \/ BatchNext /\ (~\E c \in Commands : WriteLogs(c)) /\ UNCHANGED written

MCSpec == MCInit /\ [][MCNext]_<<batchVars, written>>

MCAbove == [x \in {"a", "a/y"} |-> IF x = "a" THEN {} ELSE {"a"}]

MCBatches ==
    {[run |-> "r1", phase |-> "qa",
      actions |-> << [type |-> "create_dir", target |-> "a", class |-> "safe"] >>],
     [run |-> "r1", phase |-> "deploy",
      actions |-> << [type |-> "write_file", target |-> "a/y", class |-> "safe"] >>]}

MCLastRuns == {[run |-> "r1", mode |-> "turbo"]}

\* The logs of a run are undone in the reverse of the order in which they were
\* written, as the comment in rollbackRun says.
RollbackIsChronological ==
    [][\A c \in Commands : ReadLog(c) =>
          \A i \in command[c].logs \ command'[c].logs, j \in command'[c].logs :
              \E m, n \in DOMAIN written :
                  /\ m < n
                  /\ written[m] = <<command[c].run, Phases[j]>>
                  /\ written[n] = <<command[c].run, Phases[i]>>]_<<batchVars, written>>
=============================================================================
