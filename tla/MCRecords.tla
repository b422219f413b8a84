------------------------------ MODULE MCRecords ------------------------------
(***************************************************************************)
(* Small instances of StateMirror, AuditStream, AuditTable and Learning.   *)
(* They share no state: a behaviour is one of one of them.                 *)
(***************************************************************************)
EXTENDS StateMirror, AuditStream, AuditTable, Learning

VARIABLE part

MCInit ==
  /\ MirrorInit /\ StreamInit /\ Init /\ LearnInit
  /\ part \in {"mirror", "stream", "table", "store", "cycles"}
  /\ part # "table" => \A e \in Emitters : tx[e].org = CHOOSE o \in Orgs : TRUE

MCNext ==
  \/ part = "mirror" /\ MirrorNext /\ UNCHANGED <<part, streamVars, vars, learnVars>>
  \/ part = "stream" /\ StreamNext /\ UNCHANGED <<part, mirrorVars, vars, learnVars>>
  \/ part = "table" /\ Next /\ UNCHANGED <<part, mirrorVars, streamVars, learnVars>>
  \/ part = "store" /\ StoreNext /\ UNCHANGED <<part, mirrorVars, streamVars, vars>>
  \/ part = "cycles" /\ CycleNext /\ UNCHANGED <<part, mirrorVars, streamVars, vars>>

(* Only the table has a liveness property: Postgres answers.               *)
MCSpec ==
  /\ MCInit /\ [][MCNext]_<<part, mirrorVars, streamVars, vars, learnVars>>
  /\ part = "table" => Fairness

MCOutcome(adapters, success, retries) ==
  [adapters |-> adapters, success |-> success, retries |-> retries,
   quality |-> IF success THEN 1 ELSE 0, failure |-> IF success THEN NoFailure ELSE "step-failed"]

(* Seven successes and three failures are a reliability of 0.76: what holds *)
(* the adapter back is then the failure that was seen three times.         *)
MCOutcomes ==
  {MCOutcome(<< "fs", "terminal" >>, TRUE, 0), MCOutcome(<< "fs" >>, FALSE, 0)}

MCRunOutcome(result, rollback, risk, skills, decisions) ==
  [result |-> result, rollback |-> rollback, override |-> FALSE, risk |-> risk,
   skills |-> skills, decisions |-> decisions]

MCRunOutcomes ==
  {MCRunOutcome("failure", TRUE, "high", {"auth"}, [security |-> 100]),
   MCRunOutcome("success", FALSE, "high", {"auth"}, [security |-> 100, reviewer |-> 50]),
   MCRunOutcome("partial", FALSE, "high", {}, [reviewer |-> 100])}
=============================================================================
