---------------------------- MODULE RunLifecycle ----------------------------
(***************************************************************************)
(* What the execution of a run promises to those who only look at its      *)
(* state: the checkpoint moves forward one step at a time, over a step     *)
(* that has just succeeded; a run is paused or failed at its checkpoint;   *)
(* it is completed only behind its last step.                              *)
(***************************************************************************)
EXTENDS Naturals

CONSTANT NumSteps

VARIABLES status,  \* as in state.json
          index,   \* the checkpoint, currentStepIndex
          done     \* steps that have succeeded

vars == <<status, index, done>>

Init == status = "planned" /\ index = 0 /\ done = {}

Begin ==
  /\ status = "planned"
  /\ status' = "running"
  /\ UNCHANGED <<index, done>>

(* Resuming a run, or retrying the step at its checkpoint, puts it back to *)
(* running, also one that has failed or was cancelled.                     *)
Reopen ==
  /\ index < NumSteps
  /\ status' = "running"
  /\ UNCHANGED <<index, done>>

StepDone ==
  /\ index < NumSteps
  /\ status # "planned"
  /\ index' = index + 1
  /\ done' = done \cup {index}
  /\ UNCHANGED status

Stop ==
  /\ index < NumSteps
  /\ status' \in {"paused", "failed"}
  /\ UNCHANGED <<index, done>>

Cancel ==
  /\ status' = "cancelled"
  /\ UNCHANGED <<index, done>>

Complete ==
  /\ index = NumSteps
  /\ status' = "completed"
  /\ UNCHANGED <<index, done>>

Next == Begin \/ Reopen \/ StepDone \/ Stop \/ Cancel \/ Complete

Spec == Init /\ [][Next]_vars
=============================================================================
