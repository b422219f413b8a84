----------------------------- MODULE MCPipeline ------------------------------
(* Pipeline and ClientSessions for TLC: ideas, modes and gates the          *)
(* environment uses.  The two share no state: a behaviour is one of the    *)
(* first or one of the second.                                             *)
EXTENDS Pipeline, ClientSessions

VARIABLE part

MCInit == Init /\ ClientInit /\ part \in {"pipeline", "clients"}

MCNext ==
  \/ part = "pipeline" /\ Next /\ UNCHANGED <<part, clientVars>>
  \/ part = "clients" /\ ClientNext /\ UNCHANGED <<part, vars>>

(* The clients go on polling; nothing is asked of the pipeline.            *)
MCSpec ==
  /\ MCInit /\ [][MCNext]_<<part, vars, clientVars>>
  /\ part = "clients" => ClientFairness

(* The loosest mode, and one the memory does not know; builder is the       *)
(* default, and the stage commands use expert.                              *)
MCModes == {"turbo", "balanced"}

(* An idea whose gates differ by mode, and one of blanks.                  *)
MCIdeas == {"web-app", "blank"}

(* The gates these ideas can fail in turbo mode, and building.             *)
MCGates == {"objective-clarity", "building"}

(* The fallback skill, one specialist, and enough for any mode.            *)
MCSkills == {[selected |-> 1, specialists |-> 0], [selected |-> 3, specialists |-> 2]}
=============================================================================
