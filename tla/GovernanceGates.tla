--------------------------- MODULE GovernanceGates ---------------------------
(***************************************************************************)
(* What the nine gates of the gate manager say of a run, and which of      *)
(* their answers pause it in which mode.                                   *)
(* Source: packages/governance/src/gates/, gate-manager.ts                 *)
(***************************************************************************)
EXTENDS Integers

Gates9 == {"scope", "architecture", "security", "cost", "deployment", "qa", "build", "launch", "risk"}

\* The context of an evaluation; the files are the kinds of paths that change.
Context ==
    [project : {"declared", "unknown"}, files : SUBSET {"inside", "outside", "artifact"},
     cost : {"none", "within", "over"}, target : {"none", "staging", "canary", "production"},
     coverage : {"none", "less", "kept"}, build : {"none", "failed", "success", "other"},
     risk : 0..100]

ScopeGate(c) ==
    CASE c.files = {} -> "pass"
      [] c.files # {} /\ c.project = "unknown" -> "warning"
      [] "outside" \in c.files /\ c.project = "declared" -> "blocked"
      [] OTHER -> "pass"

\* Build results and node_modules must not be committed.
ArchitectureGate(c) == IF "artifact" \in c.files THEN "blocked" ELSE "pass"

\* An estimate of 0 is no estimate.
CostGate(c) == CASE c.cost = "none" -> "warning" [] c.cost = "over" -> "blocked" [] OTHER -> "pass"

AllowedTargets(mode) ==
    CASE mode \in {"turbo", "safe"} -> {"staging"}
      [] mode = "balanced" -> {"staging", "canary"}
      [] mode \in {"expert", "god"} -> {"staging", "canary", "production"}
      [] OTHER -> {}

DeploymentGate(c, mode) ==
    CASE c.target = "none" -> "warning"
      [] c.target \notin {"none"} \cup AllowedTargets(mode) -> "blocked"
      [] OTHER -> "pass"

QAGate(c) ==
    CASE c.coverage = "none" -> "warning" [] c.coverage = "less" -> "blocked" [] OTHER -> "pass"

BuildGate(c) ==
    CASE c.build \in {"none", "failed"} -> "blocked" [] c.build = "success" -> "pass"
      [] OTHER -> "warning"

LaunchGate(mode) == IF mode \in {"expert", "god"} THEN "fail" ELSE "pass"

RiskLimit(mode) ==
    CASE mode = "turbo" -> 20 [] mode = "safe" -> 30 [] mode = "balanced" -> 40
      [] mode = "builder" -> 50 [] mode = "pro" -> 60 [] mode = "expert" -> 80 [] mode = "god" -> 100

\* The score is drawn at random when the gate is evaluated.
RiskThresholdGate(c, mode) == IF c.risk > RiskLimit(mode) THEN "blocked" ELSE "pass"

GateSeverity(gate, c, mode) ==
    CASE gate = "scope" -> ScopeGate(c)           [] gate = "architecture" -> ArchitectureGate(c)
      [] gate = "security" -> "pass"              [] gate = "cost" -> CostGate(c)
      [] gate = "deployment" -> DeploymentGate(c, mode) [] gate = "qa" -> QAGate(c)
      [] gate = "build" -> BuildGate(c)           [] gate = "launch" -> LaunchGate(mode)
      [] gate = "risk" -> RiskThresholdGate(c, mode)

\* shouldPauseForGate
ShouldPauseForGate(severity, mode) ==
    /\ severity # "pass" /\ mode \notin {"god", "turbo"}
    /\ severity = "blocked" \/ mode = "safe"

\* The gates that are asked in a mode, and whether one of them pauses the run.
SequenceOf(mode) ==
    CASE mode = "turbo" -> {"risk"}
      [] mode = "god" -> {}
      [] mode = "balanced" -> Gates9 \ {"cost"}
      [] OTHER -> Gates9

Pauses(c, mode) ==
    \E gate \in SequenceOf(mode) : ShouldPauseForGate(GateSeverity(gate, c, mode), mode)

\* A run that the gates let through in safe mode passes them in every other
\* mode that knows its deployment target.
SafePausesMost(c) ==
    ~Pauses(c, "safe") =>
        \A mode \in {"turbo", "balanced", "builder", "pro", "expert", "god"} :
            Pauses(c, mode) => AllowedTargets(mode) = {}

=============================================================================
