----------------------------- MODULE StepHealing -----------------------------
(***************************************************************************)
(* Healing of a failed step: the failure is classified by the words of its *)
(* message, a strategy is looked for and, if the policy lets it, applied.  *)
(* Source: packages/healing/src/, packages/orchestrator/src/               *)
(*         healing-integration.ts, apps/cli/src/phase10_5-commands.ts,     *)
(*         config/healing-policy.json                                      *)
(*                                                                         *)
(* The healings are those of one run: the executor asks for one after the  *)
(* last attempt of a step, `heal-step` is a process of its own.  Both keep *)
(* the attempts they loaded until they save for the last time.             *)
(***************************************************************************)
EXTENDS Integers, Sequences, FiniteSets, SequencesExt

CONSTANTS
    Healers,        \* processes that heal; one of them executes the run
    HealingModes,   \* modes a deployment can have in healing-policy.json
    MaxHealings     \* bound: healings

AdapterIds == {"fs", "file-system", "terminal", "github"}

ASSUME HealingModesAssumption == HealingModes \subseteq {"observe", "assist", "auto"}

VARIABLES
    healMode,       \* the mode of the policy
    healLog,        \* healing-log.json: [id, status]
    healStats,      \* healing-stats.json: strategy -> how often it was tried
    healing,        \* healer -> the call it is in
    healings,       \* calls so far; the id of the latest one
    healed,         \* history: what the calls that returned had come to
    healOverlap     \* history: has a call begun while another was going on?

healVars == <<healMode, healLog, healStats, healing, healings, healed, healOverlap>>

NoHealing == [pc |-> "none"]

----------------------------------------------------------------------------
\* classifyFailure: the first rule one of whose words is in the message.
\* A message is the set of the words that occur in it.
Rule(word, adapters, type) == [word |-> word, adapters |-> adapters, type |-> type]

Rules == <<
    Rule("no-such-file", AdapterIds, "path-not-found"),
    Rule("permission",   AdapterIds, "permission-denied"),
    Rule("not-allowed",  AdapterIds, "policy-blocked"),
    Rule("auth",         {"github"}, "git-auth-failed"),
    Rule("branch",       {"github"}, "branch-diverged"),
    Rule("verify",       AdapterIds, "verification-failed"),
    Rule("network",      AdapterIds, "network-transient") >>

Words == {Rules[i].word : i \in DOMAIN Rules}

Classify(message, adapter) ==
    LET hits == SelectSeq(Rules, LAMBDA r : r.word \in message /\ adapter \in r.adapters)
    IN  IF hits = <<>> THEN "unknown-failure" ELSE Head(hits).type

\* getHealingStrategies.  All are of low risk, so ranking keeps their order.
Strategy(id, type, adapter, autoApply) ==
    [id |-> id, type |-> type, adapter |-> adapter, autoApply |-> autoApply]

HealingStrategyList == <<
    Strategy("create-missing-directory", "path-not-found", "file-system", TRUE),
    Strategy("normalize-relative-path", "path-not-found", "file-system", TRUE),
    Strategy("retry-transient-command", "network-transient", "terminal", TRUE),
    Strategy("suggest-allowlisted-alternative", "policy-blocked", "terminal", FALSE),
    Strategy("skip-no-op-pr", "verification-failed", "github", FALSE) >>

Candidates(type, adapter) ==
    SelectSeq(HealingStrategyList, LAMBDA s : s.type = type /\ s.adapter = adapter)

\* requiresApproval, with the lists of healing-policy.json: low risk may be
\* applied automatically and no strategy there is asks for approval by name.
NeedsConsent(s, mode) == mode # "observe" /\ (mode # "auto" \/ ~s.autoApply)

----------------------------------------------------------------------------
HealingInit ==
    /\ healMode \in HealingModes
    /\ healLog = <<>>
    /\ healStats = [i \in DOMAIN HealingStrategyList |-> 0]
    /\ healing = [h \in Healers |-> NoHealing]
    /\ healings = 0 /\ healed = {} /\ healOverlap = FALSE

Underway(h) == healing[h].pc \notin {"none", "returned"}

\* What a call decides before it repairs anything; "repair" if it will.
Verdict(chosen, mode) ==
    CASE chosen = <<>> \/ mode = "observe" -> "escalated"
      [] chosen # <<>> /\ mode # "observe" /\ NeedsConsent(Head(chosen), mode) -> "awaiting-approval"
      [] OTHER -> "repair"

\* The attempts of the run are loaded and this one is added to them.
BeginHealing(h, adapter, message) ==
    /\ ~Underway(h)
    /\ healings < MaxHealings
    /\ healings' = healings + 1
    /\ healing' = [healing EXCEPT ![h] =
          [pc |-> "save", adapter |-> adapter, id |-> healings + 1,
           chosen |-> Candidates(Classify(message, adapter), adapter),
           status |-> "planned", stats |-> <<>>,
           attempts |-> Append(healLog, [id |-> healings + 1, status |-> "planned"])]]
    /\ healOverlap' = (healOverlap \/ \E g \in Healers : Underway(g))
    /\ UNCHANGED <<healMode, healLog, healStats, healed>>

SavePlanned(h) ==
    /\ healing[h].pc = "save"
    /\ healLog' = healing[h].attempts
    /\ LET verdict == Verdict(healing[h].chosen, healMode)
       IN  healing' = [healing EXCEPT ![h] =
              IF verdict = "repair" THEN [@ EXCEPT !.pc = "repair"]
              ELSE [@ EXCEPT !.pc = "close", !.status = verdict]]
    /\ UNCHANGED <<healMode, healStats, healings, healed, healOverlap>>

\* revalidateAfterHeal: only the adapter "file-system" is looked at again, and
\* the file itself must exist, which a directory made for it does not bring
\* about.
Revalidated(adapter) == {"verified"} \cup (IF adapter = "file-system" THEN {"failed"} ELSE {})

\* A repair that does not throw succeeds.
Repair(h) ==
    /\ healing[h].pc = "repair"
    /\ \E status \in Revalidated(healing[h].adapter) :
          healing' = [healing EXCEPT ![h] = [@ EXCEPT !.pc = "read", !.status = status]]
    /\ UNCHANGED <<healMode, healLog, healStats, healings, healed, healOverlap>>

\* updateHealingStats reads the file ...
ReadStats(h) ==
    /\ healing[h].pc = "read"
    /\ healing' = [healing EXCEPT ![h] = [@ EXCEPT !.pc = "count", !.stats = healStats]]
    /\ UNCHANGED <<healMode, healLog, healStats, healings, healed, healOverlap>>

\* ... and writes it back.
WriteStats(h) ==
    /\ healing[h].pc = "count"
    /\ \E i \in DOMAIN HealingStrategyList :
          /\ HealingStrategyList[i] = Head(healing[h].chosen)
          /\ healStats' = [healing[h].stats EXCEPT ![i] = @ + 1]
    /\ healing' = [healing EXCEPT ![h].pc = "close"]
    /\ UNCHANGED <<healMode, healLog, healings, healed, healOverlap>>

Outcome(h) == [id |-> healing[h].id, status |-> healing[h].status]

Return(h) ==
    /\ healing' = [healing EXCEPT ![h].pc = "returned"]
    /\ healed' = healed \cup {Outcome(h)}
    /\ UNCHANGED <<healMode, healStats, healings, healOverlap>>

CloseUnsaved(h) ==
    /\ healing[h].pc = "close"
    /\ Return(h)
    /\ healLog' = IF healing[h].status = "verified" THEN healLog
                  ELSE Append(Front(healing[h].attempts), Outcome(h))

\* The attempts loaded at the beginning are saved once more, with the outcome.
CloseHealing(h) ==
    /\ healing[h].pc = "close"
    /\ Return(h)
    /\ healLog' = Append(Front(healing[h].attempts), Outcome(h))

\* A repair throws, or a process dies.
HealingDies(h) ==
    /\ Underway(h)
    /\ healing' = [healing EXCEPT ![h] = NoHealing]
    /\ UNCHANGED <<healMode, healLog, healStats, healings, healed, healOverlap>>

HealingContinues(h) ==
    SavePlanned(h) \/ Repair(h) \/ ReadStats(h) \/ WriteStats(h) \/ CloseHealing(h)

----------------------------------------------------------------------------
\* A healing that nothing overlapped is in the log as it ended, and every
\* repair the log tells of has been counted; what is counted beyond them had
\* its process die before the log could tell.
HealingsAreAccounted ==
    LET With(statuses) == Cardinality({i \in DOMAIN healLog : healLog[i].status \in statuses})
        counted == healStats[1] + healStats[2] + healStats[3] + healStats[4] + healStats[5]
    IN  ~healOverlap =>
          /\ \A o \in healed : \E i \in DOMAIN healLog : healLog[i] = o
          /\ With({"verified", "failed"}) <= counted
          /\ counted <= With({"verified", "failed", "planned"})
=============================================================================
