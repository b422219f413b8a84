------------------------------ MODULE Learning ------------------------------
(***************************************************************************)
(* What runs teach: the learning store, which the executor adds the        *)
(* outcome of a run to, and the learning state of agents, thresholds and   *)
(* skills, which /ck-outcome moves.                                        *)
(* Source: packages/learning/src/, packages/orchestrator/src/              *)
(*         outcome-engine.ts, apps/cli/src/handlers/outcome.ts             *)
(*                                                                         *)
(* Both are files that a process loads, changes and writes; processes do   *)
(* not know of each other.  Reliabilities and thresholds are integers of   *)
(* ten-thousandths.                                                        *)
(***************************************************************************)
EXTENDS Integers, Sequences, FiniteSets, FiniteSetsExt, SequencesExt, Functions

CONSTANTS
    Learners,       \* processes: the service, commands of the command line
    Adapters, FailureTypes,
    Outcomes,       \* what may be recorded: [adapters, success, retries, quality, failure]
    LearningAgents, SkillIds,
    RunOutcomes,    \* /ck-outcome: [result, rollback, override, risk, skills, decisions]
    Broken,         \* a file that a dying process left half written
    MaxOutcomes, MaxCycles, MaxOverlaps   \* bounds


NoFailure == "none"

\* DEFAULT_THRESHOLD_POLICY
DefaultThresholdPolicy == [low |-> 5500, medium |-> 6500, high |-> 7500]

ASSUME LearningAssumption ==
    /\ LearningAgents \subseteq {"planner", "builder", "reviewer", "security"}
    /\ NoFailure \notin FailureTypes
    /\ \A o \in Outcomes :
          /\ o.adapters \in Seq(Adapters)
          /\ o.failure \in FailureTypes \cup {NoFailure} /\ o.quality \in 0..1
    /\ \A o \in RunOutcomes :
          /\ o.risk \in DOMAIN DefaultThresholdPolicy
          /\ o.decisions \in UNION {[A -> 0..100] : A \in SUBSET LearningAgents}

VARIABLES
    store,          \* learning-store.json: [outcomes, patterns, overlays]
    profiles,       \* agents/<agent>.json: agent -> reliability
    thresholds,     \* threshold-policy.json: risk -> approval threshold
    skillStats,     \* skill-stats.json: skill -> [runs, successes, failures]
    learner,        \* process -> what it has loaded and has yet to write
    cycles,         \* /ck-outcome commands started
    overlaps        \* how often a process loaded while another had yet to write

learnVars == <<store, profiles, thresholds, skillStats, learner, cycles, overlaps>>
stateFiles == <<profiles, thresholds, skillStats>>

Resting == [pc |-> "idle"]

\* DEFAULT_AGENT_PROFILES
DefaultReliability(agent) ==
    CASE agent = "planner" -> 8200 [] agent = "builder" -> 8400
      [] agent = "reviewer" -> 8800 [] agent = "security" -> 9200

MaxShift == 500

LearnInit ==
    /\ store = [outcomes |-> <<>>, patterns |-> [x \in {} |-> 0], overlays |-> [x \in {} |-> 0]]
    /\ profiles = [a \in LearningAgents |-> DefaultReliability(a)]
    /\ thresholds = DefaultThresholdPolicy
    /\ skillStats = [x \in {} |-> 0]
    /\ learner = [p \in Learners |-> Resting]
    /\ cycles = 0 /\ overlaps = 0

Begins(p, doing) ==
    /\ learner[p].pc = "idle"
    /\ learner' = [learner EXCEPT ![p] = doing]
    /\ overlaps < MaxOverlaps
    /\ overlaps' = IF \E q \in Learners : learner[q].pc # "idle" THEN overlaps + 1 ELSE overlaps

----------------------------------------------------------------------------
\* The learning store.

\* updatePatterns: a failure is put down to the first adapter of the run.
UpdatePatterns(patterns, o) ==
    LET id == <<IF o.adapters = <<>> THEN "unknown" ELSE Head(o.adapters), o.failure>>
    IN  IF o.success \/ o.failure = NoFailure THEN patterns
        ELSE [x \in DOMAIN patterns \cup {id} |->
                (IF x \in DOMAIN patterns THEN patterns[x] ELSE 0) + (IF x = id THEN 1 ELSE 0)]

\* rebuildReliability: whether 0.6 successes + 0.2 (1 - retries/3) + 0.2
\* quality, rounded to thousandths, is below 0.75.
BelowThreeQuarters(outcomes, adapter) ==
    LET mine    == SelectSeq(outcomes, LAMBDA o : adapter \in ToSet(o.adapters))
        n       == Len(mine)
        total(Op(_)) == FoldSeq(LAMBDA o, sum : Op(o) + sum, 0, mine)
        success == total(LAMBDA o : IF o.success THEN 1 ELSE 0)
        retries == Min({total(LAMBDA o : o.retries), 3 * n})
    IN  2 * (1800 * success + 600 * n - 200 * retries + 600 * total(LAMBDA o : o.quality))
          < 1499 * 3 * n

\* buildAdaptivePolicyOverlays: for every adapter some run has used.
BuildOverlays(outcomes, patterns) ==
    [a \in UNION {ToSet(outcomes[i].adapters) : i \in DOMAIN outcomes} |->
        LET weak == BelowThreeQuarters(outcomes, a)
            repeated == \E id \in DOMAIN patterns : id[1] = a /\ patterns[id] >= 3
        IN  [requireApproval |-> weak \/ repeated,
             suggestedMaxRetries |-> IF weak THEN 1 ELSE 2]]

LearntMutOverlaysFirst(s, o) ==
    LET outcomes == Append(s.outcomes, o)
    IN  [outcomes |-> outcomes, patterns |-> UpdatePatterns(s.patterns, o),
         overlays |-> BuildOverlays(outcomes, s.patterns)]

\* The overlays are built from what this outcome adds as well.
Learnt(s, o) ==
    LET outcomes == Append(s.outcomes, o)
        patterns == UpdatePatterns(s.patterns, o)
    IN  [outcomes |-> outcomes, patterns |-> patterns, overlays |-> BuildOverlays(outcomes, patterns)]

\* learnFromOutcome; JSON.parse throws on a broken file.
LearnFromOutcome(p, o) ==
    /\ store # Broken /\ Len(store.outcomes) < MaxOutcomes
    /\ Begins(p, [pc |-> "store", value |-> Learnt(store, o)])
    /\ UNCHANGED <<store, stateFiles, cycles>>

SaveLearningStore(p) ==
    /\ learner[p].pc = "store"
    /\ store' = learner[p].value
    /\ learner' = [learner EXCEPT ![p] = Resting]
    /\ UNCHANGED <<stateFiles, cycles, overlaps>>

----------------------------------------------------------------------------
\* The learning state.

Clamp(n, least, most) == IF n < least THEN least ELSE IF n > most THEN most ELSE n

\* updateAgentProfiles: at most 0.05 per run, between 0.30 and 0.95.
Delta(o, confidence) ==
    (CASE o.result = "success" -> 2 * confidence
       [] o.result = "failure" -> -5 * confidence
       [] o.result = "partial" -> -confidence)
      - (IF o.rollback THEN 200 ELSE 0) - (IF o.override THEN 150 ELSE 0)

UpdateAgentProfiles(reliability, o) ==
    [a \in LearningAgents |->
        IF a \in DOMAIN o.decisions
        THEN Clamp(reliability[a] + Clamp(Delta(o, o.decisions[a]), -MaxShift, MaxShift), 3000, 9500)
        ELSE reliability[a]]

\* evolveThresholdPolicy: a shift of 0.05 and shares of it, between 0.40 and 0.90.
EvolveThresholdPolicy(policy, o) ==
    LET up   == [low |-> 250, medium |-> 330, high |-> 500]
        down == [low |-> 125, medium |-> 165, high |-> 0]
        bad  == o.result = "failure" \/ o.rollback
        good == o.result = "success" /\ ~o.override /\ ~o.rollback
        shift == (IF bad THEN up[o.risk] ELSE 0) - (IF good THEN down[o.risk] ELSE 0)
    IN  IF shift = 0 THEN policy
        ELSE [policy EXCEPT ![o.risk] = Clamp(@ + shift, 4000, 9000)]

UpdateSkillStats(stats, o) ==
    LET next(s) ==
          LET old == IF s \in DOMAIN stats THEN stats[s] ELSE [runs |-> 0, successes |-> 0, failures |-> 0]
          IN  [runs |-> old.runs + 1,
               successes |-> old.successes + (IF o.result = "success" THEN 1 ELSE 0),
               failures |-> old.failures + (IF o.result = "failure" THEN 1 ELSE 0)]
    IN  [s \in o.skills |-> next(s)] @@ stats

\* The files applyLearningCycle writes, in the order it writes them.
Writes(o) ==
    LET agents == UpdateAgentProfiles(profiles, o)
        order  == SetToSeq(LearningAgents)
    IN  [i \in DOMAIN order |-> [file |-> "agent", agent |-> order[i], value |-> agents[order[i]]]]
          \o << [file |-> "thresholds", agent |-> "", value |-> EvolveThresholdPolicy(thresholds, o)],
                [file |-> "skills", agent |-> "", value |-> UpdateSkillStats(skillStats, o)] >>

\* /ck-outcome: loadLearningState throws on a broken file; what is learnt
\* from the state as it was loaded is then written file by file.
ApplyLearningCycle(p, o) ==
    /\ Broken \notin Range(profiles) /\ thresholds # Broken /\ skillStats # Broken
    /\ cycles < MaxCycles
    /\ cycles' = cycles + 1
    /\ Begins(p, [pc |-> "cycle", left |-> Writes(o)])
    /\ UNCHANGED <<store, stateFiles>>

\* A file gets a value, the new one or what a death leaves of it.
Put(w, value) ==
    CASE w.file = "agent" -> /\ profiles' = [profiles EXCEPT ![w.agent] = value]
                             /\ UNCHANGED <<thresholds, skillStats>>
      [] w.file = "thresholds" -> thresholds' = value /\ UNCHANGED <<profiles, skillStats>>
      [] w.file = "skills" -> skillStats' = value /\ UNCHANGED <<profiles, thresholds>>

SaveLearningState(p) ==
    /\ learner[p].pc = "cycle"
    /\ LET w    == Head(learner[p].left)
           rest == Tail(learner[p].left)
       IN  /\ Put(w, w.value)
           /\ learner' = [learner EXCEPT ![p] =
                 IF rest = <<>> THEN Resting ELSE [pc |-> "cycle", left |-> rest]]
    /\ UNCHANGED <<store, cycles, overlaps>>

\* A process dies before a write, or in it.
LearnerDies(p) ==
    /\ learner[p].pc # "idle"
    /\ learner' = [learner EXCEPT ![p] = Resting]
    /\ \/ UNCHANGED <<store, stateFiles>>
       \/ learner[p].pc = "store" /\ store' = Broken /\ UNCHANGED stateFiles
       \/ learner[p].pc = "cycle" /\ Put(Head(learner[p].left), Broken) /\ UNCHANGED store
    /\ UNCHANGED <<cycles, overlaps>>

\* The two kinds of learning touch different files.
StoreNext ==
    \E p \in Learners :
       \/ \E o \in Outcomes : LearnFromOutcome(p, o)
       \/ SaveLearningStore(p)
       \/ LearnerDies(p)

CycleNext ==
    \E p \in Learners :
       \/ \E o \in RunOutcomes : ApplyLearningCycle(p, o)
       \/ SaveLearningState(p)
       \/ LearnerDies(p)

LearnNext == StoreNext \/ CycleNext

LearnSpec == LearnInit /\ [][LearnNext]_learnVars

----------------------------------------------------------------------------
\* The runs of a store that failed at an adapter in the same way.
Failed(outcomes, a, f) ==
    {i \in DOMAIN outcomes : /\ ~outcomes[i].success /\ outcomes[i].failure = f
                             /\ outcomes[i].adapters # <<>> /\ Head(outcomes[i].adapters) = a}

Offenders(s) ==
    {a \in Adapters : \E f \in FailureTypes : Cardinality(Failed(s.outcomes, a, f)) >= 3}

Cautious ==
    store # Broken => \A a \in Offenders(store) : store.overlays[a].requireApproval

\* What was learnt to be careful with stays so: in whatever store there is,
\* an adapter that three runs failed at in the same way needs approval, however
\* many runs succeed and whichever process lost what it had learnt; and while
\* no process overlaps another, none of these adapters is forgotten and the
\* threshold for high risk never goes down, whoever dies.
CautionIsKept ==
    [][ /\ Cautious'
        /\ overlaps' = 0 =>
              /\ store # Broken /\ store' # Broken => Offenders(store) \subseteq Offenders(store')
              /\ thresholds # Broken /\ thresholds' # Broken =>
                    thresholds'.high >= thresholds.high ]_learnVars

=============================================================================
