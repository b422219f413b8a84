---------------------------- MODULE Steps_proofs ----------------------------
(***************************************************************************)
(* Theorems about the steps of a run as the adapters carry them out        *)
(* (StepAdapters) and about their healing (StepHealing), for every plan,   *)
(* set of files, list of messages, limit on staged files and number of     *)
(* healers:                                                                *)
(*                                                                         *)
(* what a step that succeeded had to publish is published; undoing a step  *)
(* that committed restores the branch; the log of the healings and the     *)
(* counter of repairs agree while no two healings overlap.                 *)
(***************************************************************************)
EXTENDS StepAdapters, SequenceTheorems, FiniteSetTheorems, TLAPS

\* What Append does to a sequence.
LEMMA AppendTells ==
    ASSUME NEW T, NEW log \in Seq(T), NEW e \in T
    PROVE  /\ Append(log, e) \in Seq(T) /\ Append(log, e) # <<>>
           /\ Front(Append(log, e)) = log /\ Last(Append(log, e)) = e
           /\ \A i \in DOMAIN log : i \in DOMAIN Append(log, e) /\ Append(log, e)[i] = log[i]
           /\ \E i \in DOMAIN Append(log, e) : Append(log, e)[i] = e
<1>. DEFINE g == Append(log, e)
<1>1. /\ g \in Seq(T) /\ Len(g) = Len(log) + 1 /\ Len(log) \in Nat
      /\ DOMAIN g = 1 .. Len(log) + 1 /\ DOMAIN log = 1 .. Len(log)
      /\ \A i \in 1 .. Len(log) : g[i] = log[i]
      /\ g[Len(log) + 1] = e
  OBVIOUS
<1>. HIDE DEF g
<1>2. Last(g) = e /\ g # <<>>
  BY <1>1 DEF Last
<1>3. Front(g) = SubSeq(g, 1, Len(log))
  BY <1>1 DEF Front
<1>4. SubSeq(g, 1, Len(log)) \in Seq(T) /\ Len(SubSeq(g, 1, Len(log))) = Len(log)
      /\ \A i \in 1 .. Len(log) : SubSeq(g, 1, Len(log))[i] = g[i]
  BY <1>1
<1>5. SubSeq(g, 1, Len(log)) = log
  BY <1>1, <1>4, SeqEqual
<1>6. \A i \in DOMAIN log : i \in DOMAIN g /\ g[i] = log[i]
  BY <1>1
<1>7. \E i \in DOMAIN g : g[i] = e
  BY <1>1
<1>. QED  BY <1>1, <1>2, <1>3, <1>5, <1>6, <1>7 DEF g

-----------------------------------------------------------------------------
(* The steps of a run.  What a step that commits and proposes changes must  *)
(* publish is, from its beginning on, among the changes of the copy or in   *)
(* the history it is on; each stage carries it further, and an attempt that *)
(* starts over finds it at least there.                                     *)

Commit == [id : Nat, files : SUBSET Paths]

CopyType ==
    [changes : SUBSET Paths, index : SUBSET Paths, on : {"main", Branch},
     tip : [{"main", Branch} -> Seq(Commit)]]

FoundType ==
    [tip : Seq(Commit), changes : SUBSET Paths, commits : Nat, others : SUBSET {"edit", "switch"}]

StepFields == {"pc", "at", "left", "todo", "message"}

StepType ==
    /\ repo \in CopyType /\ commits \in Nat /\ remote \in Seq(Commit) /\ pullRequest \in BOOLEAN
    /\ plan \in Plans
    /\ DOMAIN step = StepFields /\ step.at \in DOMAIN plan
    /\ found \in FoundType

\* What is left of the stages of a commit, and of a commit with its proposal.
CommitTodos ==
    { << >>, << "commit" >>, << "diff", "commit" >>, << "status", "diff", "commit" >>,
      << "add", "status", "diff", "commit" >>,
      << "checkout", "add", "status", "diff", "commit" >> }

Todo8 == << >>
Todo7 == << "create-pr" >>
Todo6 == << "push", "create-pr" >>
Todo5 == << "commit", "push", "create-pr" >>
Todo4 == << "diff", "commit", "push", "create-pr" >>
Todo3 == << "status", "diff", "commit", "push", "create-pr" >>
Todo2 == << "add", "status", "diff", "commit", "push", "create-pr" >>
Todo1 == << "checkout", "add", "status", "diff", "commit", "push", "create-pr" >>

ProposeTodos == {Todo1, Todo2, Todo3, Todo4, Todo5, Todo6, Todo7, Todo8}

Todos(t) ==
    CASE t.adapter # "github" -> {<< t.action >>, << >>}
      [] t.adapter = "github" /\ t.action = "commit" -> CommitTodos
      [] t.adapter = "github" /\ t.action = "commit-and-pr" -> ProposeTodos
      [] t.adapter = "github" /\ t.action = "validate-diff" -> {<< "diff" >>, << >>}
      [] OTHER -> {<< t.action >>, << >>}

TodoInv == step.pc = "execute" => step.todo \in Todos(Task)

Target == IF Task.addAll THEN found.changes ELSE Task.paths \cap found.changes

Proposing ==
    /\ step.pc \in {"execute", "heal", "healing"}
    /\ Task.action = "commit-and-pr"
    /\ "switch" \notin found.others

\* How far the attempt under way has carried the target.
Carried(todo) ==
    /\ todo # Todo1 => repo.on = Branch
    /\ todo \in {Todo3, Todo4, Todo5} => Target \subseteq repo.index \cup FilesIn(HeadOf(repo))
    /\ todo = Todo6 => Target \subseteq FilesIn(HeadOf(repo))
    /\ todo \in {Todo7, Todo8} => Target \subseteq FilesIn(remote)
    /\ todo = Todo8 => pullRequest

PublishInv ==
    /\ SuccessIsPublished
    /\ Proposing => /\ Target \subseteq repo.changes \cup FilesIn(HeadOf(repo))
                    /\ step.pc = "execute" => Carried(step.todo)

-----------------------------------------------------------------------------

LEMMA FilesInIs ==
    ASSUME NEW h \in Seq(Commit), NEW x
    PROVE  x \in FilesIn(h) <=> \E i \in 1 .. Len(h) : x \in h[i].files
<1>1. DOMAIN h = 1 .. Len(h)
  OBVIOUS
<1>. QED  BY <1>1 DEF FilesIn

LEMMA FilesInAppend ==
    ASSUME NEW h \in Seq(Commit), NEW c \in Commit
    PROVE  /\ Append(h, c) \in Seq(Commit)
           /\ FilesIn(Append(h, c)) = FilesIn(h) \cup c.files
<1>. DEFINE g == Append(h, c)
<1>1. /\ g \in Seq(Commit) /\ Len(g) = Len(h) + 1 /\ Len(h) \in Nat
      /\ \A i \in 1 .. Len(h) : g[i] = h[i]
      /\ g[Len(h) + 1] = c
  OBVIOUS
<1>. HIDE DEF g
<1>2. \A x : x \in FilesIn(g) <=> x \in FilesIn(h) \cup c.files
  <2>. SUFFICES ASSUME NEW x PROVE x \in FilesIn(g) <=> x \in FilesIn(h) \cup c.files
    OBVIOUS
  <2>1. x \in FilesIn(h) <=> \E i \in 1 .. Len(h) : x \in h[i].files
    BY FilesInIs
  <2>2. x \in FilesIn(g) <=> \E i \in 1 .. Len(g) : x \in g[i].files
    BY <1>1, FilesInIs
  <2>3. (\E i \in 1 .. Len(g) : x \in g[i].files)
          <=> (x \in c.files \/ \E i \in 1 .. Len(h) : x \in h[i].files)
    <3>1. 1 .. Len(g) = 1 .. Len(h) \cup {Len(h) + 1}
      BY <1>1
    <3>. QED  BY <1>1, <3>1
  <2>. QED  BY <2>1, <2>2, <2>3
<1>3. FilesIn(g) = FilesIn(h) \cup c.files
  BY <1>2
<1>. QED  BY <1>1, <1>3 DEF g

LEMMA FilesInPrefix ==
    ASSUME NEW g \in Seq(Commit), NEW h \in Seq(Commit), IsPrefix(g, h)
    PROVE  FilesIn(g) \subseteq FilesIn(h)
<1>1. Len(g) <= Len(h) /\ SubSeq(g, 1, Len(g)) = SubSeq(h, 1, Len(g))
  BY DEF IsPrefix
<1>2. ASSUME NEW i \in 1 .. Len(g)
      PROVE  i \in 1 .. Len(h) /\ g[i] = h[i]
  <2>1. SubSeq(g, 1, Len(g))[i] = g[i]
    OBVIOUS
  <2>2. SubSeq(h, 1, Len(g))[i] = h[i]
    BY <1>1
  <2>. QED  BY <1>1, <2>1, <2>2
<1>. QED  BY <1>2, FilesInIs

StageNames == {"checkout", "add", "status", "diff", "commit", "push", "create-pr"}

LEMMA SubSeqIs ==
    ASSUME NEW s \in Seq(StageNames), NEW t \in Seq(StageNames), Len(s) = Len(t) + 3,
           \A i \in 1 .. Len(t) : t[i] = s[i + 3]
    PROVE  SubSeq(s, 4, Len(s)) = t
<1>. DEFINE u == SubSeq(s, 4, Len(s))
<1>1. /\ u \in Seq(StageNames) /\ Len(u) = Len(t)
      /\ \A i \in 1 .. Len(t) : u[i] = s[i + 3]
  OBVIOUS
<1>. HIDE DEF u
<1>2. u = t
  BY <1>1
<1>. QED  BY <1>2 DEF u

LEMMA TodoHeads ==
    /\ Head(Todo1) = "checkout" /\ Tail(Todo1) = Todo2
    /\ Head(Todo2) = "add" /\ Tail(Todo2) = Todo3
    /\ Head(Todo3) = "status" /\ Tail(Todo3) = Todo4
    /\ Head(Todo4) = "diff" /\ Tail(Todo4) = Todo5
    /\ Head(Todo5) = "commit" /\ Tail(Todo5) = Todo6
    /\ Head(Todo6) = "push" /\ Tail(Todo6) = Todo7
    /\ Head(Todo7) = "create-pr" /\ Tail(Todo7) = Todo8
    /\ SubSeq(Todo3, 4, Len(Todo3)) = Todo6
<1>1. Head(Todo1) = "checkout"
  BY DEF Todo1
<1>2. Tail(Todo1) = Todo2
  BY DEF Todo1, Todo2
<1>3. Tail(Todo2) = Todo3
  BY DEF Todo2, Todo3
<1>4. Tail(Todo3) = Todo4
  BY DEF Todo3, Todo4
<1>5. Tail(Todo4) = Todo5
  BY DEF Todo4, Todo5
<1>6. Tail(Todo5) = Todo6
  BY DEF Todo5, Todo6
<1>7. Tail(Todo6) = Todo7
  BY DEF Todo6, Todo7
<1>8. Tail(Todo7) = Todo8
  BY DEF Todo7, Todo8
<1>9. SubSeq(Todo3, 4, Len(Todo3)) = Todo6
  <2>1. Todo3 \in Seq(StageNames) /\ Todo6 \in Seq(StageNames)
    BY DEF Todo3, Todo6, StageNames
  <2>3. Len(Todo3) = 5 /\ Len(Todo6) = 2
    BY DEF Todo3, Todo6
  <2>2. Todo6[1] = Todo3[4] /\ Todo6[2] = Todo3[5]
    BY DEF Todo3, Todo6
  <2>. QED  BY <2>1, <2>2, <2>3, SubSeqIs
<1>10. /\ Head(Todo2) = "add" /\ Head(Todo3) = "status" /\ Head(Todo4) = "diff"
       /\ Head(Todo5) = "commit" /\ Head(Todo6) = "push" /\ Head(Todo7) = "create-pr"
  BY DEF Todo2, Todo3, Todo4, Todo5, Todo6, Todo7
<1>. QED  BY <1>1, <1>2, <1>3, <1>4, <1>5, <1>6, <1>7, <1>8, <1>9, <1>10

LEMMA TodosDiffer ==
    /\ Todo1 \notin {Todo2, Todo3, Todo4, Todo5, Todo6, Todo7, Todo8}
    /\ Todo2 \notin {Todo3, Todo4, Todo5, Todo6, Todo7, Todo8}
    /\ Todo3 \notin {Todo4, Todo5, Todo6, Todo7, Todo8}
    /\ Todo4 \notin {Todo5, Todo6, Todo7, Todo8}
    /\ Todo5 \notin {Todo6, Todo7, Todo8}
    /\ Todo6 \notin {Todo7, Todo8}
    /\ Todo7 # Todo8
BY DEF Todo1, Todo2, Todo3, Todo4, Todo5, Todo6, Todo7, Todo8

LEMMA TaskFacts ==
    ASSUME StepType
    PROVE  /\ Task \in FsTask \cup TerminalTask \cup GithubTask
           /\ Task.adapter = "fs" => Task \in FsTask
           /\ Task.adapter = "terminal" => Task \in TerminalTask
           /\ Task.adapter = "github" => Task \in GithubTask
           /\ Task.action \in {"commit", "commit-and-pr"} => Task.adapter = "github"
           /\ Task.undo \in {"soft", "hard"} => Task.adapter = "github"
<1>1. plan \in Seq(Planned)
  BY StepAssumption DEF StepType
<1>2. plan[step.at] \in Planned
  BY <1>1 DEF StepType
<1>3. Task \in FsTask \cup TerminalTask \cup GithubTask
  BY <1>2 DEF Task, Planned
<1>. HIDE DEF Task
<1>. QED  BY <1>3 DEF FsTask, TerminalTask, GithubTask

LEMMA CommitTodoHeads ==
    /\ Head(<< "commit" >>) = "commit" /\ Tail(<< "commit" >>) = << >>
    /\ Head(<< "diff", "commit" >>) = "diff" /\ Tail(<< "diff", "commit" >>) = << "commit" >>
    /\ Head(<< "status", "diff", "commit" >>) = "status"
    /\ Tail(<< "status", "diff", "commit" >>) = << "diff", "commit" >>
    /\ SubSeq(<< "status", "diff", "commit" >>, 4, Len(<< "status", "diff", "commit" >>)) = << >>
    /\ Head(<< "add", "status", "diff", "commit" >>) = "add"
    /\ Tail(<< "add", "status", "diff", "commit" >>) = << "status", "diff", "commit" >>
    /\ Head(<< "checkout", "add", "status", "diff", "commit" >>) = "checkout"
    /\ Tail(<< "checkout", "add", "status", "diff", "commit" >>) = << "add", "status", "diff", "commit" >>
<1>1. Head(<< "commit" >>) = "commit" /\ Tail(<< "commit" >>) = << >>
  OBVIOUS
<1>2. Head(<< "diff", "commit" >>) = "diff" /\ Tail(<< "diff", "commit" >>) = << "commit" >>
  OBVIOUS
<1>3. /\ Head(<< "status", "diff", "commit" >>) = "status"
      /\ Tail(<< "status", "diff", "commit" >>) = << "diff", "commit" >>
  OBVIOUS
<1>4. SubSeq(<< "status", "diff", "commit" >>, 4, Len(<< "status", "diff", "commit" >>)) = << >>
  <2>1. Len(<< "status", "diff", "commit" >>) = 3
    OBVIOUS
  <2>. QED  BY <2>1
<1>5. /\ Head(<< "add", "status", "diff", "commit" >>) = "add"
      /\ Tail(<< "add", "status", "diff", "commit" >>) = << "status", "diff", "commit" >>
  OBVIOUS
<1>6. /\ Head(<< "checkout", "add", "status", "diff", "commit" >>) = "checkout"
      /\ Tail(<< "checkout", "add", "status", "diff", "commit" >>) = << "add", "status", "diff", "commit" >>
  OBVIOUS
<1>. QED  BY <1>1, <1>2, <1>3, <1>4, <1>5, <1>6

LEMMA OneStage ==
    ASSUME NEW a
    PROVE  /\ << a >> # << >> /\ Head(<< a >>) = a /\ Tail(<< a >>) = << >>
           /\ SubSeq(<< a >>, 4, Len(<< a >>)) = << >>
<1>1. << a >> # << >> /\ Head(<< a >>) = a /\ Tail(<< a >>) = << >> /\ Len(<< a >>) = 1
  OBVIOUS
<1>2. SubSeq(<< a >>, 4, 1) = << >>
  OBVIOUS
<1>. QED  BY <1>1, <1>2

LEMMA TaskActions ==
    ASSUME StepType
    PROVE  /\ Task.adapter = "fs" => Task.action = "write"
           /\ Task.adapter = "terminal" => Task.action = "run"
           /\ Task.adapter = "github" => Task.action \in GithubAction
           /\ Task.adapter \in {"fs", "terminal", "github"}
           /\ Task.action \in {"commit", "commit-and-pr"} => Task.adapter = "github"
<1>1. Task.adapter \in {"fs", "terminal", "github"}
  <2>1. Task \in FsTask => Task.adapter = "fs"
    BY DEF FsTask
  <2>2. Task \in TerminalTask => Task.adapter = "terminal"
    BY DEF TerminalTask
  <2>3. Task \in GithubTask => Task.adapter = "github"
    BY DEF GithubTask
  <2>. QED  BY <2>1, <2>2, <2>3, TaskFacts
<1>2. Task.adapter = "fs" => Task.action = "write"
  BY TaskFacts DEF FsTask
<1>3. Task.adapter = "terminal" => Task.action = "run"
  BY TaskFacts DEF TerminalTask
<1>4. Task.adapter = "github" => Task.action \in GithubAction
  BY TaskFacts DEF GithubTask
<1>. QED  BY <1>1, <1>2, <1>3, <1>4, TaskFacts

\* The stages are those of the task, one after the other.
LEMMA NextTodo ==
    ASSUME StepType, TodoInv, step.pc = "execute", step.todo # << >>
    PROVE  /\ AfterStage \in Todos(Task)
           /\ Stage = "write" => Task.adapter = "fs"
           /\ Task.action \notin {"commit", "commit-and-pr"} => Stage = Task.action \/ Stage = "diff"
           /\ Task.action \in {"commit", "commit-and-pr"} =>
                Stage \in {"checkout", "add", "status", "diff", "commit", "push", "create-pr"}
<1>1. step.todo \in Todos(Task)
  BY DEF TodoInv
<1>2. /\ Task.adapter = "fs" => Task.action = "write"
      /\ Task.adapter = "terminal" => Task.action = "run"
      /\ Task.adapter = "github" => Task.action \in GithubAction
      /\ Task.adapter \in {"fs", "terminal", "github"}
  BY TaskActions
<1>a. AfterStage \in {Tail(step.todo), SubSeq(step.todo, 4, Len(step.todo))}
      /\ (Stage # "status" => AfterStage = Tail(step.todo))
  BY DEF AfterStage
<1>3. CASE Task.adapter # "github"
  <2>1. Todos(Task) = {<< Task.action >>, << >>}
    BY <1>3 DEF Todos
  <2>2. step.todo = << Task.action >>
    BY <1>1, <2>1
  <2>3. Stage = Task.action /\ AfterStage = << >>
    BY <1>a, <1>2, <2>2, OneStage DEF Stage
  <2>. QED  BY <1>2, <1>3, <2>1, <2>3
<1>4. CASE Task.adapter = "github" /\ Task.action = "commit"
  <2>1. Todos(Task) = CommitTodos
    BY <1>4 DEF Todos
  <2>2. /\ AfterStage \in CommitTodos
        /\ Stage \in {"checkout", "add", "status", "diff", "commit"}
    <3>1. step.todo \in CommitTodos \ {<< >>}
      BY <1>1, <2>1
    <3>2. CASE step.todo = << "commit" >>
      BY <3>2, <1>a, CommitTodoHeads DEF CommitTodos, Stage
    <3>3. CASE step.todo = << "diff", "commit" >>
      BY <3>3, <1>a, CommitTodoHeads DEF CommitTodos, Stage
    <3>4. CASE step.todo = << "status", "diff", "commit" >>
      BY <3>4, <1>a, CommitTodoHeads DEF CommitTodos, Stage
    <3>5. CASE step.todo = << "add", "status", "diff", "commit" >>
      BY <3>5, <1>a, CommitTodoHeads DEF CommitTodos, Stage
    <3>6. CASE step.todo = << "checkout", "add", "status", "diff", "commit" >>
      BY <3>6, <1>a, CommitTodoHeads DEF CommitTodos, Stage
    <3>. QED  BY <3>1, <3>2, <3>3, <3>4, <3>5, <3>6 DEF CommitTodos
  <2>. QED  BY <1>4, <2>1, <2>2
<1>5. CASE Task.adapter = "github" /\ Task.action = "commit-and-pr"
  <2>1. Todos(Task) = ProposeTodos
    BY <1>5 DEF Todos
  <2>2. AfterStage \in ProposeTodos /\ Stage \in StageNames
    <3>1. step.todo \in {Todo1, Todo2, Todo3, Todo4, Todo5, Todo6, Todo7}
      BY <1>1, <2>1 DEF ProposeTodos, Todo8
    <3>2. CASE step.todo = Todo1
      BY <3>2, <1>a, TodoHeads DEF ProposeTodos, Stage, StageNames
    <3>3. CASE step.todo = Todo2
      BY <3>3, <1>a, TodoHeads DEF ProposeTodos, Stage, StageNames
    <3>4. CASE step.todo = Todo3
      BY <3>4, <1>a, TodoHeads DEF ProposeTodos, Stage, StageNames
    <3>5. CASE step.todo = Todo4
      BY <3>5, <1>a, TodoHeads DEF ProposeTodos, Stage, StageNames
    <3>6. CASE step.todo = Todo5
      BY <3>6, <1>a, TodoHeads DEF ProposeTodos, Stage, StageNames
    <3>7. CASE step.todo = Todo6
      BY <3>7, <1>a, TodoHeads DEF ProposeTodos, Stage, StageNames
    <3>8. CASE step.todo = Todo7
      BY <3>8, <1>a, TodoHeads DEF ProposeTodos, Stage, StageNames
    <3>. QED  BY <3>1, <3>2, <3>3, <3>4, <3>5, <3>6, <3>7, <3>8
  <2>. QED  BY <1>5, <2>1, <2>2 DEF StageNames
<1>6. CASE Task.adapter = "github" /\ Task.action = "validate-diff"
  <2>1. Todos(Task) = {<< "diff" >>, << >>}
    BY <1>6 DEF Todos
  <2>2. step.todo = << "diff" >>
    BY <1>1, <2>1
  <2>3. Stage = "diff" /\ AfterStage = << >>
    BY <1>a, <2>2, OneStage DEF Stage
  <2>. QED  BY <1>6, <2>1, <2>3
<1>7. CASE Task.adapter = "github" /\ Task.action \notin {"commit", "commit-and-pr", "validate-diff"}
  <2>1. Todos(Task) = {<< Task.action >>, << >>}
    BY <1>7 DEF Todos
  <2>2. step.todo = << Task.action >>
    BY <1>1, <2>1
  <2>3. Stage = Task.action /\ AfterStage = << >>
    BY <1>a, <1>2, <2>2, OneStage DEF Stage
  <2>. QED  BY <1>2, <1>7, <2>1, <2>3 DEF GithubAction
<1>. QED  BY <1>3, <1>4, <1>5, <1>6, <1>7

\* An attempt begins with all the stages of the task.
LEMMA FirstTodo ==
    ASSUME StepType
    PROVE  /\ Stages(Task) \in Todos(Task)
           /\ Task.action = "commit-and-pr" => Stages(Task) = Todo1
<1>1. /\ Task.adapter \in {"fs", "terminal", "github"}
      /\ Task.action = "commit-and-pr" => Task.adapter = "github"
  BY TaskActions
<1>2. CASE Task.adapter # "github"
  <2>0. Task.action \in {"write", "run"}
    BY <1>1, <1>2, TaskActions
  <2>1. Stages(Task) = << Task.action >>
    BY <1>2, <2>0 DEF Stages
  <2>2. Todos(Task) = {<< Task.action >>, << >>}
    BY <1>2 DEF Todos
  <2>. QED  BY <1>1, <1>2, <2>1, <2>2
<1>3. CASE Task.adapter = "github" /\ Task.action = "commit"
  BY <1>3 DEF Todos, Stages, CommitTodos, CommitStages
<1>4. CASE Task.adapter = "github" /\ Task.action = "commit-and-pr"
  <2>1. Stages(Task) = CommitStages \o << "push", "create-pr" >>
    BY <1>4 DEF Stages
  <2>2. CommitStages \o << "push", "create-pr" >> = Todo1
    <3>. DEFINE a == CommitStages
                b == << "push", "create-pr" >>
    <3>1. a \in Seq(StageNames) /\ b \in Seq(StageNames) /\ Todo1 \in Seq(StageNames)
      BY DEF CommitStages, StageNames, Todo1
    <3>2. Len(a) = 5 /\ Len(b) = 2 /\ Len(Todo1) = 7
      BY DEF CommitStages, Todo1
    <3>3. /\ \A i \in 1 .. 5 : a[i] = Todo1[i]
          /\ b[1] = Todo1[6] /\ b[2] = Todo1[7]
      BY DEF CommitStages, Todo1
    <3>. HIDE DEF a, b
    <3>. DEFINE c == a \o b
    <3>4. /\ c \in Seq(StageNames) /\ Len(c) = Len(a) + Len(b)
          /\ \A i \in 1 .. Len(a) + Len(b) : c[i] = IF i <= Len(a) THEN a[i] ELSE b[i - Len(a)]
      BY <3>1, ConcatProperties
    <3>. HIDE DEF c
    <3>5. ASSUME NEW i \in 1 .. 7
          PROVE  c[i] = Todo1[i]
      <4>1. CASE i \in 1 .. 5
        BY <3>2, <3>3, <3>4, <4>1
      <4>2. CASE i \in {6, 7}
        BY <3>2, <3>3, <3>4, <4>2
      <4>. QED  BY <4>1, <4>2
    <3>6. Len(c) = 7
      BY <3>2, <3>4
    <3>7. c = Todo1
      BY <3>1, <3>2, <3>4, <3>5, <3>6, SeqEqual
    <3>. QED  BY <3>7 DEF a, b, c
  <2>3. Todos(Task) = ProposeTodos
    BY <1>4 DEF Todos
  <2>. QED  BY <2>1, <2>2, <2>3, <1>4 DEF ProposeTodos
<1>5. CASE Task.adapter = "github" /\ Task.action = "validate-diff"
  BY <1>5 DEF Todos, Stages
<1>6. CASE Task.adapter = "github" /\ Task.action \notin {"commit", "commit-and-pr", "validate-diff"}
  BY <1>6 DEF Todos, Stages
<1>. QED  BY <1>2, <1>3, <1>4, <1>5, <1>6

LEMMA CopyFacts ==
    ASSUME StepType
    PROVE  /\ repo.changes \subseteq Paths /\ repo.index \subseteq Paths
           /\ repo.on \in {"main", Branch}
           /\ repo.tip \in [{"main", Branch} -> Seq(Commit)]
           /\ HeadOf(repo) \in Seq(Commit)
           /\ repo.tip[Branch] \in Seq(Commit)
           /\ DOMAIN repo = {"changes", "index", "on", "tip"}
<1>1. /\ repo.changes \subseteq Paths /\ repo.index \subseteq Paths
      /\ repo.on \in {"main", Branch}
      /\ repo.tip \in [{"main", Branch} -> Seq(Commit)]
  BY DEF StepType, CopyType
<1>2. DOMAIN repo = {"changes", "index", "on", "tip"}
  BY DEF StepType, CopyType
<1>. QED  BY <1>1, <1>2 DEF HeadOf

LEMMA CheckoutEffect ==
    ASSUME StepType, Effect, Stage = "checkout"
    PROVE  /\ repo' \in CopyType
           /\ repo'.changes = repo.changes /\ repo'.index = repo.index /\ repo'.on = Branch
           /\ HeadOf(repo') = HeadOf(repo)
<1>1. repo' = [repo EXCEPT !.on = Branch, !.tip[Branch] = HeadOf(repo)]
  BY DEF Effect
<1>2. DOMAIN repo = {"changes", "index", "on", "tip"} /\ DOMAIN repo.tip = {"main", Branch}
  BY CopyFacts
<1>3. repo'.changes = repo.changes
  BY <1>1, <1>2
<1>4. repo'.index = repo.index
  BY <1>1, <1>2
<1>5. repo'.on = Branch
  BY <1>1, <1>2
<1>6. repo'.tip = [repo.tip EXCEPT ![Branch] = HeadOf(repo)]
  BY <1>1, <1>2
<1>7. repo'.tip \in [{"main", Branch} -> Seq(Commit)] /\ repo'.tip[Branch] = HeadOf(repo)
  BY <1>6, CopyFacts
<1>8. repo' \in CopyType
  BY <1>1, <1>3, <1>4, <1>5, <1>7, CopyFacts DEF CopyType
<1>. QED  BY <1>3, <1>4, <1>5, <1>7, <1>8 DEF HeadOf

LEMMA AddEffect ==
    ASSUME StepType, Effect, Stage = "add"
    PROVE  /\ repo' \in CopyType
           /\ repo'.changes = repo.changes /\ repo'.index = repo.index \cup ToAdd(Task)
           /\ repo'.on = repo.on /\ repo'.tip = repo.tip
<1>1. repo' = [repo EXCEPT !.index = repo.index \cup ToAdd(Task)]
  BY DEF Effect
<1>2. ToAdd(Task) \subseteq Paths
  BY CopyFacts DEF ToAdd
<1>3. repo'.index = repo.index \cup ToAdd(Task)
  BY <1>1, CopyFacts
<1>4. repo'.changes = repo.changes /\ repo'.on = repo.on /\ repo'.tip = repo.tip
  BY <1>1, CopyFacts
<1>5. repo' \in CopyType
  BY <1>1, <1>2, CopyFacts DEF CopyType, StepType
<1>. QED  BY <1>3, <1>4, <1>5

LEMMA CommitEffect ==
    ASSUME StepType, Effect, Stage = "commit"
    PROVE  /\ repo' \in CopyType
           /\ repo'.changes = repo.changes \ repo.index /\ repo'.index = {}
           /\ repo'.on = repo.on
           /\ HeadOf(repo') = Append(HeadOf(repo), [id |-> commits + 1, files |-> repo.index])
<1>. DEFINE c == [id |-> commits + 1, files |-> repo.index]
<1>1. repo' = [repo EXCEPT !.tip[repo.on] = Append(repo.tip[repo.on], c),
                           !.changes = repo.changes \ repo.index, !.index = {}]
  BY DEF Effect
<1>2. DOMAIN repo = {"changes", "index", "on", "tip"} /\ DOMAIN repo.tip = {"main", Branch}
  BY CopyFacts
<1>c. c \in Commit
  BY CopyFacts DEF Commit, StepType
<1>. HIDE DEF c
<1>3. repo'.changes = repo.changes \ repo.index
  BY <1>1, <1>2
<1>4. repo'.index = {}
  BY <1>1, <1>2
<1>5. repo'.on = repo.on
  BY <1>1, <1>2
<1>6. repo'.tip = [repo.tip EXCEPT ![repo.on] = Append(repo.tip[repo.on], c)]
  BY <1>1, <1>2
<1>7. Append(repo.tip[repo.on], c) \in Seq(Commit)
  BY <1>c, CopyFacts, FilesInAppend
<1>8. /\ repo'.tip \in [{"main", Branch} -> Seq(Commit)]
      /\ repo'.tip[repo.on] = Append(repo.tip[repo.on], c)
  BY <1>6, <1>7, CopyFacts
<1>9. repo' \in CopyType
  BY <1>1, <1>3, <1>4, <1>5, <1>8, CopyFacts DEF CopyType
<1>. QED  BY <1>3, <1>4, <1>5, <1>8, <1>9 DEF HeadOf, c

LEMMA WriteEffect ==
    ASSUME StepType, Effect, Stage = "write", Task.path \in Paths
    PROVE  /\ repo' \in CopyType
           /\ repo'.index = repo.index /\ repo'.on = repo.on /\ repo'.tip = repo.tip
<1>. DEFINE c == IF Task.path \in FilesIn(HeadOf(repo))
                 THEN repo.changes \ {Task.path} ELSE repo.changes \cup {Task.path}
<1>1. repo' = [repo EXCEPT !.changes = c]
  BY DEF Effect, Written
<1>2. c \subseteq Paths
  BY CopyFacts
<1>. HIDE DEF c
<1>3. repo'.index = repo.index /\ repo'.on = repo.on /\ repo'.tip = repo.tip
  BY <1>1, CopyFacts
<1>4. repo' \in CopyType
  BY <1>1, <1>2, CopyFacts DEF CopyType, StepType
<1>. QED  BY <1>3, <1>4

LEMMA NoEffectOnCopy ==
    ASSUME Effect, Stage \notin {"write", "checkout", "add", "commit"}
    PROVE  repo' = repo
BY DEF Effect

LEMMA EffectElsewhere ==
    ASSUME StepType, Effect
    PROVE  /\ commits' \in Nat /\ remote' \in Seq(Commit) /\ pullRequest' \in BOOLEAN
           /\ found' \in FoundType
           /\ found'.tip = found.tip /\ found'.changes = found.changes /\ found'.others = found.others
           /\ found'.commits = IF Stage = "commit" THEN found.commits + 1 ELSE found.commits
<1>1. commits' \in Nat /\ remote' \in Seq(Commit) /\ pullRequest' \in BOOLEAN
  <2>1. commits' \in Nat
    BY DEF Effect, StepType
  <2>2. remote' \in Seq(Commit)
    BY CopyFacts DEF Effect, StepType
  <2>3. pullRequest' \in BOOLEAN
    BY Zenon DEF Effect
  <2>. QED  BY <2>1, <2>2, <2>3
<1>2. found \in FoundType /\ DOMAIN found = {"tip", "changes", "commits", "others"}
  BY DEF StepType, FoundType
<1>3. CASE Stage = "commit"
  <2>1. found' = [found EXCEPT !.commits = found.commits + 1]
    BY <1>3 DEF Effect
  <2>2. found'.commits = found.commits + 1
    BY <1>2, <2>1
  <2>3. found'.tip = found.tip /\ found'.changes = found.changes /\ found'.others = found.others
    BY <1>2, <2>1
  <2>4. found' \in FoundType
    BY <1>2, <2>1 DEF FoundType
  <2>. QED  BY <1>1, <1>3, <2>2, <2>3, <2>4
<1>4. CASE Stage # "commit"
  <2>1. found' = found
    BY <1>4 DEF Effect
  <2>. QED  BY <1>1, <1>2, <1>4, <2>1
<1>. QED  BY <1>3, <1>4

\* Nothing that was published is taken back.
LEMMA PublishedStays ==
    ASSUME StepType, CanSucceed, Effect
    PROVE  /\ FilesIn(remote) \subseteq FilesIn(remote')
           /\ pullRequest => pullRequest'
<1>1. CASE Stage = "push"
  <2>1. IsPrefix(remote, repo.tip[Branch]) /\ remote' = repo.tip[Branch]
    BY <1>1 DEF CanSucceed, Effect
  <2>. QED  BY <2>1, FilesInPrefix, CopyFacts, Zenon DEF StepType, Effect
<1>2. CASE Stage # "push"
  <2>1. remote' = remote
    BY <1>2 DEF Effect
  <2>. QED  BY <2>1, Zenon DEF Effect
<1>. QED  BY <1>1, <1>2

StepInv == StepType /\ TodoInv /\ PublishInv

LEMMA InitStepInv == StepInit => StepInv
<1>. SUFFICES ASSUME StepInit PROVE StepInv
  OBVIOUS
<1>1. /\ commits = 1 /\ remote = <<>> /\ pullRequest = FALSE /\ plan \in Plans
      /\ step = At("idle", 1) /\ found = Finds /\ owed = {}
  BY DEF StepInit
<1>2. PICK s \in SUBSET OthersPaths :
        repo = [changes |-> s, index |-> {}, on |-> "main",
                tip |-> [b \in {"main", Branch} |-> IF b = "main" THEN Base ELSE <<>>]]
  BY DEF StepInit
<1>3. Base \in Seq(Commit)
  <2>1. [id |-> 0, files |-> {}] \in Commit /\ [id |-> 1, files |-> {}] \in Commit
    BY DEF Commit
  <2>. QED  BY <2>1 DEF Base
<1>4. repo.changes \subseteq Paths /\ repo.tip \in [{"main", Branch} -> Seq(Commit)]
  BY <1>2, <1>3, StepAssumption
<1>5. repo \in CopyType
  BY <1>2, <1>4 DEF CopyType
<1>6. HeadOf(repo) \in Seq(Commit)
  BY <1>2, <1>4 DEF HeadOf
<1>7. found \in FoundType
  BY <1>1, <1>4, <1>6 DEF Finds, FoundType
<1>8. DOMAIN step = StepFields /\ step.at = 1 /\ step.pc = "idle"
  BY <1>1 DEF At, StepFields
<1>9. step.at \in DOMAIN plan
  <2>1. plan \in Seq(Planned) /\ plan # <<>>
    BY <1>1, StepAssumption
  <2>. QED  BY <1>8, <2>1
<1>10. StepType
  <2>1. remote \in Seq(Commit) /\ commits \in Nat
    BY <1>1
  <2>2. pullRequest \in BOOLEAN
    BY <1>1, Zenon
  <2>. QED  BY <1>1, <1>5, <1>7, <1>8, <1>9, <2>1, <2>2 DEF StepType
<1>11. TodoInv /\ PublishInv
  BY <1>1, <1>8 DEF TodoInv, PublishInv, SuccessIsPublished, Proposing
<1>. QED  BY <1>10, <1>11 DEF StepInv

-----------------------------------------------------------------------------

\* The executor is not at a step, or leaves it.
LEMMA NotAtAStep ==
    ASSUME StepInv, UNCHANGED <<commits, remote, pullRequest, plan, owed>>,
           repo' \in CopyType, found' \in FoundType,
           DOMAIN step' = StepFields, step'.at \in DOMAIN plan,
           step'.pc \notin {"execute", "heal", "healing"}
    PROVE  StepInv'
<1>1. StepType'
  BY DEF StepInv, StepType
<1>2. TodoInv'
  BY DEF TodoInv
<1>3. PublishInv'
  BY DEF StepInv, PublishInv, SuccessIsPublished, Proposing
<1>. QED  BY <1>1, <1>2, <1>3 DEF StepInv

\* The executor is at a step and, if it attempts it, at the beginning.
LEMMA AtTheBeginning ==
    ASSUME StepInv, StepType', plan' = plan, step'.at = step.at,
           step'.pc = "execute" => step'.todo = Stages(Task),
           SuccessIsPublished',
           Proposing' => (Target \subseteq repo.changes \cup FilesIn(HeadOf(repo)))'
    PROVE  StepInv'
<1>1. Task' = Task
  BY DEF Task
<1>2. TodoInv'
  BY <1>1, FirstTodo DEF StepInv, TodoInv
<1>3. Proposing' /\ step'.pc = "execute" => step'.todo = Todo1
  BY <1>1, FirstTodo DEF StepInv, Proposing
<1>4. step'.todo = Todo1 => Carried(step.todo)'
  BY TodosDiffer DEF Carried
<1>5. PublishInv'
  BY <1>3, <1>4 DEF PublishInv
<1>. QED  BY <1>2, <1>5 DEF StepInv

LEMMA AttemptIs ==
    ASSUME StepType, NEW left, Attempt(left)
    PROVE  /\ DOMAIN step' = StepFields /\ step'.at = step.at
           /\ step'.pc = "execute" /\ step'.todo = Stages(Task)
<1>1. step' = [step EXCEPT !.pc = "execute", !.left = left, !.todo = Stages(Task)]
  BY DEF Attempt
<1>2. DOMAIN step = StepFields
  BY DEF StepType
<1>3. step'.at = step.at
  BY <1>1, <1>2 DEF StepFields
<1>4. step'.pc = "execute"
  BY <1>1, <1>2 DEF StepFields
<1>5. step'.todo = Stages(Task)
  BY <1>1, <1>2 DEF StepFields
<1>. QED  BY <1>1, <1>2, <1>3, <1>4, <1>5

LEMMA AttemptFailedIs ==
    ASSUME StepType, NEW message, AttemptFailed(message)
    PROVE  /\ DOMAIN step' = StepFields /\ step'.at = step.at
           /\ step'.pc \in {"execute", "heal"}
           /\ step'.pc = "execute" => step'.todo = Stages(Task)
<1>1. CASE step.left > 1
  BY <1>1, AttemptIs DEF AttemptFailed
<1>2. CASE ~(step.left > 1)
  <2>1. step' = [At("heal", step.at) EXCEPT !.message = message]
    BY <1>2 DEF AttemptFailed
  <2>2. DOMAIN step' = StepFields /\ step'.at = step.at /\ step'.pc = "heal"
    BY <2>1 DEF At, StepFields
  <2>. QED  BY <2>2
<1>. QED  BY <1>1, <1>2

-----------------------------------------------------------------------------

\* What a command does keeps the types, takes back nothing that was published
\* and loses nothing of what has to be.
LEMMA EffectCarries ==
    ASSUME StepInv, step.pc = "execute", step.todo # <<>>, CanSucceed, Effect
    PROVE  /\ repo' \in CopyType /\ commits' \in Nat /\ remote' \in Seq(Commit)
           /\ pullRequest' \in BOOLEAN /\ found' \in FoundType
           /\ FilesIn(remote) \subseteq FilesIn(remote') /\ (pullRequest => pullRequest')
           /\ Proposing => Target \subseteq repo'.changes \cup FilesIn(HeadOf(repo'))
<1>1. StepType /\ TodoInv
  BY DEF StepInv
<1>2. Proposing => Target \subseteq repo.changes \cup FilesIn(HeadOf(repo))
  BY DEF StepInv, PublishInv
<1>3. /\ repo' \in CopyType
      /\ Proposing => Target \subseteq repo'.changes \cup FilesIn(HeadOf(repo'))
  <2>1. CASE Stage = "checkout"
    BY <2>1, <1>1, <1>2, CheckoutEffect
  <2>2. CASE Stage = "add"
    BY <2>2, <1>1, <1>2, AddEffect DEF HeadOf
  <2>3. CASE Stage = "commit"
    <3>1. [id |-> commits + 1, files |-> repo.index] \in Commit
      BY <1>1, CopyFacts DEF Commit, StepType
    <3>2. FilesIn(HeadOf(repo')) = FilesIn(HeadOf(repo)) \cup repo.index
      BY <2>3, <1>1, <3>1, CommitEffect, CopyFacts, FilesInAppend
    <3>. QED  BY <2>3, <1>1, <1>2, <3>2, CommitEffect
  <2>4. CASE Stage = "write"
    <3>1. Task.adapter = "fs"
      BY <2>4, <1>1, NextTodo
    <3>2. Task.path \in Paths
      BY <3>1, <1>1, TaskFacts DEF FsTask
    <3>3. ~Proposing
      BY <3>1, <1>1, TaskActions DEF Proposing
    <3>. QED  BY <2>4, <1>1, <3>2, <3>3, WriteEffect
  <2>5. CASE Stage \notin {"write", "checkout", "add", "commit"}
    <3>1. repo' = repo
      BY <2>5, NoEffectOnCopy
    <3>. QED  BY <3>1, <1>1, <1>2 DEF StepType
  <2>. QED  BY <2>1, <2>2, <2>3, <2>4, <2>5
<1>. QED  BY <1>1, <1>3, EffectElsewhere, PublishedStays

\* Each stage carries what has to be published one further.
LEMMA StageCarries ==
    ASSUME StepInv, Proposing, step.pc = "execute", step.todo # <<>>, CanSucceed, Effect,
           NEW todo, todo = AfterStage
    PROVE  /\ todo # Todo1 => repo'.on = Branch
           /\ todo \in {Todo3, Todo4, Todo5} => Target \subseteq repo'.index \cup FilesIn(HeadOf(repo'))
           /\ todo = Todo6 => Target \subseteq FilesIn(HeadOf(repo'))
           /\ todo \in {Todo7, Todo8} => Target \subseteq FilesIn(remote')
           /\ todo = Todo8 => pullRequest'
<1>1. StepType /\ TodoInv
  BY DEF StepInv
<1>2. /\ Target \subseteq repo.changes \cup FilesIn(HeadOf(repo))
      /\ Carried(step.todo)
  BY DEF StepInv, PublishInv
<1>3. step.todo \in {Todo1, Todo2, Todo3, Todo4, Todo5, Todo6, Todo7}
  <2>1. Task.adapter = "github" /\ Task.action = "commit-and-pr"
    BY <1>1, TaskActions DEF Proposing
  <2>2. Todos(Task) = ProposeTodos
    BY <2>1 DEF Todos
  <2>. QED  BY <1>1, <2>2 DEF TodoInv, ProposeTodos, Todo8
<1>4. CASE step.todo = Todo1
  <2>1. Stage = "checkout" /\ todo = Todo2
    BY <1>4, TodoHeads DEF Stage, AfterStage
  <2>. QED  BY <1>1, <2>1, CheckoutEffect, TodosDiffer
<1>5. CASE step.todo = Todo2
  <2>1. Stage = "add" /\ todo = Todo3
    BY <1>5, TodoHeads DEF Stage, AfterStage
  <2>2. repo.on = Branch
    BY <1>2, <1>5, TodosDiffer DEF Carried
  <2>3. Target \subseteq ToAdd(Task) \cup FilesIn(HeadOf(repo))
    BY <1>2 DEF Target, ToAdd
  <2>4. /\ repo'.index = repo.index \cup ToAdd(Task) /\ repo'.on = repo.on
        /\ HeadOf(repo') = HeadOf(repo)
    BY <1>1, <2>1, AddEffect DEF HeadOf
  <2>. QED  BY <2>1, <2>2, <2>3, <2>4, TodosDiffer
<1>6. CASE step.todo = Todo3
  <2>1. Stage = "status" /\ repo' = repo
    BY <1>6, TodoHeads, NoEffectOnCopy DEF Stage
  <2>2. repo.on = Branch /\ Target \subseteq repo.index \cup FilesIn(HeadOf(repo))
    BY <1>2, <1>6, TodosDiffer DEF Carried
  <2>3. CASE repo.changes = {}
    <3>1. todo = Todo6
      BY <1>6, <2>1, <2>3, TodoHeads DEF AfterStage
    <3>. QED  BY <1>2, <2>1, <2>2, <2>3, <3>1, TodosDiffer
  <2>4. CASE repo.changes # {}
    <3>1. todo = Todo4
      BY <1>6, <2>1, <2>4, TodoHeads DEF AfterStage
    <3>. QED  BY <2>1, <2>2, <3>1, TodosDiffer
  <2>. QED  BY <2>3, <2>4
<1>7. CASE step.todo = Todo4
  <2>1. Stage = "diff" /\ todo = Todo5 /\ repo' = repo
    BY <1>7, TodoHeads, NoEffectOnCopy DEF Stage, AfterStage
  <2>2. repo.on = Branch /\ Target \subseteq repo.index \cup FilesIn(HeadOf(repo))
    BY <1>2, <1>7, TodosDiffer DEF Carried
  <2>. QED  BY <2>1, <2>2, TodosDiffer
<1>8. CASE step.todo = Todo5
  <2>1. Stage = "commit" /\ todo = Todo6
    BY <1>8, TodoHeads DEF Stage, AfterStage
  <2>2. repo.on = Branch /\ Target \subseteq repo.index \cup FilesIn(HeadOf(repo))
    BY <1>2, <1>8, TodosDiffer DEF Carried
  <2>3. [id |-> commits + 1, files |-> repo.index] \in Commit
    BY <1>1, CopyFacts DEF Commit, StepType
  <2>4. FilesIn(HeadOf(repo')) = FilesIn(HeadOf(repo)) \cup repo.index
    BY <1>1, <2>1, <2>3, CommitEffect, CopyFacts, FilesInAppend
  <2>5. repo'.on = repo.on
    BY <1>1, <2>1, CommitEffect
  <2>. QED  BY <2>1, <2>2, <2>4, <2>5, TodosDiffer
<1>9. CASE step.todo = Todo6
  <2>1. Stage = "push" /\ todo = Todo7 /\ repo' = repo
    BY <1>9, TodoHeads, NoEffectOnCopy DEF Stage, AfterStage
  <2>2. repo.on = Branch /\ Target \subseteq FilesIn(HeadOf(repo))
    BY <1>2, <1>9, TodosDiffer DEF Carried
  <2>3. remote' = HeadOf(repo)
    BY <2>1, <2>2 DEF Effect, HeadOf
  <2>. QED  BY <2>1, <2>2, <2>3, TodosDiffer
<1>10. CASE step.todo = Todo7
  <2>1. Stage = "create-pr" /\ todo = Todo8 /\ repo' = repo
    BY <1>10, TodoHeads, NoEffectOnCopy DEF Stage, AfterStage
  <2>2. repo.on = Branch /\ Target \subseteq FilesIn(remote)
    BY <1>2, <1>10, TodosDiffer DEF Carried
  <2>3. remote' = remote /\ pullRequest'
    BY <2>1 DEF Effect
  <2>. QED  BY <2>1, <2>2, <2>3, TodosDiffer
<1>. QED  BY <1>3, <1>4, <1>5, <1>6, <1>7, <1>8, <1>9, <1>10

-----------------------------------------------------------------------------

LEMMA StartStep ==
    ASSUME StepInv, StartRun \/ ApproveStep \/ BeginStep
    PROVE  StepInv'
<1>1. StepType
  BY DEF StepInv
<1>2. UNCHANGED <<worldVars, plan, owed>>
  BY DEF StartRun, ApproveStep, BeginStep
<1>3. repo' \in CopyType
  BY <1>1, <1>2 DEF StepType, worldVars
<1>4. found \in FoundType /\ DOMAIN step = StepFields /\ step.at \in DOMAIN plan
  BY <1>1 DEF StepType
<1>5. CASE StartRun \/ ApproveStep
  <2>1. step' = [step EXCEPT !.pc = "gate"] /\ found' = found
    BY <1>5 DEF StartRun, ApproveStep
  <2>2. DOMAIN step' = StepFields /\ step'.at = step.at /\ step'.pc = "gate"
    BY <1>4, <2>1 DEF StepFields
  <2>. QED  BY <1>2, <1>3, <1>4, <2>1, <2>2, NotAtAStep DEF worldVars
<1>6. CASE BeginStep /\ ~Attempt(plan[step.at].maxAttempts)
  <2>1. /\ \/ step' = [step EXCEPT !.pc = "failed"]
           \/ step' = [step EXCEPT !.pc = "paused"]
        /\ found' = found
    BY <1>6 DEF BeginStep
  <2>2. DOMAIN step' = StepFields /\ step'.at = step.at /\ step'.pc \in {"failed", "paused"}
    BY <1>4, <2>1 DEF StepFields
  <2>. QED  BY <1>2, <1>3, <1>4, <2>1, <2>2, NotAtAStep DEF worldVars
<1>7. CASE BeginStep /\ Attempt(plan[step.at].maxAttempts)
  <2>1. /\ DOMAIN step' = StepFields /\ step'.at = step.at
        /\ step'.pc = "execute" /\ step'.todo = Stages(Task)
    BY <1>1, <1>7, AttemptIs
  <2>2. found' = Finds
    <3>1. step.pc = "gate"
      BY <1>7 DEF BeginStep
    <3>2. step' # [step EXCEPT !.pc = "failed"] /\ step' # [step EXCEPT !.pc = "paused"]
      BY <1>4, <2>1 DEF StepFields
    <3>. QED  BY <1>7, <3>2 DEF BeginStep
  <2>3. found'.changes = repo.changes /\ found' \in FoundType
    BY <1>1, <2>2, CopyFacts DEF Finds, FoundType
  <2>4. StepType'
    BY <1>1, <1>2, <1>3, <2>1, <2>3 DEF StepType, worldVars
  <2>5. Target' \subseteq repo'.changes
    BY <1>2, <2>3 DEF Target, worldVars
  <2>6. SuccessIsPublished'
    BY <1>2 DEF worldVars, StepInv, PublishInv, SuccessIsPublished
  <2>. QED  BY <1>2, <2>1, <2>4, <2>5, <2>6, AtTheBeginning
<1>. QED  BY <1>5, <1>6, <1>7

LEMMA StageSucceedsStep ==
    ASSUME StepInv, StageSucceeds
    PROVE  StepInv'
<1>1. StepType /\ TodoInv /\ PublishInv
  BY DEF StepInv
<1>2. /\ step.pc = "execute" /\ step.todo # <<>> /\ CanSucceed /\ Effect
      /\ step' = [step EXCEPT !.todo = AfterStage]
      /\ plan' = plan /\ owed' = owed
  BY DEF StageSucceeds
<1>3. DOMAIN step = StepFields /\ step.at \in DOMAIN plan
  BY <1>1 DEF StepType
<1>4. DOMAIN step' = StepFields /\ step'.at = step.at /\ step'.pc = "execute"
  BY <1>2, <1>3 DEF StepFields
<1>5. step'.todo = AfterStage
  BY <1>2, <1>3 DEF StepFields
<1>6. /\ repo' \in CopyType /\ commits' \in Nat /\ remote' \in Seq(Commit)
      /\ pullRequest' \in BOOLEAN /\ found' \in FoundType
      /\ FilesIn(remote) \subseteq FilesIn(remote') /\ (pullRequest => pullRequest')
      /\ Proposing => Target \subseteq repo'.changes \cup FilesIn(HeadOf(repo'))
  BY <1>2, EffectCarries
<1>7. StepType'
  BY <1>1, <1>2, <1>3, <1>4, <1>6 DEF StepType
<1>8. Task' = Task /\ Target' = Target /\ (Proposing' => Proposing)
  <2>1. Task' = Task
    BY <1>2, <1>4 DEF Task
  <2>2. found'.changes = found.changes /\ found'.others = found.others
    BY <1>1, <1>2, EffectElsewhere
  <2>. QED  BY <1>2, <2>1, <2>2 DEF Target, Proposing
<1>9. TodoInv'
  BY <1>1, <1>2, <1>5, <1>8, NextTodo DEF TodoInv
<1>10. SuccessIsPublished'
  BY <1>1, <1>2, <1>6 DEF PublishInv, SuccessIsPublished
<1>11. Proposing' => /\ (Target \subseteq repo.changes \cup FilesIn(HeadOf(repo)))'
                     /\ Carried(step.todo)'
  <2>. SUFFICES ASSUME Proposing
                PROVE  /\ (Target \subseteq repo.changes \cup FilesIn(HeadOf(repo)))'
                       /\ Carried(step.todo)'
    BY <1>8
  <2>1. /\ AfterStage # Todo1 => repo'.on = Branch
        /\ AfterStage \in {Todo3, Todo4, Todo5} => Target \subseteq repo'.index \cup FilesIn(HeadOf(repo'))
        /\ AfterStage = Todo6 => Target \subseteq FilesIn(HeadOf(repo'))
        /\ AfterStage \in {Todo7, Todo8} => Target \subseteq FilesIn(remote')
        /\ AfterStage = Todo8 => pullRequest'
    BY <1>2, StageCarries
  <2>2. (Target \subseteq repo.changes \cup FilesIn(HeadOf(repo)))'
    BY <1>6, <1>8
  <2>3. Carried(step.todo)'
    BY <1>5, <1>8, <2>1 DEF Carried
  <2>. QED  BY <2>2, <2>3
<1>. QED  BY <1>7, <1>9, <1>10, <1>11 DEF StepInv, PublishInv

LEMMA StageFailsStep ==
    ASSUME StepInv, NEW m \in Messages, StageFails(m)
    PROVE  StepInv'
<1>1. StepType /\ PublishInv
  BY DEF StepInv
<1>2. /\ step.pc = "execute" /\ step.todo # <<>>
      /\ UNCHANGED <<worldVars, found>> \/ (CanSucceed /\ Effect)
      /\ plan' = plan /\ owed' = owed
  BY DEF StageFails
<1>3. /\ DOMAIN step' = StepFields /\ step'.at = step.at
      /\ step'.pc \in {"execute", "heal"}
      /\ step'.pc = "execute" => step'.todo = Stages(Task)
  BY <1>1, AttemptFailedIs DEF StageFails
<1>4. /\ repo' \in CopyType /\ commits' \in Nat /\ remote' \in Seq(Commit)
      /\ pullRequest' \in BOOLEAN /\ found' \in FoundType
      /\ FilesIn(remote) \subseteq FilesIn(remote') /\ (pullRequest => pullRequest')
      /\ Proposing => Target \subseteq repo'.changes \cup FilesIn(HeadOf(repo'))
      /\ found'.changes = found.changes /\ found'.others = found.others
  <2>1. CASE UNCHANGED <<worldVars, found>>
    BY <1>1, <1>2, <2>1 DEF worldVars, StepType, PublishInv
  <2>2. CASE CanSucceed /\ Effect
    BY <1>1, <1>2, <2>2, EffectCarries, EffectElsewhere
  <2>. QED  BY <1>2, <2>1, <2>2
<1>5. StepType'
  BY <1>1, <1>2, <1>3, <1>4 DEF StepType
<1>6. Task' = Task /\ Target' = Target /\ (Proposing' => Proposing)
  BY <1>2, <1>3, <1>4 DEF Task, Target, Proposing
<1>7. SuccessIsPublished'
  BY <1>1, <1>2, <1>4 DEF PublishInv, SuccessIsPublished
<1>. QED  BY <1>2, <1>3, <1>4, <1>5, <1>6, <1>7, AtTheBeginning

LEMMA StepSucceededStep ==
    ASSUME StepInv, StepSucceeded
    PROVE  StepInv'
<1>1. StepType /\ TodoInv /\ PublishInv
  BY DEF StepInv
<1>2. /\ step.pc = "execute" /\ step.todo = <<>>
      /\ step' = IF step.at = Len(plan) THEN At("completed", step.at) ELSE At("gate", step.at + 1)
      /\ UNCHANGED <<worldVars, plan, found>>
  BY DEF StepSucceeded
<1>3. plan \in Seq(Planned) /\ step.at \in DOMAIN plan
  BY <1>1, StepAssumption DEF StepType
<1>4. DOMAIN step' = StepFields /\ step'.pc \in {"completed", "gate"} /\ step'.at \in DOMAIN plan
  <2>1. CASE step.at = Len(plan)
    BY <1>2, <1>3, <2>1 DEF At, StepFields
  <2>2. CASE step.at # Len(plan)
    <3>1. step.at + 1 \in DOMAIN plan
      BY <1>3, <2>2
    <3>. QED  BY <1>2, <2>2, <3>1 DEF At, StepFields
  <2>. QED  BY <2>1, <2>2
<1>5. StepType'
  BY <1>1, <1>2, <1>4 DEF StepType, worldVars
<1>6. TodoInv' /\ ~Proposing'
  BY <1>4 DEF TodoInv, Proposing
<1>7. SuccessIsPublished'
  <2>1. CASE owed' = owed
    BY <1>1, <1>2, <2>1 DEF PublishInv, SuccessIsPublished, worldVars
  <2>2. CASE owed' # owed
    <3>1. Task.action = "commit-and-pr" /\ "switch" \notin found.others /\ owed' = owed \cup Target
      BY <2>2 DEF StepSucceeded, Target
    <3>2. Proposing /\ step.todo = Todo8
      BY <1>2, <3>1 DEF Proposing, Todo8
    <3>3. Target \subseteq FilesIn(remote) /\ pullRequest
      BY <1>1, <1>2, <3>2 DEF PublishInv, Carried
    <3>. QED  BY <1>1, <1>2, <3>1, <3>3 DEF PublishInv, SuccessIsPublished, worldVars
  <2>. QED  BY <2>1, <2>2
<1>. QED  BY <1>5, <1>6, <1>7 DEF StepInv, PublishInv

LEMMA VerificationFailsStep ==
    ASSUME StepInv, VerificationFails
    PROVE  StepInv'
<1>1. StepType /\ PublishInv
  BY DEF StepInv
<1>2. step.pc = "execute" /\ UNCHANGED <<worldVars, found, plan, owed>>
  BY DEF VerificationFails
<1>3. /\ DOMAIN step' = StepFields /\ step'.at = step.at
      /\ step'.pc \in {"execute", "heal"}
      /\ step'.pc = "execute" => step'.todo = Stages(Task)
  BY <1>1, AttemptFailedIs DEF VerificationFails
<1>4. StepType'
  BY <1>1, <1>2, <1>3 DEF StepType, worldVars
<1>5. Target' = Target /\ (Proposing' => Proposing)
  BY <1>2, <1>3 DEF Task, Target, Proposing
<1>6. SuccessIsPublished' /\ (Proposing => Target \subseteq repo'.changes \cup FilesIn(HeadOf(repo')))
  BY <1>1, <1>2 DEF PublishInv, SuccessIsPublished, worldVars
<1>. QED  BY <1>2, <1>3, <1>4, <1>5, <1>6, AtTheBeginning

LEMMA HealStepStep ==
    ASSUME StepInv, HealStep
    PROVE  StepInv'
<1>1. StepType /\ PublishInv
  BY DEF StepInv
<1>2. step.pc = "heal" /\ step' = At("healing", step.at) /\ UNCHANGED <<worldVars, found, plan, owed>>
  BY DEF HealStep
<1>3. DOMAIN step' = StepFields /\ step'.at = step.at /\ step'.pc = "healing"
  BY <1>2 DEF At, StepFields
<1>4. StepType'
  BY <1>1, <1>2, <1>3 DEF StepType, worldVars
<1>5. Target' = Target /\ (Proposing' => Proposing)
  BY <1>2, <1>3 DEF Task, Target, Proposing
<1>6. SuccessIsPublished' /\ (Proposing => Target \subseteq repo'.changes \cup FilesIn(HeadOf(repo')))
  BY <1>1, <1>2 DEF PublishInv, SuccessIsPublished, worldVars
<1>. QED  BY <1>2, <1>3, <1>4, <1>5, <1>6, AtTheBeginning

LEMMA HealingAnsweredStep ==
    ASSUME StepInv, HealingAnswered
    PROVE  StepInv'
<1>1. StepType /\ PublishInv
  BY DEF StepInv
<1>2. step.pc = "healing" /\ UNCHANGED <<worldVars, found, plan, owed>>
  BY DEF HealingAnswered
<1>3. DOMAIN step = StepFields /\ step.at \in DOMAIN plan
  BY <1>1 DEF StepType
<1>4. CASE Attempt(1)
  <2>1. /\ DOMAIN step' = StepFields /\ step'.at = step.at
        /\ step'.pc = "execute" /\ step'.todo = Stages(Task)
    BY <1>1, <1>4, AttemptIs
  <2>2. StepType'
    BY <1>1, <1>2, <2>1 DEF StepType, worldVars
  <2>3. Target' = Target /\ (Proposing' => Proposing)
    BY <1>2, <2>1 DEF Task, Target, Proposing
  <2>4. SuccessIsPublished' /\ (Proposing => Target \subseteq repo'.changes \cup FilesIn(HeadOf(repo')))
    BY <1>1, <1>2 DEF PublishInv, SuccessIsPublished, worldVars
  <2>. QED  BY <1>2, <2>1, <2>2, <2>3, <2>4, AtTheBeginning
<1>5. CASE \/ step' = [step EXCEPT !.pc = "paused"]
           \/ step' = [step EXCEPT !.pc = "rollback"]
  <2>1. DOMAIN step' = StepFields /\ step'.at = step.at /\ step'.pc \in {"paused", "rollback"}
    BY <1>3, <1>5 DEF StepFields
  <2>2. repo' \in CopyType /\ found' \in FoundType
    BY <1>1, <1>2 DEF StepType, worldVars
  <2>. QED  BY <1>2, <1>3, <2>1, <2>2, NotAtAStep DEF worldVars
<1>. QED  BY <1>4, <1>5 DEF HealingAnswered

LEMMA ResetIs ==
    ASSUME StepType, Len(HeadOf(repo)) > 1, NEW hard \in BOOLEAN
    PROVE  LET dropped == Last(HeadOf(repo)).files
               r == Reset(repo, hard)
           IN  /\ r \in CopyType
               /\ r.on = repo.on
               /\ HeadOf(r) = Front(HeadOf(repo))
               /\ ~hard => r.changes = repo.changes \cup dropped
<1>. DEFINE h == HeadOf(repo)
            dropped == Last(h).files
            i == IF hard THEN {} ELSE repo.index \cup dropped
            c == IF hard THEN repo.changes \ (repo.index \cup FilesIn(h)) ELSE repo.changes \cup dropped
            r == Reset(repo, hard)
<1>1. h \in Seq(Commit) /\ Len(h) > 1 /\ h = repo.tip[repo.on]
  BY CopyFacts DEF HeadOf
<1>2. Last(h) \in Commit /\ Front(h) \in Seq(Commit)
  BY <1>1 DEF Last, Front
<1>3. dropped \subseteq Paths
  BY <1>2 DEF Commit
<1>4. i \subseteq Paths /\ c \subseteq Paths
  BY <1>3, CopyFacts
<1>5. r = [repo EXCEPT !.tip[repo.on] = Front(repo.tip[repo.on]), !.index = i, !.changes = c]
  BY DEF Reset
<1>6. DOMAIN repo = {"changes", "index", "on", "tip"} /\ DOMAIN repo.tip = {"main", Branch}
  BY CopyFacts
<1>. HIDE DEF i, c, r, h, dropped
<1>7. r.on = repo.on
  BY <1>5, <1>6
<1>8. r.index = i
  BY <1>5, <1>6
<1>9. r.changes = c
  BY <1>5, <1>6
<1>10. r.tip = [repo.tip EXCEPT ![repo.on] = Front(repo.tip[repo.on])]
  BY <1>5, <1>6
<1>11. r.tip \in [{"main", Branch} -> Seq(Commit)] /\ r.tip[r.on] = Front(h)
  BY <1>1, <1>2, <1>7, <1>10, CopyFacts
<1>12. r \in CopyType
  BY <1>4, <1>5, <1>7, <1>8, <1>9, <1>11, CopyFacts DEF CopyType
<1>13. HeadOf(r) = Front(h)
  BY <1>11 DEF HeadOf
<1>14. ~hard => r.changes = repo.changes \cup dropped
  BY <1>9 DEF c
<1>. QED  BY <1>7, <1>12, <1>13, <1>14 DEF r, h, dropped

LEMMA RollBackStepStep ==
    ASSUME StepInv, RollBackStep
    PROVE  StepInv'
<1>1. StepType
  BY DEF StepInv
<1>2. /\ step' = [step EXCEPT !.pc = "failed"]
      /\ Task.undo \in {"soft", "hard"} => Len(HeadOf(repo)) > 1
      /\ repo' = Undo(Task.undo)
      /\ UNCHANGED <<commits, remote, pullRequest, plan, owed, found>>
  BY DEF RollBackStep
<1>3. DOMAIN step = StepFields /\ step.at \in DOMAIN plan
  BY <1>1 DEF StepType
<1>4. DOMAIN step' = StepFields /\ step'.at = step.at /\ step'.pc = "failed"
  BY <1>2, <1>3 DEF StepFields
<1>5. repo' \in CopyType
  <2>1. CASE Task.undo = "rm"
    <3>1. Task.path \in Paths
      <4>1. Task \in FsTask
        BY <1>1, <2>1, TaskFacts DEF TerminalTask, GithubTask
      <4>. QED  BY <4>1 DEF FsTask
    <3>. DEFINE c == IF Task.path \in FilesIn(HeadOf(repo))
                     THEN repo.changes \cup {Task.path} ELSE repo.changes \ {Task.path}
    <3>2. repo' = [repo EXCEPT !.changes = c]
      BY <1>2, <2>1 DEF Undo, Removed
    <3>3. c \subseteq Paths
      BY <1>1, <3>1, CopyFacts
    <3>. HIDE DEF c
    <3>. QED  BY <1>1, <3>2, <3>3 DEF StepType, CopyType
  <2>2. CASE Task.undo \in {"soft", "hard"}
    <3>1. repo' = Reset(repo, Task.undo = "hard")
      BY <1>2, <2>2 DEF Undo
    <3>2. (Task.undo = "hard") \in BOOLEAN
      OBVIOUS
    <3>. QED  BY <1>1, <1>2, <2>2, <3>1, <3>2, ResetIs
  <2>3. CASE Task.undo \notin {"rm", "soft", "hard"}
    <3>1. repo' = repo
      BY <1>2, <2>3 DEF Undo
    <3>. QED  BY <1>1, <3>1 DEF StepType
  <2>. QED  BY <2>1, <2>2, <2>3
<1>. QED  BY <1>1, <1>2, <1>3, <1>4, <1>5, NotAtAStep DEF StepType

LEMMA OthersStep ==
    ASSUME StepInv, OthersEdit \/ OthersSwitch
    PROVE  StepInv'
<1>1. StepType /\ TodoInv /\ PublishInv
  BY DEF StepInv
<1>2. PICK what \in {"edit", "switch"} :
        /\ found' = [found EXCEPT !.others = found.others \cup {what}]
        /\ UNCHANGED <<commits, remote, pullRequest, plan, step, owed>>
        /\ OthersSwitch => what = "switch"
        /\ ~OthersSwitch => OthersEdit
  <2>1. CASE OthersSwitch
    BY <2>1 DEF OthersSwitch, Others
  <2>2. CASE ~OthersSwitch
    BY <2>2 DEF OthersEdit, Others
  <2>. QED  BY <2>1, <2>2
<1>3. /\ DOMAIN found = {"tip", "changes", "commits", "others"} /\ found \in FoundType
  BY <1>1 DEF StepType, FoundType
<1>4. /\ found' \in FoundType /\ found'.changes = found.changes
      /\ found'.others = found.others \cup {what}
  <2>1. found'.changes = found.changes
    BY <1>2, <1>3
  <2>2. found'.others = found.others \cup {what}
    BY <1>2, <1>3
  <2>3. found' \in FoundType
    BY <1>2, <1>3 DEF FoundType
  <2>. QED  BY <2>1, <2>2, <2>3
<1>5. TodoInv' /\ Target' = Target /\ Task' = Task /\ (Proposing' => Proposing)
      /\ SuccessIsPublished'
  BY <1>1, <1>2, <1>4 DEF TodoInv, Target, Task, Proposing, PublishInv, SuccessIsPublished
<1>6. CASE OthersEdit
  <2>1. PICK f \in OthersPaths : repo' = [repo EXCEPT !.changes = repo.changes \cup {f}]
    BY <1>6 DEF OthersEdit
  <2>2. f \in Paths
    BY StepAssumption
  <2>3. repo' \in CopyType
    BY <1>1, <2>1, <2>2 DEF StepType, CopyType
  <2>4. /\ repo'.changes = repo.changes \cup {f}
        /\ repo'.index = repo.index /\ repo'.on = repo.on /\ repo'.tip = repo.tip
    BY <1>1, <2>1, CopyFacts
  <2>5. StepType'
    BY <1>1, <1>2, <1>4, <2>3 DEF StepType
  <2>6. HeadOf(repo') = HeadOf(repo)
    BY <2>4 DEF HeadOf
  <2>7. PublishInv'
    BY <1>1, <1>2, <1>5, <2>4, <2>6 DEF PublishInv, Carried
  <2>. QED  BY <1>5, <2>5, <2>7 DEF StepInv
<1>7. CASE OthersSwitch
  <2>1. repo' = [repo EXCEPT !.on = "main"]
    BY <1>7 DEF OthersSwitch
  <2>2. repo' \in CopyType
    BY <1>1, <2>1 DEF StepType, CopyType
  <2>3. StepType'
    BY <1>1, <1>2, <1>4, <2>2 DEF StepType
  <2>4. ~Proposing'
    BY <1>2, <1>4, <1>7 DEF Proposing
  <2>. QED  BY <1>5, <2>3, <2>4 DEF StepInv, PublishInv
<1>. QED  BY <1>6, <1>7

LEMMA StepStuttering ==
    ASSUME StepInv, UNCHANGED stepVars
    PROVE  StepInv'
<1>1. StepType'
  BY DEF StepInv, StepType, stepVars, worldVars
<1>2. Task' = Task /\ Target' = Target
  BY DEF stepVars, worldVars, Task, Target
<1>3. TodoInv'
  BY <1>2 DEF StepInv, TodoInv, stepVars, worldVars
<1>4. PublishInv'
  BY <1>2 DEF StepInv, PublishInv, SuccessIsPublished, Proposing, Carried, stepVars, worldVars
<1>. QED  BY <1>1, <1>3, <1>4 DEF StepInv

LEMMA NextStepInv == StepInv /\ [StepNext]_<<stepVars, healVars>> => StepInv'
<1>. SUFFICES ASSUME StepInv, [StepNext]_<<stepVars, healVars>> PROVE StepInv'
  OBVIOUS
<1>1. CASE UNCHANGED <<stepVars, healVars>>
  BY <1>1, StepStuttering
<1>2. CASE StartRun \/ ApproveStep \/ BeginStep
  BY <1>2, StartStep
<1>3. CASE StageSucceeds
  BY <1>3, StageSucceedsStep
<1>4. CASE \E m \in Messages : StageFails(m)
  BY <1>4, StageFailsStep
<1>5. CASE StepSucceeded
  BY <1>5, StepSucceededStep
<1>6. CASE VerificationFails
  BY <1>6, VerificationFailsStep
<1>7. CASE HealStep
  BY <1>7, HealStepStep
<1>8. CASE HealingAnswered
  BY <1>8, HealingAnsweredStep
<1>9. CASE RollBackStep
  BY <1>9, RollBackStepStep
<1>10. CASE ExecutorDies
  <2>1. DOMAIN step' = StepFields /\ step'.at = step.at /\ step'.pc = "idle"
    BY <1>10 DEF ExecutorDies, At, StepFields
  <2>2. UNCHANGED <<commits, remote, pullRequest, plan, owed, repo, found>>
    BY <1>10 DEF ExecutorDies, worldVars
  <2>3. repo \in CopyType /\ found \in FoundType /\ step.at \in DOMAIN plan
    BY DEF StepInv, StepType
  <2>. QED  BY <2>1, <2>2, <2>3, NotAtAStep
<1>11. CASE OthersEdit \/ OthersSwitch
  BY <1>11, OthersStep
<1>12. ASSUME NEW h \in Healers,
              HealCommand(h) \/ (HealingContinues(h) /\ UNCHANGED stepVars)
                \/ (HealingDies(h) /\ UNCHANGED stepVars)
       PROVE  StepInv'
  <2>1. UNCHANGED stepVars
    BY <1>12 DEF HealCommand
  <2>. QED  BY <2>1, StepStuttering
<1>. QED  BY <1>1, <1>2, <1>3, <1>4, <1>5, <1>6, <1>7, <1>8, <1>9, <1>10, <1>11, <1>12 DEF StepNext

\* What a step that succeeded had to publish is on the branch at the remote,
\* and a pull request is open, however attempts, healing, verification and
\* other uses of the copy went in between (githubAdapter.execute and verify,
\* executeTask).
THEOREM PublishedOnSuccess == StepSpec => []SuccessIsPublished
<1>1. StepInv => SuccessIsPublished
  BY DEF StepInv, PublishInv
<1>. QED  BY InitStepInv, NextStepInv, <1>1, PTL DEF StepSpec

-----------------------------------------------------------------------------
(* Undoing a commit.  While only the executor uses the copy, the branch is  *)
(* where the step found it or one commit ahead of that; once there is the   *)
(* commit, nothing is left that an attempt could stage, so that a second    *)
(* one cannot be made.                                                      *)

Undoing ==
    /\ step.pc \in {"execute", "heal", "healing", "rollback"}
    /\ Task.undo \in {"soft", "hard"}
    /\ found.others = {}

Undoable ==
    /\ found.commits = 0 => HeadOf(repo) = found.tip /\ found.changes \subseteq repo.changes
    /\ found.commits > 0 =>
         /\ HeadOf(repo) # <<>> /\ Front(HeadOf(repo)) = found.tip
         /\ found.changes \subseteq repo.changes \cup Last(HeadOf(repo)).files
         /\ repo.index = {} /\ ToAdd(Task) = {}

\* What the task stages is staged before the commit.
Staged ==
    step.todo # <<>> /\ Head(step.todo) \in {"status", "diff", "commit"} => ToAdd(Task) \subseteq repo.index

UndoInv ==
    /\ RollbackRestoresBranch
    /\ Undoing => Undoable
    /\ Undoing /\ step.pc = "execute" /\ Task.action \in {"commit", "commit-and-pr"} => Staged

\* Which stage comes before which.
LEMMA StageBefore ==
    ASSUME StepType, TodoInv, step.pc = "execute", step.todo # <<>>,
           Task.action \in {"commit", "commit-and-pr"},
           AfterStage # <<>>, Head(AfterStage) \in {"status", "diff", "commit"}
    PROVE  Stage \in {"add", "status", "diff"}
<1>0. step.todo \in Todos(Task) /\ Task.adapter = "github"
  BY TaskActions DEF TodoInv
<1>a. AfterStage \in {Tail(step.todo), SubSeq(step.todo, 4, Len(step.todo))}
      /\ (Stage # "status" => AfterStage = Tail(step.todo))
  BY DEF AfterStage
<1>1. CASE Task.action = "commit"
  <2>1. step.todo \in CommitTodos \ {<< >>}
    BY <1>0, <1>1 DEF Todos
  <2>2. CASE step.todo = << "commit" >>
    BY <2>2, <1>a, CommitTodoHeads DEF Stage
  <2>3. CASE step.todo = << "diff", "commit" >>
    BY <2>3, CommitTodoHeads DEF Stage
  <2>4. CASE step.todo = << "status", "diff", "commit" >>
    BY <2>4, CommitTodoHeads DEF Stage
  <2>5. CASE step.todo = << "add", "status", "diff", "commit" >>
    BY <2>5, CommitTodoHeads DEF Stage
  <2>6. CASE step.todo = << "checkout", "add", "status", "diff", "commit" >>
    BY <2>6, <1>a, CommitTodoHeads DEF Stage
  <2>. QED  BY <2>1, <2>2, <2>3, <2>4, <2>5, <2>6 DEF CommitTodos
<1>2. CASE Task.action = "commit-and-pr"
  <2>1. step.todo \in {Todo1, Todo2, Todo3, Todo4, Todo5, Todo6, Todo7}
    <3>1. Todos(Task) = ProposeTodos
      BY <1>0, <1>2 DEF Todos
    <3>. QED  BY <1>0, <3>1 DEF ProposeTodos, Todo8
  <2>2. CASE step.todo \in {Todo2, Todo3, Todo4}
    BY <2>2, TodoHeads DEF Stage
  <2>3. CASE step.todo = Todo1
    BY <2>3, <1>a, TodoHeads DEF Stage
  <2>4. CASE step.todo = Todo5
    BY <2>4, <1>a, TodoHeads DEF Stage
  <2>5. CASE step.todo = Todo6
    BY <2>5, <1>a, TodoHeads DEF Stage
  <2>6. CASE step.todo = Todo7
    BY <2>6, <1>a, TodoHeads DEF Stage, Todo8
  <2>. QED  BY <2>1, <2>2, <2>3, <2>4, <2>5, <2>6
<1>. QED  BY <1>1, <1>2

\* An attempt begins with nothing of this.
LEMMA NotStagedAtFirst ==
    ASSUME StepType, Task.action \in {"commit", "commit-and-pr"}
    PROVE  Head(Stages(Task)) = "checkout"
<1>0. Task.adapter = "github"
  BY TaskActions
<1>1. CASE Task.action = "commit"
  <2>1. Stages(Task) = << "checkout", "add", "status", "diff", "commit" >>
    BY <1>0, <1>1 DEF Stages, CommitStages
  <2>. QED  BY <2>1, CommitTodoHeads
<1>2. CASE Task.action = "commit-and-pr"
  BY <1>2, FirstTodo, TodoHeads
<1>. QED  BY <1>1, <1>2

\* A command keeps the step undoable, also when it fails after its effect.
LEMMA EffectUndoable ==
    ASSUME StepInv, UndoInv, Undoing, step.pc = "execute", step.todo # <<>>,
           CanSucceed, Effect, Task' = Task
    PROVE  /\ Undoable'
           /\ Stage \in {"add", "status", "diff"} /\ Task.action \in {"commit", "commit-and-pr"} =>
                ToAdd(Task)' \subseteq repo'.index
<1>1. StepType /\ TodoInv /\ Undoable
  BY DEF StepInv, UndoInv
<1>2. /\ found'.tip = found.tip /\ found'.changes = found.changes
      /\ found'.commits = IF Stage = "commit" THEN found.commits + 1 ELSE found.commits
      /\ found.commits \in Nat
  BY <1>1, EffectElsewhere DEF StepType, FoundType
<1>3. CASE Stage = "checkout"
  <2>1. /\ repo'.changes = repo.changes /\ repo'.index = repo.index
        /\ HeadOf(repo') = HeadOf(repo)
    BY <1>1, <1>3, CheckoutEffect
  <2>2. ToAdd(Task)' = ToAdd(Task)
    BY <2>1 DEF ToAdd
  <2>. QED  BY <1>1, <1>2, <1>3, <2>1, <2>2 DEF Undoable
<1>4. CASE Stage = "add"
  <2>1. /\ repo'.changes = repo.changes /\ repo'.index = repo.index \cup ToAdd(Task)
        /\ HeadOf(repo') = HeadOf(repo)
    BY <1>1, <1>4, AddEffect DEF HeadOf
  <2>2. ToAdd(Task)' = ToAdd(Task)
    BY <2>1 DEF ToAdd
  <2>. QED  BY <1>1, <1>2, <1>4, <2>1, <2>2 DEF Undoable
<1>5. CASE Stage = "commit"
  <2>. DEFINE c == [id |-> commits + 1, files |-> repo.index]
  <2>1. /\ repo'.changes = repo.changes \ repo.index /\ repo'.index = {}
        /\ HeadOf(repo') = Append(HeadOf(repo), c)
    BY <1>1, <1>5, CommitEffect
  <2>2. c \in Commit /\ c.files = repo.index
    BY <1>1, CopyFacts DEF Commit, StepType
  <2>. HIDE DEF c
  <2>3. /\ HeadOf(repo') # <<>> /\ Front(HeadOf(repo')) = HeadOf(repo)
        /\ Last(HeadOf(repo')) = c
    BY <1>1, <2>1, <2>2, CopyFacts, AppendTells
  <2>4. repo.index # {}
    BY <1>5 DEF CanSucceed
  <2>5. found.commits = 0
    BY <1>1, <1>2, <2>4 DEF Undoable
  <2>6. Task.action \in {"commit", "commit-and-pr"}
    <3>1. Task.action \notin {"commit", "commit-and-pr"} => Stage = Task.action \/ Stage = "diff"
      BY <1>1, NextTodo
    <3>. QED  BY <1>5, <3>1
  <2>7. ToAdd(Task) \subseteq repo.index
    BY <1>5, <2>6 DEF UndoInv, Staged, Stage
  <2>8. ToAdd(Task)' = {}
    BY <2>1, <2>7 DEF ToAdd
  <2>9. found'.commits > 0 /\ found'.commits # 0
    BY <1>2, <1>5
  <2>10. Front(HeadOf(repo')) = found'.tip
    BY <1>1, <1>2, <2>3, <2>5 DEF Undoable
  <2>11. found'.changes \subseteq repo'.changes \cup Last(HeadOf(repo')).files
    BY <1>1, <1>2, <2>1, <2>2, <2>3, <2>5 DEF Undoable
  <2>. QED  BY <1>5, <2>1, <2>3, <2>8, <2>9, <2>10, <2>11 DEF Undoable
<1>6. CASE Stage \notin {"checkout", "add", "commit"}
  <2>1. Stage # "write"
    BY <1>1, NextTodo, TaskFacts DEF Undoing
  <2>2. repo' = repo
    BY <1>6, <2>1, NoEffectOnCopy
  <2>3. ToAdd(Task)' = ToAdd(Task)
    BY <2>2 DEF ToAdd
  <2>4. Undoable'
    BY <1>1, <1>2, <1>6, <2>2, <2>3 DEF Undoable
  <2>5. Stage \in {"status", "diff"} /\ Task.action \in {"commit", "commit-and-pr"} => Staged
    BY DEF UndoInv
  <2>. QED  BY <1>6, <2>2, <2>3, <2>4, <2>5 DEF Staged, Stage
<1>. QED  BY <1>3, <1>4, <1>5, <1>6

-----------------------------------------------------------------------------

LEMMA InitUndoInv == StepInit => UndoInv
<1>. SUFFICES ASSUME StepInit PROVE UndoInv
  OBVIOUS
<1>1. step.pc = "idle"
  BY DEF StepInit, At
<1>. QED  BY <1>1 DEF UndoInv, RollbackRestoresBranch, Undoing

\* The executor is not at a step, or leaves it, and nothing was rolled back.
LEMMA NothingToUndo ==
    ASSUME step'.pc \notin {"execute", "heal", "healing", "rollback", "failed"}
    PROVE  UndoInv'
BY DEF UndoInv, RollbackRestoresBranch, Undoing

\* The executor is at a step; if it attempts it, at the beginning.
LEMMA UndoableAtTheBeginning ==
    ASSUME StepInv, plan' = plan, step'.at = step.at,
           step'.pc \in {"execute", "heal", "healing", "rollback"},
           step'.pc = "execute" => step'.todo = Stages(Task),
           Undoing' => Undoable'
    PROVE  UndoInv'
<1>1. Task' = Task
  BY DEF Task
<1>2. step'.pc = "execute" /\ Task.action \in {"commit", "commit-and-pr"} => Staged'
  BY NotStagedAtFirst DEF StepInv, Staged
<1>. QED  BY <1>1, <1>2 DEF UndoInv, RollbackRestoresBranch

LEMMA StartUndoable ==
    ASSUME StepInv, UndoInv, StartRun \/ ApproveStep \/ BeginStep
    PROVE  UndoInv'
<1>1. StepType
  BY DEF StepInv
<1>2. DOMAIN step = StepFields
  BY <1>1 DEF StepType
<1>3. CASE StartRun \/ ApproveStep
  <2>1. step' = [step EXCEPT !.pc = "gate"]
    BY <1>3 DEF StartRun, ApproveStep
  <2>2. step'.pc = "gate"
    BY <1>2, <2>1 DEF StepFields
  <2>. QED  BY <2>2, NothingToUndo
<1>4. CASE BeginStep /\ PolicyForbids(Task)
  <2>1. plan' = plan /\ step' = [step EXCEPT !.pc = "failed"]
    BY <1>4 DEF BeginStep
  <2>2. step'.at = step.at /\ step'.pc = "failed"
    BY <1>2, <2>1 DEF StepFields
  <2>3. Task' = Task
    BY <2>1, <2>2 DEF Task
  <2>4. Task.undo \notin {"soft", "hard"}
    BY <1>1, <1>4, TaskFacts DEF PolicyForbids
  <2>. QED  BY <2>2, <2>3, <2>4 DEF UndoInv, RollbackRestoresBranch, Undoing
<1>5. CASE BeginStep /\ ~PolicyForbids(Task) /\ step' = [step EXCEPT !.pc = "paused"]
  <2>1. step'.pc = "paused"
    BY <1>2, <1>5 DEF StepFields
  <2>. QED  BY <2>1, NothingToUndo
<1>6. CASE BeginStep /\ ~PolicyForbids(Task) /\ step' # [step EXCEPT !.pc = "paused"]
  <2>1. Attempt(plan[step.at].maxAttempts) /\ found' = Finds /\ plan' = plan /\ repo' = repo
    BY <1>6 DEF BeginStep, worldVars
  <2>2. /\ step'.at = step.at
        /\ step'.pc = "execute" /\ step'.todo = Stages(Task)
    BY <1>1, <2>1, AttemptIs
  <2>3. found'.tip = HeadOf(repo) /\ found'.changes = repo.changes /\ found'.commits = 0
    BY <2>1 DEF Finds
  <2>4. Undoable'
    BY <2>1, <2>3 DEF Undoable
  <2>. QED  BY <2>1, <2>2, <2>4, UndoableAtTheBeginning
<1>. QED  BY <1>3, <1>4, <1>5, <1>6

LEMMA StageSucceedsUndoable ==
    ASSUME StepInv, UndoInv, StageSucceeds
    PROVE  UndoInv'
<1>1. StepType /\ TodoInv
  BY DEF StepInv
<1>2. /\ step.pc = "execute" /\ step.todo # <<>> /\ CanSucceed /\ Effect
      /\ step' = [step EXCEPT !.todo = AfterStage]
      /\ plan' = plan
  BY DEF StageSucceeds
<1>3. DOMAIN step = StepFields
  BY <1>1 DEF StepType
<1>4. step'.at = step.at /\ step'.pc = "execute"
  BY <1>2, <1>3 DEF StepFields
<1>5. step'.todo = AfterStage
  BY <1>2, <1>3 DEF StepFields
<1>6. Task' = Task
  BY <1>2, <1>4 DEF Task
<1>7. Undoing' => Undoing
  <2>1. found'.others = found.others
    BY <1>1, <1>2, EffectElsewhere
  <2>. QED  BY <1>2, <1>6, <2>1 DEF Undoing
<1>8. Undoing' => Undoable'
  BY <1>2, <1>6, <1>7, EffectUndoable
<1>9. Undoing' /\ Task.action \in {"commit", "commit-and-pr"} => Staged'
  <2>. SUFFICES ASSUME Undoing, Task.action \in {"commit", "commit-and-pr"},
                       AfterStage # <<>>, Head(AfterStage) \in {"status", "diff", "commit"}
                PROVE  ToAdd(Task)' \subseteq repo'.index
    BY <1>5, <1>7 DEF Staged
  <2>1. Stage \in {"add", "status", "diff"}
    BY <1>1, <1>2, StageBefore
  <2>. QED  BY <1>2, <1>6, <2>1, EffectUndoable
<1>. QED  BY <1>4, <1>6, <1>8, <1>9 DEF UndoInv, RollbackRestoresBranch

LEMMA StageFailsUndoable ==
    ASSUME StepInv, UndoInv, NEW m \in Messages, StageFails(m)
    PROVE  UndoInv'
<1>1. StepType
  BY DEF StepInv
<1>2. /\ step.pc = "execute" /\ step.todo # <<>>
      /\ UNCHANGED <<worldVars, found>> \/ (CanSucceed /\ Effect)
      /\ plan' = plan
  BY DEF StageFails
<1>3. /\ step'.at = step.at /\ step'.pc \in {"execute", "heal"}
      /\ step'.pc = "execute" => step'.todo = Stages(Task)
  BY <1>1, AttemptFailedIs DEF StageFails
<1>4. Task' = Task
  BY <1>2, <1>3 DEF Task
<1>5. Undoing' => Undoing
  <2>1. found'.others = found.others
    BY <1>1, <1>2, EffectElsewhere
  <2>. QED  BY <1>2, <1>4, <2>1 DEF Undoing
<1>6. Undoing' => Undoable'
  <2>1. CASE UNCHANGED <<worldVars, found>>
    BY <1>4, <1>5, <2>1 DEF UndoInv, Undoable, ToAdd, worldVars
  <2>2. CASE CanSucceed /\ Effect
    BY <1>2, <1>4, <1>5, <2>2, EffectUndoable
  <2>. QED  BY <1>2, <2>1, <2>2
<1>. QED  BY <1>2, <1>3, <1>6, UndoableAtTheBeginning

\* The executor goes on with the same step, the copy as it was.
LEMMA GoesOnUndoable ==
    ASSUME StepInv, UndoInv, UNCHANGED <<repo, found, plan>>, step'.at = step.at,
           step.pc \in {"execute", "heal", "healing"},
           step'.pc \in {"execute", "heal", "healing", "rollback"},
           step'.pc = "execute" => step'.todo = Stages(Task)
    PROVE  UndoInv'
<1>1. Task' = Task
  BY DEF Task
<1>2. Undoing' => Undoable'
  BY <1>1 DEF UndoInv, Undoing, Undoable, ToAdd
<1>. QED  BY <1>2, UndoableAtTheBeginning

LEMMA HealingUndoable ==
    ASSUME StepInv, UndoInv, VerificationFails \/ HealStep \/ HealingAnswered
    PROVE  UndoInv'
<1>1. StepType
  BY DEF StepInv
<1>2. DOMAIN step = StepFields
  BY <1>1 DEF StepType
<1>3. UNCHANGED <<repo, found, plan>> /\ step.pc \in {"execute", "heal", "healing"}
  BY DEF VerificationFails, HealStep, HealingAnswered, worldVars
<1>4. CASE VerificationFails
  <2>1. /\ step'.at = step.at /\ step'.pc \in {"execute", "heal"}
        /\ step'.pc = "execute" => step'.todo = Stages(Task)
    BY <1>1, <1>4, AttemptFailedIs DEF VerificationFails
  <2>. QED  BY <1>3, <2>1, GoesOnUndoable
<1>5. CASE HealStep
  <2>1. step'.at = step.at /\ step'.pc = "healing"
    BY <1>5 DEF HealStep, At
  <2>. QED  BY <1>3, <2>1, GoesOnUndoable
<1>6. CASE HealingAnswered
  <2>1. CASE Attempt(1)
    <3>1. step'.at = step.at /\ step'.pc = "execute" /\ step'.todo = Stages(Task)
      BY <1>1, <2>1, AttemptIs
    <3>. QED  BY <1>3, <3>1, GoesOnUndoable
  <2>2. CASE step' = [step EXCEPT !.pc = "paused"]
    <3>1. step'.pc = "paused"
      BY <1>2, <2>2 DEF StepFields
    <3>. QED  BY <3>1, NothingToUndo
  <2>3. CASE step' = [step EXCEPT !.pc = "rollback"]
    <3>1. step'.pc = "rollback" /\ step'.at = step.at
      BY <1>2, <2>3 DEF StepFields
    <3>. QED  BY <1>3, <3>1, GoesOnUndoable
  <2>. QED  BY <1>6, <2>1, <2>2, <2>3 DEF HealingAnswered
<1>. QED  BY <1>4, <1>5, <1>6

LEMMA RollBackRestores ==
    ASSUME StepInv, UndoInv, RollBackStep
    PROVE  UndoInv'
<1>1. StepType
  BY DEF StepInv
<1>2. /\ step.pc = "rollback" /\ step' = [step EXCEPT !.pc = "failed"]
      /\ Task.undo \in {"soft", "hard"} => Len(HeadOf(repo)) > 1
      /\ repo' = Undo(Task.undo)
      /\ plan' = plan /\ found' = found
  BY DEF RollBackStep
<1>3. step'.at = step.at /\ step'.pc = "failed"
  BY <1>1, <1>2 DEF StepFields, StepType
<1>4. Task' = Task
  BY <1>2, <1>3 DEF Task
<1>5. RollbackRestoresBranch'
  <2>. SUFFICES ASSUME Task.undo \in {"soft", "hard"}, found.commits > 0, found.others = {}
                PROVE  /\ HeadOf(repo') = found.tip
                       /\ Task.undo = "soft" => found.changes \subseteq repo'.changes
    BY <1>2, <1>4 DEF RollbackRestoresBranch
  <2>1. Undoable
    BY <1>2 DEF UndoInv, Undoing
  <2>2. repo' = Reset(repo, Task.undo = "hard") /\ (Task.undo = "hard") \in BOOLEAN
    BY <1>2 DEF Undo
  <2>3. /\ HeadOf(repo') = Front(HeadOf(repo))
        /\ Task.undo = "soft" => repo'.changes = repo.changes \cup Last(HeadOf(repo)).files
    BY <1>1, <1>2, <2>2, ResetIs
  <2>. QED  BY <2>1, <2>3 DEF Undoable
<1>. QED  BY <1>3, <1>5 DEF UndoInv, Undoing

LEMMA OthersUndoable ==
    ASSUME StepInv, UndoInv, OthersEdit \/ OthersSwitch
    PROVE  UndoInv'
<1>1. PICK what \in {"edit", "switch"} : found' = [found EXCEPT !.others = found.others \cup {what}]
  BY DEF OthersEdit, OthersSwitch, Others
<1>2. DOMAIN found = {"tip", "changes", "commits", "others"}
  BY DEF StepInv, StepType, FoundType
<1>3. found'.others # {}
  BY <1>1, <1>2
<1>. QED  BY <1>3 DEF UndoInv, RollbackRestoresBranch, Undoing

LEMMA StutteringUndoable ==
    ASSUME UndoInv, UNCHANGED stepVars
    PROVE  UndoInv'
<1>1. Task' = Task
  BY DEF stepVars, worldVars, Task
<1>2. (Undoing' <=> Undoing) /\ (Undoable' <=> Undoable) /\ (Staged' <=> Staged)
  BY <1>1 DEF Undoing, Undoable, Staged, ToAdd, stepVars, worldVars
<1>3. RollbackRestoresBranch'
  BY <1>1 DEF UndoInv, RollbackRestoresBranch, stepVars, worldVars
<1>. QED  BY <1>1, <1>2, <1>3 DEF UndoInv, stepVars

LEMMA NextUndoInv == StepInv /\ UndoInv /\ [StepNext]_<<stepVars, healVars>> => UndoInv'
<1>. SUFFICES ASSUME StepInv, UndoInv, [StepNext]_<<stepVars, healVars>> PROVE UndoInv'
  OBVIOUS
<1>1. CASE UNCHANGED <<stepVars, healVars>>
  BY <1>1, StutteringUndoable
<1>2. CASE StartRun \/ ApproveStep \/ BeginStep
  BY <1>2, StartUndoable
<1>3. CASE StageSucceeds
  BY <1>3, StageSucceedsUndoable
<1>4. CASE \E m \in Messages : StageFails(m)
  BY <1>4, StageFailsUndoable
<1>5. CASE StepSucceeded
  <2>1. step'.pc \in {"completed", "gate"}
    BY <1>5 DEF StepSucceeded, At
  <2>. QED  BY <2>1, NothingToUndo
<1>6. CASE VerificationFails \/ HealStep \/ HealingAnswered
  BY <1>6, HealingUndoable
<1>7. CASE RollBackStep
  BY <1>7, RollBackRestores
<1>8. CASE ExecutorDies
  <2>1. step'.pc = "idle"
    BY <1>8 DEF ExecutorDies, At
  <2>. QED  BY <2>1, NothingToUndo
<1>9. CASE OthersEdit \/ OthersSwitch
  BY <1>9, OthersUndoable
<1>10. ASSUME NEW h \in Healers,
              HealCommand(h) \/ (HealingContinues(h) /\ UNCHANGED stepVars)
                \/ (HealingDies(h) /\ UNCHANGED stepVars)
       PROVE  UndoInv'
  <2>1. UNCHANGED stepVars
    BY <1>10 DEF HealCommand
  <2>. QED  BY <2>1, StutteringUndoable
<1>. QED  BY <1>1, <1>2, <1>3, <1>4, <1>5, <1>6, <1>7, <1>8, <1>9, <1>10 DEF StepNext

\* A step that committed, failed and was rolled back while nobody else used
\* the copy leaves the branch where it found it, and with a soft reset the
\* changes too (executeTask, rollbackTask, githubAdapter).
THEOREM RollbackIsExact == StepSpec => []RollbackRestoresBranch
<1>1. UndoInv => RollbackRestoresBranch
  BY DEF UndoInv
<1>. QED  BY InitStepInv, NextStepInv, InitUndoInv, NextUndoInv, <1>1, PTL DEF StepSpec

-----------------------------------------------------------------------------
(* The healings.  While no call overlaps another there is at most one, the  *)
(* log is as it loaded it, with its own attempt at the end, and the counter *)
(* is at most one ahead of the log, between writing the one and the other.  *)

Statuses == {"planned", "escalated", "awaiting-approval", "verified", "failed"}
AttemptRecord == [id : Nat, status : Statuses]
Repaired == {"verified", "failed"}
MaybeRepaired == {"verified", "failed", "planned"}

CallFields == {"pc", "adapter", "id", "chosen", "status", "stats", "attempts"}

Count(log, statuses) == Cardinality({i \in DOMAIN log : log[i].status \in statuses})
Total(stats) == stats[1] + stats[2] + stats[3] + stats[4] + stats[5]

CallType(c) ==
    /\ DOMAIN c = CallFields
    /\ c.pc \in {"save", "repair", "read", "count", "close"}
    /\ c.id \in Nat /\ c.status \in Statuses
    /\ c.attempts \in Seq(AttemptRecord) /\ c.attempts # <<>>
    /\ c.pc = "close" => c.status # "planned"
    /\ c.pc \in {"read", "count"} => c.status \in Repaired
    /\ c.pc = "count" => c.stats \in [1 .. 5 -> Nat]

CallSound(c, log, stats) ==
    /\ Last(c.attempts).status = "planned"
    /\ c.pc = "save" => Front(c.attempts) = log
    /\ c.pc # "save" => c.attempts = log
    /\ c.pc = "count" => c.stats = stats
    /\ c.pc \in {"repair", "read", "count"} \/ (c.pc = "close" /\ c.status \notin Repaired) =>
         Total(stats) <= Count(Front(c.attempts), MaybeRepaired)
    /\ c.pc = "close" /\ c.status \in Repaired => Count(log, Repaired) + 1 <= Total(stats)

HealType ==
    /\ healLog \in Seq(AttemptRecord)
    /\ healStats \in [1 .. 5 -> Nat]
    /\ healings \in Nat /\ healOverlap \in BOOLEAN
    /\ DOMAIN healing = Healers
    /\ healed \subseteq [id : Nat, status : Statuses \ {"planned"}]
    /\ \A h \in Healers : Underway(h) => CallType(healing[h])

Told(outcomes, log) == \A o \in outcomes : \E i \in DOMAIN log : log[i] = o

Balanced(log, stats) ==
    Count(log, Repaired) <= Total(stats) /\ Total(stats) <= Count(log, MaybeRepaired)

HealInv ==
    /\ HealType
    /\ ~healOverlap =>
         /\ \A g, h \in Healers : Underway(g) /\ Underway(h) => g = h
         /\ Told(healed, healLog)
         /\ Balanced(healLog, healStats)
         /\ \A h \in Healers : Underway(h) => CallSound(healing[h], healLog, healStats)

LEMMA CountIs ==
    ASSUME NEW log \in Seq(AttemptRecord), NEW S
    PROVE  Count(log, S) \in Nat /\ IsFiniteSet({i \in DOMAIN log : log[i].status \in S})
<1>1. IsFiniteSet(1 .. Len(log))
  BY FS_Interval
<1>2. {i \in DOMAIN log : log[i].status \in S} \subseteq 1 .. Len(log)
  OBVIOUS
<1>. QED  BY <1>1, <1>2, FS_Subset, FS_CardinalityType DEF Count

LEMMA CountAppend ==
    ASSUME NEW log \in Seq(AttemptRecord), NEW e \in AttemptRecord, NEW S
    PROVE  /\ e.status \in S => Count(Append(log, e), S) = Count(log, S) + 1
           /\ e.status \notin S => Count(Append(log, e), S) = Count(log, S)
<1>. DEFINE g == Append(log, e)
            I == {i \in DOMAIN log : log[i].status \in S}
            J == {i \in DOMAIN g : g[i].status \in S}
<1>1. /\ g \in Seq(AttemptRecord) /\ Len(g) = Len(log) + 1 /\ Len(log) \in Nat
      /\ \A i \in 1 .. Len(log) : g[i] = log[i]
      /\ g[Len(log) + 1] = e
  OBVIOUS
<1>2. DOMAIN g = 1 .. Len(log) + 1 /\ DOMAIN log = 1 .. Len(log)
  BY <1>1
<1>3. IsFiniteSet(I)
  BY CountIs
<1>. HIDE DEF g
<1>4. e.status \in S => J = I \cup {Len(log) + 1}
  BY <1>1, <1>2
<1>5. e.status \notin S => J = I
  BY <1>1, <1>2
<1>6. Len(log) + 1 \notin I
  BY <1>1, <1>2
<1>. HIDE DEF I, J
<1>7. e.status \in S => Cardinality(J) = Cardinality(I) + 1
  BY <1>3, <1>4, <1>6, FS_AddElement
<1>8. Count(log, S) = Cardinality(I) /\ Count(g, S) = Cardinality(J)
  BY DEF Count, I, J
<1>. QED  BY <1>5, <1>7, <1>8 DEF g

LEMMA FrontLast ==
    ASSUME NEW T, NEW log \in Seq(T), log # <<>>
    PROVE  /\ Front(log) \in Seq(T) /\ Last(log) \in T
           /\ log = Append(Front(log), Last(log))
           /\ \A i \in DOMAIN log : (i \in DOMAIN Front(log) /\ Front(log)[i] = log[i]) \/ log[i] = Last(log)
<1>. DEFINE f == Front(log)
            n == Len(log)
<1>1. n \in Nat /\ n > 0 /\ DOMAIN log = 1 .. n
  OBVIOUS
<1>2. f = SubSeq(log, 1, n - 1) /\ Last(log) = log[n]
  BY DEF Front, Last
<1>3. /\ f \in Seq(T) /\ Len(f) = n - 1
      /\ \A i \in 1 .. n - 1 : f[i] = log[i]
  BY <1>1, <1>2
<1>4. log[n] \in T
  BY <1>1
<1>. HIDE DEF f, n
<1>5. DOMAIN f = 1 .. n - 1
  BY <1>1, <1>3
<1>. DEFINE g == Append(f, log[n])
<1>6. /\ g \in Seq(T) /\ Len(g) = n /\ \A i \in 1 .. n - 1 : g[i] = f[i]
      /\ g[n] = log[n]
  BY <1>1, <1>3, <1>4
<1>. HIDE DEF g
<1>7. \A i \in 1 .. n : g[i] = log[i]
  BY <1>1, <1>3, <1>6
<1>8. g = log
  BY <1>1, <1>6, <1>7, SeqEqual DEF n
<1>9. \A i \in DOMAIN log : (i \in DOMAIN f /\ f[i] = log[i]) \/ log[i] = log[n]
  BY <1>1, <1>3, <1>5
<1>. QED  BY <1>2, <1>3, <1>4, <1>8, <1>9 DEF f, g

LEMMA StrategyPositions == DOMAIN HealingStrategyList = 1 .. 5
BY DEF HealingStrategyList

LEMMA InitHealInv == HealingInit => HealInv
<1>. SUFFICES ASSUME HealingInit PROVE HealInv
  OBVIOUS
<1>1. /\ healLog = <<>> /\ healStats = [i \in 1 .. 5 |-> 0]
      /\ healing = [h \in Healers |-> NoHealing]
      /\ healings = 0 /\ healed = {} /\ healOverlap = FALSE
  BY StrategyPositions DEF HealingInit
<1>2. \A h \in Healers : ~Underway(h)
  BY <1>1 DEF Underway, NoHealing
<1>3. healLog \in Seq(AttemptRecord)
  BY <1>1
<1>4. healStats \in [1 .. 5 -> Nat] /\ Total(healStats) = 0
  BY <1>1 DEF Total
<1>5. HealType
  <2>1. healOverlap \in BOOLEAN
    BY <1>1, Zenon
  <2>2. healings \in Nat /\ DOMAIN healing = Healers /\ healed \subseteq [id : Nat, status : Statuses \ {"planned"}]
    BY <1>1
  <2>. QED  BY <1>2, <1>3, <1>4, <2>1, <2>2 DEF HealType
<1>6. \A S : Count(healLog, S) = 0
  <2>. SUFFICES ASSUME NEW S PROVE Count(healLog, S) = 0
    OBVIOUS
  <2>1. {i \in DOMAIN healLog : healLog[i].status \in S} = {}
    BY <1>1
  <2>2. Cardinality({}) = 0
    BY FS_EmptySet
  <2>. QED  BY <2>1, <2>2, Zenon DEF Count
<1>7. Told(healed, healLog) /\ Balanced(healLog, healStats)
  BY <1>1, <1>4, <1>6 DEF Told, Balanced
<1>. QED  BY <1>2, <1>5, <1>7 DEF HealInv

-----------------------------------------------------------------------------

\* A call goes on: what there is to show of the other calls is that there is
\* none that the history has not told of.
LEMMA CallGoesOn ==
    ASSUME HealInv, NEW h \in Healers, NEW c, healing' = [healing EXCEPT ![h] = c],
           healLog' \in Seq(AttemptRecord), healStats' \in [1 .. 5 -> Nat],
           healings' \in Nat, healOverlap' \in BOOLEAN,
           healed' \subseteq [id : Nat, status : Statuses \ {"planned"}],
           c.pc \notin {"none", "returned"} => CallType(c),
           ~healOverlap' =>
             /\ ~healOverlap
             /\ \A g \in Healers \ {h} : ~Underway(g)
             /\ Told(healed', healLog')
             /\ Balanced(healLog', healStats')
             /\ c.pc \notin {"none", "returned"} => CallSound(c, healLog', healStats')
    PROVE  HealInv'
<1>1. DOMAIN healing' = Healers /\ healing'[h] = c /\ \A g \in Healers \ {h} : healing'[g] = healing[g]
  BY DEF HealInv, HealType
<1>2. (Underway(h)' <=> c.pc \notin {"none", "returned"})
      /\ \A g \in Healers \ {h} : Underway(g)' <=> Underway(g)
  BY <1>1 DEF Underway
<1>3. \A g \in Healers : Underway(g)' => CallType(healing'[g])
  BY <1>1, <1>2 DEF HealInv, HealType
<1>4. HealType'
  BY <1>1, <1>3 DEF HealType
<1>5. ~healOverlap' =>
         /\ \A g, k \in Healers : Underway(g)' /\ Underway(k)' => g = k
         /\ \A g \in Healers : Underway(g)' => CallSound(healing'[g], healLog', healStats')
  BY <1>1, <1>2
<1>. QED  BY <1>4, <1>5 DEF HealInv

\* A call that is over, or dies, leaves no trace.
LEMMA CallEnds ==
    ASSUME HealInv, NEW h \in Healers, healing' = [healing EXCEPT ![h] = NoHealing],
           UNCHANGED <<healLog, healStats, healings, healed, healOverlap>>
    PROVE  HealInv'
<1>1. DOMAIN healing' = Healers /\ healing'[h] = NoHealing /\ \A g \in Healers \ {h} : healing'[g] = healing[g]
  BY DEF HealInv, HealType
<1>2. \A g \in Healers : Underway(g)' => Underway(g) /\ healing'[g] = healing[g]
  BY <1>1 DEF Underway, NoHealing
<1>3. HealType'
  BY <1>1, <1>2 DEF HealInv, HealType
<1>. QED  BY <1>2, <1>3 DEF HealInv

LEMMA HealStuttering ==
    ASSUME HealInv, UNCHANGED healVars
    PROVE  HealInv'
<1>1. UNCHANGED <<healMode, healLog, healStats, healing, healings, healed, healOverlap>>
  BY DEF healVars
<1>2. \A g \in Healers : Underway(g)' <=> Underway(g)
  BY <1>1 DEF Underway
<1>. QED  BY <1>1, <1>2 DEF HealInv, HealType

\* A call that may go on is the only one.
LEMMA OnlyCall ==
    ASSUME HealInv, NEW h \in Healers, Underway(h), ~healOverlap
    PROVE  /\ \A g \in Healers \ {h} : ~Underway(g)
           /\ CallSound(healing[h], healLog, healStats)
           /\ Told(healed, healLog) /\ Balanced(healLog, healStats)
BY DEF HealInv

LEMMA BeginHealingStep ==
    ASSUME HealInv, NEW h \in Healers, NEW adapter, NEW message, BeginHealing(h, adapter, message)
    PROVE  HealInv'
<1>. DEFINE e == [id |-> healings + 1, status |-> "planned"]
            c == [pc |-> "save", adapter |-> adapter, id |-> healings + 1,
                  chosen |-> Candidates(Classify(message, adapter), adapter),
                  status |-> "planned", stats |-> <<>>, attempts |-> Append(healLog, e)]
<1>1. /\ healing' = [healing EXCEPT ![h] = c] /\ healings' = healings + 1
      /\ UNCHANGED <<healLog, healStats, healed>> /\ ~Underway(h)
  BY DEF BeginHealing
<1>2. healOverlap' <=> (healOverlap \/ \E g \in Healers : Underway(g))
  BY Zenon DEF BeginHealing
<1>3. /\ healLog \in Seq(AttemptRecord) /\ healStats \in [1 .. 5 -> Nat] /\ healings \in Nat
      /\ healOverlap \in BOOLEAN /\ healed \subseteq [id : Nat, status : Statuses \ {"planned"}]
  BY DEF HealInv, HealType
<1>4. e \in AttemptRecord /\ e.status = "planned"
  BY <1>3 DEF AttemptRecord, Statuses
<1>5. DOMAIN c = CallFields /\ c.pc = "save" /\ c.id \in Nat /\ c.status = "planned"
      /\ c.attempts = Append(healLog, e)
  BY <1>3 DEF CallFields
<1>. HIDE DEF c, e
<1>6. /\ c.attempts \in Seq(AttemptRecord) /\ c.attempts # <<>>
      /\ Front(c.attempts) = healLog /\ Last(c.attempts) = e
  BY <1>3, <1>4, <1>5, AppendTells
<1>7. CallType(c)
  BY <1>5, <1>6 DEF CallType, Statuses
<1>8. CallSound(c, healLog, healStats)
  BY <1>4, <1>5, <1>6 DEF CallSound
<1>9. healOverlap' \in BOOLEAN
  BY Zenon DEF BeginHealing
<1>10. ~healOverlap' => /\ ~healOverlap /\ \A g \in Healers \ {h} : ~Underway(g)
                        /\ Told(healed', healLog') /\ Balanced(healLog', healStats')
                        /\ CallSound(c, healLog', healStats')
  BY <1>1, <1>2, <1>8 DEF HealInv
<1>11. /\ healLog' \in Seq(AttemptRecord) /\ healStats' \in [1 .. 5 -> Nat]
       /\ healings' \in Nat
       /\ healed' \subseteq [id : Nat, status : Statuses \ {"planned"}]
  BY <1>1, <1>3
<1>. QED  BY <1>1, <1>7, <1>9, <1>10, <1>11, CallGoesOn

LEMMA VerdictSet ==
    ASSUME NEW chosen, NEW mode
    PROVE  Verdict(chosen, mode) \in {"escalated", "awaiting-approval", "repair"}
<1>1. CASE chosen = <<>> \/ mode = "observe"
  BY <1>1 DEF Verdict
<1>2. CASE chosen # <<>> /\ mode # "observe" /\ NeedsConsent(Head(chosen), mode)
  BY <1>2 DEF Verdict
<1>3. CASE chosen # <<>> /\ mode # "observe" /\ ~NeedsConsent(Head(chosen), mode)
  BY <1>3 DEF Verdict
<1>. QED  BY <1>1, <1>2, <1>3

\* The log with the attempt of a call at its end.
LEMMA PlannedLast ==
    ASSUME NEW log \in Seq(AttemptRecord), log # <<>>, Last(log).status = "planned"
    PROVE  /\ Front(log) \in Seq(AttemptRecord)
           /\ Count(log, Repaired) = Count(Front(log), Repaired)
           /\ Count(log, MaybeRepaired) = Count(Front(log), MaybeRepaired) + 1
           /\ Count(log, Repaired) \in Nat /\ Count(Front(log), MaybeRepaired) \in Nat
<1>1. /\ Front(log) \in Seq(AttemptRecord) /\ Last(log) \in AttemptRecord
      /\ log = Append(Front(log), Last(log))
  BY FrontLast
<1>2. "planned" \notin Repaired /\ "planned" \in MaybeRepaired
  BY DEF Repaired, MaybeRepaired
<1>3. /\ Count(Append(Front(log), Last(log)), Repaired) = Count(Front(log), Repaired)
      /\ Count(Append(Front(log), Last(log)), MaybeRepaired) = Count(Front(log), MaybeRepaired) + 1
  BY <1>1, <1>2, CountAppend
<1>4. Count(log, Repaired) \in Nat /\ Count(Front(log), MaybeRepaired) \in Nat
  BY <1>1, CountIs
<1>5. Count(log, Repaired) = Count(Front(log), Repaired)
      /\ Count(log, MaybeRepaired) = Count(Front(log), MaybeRepaired) + 1
  BY <1>1, <1>3, Zenon
<1>. QED  BY <1>1, <1>4, <1>5

LEMMA SavePlannedStep ==
    ASSUME HealInv, NEW h \in Healers, SavePlanned(h)
    PROVE  HealInv'
<1>. DEFINE d == healing[h]
            verdict == Verdict(d.chosen, healMode)
            c == IF verdict = "repair" THEN [d EXCEPT !.pc = "repair"]
                 ELSE [d EXCEPT !.pc = "close", !.status = verdict]
<1>1. /\ d.pc = "save" /\ healLog' = d.attempts
      /\ UNCHANGED <<healStats, healings, healed, healOverlap>>
  BY DEF SavePlanned
<1>2. healing' = [healing EXCEPT ![h] = c]
  BY DEF SavePlanned
<1>3. Underway(h)
  BY <1>1 DEF Underway
<1>4. CallType(d) /\ HealType
  BY <1>3 DEF HealInv, HealType
<1>5. verdict \in {"escalated", "awaiting-approval", "repair"}
  BY VerdictSet
<1>6. DOMAIN d = CallFields
  BY <1>4 DEF CallType
<1>. HIDE DEF d, verdict
<1>7. /\ DOMAIN c = CallFields /\ c.attempts = d.attempts /\ c.id = d.id
      /\ \/ c.pc = "repair" /\ c.status = d.status
         \/ c.pc = "close" /\ c.status = verdict /\ verdict # "repair"
  <2>1. CASE verdict = "repair"
    <3>1. c = [d EXCEPT !.pc = "repair"]
      BY <2>1
    <3>. HIDE DEF c
    <3>2. DOMAIN c = CallFields /\ c.attempts = d.attempts /\ c.id = d.id
      BY <1>6, <3>1 DEF CallFields
    <3>3. c.pc = "repair" /\ c.status = d.status
      BY <1>6, <3>1 DEF CallFields
    <3>. QED  BY <3>2, <3>3
  <2>2. CASE verdict # "repair"
    <3>1. c = [d EXCEPT !.pc = "close", !.status = verdict]
      BY <2>2
    <3>. HIDE DEF c
    <3>2. DOMAIN c = CallFields /\ c.attempts = d.attempts /\ c.id = d.id
      BY <1>6, <3>1 DEF CallFields
    <3>3. c.pc = "close"
      BY <1>6, <3>1 DEF CallFields
    <3>4. c.status = verdict
      BY <1>6, <3>1 DEF CallFields
    <3>. QED  BY <2>2, <3>2, <3>3, <3>4
  <2>. QED  BY <2>1, <2>2
<1>. HIDE DEF c
<1>8. CallType(c)
  BY <1>4, <1>5, <1>7 DEF CallType, Statuses
<1>9. ~healOverlap => /\ \A g \in Healers \ {h} : ~Underway(g)
                      /\ Told(healed, d.attempts) /\ Balanced(d.attempts, healStats)
                      /\ CallSound(c, d.attempts, healStats)
  <2>. SUFFICES ASSUME ~healOverlap
                PROVE  /\ \A g \in Healers \ {h} : ~Underway(g)
                       /\ Told(healed, d.attempts) /\ Balanced(d.attempts, healStats)
                       /\ CallSound(c, d.attempts, healStats)
    OBVIOUS
  <2>1. /\ \A g \in Healers \ {h} : ~Underway(g)
        /\ CallSound(d, healLog, healStats)
        /\ Told(healed, healLog) /\ Balanced(healLog, healStats)
    BY <1>3, OnlyCall DEF d
  <2>2. Front(d.attempts) = healLog /\ Last(d.attempts).status = "planned"
        /\ d.attempts \in Seq(AttemptRecord) /\ d.attempts # <<>>
    BY <1>1, <1>4, <2>1 DEF CallSound, CallType
  <2>3. \A i \in DOMAIN healLog : i \in DOMAIN d.attempts /\ d.attempts[i] = healLog[i]
    <3>1. d.attempts = Append(healLog, Last(d.attempts)) /\ Last(d.attempts) \in AttemptRecord
      BY <2>2, FrontLast
    <3>2. healLog \in Seq(AttemptRecord)
      BY <1>4 DEF HealType
    <3>. QED  BY <3>1, <3>2, AppendTells
  <2>4. Told(healed, d.attempts)
    BY <2>1, <2>3 DEF Told
  <2>5. /\ Count(d.attempts, Repaired) = Count(healLog, Repaired)
        /\ Count(d.attempts, MaybeRepaired) = Count(healLog, MaybeRepaired) + 1
        /\ Count(d.attempts, Repaired) \in Nat /\ Count(healLog, MaybeRepaired) \in Nat
    BY <2>2, PlannedLast
  <2>6. Total(healStats) \in Nat
    BY <1>4 DEF HealType, Total
  <2>7. Balanced(d.attempts, healStats)
    BY <2>1, <2>5, <2>6 DEF Balanced
  <2>8. Total(healStats) <= Count(Front(d.attempts), MaybeRepaired)
    BY <2>1, <2>2 DEF Balanced
  <2>9. verdict # "repair" => verdict \notin Repaired
    BY <1>5 DEF Repaired
  <2>10. CallSound(c, d.attempts, healStats)
    BY <1>7, <2>2, <2>8, <2>9 DEF CallSound
  <2>. QED  BY <2>1, <2>4, <2>7, <2>10
<1>10. /\ healLog' \in Seq(AttemptRecord) /\ healStats' \in [1 .. 5 -> Nat]
       /\ healings' \in Nat /\ healOverlap' \in BOOLEAN
       /\ healed' \subseteq [id : Nat, status : Statuses \ {"planned"}]
  BY <1>1, <1>4 DEF HealType, CallType
<1>. QED  BY <1>1, <1>2, <1>8, <1>9, <1>10, CallGoesOn

LEMMA RepairStep ==
    ASSUME HealInv, NEW h \in Healers, Repair(h)
    PROVE  HealInv'
<1>. DEFINE d == healing[h]
<1>1. PICK status \in Repaired : healing' = [healing EXCEPT ![h] = [d EXCEPT !.pc = "read", !.status = status]]
  BY DEF Repair, Revalidated, Repaired
<1>2. d.pc = "repair" /\ UNCHANGED <<healLog, healStats, healings, healed, healOverlap>>
  BY DEF Repair
<1>3. Underway(h)
  BY <1>2 DEF Underway
<1>4. CallType(d) /\ HealType
  BY <1>3 DEF HealInv, HealType
<1>5. DOMAIN d = CallFields
  BY <1>4 DEF CallType
<1>6. ~healOverlap => /\ \A g \in Healers \ {h} : ~Underway(g)
                      /\ CallSound(d, healLog, healStats)
                      /\ Told(healed, healLog) /\ Balanced(healLog, healStats)
  BY <1>3, OnlyCall
<1>. DEFINE c == [d EXCEPT !.pc = "read", !.status = status]
<1>. HIDE DEF d
<1>7. DOMAIN c = CallFields /\ c.attempts = d.attempts /\ c.id = d.id
  BY <1>5 DEF CallFields
<1>8. c.pc = "read"
  BY <1>5 DEF CallFields
<1>9. c.status = status
  BY <1>5 DEF CallFields
<1>10. healing' = [healing EXCEPT ![h] = c]
  BY <1>1
<1>. HIDE DEF c
<1>11. CallType(c)
  BY <1>4, <1>7, <1>8, <1>9 DEF CallType, Repaired, Statuses
<1>12. CallSound(d, healLog, healStats) => CallSound(c, healLog, healStats)
  BY <1>2, <1>7, <1>8 DEF CallSound
<1>. QED  BY <1>2, <1>4, <1>6, <1>10, <1>11, <1>12, CallGoesOn DEF HealType

LEMMA ReadStatsStep ==
    ASSUME HealInv, NEW h \in Healers, ReadStats(h)
    PROVE  HealInv'
<1>. DEFINE d == healing[h]
            c == [d EXCEPT !.pc = "count", !.stats = healStats]
<1>1. healing' = [healing EXCEPT ![h] = c]
  BY DEF ReadStats
<1>2. d.pc = "read" /\ UNCHANGED <<healLog, healStats, healings, healed, healOverlap>>
  BY DEF ReadStats
<1>3. Underway(h)
  BY <1>2 DEF Underway
<1>4. CallType(d) /\ HealType
  BY <1>3 DEF HealInv, HealType
<1>5. DOMAIN d = CallFields
  BY <1>4 DEF CallType
<1>6. ~healOverlap => /\ \A g \in Healers \ {h} : ~Underway(g)
                      /\ CallSound(d, healLog, healStats)
                      /\ Told(healed, healLog) /\ Balanced(healLog, healStats)
  BY <1>3, OnlyCall
<1>. HIDE DEF d
<1>7. DOMAIN c = CallFields /\ c.attempts = d.attempts /\ c.id = d.id /\ c.status = d.status
  BY <1>5 DEF CallFields
<1>8. c.pc = "count"
  BY <1>5 DEF CallFields
<1>9. c.stats = healStats
  BY <1>5 DEF CallFields
<1>. HIDE DEF c
<1>10. CallType(c)
  BY <1>2, <1>4, <1>7, <1>8, <1>9 DEF CallType, HealType
<1>11. CallSound(d, healLog, healStats) => CallSound(c, healLog, healStats)
  BY <1>2, <1>7, <1>8, <1>9 DEF CallSound
<1>. QED  BY <1>1, <1>2, <1>4, <1>6, <1>10, <1>11, CallGoesOn DEF HealType

LEMMA TotalCounts ==
    ASSUME NEW stats \in [1 .. 5 -> Nat], NEW i \in 1 .. 5
    PROVE  /\ [stats EXCEPT ![i] = @ + 1] \in [1 .. 5 -> Nat]
           /\ Total([stats EXCEPT ![i] = @ + 1]) = Total(stats) + 1
           /\ Total(stats) \in Nat
BY DEF Total

LEMMA WriteStatsStep ==
    ASSUME HealInv, NEW h \in Healers, WriteStats(h)
    PROVE  HealInv'
<1>. DEFINE d == healing[h]
            c == [d EXCEPT !.pc = "close"]
<1>1. healing' = [healing EXCEPT ![h] = c]
  BY DEF WriteStats
<1>2. d.pc = "count" /\ UNCHANGED <<healLog, healings, healed, healOverlap>>
  BY DEF WriteStats
<1>3. Underway(h)
  BY <1>2 DEF Underway
<1>4. CallType(d) /\ HealType
  BY <1>3 DEF HealInv, HealType
<1>5. DOMAIN d = CallFields
  BY <1>4 DEF CallType
<1>6. PICK i \in 1 .. 5 : healStats' = [d.stats EXCEPT ![i] = @ + 1]
  BY StrategyPositions DEF WriteStats
<1>7. ~healOverlap => /\ \A g \in Healers \ {h} : ~Underway(g)
                      /\ CallSound(d, healLog, healStats)
                      /\ Told(healed, healLog) /\ Balanced(healLog, healStats)
  BY <1>3, OnlyCall
<1>. HIDE DEF d
<1>8. d.stats \in [1 .. 5 -> Nat] /\ d.status \in Repaired
  BY <1>2, <1>4 DEF CallType
<1>9. /\ healStats' \in [1 .. 5 -> Nat] /\ Total(healStats') = Total(d.stats) + 1
      /\ Total(d.stats) \in Nat
  BY <1>6, <1>8, TotalCounts
<1>10. DOMAIN c = CallFields /\ c.attempts = d.attempts /\ c.id = d.id /\ c.status = d.status
  BY <1>5 DEF CallFields
<1>11. c.pc = "close"
  BY <1>5 DEF CallFields
<1>. HIDE DEF c
<1>12. CallType(c)
  BY <1>4, <1>8, <1>10, <1>11 DEF CallType, Repaired
<1>13. ~healOverlap => Balanced(healLog, healStats') /\ CallSound(c, healLog, healStats')
  <2>. SUFFICES ASSUME ~healOverlap
                PROVE  Balanced(healLog, healStats') /\ CallSound(c, healLog, healStats')
    OBVIOUS
  <2>1. /\ d.attempts = healLog /\ Last(healLog).status = "planned" /\ d.stats = healStats
        /\ Total(healStats) <= Count(Front(healLog), MaybeRepaired)
    BY <1>2, <1>7 DEF CallSound
  <2>2. healLog \in Seq(AttemptRecord) /\ healLog # <<>>
    BY <1>4, <2>1 DEF CallType
  <2>3. /\ Count(healLog, MaybeRepaired) = Count(Front(healLog), MaybeRepaired) + 1
        /\ Count(healLog, Repaired) \in Nat /\ Count(Front(healLog), MaybeRepaired) \in Nat
    BY <2>1, <2>2, PlannedLast
  <2>4. Count(healLog, Repaired) <= Total(healStats)
    BY <1>7 DEF Balanced
  <2>5. Balanced(healLog, healStats')
    BY <1>9, <2>1, <2>3, <2>4 DEF Balanced
  <2>6. Count(healLog, Repaired) + 1 <= Total(healStats')
    BY <1>9, <2>1, <2>3, <2>4
  <2>7. CallSound(c, healLog, healStats')
    BY <1>8, <1>10, <1>11, <2>1, <2>6 DEF CallSound
  <2>. QED  BY <2>5, <2>7
<1>. QED  BY <1>1, <1>2, <1>4, <1>7, <1>9, <1>12, <1>13, CallGoesOn DEF HealType

LEMMA CloseHealingStep ==
    ASSUME HealInv, NEW h \in Healers, CloseHealing(h)
    PROVE  HealInv'
<1>. DEFINE d == healing[h]
            c == [d EXCEPT !.pc = "returned"]
            o == [id |-> d.id, status |-> d.status]
<1>1. /\ healing' = [healing EXCEPT ![h] = c]
      /\ healLog' = Append(Front(d.attempts), o) /\ healed' = healed \cup {o}
  BY DEF CloseHealing, Return, Outcome
<1>2. d.pc = "close" /\ UNCHANGED <<healStats, healings, healOverlap>>
  BY DEF CloseHealing, Return
<1>3. Underway(h)
  BY <1>2 DEF Underway
<1>4. CallType(d) /\ HealType
  BY <1>3 DEF HealInv, HealType
<1>5. ~healOverlap => /\ \A g \in Healers \ {h} : ~Underway(g)
                      /\ CallSound(d, healLog, healStats)
                      /\ Told(healed, healLog) /\ Balanced(healLog, healStats)
  BY <1>3, OnlyCall
<1>. HIDE DEF d
<1>6. c.pc = "returned"
  BY <1>4 DEF CallType, CallFields
<1>7. o \in [id : Nat, status : Statuses \ {"planned"}] /\ o \in AttemptRecord /\ o.status = d.status
  BY <1>2, <1>4 DEF CallType, AttemptRecord
<1>. HIDE DEF c, o
<1>8. d.attempts \in Seq(AttemptRecord) /\ d.attempts # <<>>
  BY <1>4 DEF CallType
<1>. DEFINE f == Front(d.attempts)
<1>9. f \in Seq(AttemptRecord)
  BY <1>8, FrontLast
<1>10. healLog' \in Seq(AttemptRecord)
  BY <1>1, <1>7, <1>9, AppendTells
<1>11. ~healOverlap => Told(healed', healLog') /\ Balanced(healLog', healStats)
  <2>. SUFFICES ASSUME ~healOverlap
                PROVE  Told(healed', healLog') /\ Balanced(healLog', healStats)
    OBVIOUS
  <2>1. /\ d.attempts = healLog /\ Last(healLog).status = "planned"
        /\ d.status \notin Repaired => Total(healStats) <= Count(f, MaybeRepaired)
        /\ d.status \in Repaired => Count(healLog, Repaired) + 1 <= Total(healStats)
    BY <1>2, <1>5 DEF CallSound
  <2>2. /\ Count(healLog, Repaired) = Count(f, Repaired)
        /\ Count(healLog, MaybeRepaired) = Count(f, MaybeRepaired) + 1
        /\ Count(healLog, Repaired) \in Nat /\ Count(f, MaybeRepaired) \in Nat
    BY <1>8, <2>1, PlannedLast
  <2>3. /\ Count(healLog, Repaired) <= Total(healStats)
        /\ Total(healStats) <= Count(healLog, MaybeRepaired)
        /\ Total(healStats) \in Nat
    BY <1>4, <1>5 DEF Balanced, HealType, Total
  <2>4. Balanced(healLog', healStats)
    <3>. HIDE DEF f
    <3>1. /\ d.status \in Repaired => d.status \in MaybeRepaired
          /\ d.status \notin Repaired => d.status \notin MaybeRepaired
      BY <1>2, <1>4 DEF CallType, Repaired, MaybeRepaired
    <3>2. /\ d.status \in Repaired => /\ Count(healLog', Repaired) = Count(f, Repaired) + 1
                                      /\ Count(healLog', MaybeRepaired) = Count(f, MaybeRepaired) + 1
          /\ d.status \notin Repaired => /\ Count(healLog', Repaired) = Count(f, Repaired)
                                         /\ Count(healLog', MaybeRepaired) = Count(f, MaybeRepaired)
      <4>1. healLog' = Append(f, o)
        BY <1>1 DEF f
      <4>2. /\ o.status \in Repaired => Count(Append(f, o), Repaired) = Count(f, Repaired) + 1
            /\ o.status \notin Repaired => Count(Append(f, o), Repaired) = Count(f, Repaired)
            /\ o.status \in MaybeRepaired => Count(Append(f, o), MaybeRepaired) = Count(f, MaybeRepaired) + 1
            /\ o.status \notin MaybeRepaired => Count(Append(f, o), MaybeRepaired) = Count(f, MaybeRepaired)
        BY <1>7, <1>9, CountAppend
      <4>. QED  BY <1>7, <3>1, <4>1, <4>2
    <3>3. CASE d.status \in Repaired
      BY <2>1, <2>2, <2>3, <3>2, <3>3 DEF Balanced
    <3>4. CASE d.status \notin Repaired
      BY <2>1, <2>2, <2>3, <3>2, <3>4 DEF Balanced
    <3>. QED  BY <3>3, <3>4
  <2>5. Told(healed', healLog')
    <3>. SUFFICES ASSUME NEW p \in healed \cup {o}
                  PROVE  \E i \in DOMAIN healLog' : healLog'[i] = p
      BY <1>1 DEF Told
    <3>. HIDE DEF f
    <3>0. healLog' = Append(f, o) /\ f = Front(healLog)
      BY <1>1, <2>1 DEF f
    <3>1. /\ \A i \in DOMAIN f : i \in DOMAIN healLog' /\ healLog'[i] = f[i]
          /\ \E i \in DOMAIN healLog' : healLog'[i] = o
      BY <1>7, <1>9, <3>0, AppendTells
    <3>2. CASE p \in healed
      <4>1. PICK i \in DOMAIN healLog : healLog[i] = p
        BY <1>5, <3>2 DEF Told
      <4>2. p.status # "planned"
        BY <1>4, <3>2 DEF HealType
      <4>3. (i \in DOMAIN f /\ f[i] = healLog[i]) \/ healLog[i] = Last(healLog)
        <5>1. healLog # <<>>
          BY <1>8, <2>1
        <5>2. healLog \in Seq(AttemptRecord)
          BY <1>8, <2>1
        <5>. QED  BY <3>0, <5>1, <5>2, FrontLast
      <4>. QED  BY <2>1, <3>1, <4>1, <4>2, <4>3
    <3>. QED  BY <3>1, <3>2
  <2>. QED  BY <2>4, <2>5
<1>12. healed' \subseteq [id : Nat, status : Statuses \ {"planned"}]
  BY <1>1, <1>4, <1>7 DEF HealType
<1>. QED  BY <1>1, <1>2, <1>4, <1>5, <1>6, <1>10, <1>11, <1>12, CallGoesOn DEF HealType

LEMMA HealNext == HealInv /\ [StepNext]_<<stepVars, healVars>> => HealInv'
<1>. SUFFICES ASSUME HealInv, [StepNext]_<<stepVars, healVars>> PROVE HealInv'
  OBVIOUS
<1>1. CASE UNCHANGED healVars
  BY <1>1, HealStuttering
<1>2. CASE HealStep
  BY <1>2, BeginHealingStep, StepAssumption DEF HealStep
<1>3. CASE HealingAnswered \/ ExecutorDies
  BY <1>3, CallEnds, StepAssumption DEF HealingAnswered, ExecutorDies
<1>4. ASSUME NEW h \in Healers, HealCommand(h)
      PROVE  HealInv'
  BY <1>4, BeginHealingStep DEF HealCommand
<1>5. ASSUME NEW h \in Healers, HealingContinues(h)
      PROVE  HealInv'
  BY <1>5, SavePlannedStep, RepairStep, ReadStatsStep, WriteStatsStep, CloseHealingStep DEF HealingContinues
<1>6. ASSUME NEW h \in Healers, HealingDies(h)
      PROVE  HealInv'
  BY <1>6, CallEnds DEF HealingDies
<1>7. CASE \/ StartRun \/ ApproveStep \/ BeginStep
           \/ StageSucceeds \/ (\E m \in Messages : StageFails(m))
           \/ StepSucceeded \/ VerificationFails \/ RollBackStep
           \/ OthersEdit \/ OthersSwitch
  <2>1. UNCHANGED healVars
    BY <1>7 DEF StartRun, ApproveStep, BeginStep, StageSucceeds, StageFails, StepSucceeded,
                VerificationFails, RollBackStep, OthersEdit, OthersSwitch, Others
  <2>. QED  BY <2>1, HealStuttering
<1>. QED  BY <1>1, <1>2, <1>3, <1>4, <1>5, <1>6, <1>7 DEF StepNext

\* A healing that nothing overlapped is in the log as it ended, and the counter
\* of repairs agrees with the log up to calls that died (healStep,
\* updateHealingStats, the healing log).
THEOREM HealingsAddUp == StepSpec => []HealingsAreAccounted
<1>1. StepInit => HealInv
  BY InitHealInv DEF StepInit
<1>2. HealInv => HealingsAreAccounted
  BY Zenon DEF HealInv, HealingsAreAccounted, Told, Balanced, Count, Total, Repaired, MaybeRepaired
<1>. QED  BY <1>1, <1>2, HealNext, PTL DEF StepSpec

=============================================================================
