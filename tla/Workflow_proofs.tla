---------------------------- MODULE Workflow_proofs ----------------------------
(***************************************************************************)
(* Proofs about Workflow, and the code writes beside it, for workflows of  *)
(* any length and any number of sandboxes, tasks, requests and edits.      *)
(***************************************************************************)
EXTENDS Workflow, FiniteSetTheorems, FunctionTheorems, SequenceTheorems, TLAPS

\* The steps of a code write, in their order: the text is copied back between
\* "back" and the three that follow it.
WriteInv ==
    \A q \in Requests :
        LET r == request[q]
        IN  /\ r.pc # "idle" => r.answer = "none"
            /\ r.pc \in {"ensure", "copy", "edit", "back"} => r.wrote = "nothing"
            /\ r.pc \in {"exec", "wait", "check", "build"} => r.wrote = "all"

WIInv == DOMAIN request = Requests /\ WriteInv /\ AnswerTellsWritten

\* The copy of a request: as long as nobody changes the file behind it, first the
\* text of the file, and then the edit of that text.
TextInv(q) ==
    LET r == request[q]
    IN  /\ r.pc # "idle" => r.edit \in Edits
        /\ r.pc = "back" => r.text \in Text
        /\ r.pc = "back" /\ r.edit.mode = "replace_file" => r.text = r.edit.content
        /\ r.edit.mode = "context_edit" /\ q \notin raced =>
               /\ r.pc = "edit" => file \in Text /\ r.text = file
               /\ r.pc = "back" => file \in Text /\ Replaced(r.edit, file, r.text)

FileInv == TypeOK /\ \A q \in Requests : TextInv(q)

\* What a workflow has done, and what its entries say, one by one.
Agree(n) ==
    \A k \in 1..n : effects[k] = [action |-> steps[k].action, id |-> steps[k].id]

AllSucceeded(n) == \A k \in 1..n : steps[k].status = "succeeded"

Entries == [action : Kinds, status : {"succeeded", "failed", "timed_out"},
            id : Sandboxes \cup Tasks \cup {None}, result : {"none", "running", "final"}]

Effects == [action : Kinds, id : Sandboxes \cup Tasks]

RunTypes ==
    /\ boxes \subseteq Sandboxes
    /\ DOMAIN task = Tasks
    /\ run \in [pc : {"step", "started", "wait", "done"}, box : Sandboxes \cup {None},
                task : Tasks \cup {None}]
    /\ steps \in Seq(Entries) /\ effects \in Seq(Effects)

\* Between steps every effect has its entry.
StepInv ==
    run.pc = "step" =>
        /\ Len(effects) = Len(steps)
        /\ AllSucceeded(Len(steps)) /\ Agree(Len(steps))

\* Within an exec step its task has none yet.
TaskInv ==
    run.pc \in {"started", "wait"} =>
        /\ run.task \in Tasks
        /\ Len(effects) = Len(steps) + 1
        /\ AllSucceeded(Len(steps)) /\ Agree(Len(steps))
        /\ effects[Len(effects)] = [action |-> "exec_command", id |-> run.task]

\* At the end only the last entry can be one of a failure, which may have cost the
\* entry of a task.
DoneInv ==
    run.pc = "done" =>
        /\ steps # <<>>
        /\ AllSucceeded(Len(steps) - 1) /\ Agree(Len(steps) - 1)
        /\ \/ /\ steps[Len(steps)].status # "failed"
              /\ Len(effects) = Len(steps) /\ Agree(Len(steps))
           \/ /\ steps[Len(steps)].status = "failed"
              /\ Len(effects) = Len(steps) - 1
           \/ /\ steps[Len(steps)].status = "failed"
              /\ Len(effects) = Len(steps)
              /\ effects[Len(effects)].action = "exec_command"

RunInv == RunTypes /\ StepInv /\ TaskInv /\ DoneInv

\* Concatenation as an operator of which nothing is known but what is cited.
Cat(v, w) == v \o w

LEMMA CatAssociative ==
    ASSUME NEW S
    PROVE  /\ \A v, w \in Seq(S) : Cat(v, w) \in Seq(S)
           /\ \A v, w, z \in Seq(S) : Cat(Cat(v, w), z) = Cat(v, Cat(w, z))
<1>1. ASSUME NEW v \in Seq(S), NEW w \in Seq(S) PROVE Cat(v, w) \in Seq(S)
  BY ConcatProperties DEF Cat
<1>2. ASSUME NEW v \in Seq(S), NEW w \in Seq(S), NEW z \in Seq(S)
      PROVE  Cat(Cat(v, w), z) = Cat(v, Cat(w, z))
  BY ConcatAssociative DEF Cat
<1>3. QED
  BY <1>1, <1>2

\* So brackets can be moved.
LEMMA Regroup ==
    ASSUME NEW x \in Text, NEW s \in Text, NEW t \in Text, NEW u \in Text, NEW y \in Text
    PROVE  Cat(Cat(x, Cat(Cat(s, t), u)), y) = Cat(Cat(Cat(x, s), t), Cat(u, y))
  BY CatAssociative DEF Text

USE CodeWriteAssumption, WorkflowAssumption

-----------------------------------------------------------------------------
(***************************************************************************)
(* Code writes.                                                            *)
(***************************************************************************)

LEMMA InitWIInv == Init => WIInv
<1> SUFFICES ASSUME Init PROVE WIInv
  OBVIOUS
<1>0. DOMAIN request = Requests
  BY DEF Init
<1>1. \A q \in Requests : request[q] = Ended("none", "nothing")
  BY DEF Init
<1>2. \A q \in Requests : request[q].pc = "idle" /\ request[q].answer = "none"
  BY <1>1 DEF Ended
<1>3. AnswerTellsWritten
  BY <1>2 DEF AnswerTellsWritten
<1>4. WriteInv
  BY <1>2 DEF WriteInv
<1>5. QED
  BY <1>0, <1>3, <1>4, Zenon DEF WIInv

\* Going on to a step that fits what was written keeps the invariant.
LEMMA GoKeeps ==
    ASSUME WIInv, NEW q \in Requests, NEW pc, NEW edit, NEW text, NEW late, NEW wrote,
           Go(q, pc, edit, text, late, wrote),
           pc \in {"ensure", "copy", "edit", "back"} => wrote = "nothing",
           pc \in {"exec", "wait", "check", "build"} => wrote = "all"
    PROVE  WIInv'
  BY DEF WIInv, WriteInv, AnswerTellsWritten, Go

\* So does an answer that tells it.
LEMMA AnswerKeeps ==
    ASSUME WIInv, NEW q \in Requests, NEW answer, NEW wrote, Answer(q, answer, wrote),
           answer \in {"ensure failed", "copy failed", "edit failed", "timeout"}
               => wrote = "nothing",
           answer \in {"accepted", "exec result", "exec failed", "checks failed",
                       "build failed", "ok"} => wrote = "all"
    PROVE  WIInv'
  BY DEF WIInv, WriteInv, AnswerTellsWritten, Answer, Ended

LEMMA NextWIInv == WIInv /\ [Next]_vars => WIInv'
<1> SUFFICES ASSUME WIInv, [Next]_vars PROVE WIInv'
  OBVIOUS
<1>i. WriteInv
  BY DEF WIInv
<1>u. ASSUME UNCHANGED request PROVE WIInv'
  BY <1>u DEF WIInv, WriteInv, AnswerTellsWritten
<1>1. ASSUME NEW q \in Requests, Step(q) PROVE WIInv'
  <2>1. CASE EnsureDirectory(q)
    BY <1>i, <2>1, GoKeeps, AnswerKeeps
       DEF EnsureDirectory, Move, MoveWith, WriteInv
  <2>2. CASE CopyOut(q)
    BY <1>i, <2>2, GoKeeps, AnswerKeeps DEF CopyOut, Move, MoveWith, WriteInv
  <2>3. CASE Edit(q)
    BY <1>i, <2>3, GoKeeps, AnswerKeeps DEF Edit, MoveWith
  <2>4. CASE CopyBack(q)
    BY <2>4, GoKeeps DEF CopyBack, MoveWith
  <2>5. CASE CopyBackFails(q)
    BY <2>5, AnswerKeeps DEF CopyBackFails
  <2>6. CASE PostExec(q)
    BY <1>i, <2>6, GoKeeps, AnswerKeeps DEF PostExec, Move, MoveWith, WriteInv
  <2>7. CASE PostWait(q)
    BY <1>i, <2>7, AnswerKeeps DEF PostWait, WriteInv
  <2>8. CASE Check(q)
    BY <1>i, <2>8, GoKeeps, AnswerKeeps DEF Check, Move, MoveWith, WriteInv
  <2>9. CASE Build(q)
    BY <1>i, <2>9, AnswerKeeps DEF Build, WriteInv
  <2>10. QED
    BY <1>1, <2>1, <2>2, <2>3, <2>4, <2>5, <2>6, <2>7, <2>8, <2>9 DEF Step
<1>2. ASSUME NEW q \in Requests, Deadline(q) PROVE WIInv'
  BY <1>i, <1>2, GoKeeps DEF Deadline, WriteInv
<1>3. ASSUME NEW q \in Requests, NEW edit \in Edits, Begin(q, edit) PROVE WIInv'
  BY <1>3, GoKeeps DEF Begin
<1>4. CASE UNCHANGED vars \/ (\E text \in Texts \cup {Missing} : SandboxWrites(text))
           \/ (\E box \in Sandboxes : SandboxDeleted(box))
  BY <1>4, <1>u DEF vars, handled, SandboxWrites, SandboxDeleted
<1>5. QED
  BY <1>1, <1>2, <1>3, <1>4 DEF Next

\* A step of the workflow is none of a code write's.
LEMMA StepsApart ==
    ASSUME [WNext]_<<vars, wvars>>
    PROVE  [Next]_vars \/ (WStep /\ UNCHANGED request)
<1>1. CASE WStep
  BY <1>1
     DEF WStep, StepFails, CreateStep, ExecStep, SubscribeFails, ExecNoWait, ExecWait,
         WaitReturns, WaitFails, WaitTimeout, SnapshotStep, RollbackStep, DeleteStep,
         Finish, vars, handled
<1>2. ASSUME NEW t \in Tasks, TaskEnds(t) PROVE UNCHANGED vars
  BY <1>2 DEF TaskEnds
<1>3. QED
  BY <1>1, <1>2 DEF WNext

-----------------------------------------------------------------------------
(***************************************************************************)
(* The edit.                                                               *)
(***************************************************************************)

\* How far the old text is into a match.
Offset(edit) ==
    IF IsBlank(edit.before) /\ IsBlank(edit.after) THEN 0 ELSE Len(edit.before)

\* A part between two contexts, and a text whose letters from one to another make
\* way for others.
InContext(s, t, u) == s \o t \o u

Spliced(text, first, part, next) ==
    SubSeq(text, 1, first) \o part \o SubSeq(text, next, Len(text))

\* A part of a text is a text.
LEMMA Part ==
    ASSUME NEW text \in Text, NEW m \in Int, NEW n \in Int, 1 <= m, n <= Len(text)
    PROVE  /\ SubSeq(text, m, n) \in Text
           /\ Len(SubSeq(text, m, n)) = IF m <= n THEN n - m + 1 ELSE 0
           /\ \A k \in 1..(n - m + 1) : SubSeq(text, m, n)[k] = text[m + k - 1]
<1>1. \A k \in m..n : text[k] \in Letters
  BY DEF Text
<1>2. QED
  BY <1>1, SubSeqProperties DEF Text

\* findAllIndexes finds the places where the block is.
LEMMA MatchIsAt ==
    ASSUME NEW text \in Text, NEW needle \in Text, NEW p \in Int
    PROVE  p \in Matches(text, needle) <=> At(text, p - 1, needle)
<1> DEFINE part == SubSeq(text, p, p + Len(needle) - 1)
<1>l. Len(text) \in Nat /\ Len(needle) \in Nat
  BY DEF Text
<1>1. CASE ~(1 <= p /\ p - 1 + Len(needle) <= Len(text))
  BY <1>1, <1>l DEF Matches, At
<1>2. CASE 1 <= p /\ p - 1 + Len(needle) <= Len(text)
  <2>1. /\ part \in Text /\ Len(part) = Len(needle)
        /\ \A k \in 1..Len(needle) : part[k] = text[p + k - 1]
    BY <1>2, <1>l, Part
  <2>2. p \in Matches(text, needle) <=> part = needle
    BY <1>2, <1>l DEF Matches
  <2>3. part = needle <=> \A k \in 1..Len(needle) : part[k] = needle[k]
    BY <2>1, SeqEqual DEF Text
  <2>4. \A k \in 1..Len(needle) : p + k - 1 = (p - 1) + k
    BY <1>l
  <2>5. QED
    BY <1>2, <1>l, <2>1, <2>2, <2>3, <2>4 DEF At
<1>3. QED
  BY <1>1, <1>2

\* Two parts, one behind the other.
LEMMA AtConcat ==
    ASSUME NEW text \in Text, NEW s \in Text, NEW t \in Text, NEW i \in Int
    PROVE  At(text, i, s \o t) <=> At(text, i, s) /\ At(text, i + Len(s), t)
<1>l. Len(text) \in Nat /\ Len(s) \in Nat /\ Len(t) \in Nat
  BY DEF Text
<1>1. /\ Len(s \o t) = Len(s) + Len(t)
      /\ \A k \in 1..(Len(s) + Len(t)) :
            (s \o t)[k] = IF k <= Len(s) THEN s[k] ELSE t[k - Len(s)]
  BY ConcatProperties DEF Text
<1>2. ASSUME At(text, i, s \o t) PROVE At(text, i, s) /\ At(text, i + Len(s), t)
  <2>1. \A k \in 1..Len(s) : text[i + k] = s[k]
    BY <1>2, <1>1, <1>l DEF At
  <2>2. ASSUME NEW k \in 1..Len(t) PROVE text[i + Len(s) + k] = t[k]
    <3>1. Len(s) + k \in 1..(Len(s) + Len(t)) /\ ~(Len(s) + k <= Len(s))
          /\ Len(s) + k - Len(s) = k /\ i + (Len(s) + k) = i + Len(s) + k
      BY <1>l
    <3>2. QED
      BY <1>2, <1>1, <3>1 DEF At
  <2>3. QED
    BY <1>2, <1>1, <1>l, <2>1, <2>2 DEF At
<1>3. ASSUME At(text, i, s), At(text, i + Len(s), t) PROVE At(text, i, s \o t)
  <2>1. ASSUME NEW k \in 1..(Len(s) + Len(t)) PROVE text[i + k] = (s \o t)[k]
    <3>1. CASE k <= Len(s)
      BY <1>3, <1>1, <1>l, <3>1 DEF At
    <3>2. CASE ~(k <= Len(s))
      <4>1. k - Len(s) \in 1..Len(t) /\ i + Len(s) + (k - Len(s)) = i + k
        BY <1>l, <3>2
      <4>2. QED
        BY <1>3, <1>1, <3>2, <4>1 DEF At
    <3>3. QED
      BY <3>1, <3>2
  <2>2. QED
    BY <1>3, <1>1, <1>l, <2>1 DEF At
<1>4. QED
  BY <1>2, <1>3

\* A block is its three parts, one behind the other.
LEMMA AtBlock ==
    ASSUME NEW text \in Text, NEW s \in Text, NEW t \in Text, NEW u \in Text, NEW i \in Int
    PROVE  /\ s \o t \o u \in Text
           /\ At(text, i - Len(s), s \o t \o u)
                  <=> At(text, i - Len(s), s) /\ At(text, i, t) /\ At(text, i + Len(t), u)
<1>1. Len(s) \in Nat /\ Len(t) \in Nat
  BY DEF Text
<1>2. s \o t \in Text /\ Len(s \o t) = Len(s) + Len(t)
  BY ConcatProperties DEF Text
<1> DEFINE front == s \o t
           p == i - Len(s)
<1>3. /\ p \in Int /\ p + Len(s) = i /\ p + (Len(s) + Len(t)) = i + Len(t)
  BY <1>1
<1>4. front \in Text /\ Len(front) = Len(s) + Len(t)
  BY <1>2
<1>5. At(text, p, front) <=> At(text, p, s) /\ At(text, p + Len(s), t)
  BY <1>3, AtConcat
<1> HIDE DEF p, front
<1>6. /\ front \o u \in Text
      /\ At(text, p, front \o u) <=> At(text, p, front) /\ At(text, p + Len(front), u)
  BY <1>3, <1>4, AtConcat, ConcatProperties DEF Text
<1>7. At(text, p, front \o u) <=> At(text, p, s) /\ At(text, i, t) /\ At(text, i + Len(t), u)
  BY <1>3, <1>4, <1>5, <1>6
<1>8. QED
  BY <1>6, <1>7 DEF p, front

\* The search finds the places that are meant.
LEMMA MatchIsPlace ==
    ASSUME NEW edit \in ContextEdits, NEW text \in Text, NEW i \in Int
    PROVE  Place(edit, text, i)
               <=> i - Offset(edit) + 1 \in Matches(text, Block(edit, edit.old))
<1>t. /\ edit.before \in Text /\ edit.old \in Text /\ edit.after \in Text
      /\ Len(edit.before) \in Nat /\ Len(edit.old) \in Nat
  BY DEF ContextEdits, Text
<1>1. ASSUME NEW needle \in Text, NEW n \in Int
      PROVE  n + 1 \in Matches(text, needle) <=> At(text, n, needle)
  <2>1. n + 1 \in Int /\ n + 1 - 1 = n
    OBVIOUS
  <2>2. QED
    BY <2>1, MatchIsAt
<1>2. CASE IsBlank(edit.before) /\ IsBlank(edit.after)
  <2>1. Offset(edit) = 0 /\ Block(edit, edit.old) = edit.old
    BY <1>2 DEF Block, Offset
  <2>2. i - Offset(edit) + 1 = i + 1
    BY <2>1
  <2>3. i + 1 \in Matches(text, edit.old) <=> At(text, i, edit.old)
    BY <1>t, <1>1
  <2>4. Place(edit, text, i) <=> At(text, i, edit.old)
    BY <1>2 DEF Place
  <2>5. QED
    BY <2>1, <2>2, <2>3, <2>4
<1>3. CASE ~(IsBlank(edit.before) /\ IsBlank(edit.after))
  <2>1. /\ Offset(edit) = Len(edit.before)
        /\ Block(edit, edit.old) = edit.before \o edit.old \o edit.after
    BY <1>3 DEF Offset, Block
  <2> DEFINE p == i - Len(edit.before)
             block == edit.before \o edit.old \o edit.after
  <2>2. p \in Int
    BY <1>t
  <2>3. /\ block \in Text
        /\ At(text, p, block) <=> /\ At(text, p, edit.before) /\ At(text, i, edit.old)
                                  /\ At(text, i + Len(edit.old), edit.after)
    BY <1>t, AtBlock
  <2>4. Place(edit, text, i) <=> At(text, p, block)
    BY <1>3, <2>3 DEF Place
  <2> HIDE DEF block
  <2>5. p + 1 \in Matches(text, block) <=> At(text, p, block)
    BY <1>1, <2>2, <2>3
  <2>6. i - Offset(edit) + 1 = p + 1 /\ Block(edit, edit.old) = block
    BY <2>1 DEF block
  <2>7. QED
    BY <2>4, <2>5, <2>6
<1>4. QED
  BY <1>2, <1>3

\* A part that is found in a text joins what is before it, and what is behind it.
LEMMA Join ==
    ASSUME NEW text \in Text, NEW s \in Text, NEW i \in Int, At(text, i, s)
    PROVE  /\ SubSeq(text, 1, i) \o s = SubSeq(text, 1, i + Len(s))
           /\ s \o SubSeq(text, i + Len(s) + 1, Len(text)) = SubSeq(text, i + 1, Len(text))
<1>l. Len(text) \in Nat /\ Len(s) \in Nat
  BY DEF Text
<1>a. 0 <= i /\ i + Len(s) <= Len(text)
  BY DEF At
<1>1. SubSeq(text, i + 1, i + Len(s)) = s
  <2>1. i + 1 \in Int /\ (i + 1) - 1 = i /\ (i + 1) + Len(s) - 1 = i + Len(s)
    BY <1>l
  <2>2. i + 1 \in Matches(text, s)
    BY <2>1, MatchIsAt
  <2>3. QED
    BY <2>1, <2>2 DEF Matches
<1>2. SubSeq(text, 1, i) \o SubSeq(text, i + 1, i + Len(s)) = SubSeq(text, 1, i + Len(s))
  <2>1. /\ 1 \in 1..Len(text) + 1 /\ i \in 1 - 1..Len(text)
        /\ i + Len(s) \in i..Len(text)
    BY <1>l, <1>a
  <2>2. QED
    BY <2>1, ConcatAdjacentSubSeq DEF Text
<1>3. SubSeq(text, i + 1, i + Len(s)) \o SubSeq(text, i + Len(s) + 1, Len(text))
          = SubSeq(text, i + 1, Len(text))
  <2>1. /\ i + 1 \in 1..Len(text) + 1 /\ i + Len(s) \in (i + 1) - 1..Len(text)
        /\ Len(text) \in i + Len(s)..Len(text)
    BY <1>l, <1>a
  <2>2. QED
    BY <2>1, ConcatAdjacentSubSeq DEF Text
<1>4. QED
  BY <1>1, <1>2, <1>3

LEMMA InContextLen ==
    ASSUME NEW s \in Text, NEW t \in Text, NEW u \in Text
    PROVE  Len(InContext(s, t, u)) = Len(s) + Len(t) + Len(u)
<1>1. s \o t \in Text /\ Len(s \o t) = Len(s) + Len(t)
  BY ConcatProperties DEF Text
<1>2. QED
  BY <1>1, ConcatProperties DEF Text, InContext

\* The match that is chosen is the place that is meant.
LEMMA ChosenIsMeant ==
    ASSUME NEW edit \in ContextEdits, NEW text \in Text, Applicable(edit, text),
           NEW p \in Chosen(edit, text), NEW i \in Int, i = p - 1 + Offset(edit)
    PROVE  /\ Place(edit, text, i) /\ i \in 0..Len(text)
           /\ IF edit.occurrence <= 1
              THEN \A j \in 0..Len(text) : Place(edit, text, j) => j = i
              ELSE Cardinality({j \in 0..(i - 1) : Place(edit, text, j)})
                       = edit.occurrence - 1
<1> DEFINE found == Matches(text, Block(edit, edit.old))
           before == {m \in found : m < p}
           places == {j \in 0..(i - 1) : Place(edit, text, j)}
<1>t. /\ edit.occurrence \in Int /\ edit.mode = "context_edit"
      /\ edit.before \in Text /\ edit.old \in Text /\ edit.after \in Text
  BY DEF ContextEdits
<1>l. Len(text) \in Nat /\ Len(edit.old) \in Nat /\ Offset(edit) \in Int
  BY <1>t DEF Text, Offset
<1>1. IsFiniteSet(found) /\ found \subseteq Int
  <2>1. Block(edit, edit.old) \in Text
    BY <1>t, AtBlock DEF Block
  <2> DEFINE n == Len(text) - Len(Block(edit, edit.old)) + 1
  <2>2. n \in Int
    BY <1>l, <2>1 DEF Text
  <2>3. found \in SUBSET (1..n)
    BY DEF Matches
  <2>4. QED
    <3>1. IsFiniteSet(1..n)
      BY <2>2, FS_Interval
    <3> HIDE DEF found, n
    <3>2. IsFiniteSet(found)
      BY <2>3, <3>1, FS_Subset, Zenon
    <3>3. QED
      BY <2>2, <2>3, <3>2
<1>2. p \in found /\ Cardinality(before) = Occurrence(edit) - 1
  BY DEF Chosen
<1>3. ASSUME NEW j \in Int
      PROVE  Place(edit, text, j) <=> j - Offset(edit) + 1 \in found
  BY MatchIsPlace
<1>4. ASSUME NEW j \in Int, Place(edit, text, j) PROVE 0 <= j /\ j <= Len(text)
  BY <1>l, <1>4 DEF Place, At
<1>c. /\ Cardinality(found) >= Occurrence(edit)
      /\ Occurrence(edit) = 1 => Cardinality(found) = 1
  BY <1>t DEF Applicable
<1> HIDE DEF found
<1>p. p \in Int
  BY <1>1, <1>2
<1>5. Place(edit, text, i) /\ i \in 0..Len(text)
  <2>1. i - Offset(edit) + 1 = p
    BY <1>l, <1>p
  <2>2. Place(edit, text, i)
    BY <1>2, <1>3, <2>1
  <2>3. QED
    BY <2>2, <1>4, <1>l
<1>6. ASSUME edit.occurrence <= 1, NEW j \in 0..Len(text), Place(edit, text, j)
      PROVE  j = i
  <2>1. Occurrence(edit) = 1
    BY <1>6, <1>t DEF Occurrence
  <2>2. PICK x : found = {x}
    BY <1>c, <1>1, <2>1, FS_Singleton
  <2>3. j - Offset(edit) + 1 \in found
    BY <1>3, <1>6
  <2>4. j - Offset(edit) + 1 = p
    BY <1>2, <2>2, <2>3
  <2>5. QED
    BY <1>l, <1>p, <2>4
<1>7. ASSUME ~(edit.occurrence <= 1) PROVE Cardinality(places) = edit.occurrence - 1
  <2>1. Occurrence(edit) = edit.occurrence
    BY <1>7, <1>t DEF Occurrence
  <2>2. IsFiniteSet(before)
    BY <1>1, FS_Subset
  <2> DEFINE f == [m \in before |-> m - 1 + Offset(edit)]
  <2>3. ASSUME NEW m \in before PROVE m - 1 + Offset(edit) \in places
    <3>1. m \in Int /\ m \in found /\ m < p
      BY <1>1
    <3>2. /\ m - 1 + Offset(edit) \in Int
          /\ (m - 1 + Offset(edit)) - Offset(edit) + 1 = m
      BY <1>l, <3>1
    <3>3. Place(edit, text, m - 1 + Offset(edit))
      BY <1>3, <3>1, <3>2
    <3>4. 0 <= m - 1 + Offset(edit) /\ m - 1 + Offset(edit) <= i - 1
      BY <1>4, <1>l, <1>p, <3>1, <3>2, <3>3
    <3>5. QED
      BY <3>2, <3>3, <3>4
  <2>4. f \in [before -> places]
    BY <2>3
  <2>5. \A m, n \in before : f[m] = f[n] => m = n
    BY <1>1, <1>l
  <2>6. ASSUME NEW j \in places PROVE \E m \in before : f[m] = j
    <3> DEFINE m == j - Offset(edit) + 1
    <3>1. j \in Int /\ j <= i - 1 /\ Place(edit, text, j)
      BY <1>l, <1>p
    <3>2. m \in found /\ m < p /\ m - 1 + Offset(edit) = j
      <4>1. m \in Int /\ m < p /\ m - 1 + Offset(edit) = j
        BY <1>l, <1>p, <3>1
      <4>2. m \in found
        BY <1>3, <3>1
      <4>3. QED
        BY <4>1, <4>2
    <3>3. QED
      BY <3>2
  <2>7. f \in Bijection(before, places)
    BY <2>4, <2>5, <2>6, Fun_IsBij
  <2>8. Cardinality(places) = Cardinality(before)
    BY <2>2, <2>7, FS_Bijection DEF ExistsBijection
  <2>9. QED
    BY <1>2, <2>1, <2>8
<1>8. QED
  BY <1>5, <1>6, <1>7

\* An edit does what the client asked for.
LEMMA EditReplaces ==
    ASSUME NEW edit \in ContextEdits, NEW text \in Text, Applicable(edit, text),
           NEW result \in Edited(edit, text)
    PROVE  result \in Text /\ Replaced(edit, text, result)
<1>t. /\ edit.mode = "context_edit" /\ edit.before \in Text /\ edit.old \in Text
      /\ edit.new \in Text /\ edit.after \in Text
  BY DEF ContextEdits
<1>l. Len(text) \in Nat /\ Len(edit.old) \in Nat /\ Offset(edit) \in Int
      /\ Len(edit.before) \in Nat
  BY <1>t DEF Text, Offset
<1>1. PICK p \in Chosen(edit, text) :
          result = Spliced(text, p - 1, Block(edit, edit.new),
                           p + Len(Block(edit, edit.old)))
  BY <1>t DEF Edited, Spliced
<1>p. p \in Int
  BY DEF Chosen, Matches
<1> DEFINE i == p - 1 + Offset(edit)
<1>2. i \in Int
  BY <1>l, <1>p
<1>3. /\ Place(edit, text, i) /\ i \in 0..Len(text)
      /\ IF edit.occurrence <= 1
         THEN \A j \in 0..Len(text) : Place(edit, text, j) => j = i
         ELSE Cardinality({j \in 0..(i - 1) : Place(edit, text, j)})
                  = edit.occurrence - 1
  BY <1>2, ChosenIsMeant
<1>4. result = Spliced(text, i, edit.new, i + Len(edit.old) + 1)
  <2>1. CASE IsBlank(edit.before) /\ IsBlank(edit.after)
    <3>1. /\ Offset(edit) = 0
          /\ Block(edit, edit.old) = edit.old /\ Block(edit, edit.new) = edit.new
      BY <2>1 DEF Offset, Block
    <3>2. p - 1 = i /\ p + Len(edit.old) = i + Len(edit.old) + 1
      BY <1>l, <1>p, <3>1
    <3>3. QED
      BY <1>1, <3>1, <3>2, Zenon
  <2>2. CASE ~(IsBlank(edit.before) /\ IsBlank(edit.after))
    <3>1. /\ Offset(edit) = Len(edit.before)
          /\ Block(edit, edit.old) = InContext(edit.before, edit.old, edit.after)
          /\ Block(edit, edit.new) = InContext(edit.before, edit.new, edit.after)
      BY <2>2 DEF Offset, Block, InContext
    <3> DEFINE m == p - 1
               j == i + Len(edit.old)
               n == j + 1
               next == p + Len(Block(edit, edit.old))
    <3>2. /\ m \in Int /\ j \in Int /\ n \in Int /\ next \in Int
          /\ i = m + Len(edit.before) /\ next = j + Len(edit.after) + 1
      <4>1. Len(edit.after) \in Nat
        BY <1>t DEF Text
      <4>2. Len(Block(edit, edit.old))
                = Len(edit.before) + Len(edit.old) + Len(edit.after)
        <5>1. Len(InContext(edit.before, edit.old, edit.after))
                  = Len(edit.before) + Len(edit.old) + Len(edit.after)
          BY <1>t, InContextLen
        <5>2. QED
          BY <3>1, <5>1, Zenon
      <4> DEFINE width == Len(Block(edit, edit.old))
                 front == Len(edit.before)
                 inner == Len(edit.old)
                 rear == Len(edit.after)
                 offset == Offset(edit)
      <4>3. /\ width = front + inner + rear /\ offset = front
            /\ front \in Nat /\ inner \in Nat /\ rear \in Nat
        BY <1>l, <3>1, <4>1, <4>2, Zenon
      <4> HIDE DEF width, front, inner, rear, offset
      <4>4. /\ p - 1 \in Int /\ p - 1 + offset + inner \in Int
            /\ p - 1 + offset + inner + 1 \in Int /\ p + width \in Int
            /\ p - 1 + offset = p - 1 + front
            /\ p + width = p - 1 + offset + inner + rear + 1
        BY <1>p, <4>3
      <4>5. QED
        BY <4>4, Zenon DEF width, front, inner, rear, offset
    <3>3. /\ At(text, m, edit.before) /\ At(text, i, edit.old) /\ At(text, j, edit.after)
      <4>1. /\ At(text, i - Len(edit.before), edit.before)
            /\ At(text, i, edit.old) /\ At(text, j, edit.after)
        BY <1>3, <2>2 DEF Place
      <4>2. i - Len(edit.before) = m
        BY <1>l, <1>p, <3>1
      <4>3. QED
        BY <4>1, <4>2
    <3>4. result = Spliced(text, m, InContext(edit.before, edit.new, edit.after), next)
      BY <1>1, <3>1
    <3>5. n = i + Len(edit.old) + 1 /\ n = j + 1
      OBVIOUS
    <3> DEFINE s == edit.before
               new == edit.new
               u == edit.after
               x == SubSeq(text, 1, m)
               y == SubSeq(text, next, Len(text))
    <3>6. s \in Text /\ new \in Text /\ u \in Text
      BY <1>t
    <3> HIDE DEF i, m, j, n, next
    <3>7. /\ x \o s = SubSeq(text, 1, m + Len(s))
          /\ u \o SubSeq(text, j + Len(u) + 1, Len(text)) = SubSeq(text, j + 1, Len(text))
      <4> HIDE DEF s, u, x
      <4>1. At(text, m, s) /\ At(text, j, u)
        BY <3>3 DEF s, u
      <4>2. u \o SubSeq(text, j + Len(u) + 1, Len(text)) = SubSeq(text, j + 1, Len(text))
        BY <3>2, <3>6, <4>1, Join
      <4>3. SubSeq(text, 1, m) \o s = SubSeq(text, 1, m + Len(s))
        BY <3>2, <3>6, <4>1, Join
      <4>4. QED
        BY <4>2, <4>3 DEF x
    <3>8. x \o s = SubSeq(text, 1, i) /\ u \o y = SubSeq(text, n, Len(text))
      BY <3>2, <3>5, <3>7, Zenon
    <3>9. x \in Text /\ y \in Text
      <4>1. m <= Len(text) /\ 1 <= next
        BY <1>l, <1>t, <3>2, <3>3 DEF At, Text
      <4>2. QED
        BY <1>l, <3>2, <4>1, Part
    <3> HIDE DEF s, new, u, x, y
    <3>10. Cat(Cat(x, Cat(Cat(s, new), u)), y) = Cat(Cat(Cat(x, s), new), Cat(u, y))
      BY <3>6, <3>9, Regroup
    <3>11. x \o (s \o new \o u) \o y = (x \o s) \o new \o (u \o y)
      BY <3>10 DEF Cat
    <3>12. Spliced(text, m, InContext(s, new, u), next) = Spliced(text, i, new, n)
      BY <3>8, <3>11, Zenon DEF Spliced, InContext, x, y
    <3>13. QED
      BY <3>4, <3>5, <3>12, Zenon DEF s, new, u
  <2>3. QED
    BY <2>1, <2>2
<1>5. Replaced(edit, text, result)
  BY <1>3, <1>4, Zenon DEF Replaced, Spliced
<1>6. result \in Text
  <2> DEFINE x == SubSeq(text, 1, i)
             y == SubSeq(text, i + Len(edit.old) + 1, Len(text))
  <2>1. x \in Text /\ y \in Text
    BY <1>l, <1>2, <1>3, Part
  <2> HIDE DEF x, y
  <2>2. Cat(Cat(x, edit.new), y) \in Text
    BY <1>t, <2>1, CatAssociative DEF Text
  <2>3. QED
    BY <1>4, <2>2, Zenon DEF Spliced, Cat, x, y
<1>7. QED
  BY <1>5, <1>6

-----------------------------------------------------------------------------
(***************************************************************************)
(* The file and its copies.                                                *)
(***************************************************************************)

LEMMA InitFileInv == Init => FileInv
<1> SUFFICES ASSUME Init PROVE FileInv
  OBVIOUS
<1>1. \A q \in Requests : request[q] = Ended("none", "nothing")
  BY DEF Init
<1>2. Ended("none", "nothing") \in States /\ Ended("none", "nothing").pc = "idle"
  BY DEF Ended, States
<1>3. request \in [Requests -> States]
  BY <1>2 DEF Init
<1>4. TypeOK
  BY <1>3 DEF Init, TypeOK
<1>5. ASSUME NEW q \in Requests PROVE TextInv(q)
  BY <1>1, <1>2 DEF TextInv
<1>6. QED
  BY <1>4, <1>5 DEF FileInv

\* What a request holds stands as long as it does not move, unless the file is
\* changed behind it.
LEMMA TextStands ==
    ASSUME NEW q \in Requests, TextInv(q), request'[q] = request[q],
           q \in raced => q \in raced',
           \/ file' = file \/ q \in raced' \/ request[q].pc \notin {"edit", "back"}
    PROVE  TextInv(q)'
  BY DEF TextInv

\* What the others see of a step of request q.
Spares(q) ==
    /\ boxes' \subseteq Sandboxes /\ file' \in Text \cup {Missing}
    /\ raced' \subseteq Requests
    /\ \A o \in Requests \ {q} :
          /\ o \in raced => o \in raced'
          /\ file' = file \/ o \in raced' \/ request[o].pc \notin {"edit", "back"}

LEMMA GoKeepsFile ==
    ASSUME FileInv, NEW q \in Requests, Spares(q),
           NEW pc \in {"ensure", "copy", "edit", "back", "exec", "wait", "check", "build"},
           NEW edit \in Edits, NEW text \in Text \cup {Missing}, NEW late \in BOOLEAN,
           NEW wrote \in {"nothing", "some", "all"},
           Go(q, pc, edit, text, late, wrote),
           pc = "back" => text \in Text,
           pc = "back" /\ edit.mode = "replace_file" => text = edit.content,
           edit.mode = "context_edit" /\ q \notin raced' =>
               /\ pc = "edit" => file' \in Text /\ text = file'
               /\ pc = "back" => file' \in Text /\ Replaced(edit, file', text)
    PROVE  FileInv'
<1> DEFINE state == [pc |-> pc, edit |-> edit, text |-> text, late |-> late,
                     answer |-> "none", wrote |-> wrote]
<1>1. state \in States
  BY DEF States
<1>2. request \in [Requests -> States]
  BY DEF FileInv, TypeOK
<1>3. request' = [request EXCEPT ![q] = state]
  BY DEF Go
<1>s. /\ state.pc = pc /\ state.edit = edit /\ state.text = text
  OBVIOUS
<1> HIDE DEF state
<1>4. /\ request' \in [Requests -> States] /\ request'[q] = state
      /\ \A o \in Requests \ {q} : request'[o] = request[o]
  BY <1>1, <1>2, <1>3
<1>5. TypeOK'
  BY <1>4 DEF TypeOK, Spares
<1>6. TextInv(q)'
  BY <1>4, <1>s DEF TextInv
<1>7. ASSUME NEW o \in Requests \ {q} PROVE TextInv(o)'
  BY <1>4, TextStands DEF FileInv, Spares
<1>8. QED
  BY <1>5, <1>6, <1>7 DEF FileInv

LEMMA AnswerKeepsFile ==
    ASSUME FileInv, NEW q \in Requests, Spares(q),
           NEW answer \in {"none", "ensure failed", "copy failed", "edit failed",
                           "timeout", "copy back failed", "exec failed", "accepted",
                           "exec result", "checks failed", "build failed", "ok"},
           NEW wrote \in {"nothing", "some", "all"},
           Answer(q, answer, wrote)
    PROVE  FileInv'
<1> DEFINE state == Ended(answer, wrote)
<1>1. state \in States /\ state.pc = "idle"
  BY DEF States, Ended
<1>2. request \in [Requests -> States]
  BY DEF FileInv, TypeOK
<1>3. request' = [request EXCEPT ![q] = state]
  BY DEF Answer
<1> HIDE DEF state
<1>4. /\ request' \in [Requests -> States] /\ request'[q] = state
      /\ \A o \in Requests \ {q} : request'[o] = request[o]
  BY <1>1, <1>2, <1>3
<1>5. TypeOK'
  BY <1>4 DEF TypeOK, Spares
<1>6. TextInv(q)'
  BY <1>1, <1>4 DEF TextInv
<1>7. ASSUME NEW o \in Requests \ {q} PROVE TextInv(o)'
  BY <1>4, TextStands DEF FileInv, Spares
<1>8. QED
  BY <1>5, <1>6, <1>7 DEF FileInv

\* Steps that are not a request's own: whatever they do to the file, a copy of it
\* is outdated.
LEMMA FileChanges ==
    ASSUME FileInv, UNCHANGED request, boxes' \subseteq Sandboxes,
           \/ UNCHANGED <<file, raced>>
           \/ \E text \in Text \cup {Missing} : Change(text, Requests)
    PROVE  FileInv'
<1>1. TypeOK'
  BY DEF FileInv, TypeOK, Change
<1>2. ASSUME NEW q \in Requests PROVE TextInv(q)'
  <2>1. TextInv(q) /\ request'[q] = request[q]
    BY DEF FileInv
  <2>2. /\ q \in raced => q \in raced'
        /\ file' = file \/ q \in raced' \/ request[q].pc \notin {"edit", "back"}
    BY DEF Change
  <2>3. QED
    BY <2>1, <2>2, TextStands
<1>3. QED
  BY <1>1, <1>2 DEF FileInv

LEMMA StepKeepsFile == ASSUME FileInv, NEW q \in Requests, Step(q) PROVE FileInv'
<1> DEFINE r == request[q]
<1>t. /\ boxes \subseteq Sandboxes /\ file \in Text \cup {Missing} /\ raced \subseteq Requests
      /\ r.text \in Text \cup {Missing} /\ r.late \in BOOLEAN
      /\ r.wrote \in {"nothing", "some", "all"}
  BY DEF FileInv, TypeOK, States
<1>i. /\ r.pc # "idle" => r.edit \in Edits
      /\ r.pc = "back" => r.text \in Text
      /\ r.pc = "back" /\ r.edit.mode = "replace_file" => r.text = r.edit.content
      /\ r.edit.mode = "context_edit" /\ q \notin raced =>
             /\ r.pc = "edit" => file \in Text /\ r.text = file
             /\ r.pc = "back" => file \in Text /\ Replaced(r.edit, file, r.text)
  BY DEF FileInv, TextInv
<1>s. ASSUME UNCHANGED <<boxes, file, raced>> PROVE Spares(q)
  BY <1>t, <1>s DEF Spares
<1>1. CASE EnsureDirectory(q)
  <2>1. Spares(q) /\ r.edit \in Edits
    BY <1>1, <1>i, <1>s DEF EnsureDirectory
  <2>2. CASE Move(q, "copy")
    BY <1>t, <2>1, <2>2, GoKeepsFile DEF Move, MoveWith
  <2>3. CASE Answer(q, "ensure failed", "nothing")
    BY <2>1, <2>3, AnswerKeepsFile
  <2>4. QED
    BY <1>1, <2>2, <2>3 DEF EnsureDirectory
<1>2. CASE CopyOut(q)
  <2>1. r.edit \in Edits /\ UNCHANGED <<boxes, file>>
    BY <1>2, <1>i DEF CopyOut
  <2>2. CASE file # Missing /\ MoveWith(q, "edit", file, "nothing") /\ raced' = raced \ {q}
    <3>1. Spares(q)
      BY <1>t, <2>1, <2>2 DEF Spares
    <3>2. file \in Text /\ file' = file
      BY <1>t, <2>1, <2>2
    <3>3. Go(q, "edit", r.edit, file, r.late, "nothing")
      BY <2>2 DEF MoveWith
    <3>4. QED
      BY <1>t, <2>1, <3>1, <3>2, <3>3, GoKeepsFile
  <2>3. CASE r.edit.mode = "replace_file" /\ Move(q, "edit") /\ raced' = raced \ {q}
    <3>1. Spares(q)
      BY <1>t, <2>1, <2>3 DEF Spares
    <3>2. Go(q, "edit", r.edit, r.text, r.late, r.wrote)
      BY <2>3 DEF Move, MoveWith
    <3>3. QED
      BY <1>t, <2>1, <2>3, <3>1, <3>2, GoKeepsFile
  <2>4. CASE Answer(q, "copy failed", "nothing") /\ UNCHANGED raced
    BY <1>s, <2>1, <2>4, AnswerKeepsFile
  <2>5. QED
    BY <1>2, <2>2, <2>3, <2>4 DEF CopyOut
<1>3. CASE Edit(q)
  <2>1. Spares(q) /\ r.edit \in Edits /\ r.pc = "edit" /\ UNCHANGED <<file, raced>>
    BY <1>3, <1>i, <1>s DEF Edit
  <2>2. CASE \E answer \in {"edit failed", "timeout"} : Answer(q, answer, "nothing")
    BY <2>1, <2>2, AnswerKeepsFile
  <2>3. ASSUME Applicable(r.edit, r.text), NEW result \in Edited(r.edit, r.text),
               MoveWith(q, "back", result, "nothing")
        PROVE  FileInv'
    <3>1. Go(q, "back", r.edit, result, r.late, "nothing")
      BY <2>3 DEF MoveWith
    <3>2. CASE r.edit \in Replacements
      <4>1. /\ r.edit.mode = "replace_file" /\ r.edit.content \in Text
            /\ result = r.edit.content
        BY <2>3, <3>2 DEF Replacements, Edited
      <4>2. QED
        BY <1>t, <2>1, <3>1, <4>1, GoKeepsFile
    <3>3. CASE r.edit \in ContextEdits
      <4>1. r.edit.mode = "context_edit" /\ r.text \in Text
        BY <1>t, <2>3, <3>3 DEF ContextEdits, Applicable
      <4>2. result \in Text /\ Replaced(r.edit, r.text, result)
        BY <2>3, <3>3, <4>1, EditReplaces
      <4>3. q \notin raced' => file' \in Text /\ Replaced(r.edit, file', result)
        BY <1>i, <2>1, <4>1, <4>2
      <4>4. QED
        BY <1>t, <2>1, <3>1, <4>1, <4>2, <4>3, GoKeepsFile
    <3>4. QED
      BY <2>1, <3>2, <3>3 DEF CodeWriteAssumption
  <2>4. QED
    BY <1>3, <2>2, <2>3 DEF Edit
<1>4. CASE CopyBack(q)
  <2>1. r.edit \in Edits /\ r.text \in Text
    BY <1>4, <1>i DEF CopyBack
  <2>2. Spares(q)
    BY <1>4, <1>t, <2>1 DEF CopyBack, Change, Spares
  <2>3. PICK next \in {"exec", "check"} : Go(q, next, r.edit, r.text, r.late, "all")
    BY <1>4 DEF CopyBack, MoveWith
  <2>4. QED
    BY <1>t, <2>1, <2>2, <2>3, GoKeepsFile
<1>5. CASE CopyBackFails(q)
  <2>1. UNCHANGED boxes /\ r.text \in Text
    BY <1>5, <1>i DEF CopyBackFails
  <2>2. CASE Answer(q, "copy back failed", "nothing") /\ UNCHANGED <<file, raced>>
    BY <1>s, <2>1, <2>2, AnswerKeepsFile
  <2>3. ASSUME NEW n \in 0..Len(r.text), Change(SubSeq(r.text, 1, n), Requests \ {q}),
               Answer(q, "copy back failed", "some")
        PROVE  FileInv'
    <3>1. SubSeq(r.text, 1, n) \in Text
      <4>1. Len(r.text) \in Nat
        BY <2>1 DEF Text
      <4>2. 1 \in Int /\ n \in Int /\ n <= Len(r.text)
        BY <4>1
      <4>3. QED
        BY <2>1, <4>2, Part
    <3>2. Spares(q)
      BY <1>t, <2>1, <2>3, <3>1 DEF Change, Spares
    <3>3. QED
      BY <2>3, <3>2, AnswerKeepsFile
  <2>4. QED
    BY <1>5, <2>2, <2>3 DEF CopyBackFails
<1>6. CASE PostExec(q) \/ PostWait(q) \/ Check(q) \/ Build(q)
  <2>1. Spares(q) /\ r.edit \in Edits
    BY <1>6, <1>i, <1>s DEF PostExec, PostWait, Check, Build
  <2>2. CASE \E pc \in {"wait", "build"} : Move(q, pc)
    BY <1>t, <2>1, <2>2, GoKeepsFile DEF Move, MoveWith
  <2>3. CASE \E answer \in {"accepted", "exec failed", "exec result", "checks failed",
                            "build failed", "ok"} : Answer(q, answer, r.wrote)
    BY <1>t, <2>1, <2>3, AnswerKeepsFile
  <2>4. QED
    BY <1>6, <2>2, <2>3 DEF PostExec, PostWait, Check, Build
<1>7. QED
  BY <1>1, <1>2, <1>3, <1>4, <1>5, <1>6 DEF Step

LEMMA NextFileInv == FileInv /\ [WNext]_<<vars, wvars>> => FileInv'
<1> SUFFICES ASSUME FileInv, [WNext]_<<vars, wvars>> PROVE FileInv'
  OBVIOUS
<1>t. /\ boxes \subseteq Sandboxes /\ file \in Text \cup {Missing} /\ raced \subseteq Requests
      /\ Texts \cup {Missing} \subseteq Text \cup {Missing} /\ New \subseteq Sandboxes
  BY DEF FileInv, TypeOK
<1>1. ASSUME NEW q \in Requests, Deadline(q) PROVE FileInv'
  <2> DEFINE r == request[q]
  <2>1. r \in States
    BY DEF FileInv, TypeOK
  <2>2. Spares(q) /\ UNCHANGED <<file, raced>> /\ r.pc # "idle"
    BY <1>1, <1>t DEF Deadline, Spares
  <2>3. /\ r.edit \in Edits /\ r.text \in Text \cup {Missing}
        /\ r.wrote \in {"nothing", "some", "all"}
        /\ r.pc \in {"ensure", "copy", "edit", "back", "exec", "wait", "check", "build"}
    BY <2>1, <2>2 DEF FileInv, TextInv, States
  <2>4. PICK late \in BOOLEAN : Go(q, r.pc, r.edit, r.text, late, r.wrote)
    BY <1>1 DEF Deadline
  <2>5. /\ r.pc = "back" => r.text \in Text
        /\ r.pc = "back" /\ r.edit.mode = "replace_file" => r.text = r.edit.content
        /\ r.edit.mode = "context_edit" /\ q \notin raced' =>
               /\ r.pc = "edit" => file' \in Text /\ r.text = file'
               /\ r.pc = "back" => file' \in Text /\ Replaced(r.edit, file', r.text)
    BY <2>2 DEF FileInv, TextInv
  <2> DEFINE pc == r.pc
             edit == r.edit
             text == r.text
             wrote == r.wrote
  <2>6. /\ edit \in Edits /\ text \in Text \cup {Missing}
        /\ wrote \in {"nothing", "some", "all"}
        /\ pc \in {"ensure", "copy", "edit", "back", "exec", "wait", "check", "build"}
        /\ Go(q, pc, edit, text, late, wrote)
        /\ pc = "back" => text \in Text
        /\ pc = "back" /\ edit.mode = "replace_file" => text = edit.content
        /\ edit.mode = "context_edit" /\ q \notin raced' =>
               /\ pc = "edit" => file' \in Text /\ text = file'
               /\ pc = "back" => file' \in Text /\ Replaced(edit, file', text)
    BY <2>3, <2>4, <2>5
  <2> HIDE DEF pc, edit, text, wrote
  <2>7. QED
    BY <2>2, <2>6, GoKeepsFile
<1>2. ASSUME NEW q \in Requests, NEW edit \in Edits, Begin(q, edit) PROVE FileInv'
  <2>1. Spares(q)
    BY <1>2, <1>t DEF Begin, Spares
  <2>2. QED
    BY <1>2, <2>1, GoKeepsFile DEF Begin
<1>3. ASSUME NEW box, Gone(box), UNCHANGED request PROVE FileInv'
  <2>1. boxes' \subseteq Sandboxes
    BY <1>3, <1>t DEF Gone
  <2>2. UNCHANGED <<file, raced>> \/ Change(Missing, Requests)
    BY <1>3 DEF Gone
  <2>3. QED
    BY <1>3, <2>1, <2>2, FileChanges
<1>4. ASSUME Next PROVE FileInv'
  BY <1>1, <1>2, <1>3, <1>4, <1>t, StepKeepsFile, FileChanges
     DEF Next, SandboxWrites, SandboxDeleted
<1>5. ASSUME WStep PROVE FileInv'
  <2>1. CASE UNCHANGED vars
    BY <2>1, <1>t, FileChanges DEF vars, handled
  <2>2. ASSUME NEW box \in New, CreateStep(box) PROVE FileInv'
    BY <2>2, <1>t, FileChanges DEF CreateStep, handled
  <2>3. ASSUME NEW named, DeleteStep(named) PROVE FileInv'
    BY <2>3, <1>3 DEF DeleteStep
  <2>4. ASSUME NEW named, NEW text \in Texts \cup {Missing}, RollbackStep(named, text)
        PROVE  FileInv'
    BY <2>4, <1>t, FileChanges DEF RollbackStep
  <2>5. QED
    BY <1>5, <2>1, <2>2, <2>3, <2>4
       DEF WStep, StepFails, ExecStep, SubscribeFails, ExecNoWait, ExecWait, WaitReturns,
           WaitFails, WaitTimeout, SnapshotStep, Finish
<1>6. CASE UNCHANGED vars
  BY <1>6, <1>t, FileChanges DEF vars, handled
<1>7. QED
  BY <1>4, <1>5, <1>6 DEF WNext, TaskEnds

-----------------------------------------------------------------------------
(***************************************************************************)
(* The workflow.                                                           *)
(***************************************************************************)

LEMMA InitRunInv == WInit => RunInv
<1> SUFFICES ASSUME WInit PROVE RunInv
  OBVIOUS
<1>1. RunTypes
  BY DEF WInit, RunTypes, Between, Init
<1>2. StepInv /\ TaskInv /\ DoneInv
  BY DEF WInit, StepInv, TaskInv, DoneInv, AllSucceeded, Agree, Between
<1>3. QED
  BY <1>1, <1>2 DEF RunInv

\* What an entry at the end does to the sequence.
LEMMA Appended ==
    ASSUME NEW S, NEW seq \in Seq(S), NEW x \in S
    PROVE  /\ Append(seq, x) \in Seq(S)
           /\ Len(Append(seq, x)) = Len(seq) + 1
           /\ Append(seq, x)[Len(seq) + 1] = x
           /\ \A k \in 1..Len(seq) : Append(seq, x)[k] = seq[k]
           /\ Append(seq, x) # <<>>
  OBVIOUS

\* An effect and its entry at once: the step is over, and has succeeded.
LEMMA DoneAtOnce ==
    ASSUME RunInv, run.pc = "step", boxes' \subseteq Sandboxes, UNCHANGED task,
           NEW action \in Kinds, NEW id \in Sandboxes,
           Do(action, id), Report(action, "succeeded", id)
    PROVE  RunInv'
<1> DEFINE entry == Entry(action, "succeeded", id, "none")
           effect == [action |-> action, id |-> id]
<1>1. /\ steps \in Seq(Entries) /\ effects \in Seq(Effects)
      /\ Len(effects) = Len(steps) /\ AllSucceeded(Len(steps)) /\ Agree(Len(steps))
  BY DEF RunInv, RunTypes, StepInv
<1>2. entry \in Entries /\ entry.status = "succeeded"
      /\ effect = [action |-> entry.action, id |-> entry.id]
  BY DEF Entry, Entries
<1>3. effect \in Effects
  BY DEF Effects
<1>4. steps' = Append(steps, entry) /\ effects' = Append(effects, effect) /\ run' = Between
  BY DEF Report, ReportResult, Do
<1> HIDE DEF entry, effect
<1>5. /\ steps' \in Seq(Entries) /\ Len(steps') = Len(steps) + 1
      /\ steps'[Len(steps) + 1] = entry /\ \A k \in 1..Len(steps) : steps'[k] = steps[k]
  BY <1>1, <1>2, <1>4, Appended
<1>6. /\ effects' \in Seq(Effects) /\ Len(effects') = Len(steps) + 1
      /\ effects'[Len(steps) + 1] = effect
      /\ \A k \in 1..Len(steps) : effects'[k] = effects[k]
  BY <1>1, <1>3, <1>4, Appended
<1>7. \A k \in 1..Len(steps') : k \in 1..Len(steps) \/ k = Len(steps) + 1
  BY <1>1, <1>5
<1>8. AllSucceeded(Len(steps))'
  BY <1>1, <1>2, <1>5, <1>7 DEF AllSucceeded
<1>9. Agree(Len(steps))'
  BY <1>1, <1>2, <1>5, <1>6, <1>7 DEF Agree
<1>10. RunTypes'
  BY <1>4, <1>5, <1>6 DEF RunInv, RunTypes, Between
<1>11. StepInv' /\ TaskInv' /\ DoneInv'
  BY <1>4, <1>5, <1>6, <1>8, <1>9 DEF StepInv, TaskInv, DoneInv, Between
<1>12. QED
  BY <1>10, <1>11 DEF RunInv

\* The entry of a task whose effect is there already, unless the step failed.
LEMMA TaskReported ==
    ASSUME RunInv, run.pc \in {"started", "wait"}, UNCHANGED <<boxes, task, effects>>,
           NEW status \in {"succeeded", "failed", "timed_out"}, NEW id,
           NEW result \in {"none", "running", "final"},
           id = (IF status = "failed" THEN None ELSE run.task),
           ReportResult("exec_command", status, id, result)
    PROVE  RunInv'
<1> DEFINE entry == Entry("exec_command", status, id, result)
<1>1. /\ steps \in Seq(Entries) /\ effects \in Seq(Effects)
      /\ run.task \in Tasks
      /\ Len(effects) = Len(steps) + 1 /\ AllSucceeded(Len(steps)) /\ Agree(Len(steps))
      /\ effects[Len(steps) + 1] = [action |-> "exec_command", id |-> run.task]
  BY DEF RunInv, RunTypes, TaskInv
<1>2. entry \in Entries /\ entry.status = status
      /\ entry.action = "exec_command" /\ entry.id = id
  BY <1>1 DEF Entry, Entries, Kinds
<1>3. /\ steps' = Append(steps, entry)
      /\ run' = IF status = "succeeded" THEN Between ELSE [Between EXCEPT !.pc = "done"]
  BY DEF ReportResult
<1> HIDE DEF entry
<1>4. /\ steps' \in Seq(Entries) /\ Len(steps') = Len(steps) + 1
      /\ steps'[Len(steps) + 1] = entry /\ \A k \in 1..Len(steps) : steps'[k] = steps[k]
      /\ steps' # <<>>
  BY <1>1, <1>2, <1>3, Appended
<1>5. \A k \in 1..Len(steps') : k \in 1..Len(steps) \/ k = Len(steps) + 1
  BY <1>1, <1>4
<1>6. AllSucceeded(Len(steps) - 1)' /\ Agree(Len(steps) - 1)'
  <2>1. Len(steps') - 1 = Len(steps) /\ effects' = effects /\ Len(steps) \in Nat
    BY <1>1, <1>4
  <2>2. \A k \in 1..(Len(steps') - 1) :
            steps'[k] = steps[k] /\ steps[k].status = "succeeded"
            /\ effects'[k] = [action |-> steps[k].action, id |-> steps[k].id]
    BY <1>1, <1>4, <2>1 DEF AllSucceeded, Agree
  <2>3. QED
    BY <2>2 DEF AllSucceeded, Agree
<1>7. status = "succeeded" => AllSucceeded(Len(steps))'
  BY <1>1, <1>2, <1>4, <1>5 DEF AllSucceeded
<1>8. status # "failed" => Agree(Len(steps))'
  BY <1>1, <1>2, <1>4, <1>5 DEF Agree
<1>9. run' = [pc |-> IF status = "succeeded" THEN "step" ELSE "done",
              box |-> None, task |-> None]
  BY <1>3 DEF Between
<1>10. RunTypes'
  BY <1>4, <1>9 DEF RunInv, RunTypes
<1>11. StepInv' /\ TaskInv'
  BY <1>1, <1>4, <1>7, <1>8, <1>9 DEF StepInv, TaskInv
<1>12. DoneInv'
  BY <1>1, <1>2, <1>4, <1>6, <1>8, <1>9 DEF DoneInv
<1>13. QED
  BY <1>10, <1>11, <1>12 DEF RunInv

LEMMA NextRunInv == RunInv /\ [WNext]_<<vars, wvars>> => RunInv'
<1> SUFFICES ASSUME RunInv, [WNext]_<<vars, wvars>> PROVE RunInv'
  OBVIOUS
<1>t. /\ RunTypes /\ boxes \subseteq Sandboxes /\ DOMAIN task = Tasks
      /\ steps \in Seq(Entries) /\ effects \in Seq(Effects)
  BY DEF RunInv, RunTypes
<1>u. ASSUME UNCHANGED <<run, steps, effects>>, boxes' \subseteq Sandboxes,
             DOMAIN task' = Tasks
      PROVE  RunInv'
  BY <1>u DEF RunInv, RunTypes, StepInv, TaskInv, DoneInv, AllSucceeded, Agree
<1>1. CASE StepFails
  <2> DEFINE entry == Entry("any", "failed", None, "none")
  <2>1. entry \in Entries /\ entry.status = "failed"
    BY DEF Entry, Entries, Kinds
  <2>2. /\ steps' = Append(steps, entry) /\ run.pc = "step"
        /\ run' = [pc |-> "done", box |-> None, task |-> None]
        /\ UNCHANGED <<boxes, task, effects>>
    BY <1>1 DEF StepFails, Ready, Report, ReportResult, Between, vars
  <2> HIDE DEF entry
  <2>3. /\ Len(effects) = Len(steps) /\ AllSucceeded(Len(steps)) /\ Agree(Len(steps))
    BY <2>2 DEF RunInv, StepInv
  <2>4. /\ steps' \in Seq(Entries) /\ Len(steps') = Len(steps) + 1 /\ steps' # <<>>
        /\ steps'[Len(steps) + 1] = entry /\ \A k \in 1..Len(steps) : steps'[k] = steps[k]
    BY <1>t, <2>1, <2>2, Appended
  <2>5. AllSucceeded(Len(steps) - 1)' /\ Agree(Len(steps) - 1)'
    BY <1>t, <2>2, <2>3, <2>4 DEF AllSucceeded, Agree
  <2>6. RunTypes'
    BY <1>t, <2>2, <2>4 DEF RunTypes
  <2>7. StepInv' /\ TaskInv' /\ DoneInv'
    BY <1>t, <2>1, <2>2, <2>3, <2>4, <2>5 DEF StepInv, TaskInv, DoneInv
  <2>8. QED
    BY <2>6, <2>7 DEF RunInv
<1>2. ASSUME NEW box \in New, CreateStep(box) PROVE RunInv'
  <2>1. box \in Sandboxes /\ boxes' \subseteq Sandboxes
    BY <1>t, <1>2 DEF CreateStep
  <2>2. QED
    BY <1>2, <2>1, DoneAtOnce DEF CreateStep, Ready, Kinds
<1>3. ASSUME NEW named \in Sandboxes \cup {None}, NEW t \in Tasks, ExecStep(named, t)
      PROVE  RunInv'
  <2> DEFINE effect == [action |-> "exec_command", id |-> t]
  <2>1. Target(named) \in Sandboxes
    BY <1>t, <1>3 DEF ExecStep, Authorized
  <2>2. /\ run.pc = "step" /\ UNCHANGED <<boxes, steps>>
        /\ run' = [pc |-> "started", box |-> Target(named), task |-> t]
        /\ effects' = Append(effects, effect)
        /\ DOMAIN task' = Tasks
    BY <1>t, <1>3 DEF ExecStep, Ready, Do, vars
  <2>3. effect \in Effects
    BY DEF Effects, Kinds
  <2> HIDE DEF effect
  <2>4. /\ Len(effects) = Len(steps) /\ AllSucceeded(Len(steps)) /\ Agree(Len(steps))
    BY <2>2 DEF RunInv, StepInv
  <2>5. /\ effects' \in Seq(Effects) /\ Len(effects') = Len(steps) + 1
        /\ effects'[Len(steps) + 1] = effect
        /\ \A k \in 1..Len(steps) : effects'[k] = effects[k]
    BY <1>t, <2>2, <2>3, <2>4, Appended
  <2>6. AllSucceeded(Len(steps))' /\ Agree(Len(steps))'
    BY <2>2, <2>4, <2>5 DEF AllSucceeded, Agree
  <2>7. RunTypes'
    BY <1>t, <2>1, <2>2, <2>5 DEF RunTypes
  <2>8. StepInv' /\ TaskInv' /\ DoneInv'
    BY <2>2, <2>5, <2>6 DEF StepInv, TaskInv, DoneInv, effect
  <2>9. QED
    BY <2>7, <2>8 DEF RunInv
<1>4. CASE SubscribeFails \/ WaitFails
  BY <1>4, TaskReported DEF SubscribeFails, WaitFails, Report, vars
<1>5. CASE ExecNoWait \/ WaitReturns \/ WaitTimeout
  BY <1>5, TaskReported DEF ExecNoWait, WaitReturns, WaitTimeout, vars
<1>6. CASE ExecWait
  <2>1. /\ run.pc = "started" /\ UNCHANGED <<boxes, task, steps, effects>>
        /\ run' = [pc |-> "wait", box |-> run.box, task |-> run.task]
    BY <1>t, <1>6 DEF ExecWait, RunTypes, vars
  <2>2. QED
    BY <2>1 DEF RunInv, RunTypes, StepInv, TaskInv, DoneInv, AllSucceeded, Agree
<1>7. ASSUME NEW named \in Sandboxes \cup {None}, SnapshotStep(named) PROVE RunInv'
  <2>1. Target(named) \in Sandboxes
    BY <1>t, <1>7 DEF SnapshotStep, Authorized
  <2>2. QED
    BY <1>t, <1>7, <2>1, DoneAtOnce DEF SnapshotStep, Ready, Kinds, vars
<1>8. ASSUME NEW named \in Sandboxes \cup {None}, NEW text, RollbackStep(named, text)
      PROVE  RunInv'
  <2>1. Target(named) \in Sandboxes
    BY <1>t, <1>8 DEF RollbackStep, Authorized
  <2>2. QED
    BY <1>t, <1>8, <2>1, DoneAtOnce DEF RollbackStep, Ready, Kinds
<1>9. ASSUME NEW named \in Sandboxes \cup {None}, DeleteStep(named) PROVE RunInv'
  <2>1. Target(named) \in Sandboxes /\ boxes' \subseteq Sandboxes
    BY <1>t, <1>9 DEF DeleteStep, Authorized, Gone
  <2>2. QED
    BY <1>9, <2>1, DoneAtOnce DEF DeleteStep, Ready, Kinds
<1>10. CASE Finish
  <2>1. /\ run.pc = "step" /\ steps # <<>> /\ UNCHANGED <<boxes, task, steps, effects>>
        /\ run' = [pc |-> "done", box |-> run.box, task |-> run.task]
    BY <1>t, <1>10 DEF Finish, RunTypes, vars
  <2>2. /\ Len(effects) = Len(steps) /\ AllSucceeded(Len(steps)) /\ Agree(Len(steps))
    BY <2>1 DEF RunInv, StepInv
  <2>3. Len(steps) \in Nat /\ Len(steps) > 0 /\ steps[Len(steps)].status # "failed"
    BY <1>t, <2>1, <2>2 DEF AllSucceeded
  <2>4. AllSucceeded(Len(steps) - 1)' /\ Agree(Len(steps) - 1)' /\ Agree(Len(steps))'
    BY <2>1, <2>2, <2>3 DEF AllSucceeded, Agree
  <2>5. RunTypes'
    BY <1>t, <2>1 DEF RunTypes
  <2>6. StepInv' /\ TaskInv' /\ DoneInv'
    BY <2>1, <2>2, <2>3, <2>4 DEF StepInv, TaskInv, DoneInv
  <2>7. QED
    BY <2>5, <2>6 DEF RunInv
<1>11. ASSUME NEW t \in Tasks, TaskEnds(t) PROVE RunInv'
  BY <1>t, <1>11, <1>u DEF TaskEnds, vars
<1>12. CASE Next /\ UNCHANGED wvars
  <2>1. boxes' \subseteq boxes
    BY <1>12
       DEF Next, Step, EnsureDirectory, CopyOut, Edit, CopyBack, CopyBackFails, PostExec,
           PostWait, Check, Build, Deadline, Begin, SandboxWrites, SandboxDeleted, Gone
  <2>2. QED
    BY <1>12, <1>t, <1>u, <2>1 DEF wvars
<1>13. CASE UNCHANGED <<vars, wvars>>
  BY <1>13, <1>t, <1>u DEF vars, wvars
<1>14. QED
  BY <1>1, <1>2, <1>3, <1>4, <1>5, <1>6, <1>7, <1>8, <1>9, <1>10, <1>11, <1>12, <1>13
     DEF WNext, WStep

\* The tasks and the default sandbox have their types.
Holdings == task \in [Tasks -> {"none", "running", "final"}] /\ current \in New \cup {None}

LEMMA NextHoldings == Holdings /\ [WNext]_<<vars, wvars>> => Holdings'
<1> SUFFICES ASSUME Holdings, [WNext]_<<vars, wvars>> PROVE Holdings'
  OBVIOUS
<1>u. ASSUME UNCHANGED <<task, current>> PROVE Holdings'
  BY <1>u DEF Holdings
<1>1. ASSUME NEW box \in New, CreateStep(box) PROVE Holdings'
  BY <1>1 DEF CreateStep, Holdings
<1>2. ASSUME NEW named, NEW t \in Tasks, ExecStep(named, t) PROVE Holdings'
  BY <1>2 DEF ExecStep, Holdings
<1>3. ASSUME NEW named, DeleteStep(named) PROVE Holdings'
  BY <1>3 DEF DeleteStep, Holdings
<1>4. ASSUME NEW t \in Tasks, TaskEnds(t) PROVE Holdings'
  BY <1>4 DEF TaskEnds, Holdings
<1>5. CASE UNCHANGED <<task, current>>
  BY <1>5, <1>u
<1>6. QED
  BY <1>1, <1>2, <1>3, <1>4, <1>5
     DEF WNext, WStep, StepFails, SubscribeFails, ExecNoWait, ExecWait, WaitReturns,
         WaitFails, WaitTimeout, SnapshotStep, RollbackStep, Finish, wvars

-----------------------------------------------------------------------------
(***************************************************************************)
(* Theorems.                                                               *)
(***************************************************************************)

\* Code writes go through their steps in order, also beside a workflow that changes
\* their file.
THEOREM WriteInvariance == WSpec => []WIInv
<1>1. WInit => WIInv
  BY InitWIInv DEF WInit
<1>2. WIInv /\ [WNext]_<<vars, wvars>> => WIInv'
  <2>1. WIInv /\ UNCHANGED request => WIInv'
    BY DEF WIInv, WriteInv, AnswerTellsWritten
  <2>2. QED
    BY <2>1, NextWIInv, StepsApart
<1>3. QED
  BY <1>1, <1>2, PTL DEF WSpec

\* A client can tell from the answer whether its file was written.
THEOREM AnswersTell == WSpec => []AnswerTellsWritten
<1>1. WIInv => AnswerTellsWritten
  BY DEF WIInv
<1>2. QED
  BY <1>1, WriteInvariance, PTL

\* A copy that was not overtaken is of the file as it is, and then what the client
\* asked to make of it, also beside a workflow.
THEOREM FileInvariance == WSpec => []FileInv
<1>1. WInit => FileInv
  BY InitFileInv DEF WInit
<1>2. QED
  BY <1>1, NextFileInv, PTL DEF WSpec

\* To copy the file out, edit it and copy it back is the edit that was asked for,
\* unless the file was changed meanwhile.
THEOREM WritesAreEdits == WSpec => WriteIsTheEdit
<1>1. FileInv /\ WIInv /\ [WNext]_<<vars, wvars>> =>
          [\A q \in Requests :
              /\ request[q].pc = "back" /\ request'[q].wrote = "all"
              /\ q \notin raced
              => LET edit == request[q].edit
                 IN  \/ edit.mode = "replace_file" /\ file' = edit.content
                     \/ edit.mode = "context_edit" /\ Replaced(edit, file, file')]_vars
  <2> SUFFICES ASSUME FileInv, WIInv, [WNext]_<<vars, wvars>>, NEW q \in Requests,
                      request[q].pc = "back", request'[q].wrote = "all", q \notin raced
               PROVE  LET edit == request[q].edit
                      IN  \/ edit.mode = "replace_file" /\ file' = edit.content
                          \/ edit.mode = "context_edit" /\ Replaced(edit, file, file')
    OBVIOUS
  <2>1. request[q].wrote = "nothing"
    BY DEF WIInv, WriteInv
  <2>2. request'[q] # request[q]
    BY <2>1
  <2>3. DOMAIN request = Requests
    BY DEF WIInv
  <2>4. [Next]_vars
    BY <2>2, StepsApart
  <2>5. ASSUME NEW o \in Requests, Deadline(o) \/ Step(o) \/ \E edit \in Edits : Begin(o, edit)
        PROVE  o = q
    BY <2>2, <2>3, <2>5
       DEF Deadline, Begin, Step, EnsureDirectory, CopyOut, Edit, CopyBack, CopyBackFails,
           PostExec, PostWait, Check, Build, Move, MoveWith, Go, Answer
  <2>6. ASSUME Deadline(q) PROVE FALSE
    BY <2>1, <2>3, <2>6 DEF Deadline, Go
  <2>7. ASSUME CopyBackFails(q) PROVE FALSE
    <3>1. PICK wrote \in {"nothing", "some"} : Answer(q, "copy back failed", wrote)
      BY <2>7 DEF CopyBackFails
    <3>2. request'[q] = Ended("copy back failed", wrote)
      BY <2>3, <3>1 DEF Answer
    <3>3. Ended("copy back failed", wrote).wrote = wrote
      BY DEF Ended
    <3>4. wrote = "all"
      BY <3>2, <3>3
    <3>5. QED
      BY <3>1, <3>4
  <2>8. CopyBack(q)
    BY <2>2, <2>4, <2>5, <2>6, <2>7
       DEF Next, Step, SandboxWrites, SandboxDeleted, vars, handled, Begin, EnsureDirectory,
           CopyOut, Edit, PostExec, PostWait, Check, Build
  <2>9. file' = request[q].text
    BY <2>8 DEF CopyBack, Change
  <2>10. request[q].edit \in ContextEdits \/ request[q].edit \in Replacements
    BY DEF FileInv, TextInv, CodeWriteAssumption
  <2>11. request[q].edit.mode \in {"context_edit", "replace_file"}
    BY <2>10 DEF ContextEdits, Replacements
  <2>12. QED
    BY <2>9, <2>11 DEF FileInv, TextInv
<1>2. QED
  BY <1>1, FileInvariance, WriteInvariance, PTL DEF WSpec, WriteIsTheEdit

\* Effects and entries of a workflow agree step by step.
THEOREM RunInvariance == WSpec => []RunInv
  BY InitRunInv, NextRunInv, PTL DEF WSpec

\* The handlers stay in the states that are declared.
THEOREM WorkflowTypeCorrect == WSpec => []WorkflowTypeOK
<1>1. WInit => Holdings
  BY DEF WInit, Holdings
<1>2. FileInv /\ RunInv /\ Holdings => WorkflowTypeOK
  BY DEF FileInv, RunInv, RunTypes, Holdings, WorkflowTypeOK, Entries, Effects
<1>3. QED
  BY <1>1, <1>2, NextHoldings, FileInvariance, RunInvariance, PTL DEF WSpec

\* The answer names everything that was done, but for the task of a failed step.
THEOREM EffectsAreReported == WSpec => []EffectsReported
<1>1. RunInv => EffectsReported
  <2> SUFFICES ASSUME RunInv PROVE EffectsReported
    OBVIOUS
  <2>t. steps \in Seq(Entries) /\ effects \in Seq(Effects) /\ Len(steps) \in Nat
    BY DEF RunInv, RunTypes
  <2>1. ASSUME NEW n \in Nat, Len(effects) = n, Agree(n)
        PROVE  effects = [k \in 1..n |-> [action |-> steps[k].action, id |-> steps[k].id]]
    BY <2>t, <2>1 DEF Agree
  <2>2. ASSUME NEW n \in Nat, Len(effects) = n + 1, Agree(n),
               Reported = [k \in 1..n |->
                              [action |-> steps[k].action, id |-> steps[k].id]]
        PROVE  /\ Len(effects) = Len(Reported) + 1
               /\ \A k \in 1..Len(Reported) : effects[k] = Reported[k]
    <3>1. Len(Reported) = n
      BY <2>2
    <3>2. QED
      BY <2>2, <3>1 DEF Agree
  <2>3. CASE run.pc = "step"
    <3>1. /\ Len(effects) = Len(steps) /\ Agree(Len(steps))
          /\ steps # <<>> => steps[Len(steps)].status # "failed"
      BY <2>t, <2>3 DEF RunInv, StepInv, AllSucceeded
    <3>2. QED
      BY <2>t, <2>1, <3>1 DEF EffectsReported, Reported
  <2>4. CASE run.pc \in {"started", "wait"}
    <3>1. /\ Len(effects) = Len(steps) + 1 /\ Agree(Len(steps))
          /\ steps # <<>> => steps[Len(steps)].status # "failed"
          /\ effects[Len(effects)].action = "exec_command"
      BY <2>t, <2>4 DEF RunInv, TaskInv, AllSucceeded
    <3>2. Reported = [k \in 1..Len(steps) |->
                         [action |-> steps[k].action, id |-> steps[k].id]]
      BY <3>1 DEF Reported
    <3>3. QED
      BY <2>t, <2>2, <2>4, <3>1, <3>2 DEF EffectsReported
  <2>5. CASE run.pc = "done" /\ steps[Len(steps)].status # "failed"
    <3>1. Len(effects) = Len(steps) /\ Agree(Len(steps))
      BY <2>5 DEF RunInv, DoneInv
    <3>2. QED
      BY <2>t, <2>1, <2>5, <3>1 DEF EffectsReported, Reported
  <2>6. CASE run.pc = "done" /\ steps[Len(steps)].status = "failed"
    <3>1. steps # <<>> /\ Agree(Len(steps) - 1)
          /\ \/ Len(effects) = Len(steps) - 1
             \/ /\ Len(effects) = Len(steps)
                /\ effects[Len(effects)].action = "exec_command"
      BY <2>6 DEF RunInv, DoneInv
    <3>2. Len(steps) - 1 \in Nat /\ Len(steps) = (Len(steps) - 1) + 1
      BY <2>t, <3>1
    <3>3. Reported = [k \in 1..(Len(steps) - 1) |->
                         [action |-> steps[k].action, id |-> steps[k].id]]
      BY <2>6, <3>1 DEF Reported
    <3>4. CASE Len(effects) = Len(steps) - 1
      BY <2>1, <3>1, <3>2, <3>3, <3>4 DEF EffectsReported
    <3>5. CASE Len(effects) = Len(steps) /\ effects[Len(effects)].action = "exec_command"
      BY <2>2, <2>6, <3>1, <3>2, <3>3, <3>5 DEF EffectsReported
    <3>6. QED
      BY <3>1, <3>4, <3>5
  <2>7. run.pc \in {"step", "started", "wait", "done"}
    BY DEF RunInv, RunTypes
  <2>8. QED
    BY <2>3, <2>4, <2>5, <2>6, <2>7
<1>2. QED
  BY <1>1, RunInvariance, PTL

\* After a step that failed or timed out nothing is done any more, and nothing is
\* undone.
NothingAfterFailure ==
    [][(\E k \in DOMAIN steps : steps[k].status # "succeeded")
           => effects' = effects /\ steps' = steps]_<<vars, wvars>>

\* Nothing is done after a step that failed or timed out.
THEOREM FailureIsTheEnd == WSpec => NothingAfterFailure
<1>1. RunInv /\ [WNext]_<<vars, wvars>> =>
          [(\E k \in DOMAIN steps : steps[k].status # "succeeded")
               => effects' = effects /\ steps' = steps]_<<vars, wvars>>
  <2> SUFFICES ASSUME RunInv, [WNext]_<<vars, wvars>>,
                      NEW k \in DOMAIN steps, steps[k].status # "succeeded"
               PROVE  effects' = effects /\ steps' = steps
    OBVIOUS
  <2>1. k \in 1..Len(steps)
    BY DEF RunInv, RunTypes
  <2>2. run.pc = "done"
    BY <2>1 DEF RunInv, RunTypes, StepInv, TaskInv, AllSucceeded
  <2>3. ~WStep
    BY <2>2
       DEF WStep, StepFails, CreateStep, ExecStep, SubscribeFails, ExecNoWait, ExecWait,
           WaitReturns, WaitFails, WaitTimeout, SnapshotStep, RollbackStep, DeleteStep,
           Finish, Ready
  <2>4. QED
    BY <2>3 DEF WNext, wvars, TaskEnds
<1>2. QED
  BY <1>1, RunInvariance, PTL DEF WSpec, NothingAfterFailure
-----------------------------------------------------------------------------
(***************************************************************************)
(* The workflow and its promise.                                           *)
(***************************************************************************)

\* The default is the sandbox created last, unless it has been deleted.
DefaultInv == Promise!IsDefault(current, effects)

\* Only the last creation can stand.
LEMMA OneStands ==
    ASSUME NEW S, NEW d \in Seq(S), NEW j \in 1..Len(d), NEW k \in 1..Len(d),
           Promise!Standing(d, j), Promise!Standing(d, k)
    PROVE  j = k
  BY DEF Promise!Standing

\* What stands behind one more deed stood before it.
LEMMA StoodBefore ==
    ASSUME NEW S, NEW d \in Seq(S), NEW e \in S, NEW k \in 1..Len(d),
           Promise!Standing(Append(d, e), k)
    PROVE  /\ Promise!Standing(d, k)
           /\ e # [action |-> "delete_sandbox", id |-> d[k].id]
<1> DEFINE next == Append(d, e)
<1>1. /\ Len(d) \in Nat /\ Len(next) = Len(d) + 1 /\ next[Len(d) + 1] = e
      /\ \A i \in 1..Len(d) : next[i] = d[i]
  BY Appended
<1> HIDE DEF next
<1>2. Promise!Standing(next, k)
  BY DEF next
<1>3. QED
  BY <1>1, <1>2 DEF Promise!Standing

\* Neither a creation nor the deletion of the default changes what the default is.
LEMMA DefaultKept ==
    ASSUME NEW S, NEW d \in Seq(S), NEW e \in S, NEW box, Promise!IsDefault(box, d),
           e.action # "create_sandbox",
           e # [action |-> "delete_sandbox", id |-> box]
    PROVE  Promise!IsDefault(box, Append(d, e))
<1> DEFINE next == Append(d, e)
<1>1. /\ Len(d) \in Nat /\ Len(next) = Len(d) + 1 /\ next[Len(d) + 1] = e
      /\ \A i \in 1..Len(d) : next[i] = d[i]
  BY Appended
<1>2. \A k \in 1..Len(d) : Promise!Standing(next, k) => Promise!Standing(d, k)
  BY StoodBefore
<1> HIDE DEF next
<1>3. ASSUME NEW k \in 1..Len(d), Promise!Standing(d, k), box = d[k].id
      PROVE  Promise!IsDefault(box, next)
  <2>1. Promise!Standing(next, k)
    BY <1>1, <1>3 DEF Promise!Standing
  <2>2. k \in 1..Len(next) /\ box = next[k].id
    BY <1>1, <1>3
  <2>3. QED
    BY <2>1, <2>2 DEF Promise!IsDefault
<1>4. ASSUME box = None, \A k \in 1..Len(d) : ~Promise!Standing(d, k)
      PROVE  Promise!IsDefault(box, next)
  <2>1. ~Promise!Standing(next, Len(d) + 1)
    BY <1>1 DEF Promise!Standing
  <2>2. \A k \in 1..Len(next) : k \in 1..Len(d) \/ k = Len(d) + 1
    BY <1>1
  <2>3. QED
    BY <1>2, <1>4, <2>1, <2>2 DEF Promise!IsDefault
<1>5. Promise!IsDefault(box, next)
  BY <1>3, <1>4 DEF Promise!IsDefault
<1>6. QED
  BY <1>5 DEF next

\* The sandbox that was just created is the default.
LEMMA DefaultCreated ==
    ASSUME NEW S, NEW d \in Seq(S), NEW e \in S, e.action = "create_sandbox"
    PROVE  Promise!IsDefault(e.id, Append(d, e))
<1> DEFINE next == Append(d, e)
<1>1. Len(d) \in Nat /\ Len(next) = Len(d) + 1 /\ next[Len(d) + 1] = e
  BY Appended
<1> HIDE DEF next
<1>2. Promise!Standing(next, Len(d) + 1)
  BY <1>1 DEF Promise!Standing
<1>3. Promise!IsDefault(e.id, next)
  BY <1>1, <1>2 DEF Promise!IsDefault
<1>4. QED
  BY <1>3 DEF next

\* With the default deleted there is none.
LEMMA DefaultDeleted ==
    ASSUME NEW S, NEW d \in Seq(S), NEW e \in S, NEW box, Promise!IsDefault(box, d),
           box # None, e = [action |-> "delete_sandbox", id |-> box]
    PROVE  Promise!IsDefault(None, Append(d, e))
<1> DEFINE next == Append(d, e)
<1>1. Len(d) \in Nat /\ Len(next) = Len(d) + 1 /\ next[Len(d) + 1] = e
  BY Appended
<1>2. PICK k \in 1..Len(d) : Promise!Standing(d, k) /\ box = d[k].id
  BY DEF Promise!IsDefault
<1>3. ASSUME NEW j \in 1..Len(d) PROVE ~Promise!Standing(next, j)
  <2>1. Promise!Standing(next, j) => Promise!Standing(d, j) /\ box # d[j].id
    BY StoodBefore
  <2>2. QED
    BY <1>2, <2>1, OneStands
<1> HIDE DEF next
<1>4. ~Promise!Standing(next, Len(d) + 1)
  BY <1>1 DEF Promise!Standing
<1>5. \A j \in 1..Len(next) : j \in 1..Len(d) \/ j = Len(d) + 1
  BY <1>1
<1>6. Promise!IsDefault(None, next)
  BY <1>3, <1>4, <1>5 DEF Promise!IsDefault
<1>7. QED
  BY <1>6 DEF next

\* A step of the workflow is one of its promise, or changes nothing that was promised.
PromiseStep ==
    \/ Promise!Next
    \/ UNCHANGED <<effects, steps, current, run.pc # "done">>

\* Between two steps each deed has its entry; within one a task is without it.
LEMMA EvenBetween ==
    ASSUME RunInv
    PROVE  /\ run.pc = "step" => Promise!Even
           /\ Ready => Promise!Left
           /\ run.pc \in {"started", "wait"} =>
                 ~Promise!Even /\ effects[Len(effects)].id = run.task
  BY DEF RunInv, RunTypes, StepInv, TaskInv, Ready, Promise!Even, Promise!Left

\* The deed of a step and its entry.
LEMMA ActStep ==
    ASSUME RunInv, Ready, NEW action \in {"create_sandbox", "create_snapshot",
                                          "rollback_snapshot", "delete_sandbox"},
           NEW box \in Sandboxes, Do(action, box), Report(action, "succeeded", box),
           DefaultInv'
    PROVE  Promise!Next
<1>1. Promise!Left /\ run.pc # "done"
  BY EvenBetween DEF Ready
<1>2. Promise!Do(action, box)
  BY DEF Do, Promise!Do
<1>3. Promise!Tell(action, "succeeded", box)
  BY DEF Report, ReportResult, Entry, Promise!Tell
<1>4. run'.pc # "done"
  BY DEF Report, ReportResult, Between
<1>5. Promise!Act(action, box)
  BY <1>1, <1>2, <1>3, <1>4 DEF Promise!Act
<1>6. QED
  BY <1>1, <1>5 DEF Promise!Next, DefaultInv

\* The default stands while neither it nor what was done changes.
LEMMA DefaultStands == DefaultInv /\ UNCHANGED <<current, effects>> => DefaultInv'
  BY DEF DefaultInv

\* The entry of a task that was started, whose step ends with it.
LEMMA TellStep ==
    ASSUME RunInv, DefaultInv, run.pc \in {"started", "wait"}, UNCHANGED <<current, effects>>,
           NEW status \in {"succeeded", "timed_out"},
           ReportResult("exec_command", status, run.task, "running")
    PROVE  Promise!Next
<1>1. ~Promise!Even /\ effects[Len(effects)].id = run.task
  BY EvenBetween
<1>2. Promise!Tell("exec_command", status, effects[Len(effects)].id)
  BY <1>1 DEF ReportResult, Entry, Promise!Tell
<1>3. (run'.pc # "done") = (status = "succeeded")
  BY DEF ReportResult, Between
<1>4. Promise!TellTask
  BY <1>1, <1>2, <1>3 DEF Promise!TellTask
<1>5. QED
  BY <1>4, DefaultStands DEF Promise!Next, DefaultInv

\* The entry of a step that failed, after which nothing is done.
LEMMA FailStep ==
    ASSUME RunInv, DefaultInv, Ready \/ run.pc \in {"started", "wait"},
           UNCHANGED <<current, effects>>,
           NEW action \in {"any", "exec_command"}, Report(action, "failed", None)
    PROVE  Promise!Next
<1>1. (Promise!Left \/ ~Promise!Even) /\ run.pc # "done"
  BY EvenBetween DEF Ready
<1>2. Promise!Tell(action, "failed", None)
  BY DEF Report, ReportResult, Entry, Promise!Tell
<1>3. (run'.pc # "done") = FALSE
  BY DEF Report, ReportResult, Between
<1>4. Promise!Fail
  BY <1>1, <1>2, <1>3 DEF Promise!Fail
<1>5. QED
  BY <1>1, <1>4, DefaultStands DEF Promise!Next, DefaultInv

\* A step that creates, and deletes, no sandbox leaves the default alone.
LEMMA DefaultKeptBy ==
    ASSUME RunInv, DefaultInv, UNCHANGED current,
           NEW action \in Kinds \ {"create_sandbox", "delete_sandbox"},
           NEW id \in Sandboxes \cup Tasks, Do(action, id)
    PROVE  DefaultInv'
<1> DEFINE effect == [action |-> action, id |-> id]
<1>1. effects \in Seq(Effects) /\ effect \in Effects
  BY DEF RunInv, RunTypes, Effects
<1>2. /\ effect.action # "create_sandbox"
      /\ effect # [action |-> "delete_sandbox", id |-> current]
  OBVIOUS
<1>3. effects' = Append(effects, effect) /\ current' = current
  BY DEF Do
<1> HIDE DEF effect
<1>4. Promise!IsDefault(current, Append(effects, effect))
  BY <1>1, <1>2, DefaultKept DEF DefaultInv
<1>5. QED
  BY <1>3, <1>4 DEF DefaultInv

LEMMA StepPromise ==
    ASSUME RunInv, Holdings, DefaultInv, [WNext]_<<vars, wvars>>
    PROVE  PromiseStep /\ DefaultInv'
<1>t. boxes \subseteq Sandboxes /\ effects \in Seq(Effects)
  BY DEF RunInv, RunTypes
<1>1. CASE StepFails
  BY <1>1, FailStep, DefaultStands DEF StepFails, PromiseStep
<1>2. ASSUME NEW box \in New, CreateStep(box) PROVE PromiseStep /\ DefaultInv'
  <2> DEFINE effect == [action |-> "create_sandbox", id |-> box]
  <2>1. effect \in Effects /\ effect.action = "create_sandbox" /\ effect.id = box
    BY DEF Effects, Kinds
  <2>2. effects' = Append(effects, effect) /\ current' = box
    BY <1>2 DEF CreateStep, Do
  <2> HIDE DEF effect
  <2>3. Promise!IsDefault(box, Append(effects, effect))
    BY <1>t, <2>1, DefaultCreated
  <2>4. DefaultInv'
    BY <2>2, <2>3 DEF DefaultInv
  <2>5. QED
    BY <1>2, <2>4, ActStep DEF CreateStep, PromiseStep
<1>3. ASSUME NEW named \in Sandboxes \cup {None}, NEW t \in Tasks, ExecStep(named, t)
      PROVE  PromiseStep /\ DefaultInv'
  <2>1. DefaultInv'
    BY <1>3, DefaultKeptBy DEF ExecStep, Kinds
  <2>2. Promise!Left /\ run.pc # "done" /\ run'.pc # "done" /\ Promise!Do("exec_command", t)
    BY <1>3, EvenBetween DEF ExecStep, Ready, Do, Promise!Do
  <2>3. Promise!StartTask(t)
    BY <1>3, <2>2 DEF ExecStep, Promise!StartTask
  <2>4. QED
    BY <2>1, <2>2, <2>3 DEF PromiseStep, Promise!Next, DefaultInv
<1>4. CASE SubscribeFails \/ WaitFails
  BY <1>4, FailStep, DefaultStands DEF SubscribeFails, WaitFails, PromiseStep
<1>5. CASE ExecNoWait \/ WaitReturns \/ WaitTimeout
  BY <1>5, TellStep, DefaultStands DEF ExecNoWait, WaitReturns, WaitTimeout, PromiseStep
<1>6. CASE ExecWait
  <2>1. run.pc # "done" /\ run'.pc # "done" /\ UNCHANGED <<effects, steps, current>>
    BY <1>6 DEF ExecWait, RunInv, RunTypes
  <2>2. QED
    BY <2>1, DefaultStands DEF PromiseStep
<1>7. ASSUME NEW named \in Sandboxes \cup {None}, SnapshotStep(named)
      PROVE  PromiseStep /\ DefaultInv'
  <2>1. Target(named) \in Sandboxes
    BY <1>t, <1>7 DEF SnapshotStep, Authorized
  <2>2. DefaultInv'
    BY <1>7, <2>1, DefaultKeptBy DEF SnapshotStep, Kinds
  <2>3. QED
    BY <1>7, <2>1, <2>2, ActStep DEF SnapshotStep, PromiseStep
<1>8. ASSUME NEW named \in Sandboxes \cup {None}, NEW text, RollbackStep(named, text)
      PROVE  PromiseStep /\ DefaultInv'
  <2>1. Target(named) \in Sandboxes
    BY <1>t, <1>8 DEF RollbackStep, Authorized
  <2>2. DefaultInv'
    BY <1>8, <2>1, DefaultKeptBy DEF RollbackStep, Kinds
  <2>3. QED
    BY <1>8, <2>1, <2>2, ActStep DEF RollbackStep, PromiseStep
<1>9. ASSUME NEW named \in Sandboxes \cup {None}, DeleteStep(named)
      PROVE  PromiseStep /\ DefaultInv'
  <2>1. PICK box \in Sandboxes : box = Target(named)
    BY <1>t, <1>9 DEF DeleteStep, Authorized
  <2> DEFINE effect == [action |-> "delete_sandbox", id |-> box]
  <2>2. /\ effect \in Effects /\ effect.action # "create_sandbox"
        /\ box # current => effect # [action |-> "delete_sandbox", id |-> current]
        /\ effect = [action |-> "delete_sandbox", id |-> box]
    BY DEF Effects, Kinds
  <2>3. /\ effects' = Append(effects, effect)
        /\ current' = IF box = current THEN None ELSE current
    BY <1>9, <2>1 DEF DeleteStep, Do
  <2> HIDE DEF effect
  <2>4. Promise!IsDefault(IF box = current THEN None ELSE current, Append(effects, effect))
    <3>1. CASE box = current
      BY <1>t, <2>2, <3>1, DefaultDeleted DEF DefaultInv
    <3>2. CASE box # current
      BY <1>t, <2>2, <3>2, DefaultKept DEF DefaultInv
    <3>3. QED
      BY <3>1, <3>2
  <2>5. DefaultInv'
    BY <2>3, <2>4 DEF DefaultInv
  <2>6. QED
    BY <1>9, <2>1, <2>5, ActStep DEF DeleteStep, PromiseStep
<1>10. CASE Finish
  <2>1. /\ Promise!Even /\ run.pc # "done" /\ (run'.pc # "done") = FALSE
        /\ UNCHANGED <<effects, steps, current>> /\ steps # <<>>
    BY <1>10, EvenBetween DEF Finish, RunInv, RunTypes
  <2>2. Promise!Close
    BY <2>1 DEF Promise!Close
  <2>3. DefaultInv'
    BY <2>1, DefaultStands
  <2>4. QED
    BY <2>1, <2>2, <2>3 DEF PromiseStep, Promise!Next, DefaultInv
<1>11. CASE UNCHANGED <<current, run, steps, effects>>
  BY <1>11, DefaultStands DEF PromiseStep
<1>12. QED
  BY <1>1, <1>2, <1>3, <1>4, <1>5, <1>6, <1>7, <1>8, <1>9, <1>10, <1>11
     DEF WNext, WStep, TaskEnds, wvars

\* A workflow keeps its promise, whatever other requests do to the sandboxes
\* meanwhile: deeds and entries go in step, a failure ends it, and a step that names
\* no sandbox means the one created last, unless it was deleted.
THEOREM WorkflowRefinement == WSpec => ImplementsWorkflow
<1>1. WInit => Promise!Init /\ DefaultInv
  <2> SUFFICES ASSUME WInit PROVE Promise!Init /\ DefaultInv
    OBVIOUS
  <2>1. effects = <<>> /\ steps = <<>> /\ current = None /\ run.pc = "step"
    BY DEF WInit, Between
  <2>2. \A k \in 1..Len(effects) : FALSE
    BY <2>1
  <2>3. QED
    BY <2>1, <2>2 DEF Promise!Init, DefaultInv, Promise!IsDefault
<1>2. WInit => Holdings
  BY DEF WInit, Holdings
<1>3. RunInv /\ Holdings /\ DefaultInv /\ [WNext]_<<vars, wvars>>
          => /\ [Promise!Next]_<<effects, steps, current, run.pc # "done">>
             /\ DefaultInv'
  BY StepPromise DEF PromiseStep
<1>4. QED
  BY <1>1, <1>2, <1>3, NextHoldings, RunInvariance,
     PTL DEF WSpec, ImplementsWorkflow, Promise!Spec, Promise!promiseVars
=============================================================================
