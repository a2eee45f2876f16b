------------------------------ MODULE CodeWrite ------------------------------
(***************************************************************************)
(* POST /sandboxes/{id}/ops/code/write (codeWrite in                       *)
(* internal/http/router.go): a file of a sandbox is copied to a temporary  *)
(* directory of the host, edited there, copied back, and then checked and  *)
(* built, or used by a command.  All of it is done with docker commands,   *)
(* under one deadline, and without a lock: commands, rollbacks and other   *)
(* requests change the file meanwhile.                                     *)
(*                                                                         *)
(* The model is about one file of one sandbox.  Its text is a sequence of  *)
(* letters, one of which is blank.  Each action is one docker command, or  *)
(* several whose result does not matter, and what is done on the host      *)
(* after it.  Which checks there are, and what they say, is left open, as  *)
(* is what the other options of a request are.                             *)
(***************************************************************************)
EXTENDS Integers, FiniteSets, Sequences

CONSTANTS
    Requests,       \* code writes to the file
    Sandboxes,      \* sandbox ids
    Box,            \* the sandbox of the file
    Letters,
    Blank,          \* the letter that TrimSpace removes
    Missing,        \* no file
    Texts,          \* texts that commands write, and the file begins with
    Edits,          \* edits that requests ask for
    MaxLen          \* bound: the length of a text

Text == Seq(Letters)

ContextEdits == [mode : {"context_edit"}, before : Text, old : Text, new : Text,
                 after : Text, occurrence : Int]
Replacements == [mode : {"replace_file"}, content : Text]
NoEdit       == [mode |-> "none"]

ASSUME CodeWriteAssumption ==
    /\ Box \in Sandboxes
    /\ Blank \in Letters /\ Missing \notin Text
    /\ Texts \subseteq Text
    /\ Edits \subseteq ContextEdits \cup Replacements
    /\ MaxLen \in Nat

VARIABLES
    boxes,          \* sandboxes with a row and a container
    file,           \* the file in the container
    request,        \* where each request is, and how the last one was answered
    raced           \* history: requests whose copy is not of the file as it is

handled == <<request, raced>>
vars == <<boxes, file, handled>>

-----------------------------------------------------------------------------
\* wrote is history: what of the edited text has been copied back.
Ended(answer, wrote) ==
    [pc |-> "idle", edit |-> NoEdit, text |-> Missing, late |-> FALSE,
     answer |-> answer, wrote |-> wrote]

States == [pc : {"idle", "ensure", "copy", "edit", "back", "exec", "wait", "check",
                 "build"},
           edit : Edits \cup {NoEdit},
           text : Text \cup {Missing},      \* the file in the temporary directory
           late : BOOLEAN,                  \* the deadline has passed
           answer : {"none", "ensure failed", "copy failed", "edit failed", "timeout",
                     "copy back failed", "exec failed", "accepted", "exec result",
                     "checks failed", "build failed", "ok"},
           wrote : {"nothing", "some", "all"}]

TypeOK ==
    /\ boxes \subseteq Sandboxes
    /\ file \in Text \cup {Missing}
    /\ request \in [Requests -> States]
    /\ raced \subseteq Requests

Init ==
    /\ boxes \in {existing \in SUBSET Sandboxes : Box \in existing}
    /\ file \in Texts \cup {Missing}
    /\ request = [q \in Requests |-> Ended("none", "nothing")]
    /\ raced = {}

-----------------------------------------------------------------------------
(***************************************************************************)
(* The edit.                                                               *)
(***************************************************************************)

IsBlank(text) == \A i \in DOMAIN text : text[i] = Blank

\* Nothing that must be there is blank.
Valid(edit) ==
    IF edit.mode = "replace_file" THEN ~IsBlank(edit.content)
    ELSE ~IsBlank(edit.old) /\ ~IsBlank(edit.new)

\* What is looked for, and what takes its place: contexts count only if one of
\* them is not blank.
Block(edit, middle) ==
    IF IsBlank(edit.before) /\ IsBlank(edit.after) THEN middle
    ELSE edit.before \o middle \o edit.after

\* findAllIndexes: also matches that overlap.
Matches(text, needle) ==
    {i \in 1..(Len(text) - Len(needle) + 1) :
        SubSeq(text, i, i + Len(needle) - 1) = needle}

Occurrence(edit) == IF edit.occurrence <= 0 THEN 1 ELSE edit.occurrence

\* There is such a match, and the first is only taken if there is no other.
Applicable(edit, text) ==
    edit.mode = "context_edit" =>
        /\ text # Missing
        /\ LET count == Cardinality(Matches(text, Block(edit, edit.old)))
           IN  count >= Occurrence(edit) /\ (Occurrence(edit) = 1 => count = 1)

\* The match that is asked for, if there are so many.
Chosen(edit, text) ==
    LET found == Matches(text, Block(edit, edit.old))
    IN  {i \in found : Cardinality({j \in found : j < i}) = Occurrence(edit) - 1}

\* Mutant: the context is replaced, too.
EditedContext(edit, text) ==
    IF edit.mode = "replace_file" THEN {edit.content}
    ELSE {SubSeq(text, 1, i - 1) \o edit.new
              \o SubSeq(text, i + Len(Block(edit, edit.old)), Len(text)) :
          i \in Chosen(edit, text)}

\* rewriteFileInWorkspace and applyContextEditInWorkspace: what the text becomes.
Edited(edit, text) ==
    IF edit.mode = "replace_file" THEN {edit.content}
    ELSE {SubSeq(text, 1, i - 1) \o Block(edit, edit.new)
              \o SubSeq(text, i + Len(Block(edit, edit.old)), Len(text)) :
          i \in Chosen(edit, text)}

-----------------------------------------------------------------------------
(***************************************************************************)
(* The steps of a request.                                                 *)
(***************************************************************************)

\* The next step, with what is in the temporary directory and what was copied back.
Go(q, pc, edit, text, late, wrote) ==
    request' = [request EXCEPT ![q] =
        [pc |-> pc, edit |-> edit, text |-> text, late |-> late,
         answer |-> "none", wrote |-> wrote]]

MoveWith(q, pc, text, wrote) ==
    Go(q, pc, request[q].edit, text, request[q].late, wrote)

Move(q, pc) == MoveWith(q, pc, request[q].text, request[q].wrote)

\* The answer, and the end of the temporary directory.
Answer(q, answer, wrote) == request' = [request EXCEPT ![q] = Ended(answer, wrote)]

\* A request that is allowed and complete finds the sandbox running.
Begin(q, edit) ==
    /\ request[q].pc = "idle"
    /\ Valid(edit) /\ Box \in boxes
    /\ Go(q, "ensure", edit, Missing, FALSE, "nothing")
    /\ raced' = raced \ {q}
    /\ UNCHANGED <<boxes, file>>

\* context.WithTimeout: from now on every command is killed.
Deadline(q) ==
    /\ request[q].pc # "idle" /\ ~request[q].late
    /\ LET r == request[q] IN Go(q, r.pc, r.edit, r.text, TRUE, r.wrote)
    /\ UNCHANGED <<boxes, file, raced>>

\* ensureSandboxDirectory: mkdir -p.
EnsureDirectory(q) ==
    /\ request[q].pc = "ensure"
    /\ \/ Box \in boxes /\ Move(q, "copy")
       \/ Answer(q, "ensure failed", "nothing")
    /\ UNCHANGED <<boxes, file, raced>>

\* copySandboxTreeForCodeWrite: the file, which a replacement does without when
\* test -f does not find it, or fails.
CopyOut(q) ==
    /\ request[q].pc = "copy"
    /\ \/ /\ file # Missing
          /\ MoveWith(q, "edit", file, "nothing")
          /\ raced' = raced \ {q}
       \/ /\ request[q].edit.mode = "replace_file"
          /\ Move(q, "edit")
          /\ raced' = raced \ {q}
       \/ /\ Answer(q, "copy failed", "nothing")
          /\ UNCHANGED raced
    /\ UNCHANGED <<boxes, file>>

\* The manifests of the directories above, as many as docker gives; then the edit,
\* and a look at the deadline.
Edit(q) ==
    LET edit == request[q].edit
        text == request[q].text
    IN  /\ request[q].pc = "edit"
        /\ \/ ~Applicable(edit, text) /\ Answer(q, "edit failed", "nothing")
           \/ /\ Applicable(edit, text) /\ request[q].late
              /\ Answer(q, "timeout", "nothing")
           \/ /\ Applicable(edit, text) /\ ~request[q].late
              /\ \E result \in Edited(edit, text) :
                    Len(result) <= MaxLen /\ MoveWith(q, "back", result, "nothing")
        /\ UNCHANGED <<boxes, file, raced>>

\* Copies of the file that are made before it is changed are outdated.
Change(text, others) ==
    /\ file' = text
    /\ raced' = raced \cup {q \in others : request[q].pc \in {"edit", "back"}}

\* docker cp of the edited file.  Then the command of the request, or the checks.
CopyBack(q) ==
    /\ request[q].pc = "back"
    /\ Box \in boxes
    /\ Change(request[q].text, Requests \ {q})
    /\ \E next \in {"exec", "check"} : MoveWith(q, next, request[q].text, "all")
    /\ UNCHANGED boxes

\* Mutant: its failure is only logged.
CopyBackFailsOnly(q) ==
    /\ request[q].pc = "back"
    /\ Move(q, "check")
    /\ UNCHANGED <<boxes, file, raced>>

\* It fails or is killed, with nothing, a part or all of the text written.
CopyBackFails(q) ==
    /\ request[q].pc = "back"
    /\ \/ /\ Answer(q, "copy back failed", "nothing")
          /\ UNCHANGED <<file, raced>>
       \/ /\ Box \in boxes
          /\ \E n \in 0..Len(request[q].text) :
                Change(SubSeq(request[q].text, 1, n), Requests \ {q})
          /\ Answer(q, "copy back failed", "some")
    /\ UNCHANGED boxes

\* Execute of post_exec_command, under the same deadline; waitExecResult, if the
\* request asks for it.
PostExec(q) ==
    /\ request[q].pc = "exec"
    /\ \/ Box \in boxes /\ ~request[q].late /\ Answer(q, "accepted", request[q].wrote)
       \/ Box \in boxes /\ ~request[q].late /\ Move(q, "wait")
       \/ Answer(q, "exec failed", request[q].wrote)
    /\ UNCHANGED <<boxes, file, raced>>

\* The wait ends on its own, with a result or without; or the sandbox is gone.
PostWait(q) ==
    /\ request[q].pc = "wait"
    /\ \/ Box \in boxes /\ Answer(q, "exec result", request[q].wrote)
       \/ Box \notin boxes /\ Answer(q, "exec failed", request[q].wrote)
    /\ UNCHANGED <<boxes, file, raced>>

\* Mutant: the checks run under a context of their own.
CheckUnbounded(q) ==
    /\ request[q].pc = "check" /\ ~request[q].late
    /\ \/ Move(q, "build")
       \/ Answer(q, "checks failed", request[q].wrote)
    /\ UNCHANGED <<boxes, file, raced>>

\* pre-commit or the checks of the language, if there are any.
Check(q) ==
    /\ request[q].pc = "check"
    /\ \/ Move(q, "build")
       \/ Answer(q, "checks failed", request[q].wrote)
    /\ UNCHANGED <<boxes, file, raced>>

\* The build, if the checks passed and the request asks for it.
Build(q) ==
    /\ request[q].pc = "build"
    /\ \E answer \in {"ok", "build failed"} : Answer(q, answer, request[q].wrote)
    /\ UNCHANGED <<boxes, file, raced>>

-----------------------------------------------------------------------------
(***************************************************************************)
(* What else happens to the file.                                          *)
(***************************************************************************)

\* A command writes or removes it, or a rollback puts another in its place.
SandboxWrites(text) ==
    /\ Box \in boxes
    /\ Change(text, Requests)
    /\ UNCHANGED <<boxes, request>>

\* A sandbox is deleted, and with it the file if it is this one.
Gone(box) ==
    /\ box \in boxes
    /\ boxes' = boxes \ {box}
    /\ \/ box = Box /\ Change(Missing, Requests)
       \/ box # Box /\ UNCHANGED <<file, raced>>

SandboxDeleted(box) == Gone(box) /\ UNCHANGED request

-----------------------------------------------------------------------------
Step(q) ==
    \/ EnsureDirectory(q) \/ CopyOut(q) \/ Edit(q) \/ CopyBack(q) \/ CopyBackFails(q)
    \/ PostExec(q) \/ PostWait(q) \/ Check(q) \/ Build(q)

Next ==
    \/ \E q \in Requests : Deadline(q) \/ Step(q) \/ \E edit \in Edits : Begin(q, edit)
    \/ \E text \in Texts \cup {Missing} : SandboxWrites(text)
    \/ \E box \in Sandboxes : SandboxDeleted(box)

Spec == Init /\ [][Next]_vars

\* The deadline passes, and a command that is killed returns; the store answers,
\* and the wait for a command has a timeout of its own.  Nothing else need ever
\* return by itself.
Fairness ==
    \A q \in Requests : /\ WF_vars(Deadline(q)) /\ WF_vars(request[q].late /\ Step(q))
                       /\ WF_vars(PostExec(q)) /\ WF_vars(PostWait(q))

FairSpec == Spec /\ Fairness

-----------------------------------------------------------------------------
(***************************************************************************)
(* Properties.                                                             *)
(***************************************************************************)

\* A part of the text, after its first i letters.
At(text, i, part) ==
    /\ 0 <= i /\ i + Len(part) <= Len(text)
    /\ \A k \in 1..Len(part) : text[i + k] = part[k]

\* The old text is there, with its context around it.
Place(edit, text, i) ==
    /\ At(text, i, edit.old)
    /\ \/ IsBlank(edit.before) /\ IsBlank(edit.after)
       \/ /\ At(text, i - Len(edit.before), edit.before)
          /\ At(text, i + Len(edit.old), edit.after)

\* One place, the only one unless the request counts them, has the new text
\* instead of the old; nothing else is changed.
Replaced(edit, text, result) ==
    \E i \in 0..Len(text) :
        /\ Place(edit, text, i)
        /\ result = SubSeq(text, 1, i) \o edit.new
                    \o SubSeq(text, i + Len(edit.old) + 1, Len(text))
        /\ IF edit.occurrence <= 1
           THEN \A j \in 0..Len(text) : Place(edit, text, j) => j = i
           ELSE Cardinality({j \in 0..(i - 1) : Place(edit, text, j)})
                    = edit.occurrence - 1

\* Copying out, editing and copying back amounts to the edit the client asked
\* for, in the file as it is, unless somebody has changed it since it was copied:
\* their change is lost then.
WriteIsTheEdit ==
    [][\A q \in Requests :
          /\ request[q].pc = "back" /\ request'[q].wrote = "all"
          /\ q \notin raced
          => LET edit == request[q].edit
             IN  \/ edit.mode = "replace_file" /\ file' = edit.content
                 \/ edit.mode = "context_edit" /\ Replaced(edit, file, file')]_vars

\* The answer tells whether the file was written: errors up to the deadline's
\* leave it alone, a request that failed to copy back must be looked into, and
\* any later answer, also that checks, build or command failed, is for a file
\* that has been written.
AnswerTellsWritten ==
    \A q \in Requests :
        LET r == request[q]
        IN  /\ r.answer \in {"ensure failed", "copy failed", "edit failed", "timeout"}
                    => r.wrote = "nothing"
            /\ r.answer \in {"accepted", "exec result", "exec failed", "checks failed",
                             "build failed", "ok"}
                    => r.wrote = "all"

\* However long docker, checks or builds take, a request that has begun is
\* answered.
Answered ==
    \A q \in Requests : request[q].pc # "idle" ~> request[q].pc = "idle"
=============================================================================
