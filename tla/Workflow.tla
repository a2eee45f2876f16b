------------------------------ MODULE Workflow ------------------------------
(***************************************************************************)
(* POST /workflow/run (runWorkflow in internal/http/router.go): steps that *)
(* create a sandbox, run a command, take a snapshot, roll back to one and  *)
(* delete a sandbox, one after the other, until one of them fails.  A step *)
(* that names no sandbox uses the one created last.  Other requests delete *)
(* sandboxes meanwhile, and code writes work on the file of one of them.   *)
(*                                                                         *)
(* Each step is read when its turn comes, so that its action and the       *)
(* sandbox it names are any; the calls of the service are atomic or fail,  *)
(* and are modelled in ExecTasks, SandboxPool and SandboxStorage.          *)
(***************************************************************************)
EXTENDS CodeWrite

CONSTANTS
    New,            \* ids that a create step may draw
    Tasks,          \* exec ids
    None,           \* no sandbox, no task
    MaxSteps        \* bound: the steps of a workflow

ASSUME WorkflowAssumption ==
    /\ New \subseteq Sandboxes /\ Box \notin New
    /\ None \notin Sandboxes \cup Tasks
    /\ MaxSteps \in Nat

VARIABLES
    task,           \* the exec tasks that the workflow has started
    current,        \* currentSandboxID
    run,            \* where the handler is, and with which sandbox and task
    steps,          \* the entries of the answer
    effects         \* history: what it has done

wvars == <<task, current, run, steps, effects>>

-----------------------------------------------------------------------------
Kinds == {"create_sandbox", "exec_command", "create_snapshot", "rollback_snapshot",
          "delete_sandbox", "any"}

\* result is what the entry says of the task of an exec step.
Entry(action, status, id, result) ==
    [action |-> action, status |-> status, id |-> id, result |-> result]

Between == [pc |-> "step", box |-> None, task |-> None]

WorkflowTypeOK ==
    /\ TypeOK
    /\ task \in [Tasks -> {"none", "running", "final"}]
    /\ current \in New \cup {None}
    /\ run \in [pc : {"step", "started", "wait", "done"}, box : Sandboxes \cup {None},
                task : Tasks \cup {None}]
    /\ steps \in Seq([action : Kinds, status : {"succeeded", "failed", "timed_out"},
                      id : Sandboxes \cup Tasks \cup {None},
                      result : {"none", "running", "final"}])
    /\ effects \in Seq([action : Kinds, id : Sandboxes \cup Tasks])

\* The ids to draw have no sandbox yet.
WInit ==
    /\ Init /\ boxes = Sandboxes \ New
    /\ task = [t \in Tasks |-> "none"]
    /\ current = None /\ run = Between
    /\ steps = <<>> /\ effects = <<>>

-----------------------------------------------------------------------------
(***************************************************************************)
(* The steps.                                                              *)
(***************************************************************************)

\* The entry of a step; the next step follows, or, after a failure, the answer.
ReportResult(action, status, id, result) ==
    /\ steps' = Append(steps, Entry(action, status, id, result))
    /\ run' = IF status = "succeeded" THEN Between ELSE [Between EXCEPT !.pc = "done"]

Report(action, status, id) == ReportResult(action, status, id, "none")

Do(action, id) == effects' = Append(effects, [action |-> action, id |-> id])

Ready == run.pc = "step" /\ Len(steps) < MaxSteps

\* The sandbox of a step, which must be there.  One of another session is to the
\* handler as if it were not.
Target(named) == IF named = None THEN current ELSE named
Authorized(box) == box \in boxes

\* markFailed: the service refuses or fails, the request is incomplete, the
\* sandbox is not there, or the action is none of the five.  Which action it was
\* is left out.
StepFails ==
    /\ Ready
    /\ Report("any", "failed", None)
    /\ UNCHANGED <<vars, task, current, effects>>

CreateStep(box) ==
    /\ Ready
    /\ \A k \in DOMAIN steps : steps[k].id # box
    /\ box \notin boxes /\ boxes' = boxes \cup {box}
    /\ current' = box
    /\ Do("create_sandbox", box) /\ Report("create_sandbox", "succeeded", box)
    /\ UNCHANGED <<file, handled, task>>

\* Mutant: the sandbox that was named becomes the default.
ExecStepAdopts(named, t) ==
    /\ Ready
    /\ Authorized(Target(named))
    /\ task[t] = "none" /\ task' = [task EXCEPT ![t] = "running"]
    /\ run' = [pc |-> "started", box |-> Target(named), task |-> t]
    /\ current' = Target(named)
    /\ Do("exec_command", t)
    /\ UNCHANGED <<vars, steps>>

\* Authorize and Execute; what follows can still fail.
ExecStep(named, t) ==
    /\ Ready
    /\ Authorized(Target(named))
    /\ task[t] = "none" /\ task' = [task EXCEPT ![t] = "running"]
    /\ run' = [pc |-> "started", box |-> Target(named), task |-> t]
    /\ Do("exec_command", t)
    /\ UNCHANGED <<vars, current, steps>>

\* SubscribeExecWebhook fails: the step does, without the id of the task.
SubscribeFails ==
    /\ run.pc = "started"
    /\ Report("exec_command", "failed", None)
    /\ UNCHANGED <<vars, task, current, effects>>

\* It succeeds, or there is no webhook: the step waits, or does not.
ExecNoWait ==
    /\ run.pc = "started"
    /\ ReportResult("exec_command", "succeeded", run.task, "running")
    /\ UNCHANGED <<vars, task, current, effects>>

ExecWait ==
    /\ run.pc = "started"
    /\ run' = [run EXCEPT !.pc = "wait"]
    /\ UNCHANGED <<vars, task, current, steps, effects>>

\* The task is over, and whatever became of its command the step has succeeded.
\* The result that was waited for is a variable of the block that waits; what the
\* entry carries is the result of Execute.
WaitReturns ==
    /\ run.pc = "wait" /\ run.box \in boxes
    /\ task[run.task] = "final"
    /\ ReportResult("exec_command", "succeeded", run.task, "running")
    /\ UNCHANGED <<vars, task, current, effects>>

\* GetExec finds the sandbox gone.
WaitFails ==
    /\ run.pc = "wait" /\ run.box \notin boxes
    /\ Report("exec_command", "failed", None)
    /\ UNCHANGED <<vars, task, current, effects>>

\* Mutant: the timeout does not set stoppedEarly.
WaitTimeoutGoesOn ==
    /\ run.pc = "wait"
    /\ steps' = Append(steps, Entry("exec_command", "timed_out", run.task, "running"))
    /\ run' = Between
    /\ UNCHANGED <<vars, task, current, effects>>

\* Mutant: markFailed instead of an entry of its own.
WaitTimeoutFails ==
    /\ run.pc = "wait"
    /\ ReportResult("exec_command", "timed_out", None, "running")
    /\ UNCHANGED <<vars, task, current, effects>>

\* The task was running when it was last looked at, up to 250 ms ago.
WaitTimeout ==
    /\ run.pc = "wait"
    /\ ReportResult("exec_command", "timed_out", run.task, "running")
    /\ UNCHANGED <<vars, task, current, effects>>

SnapshotStep(named) ==
    /\ Ready
    /\ Authorized(Target(named))
    /\ Do("create_snapshot", Target(named))
    /\ Report("create_snapshot", "succeeded", Target(named))
    /\ UNCHANGED <<vars, task, current>>

\* The file becomes what it was in some snapshot.
RollbackStep(named, text) ==
    /\ Ready
    /\ Authorized(Target(named))
    /\ \/ Target(named) = Box /\ Change(text, Requests)
       \/ Target(named) # Box /\ UNCHANGED <<file, raced>>
    /\ Do("rollback_snapshot", Target(named))
    /\ Report("rollback_snapshot", "succeeded", Target(named))
    /\ UNCHANGED <<boxes, request, task, current>>

DeleteStep(named) ==
    /\ Ready
    /\ Authorized(Target(named)) /\ Gone(Target(named))
    /\ current' = IF Target(named) = current THEN None ELSE current
    /\ Do("delete_sandbox", Target(named))
    /\ Report("delete_sandbox", "succeeded", Target(named))
    /\ UNCHANGED <<request, task>>

\* No step is left.
Finish ==
    /\ run.pc = "step" /\ steps # <<>>
    /\ run' = [run EXCEPT !.pc = "done"]
    /\ UNCHANGED <<vars, task, current, steps, effects>>

TaskEnds(t) ==
    /\ task[t] = "running"
    /\ task' = [task EXCEPT ![t] = "final"]
    /\ UNCHANGED <<vars, current, run, steps, effects>>

-----------------------------------------------------------------------------
WStep ==
    \/ StepFails
    \/ \E box \in New : CreateStep(box)
    \/ \E named \in Sandboxes \cup {None} :
          \/ \E t \in Tasks : ExecStep(named, t)
          \/ SnapshotStep(named) \/ DeleteStep(named)
          \/ \E text \in Texts \cup {Missing} : RollbackStep(named, text)
    \/ SubscribeFails \/ ExecNoWait \/ ExecWait
    \/ WaitReturns \/ WaitFails \/ WaitTimeout
    \/ Finish

\* The handler, the tasks it started, and code writes and deletions beside it.
WNext ==
    \/ WStep
    \/ \E t \in Tasks : TaskEnds(t)
    \/ Next /\ UNCHANGED wvars

WSpec == WInit /\ [][WNext]_<<vars, wvars>>
WFairSpec == WSpec /\ Fairness

-----------------------------------------------------------------------------
(***************************************************************************)
(* Properties.                                                             *)
(***************************************************************************)

\* What the entries say was done, but for one at the end that failed.
Reported ==
    LET last == Len(steps)
        kept == IF steps # <<>> /\ steps[last].status = "failed" THEN last - 1 ELSE last
    IN  [k \in 1..kept |-> [action |-> steps[k].action, id |-> steps[k].id]]

\* The answer names everything the workflow has done, in order, by the id the
\* client needs to go on with it, also of a task that timed out.  All it can miss
\* is a task at the very end, whose subscription was refused or whose sandbox
\* went away: it is running, and its step only says "failed".
EffectsReported ==
    \/ effects = Reported
    \/ /\ Len(effects) = Len(Reported) + 1
       /\ \A k \in 1..Len(Reported) : effects[k] = Reported[k]
       /\ effects[Len(effects)].action = "exec_command"
       /\ \/ run.pc \in {"started", "wait"}
          \/ run.pc = "done" /\ steps[Len(steps)].status = "failed"

\* "ordered multi-step workflow with fail-fast behavior": whatever other requests do
\* to the sandboxes meanwhile, deeds and entries go in step, the first step that fails
\* or times out is the last, and a step that names no sandbox means the one the
\* workflow has created last, unless it has deleted that since.
Promise == INSTANCE WorkflowPromise
               WITH done <- effects, answer <- steps, default <- current,
                    open <- run.pc # "done"
ImplementsWorkflow == Promise!Spec

\* "wait ... same as exec endpoint", which "can poll and return terminal result
\* inline": an exec step that has waited until its task was over says so.
WaitedResultIsFinal ==
    [][run.pc = "wait" /\ run'.pc = "step"
           => steps'[Len(steps')].result = "final"]_<<vars, wvars>>
=============================================================================
