------------------------------ MODULE ExecTasks ------------------------------
(***************************************************************************)
(* The exec tasks of the sandbox service (internal/sandbox/service.go):    *)
(* the in-memory execMap guarded by s.mu, the exec_tasks rows of the       *)
(* SQLite store, the goroutine that runs each command, and the requests    *)
(* that start, cancel and wait for a task while sandboxes are deleted,     *)
(* history is cleaned up and the process restarts.                         *)
(*                                                                         *)
(* An action is what a goroutine does between two points where another one *)
(* may run: a store call, or a critical section of s.mu together with the  *)
(* store call made inside it.  An exec id is random and never drawn twice, *)
(* so the sandbox an id will belong to is fixed by the constant SandboxOf. *)
(* Output, exit code and timestamps of a result are left out except for    *)
(* completed_at, which the history cleanup tests.                          *)
(***************************************************************************)
EXTENDS Naturals

CONSTANTS
    Sandboxes,      \* sandbox ids
    Execs,          \* exec ids, each drawn by at most one Execute
    SandboxOf,      \* the sandbox the command of an exec id is sent to
    MaxCrashes      \* bound: how many times the server process restarts

ASSUME ExecTasksAssumption ==
    /\ SandboxOf \in [Execs -> Sandboxes]
    /\ MaxCrashes \in Nat

VARIABLES
    alive,          \* ids with a row in the table sandboxes
    execMap,        \* Service.execMap: the result of each task the process knows
    execRows,       \* the table exec_tasks
    request,        \* where the Execute request of each id is
    runner,         \* where the goroutine runExecTask of each id is
    outcome,        \* what backend.Exec returned to that goroutine
    canceller,      \* ids with a CancelExec request past its sandbox check
    waiter,         \* waitExecResult: the status it last saw, or how it ended
    crashes         \* restarts so far

vars == <<alive, execMap, execRows, request, runner, outcome, canceller,
          waiter, crashes>>

-----------------------------------------------------------------------------
Terminal == {"succeeded", "failed", "cancelled"}
Live     == {"running", "cancelling"}
Status   == Live \cup Terminal

NoResult == [status |-> "absent", completed |-> FALSE]
Result   == [status : Status, completed : BOOLEAN] \cup {NoResult}

RequestPc == {"unused", "checked", "registered", "done"}
RunnerPc  == {"off", "exec", "returned", "done"}
Outcomes  == {"none", "ok", "canceled", "error"}
WaiterPc  == {"off", "polling", "checked", "timedOut", "error"} \cup Terminal

TypeOK ==
    /\ alive \subseteq Sandboxes
    /\ execMap \in [Execs -> Result]
    /\ execRows \in [Execs -> Result]
    /\ request \in [Execs -> RequestPc]
    /\ runner \in [Execs -> RunnerPc]
    /\ outcome \in [Execs -> Outcomes]
    /\ canceller \subseteq Execs
    /\ waiter \in [Execs -> WaiterPc]
    /\ crashes \in 0..MaxCrashes

\* isExecTerminalStatus
IsTerminal(status) == status \in Terminal

\* Mutant: the row is written before the map entry has been changed.
UpdateExecTaskTooEarly(e, result) ==
    execRows' = IF execRows[e] = NoResult THEN execRows
                ELSE [execRows EXCEPT ![e] = execMap[e]]

\* UPDATE exec_tasks ... WHERE id = ?: a row that is gone stays gone.
UpdateExecTask(e, result) ==
    execRows' = IF execRows[e] = NoResult THEN execRows
                ELSE [execRows EXCEPT ![e] = result]

\* GetExec past its sandbox check: the map first, then the row.  It copies the
\* map entry after releasing s.mu, so a write may tear the status string; every
\* mix of two statuses' words spells no terminal status, and both callers treat
\* a status that is not terminal as the one before the write.
GetExec(e) == IF execMap[e] # NoResult THEN execMap[e] ELSE execRows[e]

-----------------------------------------------------------------------------
Init ==
    /\ alive = Sandboxes
    /\ execMap = [e \in Execs |-> NoResult]
    /\ execRows = [e \in Execs |-> NoResult]
    /\ request = [e \in Execs |-> "unused"]
    /\ runner = [e \in Execs |-> "off"]
    /\ outcome = [e \in Execs |-> "none"]
    /\ canceller = {}
    /\ waiter = [e \in Execs |-> "off"]
    /\ crashes = 0

\* Execute, first half: the sandbox row exists and an exec id is drawn.
ExecuteCheck(e) ==
    /\ request[e] = "unused"
    /\ SandboxOf[e] \in alive
    /\ request' = [request EXCEPT ![e] = "checked"]
    /\ UNCHANGED <<alive, execMap, execRows, runner, outcome, canceller,
                   waiter, crashes>>

\* Execute enters the task into execMap before it has a row.
ExecuteRegister(e) ==
    /\ request[e] = "checked"
    /\ request' = [request EXCEPT ![e] = "registered"]
    /\ execMap' = [execMap EXCEPT ![e] =
                      [status |-> "running", completed |-> FALSE]]
    /\ UNCHANGED <<alive, execRows, runner, outcome, canceller, waiter, crashes>>

\* CreateExecTask succeeds (the foreign key needs the sandbox row) and the
\* goroutine is started.  From here on clients can learn the id.
ExecutePersist(e) ==
    /\ request[e] = "registered"
    /\ SandboxOf[e] \in alive
    /\ request' = [request EXCEPT ![e] = "done"]
    /\ execRows' = [execRows EXCEPT ![e] = execMap[e]]
    /\ runner' = [runner EXCEPT ![e] = "exec"]
    /\ UNCHANGED <<alive, execMap, outcome, canceller, waiter, crashes>>

\* CreateExecTask fails: the sandbox row is gone, or the client has
\* disconnected and ctx is cancelled.  The map entry stays as it is.
ExecutePersistFails(e) ==
    /\ request[e] = "registered"
    /\ request' = [request EXCEPT ![e] = "done"]
    /\ UNCHANGED <<alive, execMap, execRows, runner, outcome, canceller,
                   waiter, crashes>>

\* CancelExec, first half: GetSandbox.  A client knows the id of a task once
\* Execute has persisted it.
CancelCheck(e) ==
    /\ runner[e] # "off"
    /\ e \notin canceller
    /\ SandboxOf[e] \in alive
    /\ canceller' = canceller \cup {e}
    /\ UNCHANGED <<alive, execMap, execRows, request, runner, outcome, waiter,
                   crashes>>

\* Mutant: a task is cancelled whatever its status.
CancelApplyAnyStatus(e) ==
    /\ e \in canceller
    /\ canceller' = canceller \ {e}
    /\ execMap[e] # NoResult
    /\ execMap' = [execMap EXCEPT ![e].status = "cancelling"]
    /\ UpdateExecTask(e, execMap'[e])
    /\ UNCHANGED <<alive, request, runner, outcome, waiter, crashes>>

\* CancelExec, second half, under s.mu.  Only a running task is cancelled.  Its
\* row is updated with the client's context, so a client that has hung up
\* makes that write fail, and the error is dropped.
CancelApply(e) ==
    /\ e \in canceller
    /\ canceller' = canceller \ {e}
    /\ \/ /\ execMap[e].status = "running"
          /\ LET result == [status    |-> "cancelling",
                            completed |-> execMap[e].completed]
             IN  /\ execMap' = [execMap EXCEPT ![e] = result]
                 /\ UpdateExecTask(e, result) \/ UNCHANGED execRows
       \/ /\ execMap[e].status # "running"
          /\ UNCHANGED <<execMap, execRows>>
    /\ UNCHANGED <<alive, request, runner, outcome, waiter, crashes>>

\* backend.Exec returns to runExecTask.  context.Canceled needs a cancelled
\* context, and only CancelExec cancels it while the command runs.
RunnerReturn(e, out) ==
    /\ runner[e] = "exec"
    /\ out = "canceled" => execMap[e].status = "cancelling"
    /\ runner' = [runner EXCEPT ![e] = "returned"]
    /\ outcome' = [outcome EXCEPT ![e] = out]
    /\ UNCHANGED <<alive, execMap, execRows, request, canceller, waiter, crashes>>

\* Mutant: the spelling of context.Canceled slips into the status.
FinalStatusMisspelt(out, wasCancelling) ==
    CASE out = "ok"       -> "succeeded"
      [] out = "canceled" -> "canceled"
      [] OTHER            -> "failed"

\* Mutant: the error of a killed command hides the cancellation.
FinalStatusErrorFirst(out, wasCancelling) ==
    CASE out = "ok"       -> "succeeded"
      [] out = "canceled" -> "cancelled"
      [] OTHER            -> "failed"

\* The status runExecTask records: success wins over a cancellation, and a
\* cancellation wins over the error it provokes.
FinalStatus(out, wasCancelling) ==
    CASE out = "ok"       -> "succeeded"
      [] out # "ok" /\ (wasCancelling \/ out = "canceled") -> "cancelled"
      [] OTHER            -> "failed"

\* Mutant: only a task still marked running gets its result.
RunnerFinishIfRunning(e) ==
    /\ runner[e] = "returned"
    /\ LET result == IF execMap[e].status = "running"
                     THEN [status |-> FinalStatus(outcome[e], FALSE),
                           completed |-> TRUE]
                     ELSE execMap[e]
       IN  /\ execMap' = [execMap EXCEPT ![e] = result]
           /\ UpdateExecTask(e, result)
    /\ runner' = [runner EXCEPT ![e] = "done"]
    /\ UNCHANGED <<alive, request, outcome, canceller, waiter, crashes>>

\* runExecTask records the result, under s.mu: map first, then the row.
RunnerFinish(e) ==
    /\ runner[e] = "returned"
    /\ LET result == [status    |-> FinalStatus(outcome[e],
                                        execMap[e].status = "cancelling"),
                      completed |-> TRUE]
       IN  /\ execMap' = [execMap EXCEPT ![e] = result]
           /\ UpdateExecTask(e, result)
    /\ runner' = [runner EXCEPT ![e] = "done"]
    /\ UNCHANGED <<alive, request, outcome, canceller, waiter, crashes>>

-----------------------------------------------------------------------------
\* The exec handler goes on to waitExecResult with the result of Execute.
WaitStart(e) ==
    /\ runner[e] # "off"
    /\ waiter[e] = "off"
    /\ waiter' = [waiter EXCEPT ![e] = "polling"]
    /\ UNCHANGED <<alive, execMap, execRows, request, runner, outcome,
                   canceller, crashes>>

\* One turn of the polling loop is a GetExec.  Its GetSandbox fails when the row
\* is gone, or when the client has hung up and ctx is cancelled.
WaitCheck(e) ==
    /\ waiter[e] = "polling"
    /\ \/ /\ SandboxOf[e] \in alive
          /\ waiter' = [waiter EXCEPT ![e] = "checked"]
       \/ waiter' = [waiter EXCEPT ![e] = "error"]
    /\ UNCHANGED <<alive, execMap, execRows, request, runner, outcome,
                   canceller, crashes>>

\* Then it reads the task, and a terminal status ends the loop.
WaitRead(e) ==
    /\ waiter[e] = "checked"
    /\ waiter' = [waiter EXCEPT ![e] =
                     IF GetExec(e) = NoResult THEN "error"
                     ELSE IF IsTerminal(GetExec(e).status)
                          THEN GetExec(e).status
                          ELSE "polling"]
    /\ UNCHANGED <<alive, execMap, execRows, request, runner, outcome,
                   canceller, crashes>>

\* The deadline passes while the last status seen is not terminal.
WaitTimeout(e) ==
    /\ waiter[e] = "polling"
    /\ waiter' = [waiter EXCEPT ![e] = "timedOut"]
    /\ UNCHANGED <<alive, execMap, execRows, request, runner, outcome,
                   canceller, crashes>>

-----------------------------------------------------------------------------
\* The sandbox row is deleted, by Delete or by the idle cleanup, and its exec
\* rows with it (ON DELETE CASCADE).  execMap keeps the tasks.
DeleteSandbox(s) ==
    /\ s \in alive
    /\ alive' = alive \ {s}
    /\ execRows' = [e \in Execs |-> IF SandboxOf[e] = s THEN NoResult
                                     ELSE execRows[e]]
    /\ UNCHANGED <<execMap, request, runner, outcome, canceller, waiter, crashes>>

\* Mutant: the cleanup tests created_at, which every row has.
CleanupExecHistoryByCreation(S) ==
    /\ S # {}
    /\ \A e \in S : execRows[e] # NoResult
    /\ execRows' = [e \in Execs |-> IF e \in S THEN NoResult ELSE execRows[e]]
    /\ UNCHANGED <<alive, execMap, request, runner, outcome, canceller, waiter,
                   crashes>>

\* CleanupExecTasksBefore.  Time is left out: any set of completed rows may be
\* the ones older than the retention period.
CleanupExecHistory(S) ==
    /\ S # {}
    /\ \A e \in S : execRows[e].completed
    /\ execRows' = [e \in Execs |-> IF e \in S THEN NoResult ELSE execRows[e]]
    /\ UNCHANGED <<alive, execMap, request, runner, outcome, canceller, waiter,
                   crashes>>

\* The process dies and starts again.  The database is all that is left, and
\* nothing at startup looks at exec_tasks.
Restart ==
    /\ crashes < MaxCrashes
    /\ crashes' = crashes + 1
    /\ execMap' = [e \in Execs |-> NoResult]
    /\ request' = [e \in Execs |-> IF request[e] = "unused" THEN "unused"
                                    ELSE "done"]
    /\ runner' = [e \in Execs |-> "off"]
    /\ outcome' = [e \in Execs |-> "none"]
    /\ canceller' = {}
    /\ waiter' = [e \in Execs |-> "off"]
    /\ UNCHANGED <<alive, execRows>>

-----------------------------------------------------------------------------
Request(e) ==
    \/ ExecuteCheck(e) \/ ExecuteRegister(e)
    \/ ExecutePersist(e) \/ ExecutePersistFails(e)
    \/ CancelCheck(e) \/ CancelApply(e)

Wait(e) ==
    WaitStart(e) \/ WaitCheck(e) \/ WaitRead(e) \/ WaitTimeout(e)

Next ==
    \/ \E e \in Execs : Request(e) \/ Wait(e)
    \/ \E e \in Execs, out \in Outcomes \ {"none"} : RunnerReturn(e, out)
    \/ \E e \in Execs : RunnerFinish(e)
    \/ \E s \in Sandboxes : DeleteSandbox(s)
    \/ \E S \in SUBSET Execs : CleanupExecHistory(S)
    \/ Restart

Spec == Init /\ [][Next]_vars

\* Goroutines are scheduled: a request goes on, and a command that returned is
\* recorded.  A command may run for ever, but exec.CommandContext kills the
\* docker client of a cancelled one.
Fairness ==
    \A e \in Execs :
        /\ WF_vars(ExecuteRegister(e))
        /\ WF_vars(ExecutePersist(e) \/ ExecutePersistFails(e))
        /\ WF_vars(CancelApply(e))
        /\ WF_vars(/\ execMap[e].status = "cancelling"
                   /\ \E out \in Outcomes \ {"none"} : RunnerReturn(e, out))
        /\ WF_vars(RunnerFinish(e))

FairSpec == Spec /\ Fairness

-----------------------------------------------------------------------------
(***************************************************************************)
(* Properties.                                                             *)
(***************************************************************************)

\* What runExecTask and CancelExec write to the map under s.mu is what they
\* write to the row: whoever reads one of them learns the same, except that
\* the row may miss a cancellation whose write failed.
RecordsAgree ==
    \A e \in Execs :
        execMap[e] # NoResult /\ execRows[e] # NoResult =>
            \/ execRows[e] = execMap[e]
            \/ execMap[e].status = "cancelling" /\ execRows[e].status = "running"

\* A task is live in the map exactly while its goroutine can still record its
\* result, so no result is overwritten and none is left unrecorded: neither a
\* late cancellation, nor the deletion of the sandbox, nor the history cleanup
\* separates the two.
RunnerOwnsTask ==
    \A e \in Execs :
        /\ runner[e] \in {"exec", "returned"} => execMap[e].status \in Live
        /\ runner[e] = "done" => IsTerminal(execMap[e].status)
        /\ execMap[e].status \in Live /\ execRows[e] # NoResult =>
               runner[e] \in {"exec", "returned"}

\* A terminal status that ended a waitExecResult is still what the map and, if
\* it still exists, the row say however long after: the client has been told
\* the final status.
AnswerStands ==
    \A e \in Execs :
        IsTerminal(waiter[e]) =>
            /\ execMap[e].status = waiter[e]
            /\ execRows[e] # NoResult => execRows[e].status = waiter[e]

\* The row of a task without a final result goes only with its sandbox: the
\* history cleanup, whose only test is completed_at, never takes it.
LiveRowKept ==
    [][\A e \in Execs :
          execRows[e].status \in Live /\ execRows'[e] = NoResult
              => SandboxOf[e] \notin alive']_vars

\* The status GET /sandboxes/{id}/exec/{execId} answers with.
View(e) ==
    CASE request[e] \in {"unused", "checked"} -> "unused"
      [] request[e] \notin {"unused", "checked"}
         /\ (SandboxOf[e] \notin alive \/ GetExec(e) = NoResult) -> "gone"
      [] OTHER -> GetExec(e).status

Answers == [e \in Execs |-> View(e)]

\* The service implements the promise: seen through GetExec, a task runs, may be
\* asked to cancel, completes once and for all, and disappears for good.
Promise == INSTANCE ExecPromise WITH view <- Answers
ImplementsPromise == Promise!Spec

\* An accepted cancellation ends: the task leaves "cancelling" for a terminal
\* status, or the process restarts and has lost it.
CancelTerminates ==
    \A e \in Execs :
        execMap[e].status = "cancelling" ~>
            IsTerminal(execMap[e].status) \/ execMap[e] = NoResult

=============================================================================
