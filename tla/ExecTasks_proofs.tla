--------------------------- MODULE ExecTasks_proofs ---------------------------
(***************************************************************************)
(* Proofs about ExecTasks for every set of sandboxes and tasks and every   *)
(* number of restarts.                                                     *)
(***************************************************************************)
EXTENDS ExecTasks, TLAPS

\* The row and the map entry of a task by the progress of its Execute request.
RequestStage(e) ==
    /\ request[e] \in {"unused", "checked"} =>
           execMap[e] = NoResult /\ execRows[e] = NoResult
    /\ request[e] = "registered" =>
           /\ execMap[e] = [status |-> "running", completed |-> FALSE]
           /\ execRows[e] = NoResult
    /\ request[e] # "done" => runner[e] = "off"

\* What is known while the goroutine of a task runs, or does not.
RunnerStage(e) ==
    /\ runner[e] = "off" /\ execRows[e] # NoResult => execMap[e] = NoResult
    /\ runner[e] = "returned" /\ outcome[e] = "canceled" =>
           execMap[e].status = "cancelling"
    /\ waiter[e] # "off" => runner[e] # "off"
    /\ e \in canceller => runner[e] # "off"

\* completed_at is set with a terminal status, in the map and in the row.
CompletedIffTerminal(e) ==
    /\ execMap[e].completed <=> IsTerminal(execMap[e].status)
    /\ execRows[e].completed <=> IsTerminal(execRows[e].status)

\* RecordsAgree, RunnerOwnsTask and AnswerStands for one task.
TaskSafe(e) ==
    /\ execMap[e] # NoResult /\ execRows[e] # NoResult =>
           \/ execRows[e] = execMap[e]
           \/ execMap[e].status = "cancelling" /\ execRows[e].status = "running"
    /\ runner[e] \in {"exec", "returned"} => execMap[e].status \in Live
    /\ runner[e] = "done" => IsTerminal(execMap[e].status)
    /\ execMap[e].status \in Live /\ execRows[e] # NoResult =>
           runner[e] \in {"exec", "returned"}
    /\ IsTerminal(waiter[e]) =>
           /\ execMap[e].status = waiter[e]
           /\ execRows[e] # NoResult => execRows[e].status = waiter[e]

TaskInv(e) ==
    RequestStage(e) /\ RunnerStage(e) /\ CompletedIffTerminal(e) /\ TaskSafe(e)

\* The inductive invariant: what the tasks do is independent of one another.
IInv == TypeOK /\ \A e \in Execs : TaskInv(e)

-----------------------------------------------------------------------------
\* The recorded status is a terminal one, whatever backend.Exec returned.
LEMMA FinalStatusTerminal ==
    ASSUME NEW out, NEW wasCancelling \in BOOLEAN
    PROVE  FinalStatus(out, wasCancelling) \in Terminal
  BY DEF FinalStatus, Terminal

LEMMA InitIInv == Init => IInv
  BY ExecTasksAssumption
     DEF Init, IInv, TypeOK, TaskInv, RequestStage, RunnerStage,
         CompletedIffTerminal, TaskSafe, Result, NoResult, RequestPc, RunnerPc,
         Outcomes, WaiterPc, IsTerminal, Terminal, Live

\* Each step keeps the types.
LEMMA NextTypeOK == TypeOK /\ [Next]_vars => TypeOK'
  <1> SUFFICES ASSUME TypeOK, [Next]_vars PROVE TypeOK'
    OBVIOUS
  <1> USE DEF TypeOK, Result, Status, Live, RequestPc, RunnerPc, Outcomes, WaiterPc
  <1>1. ASSUME NEW e \in Execs, Request(e) PROVE TypeOK'
    <2>1. CASE ExecuteCheck(e)
      BY <2>1 DEF ExecuteCheck
    <2>2. CASE ExecuteRegister(e)
      BY <2>2 DEF ExecuteRegister
    <2>3. CASE ExecutePersist(e)
      BY <2>3 DEF ExecutePersist
    <2>4. CASE ExecutePersistFails(e)
      BY <2>4 DEF ExecutePersistFails
    <2>5. CASE CancelCheck(e)
      BY <2>5 DEF CancelCheck
    <2>6. CASE CancelApply(e)
      BY <2>6 DEF CancelApply, UpdateExecTask, NoResult
    <2>7. QED
      BY <1>1, <2>1, <2>2, <2>3, <2>4, <2>5, <2>6 DEF Request
  <1>2. ASSUME NEW e \in Execs, Wait(e) PROVE TypeOK'
    BY <1>2 DEF Wait, WaitStart, WaitCheck, WaitRead, WaitTimeout, GetExec, IsTerminal,
                NoResult
  <1>3. ASSUME NEW e \in Execs, NEW out \in Outcomes \ {"none"},
               RunnerReturn(e, out)
        PROVE  TypeOK'
    BY <1>3 DEF RunnerReturn
  <1>4. ASSUME NEW e \in Execs, RunnerFinish(e) PROVE TypeOK'
    BY <1>4, FinalStatusTerminal DEF RunnerFinish, UpdateExecTask
  <1>5. ASSUME NEW s \in Sandboxes, DeleteSandbox(s) PROVE TypeOK'
    BY <1>5 DEF DeleteSandbox
  <1>6. ASSUME NEW S \in SUBSET Execs, CleanupExecHistory(S) PROVE TypeOK'
    BY <1>6 DEF CleanupExecHistory
  <1>7. CASE Restart
    BY <1>7, ExecTasksAssumption DEF Restart
  <1>8. CASE UNCHANGED vars
    BY <1>8 DEF vars
  <1>9. QED
    BY <1>1, <1>2, <1>3, <1>4, <1>5, <1>6, <1>7, <1>8 DEF Next

\* A step of task f that leaves task e alone keeps what is known of e.
LEMMA TaskFrame ==
    ASSUME NEW e \in Execs, TaskInv(e),
           UNCHANGED <<execMap[e], execRows[e], request[e], runner[e],
                       outcome[e], waiter[e]>>,
           e \in canceller' => e \in canceller
    PROVE  TaskInv(e)'
  BY DEF TaskInv, RequestStage, RunnerStage, CompletedIffTerminal, TaskSafe,
         IsTerminal

\* Each step keeps what is known of every task.
LEMMA NextTaskInv ==
    ASSUME TypeOK, Next, NEW e \in Execs, TaskInv(e)
    PROVE  TaskInv(e)'
  <1> USE DEF TypeOK, NoResult, Result, Status, Live, Terminal
  <1>1. ASSUME NEW f \in Execs, f # e,
               \/ Request(f) \/ Wait(f) \/ RunnerFinish(f)
               \/ \E out \in Outcomes \ {"none"} : RunnerReturn(f, out)
        PROVE  TaskInv(e)'
    <2>1. /\ UNCHANGED <<execMap[e], execRows[e], request[e], runner[e],
                         outcome[e], waiter[e]>>
          /\ e \in canceller' => e \in canceller
      BY <1>1
         DEF Request, Wait, ExecuteCheck, ExecuteRegister, ExecutePersist,
             ExecutePersistFails, CancelCheck, CancelApply, UpdateExecTask,
             WaitStart, WaitCheck, WaitRead, WaitTimeout, RunnerReturn, RunnerFinish
    <2>2. QED
      BY <2>1, TaskFrame
  <1> USE DEF TaskInv, RequestStage, RunnerStage, CompletedIffTerminal, TaskSafe,
              IsTerminal
  <1>2. CASE Request(e)
    <2>1. CASE ExecuteCheck(e)
      BY <2>1 DEF ExecuteCheck
    <2>2. CASE ExecuteRegister(e)
      BY <2>2 DEF ExecuteRegister
    <2>3. CASE ExecutePersist(e)
      BY <2>3 DEF ExecutePersist
    <2>4. CASE ExecutePersistFails(e)
      BY <2>4 DEF ExecutePersistFails
    <2>5. CASE CancelCheck(e)
      BY <2>5 DEF CancelCheck
    <2>6. CASE CancelApply(e)
      <3>1. CASE execMap[e].status = "running"
        <4>1. execMap'[e] = [status |-> "cancelling", completed |-> FALSE]
          BY <2>6, <3>1 DEF CancelApply
        <4>2. execRows'[e] \in {execRows[e], execMap'[e]}
          BY <2>6, <3>1 DEF CancelApply, UpdateExecTask
        <4>3. execRows[e] = NoResult => execRows'[e] = NoResult
          BY <2>6, <3>1 DEF CancelApply, UpdateExecTask
        <4>4. /\ UNCHANGED <<request, runner, outcome, waiter>>
              /\ e \in canceller /\ e \notin canceller'
          BY <2>6 DEF CancelApply
        <4>5. execRows[e] # NoResult => execRows[e] = execMap[e]
          BY <3>1
        <4>6. RequestStage(e)' /\ RunnerStage(e)' /\ CompletedIffTerminal(e)'
          BY <3>1, <4>1, <4>2, <4>3, <4>4, <4>5
        <4>7. TaskSafe(e)'
          <5>1. execRows'[e] # NoResult => execRows[e] = execMap[e]
            BY <4>3, <4>5
          <5>2. runner[e] # "done" /\ waiter[e] \notin Terminal
            BY <3>1
          <5>3. execRows'[e] # NoResult =>
                   \/ execRows'[e] = execMap'[e]
                   \/ execRows'[e].status = "running"
            BY <3>1, <4>2, <5>1
          <5>4. QED
            BY <3>1, <4>1, <4>4, <5>1, <5>2, <5>3
        <4>8. QED
          BY <4>6, <4>7
      <3>2. CASE execMap[e].status # "running"
        BY <2>6, <3>2, TaskFrame DEF CancelApply
      <3>3. QED
        BY <3>1, <3>2
    <2>7. QED
      BY <1>2, <2>1, <2>2, <2>3, <2>4, <2>5, <2>6 DEF Request
  <1>3. CASE Wait(e)
    <2>1. CASE WaitStart(e)
      BY <2>1 DEF WaitStart
    <2>2. CASE WaitCheck(e)
      BY <2>2 DEF WaitCheck
    <2>3. CASE WaitRead(e)
      <3>1. GetExec(e) = execMap[e]
        BY <2>3 DEF WaitRead, GetExec, RunnerPc
      <3>2. QED
        BY <2>3, <3>1 DEF WaitRead
    <2>4. CASE WaitTimeout(e)
      BY <2>4 DEF WaitTimeout
    <2>5. QED
      BY <1>3, <2>1, <2>2, <2>3, <2>4 DEF Wait
  <1>4. ASSUME NEW out \in Outcomes \ {"none"}, RunnerReturn(e, out)
        PROVE  TaskInv(e)'
    BY <1>4 DEF RunnerReturn
  <1>5. CASE RunnerFinish(e)
    <2> DEFINE st == FinalStatus(outcome[e], execMap[e].status = "cancelling")
    <2>1. st \in Terminal
      BY FinalStatusTerminal
    <2> HIDE DEF st
    <2>2. execMap'[e] = [status |-> st, completed |-> TRUE]
      BY <1>5 DEF RunnerFinish, st
    <2>3. execRows'[e] = NoResult \/ execRows'[e] = execMap'[e]
      BY <1>5 DEF RunnerFinish, UpdateExecTask
    <2>4. /\ runner[e] = "returned" /\ runner'[e] = "done"
          /\ UNCHANGED <<request, waiter, canceller>>
      BY <1>5 DEF RunnerFinish
    <2>5. QED
      BY <2>1, <2>2, <2>3, <2>4
  <1>6. ASSUME NEW s \in Sandboxes, DeleteSandbox(s) PROVE TaskInv(e)'
    BY <1>6 DEF DeleteSandbox
  <1>7. ASSUME NEW S \in SUBSET Execs, CleanupExecHistory(S) PROVE TaskInv(e)'
    BY <1>7 DEF CleanupExecHistory
  <1>8. CASE Restart
    BY <1>8 DEF Restart
  <1>9. QED
    BY <1>1, <1>2, <1>3, <1>4, <1>5, <1>6, <1>7, <1>8 DEF Next

LEMMA NextIInv == IInv /\ [Next]_vars => IInv'
  <1> SUFFICES ASSUME IInv, [Next]_vars PROVE IInv'
    OBVIOUS
  <1>1. CASE Next
    BY <1>1, NextTypeOK, NextTaskInv DEF IInv
  <1>2. CASE UNCHANGED vars
    BY <1>2, NextTypeOK, TaskFrame DEF IInv, vars
  <1>3. QED
    BY <1>1, <1>2

-----------------------------------------------------------------------------
\* The inductive invariant holds in every reachable state.
THEOREM Invariance == Spec => []IInv
  BY InitIInv, NextIInv, PTL DEF Spec

\* The variables keep their types.
THEOREM TypeCorrect == Spec => []TypeOK
  <1>1. IInv => TypeOK
    BY DEF IInv
  <1>2. QED
    BY <1>1, Invariance, PTL

\* The row of a task says what the map says, save for a lost cancellation.
THEOREM RowsAgreeWithMap == Spec => []RecordsAgree
  <1>1. IInv => RecordsAgree
    BY DEF IInv, TaskInv, TaskSafe, RecordsAgree
  <1>2. QED
    BY <1>1, Invariance, PTL

\* No result is overwritten, and none that is live is left without its goroutine.
THEOREM ResultRecordedOnce == Spec => []RunnerOwnsTask
  <1>1. IInv => RunnerOwnsTask
    BY DEF IInv, TaskInv, TaskSafe, RunnerOwnsTask
  <1>2. QED
    BY <1>1, Invariance, PTL

\* A client that waited for a result has been told the final one.
THEOREM WaitersToldTheTruth == Spec => []AnswerStands
  <1>1. IInv => AnswerStands
    BY DEF IInv, TaskInv, TaskSafe, AnswerStands
  <1>2. QED
    BY <1>1, Invariance, PTL

\* The history cleanup never takes the row of a task that has no result yet.
THEOREM LiveRowsSurviveCleanup == Spec => LiveRowKept
  <1> DEFINE Kept == \A e \in Execs :
                        execRows[e].status \in Live /\ execRows'[e] = NoResult
                            => SandboxOf[e] \notin alive'
  <1>1. ASSUME IInv, Next PROVE Kept
    <2> SUFFICES ASSUME NEW e \in Execs, execRows[e].status \in Live,
                        execRows'[e] = NoResult
                 PROVE  SandboxOf[e] \notin alive'
      OBVIOUS
    <2> USE <1>1 DEF IInv, TypeOK, Result, Status, Live, NoResult
    <2>1. execRows[e] # NoResult
      OBVIOUS
    <2>2. ASSUME NEW f \in Execs, Request(f) \/ Wait(f) PROVE FALSE
      BY <2>1, <2>2
         DEF Request, Wait, ExecuteCheck, ExecuteRegister, ExecutePersist,
             ExecutePersistFails, CancelCheck, CancelApply, UpdateExecTask,
             WaitStart, WaitCheck, WaitRead, WaitTimeout, TaskInv, RequestStage
    <2>3. ASSUME NEW f \in Execs, NEW out \in Outcomes \ {"none"},
                 RunnerReturn(f, out)
          PROVE  FALSE
      BY <2>1, <2>3 DEF RunnerReturn
    <2>4. ASSUME NEW f \in Execs, RunnerFinish(f) PROVE FALSE
      BY <2>1, <2>4 DEF RunnerFinish, UpdateExecTask
    <2>5. ASSUME NEW s \in Sandboxes, DeleteSandbox(s)
          PROVE  SandboxOf[e] \notin alive'
      BY <2>1, <2>5 DEF DeleteSandbox
    <2>6. ASSUME NEW S \in SUBSET Execs, CleanupExecHistory(S) PROVE FALSE
      BY <2>1, <2>6
         DEF CleanupExecHistory, TaskInv, CompletedIffTerminal, IsTerminal, Terminal
    <2>7. CASE Restart
      BY <2>1, <2>7 DEF Restart
    <2>8. QED
      BY <1>1, <2>2, <2>3, <2>4, <2>5, <2>6, <2>7 DEF Next
  <1>2. IInv /\ [Next]_vars => [Kept]_vars
    BY <1>1
  <1>3. QED
    BY <1>2, Invariance, PTL DEF Spec, LiveRowKept

-----------------------------------------------------------------------------
(***************************************************************************)
(* The service implements ExecPromise.                                     *)
(***************************************************************************)

\* A step that changes what GetExec says of one task only.
LEMMA OneAnswerChanges ==
    ASSUME NEW e \in Execs, NEW st,
           \A f \in Execs : f # e => View(f)' = View(f),
           View(e)' = st
    PROVE  Answers' = [Answers EXCEPT ![e] = st]
  BY DEF Answers

\* A step that changes no answer.
LEMMA NoAnswerChanges ==
    ASSUME \A f \in Execs : View(f)' = View(f)
    PROVE  Answers' = Answers
  BY DEF Answers

\* What a caller reads about a task depends on four things.
LEMMA ViewFrame ==
    ASSUME NEW e \in Execs,
           UNCHANGED <<alive, execMap[e], execRows[e]>>,
           \/ request'[e] = request[e]
           \/ request[e] = "unused" /\ request'[e] = "checked"
           \/ request[e] = "registered" /\ request'[e] = "done"
    PROVE  View(e)' = View(e)
  BY DEF View, GetExec

LEMMA InitPromise == Init => Promise!Init
  BY DEF Init, Promise!Init, Answers, View

\* Every step of the service is a step of the promise, or changes no answer.
LEMMA NextPromise ==
    ASSUME IInv, Next
    PROVE  Promise!Next \/ UNCHANGED Answers
  <1> USE DEF IInv, TypeOK, NoResult, Result, Status, Live, Terminal
  <1>1. ASSUME NEW e \in Execs, Request(e) PROVE Promise!Next \/ UNCHANGED Answers
    <2>0. \A f \in Execs : f # e => View(f)' = View(f)
      BY <1>1, ViewFrame
         DEF Request, ExecuteCheck, ExecuteRegister, ExecutePersist,
             ExecutePersistFails, CancelCheck, CancelApply, UpdateExecTask
    <2>1. CASE ExecuteCheck(e) \/ ExecutePersistFails(e) \/ CancelCheck(e)
      <3>1. View(e)' = View(e)
        BY <2>1, ViewFrame DEF ExecuteCheck, ExecutePersistFails, CancelCheck
      <3>2. QED
        BY <2>0, <3>1, NoAnswerChanges
    <2>2. CASE ExecuteRegister(e)
      <3>1. View(e) = "unused"
        BY <2>2 DEF ExecuteRegister, View
      <3>2. CASE SandboxOf[e] \in alive
        <4>1. View(e)' = "running"
          BY <2>2, <3>2 DEF ExecuteRegister, View, GetExec
        <4>2. Promise!Start(e)
          BY <2>0, <3>1, <4>1, OneAnswerChanges DEF Promise!Start, Answers
        <4>3. QED
          BY <4>2 DEF Promise!Next
      <3>3. CASE SandboxOf[e] \notin alive
        <4>1. View(e)' = "gone"
          BY <2>2, <3>3 DEF ExecuteRegister, View
        <4>2. Promise!Forget({e})
          BY <2>0, <4>1 DEF Promise!Forget, Answers
        <4>3. QED
          BY <4>2 DEF Promise!Next
      <3>4. QED
        BY <3>2, <3>3
    <2>3. CASE ExecutePersist(e)
      <3>1. View(e)' = View(e)
        BY <2>3 DEF ExecutePersist, View, GetExec, TaskInv, RequestStage
      <3>2. QED
        BY <2>0, <3>1, NoAnswerChanges
    <2>4. CASE CancelApply(e)
      <3>1. CASE execMap[e].status = "running" /\ SandboxOf[e] \in alive
        <4>1. request[e] \notin {"unused", "checked"}
          BY <3>1 DEF TaskInv, RequestStage
        <4>2. View(e) = "running"
          BY <3>1, <4>1 DEF View, GetExec
        <4>3. View(e)' = "cancelling"
          BY <2>4, <3>1, <4>1 DEF CancelApply, View, GetExec
        <4>4. Promise!Cancel(e)
          BY <2>0, <4>2, <4>3, OneAnswerChanges DEF Promise!Cancel, Answers
        <4>5. QED
          BY <4>4 DEF Promise!Next
      <3>2. CASE SandboxOf[e] \notin alive
        <4>1. View(e)' = View(e)
          BY <2>4, <3>2 DEF CancelApply, View
        <4>2. QED
          BY <2>0, <4>1, NoAnswerChanges
      <3>3. CASE execMap[e].status # "running"
        <4>1. View(e)' = View(e)
          BY <2>4, <3>3, ViewFrame DEF CancelApply
        <4>2. QED
          BY <2>0, <4>1, NoAnswerChanges
      <3>4. QED
        BY <3>1, <3>2, <3>3
    <2>5. QED
      BY <1>1, <2>1, <2>2, <2>3, <2>4 DEF Request
  <1>2. ASSUME NEW e \in Execs,
               \/ Wait(e)
               \/ \E out \in Outcomes \ {"none"} : RunnerReturn(e, out)
        PROVE  UNCHANGED Answers
    <2>1. UNCHANGED <<alive, execMap, execRows, request>>
      BY <1>2 DEF Wait, WaitStart, WaitCheck, WaitRead, WaitTimeout, RunnerReturn
    <2>2. QED
      BY <2>1, ViewFrame, NoAnswerChanges
  <1>3. ASSUME NEW e \in Execs, RunnerFinish(e)
        PROVE  Promise!Next \/ UNCHANGED Answers
    <2> DEFINE st == FinalStatus(outcome[e], execMap[e].status = "cancelling")
    <2>1. \A f \in Execs : f # e => View(f)' = View(f)
      BY <1>3, ViewFrame DEF RunnerFinish, UpdateExecTask
    <2>2. /\ execMap'[e].status = st
          /\ execMap'[e] # NoResult
          /\ UNCHANGED <<alive, request>>
      BY <1>3 DEF RunnerFinish
    <2>3. /\ runner[e] = "returned"
          /\ execMap[e].status \in Live
          /\ outcome[e] = "canceled" => execMap[e].status = "cancelling"
      BY <1>3 DEF RunnerFinish, TaskInv, TaskSafe, RunnerStage
    <2>4. /\ execMap[e].status = "running" => st \in {"succeeded", "failed"}
          /\ execMap[e].status = "cancelling" => st \in {"succeeded", "cancelled"}
      BY <2>3 DEF FinalStatus
    <2>5. request[e] = "done"
      BY <2>3 DEF TaskInv, RequestStage
    <2>6. CASE SandboxOf[e] \in alive
      <3> HIDE DEF st
      <3>1. View(e) = execMap[e].status /\ View(e)' = st
        BY <2>2, <2>3, <2>5, <2>6 DEF View, GetExec
      <3>2. Answers' = [Answers EXCEPT ![e] = st]
        BY <2>1, <3>1, OneAnswerChanges
      <3>3. Promise!Complete(e)
        BY <2>3, <2>4, <3>1, <3>2 DEF Promise!Complete, Answers
      <3>4. QED
        BY <3>3 DEF Promise!Next
    <2>7. CASE SandboxOf[e] \notin alive
      <3>1. View(e)' = View(e)
        BY <2>2, <2>5, <2>7 DEF View
      <3>2. QED
        BY <2>1, <3>1, NoAnswerChanges
    <2>8. QED
      BY <2>6, <2>7
  <1>4. ASSUME NEW s \in Sandboxes, DeleteSandbox(s) PROVE Promise!Next
    <2> DEFINE S == {e \in Execs : View(e)' = "gone"}
    <2>1. \A e \in Execs : e \notin S => View(e)' = View(e)
      BY <1>4 DEF DeleteSandbox, View, GetExec
    <2>2. Promise!Forget(S)
      BY <2>1 DEF Promise!Forget, Answers
    <2>3. QED
      BY <2>2 DEF Promise!Next
  <1>5. ASSUME NEW T \in SUBSET Execs, CleanupExecHistory(T) PROVE Promise!Next
    <2> DEFINE S == {e \in Execs : View(e)' = "gone"}
    <2>1. \A e \in Execs : e \notin S => View(e)' = View(e)
      BY <1>5 DEF CleanupExecHistory, View, GetExec
    <2>2. Promise!Forget(S)
      BY <2>1 DEF Promise!Forget, Answers
    <2>3. QED
      BY <2>2 DEF Promise!Next
  <1>6. CASE Restart
    <2> DEFINE lost     == {e \in Execs : View(e)' = "gone"}
               reverted == {e \in Execs : View(e) = "cancelling"
                                          /\ View(e)' = "running"}
    <2>1. ASSUME NEW e \in Execs, e \notin lost, e \notin reverted
          PROVE  View(e)' = View(e)
      <3>1. CASE request[e] = "unused"
        BY <1>6, <3>1 DEF Restart, View
      <3>2. CASE request[e] # "unused"
        <4>1. execMap'[e] = NoResult /\ execRows' = execRows /\ alive' = alive
              /\ request'[e] = "done"
          BY <1>6, <3>2 DEF Restart
        <4>2. /\ SandboxOf[e] \in alive
              /\ execRows[e] # NoResult
              /\ View(e)' = execRows[e].status
          BY <2>1, <4>1 DEF View, GetExec
        <4>3. request[e] \notin {"unused", "checked"}
          BY <4>2 DEF TaskInv, RequestStage
        <4>4. View(e) = GetExec(e).status
          BY <4>2, <4>3 DEF View, GetExec
        <4>5. CASE execMap[e] = NoResult \/ execMap[e] = execRows[e]
          BY <4>2, <4>4, <4>5 DEF GetExec
        <4>6. CASE execMap[e].status = "cancelling"
                   /\ execRows[e].status = "running"
          BY <2>1, <4>2, <4>4, <4>6 DEF GetExec
        <4>7. QED
          BY <4>2, <4>5, <4>6 DEF TaskInv, TaskSafe
      <3>3. QED
        BY <3>1, <3>2
    <2>2. Promise!Restart(lost, reverted)
      BY <2>1 DEF Promise!Restart, Answers
    <2>3. QED
      BY <2>2 DEF Promise!Next
  <1>7. QED
    BY <1>1, <1>2, <1>3, <1>4, <1>5, <1>6 DEF Next

\* Seen through the exec endpoints the service is the abstract one: a task's
\* answer runs from "running" to one terminal status, which never changes.
THEOREM Refinement == Spec => ImplementsPromise
  <1>1. IInv /\ [Next]_vars => [Promise!Next]_Answers
    <2>1. ASSUME UNCHANGED vars PROVE UNCHANGED Answers
      BY <2>1, ViewFrame, NoAnswerChanges DEF vars
    <2>2. QED
      BY <2>1, NextPromise
  <1>2. QED
    BY <1>1, InitPromise, Invariance, PTL
       DEF Spec, ImplementsPromise, Promise!Spec
=============================================================================
