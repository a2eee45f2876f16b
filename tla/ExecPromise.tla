----------------------------- MODULE ExecPromise -----------------------------
(***************************************************************************)
(* What a caller of the exec endpoints may rely on, for each exec id: the  *)
(* life of the status GET /sandboxes/{id}/exec/{execId} answers with.  The *)
(* detailed specification of the service, ExecTasks, is shown to implement *)
(* it.                                                                     *)
(***************************************************************************)

CONSTANT Execs          \* exec ids, each drawn at most once

VARIABLE view           \* the status a caller can read for each exec id

Terminal == {"succeeded", "failed", "cancelled"}

-----------------------------------------------------------------------------
Init == view = [e \in Execs |-> "unused"]

\* The task becomes visible, as a running one.
Start(e) ==
    /\ view[e] = "unused"
    /\ view' = [view EXCEPT ![e] = "running"]

\* A cancellation is accepted.  It is a request: the command may still succeed.
Cancel(e) ==
    /\ view[e] = "running"
    /\ view' = [view EXCEPT ![e] = "cancelling"]

\* The result is recorded, once.  "cancelled" answers a cancellation, and a
\* command that fails after it was cancelled is not reported as failed.
Complete(e) ==
    \/ /\ view[e] = "running"
       /\ \E st \in {"succeeded", "failed"} : view' = [view EXCEPT ![e] = st]
    \/ /\ view[e] = "cancelling"
       /\ \E st \in {"succeeded", "cancelled"} : view' = [view EXCEPT ![e] = st]

\* Tasks become unreadable together (their sandbox is deleted) and for good.
Forget(S) ==
    view' = [e \in Execs |-> IF e \in S THEN "gone" ELSE view[e]]

\* A restart of the server forgets what it did not persist: tasks that have no
\* row, and an accepted cancellation whose row write was lost.
Restart(lost, reverted) ==
    /\ \A e \in reverted : view[e] = "cancelling"
    /\ view' = [e \in Execs |-> IF e \in lost THEN "gone"
                                ELSE IF e \in reverted THEN "running"
                                ELSE view[e]]

Next ==
    \/ \E e \in Execs : Start(e) \/ Cancel(e) \/ Complete(e)
    \/ \E S \in SUBSET Execs : Forget(S)
    \/ \E lost, reverted \in SUBSET Execs : Restart(lost, reverted)

Spec == Init /\ [][Next]_view
=============================================================================
