--------------------------- MODULE WorkflowPromise ---------------------------
(***************************************************************************)
(* What a client of POST /workflow/run may rely on: what was done and what *)
(* the answer says were done in step, the end comes with the first step    *)
(* that does not succeed, and a step that names no sandbox means the one   *)
(* created last.  Workflow is shown to implement it.                       *)
(***************************************************************************)
EXTENDS Naturals, Sequences

CONSTANTS
    Sandboxes,      \* sandbox ids
    Tasks,          \* exec ids
    None,           \* no sandbox, no task
    MaxSteps        \* how many steps were asked for

VARIABLES
    done,           \* what has been done, in this order
    answer,         \* the entries of the answer
    default,        \* the sandbox of a step that names none
    open            \* whether it goes on

promiseVars == <<done, answer, default, open>>

-----------------------------------------------------------------------------
Init ==
    /\ done = <<>> /\ answer = <<>>
    /\ default = None
    /\ open = TRUE

\* Each deed has its entry; a task that was started may be without one.
Even == Len(answer) = Len(done)

\* A step that was asked for is left.
Left == Even /\ Len(answer) < MaxSteps

Do(action, id) == done' = Append(done, [action |-> action, id |-> id])
Tell(action, status, id) ==
    \E result \in {"none", "running", "final"} :
        answer' = Append(answer, [action |-> action, status |-> status, id |-> id,
                                  result |-> result])

\* Done and told in one.
Act(action, id) ==
    /\ Left
    /\ Do(action, id) /\ Tell(action, "succeeded", id)
    /\ UNCHANGED open

StartTask(t) ==
    /\ Left
    /\ Do("exec_command", t)
    /\ UNCHANGED <<answer, open>>

\* The task that was started last is told of by its id, also if it takes too long.
TellTask ==
    \E status \in {"succeeded", "timed_out"} :
        /\ ~Even
        /\ Tell("exec_command", status, done[Len(done)].id)
        /\ open' = (status = "succeeded")
        /\ UNCHANGED done

\* Nothing more is done, and what was done stays.
Fail ==
    /\ Left \/ ~Even
    /\ \E action \in {"any", "exec_command"} : Tell(action, "failed", None)
    /\ open' = FALSE
    /\ UNCHANGED done

Close ==
    /\ Even /\ answer # <<>>
    /\ open' = FALSE
    /\ UNCHANGED <<done, answer>>

-----------------------------------------------------------------------------
\* The k-th deed of d created a sandbox; none was created after it, and the workflow
\* has not deleted it.
Standing(d, k) ==
    /\ d[k].action = "create_sandbox"
    /\ \A j \in 1..Len(d) : j > k =>
          /\ d[j].action # "create_sandbox"
          /\ d[j] # [action |-> "delete_sandbox", id |-> d[k].id]

IsDefault(box, d) ==
    \/ \E k \in 1..Len(d) : Standing(d, k) /\ box = d[k].id
    \/ box = None /\ \A k \in 1..Len(d) : ~Standing(d, k)

Next ==
    /\ open
    /\ \/ \E box \in Sandboxes :
             \E action \in {"create_sandbox", "create_snapshot", "rollback_snapshot",
                            "delete_sandbox"} : Act(action, box)
       \/ \E t \in Tasks : StartTask(t)
       \/ TellTask \/ Fail \/ Close
    /\ IsDefault(default', done')

Spec == Init /\ [][Next]_promiseVars
=============================================================================
