----------------------------- MODULE MemoryExpand -----------------------------
(***************************************************************************)
(* The memory limit of one sandbox's container and everybody who raises it *)
(* (internal/sandbox/service.go, internal/sandbox/docker/backend.go): the  *)
(* endpoint POST /sandboxes/{id}/memory/expand with a target or with       *)
(* auto_expand, the check before each command, and the poller beside each  *)
(* running command.  All of them read the limit, more than once, and set   *)
(* it with a docker update of their own.  Mount updates and rollbacks      *)
(* create the container anew, with the limit read before or with none.     *)
(*                                                                         *)
(* Limits are in MB.  Each action is one Docker command with what the      *)
(* server decides on its result.  The sandbox has the label                *)
(* auto_expand_memory, and may be near its limit, or not, at every check:  *)
(* without the label it does what one that is never near does.             *)
(***************************************************************************)
EXTENDS Integers

CONSTANTS
    Requests,       \* expand requests
    Execs,          \* exec tasks of the sandbox
    Targets,        \* targets a request may name
    Created,        \* limits a container may be created with
    Policies,       \* settings the server may be started with
    MaxInt,         \* the largest int64
    LimitBound      \* bound: an automatic expansion starts from below it,
                    \* or else fails

\* A limit comes from docker inspect, which counts bytes in an int64: doubling it
\* in MB cannot overflow, and of currentMB the branch "+ 256" is never taken.
ASSUME MemoryExpandAssumption ==
    /\ MaxInt \in Nat /\ LimitBound \in Nat /\ 2 * LimitBound <= MaxInt
    /\ Targets \subseteq 1..MaxInt
    /\ Created \subseteq 1..MaxInt
    /\ Policies \subseteq [min : 0..MaxInt, max : 0..MaxInt, step : 0..MaxInt,
                           poll : BOOLEAN]

VARIABLES
    policy,         \* MEMORY_EXPAND_MIN_MB, _MAX_MB, _MAX_STEP_MB, and whether
                    \* _EXEC_POLL_SECONDS is above 0
    created,        \* the limit the sandbox was created with
    limit,          \* HostConfig.Memory of its container, 0 for no limit
    mount,          \* the mount update under way: the limit it has inspected
    call,           \* the calls of ExpandMemory and AutoExpandMemory
    exec,           \* where runExecTask of each task is
    status,         \* the status of each task in execMap
    recovery,       \* its Recovery: whose notes it joins, runExecTask's or the
                    \* poller's
    poller,         \* tasks with a goroutine pollExecMemoryDuringRun
    raced           \* history: calls that read the limit for the last time
                    \* before somebody else set it

settings == <<policy, created>>
container == <<limit, mount>>
tasks == <<exec, status, recovery, poller>>
vars == <<settings, container, call, tasks, raced>>

-----------------------------------------------------------------------------
\* A request, the check before a command, and the poller beside it.
Callers == ({"http"} \X Requests) \cup ({"pre", "poll"} \X Execs)
Pre(e)  == <<"pre", e>>
Poll(e) == <<"poll", e>>

\* A call that does nothing, and how the last one ended.
Ended(answer) == [pc |-> "idle", target |-> 0, answer |-> answer]

Calls == [pc : {"idle", "manual", "auto", "backend", "update"},
          target : 0..MaxInt,
          answer : {"none", "error", "refused", "triggered"}]

Nothing == [pc |-> "idle", keeps |-> 0]

TypeOK ==
    /\ policy \in Policies /\ created \in Created
    /\ limit \in 0..MaxInt
    /\ mount \in [pc : {"idle", "inspected"}, keeps : 0..MaxInt]
    /\ call \in [Callers -> Calls]
    /\ exec \in [Execs -> {"none", "pre", "run", "returned", "done"}]
    /\ status \in [Execs -> {"none", "running", "cancelling", "final"}]
    /\ recovery \in [Execs -> SUBSET {"run", "poll"}]
    /\ poller \subseteq Execs
    /\ raced \subseteq Callers

\* A sandbox with its container, and no command yet.
Init ==
    /\ policy \in Policies /\ created \in Created
    /\ limit = created /\ mount = Nothing
    /\ call = [c \in Callers |-> Ended("none")]
    /\ exec = [e \in Execs |-> "none"] /\ status = [e \in Execs |-> "none"]
    /\ recovery = [e \in Execs |-> {}] /\ poller = {}
    /\ raced = {}

-----------------------------------------------------------------------------
Lesser(a, b)  == IF a < b THEN a ELSE b
Greater(a, b) == IF a > b THEN a ELSE b

\* int64 addition of two numbers that are not negative.
Plus(a, b) == IF a + b > MaxInt THEN a + b - 2 * (MaxInt + 1) ELSE a + b

\* Mutant: the step is forgotten.
StepTargetUncapped(current) ==
    LET raised == Greater(2 * current, policy.min)
    IN  IF policy.max > 0 THEN Lesser(raised, policy.max) ELSE raised

\* autoExpandTargetOneStep: double, but by at most the step, then raised to the
\* minimum, then cut at the ceiling.  It is a no-op unless above the current
\* limit.  The minimum is applied after the step, and the addition may wrap.
StepTarget(current) ==
    LET doubled == 2 * current
        stepped == IF policy.step > 0
                   THEN Lesser(doubled, Plus(current, policy.step))
                   ELSE doubled
        raised  == IF policy.min > 0 THEN Greater(stepped, policy.min) ELSE stepped
    IN  IF policy.max > 0 THEN Lesser(raised, policy.max) ELSE raised

\* Mutant: only automatic targets are cut.
ClampNot(target) == target

\* What backend.ExpandMemory cuts a target to.
Clamp(target) == IF policy.max > 0 THEN Lesser(target, policy.max) ELSE target

End(c, answer) == call' = [call EXCEPT ![c] = Ended(answer)]

Move(c, pc, target) ==
    call' = [call EXCEPT ![c] = [pc |-> pc, target |-> target, answer |-> "none"]]

\* Somebody sets the limit: the calls that are about to set it are raced.
SetLimit(new, others) ==
    /\ limit' = new
    /\ raced' = {c \in others : call[c].pc = "update"}

-----------------------------------------------------------------------------
(***************************************************************************)
(* Expansions.                                                             *)
(***************************************************************************)

\* POST .../memory/expand, once the request is authorised and the host is not
\* short of memory.
RequestExpand(r, target) ==
    LET c == <<"http", r>>
    IN  /\ call[c].pc = "idle"
        /\ target >= policy.min
        /\ Move(c, "manual", target)
        /\ UNCHANGED <<settings, container, tasks, raced>>

AutoStart(c) ==
    /\ call[c].pc = "idle"
    /\ Move(c, "auto", 0)

\* The same with auto_expand, or without a target for a sandbox with the label.
RequestAutoExpand(r) ==
    /\ AutoStart(<<"http", r>>)
    /\ UNCHANGED <<settings, container, tasks, raced>>

\* ExpandMemory compares the target with the limit ...
ManualRead(c) ==
    /\ call[c].pc = "manual"
    /\ \/ /\ call[c].target > limit
          /\ Move(c, "backend", call[c].target)
       \/ call[c].target <= limit /\ End(c, "refused")
    /\ UNCHANGED <<settings, container, tasks, raced>>

\* ... and AutoExpandMemory computes one from the limit.
AutoRead(c) ==
    /\ call[c].pc = "auto"
    /\ \/ /\ 0 < limit /\ limit < LimitBound /\ StepTarget(limit) > limit
          /\ Move(c, "backend", StepTarget(limit))
       \/ (limit = 0 \/ StepTarget(limit) <= limit) /\ End(c, "refused")
    /\ UNCHANGED <<settings, container, tasks, raced>>

\* Mutant: the backend relies on the check of the service.
BackendReadUnchecked(c) ==
    /\ call[c].pc = "backend"
    /\ Move(c, "update", Clamp(call[c].target))
    /\ UNCHANGED <<settings, container, tasks, raced>>

\* The backend cuts the target at the ceiling and reads the limit again.
BackendRead(c) ==
    /\ call[c].pc = "backend"
    /\ \/ /\ Clamp(call[c].target) > limit
          /\ Move(c, "update", Clamp(call[c].target))
       \/ Clamp(call[c].target) <= limit /\ End(c, "refused")
    /\ UNCHANGED <<settings, container, tasks, raced>>

\* docker update --memory.  When the context of the command is cancelled, docker
\* is killed, with or without having done it.
BackendUpdate(c) ==
    /\ call[c].pc = "update"
    /\ SetLimit(call[c].target, Callers \ {c})
    /\ \/ End(c, "triggered")
       \/ \E e \in Execs : /\ c \in {Pre(e), Poll(e)}
                           /\ status[e] # "running"
                           /\ End(c, "error")
    /\ UNCHANGED <<settings, mount, tasks>>

\* A Docker command fails, as when the container is being replaced.
CallFails(c) ==
    /\ call[c].pc # "idle"
    /\ End(c, "error")
    /\ raced' = raced \ {c}
    /\ UNCHANGED <<settings, container, tasks>>

-----------------------------------------------------------------------------
(***************************************************************************)
(* Commands.                                                               *)
(***************************************************************************)

\* runExecTask looks at the memory pressure before the command: near the limit,
\* it expands.
ExecStart(e) ==
    /\ exec[e] = "none"
    /\ exec' = [exec EXCEPT ![e] = "pre"]
    /\ status' = [status EXCEPT ![e] = "running"]
    /\ \/ AutoStart(Pre(e))
       \/ UNCHANGED call
    /\ UNCHANGED <<settings, container, recovery, poller, raced>>

\* It notes what came of it, without the lock, and starts the poller.
ExecRun(e) ==
    /\ exec[e] = "pre" /\ call[Pre(e)].pc = "idle"
    /\ exec' = [exec EXCEPT ![e] = "run"]
    /\ recovery' = IF call[Pre(e)].answer \in {"error", "triggered"}
                   THEN [recovery EXCEPT ![e] = {"run"}]
                   ELSE recovery
    /\ End(Pre(e), "none")
    /\ poller' = IF policy.poll THEN poller \cup {e} ELSE poller
    /\ UNCHANGED <<settings, container, status, raced>>

\* The command is over; a recovery from an OOM kill replaces the note.
ExecReturn(e) ==
    /\ exec[e] = "run"
    /\ exec' = [exec EXCEPT ![e] = "returned"]
    /\ \E note \in {recovery[e], {"run"}} : recovery' = [recovery EXCEPT ![e] = note]
    /\ UNCHANGED <<settings, container, call, status, poller, raced>>

\* The result is final, and the context of the task is cancelled.
ExecFinish(e) ==
    /\ exec[e] = "returned"
    /\ exec' = [exec EXCEPT ![e] = "done"]
    /\ status' = [status EXCEPT ![e] = "final"]
    /\ UNCHANGED <<settings, container, call, recovery, poller, raced>>

\* CancelExec.
ExecCancel(e) ==
    /\ status[e] = "running"
    /\ status' = [status EXCEPT ![e] = "cancelling"]
    /\ UNCHANGED <<settings, container, call, exec, recovery, poller, raced>>

\* A tick of the poller: it runs the same check as before the command.
PollTick(e) ==
    /\ e \in poller
    /\ call[Poll(e)].answer # "triggered"
    /\ status[e] = "running"
    /\ AutoStart(Poll(e))
    /\ UNCHANGED <<settings, container, tasks, raced>>

\* Mutant: the status is not looked at again under the lock.
PollNoteAlways(e) ==
    /\ e \in poller
    /\ call[Poll(e)].answer = "triggered"
    /\ End(Poll(e), "none")
    /\ recovery' = [recovery EXCEPT ![e] = @ \cup {"poll"}]
    /\ UNCHANGED <<settings, container, exec, status, poller, raced>>

\* It notes an expansion, unless the task is no longer running by then.
PollNote(e) ==
    /\ e \in poller
    /\ call[Poll(e)].answer = "triggered"
    /\ End(Poll(e), "none")
    /\ recovery' = IF status[e] = "running"
                   THEN [recovery EXCEPT ![e] = @ \cup {"poll"}]
                   ELSE recovery
    /\ UNCHANGED <<settings, container, exec, status, poller, raced>>

\* Mutant: the poller waits for the result instead of the context.
PollStopFinal(e) ==
    /\ e \in poller
    /\ call[Poll(e)].pc = "idle" /\ call[Poll(e)].answer # "triggered"
    /\ status[e] = "final"
    /\ poller' = poller \ {e}
    /\ UNCHANGED <<settings, container, call, exec, status, recovery, raced>>

\* It returns when the context is cancelled, or the task no longer running.
PollStop(e) ==
    /\ e \in poller
    /\ call[Poll(e)].pc = "idle" /\ call[Poll(e)].answer # "triggered"
    /\ status[e] # "running"
    /\ poller' = poller \ {e}
    /\ UNCHANGED <<settings, container, call, exec, status, recovery, raced>>

-----------------------------------------------------------------------------
(***************************************************************************)
(* The container is replaced.                                              *)
(***************************************************************************)

\* UpdateMounts inspects the container ...
MountInspect ==
    /\ mount = Nothing
    /\ mount' = [pc |-> "inspected", keeps |-> limit]
    /\ UNCHANGED <<settings, limit, call, tasks, raced>>

\* ... and gives the next one the limit it saw.
MountCreate ==
    /\ mount # Nothing
    /\ SetLimit(mount.keeps, Callers)
    /\ mount' = Nothing
    /\ UNCHANGED <<settings, call, tasks>>

\* Mutant: no limit is written as -1.
RollbackMinusOne ==
    /\ SetLimit(-1, Callers)
    /\ UNCHANGED <<settings, mount, call, tasks>>

\* RollbackToSnapshot creates a container without a limit.
Rollback ==
    /\ SetLimit(0, Callers)
    /\ UNCHANGED <<settings, mount, call, tasks>>

-----------------------------------------------------------------------------
Step(c) ==
    ManualRead(c) \/ AutoRead(c) \/ BackendRead(c) \/ BackendUpdate(c) \/ CallFails(c)

Request(r) == RequestAutoExpand(r) \/ \E t \in Targets : RequestExpand(r, t)

Exec(e) ==
    \/ ExecStart(e) \/ ExecRun(e) \/ ExecReturn(e) \/ ExecFinish(e) \/ ExecCancel(e)
    \/ PollTick(e) \/ PollNote(e) \/ PollStop(e)

Next ==
    \/ \E c \in Callers : Step(c)
    \/ \E r \in Requests : Request(r)
    \/ \E e \in Execs : Exec(e)
    \/ MountInspect \/ MountCreate \/ Rollback

Spec == Init /\ [][Next]_vars

\* A poller's Docker commands return, and its select takes one of the two cases
\* when its timer ticks or its context is cancelled.
Fairness ==
    \A e \in Execs : /\ WF_vars(Step(Poll(e)))
                     /\ WF_vars(PollNote(e)) /\ WF_vars(PollStop(e))

FairSpec == Spec /\ Fairness

-----------------------------------------------------------------------------
(***************************************************************************)
(* Properties.                                                             *)
(***************************************************************************)

\* With MEMORY_EXPAND_MAX_MB above 0 "neither automatic nor manual targets exceed
\* it" (README_zh.md): whoever expands, and however the calls interleave, a
\* limit above the ceiling is the one the sandbox was created with.  A rollback
\* leaves a container with no limit at all, which is 0 here.
CeilingKept ==
    policy.max > 0 => limit <= Greater(created, policy.max)

\* An expansion lowers the limit only if somebody else set it between the last
\* read and the update, or if the container had no limit, as after a rollback.
LoweredOnlyByRace ==
    [][\A c \in Callers :
          /\ call[c].pc = "update" /\ call'[c].pc = "idle"
          /\ limit # 0 /\ limit' < limit
          => c \in raced]_vars

\* "At most this many MB per automatic expansion": a step goes up, by no more
\* than doubling and no more than MEMORY_EXPAND_MAX_STEP_MB, except to reach
\* MEMORY_EXPAND_MIN_MB; and one is refused only at the ceiling, without a limit,
\* or when the sum of limit and step does not fit into 64 bits.
AutoStepSound ==
    [][\A c \in Callers : call[c].pc = "auto" =>
        /\ call'[c].pc = "backend" =>
              /\ call'[c].target > limit
              /\ call'[c].target <= Greater(2 * limit, policy.min)
              /\ policy.step > 0 =>
                    call'[c].target <= Greater(limit + policy.step, policy.min)
        /\ call'[c].pc = "idle" /\ call'[c].answer = "refused" =>
              \/ limit = 0
              \/ policy.max > 0 /\ limit >= policy.max
              \/ limit + policy.step > MaxInt]_vars

\* The poller releases the lock while it expands: it never changes the Recovery
\* of a result that has become final meanwhile, which may have been read.
FinalResultKept ==
    [][\A e \in Execs : status[e] = "final" => recovery'[e] = recovery[e]]_vars

\* No poller outlives its command: it stops whether it ended or was cancelled,
\* also when that happens in the middle of an expansion.
PollerStops ==
    \A e \in Execs : status[e] \in {"cancelling", "final"} ~> e \notin poller
=============================================================================
