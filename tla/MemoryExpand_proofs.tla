-------------------------- MODULE MemoryExpand_proofs --------------------------
(***************************************************************************)
(* Proofs about MemoryExpand for any number of requests and commands, any  *)
(* settings and any size of an integer.                                    *)
(***************************************************************************)
EXTENDS MemoryExpand, TLAPS

\* With a ceiling: the limit, the one that a mount update will give to the next
\* container, and the targets that were cut are below it, or as it was created.
CeilingInv ==
    policy.max > 0 =>
        /\ limit <= Greater(created, policy.max)
        /\ mount.keeps <= Greater(created, policy.max)
        /\ \A c \in Callers : call[c].pc = "update" => call[c].target <= policy.max

\* A call about to set the limit raises it, unless it was overtaken.
RaceInv ==
    \A c \in Callers :
        call[c].pc = "update" /\ c \notin raced => call[c].target > limit

\* A result is final when runExecTask is over.
StatusInv == \A e \in Execs : status[e] = "final" => exec[e] = "done"

IInv == TypeOK /\ CeilingInv /\ RaceInv /\ StatusInv

USE MemoryExpandAssumption

-----------------------------------------------------------------------------
(***************************************************************************)
(* Targets.                                                                *)
(***************************************************************************)

\* The settings and the limit are numbers.
LEMMA Numbers ==
    ASSUME TypeOK
    PROVE  /\ policy.min \in 0..MaxInt /\ policy.max \in 0..MaxInt
           /\ policy.step \in 0..MaxInt
           /\ created \in 1..MaxInt /\ limit \in 0..MaxInt
           /\ MaxInt \in Nat
<1>1. policy \in [min : 0..MaxInt, max : 0..MaxInt, step : 0..MaxInt, poll : BOOLEAN]
  BY DEF TypeOK, MemoryExpandAssumption
<1>2. created \in 1..MaxInt /\ limit \in 0..MaxInt /\ MaxInt \in Nat
  BY DEF TypeOK, MemoryExpandAssumption
<1>3. QED
  BY <1>1, <1>2

\* The sum of limit and step is never above the true one, and is it if that fits.
LEMMA PlusBound ==
    ASSUME NEW m \in 0..MaxInt, NEW n \in 0..MaxInt, MaxInt \in Nat
    PROVE  /\ Plus(m, n) \in Int /\ Plus(m, n) <= m + n
           /\ m + n <= MaxInt => Plus(m, n) = m + n
  BY DEF Plus

\* What cutting, raising and stepping do to a target.
LEMMA StepTargetBounds ==
    ASSUME TypeOK
    PROVE  /\ StepTarget(limit) \in Int
           /\ StepTarget(limit) <= Greater(2 * limit, policy.min)
           /\ policy.step > 0 =>
                 StepTarget(limit) <= Greater(limit + policy.step, policy.min)
           /\ StepTarget(limit) <= limit =>
                 \/ limit = 0
                 \/ policy.max > 0 /\ limit >= policy.max
                 \/ limit + policy.step > MaxInt
<1> DEFINE sum == Plus(limit, policy.step)
           doubled == 2 * limit
           stepped == IF policy.step > 0 THEN Lesser(doubled, sum) ELSE doubled
           raised  == IF policy.min > 0 THEN Greater(stepped, policy.min) ELSE stepped
           target  == IF policy.max > 0 THEN Lesser(raised, policy.max) ELSE raised
<1>1. /\ policy.min \in 0..MaxInt /\ policy.max \in 0..MaxInt
      /\ policy.step \in 0..MaxInt /\ limit \in 0..MaxInt /\ MaxInt \in Nat
  BY Numbers
<1>2. /\ sum \in Int /\ sum <= limit + policy.step
      /\ limit + policy.step <= MaxInt => sum = limit + policy.step
  BY <1>1, PlusBound
<1> HIDE DEF sum
<1>3. /\ stepped \in Int /\ stepped <= 2 * limit
      /\ policy.step > 0 => stepped <= limit + policy.step
      /\ stepped <= limit => limit = 0 \/ limit + policy.step > MaxInt
  BY <1>1, <1>2 DEF Lesser
<1> HIDE DEF stepped
<1>4. /\ raised \in Int /\ raised <= Greater(stepped, policy.min) /\ stepped <= raised
  BY <1>1, <1>3 DEF Greater
<1> HIDE DEF raised
<1>5. /\ target \in Int /\ target <= raised
      /\ target <= limit => raised <= limit \/ (policy.max > 0 /\ limit >= policy.max)
  BY <1>1, <1>4 DEF Lesser
<1>6. StepTarget(limit) = target
  BY DEF StepTarget, target, raised, stepped, sum
<1> HIDE DEF target
<1>7. target <= Greater(2 * limit, policy.min)
  BY <1>1, <1>3, <1>4, <1>5 DEF Greater
<1>8. policy.step > 0 => target <= Greater(limit + policy.step, policy.min)
  BY <1>1, <1>3, <1>4, <1>5 DEF Greater
<1>9. target <= limit => \/ limit = 0
                         \/ policy.max > 0 /\ limit >= policy.max
                         \/ limit + policy.step > MaxInt
  BY <1>1, <1>3, <1>4, <1>5
<1>10. QED
  BY <1>5, <1>6, <1>7, <1>8, <1>9

\* A step above the limit, from below the bound, fits into an int64.
LEMMA StepTargetFits ==
    ASSUME TypeOK, limit < LimitBound, StepTarget(limit) > limit
    PROVE  StepTarget(limit) \in 0..MaxInt
<1>1. /\ policy.min \in 0..MaxInt /\ limit \in 0..MaxInt /\ MaxInt \in Nat
  BY Numbers
<1>2. LimitBound \in Nat /\ 2 * LimitBound <= MaxInt
  BY DEF MemoryExpandAssumption
<1>3. StepTarget(limit) \in Int /\ StepTarget(limit) <= Greater(2 * limit, policy.min)
  BY StepTargetBounds
<1>4. QED
  BY <1>1, <1>2, <1>3 DEF Greater

\* A target that was cut is no greater than before, and below the ceiling.
LEMMA Clamped ==
    ASSUME TypeOK, NEW t \in 0..MaxInt
    PROVE  /\ Clamp(t) \in 0..MaxInt
           /\ policy.max > 0 => Clamp(t) <= policy.max
<1>1. policy.max \in 0..MaxInt /\ MaxInt \in Nat
  BY Numbers
<1>2. QED
  BY <1>1 DEF Clamp, Lesser

-----------------------------------------------------------------------------
(***************************************************************************)
(* The invariant.                                                          *)
(***************************************************************************)

LEMMA InitIInv == Init => IInv
<1> SUFFICES ASSUME Init PROVE IInv
  OBVIOUS
<1>1. TypeOK
  BY DEF Init, TypeOK, Calls, Ended, Nothing, MemoryExpandAssumption
<1>2. CeilingInv
  <2>1. created \in 1..MaxInt /\ policy.max \in 0..MaxInt /\ MaxInt \in Nat
    BY <1>1, Numbers
  <2>2. QED
    BY <2>1 DEF Init, CeilingInv, Greater, Nothing, Ended
<1>3. RaceInv /\ StatusInv
  BY DEF Init, RaceInv, StatusInv, Ended
<1>4. QED
  BY <1>1, <1>2, <1>3 DEF IInv

\* What the steps do to calls: they move one, or none.
LEMMA TypesKept == TypeOK /\ [Next]_vars => TypeOK'
<1> SUFFICES ASSUME TypeOK, [Next]_vars PROVE TypeOK'
  OBVIOUS
<1>t. /\ limit \in 0..MaxInt /\ MaxInt \in Nat /\ created \in 0..MaxInt
      /\ call \in [Callers -> Calls]
      /\ mount \in [pc : {"idle", "inspected"}, keeps : 0..MaxInt]
  BY Numbers DEF TypeOK
<1>m. ASSUME NEW c \in Callers, NEW pc \in {"manual", "auto", "backend", "update"},
             NEW t \in 0..MaxInt, Move(c, pc, t)
      PROVE  call' \in [Callers -> Calls]
  BY <1>t, <1>m DEF Move, Calls
<1>e. ASSUME NEW c \in Callers, NEW a \in {"none", "error", "refused", "triggered"},
             End(c, a)
      PROVE  call' \in [Callers -> Calls]
  BY <1>t, <1>e DEF End, Ended, Calls
<1>c. \A c \in Callers : call[c].target \in 0..MaxInt
  BY <1>t DEF Calls
<1>u. ASSUME UNCHANGED <<settings, container, tasks>>, raced' \subseteq Callers,
             call' \in [Callers -> Calls]
      PROVE  TypeOK'
  BY <1>u DEF TypeOK, settings, container, tasks
<1>r. raced \subseteq Callers
  BY DEF TypeOK
<1>p. \A e \in Execs : Pre(e) \in Callers /\ Poll(e) \in Callers
  BY DEF Pre, Poll, Callers
<1>1. CASE UNCHANGED vars
  BY <1>1, <1>u, <1>r, <1>t DEF vars
<1>2. ASSUME NEW c \in Callers, Step(c) PROVE TypeOK'
  <2>1. CASE ManualRead(c)
    BY <2>1, <1>c, <1>e, <1>m, <1>r, <1>u DEF ManualRead
  <2>2. CASE AutoRead(c)
    BY <2>2, <1>e, <1>m, <1>r, <1>u, StepTargetFits DEF AutoRead
  <2>3. CASE BackendRead(c)
    BY <2>3, <1>c, <1>e, <1>m, <1>r, <1>u, Clamped DEF BackendRead
  <2>4. CASE BackendUpdate(c)
    <3>1. call' \in [Callers -> Calls]
      BY <2>4, <1>e DEF BackendUpdate
    <3>2. limit' \in 0..MaxInt /\ raced' \subseteq Callers
      BY <2>4, <1>c DEF BackendUpdate, SetLimit
    <3>3. QED
      BY <2>4, <3>1, <3>2 DEF BackendUpdate, TypeOK, settings, tasks
  <2>5. CASE CallFails(c)
    BY <2>5, <1>e, <1>r, <1>u DEF CallFails
  <2>6. QED
    BY <1>2, <2>1, <2>2, <2>3, <2>4, <2>5 DEF Step
<1>3. ASSUME NEW r \in Requests, Request(r) PROVE TypeOK'
  <2>1. <<"http", r>> \in Callers
    BY DEF Callers
  <2>2. \A t \in Targets : t \in 0..MaxInt
    BY DEF MemoryExpandAssumption
  <2>3. QED
    BY <1>3, <2>1, <2>2, <1>m, <1>r, <1>t, <1>u
       DEF Request, RequestExpand, RequestAutoExpand, AutoStart
<1>4. ASSUME NEW e \in Execs, Exec(e) PROVE TypeOK'
  <2>1. CASE ExecStart(e)
    <3>1. call' \in [Callers -> Calls]
      BY <2>1, <1>m, <1>p, <1>t DEF ExecStart, AutoStart
    <3>2. QED
      BY <2>1, <3>1 DEF ExecStart, TypeOK, settings, container
  <2>2. CASE ExecRun(e)
    <3>1. call' \in [Callers -> Calls]
      BY <2>2, <1>e, <1>p DEF ExecRun
    <3>2. recovery' \in [Execs -> SUBSET {"run", "poll"}]
      BY <2>2 DEF ExecRun, TypeOK
    <3>3. QED
      BY <2>2, <3>1, <3>2 DEF ExecRun, TypeOK, settings, container
  <2>3. CASE ExecReturn(e)
    <3>1. recovery' \in [Execs -> SUBSET {"run", "poll"}]
      BY <2>3 DEF ExecReturn, TypeOK
    <3>2. QED
      BY <2>3, <3>1 DEF ExecReturn, TypeOK, settings, container
  <2>4. CASE ExecFinish(e)
    BY <2>4 DEF ExecFinish, TypeOK, settings, container
  <2>5. CASE ExecCancel(e)
    BY <2>5 DEF ExecCancel, TypeOK, settings, container
  <2>6. CASE PollTick(e)
    BY <2>6, <1>m, <1>p, <1>r, <1>t, <1>u DEF PollTick, AutoStart
  <2>7. CASE PollNote(e)
    <3>1. call' \in [Callers -> Calls]
      BY <2>7, <1>e, <1>p DEF PollNote
    <3>2. recovery' \in [Execs -> SUBSET {"run", "poll"}]
      BY <2>7 DEF PollNote, TypeOK
    <3>3. QED
      BY <2>7, <3>1, <3>2 DEF PollNote, TypeOK, settings, container
  <2>8. CASE PollStop(e)
    BY <2>8 DEF PollStop, TypeOK, settings, container
  <2>9. QED
    BY <1>4, <2>1, <2>2, <2>3, <2>4, <2>5, <2>6, <2>7, <2>8 DEF Exec
<1>5. CASE MountInspect
  BY <1>5, <1>t DEF MountInspect, TypeOK, settings, tasks
<1>6. CASE MountCreate
  BY <1>6, <1>t DEF MountCreate, SetLimit, TypeOK, settings, tasks, Nothing
<1>7. CASE Rollback
  BY <1>7, <1>t DEF Rollback, SetLimit, TypeOK, settings, tasks
<1>8. QED
  BY <1>1, <1>2, <1>3, <1>4, <1>5, <1>6, <1>7 DEF Next

\* Every step sets the limit, or leaves it with all calls that are about to, but
\* for one whose target it has just cut and compared, or which it ends.
LEMMA CallSteps ==
    ASSUME TypeOK, [Next]_vars
    PROVE  \/ /\ UNCHANGED limit
              /\ \A c \in Callers : call'[c].pc = "update" =>
                    \/ call'[c] = call[c] /\ (c \in raced => c \in raced')
                    \/ /\ call'[c].target = Clamp(call[c].target)
                       /\ call'[c].target > limit
           \/ /\ \A c \in Callers : call'[c].pc = "update" =>
                    call'[c] = call[c] /\ c \in raced'
              /\ \/ limit' = mount.keeps \/ limit' = 0
                 \/ \E c \in Callers : call[c].pc = "update" /\ limit' = call[c].target
<1>t. call \in [Callers -> Calls]
  BY DEF TypeOK
<1>m. ASSUME NEW c \in Callers, NEW pc, NEW t, Move(c, pc, t)
      PROVE  /\ \A d \in Callers \ {c} : call'[d] = call[d]
             /\ call'[c].pc = pc /\ call'[c].target = t
  BY <1>t, <1>m DEF Move
<1>e. ASSUME NEW c \in Callers, NEW a, End(c, a)
      PROVE  /\ \A d \in Callers \ {c} : call'[d] = call[d]
             /\ call'[c].pc = "idle"
  BY <1>t, <1>e DEF End, Ended
<1>p. \A e \in Execs : Pre(e) \in Callers /\ Poll(e) \in Callers
  BY DEF Pre, Poll, Callers
<1>1. CASE UNCHANGED vars
  BY <1>1 DEF vars, container
<1>2. ASSUME NEW c \in Callers, ManualRead(c) \/ AutoRead(c) \/ CallFails(c)
      PROVE  UNCHANGED limit /\ \A d \in Callers : call'[d].pc = "update" =>
                 call'[d] = call[d] /\ (d \in raced => d \in raced')
  BY <1>2, <1>e, <1>m DEF ManualRead, AutoRead, CallFails, container
<1>3. ASSUME NEW c \in Callers, BackendRead(c)
      PROVE  UNCHANGED limit /\ \A d \in Callers : call'[d].pc = "update" =>
                 \/ call'[d] = call[d] /\ (d \in raced => d \in raced')
                 \/ /\ call'[d].target = Clamp(call[d].target)
                    /\ call'[d].target > limit
  BY <1>3, <1>e, <1>m DEF BackendRead, container
<1>4. ASSUME NEW c \in Callers, BackendUpdate(c)
      PROVE  /\ \A d \in Callers : call'[d].pc = "update" =>
                    call'[d] = call[d] /\ d \in raced'
             /\ call[c].pc = "update" /\ limit' = call[c].target
  BY <1>4, <1>e DEF BackendUpdate, SetLimit
<1>5. ASSUME NEW r \in Requests, Request(r)
      PROVE  UNCHANGED limit /\ \A d \in Callers : call'[d].pc = "update" =>
                 call'[d] = call[d] /\ (d \in raced => d \in raced')
  <2>1. <<"http", r>> \in Callers
    BY DEF Callers
  <2>2. QED
    BY <1>5, <2>1, <1>m
       DEF Request, RequestExpand, RequestAutoExpand, AutoStart, container
<1>6. ASSUME NEW e \in Execs, Exec(e)
      PROVE  UNCHANGED limit /\ \A d \in Callers : call'[d].pc = "update" =>
                 call'[d] = call[d] /\ (d \in raced => d \in raced')
  <2>1. CASE ExecStart(e) \/ PollTick(e)
    BY <2>1, <1>m, <1>p DEF ExecStart, PollTick, AutoStart, container
  <2>2. CASE ExecRun(e) \/ PollNote(e)
    BY <2>2, <1>e, <1>p DEF ExecRun, PollNote, container
  <2>3. CASE ExecReturn(e) \/ ExecFinish(e) \/ ExecCancel(e) \/ PollStop(e)
    BY <2>3 DEF ExecReturn, ExecFinish, ExecCancel, PollStop, container
  <2>4. QED
    BY <1>6, <2>1, <2>2, <2>3 DEF Exec
<1>7. CASE MountInspect
  BY <1>7 DEF MountInspect
<1>8. CASE MountCreate \/ Rollback
  BY <1>8 DEF MountCreate, Rollback, SetLimit
<1>9. QED
  BY <1>1, <1>2, <1>3, <1>4, <1>5, <1>6, <1>7, <1>8 DEF Next, Step

\* What a mount update keeps is a limit there was.
LEMMA MountSteps ==
    [Next]_vars => UNCHANGED settings /\ mount'.keeps \in {mount.keeps, limit, 0}
<1> SUFFICES ASSUME [Next]_vars
             PROVE  UNCHANGED settings /\ mount'.keeps \in {mount.keeps, limit, 0}
  OBVIOUS
<1>1. CASE MountInspect
  BY <1>1 DEF MountInspect
<1>2. CASE MountCreate
  BY <1>2 DEF MountCreate, Nothing
<1>3. CASE Rollback
  BY <1>3 DEF Rollback
<1>4. ASSUME NEW c \in Callers, Step(c) PROVE UNCHANGED <<settings, mount>>
  BY <1>4
     DEF Step, ManualRead, AutoRead, BackendRead, BackendUpdate, CallFails, container
<1>5. ASSUME NEW r \in Requests, Request(r) PROVE UNCHANGED <<settings, mount>>
  BY <1>5 DEF Request, RequestExpand, RequestAutoExpand, container
<1>6. ASSUME NEW e \in Execs, Exec(e) PROVE UNCHANGED <<settings, mount>>
  BY <1>6
     DEF Exec, ExecStart, ExecRun, ExecReturn, ExecFinish, ExecCancel, PollTick,
         PollNote, PollStop, container
<1>7. CASE UNCHANGED vars
  BY <1>7 DEF vars, container
<1>8. QED
  BY <1>1, <1>2, <1>3, <1>4, <1>5, <1>6, <1>7 DEF Next

LEMMA CeilingInvKept == IInv /\ [Next]_vars => CeilingInv'
<1> SUFFICES ASSUME IInv, [Next]_vars, policy.max > 0
             PROVE  /\ limit' <= Greater(created, policy.max)
                    /\ mount'.keeps <= Greater(created, policy.max)
                    /\ \A c \in Callers : call'[c].pc = "update" =>
                           call'[c].target <= policy.max
  BY MountSteps DEF CeilingInv, settings
<1>1. TypeOK /\ CeilingInv
  BY DEF IInv
<1>2. /\ policy.max \in 0..MaxInt /\ created \in 1..MaxInt /\ limit \in 0..MaxInt
      /\ MaxInt \in Nat
  BY <1>1, Numbers
<1>3. /\ mount.keeps \in 0..MaxInt
      /\ \A c \in Callers : call[c].target \in 0..MaxInt
  BY <1>1 DEF TypeOK, Calls
<1>4. /\ Greater(created, policy.max) \in Nat /\ policy.max <= Greater(created, policy.max)
  BY <1>2 DEF Greater
<1>5. /\ limit <= Greater(created, policy.max)
      /\ mount.keeps <= Greater(created, policy.max)
      /\ \A c \in Callers : call[c].pc = "update" => call[c].target <= policy.max
  BY <1>1 DEF CeilingInv
<1>6. \A c \in Callers : Clamp(call[c].target) <= policy.max
  BY <1>1, <1>3, Clamped
<1>7. ASSUME NEW c \in Callers, call'[c].pc = "update" PROVE call'[c].target <= policy.max
  <2>1. call'[c] = call[c] \/ call'[c].target = Clamp(call[c].target)
    BY <1>1, <1>7, CallSteps
  <2>2. QED
    BY <1>5, <1>6, <1>7, <2>1
<1>8. limit' <= Greater(created, policy.max)
  <2>1. \/ limit' = limit \/ limit' = mount.keeps \/ limit' = 0
        \/ \E c \in Callers : call[c].pc = "update" /\ limit' = call[c].target
    BY <1>1, CallSteps
  <2>2. ASSUME NEW c \in Callers, call[c].pc = "update", limit' = call[c].target
        PROVE  limit' <= Greater(created, policy.max)
    BY <1>2, <1>3, <1>4, <1>5, <2>2
  <2>3. QED
    BY <1>4, <1>5, <2>1, <2>2
<1>9. mount'.keeps <= Greater(created, policy.max)
  BY <1>4, <1>5, MountSteps
<1>10. QED
  BY <1>7, <1>8, <1>9

LEMMA RaceInvKept == IInv /\ [Next]_vars => RaceInv'
<1> SUFFICES ASSUME IInv, [Next]_vars,
                    NEW c \in Callers, call'[c].pc = "update", c \notin raced'
             PROVE  call'[c].target > limit'
  BY DEF RaceInv, Callers
<1>1. TypeOK /\ RaceInv
  BY DEF IInv
<1>2. /\ UNCHANGED limit
      /\ \/ call'[c] = call[c] /\ (c \in raced => c \in raced')
         \/ call'[c].target > limit
  BY <1>1, CallSteps
<1>3. QED
  BY <1>1, <1>2 DEF RaceInv

LEMMA StatusInvKept == IInv /\ [Next]_vars => StatusInv'
<1> SUFFICES ASSUME TypeOK, StatusInv, [Next]_vars PROVE StatusInv'
  BY DEF IInv
<1> USE DEF TypeOK, StatusInv
<1>1. CASE UNCHANGED tasks
  BY <1>1 DEF tasks
<1>2. ASSUME NEW e \in Execs, Exec(e) PROVE StatusInv'
  BY <1>1, <1>2
     DEF Exec, ExecStart, ExecRun, ExecReturn, ExecFinish, ExecCancel, PollTick,
         PollNote, PollStop
<1>3. QED
  BY <1>1, <1>2
     DEF Next, vars, Step, ManualRead, AutoRead, BackendRead, BackendUpdate, CallFails,
         Request, RequestExpand, RequestAutoExpand, MountInspect, MountCreate, Rollback

LEMMA NextIInv == IInv /\ [Next]_vars => IInv'
  BY TypesKept, CeilingInvKept, RaceInvKept, StatusInvKept DEF IInv

-----------------------------------------------------------------------------
(***************************************************************************)
(* Theorems.                                                               *)
(***************************************************************************)

\* Limits, targets and races are as IInv says in every state the server can reach.
THEOREM Invariance == Spec => []IInv
  BY InitIInv, NextIInv, PTL DEF Spec

\* Limits and targets fit into an int64, and calls, tasks and pollers are what
\* TypeOK says.
THEOREM TypeCorrect == Spec => []TypeOK
<1>1. IInv => TypeOK
  BY DEF IInv
<1>2. QED
  BY <1>1, Invariance, PTL

\* No expansion passes MEMORY_EXPAND_MAX_MB, however many run at a time.
THEOREM CeilingHolds == Spec => []CeilingKept
<1>1. IInv => CeilingKept
  BY DEF IInv, CeilingInv, CeilingKept
<1>2. QED
  BY <1>1, Invariance, PTL

\* An expansion lowers a limit only if another was faster.
THEOREM OnlyRacesLower == Spec => LoweredOnlyByRace
<1>1. IInv /\ [Next]_vars =>
          [\A c \in Callers :
              /\ call[c].pc = "update" /\ call'[c].pc = "idle"
              /\ limit # 0 /\ limit' < limit
              => c \in raced]_vars
  <2> SUFFICES ASSUME IInv, [Next]_vars, NEW c \in Callers,
                      call[c].pc = "update", call'[c].pc = "idle",
                      limit # 0, limit' < limit, c \notin raced
               PROVE  FALSE
    OBVIOUS
  <2>1. TypeOK /\ RaceInv
    BY DEF IInv
  <2>2. limit \in Nat /\ call \in [Callers -> Calls] /\ call[c].target \in Nat
    BY <2>1, Numbers DEF TypeOK, Calls
  <2>3. limit' # limit
    BY <2>2
  <2>4. ASSUME NEW d \in Callers, Step(d) PROVE d = c /\ limit' = call[c].target
    <3>1. BackendUpdate(d)
      BY <2>3, <2>4
         DEF Step, ManualRead, AutoRead, BackendRead, CallFails, container
    <3>2. d = c
      BY <2>2, <3>1 DEF BackendUpdate, End
    <3>3. QED
      BY <3>1, <3>2 DEF BackendUpdate, SetLimit
  <2>5. ~(MountInspect \/ MountCreate \/ Rollback)
    BY DEF MountInspect, MountCreate, Rollback
  <2>6. ~ \E r \in Requests : Request(r)
    BY <2>3 DEF Request, RequestExpand, RequestAutoExpand, container
  <2>7. ~ \E e \in Execs : Exec(e)
    BY <2>3
       DEF Exec, ExecStart, ExecRun, ExecReturn, ExecFinish, ExecCancel, PollTick,
           PollNote, PollStop, container
  <2>8. limit' = call[c].target
    BY <2>3, <2>4, <2>5, <2>6, <2>7 DEF Next, vars, container
  <2>9. call[c].target > limit
    BY <2>1 DEF RaceInv
  <2>10. QED
    BY <2>2, <2>8, <2>9
<1>2. QED
  BY <1>1, Invariance, PTL DEF Spec, LoweredOnlyByRace

\* An automatic step goes up, within doubling and MEMORY_EXPAND_MAX_STEP_MB, and is
\* refused for one of three reasons only.
THEOREM StepsAreSound == Spec => AutoStepSound
<1> DEFINE Sound(c) ==
        /\ call'[c].pc = "backend" =>
              /\ call'[c].target > limit
              /\ call'[c].target <= Greater(2 * limit, policy.min)
              /\ policy.step > 0 =>
                    call'[c].target <= Greater(limit + policy.step, policy.min)
        /\ call'[c].pc = "idle" /\ call'[c].answer = "refused" =>
              \/ limit = 0
              \/ policy.max > 0 /\ limit >= policy.max
              \/ limit + policy.step > MaxInt
<1>1. IInv /\ [Next]_vars => [\A c \in Callers : call[c].pc = "auto" => Sound(c)]_vars
  <2> SUFFICES ASSUME TypeOK, [Next]_vars, NEW c \in Callers, call[c].pc = "auto"
               PROVE  Sound(c)
    BY DEF IInv
  <2>t. call \in [Callers -> Calls] /\ limit \in Nat
    BY Numbers DEF TypeOK
  <2>1. ASSUME call'[c] = call[c] PROVE Sound(c)
    BY <2>1
  <2>2. CASE AutoRead(c)
    <3>1. CASE StepTarget(limit) > limit /\ Move(c, "backend", StepTarget(limit))
      <4>1. call'[c].pc = "backend" /\ call'[c].target = StepTarget(limit)
        BY <2>t, <3>1 DEF Move
      <4>2. QED
        BY <3>1, <4>1, StepTargetBounds
    <3>2. CASE (limit = 0 \/ StepTarget(limit) <= limit) /\ End(c, "refused")
      <4>1. call'[c].pc = "idle"
        BY <2>t, <3>2 DEF End, Ended
      <4>2. QED
        BY <3>2, <4>1, StepTargetBounds
    <3>3. QED
      BY <2>2, <3>1, <3>2 DEF AutoRead
  <2>3. CASE CallFails(c)
    <3>1. call'[c].pc = "idle" /\ call'[c].answer = "error"
      BY <2>t, <2>3 DEF CallFails, End, Ended
    <3>2. QED
      BY <3>1
  <2>4. ASSUME NEW d \in Callers, Step(d) PROVE Sound(c)
    <3>1. CASE d = c
      BY <2>2, <2>3, <2>4, <3>1
         DEF Step, ManualRead, BackendRead, BackendUpdate
    <3>2. CASE d # c
      <4>1. call'[c] = call[c]
        BY <2>t, <2>4, <3>2
           DEF Step, ManualRead, AutoRead, BackendRead, BackendUpdate, CallFails, Move, End
      <4>2. QED
        BY <2>1, <4>1
    <3>3. QED
      BY <3>1, <3>2
  <2>5. ASSUME NEW r \in Requests, Request(r) PROVE Sound(c)
    <3>1. call'[c] = call[c]
      BY <2>t, <2>5
         DEF Request, RequestExpand, RequestAutoExpand, AutoStart, Move
    <3>2. QED
      BY <2>1, <3>1
  <2>6. ASSUME NEW e \in Execs, Exec(e) PROVE Sound(c)
    <3>1. CASE ExecStart(e) \/ ExecRun(e) \/ PollTick(e)
      <4>1. call'[c] = call[c]
        BY <2>t, <3>1 DEF ExecStart, ExecRun, PollTick, AutoStart, Move, End
      <4>2. QED
        BY <2>1, <4>1
    <3>2. CASE PollNote(e)
      <4>1. call'[c] = call[c] \/ (call'[c].pc = "idle" /\ call'[c].answer = "none")
        BY <2>t, <3>2 DEF PollNote, End, Ended
      <4>2. QED
        BY <2>1, <4>1
    <3>3. CASE ExecReturn(e) \/ ExecFinish(e) \/ ExecCancel(e) \/ PollStop(e)
      BY <2>1, <3>3 DEF ExecReturn, ExecFinish, ExecCancel, PollStop
    <3>4. QED
      BY <2>6, <3>1, <3>2, <3>3 DEF Exec
  <2>7. CASE MountInspect \/ MountCreate \/ Rollback \/ UNCHANGED vars
    BY <2>1, <2>7 DEF MountInspect, MountCreate, Rollback, vars
  <2>8. QED
    BY <2>4, <2>5, <2>6, <2>7 DEF Next
<1>2. QED
  BY <1>1, Invariance, PTL DEF Spec, AutoStepSound

\* The poller never changes the note of a result that has become final.
THEOREM FinalResultsStand == Spec => FinalResultKept
<1>1. IInv /\ [Next]_vars =>
          [\A e \in Execs : status[e] = "final" => recovery'[e] = recovery[e]]_vars
  <2> SUFFICES ASSUME TypeOK, StatusInv, [Next]_vars,
                      NEW e \in Execs, status[e] = "final"
               PROVE  recovery'[e] = recovery[e]
    BY DEF IInv
  <2>1. exec[e] = "done" /\ recovery \in [Execs -> SUBSET {"run", "poll"}]
    BY DEF StatusInv, TypeOK
  <2>2. ASSUME NEW f \in Execs, Exec(f) PROVE recovery'[e] = recovery[e]
    BY <2>1, <2>2
       DEF Exec, ExecStart, ExecRun, ExecReturn, ExecFinish, ExecCancel, PollTick,
           PollNote, PollStop, tasks
  <2>3. QED
    BY <2>2
       DEF Next, vars, tasks, Step, ManualRead, AutoRead, BackendRead, BackendUpdate,
           CallFails, Request, RequestExpand, RequestAutoExpand, MountInspect,
           MountCreate, Rollback
<1>2. QED
  BY <1>1, Invariance, PTL DEF Spec, FinalResultKept
=============================================================================
