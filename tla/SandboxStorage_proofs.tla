------------------------ MODULE SandboxStorage_proofs ------------------------
(***************************************************************************)
(* Proofs about SandboxStorage, for any number of commands, snapshots,     *)
(* mounts, requests and faults: type correctness, ListedSnapshotUsable,    *)
(* ContainerKept and MountsMatch.                                          *)
(*                                                                         *)
(* ContainerKept rests on ListedSnapshotUsable: a docker create that finds *)
(* no image has lost it to the retention.  MountsMatch is strengthened to  *)
(* say what a mount request in flight knows of the table, and that while   *)
(* it replaces the container only a rollback may have created another;     *)
(* RequestInv, that a mount id is drawn and its row deleted at most once.  *)
(***************************************************************************)
EXTENDS SandboxStorage, TLAPS

\* Where the image of a snapshot is, by the stage of its request and of the
\* retention.
SnapInv ==
    /\ \A s \in Snapshots : snapshot[s] = "committed" => s \in images
    /\ \A s \in Snapshots :
          s \in snapRows \/ s \in retention.todo \/ retention.snap = s
              => snapshot[s] = "done"
    /\ ListedSnapshotUsable

\* Each request begins once.
RequestInv ==
    /\ mountRows \subseteq drawn
    /\ \A m \in Mounts : m \notin drawn => /\ update[AddOf(m)].pc = "idle"
                                          /\ update[DelOf(m)].pc = "idle"
    /\ \A m \in mountRows : update[DelOf(m)].pc = "idle"

\* What a mount request in flight implies, as long as no two overlap.
MountInv ==
    (row /\ faults = 0 /\ ~overlapped) =>
        /\ \A o, p \in Updates :
              o = p \/ update[o].pc = "idle" \/ update[p].pc = "idle"
        /\ \A o \in Updates :
              update[o].pc \in {"listed", "committed", "removed"}
                  => update[o].seen = mountRows
        /\ \A o \in Updates :
              update[o].pc \in {"removed", "undo"}
                  => container.by \in {"none", "rollback"}
        /\ (\A o \in Updates : update[o].pc = "idle") =>
              (container.by \in {"create", "mount"}
                  => container.mounts = mountRows)

IInv == TypeOK /\ RequestInv /\ SnapInv /\ ContainerKept /\ MountInv

-----------------------------------------------------------------------------
LEMMA KilledType ==
    ASSUME NEW f \in [Commands -> CommandState]
    PROVE  Killed(f) \in [Commands -> CommandState]
  BY DEF Killed, CommandState

LEMMA NoContainerType == NoContainer \in Containers
  BY DEF NoContainer, Containers

LEMMA OverType == Over \in CommandState
  BY DEF Over, CommandState

LEMMA InitIInv == Init => IInv
<1> SUFFICES ASSUME Init PROVE IInv
  OBVIOUS
<1> USE SandboxStorageAssumption
<1>1. TypeOK
  <2>1. container \in Containers
    BY DEF Init, Containers
  <2>2. /\ command \in [Commands -> CommandState]
        /\ rollback \in [Rollbackers -> RollbackState]
    BY DEF Init, CommandState, RollbackState, IdleRollback
  <2>3. update \in [Updates -> UpdateState] /\ retention \in RetentionState
    BY DEF Init, UpdateState, RetentionState, IdleUpdate, IdleRetention
  <2>4. /\ base \in [Snapshots -> SUBSET Snapshots]
        /\ created \in [Snapshots -> Nat]
        /\ snapshot \in [Snapshots -> {"unused", "drawn", "committed", "done"}]
    BY DEF Init
  <2>5. /\ row \in BOOLEAN /\ excused \in BOOLEAN /\ overlapped \in BOOLEAN
        /\ delete \in {"none", "checked", "removed"}
        /\ rowImage = None /\ restored = None
        /\ images = {} /\ snapRows = {} /\ mountRows = {} /\ drawn = {}
        /\ cancelled = {}
    BY ZenonT(30) DEF Init
  <2>6. faults \in 0..MaxFaults
    BY DEF Init
  <2>7. QED
    BY <2>1, <2>2, <2>3, <2>4, <2>5, <2>6 DEF TypeOK
<1>2. SnapInv
  BY DEF Init, IdleRetention, SnapInv, ListedSnapshotUsable
<1>3. ContainerKept
  <2>1. container.by = "create" /\ NoContainer.by = "none"
    BY DEF Init, NoContainer
  <2>2. QED
    BY <2>1 DEF ContainerKept, Present
<1>4. MountInv
  BY DEF Init, IdleUpdate, MountInv
<1>5. RequestInv
  BY DEF Init, IdleUpdate, RequestInv, AddOf, DelOf, Updates
<1>6. QED
  BY <1>1, <1>2, <1>3, <1>4, <1>5 DEF IInv

-----------------------------------------------------------------------------
\* Each step keeps the types.
LEMMA NextTypeOK == TypeOK /\ [Next]_vars => TypeOK'
<1> SUFFICES ASSUME TypeOK, [Next]_vars PROVE TypeOK'
  OBVIOUS
<1> USE SandboxStorageAssumption, NoContainerType, OverType
        DEF TypeOK, tables, docker, history, Fault
<1>1. ASSUME NEW c \in Commands, Command(c) PROVE TypeOK'
  <2>1. CASE CommandStart(c)
    BY <2>1 DEF CommandStart, CommandState
  <2>2. CASE CommandEnd(c)
    BY <2>2 DEF CommandEnd
  <2>3. CASE CommandOom(c)
    BY <2>3 DEF CommandOom, CommandState
  <2>4. CASE Cancel(c)
    BY <2>4 DEF Cancel
  <2>5. CASE RecoverChoose(c)
    <3>1. \A s \in Newest : [pc |-> "chosen", snap |-> s] \in CommandState
      BY DEF Newest, CommandState
    <3>2. QED
      BY <2>5, <3>1 DEF RecoverChoose
  <2>6. CASE RecoverRemove(c)
    <3>1. CASE c \in cancelled
      BY <2>6, <3>1 DEF RecoverRemove
    <3>2. CASE c \notin cancelled
      <4>1. [command EXCEPT ![c].pc = "removed"] \in [Commands -> CommandState]
        BY <2>6 DEF RecoverRemove, CommandState
      <4>2. command' \in [Commands -> CommandState]
        BY <2>6, <3>2, <4>1, KilledType DEF RecoverRemove
      <4>3. QED
        BY <2>6, <3>2, <4>2 DEF RecoverRemove
    <3>3. QED
      BY <3>1, <3>2
  <2>7. CASE RecoverCreate(c)
    <3>1. command[c].snap \in Snapshots
      BY <2>7 DEF RecoverCreate, CommandState
    <3>2. container' \in Containers
      BY <2>7, <3>1 DEF RecoverCreate, CreateFrom, Containers
    <3>3. excused' \in BOOLEAN
      BY <2>7 DEF RecoverCreate
    <3>4. QED
      BY <2>7, <3>2, <3>3 DEF RecoverCreate
  <2>8. CASE RecoverFails(c)
    BY <2>8 DEF RecoverFails
  <2>9. QED
    BY <1>1, <2>1, <2>2, <2>3, <2>4, <2>5, <2>6, <2>7, <2>8 DEF Command
<1>2. ASSUME NEW s \in Snapshots, Snapshot(s) PROVE TypeOK'
  <2>1. CASE SnapshotDraw(s)
    BY <2>1 DEF SnapshotDraw
  <2>2. CASE SnapshotCommit(s)
    <3>1. container.base \subseteq Snapshots
      BY DEF Containers, NoContainer
    <3>2. QED
      BY <2>2, <3>1 DEF SnapshotCommit
  <2>3. CASE SnapshotRow(s)
    BY <2>3 DEF SnapshotRow
  <2>4. CASE SnapshotFails(s)
    BY <2>4 DEF SnapshotFails
  <2>5. QED
    BY <1>2, <2>1, <2>2, <2>3, <2>4 DEF Snapshot
<1>3. ASSUME NEW r \in Rollbackers, Rollback(r) PROVE TypeOK'
  <2> USE DEF RollbackState, IdleRollback
  <2>1. ASSUME NEW s \in Snapshots, RollbackRead(r, s) PROVE TypeOK'
    BY <2>1 DEF RollbackRead
  <2>2. CASE RollbackRemove(r)
    BY <2>2, KilledType DEF RollbackRemove
  <2>3. CASE RollbackCreate(r)
    <3>1. rollback[r].snap \in Snapshots
      BY <2>3 DEF RollbackCreate
    <3>2. container' \in Containers
      BY <2>3, <3>1 DEF RollbackCreate, CreateFrom, Containers
    <3>3. excused' \in BOOLEAN
      BY <2>3 DEF RollbackCreate
    <3>4. rollback' \in [Rollbackers -> RollbackState]
      BY <2>3, <3>1 DEF RollbackCreate
    <3>5. QED
      BY <2>3, <3>2, <3>3, <3>4 DEF RollbackCreate
  <2>4. CASE RollbackFinish(r)
    <3>1. rollback[r].snap \in Snapshots
      BY <2>4 DEF RollbackFinish
    <3>2. QED
      BY <2>4, <3>1 DEF RollbackFinish
  <2>5. CASE RollbackFails(r)
    BY <2>5 DEF RollbackFails
  <2>6. QED
    BY <1>3, <2>1, <2>2, <2>3, <2>4, <2>5 DEF Rollback
<1>4. ASSUME NEW m \in Mounts, AddRow(m) \/ DelRow(m) \/ AddUndo(m) PROVE TypeOK'
  <2> USE DEF UpdateState, IdleUpdate, UpdateBegins
  <2>1. AddOf(m) \in Updates /\ DelOf(m) \in Updates
    BY DEF AddOf, DelOf, Updates
  <2>2. CASE AddRow(m)
    BY <2>1, <2>2 DEF AddRow
  <2>3. CASE DelRow(m)
    BY <2>1, <2>3 DEF DelRow
  <2>4. CASE AddUndo(m)
    BY <2>1, <2>4 DEF AddUndo
  <2>5. QED
    BY <1>4, <2>2, <2>3, <2>4
<1>5. ASSUME NEW o \in Updates, Update(o) PROVE TypeOK'
  <2> USE DEF UpdateState, IdleUpdate
  <2>0. AfterUpdateFailed(o) \in UpdateState
    BY DEF AfterUpdateFailed
  <2>1. CASE UpdateList(o)
    BY <2>1 DEF UpdateList
  <2>2. CASE UpdateCommit(o)
    <3>1. container.base \subseteq Snapshots
      BY DEF Containers, NoContainer
    <3>2. QED
      BY <2>0, <2>2, <3>1 DEF UpdateCommit
  <2>3. CASE UpdateRemove(o)
    BY <2>0, <2>3, KilledType DEF UpdateRemove
  <2>4. CASE UpdateCreate(o)
    <3>1. container' \in Containers
      BY <2>4 DEF UpdateCreate, Containers
    <3>2. update' \in [Updates -> UpdateState]
      BY <2>0, <2>4 DEF UpdateCreate
    <3>3. excused' \in BOOLEAN
      BY <2>4 DEF UpdateCreate
    <3>4. QED
      BY <2>4, <3>1, <3>2, <3>3 DEF UpdateCreate
  <2>5. CASE UpdateFails(o)
    <3>1. container' \in Containers
      <4>1. update[o].base \subseteq Snapshots /\ update[o].seen \subseteq Mounts
        OBVIOUS
      <4>2. [by |-> "mount", base |-> update[o].base, mounts |-> update[o].seen]
                \in Containers
        BY <4>1 DEF Containers
      <4>3. QED
        BY <2>5, <4>2 DEF UpdateFails
    <3>2. update' \in [Updates -> UpdateState]
      <4>1. IdleUpdate \in UpdateState
        OBVIOUS
      <4>2. \E u \in UpdateState : update' = [update EXCEPT ![o] = u]
        BY <2>0, <2>5, <4>1 DEF UpdateFails
      <4>3. QED
        BY <4>2
    <3>3. QED
      BY <2>5, <3>1, <3>2 DEF UpdateFails
  <2>6. QED
    BY <1>5, <2>1, <2>2, <2>3, <2>4, <2>5 DEF Update
<1>6. CASE Retention
  <2> USE DEF RetentionState, IdleRetention
  <2>1. ASSUME NEW S \in SUBSET Snapshots, RetentionList(S) PROVE TypeOK'
    BY <2>1 DEF RetentionList
  <2>2. ASSUME NEW s \in Snapshots, RetentionSkip(s) PROVE TypeOK'
    BY <2>2 DEF RetentionSkip
  <2>3. ASSUME NEW s \in Snapshots, RetentionImage(s) PROVE TypeOK'
    BY <2>3 DEF RetentionImage
  <2>4. CASE RetentionRow
    BY <2>4 DEF RetentionRow
  <2>5. CASE RetentionFails
    BY <2>5 DEF RetentionFails
  <2>6. CASE RetentionDone
    BY <2>6 DEF RetentionDone
  <2>7. QED
    BY <1>6, <2>1, <2>2, <2>3, <2>4, <2>5, <2>6 DEF Retention
<1>7. CASE Delete
  <2>1. CASE DeleteCheck
    BY <2>1 DEF DeleteCheck
  <2>2. CASE DeleteContainer
    BY <2>2, KilledType DEF DeleteContainer
  <2>3. CASE DeleteRow
    BY <2>3 DEF DeleteRow
  <2>4. CASE DeleteFails
    BY <2>4 DEF DeleteFails
  <2>5. QED
    BY <1>7, <2>1, <2>2, <2>3, <2>4 DEF Delete
<1>8. CASE Restart
  <2>1. command' \in [Commands -> CommandState]
    BY <1>8 DEF Restart
  <2>2. snapshot' \in [Snapshots -> {"unused", "drawn", "committed", "done"}]
    BY <1>8 DEF Restart
  <2>3. rollback' \in [Rollbackers -> RollbackState]
    BY <1>8 DEF Restart, RollbackState, IdleRollback
  <2>4. update' \in [Updates -> UpdateState]
    BY <1>8 DEF Restart, UpdateState, IdleUpdate
  <2>5. retention' \in RetentionState
    BY <1>8 DEF Restart, RetentionState, IdleRetention
  <2>6. QED
    BY <1>8, <2>1, <2>2, <2>3, <2>4, <2>5 DEF Restart
<1>9. CASE UNCHANGED vars
  BY <1>9 DEF vars, requests
<1>10. QED
  BY <1>1, <1>2, <1>3, <1>4, <1>5, <1>6, <1>7, <1>8, <1>9 DEF Next
-----------------------------------------------------------------------------
\* A deleted row does not come back, nor does the past change: faults that
\* happened and requests that overlapped.
LEMMA Monotone ==
    ASSUME TypeOK, [Next]_vars
    PROVE  /\ row' => row
           /\ faults' = 0 => faults = 0
           /\ overlapped => overlapped'
           /\ ~(Fault /\ faults' = 0)
<1>1. ~(Fault /\ faults' = 0)
  <2>1. faults \in Nat
    BY SandboxStorageAssumption DEF TypeOK
  <2>2. QED
    BY <2>1 DEF Fault
<1> USE DEF Next, vars, tables, requests, history, docker, Command, Snapshot,
        Rollback, Update, Retention, Delete, CommandStart, CommandEnd,
        CommandOom, Cancel, RecoverChoose, RecoverRemove, RecoverCreate,
        RecoverFails, SnapshotDraw, SnapshotCommit, SnapshotRow, SnapshotFails,
        RollbackRead, RollbackRemove, RollbackCreate, RollbackFinish,
        RollbackFails, AddRow, DelRow, AddUndo, UpdateList, UpdateCommit,
        UpdateRemove, UpdateCreate, UpdateFails, RetentionList, RetentionSkip,
        RetentionImage, RetentionRow, RetentionFails, RetentionDone,
        DeleteCheck, DeleteContainer, DeleteRow, DeleteFails, Restart
<1>2. faults' = faults \/ Fault
  OBVIOUS
<1>3. row' => row
  OBVIOUS
<1>4. overlapped => overlapped'
  OBVIOUS
<1>5. QED
  BY <1>1, <1>2, <1>3, <1>4

-----------------------------------------------------------------------------
\* Snapshots whose request is not over are unknown to the retention, so that it
\* removes no image before its row is there.
LEMMA NextSnapInv == TypeOK /\ SnapInv /\ [Next]_vars => SnapInv'
<1> SUFFICES ASSUME TypeOK, SnapInv, [Next]_vars PROVE SnapInv'
  OBVIOUS
<1> USE DEF SnapInv, ListedSnapshotUsable, tables, docker, history
<1>f. faults' = 0 => faults = 0 /\ ~Fault
  BY Monotone
<1>u. ASSUME UNCHANGED <<images, snapRows, snapshot, retention>> PROVE SnapInv'
  BY <1>f, <1>u
<1>1. ASSUME NEW c \in Commands, Command(c) PROVE SnapInv'
  <2>1. UNCHANGED <<images, snapRows, snapshot, retention>>
    BY <1>1 DEF Command, CommandStart, CommandEnd, CommandOom, Cancel,
       RecoverChoose, RecoverRemove, RecoverCreate, RecoverFails
  <2>2. QED
    BY <1>u, <2>1
<1>2. ASSUME NEW s \in Snapshots, Snapshot(s) PROVE SnapInv'
  <2> USE <1>f DEF TypeOK
  <2>1. CASE SnapshotDraw(s)
    BY <2>1 DEF SnapshotDraw
  <2>2. CASE SnapshotCommit(s)
    BY <2>2 DEF SnapshotCommit
  <2>3. CASE SnapshotRow(s)
    BY <2>3 DEF SnapshotRow
  <2>4. CASE SnapshotFails(s)
    BY <2>4 DEF SnapshotFails
  <2>5. QED
    BY <1>2, <2>1, <2>2, <2>3, <2>4 DEF Snapshot
<1>3. ASSUME NEW r \in Rollbackers, Rollback(r) PROVE SnapInv'
  <2>1. UNCHANGED <<images, snapRows, snapshot, retention>>
    BY <1>3 DEF Rollback, RollbackRead, RollbackRemove, RollbackCreate,
       RollbackFinish, RollbackFails
  <2>2. QED
    BY <1>u, <2>1
<1>4. ASSUME NEW m \in Mounts, AddRow(m) \/ DelRow(m) \/ AddUndo(m) PROVE SnapInv'
  <2>1. UNCHANGED <<images, snapRows, snapshot, retention>>
    BY <1>4 DEF AddRow, DelRow, AddUndo
  <2>2. QED
    BY <1>u, <2>1
<1>5. ASSUME NEW o \in Updates, Update(o) PROVE SnapInv'
  <2>1. UNCHANGED <<images, snapRows, snapshot, retention>>
    BY <1>5 DEF Update, UpdateList, UpdateCommit, UpdateRemove, UpdateCreate,
       UpdateFails
  <2>2. QED
    BY <1>u, <2>1
<1>6. CASE Retention
  <2> USE <1>f DEF TypeOK
  <2>1. ASSUME NEW S \in SUBSET Snapshots, RetentionList(S) PROVE SnapInv'
    <3>1. retention'.todo \subseteq snapRows /\ retention'.snap = None
      BY <2>1 DEF RetentionList
    <3>2. UNCHANGED <<images, snapRows, snapshot>> /\ faults' = faults
      BY <2>1 DEF RetentionList
    <3>3. retention.pc = "idle" /\ retention.snap = None
      BY <2>1 DEF RetentionList, RetentionState
    <3>4. QED
      BY <3>1, <3>2, <3>3, SandboxStorageAssumption
  <2>2. ASSUME NEW s \in Snapshots, RetentionSkip(s) PROVE SnapInv'
    BY <2>2 DEF RetentionSkip, RetentionState
  <2>3. ASSUME NEW s \in Snapshots, RetentionImage(s) PROVE SnapInv'
    BY <2>3, SandboxStorageAssumption DEF RetentionImage, RetentionState
  <2>4. CASE RetentionRow
    BY <2>4, SandboxStorageAssumption DEF RetentionRow
  <2>5. CASE RetentionFails
    <3>1. UNCHANGED <<images, snapRows, snapshot>> /\ Fault
      BY <2>5 DEF RetentionFails
    <3>2. retention'.todo \subseteq retention.todo /\ retention'.snap = None
      BY <2>5 DEF RetentionFails, RetentionState
    <3>3. QED
      BY <3>1, <3>2, SandboxStorageAssumption
  <2>6. CASE RetentionDone
    BY <2>6, SandboxStorageAssumption
       DEF RetentionDone, RetentionState, IdleRetention
  <2>7. QED
    BY <1>6, <2>1, <2>2, <2>3, <2>4, <2>5, <2>6 DEF Retention
<1>7. CASE Delete
  <2>1. CASE DeleteRow
    BY <1>f, <2>1 DEF DeleteRow
  <2>2. CASE DeleteCheck \/ DeleteContainer \/ DeleteFails
    BY <1>u, <2>2 DEF DeleteCheck, DeleteContainer, DeleteFails
  <2>3. QED
    BY <1>7, <2>1, <2>2 DEF Delete
<1>8. CASE Restart
  BY <1>f, <1>8, SandboxStorageAssumption DEF Restart, IdleRetention, TypeOK
<1>9. CASE UNCHANGED vars
  BY <1>u, <1>9 DEF vars, requests
<1>10. QED
  BY <1>1, <1>2, <1>3, <1>4, <1>5, <1>6, <1>7, <1>8, <1>9 DEF Next
-----------------------------------------------------------------------------
\* A mount id is drawn once, and its row is deleted for good: the requests that
\* begin had not begun before.
LEMMA NextRequestInv == TypeOK /\ RequestInv /\ [Next]_vars => RequestInv'
<1> SUFFICES ASSUME TypeOK, RequestInv, [Next]_vars PROVE RequestInv'
  OBVIOUS
<1> USE DEF RequestInv, tables, docker, history
<1>a. ASSUME NEW m \in Mounts
      PROVE  /\ AddOf(m) \in Updates /\ DelOf(m) \in Updates
             /\ \A n \in Mounts : /\ AddOf(m) # DelOf(n)
                                  /\ AddOf(m) = AddOf(n) => m = n
                                  /\ DelOf(m) = DelOf(n) => m = n
  BY DEF AddOf, DelOf, Updates
<1>m. mountRows \subseteq Mounts
  BY DEF TypeOK
<1>u. ASSUME mountRows' \subseteq mountRows, drawn' = drawn,
             \A o \in Updates : update[o].pc = "idle" => update'[o].pc = "idle"
      PROVE  RequestInv'
  BY <1>a, <1>m, <1>u
<1>1. ASSUME NEW c \in Commands, Command(c) PROVE RequestInv'
  <2>1. UNCHANGED <<mountRows, drawn, update>>
    BY <1>1 DEF Command, CommandStart, CommandEnd, CommandOom, Cancel,
       RecoverChoose, RecoverRemove, RecoverCreate, RecoverFails
  <2>2. QED
    BY <1>u, <2>1
<1>2. ASSUME NEW s \in Snapshots, Snapshot(s) PROVE RequestInv'
  <2>1. UNCHANGED <<mountRows, drawn, update>>
    BY <1>2 DEF Snapshot, SnapshotDraw, SnapshotCommit, SnapshotRow, SnapshotFails
  <2>2. QED
    BY <1>u, <2>1
<1>3. ASSUME NEW r \in Rollbackers, Rollback(r) PROVE RequestInv'
  <2>1. UNCHANGED <<mountRows, drawn, update>>
    BY <1>3 DEF Rollback, RollbackRead, RollbackRemove, RollbackCreate,
       RollbackFinish, RollbackFails
  <2>2. QED
    BY <1>u, <2>1
<1>4. ASSUME NEW m \in Mounts, AddRow(m) \/ DelRow(m) \/ AddUndo(m)
      PROVE  RequestInv'
  <2>1. CASE AddRow(m)
    <3>1. /\ mountRows' = mountRows \cup {m} /\ drawn' = drawn \cup {m}
          /\ m \notin drawn
          /\ \A o \in Updates \ {AddOf(m)} : update'[o] = update[o]
      BY <1>a, <2>1 DEF AddRow, TypeOK
    <3>2. QED
      BY <1>a, <1>m, <3>1
  <2>2. CASE DelRow(m)
    <3>1. /\ mountRows' = mountRows \ {m} /\ drawn' = drawn /\ m \in mountRows
          /\ \A o \in Updates \ {DelOf(m)} : update'[o] = update[o]
      BY <1>a, <2>2 DEF DelRow, TypeOK
    <3>2. QED
      BY <1>a, <1>m, <3>1
  <2>3. CASE AddUndo(m)
    BY <1>a, <1>u, <2>3 DEF AddUndo, IdleUpdate, TypeOK
  <2>4. QED
    BY <1>4, <2>1, <2>2, <2>3
<1>5. ASSUME NEW o \in Updates, Update(o) PROVE RequestInv'
  <2>1. mountRows' = mountRows /\ drawn' = drawn /\ update[o].pc # "idle"
    BY <1>5 DEF Update, UpdateList, UpdateCommit, UpdateRemove, UpdateCreate,
       UpdateFails
  <2>2. \A p \in Updates \ {o} : update'[p] = update[p]
    BY <1>5 DEF Update, UpdateList, UpdateCommit, UpdateRemove, UpdateCreate,
       UpdateFails, TypeOK
  <2>3. QED
    BY <1>u, <2>1, <2>2
<1>6. CASE Retention
  <2>1. UNCHANGED <<mountRows, drawn, update>>
    BY <1>6 DEF Retention, RetentionList, RetentionSkip, RetentionImage,
       RetentionRow, RetentionFails, RetentionDone
  <2>2. QED
    BY <1>u, <2>1
<1>7. CASE Delete
  <2>1. mountRows' \subseteq mountRows /\ UNCHANGED <<drawn, update>>
    BY <1>7 DEF Delete, DeleteCheck, DeleteContainer, DeleteRow, DeleteFails
  <2>2. QED
    BY <1>u, <2>1
<1>8. CASE Restart
  BY <1>u, <1>8 DEF Restart, IdleUpdate
<1>9. CASE UNCHANGED vars
  BY <1>u, <1>9 DEF vars, requests
<1>10. QED
  BY <1>1, <1>2, <1>3, <1>4, <1>5, <1>6, <1>7, <1>8, <1>9 DEF Next

-----------------------------------------------------------------------------
\* What the removal of the container leaves alone: who has yet to create one.
LEMMA KilledRemoved ==
    ASSUME NEW f \in [Commands -> CommandState], NEW c \in Commands
    PROVE  f[c].pc = "removed" <=> Killed(f)[c].pc = "removed"
  BY DEF Killed, CommandState

\* A docker create fails for one of three reasons: somebody else has created the
\* container, the retention has taken the image, or the command was cancelled.
LEMMA NextContainerKept ==
    TypeOK /\ RequestInv /\ SnapInv /\ ContainerKept /\ [Next]_vars
        => ContainerKept'
<1> SUFFICES ASSUME TypeOK, RequestInv, SnapInv, ContainerKept, [Next]_vars,
                    row', faults' = 0, ~Present'
             PROVE  (Replacing \/ delete = "removed" \/ excused)'
  BY DEF ContainerKept
<1> DEFINE Goal == (Replacing \/ delete = "removed" \/ excused)'
<1> USE DEF tables, docker, history
<1>f. row /\ faults = 0 /\ ~Fault
  BY Monotone
<1>k. Present \/ Replacing \/ delete = "removed" \/ excused
  BY <1>f DEF ContainerKept
<1>m. /\ \A c \in Commands : command[c] \in CommandState
      /\ \A s \in snapRows : s \in images \/ retention.snap = s
  BY <1>f DEF TypeOK, SnapInv, ListedSnapshotUsable
<1>u. ASSUME container' = container, delete' = delete, excused' = excused,
             Replacing => Replacing'
      PROVE  Goal
  BY <1>k, <1>u DEF Present
<1>1. ASSUME NEW c \in Commands, Command(c) PROVE Goal
  <2>1. CASE CommandStart(c) \/ CommandEnd(c) \/ CommandOom(c) \/ Cancel(c)
              \/ RecoverChoose(c)
    <3>1. \A d \in Commands : command[d].pc = "removed"
                                => command'[d].pc = "removed"
      BY <2>1, <1>m DEF CommandStart, CommandEnd, CommandOom, Cancel,
         RecoverChoose, TypeOK
    <3>2. UNCHANGED <<container, delete, excused, rollback, update>>
      BY <2>1 DEF CommandStart, CommandEnd, CommandOom, Cancel, RecoverChoose
    <3>3. QED
      BY <1>u, <3>1, <3>2 DEF Replacing
  <2>2. CASE RecoverRemove(c) /\ c \in cancelled
    BY <1>u, <2>2 DEF RecoverRemove, Replacing, TypeOK
  <2>3. CASE RecoverRemove(c) /\ c \notin cancelled
    <3> DEFINE f == [command EXCEPT ![c].pc = "removed"]
    <3>1. f \in [Commands -> CommandState] /\ f[c].pc = "removed"
      BY <2>3 DEF RecoverRemove, TypeOK, CommandState
    <3>2. command' = Killed(f)
      BY <2>3 DEF RecoverRemove
    <3>3. QED
      BY <3>1, <3>2, KilledRemoved DEF Replacing
  <2>4. CASE RecoverCreate(c)
    <3> DEFINE s == command[c].snap
    <3>1. ~(c \notin cancelled /\ CanCreateFrom(s))
      BY <2>4 DEF RecoverCreate, CreateFrom, Present, NoContainer
    <3>2. ~Present /\ UNCHANGED container
      BY <2>4, <3>1 DEF RecoverCreate, Present
    <3>3. c \in cancelled \/ Retired(s)
      BY <1>m, <3>1, <3>2 DEF CanCreateFrom, Retired
    <3>4. excused'
      BY <2>4, <3>1, <3>2, <3>3 DEF RecoverCreate
    <3>5. QED
      BY <3>4
  <2>5. CASE RecoverFails(c)
    BY <1>f, <2>5 DEF RecoverFails
  <2>6. QED
    BY <1>1, <2>1, <2>2, <2>3, <2>4, <2>5 DEF Command
<1>2. ASSUME NEW s \in Snapshots, Snapshot(s) PROVE Goal
  <2>1. UNCHANGED <<container, delete, excused, command, rollback, update>>
    BY <1>2 DEF Snapshot, SnapshotDraw, SnapshotCommit, SnapshotRow, SnapshotFails
  <2>2. QED
    BY <1>u, <2>1 DEF Replacing
<1>3. ASSUME NEW r \in Rollbackers, Rollback(r) PROVE Goal
  <2>1. CASE RollbackFinish(r) \/ \E s \in Snapshots : RollbackRead(r, s)
    <3>1. \A q \in Rollbackers : rollback[q].pc = "removed"
                                  => rollback'[q].pc = "removed"
      BY <2>1 DEF RollbackRead, RollbackFinish, TypeOK
    <3>2. UNCHANGED <<container, delete, excused, command, update>>
      BY <2>1 DEF RollbackRead, RollbackFinish
    <3>3. QED
      BY <1>u, <3>1, <3>2 DEF Replacing
  <2>2. CASE RollbackRemove(r)
    BY <2>2 DEF RollbackRemove, Replacing, TypeOK, RollbackState
  <2>3. CASE RollbackCreate(r)
    <3> DEFINE s == rollback[r].snap
    <3>1. ~CanCreateFrom(s)
      BY <2>3 DEF RollbackCreate, CreateFrom, Present, NoContainer
    <3>2. ~Present /\ UNCHANGED container
      BY <2>3, <3>1 DEF RollbackCreate, Present
    <3>3. Retired(s)
      BY <1>m, <3>1, <3>2 DEF CanCreateFrom, Retired
    <3>4. excused'
      BY <2>3, <3>1, <3>2, <3>3 DEF RollbackCreate
    <3>5. QED
      BY <3>4
  <2>4. CASE RollbackFails(r)
    BY <1>f, <2>4 DEF RollbackFails
  <2>5. QED
    BY <1>3, <2>1, <2>2, <2>3, <2>4 DEF Rollback
<1>4. ASSUME NEW m \in Mounts, AddRow(m) \/ DelRow(m) \/ AddUndo(m) PROVE Goal
  <2>0. AddOf(m) \in Updates /\ DelOf(m) \in Updates
    BY DEF AddOf, DelOf, Updates
  <2>1. \A o \in Updates : update[o].pc = "removed" => update'[o].pc = "removed"
    <3>1. CASE AddRow(m) \/ DelRow(m)
      <4>1. PICK o \in Updates : /\ update[o].pc = "idle"
                                 /\ update' = [update EXCEPT ![o].pc = "row"]
        BY <2>0, <3>1 DEF AddRow, DelRow, RequestInv
      <4>2. QED
        BY <4>1 DEF TypeOK
    <3>2. CASE AddUndo(m)
      BY <2>0, <3>2 DEF AddUndo, TypeOK
    <3>3. QED
      BY <1>4, <3>1, <3>2
  <2>2. UNCHANGED <<container, delete, excused, command, rollback>>
    BY <1>4 DEF AddRow, DelRow, AddUndo
  <2>3. QED
    BY <1>u, <2>1, <2>2 DEF Replacing
<1>5. ASSUME NEW o \in Updates, Update(o) PROVE Goal
  <2>1. CASE UpdateList(o) \/ UpdateCommit(o)
    <3>1. \A p \in Updates : update[p].pc = "removed" => update'[p].pc = "removed"
      BY <2>1 DEF UpdateList, UpdateCommit, TypeOK
    <3>2. UNCHANGED <<container, delete, excused, command, rollback>>
      BY <2>1 DEF UpdateList, UpdateCommit
    <3>3. QED
      BY <1>u, <3>1, <3>2 DEF Replacing
  <2>2. CASE UpdateRemove(o) /\ Present
    BY <2>2 DEF UpdateRemove, Replacing, TypeOK, UpdateState
  <2>3. CASE UpdateRemove(o) /\ ~Present
    BY <1>u, <2>3 DEF UpdateRemove, Replacing, TypeOK
  <2>4. CASE UpdateCreate(o)
    BY <2>4 DEF UpdateCreate, Present, NoContainer
  <2>5. CASE UpdateFails(o)
    BY <1>f, <2>5 DEF UpdateFails
  <2>6. QED
    BY <1>5, <2>1, <2>2, <2>3, <2>4, <2>5 DEF Update
<1>6. CASE Retention
  <2>1. CASE RetentionFails
    BY <1>f, <2>1 DEF RetentionFails
  <2>2. CASE ~RetentionFails
    <3>1. UNCHANGED <<container, delete, excused, command, rollback, update>>
      BY <1>6, <2>2 DEF Retention, RetentionList, RetentionSkip, RetentionImage,
         RetentionRow, RetentionDone
    <3>2. QED
      BY <1>u, <3>1 DEF Replacing
  <2>3. QED
    BY <2>1, <2>2
<1>7. CASE Delete
  <2>1. CASE DeleteCheck
    BY <1>k, <2>1 DEF DeleteCheck, Replacing, Present
  <2>2. CASE DeleteContainer
    <3>1. CASE Present
      BY <2>2, <3>1 DEF DeleteContainer
    <3>2. CASE ~Present
      <4>1. Replacing \/ excused
        BY <1>k, <2>2, <3>2 DEF DeleteContainer
      <4>2. Replacing => Replacing'
        BY <2>2, KilledRemoved DEF DeleteContainer, Replacing, TypeOK
      <4>3. QED
        BY <2>2, <4>1, <4>2 DEF DeleteContainer
    <3>3. QED
      BY <3>1, <3>2
  <2>3. CASE DeleteRow
    BY <2>3 DEF DeleteRow
  <2>4. CASE DeleteFails
    BY <1>f, <2>4 DEF DeleteFails
  <2>5. QED
    BY <1>7, <2>1, <2>2, <2>3, <2>4 DEF Delete
<1>8. CASE Restart
  BY <1>f, <1>8 DEF Restart
<1>9. CASE UNCHANGED vars
  BY <1>u, <1>9 DEF vars, requests, Replacing
<1>10. QED
  BY <1>1, <1>2, <1>3, <1>4, <1>5, <1>6, <1>7, <1>8, <1>9 DEF Next
-----------------------------------------------------------------------------
\* Without overlapping requests or faults the one mount request in flight is
\* the only one to write the table and to create containers with mounts.
LEMMA NextMountInv == TypeOK /\ MountInv /\ [Next]_vars => MountInv'
<1> SUFFICES ASSUME TypeOK, MountInv, [Next]_vars,
                    row', faults' = 0, ~overlapped'
             PROVE  MountInv'
  BY DEF MountInv
<1> USE DEF tables, docker, history
<1>f. row /\ faults = 0 /\ ~overlapped /\ ~Fault
  BY Monotone
<1>m. /\ \A o, p \in Updates :
            o = p \/ update[o].pc = "idle" \/ update[p].pc = "idle"
      /\ \A o \in Updates :
            update[o].pc \in {"listed", "committed", "removed"}
                => update[o].seen = mountRows
      /\ \A o \in Updates :
            update[o].pc \in {"removed", "undo"}
                => container.by \in {"none", "rollback"}
      /\ (\A o \in Updates : update[o].pc = "idle") =>
            (container.by \in {"create", "mount"}
                => container.mounts = mountRows)
  BY <1>f DEF MountInv
<1>n. NoContainer.by = "none"
  BY DEF NoContainer
<1>u. ASSUME update' = update, mountRows' = mountRows,
             container' = container \/ container'.by \in {"none", "rollback"}
      PROVE  MountInv'
  BY <1>m, <1>u DEF MountInv
<1>1. ASSUME NEW c \in Commands, Command(c) PROVE MountInv'
  <2>1. UNCHANGED <<update, mountRows>>
    BY <1>1 DEF Command, CommandStart, CommandEnd, CommandOom, Cancel,
       RecoverChoose, RecoverRemove, RecoverCreate, RecoverFails
  <2>2. container' = container \/ container'.by \in {"none", "rollback"}
    <3>1. CASE RecoverRemove(c)
      BY <1>n, <3>1 DEF RecoverRemove
    <3>2. CASE RecoverCreate(c)
      BY <3>2 DEF RecoverCreate, CreateFrom
    <3>3. CASE ~RecoverRemove(c) /\ ~RecoverCreate(c)
      BY <1>1, <3>3 DEF Command, CommandStart, CommandEnd, CommandOom, Cancel,
         RecoverChoose, RecoverFails
    <3>4. QED
      BY <3>1, <3>2, <3>3
  <2>3. QED
    BY <1>u, <2>1, <2>2
<1>2. ASSUME NEW s \in Snapshots, Snapshot(s) PROVE MountInv'
  <2>1. UNCHANGED <<update, mountRows, container>>
    BY <1>2 DEF Snapshot, SnapshotDraw, SnapshotCommit, SnapshotRow, SnapshotFails
  <2>2. QED
    BY <1>u, <2>1
<1>3. ASSUME NEW r \in Rollbackers, Rollback(r) PROVE MountInv'
  <2>1. UNCHANGED <<update, mountRows>>
    BY <1>3 DEF Rollback, RollbackRead, RollbackRemove, RollbackCreate,
       RollbackFinish, RollbackFails
  <2>2. container' = container \/ container'.by \in {"none", "rollback"}
    <3>1. CASE RollbackRemove(r)
      BY <1>n, <3>1 DEF RollbackRemove
    <3>2. CASE RollbackCreate(r)
      BY <3>2 DEF RollbackCreate, CreateFrom
    <3>3. CASE ~RollbackRemove(r) /\ ~RollbackCreate(r)
      BY <1>3, <3>3 DEF Rollback, RollbackRead, RollbackFinish, RollbackFails
    <3>4. QED
      BY <3>1, <3>2, <3>3
  <2>3. QED
    BY <1>u, <2>1, <2>2
<1>4. ASSUME NEW m \in Mounts, AddRow(m) \/ DelRow(m) \/ AddUndo(m)
      PROVE  MountInv'
  <2>0. AddOf(m) \in Updates /\ DelOf(m) \in Updates
    BY DEF AddOf, DelOf, Updates
  <2>1. CASE AddRow(m) \/ DelRow(m)
    <3>1. PICK o \in Updates : update' = [update EXCEPT ![o].pc = "row"]
      BY <2>0, <2>1 DEF AddRow, DelRow
    <3>2. \A p \in Updates : update[p].pc = "idle"
      BY <2>1 DEF AddRow, DelRow, UpdateBegins
    <3>3. update'[o].pc = "row"
      BY <3>1 DEF TypeOK, UpdateState
    <3>4. \A p \in Updates \ {o} : update'[p].pc = "idle"
      BY <3>1, <3>2 DEF TypeOK
    <3>5. QED
      BY <3>3, <3>4 DEF MountInv
  <2>2. CASE AddUndo(m)
    <3>1. \A p \in Updates : update'[p].pc = "idle"
      BY <1>m, <2>0, <2>2 DEF AddUndo, IdleUpdate, TypeOK
    <3>2. container'.by \in {"none", "rollback"}
      BY <1>m, <2>0, <2>2 DEF AddUndo
    <3>3. QED
      BY <3>1, <3>2 DEF MountInv
  <2>3. QED
    BY <1>4, <2>1, <2>2
<1>5. ASSUME NEW o \in Updates, Update(o) PROVE MountInv'
  <2>1. update[o].pc # "idle" /\ mountRows' = mountRows
    BY <1>5 DEF Update, UpdateList, UpdateCommit, UpdateRemove, UpdateCreate,
       UpdateFails
  <2>2. \A p \in Updates \ {o} : update'[p].pc = "idle"
    BY <1>5, <1>m, <2>1 DEF Update, UpdateList, UpdateCommit, UpdateRemove,
       UpdateCreate, UpdateFails, TypeOK
  <2>3. SUFFICES
          /\ update'[o].pc \in {"listed", "committed", "removed"}
                => update'[o].seen = mountRows
          /\ update'[o].pc \in {"removed", "undo"}
                => container'.by \in {"none", "rollback"}
          /\ update'[o].pc = "idle"
                => (container'.by \in {"create", "mount"}
                        => container'.mounts = mountRows)
    BY <2>1, <2>2 DEF MountInv
  <2>4. /\ AfterUpdateFailed(o).pc \in {"idle", "undo"}
    BY DEF AfterUpdateFailed, IdleUpdate
  <2>5. ~Present => container.by = "none"
    BY <1>n DEF Present
  <2>6. CASE UpdateList(o)
    BY <1>f, <2>6 DEF UpdateList, TypeOK
  <2>7. CASE UpdateCommit(o)
    <3>1. update[o].seen = mountRows
      BY <1>m, <2>7 DEF UpdateCommit
    <3>2. QED
      BY <2>4, <2>5, <2>7, <3>1 DEF UpdateCommit, TypeOK
  <2>8. CASE UpdateRemove(o)
    <3>1. update[o].seen = mountRows
      BY <1>m, <2>8 DEF UpdateRemove
    <3>2. container'.by = "none"
      BY <1>n, <2>5, <2>8 DEF UpdateRemove
    <3>3. update'[o].pc \in {"idle", "undo"} \/ update'[o].seen = mountRows
      BY <2>4, <2>8, <3>1 DEF UpdateRemove, TypeOK, UpdateState
    <3>4. QED
      BY <3>2, <3>3
  <2>9. CASE UpdateCreate(o)
    <3>1. update[o].seen = mountRows /\ container.by \in {"none", "rollback"}
      BY <1>m, <2>9 DEF UpdateCreate
    <3>2. CASE Present
      BY <2>4, <2>9, <3>1, <3>2 DEF UpdateCreate, TypeOK
    <3>3. CASE ~Present
      BY <2>9, <3>1, <3>3 DEF UpdateCreate, TypeOK, IdleUpdate
    <3>4. QED
      BY <3>2, <3>3
  <2>10. CASE UpdateFails(o)
    BY <1>f, <2>10 DEF UpdateFails
  <2>11. QED
    BY <1>5, <2>6, <2>7, <2>8, <2>9, <2>10 DEF Update
<1>6. CASE Retention
  <2>1. UNCHANGED <<update, mountRows, container>>
    BY <1>6 DEF Retention, RetentionList, RetentionSkip, RetentionImage,
       RetentionRow, RetentionFails, RetentionDone
  <2>2. QED
    BY <1>u, <2>1
<1>7. CASE Delete
  <2>1. ~DeleteRow /\ ~DeleteFails
    BY <1>f DEF DeleteRow, DeleteFails
  <2>2. UNCHANGED <<update, mountRows>>
    BY <1>7, <2>1 DEF Delete, DeleteCheck, DeleteContainer
  <2>3. container' = container \/ container'.by \in {"none", "rollback"}
    BY <1>7, <1>n, <2>1 DEF Delete, DeleteCheck, DeleteContainer
  <2>4. QED
    BY <1>u, <2>2, <2>3
<1>8. CASE Restart
  BY <1>f, <1>8 DEF Restart
<1>9. CASE UNCHANGED vars
  BY <1>u, <1>9 DEF vars, requests
<1>10. QED
  BY <1>1, <1>2, <1>3, <1>4, <1>5, <1>6, <1>7, <1>8, <1>9 DEF Next

-----------------------------------------------------------------------------
\* The inductive invariant holds of every reachable state.
THEOREM Invariance == Spec => []IInv
<1>1. IInv /\ [Next]_vars => IInv'
  BY NextTypeOK, NextRequestInv, NextSnapInv, NextContainerKept, NextMountInv
     DEF IInv
<1>2. QED
  BY InitIInv, <1>1, PTL DEF Spec

\* Every variable keeps its type.
THEOREM TypeCorrect == Spec => []TypeOK
<1>1. IInv => TypeOK
  BY DEF IInv
<1>2. QED
  BY Invariance, <1>1, PTL

\* CreateSnapshot commits the image before it inserts the row, and the retention
\* removes an image only when its row has been listed: a listed snapshot has its
\* image, for any number of requests, as long as nothing fails.
THEOREM SnapshotsUsable == Spec => []ListedSnapshotUsable
<1>1. IInv => ListedSnapshotUsable
  BY DEF IInv, SnapInv
<1>2. QED
  BY Invariance, <1>1, PTL

\* However many rollbacks, recoveries and mount requests remove and create the
\* container at once, the sandbox keeps one, but for the two cases of excused.
THEOREM ContainerSurvives == Spec => []ContainerKept
<1>1. IInv => ContainerKept
  BY DEF IInv
<1>2. QED
  BY Invariance, <1>1, PTL

\* MountPath and UnmountPath, one at a time, leave the container with the mounts
\* of the table, whatever else replaces the container meanwhile.
THEOREM MountsAgree == Spec => []MountsMatch
<1>1. IInv => MountsMatch
  BY DEF IInv, MountInv, MountsMatch
<1>2. QED
  BY Invariance, <1>1, PTL

=============================================================================
