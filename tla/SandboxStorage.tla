--------------------------- MODULE SandboxStorage ---------------------------
(***************************************************************************)
(* What happens to the container of one sandbox: snapshots, rollback, the  *)
(* recovery of commands that seem to have run out of memory, mounts, the   *)
(* snapshot retention and deletion (internal/sandbox/service.go and        *)
(* internal/sandbox/docker/backend.go).  Nothing serialises them: rollback *)
(* and mounts both work by docker rm -f and docker create under one name.  *)
(*                                                                         *)
(* Each action is one store statement or one Docker command.  Inspecting   *)
(* a container and committing it are one action, and so are the check of   *)
(* DeleteImageIfUnused and docker image rm, which repeats that check.      *)
(* Through HTTP every mount is read-only, so that every snapshot is an     *)
(* image: the workspace snapshots of the service are out of reach.         *)
(***************************************************************************)
EXTENDS Naturals, FiniteSets

CONSTANTS
    Commands,       \* exec tasks of the sandbox
    Snapshots,      \* snapshot ids, each drawn at most once
    Mounts,         \* mount ids, each drawn at most once
    Rollbackers,    \* bound: rollback requests in flight at a time
    MaxFaults,      \* bound: failing commands or statements, and crashes
    None            \* no snapshot

ASSUME SandboxStorageAssumption ==
    /\ None \notin Snapshots
    /\ MaxFaults \in Nat
    /\ IsFiniteSet(Snapshots)

VARIABLES
    row,            \* whether the sandbox has its row
    rowImage,       \* the image in that row: None is the one of its creation
    container,      \* the container named after the sandbox
    images,         \* snapshots whose image Docker has
    base,           \* snapshots among the ancestors of a snapshot's image
    snapRows,       \* the table snapshots
    created,        \* created_at of a snapshot, in seconds that differ
    mountRows,      \* the table sandbox_mounts
    command,        \* runExecTask of each command
    cancelled,      \* commands whose context CancelExec has cancelled
    snapshot,       \* the CreateSnapshot request of each snapshot id
    rollback,       \* the Rollback requests
    update,         \* the MountPath and UnmountPath requests
    drawn,          \* mount ids given out by id.New
    retention,      \* the loop of CleanupSnapshotLifecycle
    delete,         \* where Delete of the sandbox is
    faults,         \* faults so far
    excused,        \* history: since the container was last created, a
                    \* create failed because the retention had removed the
                    \* image, or CancelExec had cancelled a recovery
    overlapped,     \* history: two mount requests were in flight at once
    restored        \* history: the snapshot that the last Rollback answered
                    \* with, until something else may change the container

history == <<excused, overlapped, restored>>
requests == <<command, cancelled, snapshot, rollback, update, drawn, retention,
              delete>>
tables == <<row, rowImage, snapRows, created, mountRows>>
docker == <<container, images, base>>
vars == <<tables, docker, requests, faults, history>>

-----------------------------------------------------------------------------
\* by says which code path ran docker create; base, from which snapshots the
\* image of the container descends; mounts, the binds it was given.
NoContainer == [by |-> "none", base |-> {}, mounts |-> {}]
Containers  == [by : {"create", "rollback", "mount"}, base : SUBSET Snapshots,
                mounts : SUBSET Mounts] \cup {NoContainer}

\* A request names a snapshot from when it has read one until it is over.
CommandState ==
    [pc : {"unused", "running", "killed", "oom", "done"}, snap : {None}]
    \cup [pc : {"chosen", "removed"}, snap : Snapshots]
RollbackState ==
    [pc : {"idle"}, snap : {None}]
    \cup [pc : {"read", "removed", "created"}, snap : Snapshots]
RetentionState ==
    [pc : {"idle", "loop"}, todo : SUBSET Snapshots, snap : {None}]
    \cup [pc : {"removed"}, todo : SUBSET Snapshots, snap : Snapshots]
UpdateState ==
    [pc : {"idle", "row", "listed", "committed", "removed", "undo"},
     seen : SUBSET Mounts, base : SUBSET Snapshots]
Updates == {"add", "del"} \X Mounts

Over          == [pc |-> "done", snap |-> None]

IdleRollback  == [pc |-> "idle", snap |-> None]
IdleUpdate    == [pc |-> "idle", seen |-> {}, base |-> {}]
IdleRetention == [pc |-> "idle", todo |-> {}, snap |-> None]

TypeOK ==
    /\ row \in BOOLEAN
    /\ rowImage \in Snapshots \cup {None}
    /\ container \in Containers
    /\ images \subseteq Snapshots
    /\ base \in [Snapshots -> SUBSET Snapshots]
    /\ snapRows \subseteq Snapshots
    /\ created \in [Snapshots -> Nat]
    /\ mountRows \subseteq Mounts
    /\ command \in [Commands -> CommandState]
    /\ cancelled \subseteq Commands
    /\ snapshot \in [Snapshots -> {"unused", "drawn", "committed", "done"}]
    /\ rollback \in [Rollbackers -> RollbackState]
    /\ update \in [Updates -> UpdateState]
    /\ drawn \subseteq Mounts
    /\ retention \in RetentionState
    /\ delete \in {"none", "checked", "removed"}
    /\ faults \in 0..MaxFaults
    /\ excused \in BOOLEAN
    /\ overlapped \in BOOLEAN
    /\ restored \in Snapshots \cup {None}

\* The sandbox has just been created.
Init ==
    /\ row = TRUE /\ rowImage = None
    /\ container = [by |-> "create", base |-> {}, mounts |-> {}]
    /\ images = {} /\ base = [s \in Snapshots |-> {}]
    /\ snapRows = {} /\ created = [s \in Snapshots |-> 0]
    /\ mountRows = {} /\ drawn = {}
    /\ command = [c \in Commands |-> [pc |-> "unused", snap |-> None]]
    /\ cancelled = {}
    /\ snapshot = [s \in Snapshots |-> "unused"]
    /\ rollback = [r \in Rollbackers |-> IdleRollback]
    /\ update = [o \in Updates |-> IdleUpdate]
    /\ retention = IdleRetention
    /\ delete = "none"
    /\ faults = 0
    /\ excused = FALSE /\ overlapped = FALSE /\ restored = None

\* A command or statement fails: Docker or disk trouble, or the client has hung
\* up and the context of its request is cancelled.
Fault ==
    /\ faults < MaxFaults
    /\ faults' = faults + 1

Present == container # NoContainer

\* docker rm -f kills the commands that run in the container.
Killed(commands) ==
    [c \in Commands |->
        IF commands[c].pc = "running"
        THEN [pc |-> "killed", snap |-> None] ELSE commands[c]]

\* docker create from the image of a snapshot: no name conflict, image exists.
\* Neither mounts nor labels nor the memory limit are passed on.
CanCreateFrom(s) == ~Present /\ s \in images
CreateFrom(s) ==
    container' = [by |-> "rollback", base |-> {s} \cup base[s], mounts |-> {}]

\* The retention is removing the snapshot, or has.
Retired(s) == s \notin snapRows \/ retention.snap = s

-----------------------------------------------------------------------------
(***************************************************************************)
(* Commands and the recovery after an apparent OOM kill                    *)
(***************************************************************************)

\* docker exec; without a container the command fails at once.
CommandStart(c) ==
    /\ row
    /\ command[c].pc = "unused"
    /\ command' = [command EXCEPT ![c].pc = IF Present THEN "running" ELSE "done"]
    /\ UNCHANGED <<tables, docker, cancelled, snapshot, rollback, update, drawn,
                   retention, delete, faults, history>>

\* The command ends by itself, or in another way than isOOMFailure looks for.
CommandEnd(c) ==
    /\ command[c].pc \in {"running", "killed"}
    /\ command' = [command EXCEPT ![c] = Over]
    /\ UNCHANGED <<tables, docker, cancelled, snapshot, rollback, update, drawn,
                   retention, delete, faults, history>>

\* isOOMFailure: the command ran out of memory, or was killed with its container,
\* which gives the same exit code 137.
CommandOom(c) ==
    /\ command[c].pc \in {"running", "killed"}
    /\ c \notin cancelled
    /\ command' = [command EXCEPT ![c].pc = "oom"]
    /\ restored' = IF command[c].pc = "running" THEN None ELSE restored
    /\ UNCHANGED <<tables, docker, cancelled, snapshot, rollback, update, drawn,
                   retention, delete, faults, excused, overlapped>>

\* CancelExec: the task counts as running until its result is recorded.
Cancel(c) ==
    /\ command[c].pc \notin {"unused", "done"}
    /\ c \notin cancelled
    /\ cancelled' = cancelled \cup {c}
    /\ UNCHANGED <<tables, docker, command, snapshot, rollback, update, drawn,
                   retention, delete, faults, history>>

Newest == {s \in snapRows : \A t \in snapRows : created[t] <= created[s]}

\* Mutant: an empty list of snapshots is not noticed.
RecoverChooseAnyway(c) ==
    /\ command[c].pc = "oom"
    /\ \/ /\ c \in cancelled
          /\ command' = [command EXCEPT ![c] = Over]
       \/ /\ c \notin cancelled
          /\ \E s \in IF snapRows = {} THEN {None} ELSE Newest :
                command' = [command EXCEPT ![c] = [pc |-> "chosen", snap |-> s]]
    /\ UNCHANGED <<tables, docker, cancelled, snapshot, rollback, update, drawn,
                   retention, delete, faults, history>>

\* autoRecoverOOM lists the snapshots under the context of the command.
RecoverChoose(c) ==
    /\ command[c].pc = "oom"
    /\ \/ /\ snapRows = {} \/ c \in cancelled
          /\ command' = [command EXCEPT ![c] = Over]
       \/ /\ c \notin cancelled
          /\ \E s \in Newest :
                command' = [command EXCEPT ![c] = [pc |-> "chosen", snap |-> s]]
    /\ UNCHANGED <<tables, docker, cancelled, snapshot, rollback, update, drawn,
                   retention, delete, faults, history>>

\* RollbackToSnapshot: docker rm -f, for which a missing container is fine.
RecoverRemove(c) ==
    /\ command[c].pc = "chosen"
    /\ IF c \in cancelled
       THEN /\ command' = [command EXCEPT ![c] = Over]
            /\ UNCHANGED container
       ELSE /\ container' = NoContainer
            /\ command' = Killed([command EXCEPT ![c].pc = "removed"])
    /\ UNCHANGED <<tables, images, base, cancelled, snapshot, rollback, update,
                   drawn, retention, delete, faults, history>>

\* RollbackToSnapshot: docker create, which a cancelled context prevents.  The
\* row keeps the image it names.
RecoverCreate(c) ==
    /\ command[c].pc = "removed"
    /\ LET s == command[c].snap
       IN  IF c \notin cancelled /\ CanCreateFrom(s)
           THEN CreateFrom(s) /\ excused' = FALSE
           ELSE /\ UNCHANGED container
                /\ excused' = (excused \/ (~Present /\ (c \in cancelled \/ Retired(s))))
    /\ command' = [command EXCEPT ![c] = Over]
    /\ UNCHANGED <<tables, images, base, cancelled, snapshot, rollback, update,
                   drawn, retention, delete, faults, overlapped, restored>>

RecoverFails(c) ==
    /\ command[c].pc \in {"oom", "chosen", "removed"}
    /\ Fault
    /\ command' = [command EXCEPT ![c] = Over]
    /\ UNCHANGED <<tables, docker, cancelled, snapshot, rollback, update, drawn,
                   retention, delete, history>>

-----------------------------------------------------------------------------
(***************************************************************************)
(* CreateSnapshot and Rollback                                             *)
(***************************************************************************)

\* GetSandbox, and the id and created_at of the snapshot: later ones are not
\* older, and may be of the same second.
SnapshotDraw(s) ==
    /\ row
    /\ snapshot[s] = "unused"
    /\ snapshot' = [snapshot EXCEPT ![s] = "drawn"]
    /\ \E t \in 0..Cardinality(Snapshots) :
          /\ \A q \in Snapshots : created[q] <= t
          /\ \E q \in Snapshots : t <= created[q] + 1
          /\ created' = [created EXCEPT ![s] = t]
    /\ UNCHANGED <<row, rowImage, snapRows, mountRows, docker, command, cancelled,
                   rollback, update, drawn, retention, delete, faults, history>>

\* Mutant: the error of docker commit is dropped.
SnapshotCommitUnchecked(s) ==
    /\ snapshot[s] = "drawn"
    /\ snapshot' = [snapshot EXCEPT ![s] = "committed"]
    /\ images' = IF Present THEN images \cup {s} ELSE images
    /\ base' = [base EXCEPT ![s] = container.base]
    /\ UNCHANGED <<tables, container, command, cancelled, rollback, update,
                   drawn, retention, delete, faults, history>>

\* docker inspect and docker commit; without a container the request fails.
SnapshotCommit(s) ==
    /\ snapshot[s] = "drawn"
    /\ IF Present
       THEN /\ snapshot' = [snapshot EXCEPT ![s] = "committed"]
            /\ images' = images \cup {s}
            /\ base' = [base EXCEPT ![s] = container.base]
       ELSE /\ snapshot' = [snapshot EXCEPT ![s] = "done"]
            /\ UNCHANGED <<images, base>>
    /\ UNCHANGED <<tables, container, command, cancelled, rollback, update,
                   drawn, retention, delete, faults, history>>

\* store.CreateSnapshot, which needs the row of the sandbox.  If it fails the
\* image stays.
SnapshotRow(s) ==
    /\ snapshot[s] = "committed"
    /\ snapRows' = IF row THEN snapRows \cup {s} ELSE snapRows
    /\ snapshot' = [snapshot EXCEPT ![s] = "done"]
    /\ UNCHANGED <<row, rowImage, created, mountRows, docker, command, cancelled,
                   rollback, update, drawn, retention, delete, faults, history>>

SnapshotFails(s) ==
    /\ snapshot[s] \in {"drawn", "committed"}
    /\ Fault
    /\ snapshot' = [snapshot EXCEPT ![s] = "done"]
    /\ UNCHANGED <<tables, docker, command, cancelled, rollback, update, drawn,
                   retention, delete, history>>

\* GetSandbox and GetSnapshot.
RollbackRead(r, s) ==
    /\ rollback[r].pc = "idle"
    /\ row
    /\ s \in snapRows
    /\ rollback' = [rollback EXCEPT ![r] = [pc |-> "read", snap |-> s]]
    /\ UNCHANGED <<tables, docker, command, cancelled, snapshot, update, drawn,
                   retention, delete, faults, history>>

\* RollbackToSnapshot: docker rm -f.
RollbackRemove(r) ==
    /\ rollback[r].pc = "read"
    /\ rollback' = [rollback EXCEPT ![r].pc = "removed"]
    /\ container' = NoContainer
    /\ command' = Killed(command)
    /\ restored' = None
    /\ UNCHANGED <<tables, images, base, cancelled, snapshot, update, drawn,
                   retention, delete, faults, excused, overlapped>>

\* RollbackToSnapshot: docker create.
RollbackCreate(r) ==
    /\ rollback[r].pc = "removed"
    /\ LET s == rollback[r].snap
       IN  IF CanCreateFrom(s)
           THEN /\ CreateFrom(s)
                /\ excused' = FALSE
                /\ rollback' = [rollback EXCEPT ![r].pc = "created"]
           ELSE /\ UNCHANGED container
                /\ excused' = (excused \/ (~Present /\ Retired(s)))
                /\ rollback' = [rollback EXCEPT ![r] = IdleRollback]
    /\ UNCHANGED <<tables, images, base, command, cancelled, snapshot, update,
                   drawn, retention, delete, faults, overlapped, restored>>

\* UpdateSandboxImage; the request is answered with success.
RollbackFinish(r) ==
    /\ rollback[r].pc = "created"
    /\ LET s == rollback[r].snap
       IN  /\ rowImage' = IF row THEN s ELSE rowImage
           /\ restored' = IF /\ s \in container.base
                             /\ \A q \in Rollbackers \ {r} :
                                   rollback[q].pc \in {"idle", "read"}
                             /\ \A c \in Commands :
                                   command[c].pc \in {"unused", "running",
                                                     "killed", "done"}
                          THEN s ELSE restored
    /\ rollback' = [rollback EXCEPT ![r] = IdleRollback]
    /\ UNCHANGED <<row, snapRows, created, mountRows, docker, command, cancelled,
                   snapshot, update, drawn, retention, delete, faults, excused,
                   overlapped>>

RollbackFails(r) ==
    /\ rollback[r].pc # "idle"
    /\ Fault
    /\ rollback' = [rollback EXCEPT ![r] = IdleRollback]
    /\ UNCHANGED <<tables, docker, command, cancelled, snapshot, update, drawn,
                   retention, delete, history>>

-----------------------------------------------------------------------------
(***************************************************************************)
(* MountPath and UnmountPath: "add" and "del" requests                     *)
(***************************************************************************)

AddOf(m) == <<"add", m>>
DelOf(m) == <<"del", m>>

UpdateBegins == \E o \in Updates : update[o].pc # "idle"

\* MountPath checks the sandbox and inserts the row of the mount.
AddRow(m) ==
    /\ row
    /\ m \notin drawn
    /\ drawn' = drawn \cup {m}
    /\ mountRows' = mountRows \cup {m}
    /\ update' = [update EXCEPT ![AddOf(m)].pc = "row"]
    /\ overlapped' = (overlapped \/ UpdateBegins)
    /\ UNCHANGED <<row, rowImage, snapRows, created, docker, command, cancelled,
                   snapshot, rollback, retention, delete, faults, excused,
                   restored>>

\* UnmountPath deletes the row of the mount.
DelRow(m) ==
    /\ row
    /\ m \in mountRows
    /\ mountRows' = mountRows \ {m}
    /\ update' = [update EXCEPT ![DelOf(m)].pc = "row"]
    /\ overlapped' = (overlapped \/ UpdateBegins)
    /\ UNCHANGED <<row, rowImage, snapRows, created, docker, command, cancelled,
                   snapshot, rollback, drawn, retention, delete, faults, excused,
                   restored>>

\* Mutant: an unmount lists the mounts before it deletes its row.
UpdateListBefore(o) ==
    /\ update[o].pc = "row"
    /\ update' = [update EXCEPT ![o] =
                     IF row THEN [pc |-> "listed", base |-> {},
                                  seen |-> mountRows \cup {o[2]}]
                     ELSE IdleUpdate]
    /\ UNCHANGED <<tables, docker, command, cancelled, snapshot, rollback, drawn,
                   retention, delete, faults, history>>

\* ListMounts; a deleted sandbox ends the request.
UpdateList(o) ==
    /\ update[o].pc = "row"
    /\ update' = [update EXCEPT ![o] =
                     IF row THEN [pc |-> "listed", seen |-> mountRows, base |-> {}]
                     ELSE IdleUpdate]
    /\ UNCHANGED <<tables, docker, command, cancelled, snapshot, rollback, drawn,
                   retention, delete, faults, history>>

\* UpdateMounts returns an error: MountPath then deletes the row it inserted.
AfterUpdateFailed(o) == IF o[1] = "add" THEN [IdleUpdate EXCEPT !.pc = "undo"]
                        ELSE IdleUpdate

\* UpdateMounts: docker inspect, and docker commit to a temporary image.
UpdateCommit(o) ==
    /\ update[o].pc = "listed"
    /\ update' = [update EXCEPT ![o] =
                     IF Present THEN [pc |-> "committed", seen |-> update[o].seen,
                                      base |-> container.base]
                     ELSE AfterUpdateFailed(o)]
    /\ UNCHANGED <<tables, docker, command, cancelled, snapshot, rollback, drawn,
                   retention, delete, faults, history>>

\* UpdateMounts: docker rm -f; a missing container is an error here.
UpdateRemove(o) ==
    /\ update[o].pc = "committed"
    /\ IF Present
       THEN /\ container' = NoContainer
            /\ command' = Killed(command)
            /\ update' = [update EXCEPT ![o].pc = "removed"]
       ELSE /\ update' = [update EXCEPT ![o] = AfterUpdateFailed(o)]
            /\ UNCHANGED <<container, command>>
    /\ UNCHANGED <<tables, images, base, cancelled, snapshot, rollback, drawn,
                   retention, delete, faults, history>>

\* Mutant: without mounts there seems to be nothing to create.
UpdateCreateUnlessEmpty(o) ==
    /\ update[o].pc = "removed"
    /\ IF ~Present /\ update[o].seen # {}
       THEN /\ container' = [by |-> "mount", base |-> update[o].base,
                             mounts |-> update[o].seen]
            /\ excused' = FALSE
            /\ update' = [update EXCEPT ![o] = IdleUpdate]
       ELSE /\ update' = [update EXCEPT ![o] = AfterUpdateFailed(o)]
            /\ UNCHANGED <<container, excused>>
    /\ UNCHANGED <<tables, images, base, command, cancelled, snapshot, rollback,
                   drawn, retention, delete, faults, overlapped, restored>>

\* UpdateMounts: docker create from the temporary image, with the mounts listed.
UpdateCreate(o) ==
    /\ update[o].pc = "removed"
    /\ IF ~Present
       THEN /\ container' = [by |-> "mount", base |-> update[o].base,
                             mounts |-> update[o].seen]
            /\ excused' = FALSE
            /\ update' = [update EXCEPT ![o] = IdleUpdate]
       ELSE /\ update' = [update EXCEPT ![o] = AfterUpdateFailed(o)]
            /\ UNCHANGED <<container, excused>>
    /\ UNCHANGED <<tables, images, base, command, cancelled, snapshot, rollback,
                   drawn, retention, delete, faults, overlapped, restored>>

\* A command or statement of the request fails; the last one that may is docker
\* start, when the container already has its mounts.
UpdateFails(o) ==
    /\ Fault
    /\ \/ /\ update[o].pc = "row"
          /\ update' = [update EXCEPT ![o] = IdleUpdate]
          /\ UNCHANGED container
       \/ /\ update[o].pc \in {"listed", "committed", "removed"}
          /\ update' = [update EXCEPT ![o] = AfterUpdateFailed(o)]
          /\ UNCHANGED container
       \/ /\ update[o].pc = "removed"
          /\ ~Present
          /\ container' = [by |-> "mount", base |-> update[o].base,
                           mounts |-> update[o].seen]
          /\ update' = [update EXCEPT ![o] = AfterUpdateFailed(o)]
    /\ UNCHANGED <<tables, images, base, command, cancelled, snapshot, rollback,
                   drawn, retention, delete, history>>

\* MountPath undoes its insertion, with a context of its own.
AddUndo(m) ==
    /\ update[AddOf(m)].pc = "undo"
    /\ mountRows' = mountRows \ {m}
    /\ update' = [update EXCEPT ![AddOf(m)] = IdleUpdate]
    /\ UNCHANGED <<row, rowImage, snapRows, created, docker, command, cancelled,
                   snapshot, rollback, drawn, retention, delete, faults, history>>

-----------------------------------------------------------------------------
(***************************************************************************)
(* Snapshot retention, deletion, restart                                   *)
(***************************************************************************)

\* ListSnapshotsCreatedBefore: any of them may be past the retention days.
RetentionList(S) ==
    /\ retention.pc = "idle"
    /\ S # {}
    /\ S \subseteq snapRows
    /\ retention' = [pc |-> "loop", todo |-> S, snap |-> None]
    /\ UNCHANGED <<tables, docker, command, cancelled, snapshot, rollback, update,
                   drawn, delete, faults, history>>

\* The row of the sandbox names the image, or its container descends from it.
InUse(s) == (row /\ rowImage = s) \/ (s \in images /\ s \in container.base)

RetentionSkip(s) ==
    /\ retention.pc = "loop"
    /\ s \in retention.todo
    /\ InUse(s)
    /\ retention' = [retention EXCEPT !.todo = @ \ {s}]
    /\ UNCHANGED <<tables, docker, command, cancelled, snapshot, rollback, update,
                   drawn, delete, faults, history>>

\* DeleteImageIfUnused; an image that is gone already is fine.
RetentionImage(s) ==
    /\ retention.pc = "loop"
    /\ s \in retention.todo
    /\ ~InUse(s)
    /\ images' = images \ {s}
    /\ retention' = [pc |-> "removed", todo |-> retention.todo \ {s}, snap |-> s]
    /\ UNCHANGED <<tables, container, base, command, cancelled, snapshot, rollback,
                   update, drawn, delete, faults, history>>

\* DeleteSnapshotByID
RetentionRow ==
    /\ retention.pc = "removed"
    /\ snapRows' = snapRows \ {retention.snap}
    /\ retention' = [pc |-> "loop", todo |-> retention.todo, snap |-> None]
    /\ UNCHANGED <<row, rowImage, created, mountRows, docker, command, cancelled,
                   snapshot, rollback, update, drawn, delete, faults, history>>

RetentionFails ==
    /\ Fault
    /\ \/ /\ retention.pc = "loop"
          /\ \E s \in retention.todo :
                retention' = [retention EXCEPT !.todo = @ \ {s}]
       \/ /\ retention.pc = "removed"
          /\ retention' = [pc |-> "loop", todo |-> retention.todo, snap |-> None]
    /\ UNCHANGED <<tables, docker, command, cancelled, snapshot, rollback, update,
                   drawn, delete, history>>

RetentionDone ==
    /\ retention.pc = "loop"
    /\ retention.todo = {}
    /\ retention' = IdleRetention
    /\ UNCHANGED <<tables, docker, command, cancelled, snapshot, rollback, update,
                   drawn, delete, faults, history>>

DeleteCheck ==
    /\ row
    /\ delete = "none"
    /\ delete' = "checked"
    /\ UNCHANGED <<tables, docker, command, cancelled, snapshot, rollback, update,
                   drawn, retention, faults, history>>

\* docker rm -f; a missing container is an error, and the row stays.
DeleteContainer ==
    /\ delete = "checked"
    /\ delete' = IF Present THEN "removed" ELSE "none"
    /\ container' = NoContainer
    /\ command' = Killed(command)
    /\ UNCHANGED <<tables, images, base, cancelled, snapshot, rollback, update,
                   drawn, retention, faults, history>>

\* store.DeleteSandbox; ON DELETE CASCADE takes snapshots and mounts along.
DeleteRow ==
    /\ delete = "removed"
    /\ delete' = "none"
    /\ row' = FALSE
    /\ snapRows' = {}
    /\ mountRows' = {}
    /\ UNCHANGED <<rowImage, created, docker, command, cancelled, snapshot,
                   rollback, update, drawn, retention, faults, history>>

DeleteFails ==
    /\ delete # "none"
    /\ Fault
    /\ delete' = "none"
    /\ UNCHANGED <<tables, docker, command, cancelled, snapshot, rollback, update,
                   drawn, retention, history>>

\* The process dies and starts again; requests and docker exec clients with it.
Restart ==
    /\ Fault
    /\ command' = [c \in Commands |->
                      IF command[c].pc = "unused" THEN command[c]
                      ELSE Over]
    /\ snapshot' = [s \in Snapshots |->
                       IF snapshot[s] = "unused" THEN "unused" ELSE "done"]
    /\ rollback' = [r \in Rollbackers |-> IdleRollback]
    /\ update' = [o \in Updates |-> IdleUpdate]
    /\ retention' = IdleRetention
    /\ delete' = "none"
    /\ UNCHANGED <<tables, docker, cancelled, drawn, history>>

-----------------------------------------------------------------------------
Command(c) ==
    \/ CommandStart(c) \/ CommandEnd(c) \/ CommandOom(c) \/ Cancel(c)
    \/ RecoverChoose(c) \/ RecoverRemove(c) \/ RecoverCreate(c) \/ RecoverFails(c)

Snapshot(s) ==
    SnapshotDraw(s) \/ SnapshotCommit(s) \/ SnapshotRow(s) \/ SnapshotFails(s)

Rollback(r) ==
    \/ \E s \in Snapshots : RollbackRead(r, s)
    \/ RollbackRemove(r) \/ RollbackCreate(r) \/ RollbackFinish(r)
    \/ RollbackFails(r)

Update(o) ==
    \/ UpdateList(o) \/ UpdateCommit(o) \/ UpdateRemove(o) \/ UpdateCreate(o)
    \/ UpdateFails(o)

Retention ==
    \/ \E S \in SUBSET Snapshots : RetentionList(S)
    \/ \E s \in Snapshots : RetentionSkip(s) \/ RetentionImage(s)
    \/ RetentionRow \/ RetentionFails \/ RetentionDone

Delete == DeleteCheck \/ DeleteContainer \/ DeleteRow \/ DeleteFails

Next ==
    \/ \E c \in Commands : Command(c)
    \/ \E s \in Snapshots : Snapshot(s)
    \/ \E r \in Rollbackers : Rollback(r)
    \/ \E m \in Mounts : AddRow(m) \/ DelRow(m) \/ AddUndo(m)
    \/ \E o \in Updates : Update(o)
    \/ Retention
    \/ Delete
    \/ Restart

Spec == Init /\ [][Next]_vars

-----------------------------------------------------------------------------
(***************************************************************************)
(* Properties.                                                             *)
(***************************************************************************)

\* Somebody has removed the container and has yet to create the next one.
Replacing ==
    \/ \E c \in Commands : command[c].pc = "removed"
    \/ \E r \in Rollbackers : rollback[r].pc = "removed"
    \/ \E o \in Updates : update[o].pc = "removed"

\* A sandbox keeps a container.  However rollbacks, recoveries and mounts, each
\* a docker rm and a docker create, interleave with one another, some create
\* comes last and succeeds: without a failing command only two things can leave
\* the sandbox without one, an image that the retention removed under a
\* rollback and the cancellation of a command that is being recovered.
ContainerKept ==
    row /\ faults = 0 =>
        Present \/ Replacing \/ delete = "removed" \/ excused

\* A snapshot that is listed can be rolled back to: its image exists, except
\* between the two steps of the retention, or after one of the two has failed.
ListedSnapshotUsable ==
    faults = 0 =>
        \A s \in snapRows : s \in images \/ retention.snap = s

\* GET /sandboxes/{id}/mounts, "Lists active mounts for sandbox": as long as
\* mount requests do not overlap and nothing fails, the container has the mounts
\* of the table, whatever rollbacks, recoveries and deletions run beside them,
\* unless a rollback created it: then it has none.
MountsMatch ==
    (/\ row /\ faults = 0 /\ ~overlapped
     /\ \A o \in Updates : update[o].pc = "idle"
     /\ container.by \in {"create", "mount"})
        => container.mounts = mountRows

\* "Rolls back sandbox to a snapshot": after the answer of success the sandbox
\* is at that snapshot until another rollback or a real OOM kill.
RollbackStands ==
    restored # None /\ Present => restored \in container.base
=============================================================================
