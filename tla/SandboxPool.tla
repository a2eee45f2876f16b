----------------------------- MODULE SandboxPool -----------------------------
(***************************************************************************)
(* The life of sandboxes: creation, allocation from the warm pool, the     *)
(* refill of the pool under warmPoolMu, access, deletion and the cleanup   *)
(* of idle sandboxes (internal/sandbox/service.go), over the store's       *)
(* tables sandboxes and warm_pool_entries and the Docker containers.       *)
(*                                                                         *)
(* Each action is one store statement or transaction, one Docker command   *)
(* sequence of the backend, or one critical section; a request in flight   *)
(* keeps in its record what the handler holds in local variables.  Image   *)
(* and memory size matter only as "what the pool is configured for".       *)
(***************************************************************************)
EXTENDS Naturals, FiniteSets

CONSTANTS
    Sandboxes,      \* sandbox ids, each drawn at most once
    Sessions,       \* session ids
    Requests,       \* bound: Create requests in flight at a time
    Refillers,      \* bound: goroutines in ensureWarmPool at a time
    PoolSize,       \* Policy.WarmPoolSize
    MaxFaults,      \* bound: failing commands or statements, and crashes
    None            \* no session, sandbox or goroutine

ASSUME SandboxPoolAssumption ==
    /\ None \notin Sandboxes \cup Sessions \cup Refillers
    /\ PoolSize \in Nat
    /\ MaxFaults \in Nat
    /\ IsFiniteSet(Sandboxes)

VARIABLES
    containers,     \* ids that have a Docker container
    rows,           \* ids that have a row in sandboxes
    session,        \* session_id of that row; None is the empty string
    fresh,          \* ids whose last_accessed_at is within the idle TTL
    pool,           \* ids that have a row in warm_pool_entries
    drawn,          \* ids given out by id.New
    create,         \* the Create requests
    refill,         \* the goroutines in ensureWarmPool
    poolMu,         \* holder of warmPoolMu
    delete,         \* the Delete request of each sandbox
    cleaner,        \* the loop of CleanupIdleSandboxes
    faults,         \* faults so far
    inUse           \* history: ids given to or accessed by their session
                    \* within the idle TTL

disk == <<containers, rows, session, fresh, pool, drawn>>
vars == <<containers, rows, session, fresh, pool, drawn, create, refill, poolMu,
          delete, cleaner, faults, inUse>>

-----------------------------------------------------------------------------
CreatePc == {"idle", "acquired", "assigned", "missed", "draw", "made"}
RefillPc == {"idle", "start", "loop", "made", "recorded"}
IdleCreate  == [pc |-> "idle", session |-> None, id |-> None]
IdleRefill  == [pc |-> "idle", available |-> 0, id |-> None]
IdleCleaner == [pc |-> "idle", todo |-> {}, id |-> None]

TypeOK ==
    /\ containers \subseteq Sandboxes
    /\ rows \subseteq Sandboxes
    /\ session \in [Sandboxes -> Sessions \cup {None}]
    /\ fresh \subseteq Sandboxes
    /\ pool \subseteq Sandboxes
    /\ drawn \subseteq Sandboxes
    /\ create \in [Requests -> [pc : CreatePc, session : Sessions \cup {None},
                                id : Sandboxes \cup {None}]]
    /\ refill \in [Refillers -> [pc : RefillPc, available : Nat,
                                 id : Sandboxes \cup {None}]]
    /\ poolMu \in Refillers \cup {None}
    /\ delete \in [Sandboxes -> {"none", "checked", "removed"}]
    /\ cleaner \in [pc : {"idle", "loop", "removed"}, todo : SUBSET Sandboxes,
                    id : Sandboxes \cup {None}]
    /\ faults \in 0..MaxFaults
    /\ inUse \subseteq Sandboxes

Init ==
    /\ containers = {} /\ rows = {} /\ fresh = {} /\ pool = {} /\ drawn = {}
    /\ session = [b \in Sandboxes |-> None]
    /\ create = [r \in Requests |-> IdleCreate]
    /\ refill = [f \in Refillers |-> IdleRefill]
    /\ poolMu = None
    /\ delete = [b \in Sandboxes |-> "none"]
    /\ cleaner = IdleCleaner
    /\ faults = 0
    /\ inUse = {}

\* A command or statement fails: Docker or disk trouble, or a cancelled context.
Fault ==
    /\ faults < MaxFaults
    /\ faults' = faults + 1

\* store.CreateSandbox
InsertRow(b, s) ==
    /\ rows' = rows \cup {b}
    /\ session' = [session EXCEPT ![b] = s]
    /\ fresh' = fresh \cup {b}

\* go ensureWarmPool(...): with every slot taken at most one goroutine holds the
\* mutex and another still waits for it, and does what a new one would do.
SpawnRefill ==
    IF \A f \in Refillers : refill[f].pc # "idle"
    THEN UNCHANGED refill
    ELSE \E f \in Refillers :
            /\ refill[f].pc = "idle"
            /\ refill' = [refill EXCEPT ![f] = [IdleRefill EXCEPT !.pc = "start"]]

-----------------------------------------------------------------------------
(***************************************************************************)
(* Create and allocateFromWarmPool                                         *)
(***************************************************************************)

\* Mutant: the entry is read but not deleted.
AcquireHitKeepsEntry(r, s, b) ==
    /\ PoolSize > 0
    /\ create[r].pc = "idle"
    /\ b \in pool
    /\ create' = [create EXCEPT ![r] =
                     [pc |-> "acquired", session |-> s, id |-> b]]
    /\ UNCHANGED <<disk, refill, poolMu, delete, cleaner, faults, inUse>>

\* AcquireWarmPoolEntry, one transaction.  Entries made within the same second
\* are taken in any order.
AcquireHit(r, s, b) ==
    /\ PoolSize > 0
    /\ create[r].pc = "idle"
    /\ b \in pool
    /\ pool' = pool \ {b}
    /\ create' = [create EXCEPT ![r] =
                     [pc |-> "acquired", session |-> s, id |-> b]]
    /\ UNCHANGED <<containers, rows, session, fresh, drawn, refill, poolMu,
                   delete, cleaner, faults, inUse>>

\* The pool is empty: the miss is counted under warmPoolMu.
AcquireMiss(r, s) ==
    /\ PoolSize > 0
    /\ create[r].pc = "idle"
    /\ pool = {}
    /\ create' = [create EXCEPT ![r] =
                     [pc |-> "missed", session |-> s, id |-> None]]
    /\ UNCHANGED <<disk, refill, poolMu, delete, cleaner, faults, inUse>>

CountMiss(r) ==
    /\ create[r].pc = "missed"
    /\ poolMu = None
    /\ create' = [create EXCEPT ![r].pc = "draw"]
    /\ UNCHANGED <<disk, refill, poolMu, delete, cleaner, faults, inUse>>

\* The pool is disabled, or the request asks for another image or memory size.
PassPool(r, s) ==
    /\ create[r].pc = "idle"
    /\ create' = [create EXCEPT ![r] =
                     [pc |-> "draw", session |-> s, id |-> None]]
    /\ UNCHANGED <<disk, refill, poolMu, delete, cleaner, faults, inUse>>

\* backend.Get finds the container, and UpdateSandboxAssignment writes session
\* and labels.  It leaves last_accessed_at alone.
Assign(r) ==
    /\ create[r].pc = "acquired"
    /\ LET b == create[r].id
       IN  /\ b \in containers
           /\ b \in rows
           /\ session' = [session EXCEPT ![b] = create[r].session]
           /\ inUse' = inUse \cup {b}
    /\ create' = [create EXCEPT ![r].pc = "assigned"]
    /\ UNCHANGED <<containers, rows, fresh, pool, drawn, refill, poolMu, delete,
                   cleaner, faults>>

\* The hit is counted under warmPoolMu, Create returns and starts a refill.
CountHit(r) ==
    /\ create[r].pc = "assigned"
    /\ poolMu = None
    /\ create' = [create EXCEPT ![r] = IdleCreate]
    /\ SpawnRefill
    /\ UNCHANGED <<disk, poolMu, delete, cleaner, faults, inUse>>

\* backend.Get or a statement of the allocation fails: Create returns the error.
\* The entry has left the pool for good.
AllocateFails(r) ==
    /\ create[r].pc \in {"acquired", "assigned"}
    /\ Fault
    /\ create' = [create EXCEPT ![r] = IdleCreate]
    /\ UNCHANGED <<disk, refill, poolMu, delete, cleaner, inUse>>

\* backend.Create under a fresh id.
CreateMake(r, b) ==
    /\ create[r].pc = "draw"
    /\ b \notin drawn
    /\ drawn' = drawn \cup {b}
    /\ containers' = containers \cup {b}
    /\ create' = [create EXCEPT ![r] =
                     [pc |-> "made", session |-> create[r].session, id |-> b]]
    /\ UNCHANGED <<rows, session, fresh, pool, refill, poolMu, delete, cleaner,
                   faults, inUse>>

\* backend.Create fails before or after docker create: Create returns the error.
CreateMakeFails(r) ==
    /\ create[r].pc = "draw"
    /\ create' = [create EXCEPT ![r] = IdleCreate]
    /\ \/ /\ drawn = Sandboxes              \* no id is left in the model
          /\ UNCHANGED <<drawn, containers, faults>>
       \/ /\ Fault
          /\ UNCHANGED <<drawn, containers>>
       \/ /\ Fault
          /\ \E b \in Sandboxes \ drawn :
                /\ drawn' = drawn \cup {b}
                /\ containers' = containers \cup {b}
    /\ UNCHANGED <<rows, session, fresh, pool, refill, poolMu, delete, cleaner,
                   inUse>>

\* store.CreateSandbox; Create returns and starts a refill.
CreateRow(r) ==
    /\ create[r].pc = "made"
    /\ InsertRow(create[r].id, create[r].session)
    /\ inUse' = inUse \cup {create[r].id}
    /\ create' = [create EXCEPT ![r] = IdleCreate]
    /\ SpawnRefill
    /\ UNCHANGED <<containers, pool, drawn, poolMu, delete, cleaner, faults>>

\* store.CreateSandbox fails: Create returns the error and leaves the container.
CreateRowFails(r) ==
    /\ create[r].pc = "made"
    /\ Fault
    /\ create' = [create EXCEPT ![r] = IdleCreate]
    /\ UNCHANGED <<disk, refill, poolMu, delete, cleaner, inUse>>

-----------------------------------------------------------------------------
(***************************************************************************)
(* ensureWarmPool                                                          *)
(***************************************************************************)

\* POST /warm-pool/refill
RefillRequest ==
    /\ PoolSize > 0
    /\ SpawnRefill
    /\ UNCHANGED <<disk, create, poolMu, delete, cleaner, faults, inUse>>

\* Mutant: ensureWarmPool does not wait for warmPoolMu.
RefillLockNot(f) ==
    /\ refill[f].pc = "start"
    /\ IF PoolSize = 0
       THEN /\ refill' = [refill EXCEPT ![f] = IdleRefill]
            /\ UNCHANGED poolMu
       ELSE /\ refill' = [refill EXCEPT ![f] =
                             [pc |-> "loop", available |-> Cardinality(pool),
                              id |-> None]]
            /\ poolMu' = f
    /\ UNCHANGED <<disk, create, delete, cleaner, faults, inUse>>

\* Lock, then CountWarmPoolAvailable.
RefillLock(f) ==
    /\ refill[f].pc = "start"
    /\ poolMu = None
    /\ IF PoolSize = 0
       THEN /\ refill' = [refill EXCEPT ![f] = IdleRefill]
            /\ UNCHANGED poolMu
       ELSE /\ refill' = [refill EXCEPT ![f] =
                             [pc |-> "loop", available |-> Cardinality(pool),
                              id |-> None]]
            /\ poolMu' = f
    /\ UNCHANGED <<disk, create, delete, cleaner, faults, inUse>>

\* One more container is needed, and backend.Create makes it.
RefillMake(f, b) ==
    /\ refill[f].pc = "loop"
    /\ refill[f].available < PoolSize
    /\ b \notin drawn
    /\ drawn' = drawn \cup {b}
    /\ containers' = containers \cup {b}
    /\ refill' = [refill EXCEPT ![f] =
                     [pc |-> "made", available |-> refill[f].available, id |-> b]]
    /\ UNCHANGED <<rows, session, fresh, pool, create, poolMu, delete, cleaner,
                   faults, inUse>>

\* store.CreateSandbox with an empty session.
RefillRow(f) ==
    /\ refill[f].pc = "made"
    /\ InsertRow(refill[f].id, None)
    /\ refill' = [refill EXCEPT ![f].pc = "recorded"]
    /\ UNCHANGED <<containers, pool, drawn, create, poolMu, delete, cleaner,
                   faults, inUse>>

\* store.CreateWarmPoolEntry
RefillEntry(f) ==
    /\ refill[f].pc = "recorded"
    /\ pool' = pool \cup {refill[f].id}
    /\ refill' = [refill EXCEPT ![f] =
                     [pc |-> "loop", available |-> @.available + 1, id |-> None]]
    /\ UNCHANGED <<containers, rows, session, fresh, drawn, create, poolMu,
                   delete, cleaner, faults, inUse>>

\* The target is reached: unlock.
RefillDone(f) ==
    /\ refill[f].pc = "loop"
    /\ refill[f].available >= PoolSize \/ drawn = Sandboxes
    /\ refill' = [refill EXCEPT ![f] = IdleRefill]
    /\ poolMu' = None
    /\ UNCHANGED <<disk, create, delete, cleaner, faults, inUse>>

\* Mutant: the error returns do not unlock.
RefillFailsLocked(f) ==
    /\ refill[f].pc \in {"loop", "made", "recorded"}
    /\ refill[f].available < PoolSize
    /\ Fault
    /\ refill' = [refill EXCEPT ![f] = IdleRefill]
    /\ UNCHANGED <<disk, create, poolMu, delete, cleaner, inUse>>

\* backend.Create (before or after docker create), CreateSandbox or
\* CreateWarmPoolEntry fails: return the error, and unlock.
RefillFails(f) ==
    /\ refill[f].pc \in {"loop", "made", "recorded"}
    /\ refill[f].available < PoolSize
    /\ Fault
    /\ \/ UNCHANGED <<drawn, containers>>
       \/ /\ refill[f].pc = "loop"
          /\ \E b \in Sandboxes \ drawn :
                /\ drawn' = drawn \cup {b}
                /\ containers' = containers \cup {b}
    /\ refill' = [refill EXCEPT ![f] = IdleRefill]
    /\ poolMu' = None
    /\ UNCHANGED <<rows, session, fresh, pool, create, delete, cleaner, inUse>>

-----------------------------------------------------------------------------
(***************************************************************************)
(* Access, deletion, idle cleanup                                          *)
(***************************************************************************)

\* AuthorizeSandboxAccess, which every endpoint of a sandbox calls first.
Authorize(s, b) ==
    /\ b \in rows
    /\ session[b] = s
    /\ fresh' = fresh \cup {b}
    /\ inUse' = inUse \cup {b}
    /\ UNCHANGED <<containers, rows, session, pool, drawn, create, refill,
                   poolMu, delete, cleaner, faults>>

\* The idle TTL passes since last_accessed_at.  A sandbox that was assigned
\* after that is still in use.
AgeAccess(b) ==
    /\ b \in fresh
    /\ fresh' = fresh \ {b}
    /\ inUse' = inUse \ {b}
    /\ UNCHANGED <<containers, rows, session, pool, drawn, create, refill,
                   poolMu, delete, cleaner, faults>>

\* The handler authorises the request, and Delete reads the row.
DeleteCheck(b) ==
    /\ delete[b] = "none"
    /\ b \in rows
    /\ session[b] # None
    /\ fresh' = fresh \cup {b}
    /\ inUse' = inUse \cup {b}
    /\ delete' = [delete EXCEPT ![b] = "checked"]
    /\ UNCHANGED <<containers, rows, session, pool, drawn, create, refill,
                   poolMu, cleaner, faults>>

\* docker rm -f.
DeleteContainer(b) ==
    /\ delete[b] = "checked"
    /\ b \in containers
    /\ containers' = containers \ {b}
    /\ delete' = [delete EXCEPT ![b] = "removed"]
    /\ UNCHANGED <<rows, session, fresh, pool, drawn, create, refill, poolMu,
                   cleaner, faults, inUse>>

\* docker rm -f fails, or says there is no such container: Delete returns the
\* error and the row stays.
DeleteContainerFails(b) ==
    /\ delete[b] = "checked"
    /\ \/ b \notin containers /\ UNCHANGED faults
       \/ Fault
    /\ delete' = [delete EXCEPT ![b] = "none"]
    /\ UNCHANGED <<disk, create, refill, poolMu, cleaner, inUse>>

\* store.DeleteSandbox; ON DELETE CASCADE takes a pool entry along.
DeleteRow(b) ==
    /\ delete[b] = "removed"
    /\ rows' = rows \ {b}
    /\ pool' = pool \ {b}
    /\ delete' = [delete EXCEPT ![b] = "none"]
    /\ UNCHANGED <<containers, session, fresh, drawn, create, refill, poolMu,
                   cleaner, faults, inUse>>

\* Mutant: the query selects the session ids.
IdleListedSessionIds ==
    {session[b] : b \in {c \in rows : session[c] # None /\ c \notin fresh}}

\* Mutant: sandboxes without a session are listed as well.
IdleListedAnySession == {b \in rows : b \notin fresh}

\* ListIdleSandboxesBefore: rows of a session that were last accessed too long
\* ago.
IdleListed == {b \in rows : session[b] # None /\ b \notin fresh}

CleanList ==
    /\ cleaner.pc = "idle"
    /\ IdleListed # {}
    /\ cleaner' = [pc |-> "loop", todo |-> IdleListed, id |-> None]
    /\ UNCHANGED <<disk, create, refill, poolMu, delete, faults, inUse>>

\* Mutant: the cleanup removes containers and leaves their rows.
CleanContainerOnly(b) ==
    /\ cleaner.pc = "loop"
    /\ b \in cleaner.todo
    /\ containers' = containers \ {b}
    /\ cleaner' = [cleaner EXCEPT !.todo = @ \ {b}]
    /\ UNCHANGED <<rows, session, fresh, pool, drawn, create, refill, poolMu,
                   delete, faults, inUse>>

\* backend.Delete of the next listed sandbox; a missing container is fine.
CleanContainer(b) ==
    /\ cleaner.pc = "loop"
    /\ b \in cleaner.todo
    /\ containers' = containers \ {b}
    /\ cleaner' = [pc |-> "removed", todo |-> cleaner.todo \ {b}, id |-> b]
    /\ UNCHANGED <<rows, session, fresh, pool, drawn, create, refill, poolMu,
                   delete, faults, inUse>>

\* store.DeleteSandbox; a missing row is fine.
CleanRow ==
    /\ cleaner.pc = "removed"
    /\ rows' = rows \ {cleaner.id}
    /\ pool' = pool \ {cleaner.id}
    /\ cleaner' = [cleaner EXCEPT !.pc = "loop", !.id = None]
    /\ UNCHANGED <<containers, session, fresh, drawn, create, refill, poolMu,
                   delete, faults, inUse>>

\* One of the two fails: the loop goes on with the next sandbox.
CleanFails ==
    /\ Fault
    /\ \/ /\ cleaner.pc = "loop"
          /\ \E b \in cleaner.todo :
                cleaner' = [cleaner EXCEPT !.todo = @ \ {b}]
       \/ /\ cleaner.pc = "removed"
          /\ cleaner' = [cleaner EXCEPT !.pc = "loop", !.id = None]
    /\ UNCHANGED <<disk, create, refill, poolMu, delete, inUse>>

CleanDone ==
    /\ cleaner.pc = "loop"
    /\ cleaner.todo = {}
    /\ cleaner' = IdleCleaner
    /\ UNCHANGED <<disk, create, refill, poolMu, delete, faults, inUse>>

\* The process dies and starts again: main refills the pool first.
Restart ==
    /\ Fault
    /\ create' = [r \in Requests |-> IdleCreate]
    /\ \E f \in Refillers :
          refill' = [g \in Refillers |->
                        IF g = f /\ PoolSize > 0
                        THEN [IdleRefill EXCEPT !.pc = "start"] ELSE IdleRefill]
    /\ poolMu' = None
    /\ delete' = [b \in Sandboxes |-> "none"]
    /\ cleaner' = IdleCleaner
    /\ UNCHANGED <<disk, inUse>>

-----------------------------------------------------------------------------
Create(r) ==
    \/ \E s \in Sessions, b \in Sandboxes : AcquireHit(r, s, b)
    \/ \E s \in Sessions : AcquireMiss(r, s) \/ PassPool(r, s)
    \/ CountMiss(r) \/ Assign(r) \/ CountHit(r) \/ AllocateFails(r)
    \/ \E b \in Sandboxes : CreateMake(r, b)
    \/ CreateMakeFails(r) \/ CreateRow(r) \/ CreateRowFails(r)

Refill(f) ==
    \/ RefillLock(f)
    \/ \E b \in Sandboxes : RefillMake(f, b)
    \/ RefillRow(f) \/ RefillEntry(f) \/ RefillDone(f) \/ RefillFails(f)

Delete(b) ==
    \/ DeleteCheck(b) \/ DeleteContainer(b) \/ DeleteContainerFails(b)
    \/ DeleteRow(b)

Clean ==
    \/ CleanList
    \/ \E b \in Sandboxes : CleanContainer(b)
    \/ CleanRow \/ CleanFails \/ CleanDone

Next ==
    \/ \E r \in Requests : Create(r)
    \/ RefillRequest
    \/ \E f \in Refillers : Refill(f)
    \/ \E s \in Sessions, b \in Sandboxes : Authorize(s, b)
    \/ \E b \in Sandboxes : AgeAccess(b) \/ Delete(b)
    \/ Clean
    \/ Restart

Spec == Init /\ [][Next]_vars

-----------------------------------------------------------------------------
(***************************************************************************)
(* Properties.                                                             *)
(***************************************************************************)

\* Refills that run at the same time, triggered by creates, by the refill
\* endpoint and at startup, together never overfill the pool: ensureWarmPool
\* counts and inserts under warmPoolMu.
PoolBound == Cardinality(pool) <= PoolSize

\* What Create finds in the pool can be assigned: it has a container and a row,
\* and belongs to nobody.  Neither the idle cleanup nor a deletion touches it,
\* and a refill that fails half way adds nothing.
PoolEntriesUsable ==
    \A b \in pool :
        /\ b \in containers
        /\ b \in rows
        /\ session[b] = None
        /\ \A r \in Requests : create[r].id # b

\* Where a sandbox is in its life.  One that nobody is at work on any more, without
\* a session and not in the pool, is lost: no request will find it.
Held(b, pc) == \E r \in Requests : create[r].id = b /\ create[r].pc = pc

Stage(b) ==
    CASE b \notin drawn -> "unborn"
      [] b \in pool -> "spare"
      [] session[b] # None /\ b \in rows -> "owned"
      [] session[b] # None /\ b \notin rows -> "gone"
      [] Held(b, "acquired") -> "taken"
      [] Held(b, "made") \/ \E f \in Refillers : refill[f].id = b -> "making"
      [] OTHER -> "lost"

Stages == [b \in Sandboxes |-> Stage(b)]

\* However many creates, refills, deletions and cleanups run at the same time, each
\* sandbox lives the life of SandboxLife: the pool is never overfilled, an entry is
\* handed out once, to one session for good, what is gone or lost stays so, and
\* each failure loses at most the sandbox of its own request.
Life == INSTANCE SandboxLife
            WITH stage <- Stages, owner <- session, failures <- faults
ImplementsLife == Life!Spec

\* Somebody still works on the sandbox.
InFlight(b) ==
    \/ \E r \in Requests : create[r].id = b
    \/ \E f \in Refillers : refill[f].id = b
    \/ delete[b] = "removed"
    \/ cleaner.pc = "removed" /\ cleaner.id = b

\* As long as no command fails and the process does not crash, nothing leaks,
\* whatever the interleaving of creates, refills, deletions and cleanup: a
\* container has a row, a row without a session is in the pool, and a row with
\* one has its container.
NothingLeaksWithoutFaults ==
    faults = 0 =>
        \A b \in Sandboxes :
            \/ InFlight(b)
            \/ b \notin containers /\ b \notin rows
            \/ /\ b \in containers /\ b \in rows
               /\ session[b] = None <=> b \in pool

\* warmPoolMu is held by a refill that is at work, and by no other: a Create that
\* has to count its hit or miss, and the refills that queue, never wait for a
\* goroutine that returned early, failed or died, nor for one another.
LockHolderWorks ==
    \A f \in Refillers : poolMu = f <=> refill[f].pc \in {"loop", "made", "recorded"}

\* "Idle sandbox cleanup": what the cleanup lists has not been used within the
\* TTL, neither accessed nor given to its session.
ListedAreIdle ==
    [][cleaner.pc = "idle" => cleaner'.todo \cap inUse = {}]_vars
=============================================================================
