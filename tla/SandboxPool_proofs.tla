-------------------------- MODULE SandboxPool_proofs --------------------------
(***************************************************************************)
(* Proofs about SandboxPool for every finite set of sandbox ids, every set *)
(* of sessions and of goroutines, every pool size and number of faults.    *)
(***************************************************************************)
EXTENDS SandboxPool, FiniteSetTheorems, TLAPS

\* A Create request holds an id between drawing or acquiring it and its return.
CreateShape(r) ==
    IF create[r].pc \in {"acquired", "assigned", "made"}
    THEN create[r].id \in Sandboxes
    ELSE create[r].id = None

\* The goroutine that holds warmPoolMu is past RefillLock, and no other is; only
\* there does a refill hold an id.
RefillShape(f) ==
    /\ poolMu = f <=> refill[f].pc \in {"loop", "made", "recorded"}
    /\ IF refill[f].pc \in {"made", "recorded"}
       THEN refill[f].id \in Sandboxes
       ELSE refill[f].id = None

Shape ==
    /\ \A r \in Requests : CreateShape(r)
    /\ \A f \in Refillers : RefillShape(f)

\* An id that was not drawn is nowhere.
Undrawn(b) ==
    b \notin drawn =>
        /\ session[b] = None
        /\ b \notin pool
        /\ \A r \in Requests : create[r].id # b
        /\ \A f \in Refillers : refill[f].id # b

\* What is in the pool is complete and held by nobody.
Pooled(b) ==
    b \in pool =>
        /\ b \in containers
        /\ b \in rows
        /\ session[b] = None
        /\ \A r \in Requests : create[r].id # b
        /\ \A f \in Refillers : refill[f].id # b

\* What a Create holds is held by it alone, and has no session before Assign.
HeldByCreate(b) ==
    \A r \in Requests : create[r].id = b =>
        /\ \A q \in Requests : create[q].id = b => q = r
        /\ \A f \in Refillers : refill[f].id # b
        /\ create[r].pc \in {"acquired", "made"} => session[b] = None

\* What a refill is making is complete up to the step it has reached.
HeldByRefill(b) ==
    \A f \in Refillers : refill[f].id = b =>
        /\ b \in containers
        /\ session[b] = None
        /\ refill[f].pc = "recorded" => b \in rows

\* Deletion and idle cleanup work on sandboxes of a session only.
Removed(b) ==
    delete[b] # "none" \/ b \in cleaner.todo \/ cleaner.id = b
        => session[b] # None

SandboxInv(b) ==
    /\ Undrawn(b) /\ Pooled(b) /\ HeldByCreate(b) /\ HeldByRefill(b)
    /\ Removed(b)

\* The holder of warmPoolMu knows an upper bound of the pool's size: while it
\* counts and inserts, entries only leave.
CountInv ==
    /\ Cardinality(pool) <= PoolSize
    /\ \A f \in Refillers :
          /\ refill[f].pc \in {"loop", "made", "recorded"} =>
                 Cardinality(pool) <= refill[f].available
          /\ refill[f].pc \in {"made", "recorded"} =>
                 refill[f].available < PoolSize

\* Nothing is missing of a sandbox that nobody makes, or its removal is under way.
Settled(b) ==
    \/ delete[b] = "removed"
    \/ cleaner.pc = "removed" /\ cleaner.id = b
    \/ b \notin containers /\ b \notin rows
    \/ b \in containers /\ b \in rows /\ (session[b] = None <=> b \in pool)

\* A removal takes the container first, and while nothing fails a sandbox is
\* settled, or held by somebody who has made of it what its program counter says.
LeakInv(b) ==
    /\ delete[b] = "removed" \/ (cleaner.pc = "removed" /\ cleaner.id = b)
           => b \notin containers
    /\ faults = 0 =>
           /\ \A r \in Requests : create[r].id = b =>
                 \/ create[r].pc = "acquired" /\ b \in containers /\ b \in rows
                 \/ create[r].pc = "assigned" /\ Settled(b)
                 \/ create[r].pc = "made" /\ b \in containers
           /\ \/ \E r \in Requests : create[r].id = b
              \/ \E f \in Refillers : refill[f].id = b
              \/ Settled(b)

\* Who creates has a session.
Owned == \A r \in Requests : create[r].pc # "idle" => create[r].session # None

NoLeak == Owned /\ \A b \in Sandboxes : LeakInv(b)

\* The inductive invariant.
OwnInv == TypeOK /\ Shape /\ \A b \in Sandboxes : SandboxInv(b)

IInv == OwnInv /\ CountInv

-----------------------------------------------------------------------------
LEMMA InitIInv == Init => IInv
<1> SUFFICES ASSUME Init PROVE IInv
  OBVIOUS
<1>1. Cardinality(pool) = 0
  BY FS_EmptySet DEF Init
<1>2. TypeOK
  BY SandboxPoolAssumption
     DEF Init, TypeOK, IdleCreate, IdleRefill, IdleCleaner, CreatePc, RefillPc
<1>3. Shape
  BY SandboxPoolAssumption
     DEF Init, Shape, CreateShape, RefillShape, IdleCreate, IdleRefill
<1>4. \A b \in Sandboxes : SandboxInv(b)
  BY SandboxPoolAssumption
     DEF Init, SandboxInv, Undrawn, Pooled, HeldByCreate, HeldByRefill, Removed,
         IdleCreate, IdleRefill, IdleCleaner
<1>5. CountInv
  BY <1>1, SandboxPoolAssumption DEF Init, CountInv, IdleRefill
<1>6. QED
  BY <1>2, <1>3, <1>4, <1>5 DEF IInv, OwnInv

\* A refill is started in an idle slot, or not at all.
LEMMA SpawnRefillEffect ==
    ASSUME TypeOK, SpawnRefill
    PROVE  /\ refill' \in [Refillers -> [pc : RefillPc, available : Nat,
                                         id : Sandboxes \cup {None}]]
           /\ \A f \in Refillers :
                 \/ refill'[f] = refill[f]
                 \/ refill[f].pc = "idle" /\ refill'[f].pc = "start"
                    /\ refill'[f].id = None
  BY DEF TypeOK, SpawnRefill, IdleRefill, RefillPc

\* Every step leaves the variables in their types.  Shape says that what becomes
\* a row or a pool entry is an id.
LEMMA NextTypeOK == TypeOK /\ Shape /\ [Next]_vars => TypeOK'
<1> SUFFICES ASSUME TypeOK, Shape, [Next]_vars PROVE TypeOK'
  OBVIOUS
<1> USE SandboxPoolAssumption
<1>1. ASSUME NEW r \in Requests, Create(r) PROVE TypeOK'
  <2> USE DEF TypeOK, CreatePc, IdleCreate, disk, Fault
  <2>1. ASSUME NEW s \in Sessions, NEW b \in Sandboxes, AcquireHit(r, s, b)
        PROVE  TypeOK'
    BY <2>1 DEF AcquireHit
  <2>2. ASSUME NEW s \in Sessions, AcquireMiss(r, s) \/ PassPool(r, s)
        PROVE  TypeOK'
    BY <2>2 DEF AcquireMiss, PassPool
  <2>3. CASE CountMiss(r)
    BY <2>3 DEF CountMiss
  <2>4. CASE Assign(r)
    BY <2>4 DEF Assign
  <2>5. CASE CountHit(r)
    BY <2>5, SpawnRefillEffect DEF CountHit
  <2>6. CASE AllocateFails(r)
    BY <2>6 DEF AllocateFails
  <2>7. ASSUME NEW b \in Sandboxes, CreateMake(r, b)
        PROVE  TypeOK'
    BY <2>7 DEF CreateMake
  <2>8. CASE CreateMakeFails(r)
    BY <2>8 DEF CreateMakeFails
  <2>9. CASE CreateRow(r)
    <3>1. create[r].id \in Sandboxes
      BY <2>9 DEF CreateRow, Shape, CreateShape
    <3>2. QED
      BY <2>9, <3>1, SpawnRefillEffect DEF CreateRow, InsertRow
  <2>10. CASE CreateRowFails(r)
    BY <2>10 DEF CreateRowFails
  <2>11. QED
    BY <1>1, <2>1, <2>2, <2>3, <2>4, <2>5, <2>6, <2>7, <2>8, <2>9, <2>10
       DEF Create
<1>2. CASE RefillRequest
  BY <1>2, SpawnRefillEffect DEF RefillRequest, TypeOK, disk
<1>3. ASSUME NEW f \in Refillers, Refill(f) PROVE TypeOK'
  <2> USE DEF TypeOK, RefillPc, IdleRefill, disk, Fault
  <2>1. CASE RefillLock(f)
    <3>1. Cardinality(pool) \in Nat
      BY FS_Subset, FS_CardinalityType
    <3>2. refill' \in [Refillers -> [pc : RefillPc, available : Nat,
                                      id : Sandboxes \cup {None}]]
      <4>1. CASE PoolSize = 0
        BY <2>1, <4>1 DEF RefillLock
      <4>2. CASE PoolSize # 0
        BY <2>1, <3>1, <4>2 DEF RefillLock
      <4>3. QED
        BY <4>1, <4>2
    <3>3. poolMu' \in Refillers \cup {None}
      BY <2>1 DEF RefillLock
    <3>4. QED
      BY <2>1, <3>2, <3>3 DEF RefillLock
  <2>2. ASSUME NEW b \in Sandboxes, RefillMake(f, b) PROVE TypeOK'
    BY <2>2 DEF RefillMake
  <2>3. CASE RefillRow(f)
    <3>1. refill[f].id \in Sandboxes
      BY <2>3 DEF RefillRow, Shape, RefillShape
    <3>2. QED
      BY <2>3, <3>1 DEF RefillRow, InsertRow
  <2>4. CASE RefillEntry(f)
    <3>1. refill[f].id \in Sandboxes
      BY <2>4 DEF RefillEntry, Shape, RefillShape
    <3>2. QED
      BY <2>4, <3>1 DEF RefillEntry
  <2>5. CASE RefillDone(f) \/ RefillFails(f)
    BY <2>5 DEF RefillDone, RefillFails
  <2>6. QED
    BY <1>3, <2>1, <2>2, <2>3, <2>4, <2>5 DEF Refill
<1>4. ASSUME NEW s \in Sessions, NEW b \in Sandboxes, Authorize(s, b)
      PROVE  TypeOK'
  BY <1>4 DEF Authorize, TypeOK
<1>5. ASSUME NEW b \in Sandboxes, AgeAccess(b) \/ Delete(b) PROVE TypeOK'
  BY <1>5 DEF AgeAccess, Delete, DeleteCheck, DeleteContainer,
              DeleteContainerFails, DeleteRow, TypeOK, disk, Fault
<1>6. CASE Clean
  <2> USE DEF TypeOK, disk, Fault
  <2>1. CASE CleanList
    BY <2>1 DEF CleanList, IdleListed
  <2>2. ASSUME NEW b \in Sandboxes, CleanContainer(b) PROVE TypeOK'
    BY <2>2 DEF CleanContainer
  <2>3. CASE CleanRow
    BY <2>3 DEF CleanRow
  <2>4. CASE CleanFails
    <3>1. \A b \in cleaner.todo :
              [cleaner EXCEPT !.todo = @ \ {b}]
                  \in [pc : {"idle", "loop", "removed"}, todo : SUBSET Sandboxes,
                      id : Sandboxes \cup {None}]
      OBVIOUS
    <3>2. [cleaner EXCEPT !.pc = "loop", !.id = None]
              \in [pc : {"idle", "loop", "removed"}, todo : SUBSET Sandboxes,
                  id : Sandboxes \cup {None}]
      OBVIOUS
    <3>3. cleaner' \in [pc : {"idle", "loop", "removed"},
                        todo : SUBSET Sandboxes, id : Sandboxes \cup {None}]
      BY <2>4, <3>1, <3>2 DEF CleanFails
    <3>4. QED
      BY <2>4, <3>3 DEF CleanFails
  <2>5. CASE CleanDone
    BY <2>5 DEF CleanDone, IdleCleaner
  <2>6. QED
    BY <1>6, <2>1, <2>2, <2>3, <2>4, <2>5 DEF Clean
<1>7. CASE Restart
  BY <1>7 DEF Restart, TypeOK, disk, Fault, IdleCreate, IdleRefill, IdleCleaner,
              CreatePc, RefillPc
<1>8. CASE UNCHANGED vars
  BY <1>8 DEF vars, TypeOK
<1>9. QED
  BY <1>1, <1>2, <1>3, <1>4, <1>5, <1>6, <1>7, <1>8 DEF Next

-----------------------------------------------------------------------------
\* The records of requests and goroutines keep their shape, and only the holder
\* of warmPoolMu gets past RefillLock.
LEMMA NextShape == OwnInv /\ [Next]_vars => Shape'
<1> SUFFICES ASSUME OwnInv, [Next]_vars PROVE Shape'
  OBVIOUS
<1> USE SandboxPoolAssumption DEF OwnInv, TypeOK, Shape, CreateShape, RefillShape
<1>1. ASSUME NEW r \in Requests, Create(r) PROVE Shape'
  <2> USE DEF IdleCreate, disk
  <2>1. ASSUME NEW s \in Sessions, NEW b \in Sandboxes, AcquireHit(r, s, b)
        PROVE  Shape'
    BY <2>1 DEF AcquireHit
  <2>2. ASSUME NEW s \in Sessions, AcquireMiss(r, s) \/ PassPool(r, s)
        PROVE  Shape'
    BY <2>2, SMTT(30) DEF AcquireMiss, PassPool
  <2>3. CASE CountMiss(r) \/ Assign(r)
    BY <2>3 DEF CountMiss, Assign
  <2>4. CASE CountHit(r)
    BY <2>4, SpawnRefillEffect, SMTT(30) DEF CountHit
  <2>5. CASE AllocateFails(r) \/ CreateMakeFails(r) \/ CreateRowFails(r)
    BY <2>5 DEF AllocateFails, CreateMakeFails, CreateRowFails
  <2>6. ASSUME NEW b \in Sandboxes, CreateMake(r, b) PROVE Shape'
    BY <2>6 DEF CreateMake
  <2>7. CASE CreateRow(r)
    BY <2>7, SpawnRefillEffect DEF CreateRow
  <2>8. QED
    BY <1>1, <2>1, <2>2, <2>3, <2>4, <2>5, <2>6, <2>7 DEF Create
<1>2. CASE RefillRequest
  BY <1>2, SpawnRefillEffect DEF RefillRequest
<1>3. ASSUME NEW f \in Refillers, Refill(f) PROVE Shape'
  <2> USE DEF IdleRefill, RefillPc, disk
  <2>1. CASE RefillLock(f)
    BY <2>1 DEF RefillLock
  <2>2. ASSUME NEW b \in Sandboxes, RefillMake(f, b) PROVE Shape'
    BY <2>2 DEF RefillMake
  <2>3. CASE RefillRow(f)
    BY <2>3 DEF RefillRow
  <2>4. CASE RefillEntry(f)
    BY <2>4 DEF RefillEntry
  <2>5. CASE RefillDone(f) \/ RefillFails(f)
    BY <2>5 DEF RefillDone, RefillFails
  <2>6. QED
    BY <1>3, <2>1, <2>2, <2>3, <2>4, <2>5 DEF Refill
<1>4. CASE UNCHANGED <<create, refill, poolMu>>
  BY <1>4
<1>5. CASE Restart
  BY <1>5 DEF Restart, IdleCreate, IdleRefill
<1>6. ASSUME \/ \E s \in Sessions, b \in Sandboxes : Authorize(s, b)
             \/ \E b \in Sandboxes : AgeAccess(b) \/ Delete(b)
             \/ Clean
             \/ UNCHANGED vars
      PROVE  UNCHANGED <<create, refill, poolMu>>
  BY <1>6 DEF Authorize, AgeAccess, Delete, DeleteCheck, DeleteContainer,
              DeleteContainerFails, DeleteRow, Clean, CleanList, CleanContainer,
              CleanRow, CleanFails, CleanDone, vars
<1>7. QED
  BY <1>1, <1>2, <1>3, <1>4, <1>5, <1>6 DEF Next

\* One sandbox's invariant is preserved by every step.
LEMMA NextSandboxInv ==
    ASSUME OwnInv, [Next]_vars, NEW c \in Sandboxes
    PROVE  SandboxInv(c)'
<1> USE SandboxPoolAssumption
    DEF OwnInv, TypeOK, Shape, CreateShape, RefillShape, SandboxInv, Undrawn,
        Pooled, HeldByCreate, HeldByRefill, Removed
<1>1. ASSUME NEW r \in Requests, Create(r) PROVE SandboxInv(c)'
  <2> USE DEF IdleCreate, disk
  <2>1. ASSUME NEW s \in Sessions, NEW b \in Sandboxes, AcquireHit(r, s, b)
        PROVE  SandboxInv(c)'
    BY <2>1 DEF AcquireHit
  <2>2. ASSUME NEW s \in Sessions, AcquireMiss(r, s) \/ PassPool(r, s)
        PROVE  SandboxInv(c)'
    <3>1. \A q \in Requests : create'[q].id = c => create'[q] = create[q]
      BY <2>2 DEF AcquireMiss, PassPool
    <3>2. \A q \in Requests : create'[q].id = c => create[q].id = c
      BY <3>1
    <3>3. UNCHANGED <<containers, rows, session, pool, drawn, refill, delete,
                      cleaner>>
      BY <2>2 DEF AcquireMiss, PassPool
    <3>4. QED
      BY <3>1, <3>2, <3>3
  <2>3. CASE CountMiss(r)
    BY <2>3 DEF CountMiss
  <2>4. CASE Assign(r)
    BY <2>4 DEF Assign
  <2>5. CASE CountHit(r)
    BY <2>5, SpawnRefillEffect DEF CountHit
  <2>6. CASE AllocateFails(r) \/ CreateRowFails(r)
    BY <2>6, SMTT(30) DEF AllocateFails, CreateRowFails
  <2>7. ASSUME NEW b \in Sandboxes, CreateMake(r, b) PROVE SandboxInv(c)'
    BY <2>7 DEF CreateMake
  <2>8. CASE CreateMakeFails(r)
    BY <2>8 DEF CreateMakeFails
  <2>9. CASE CreateRow(r)
    BY <2>9, SpawnRefillEffect DEF CreateRow, InsertRow
  <2>10. QED
    BY <1>1, <2>1, <2>2, <2>3, <2>4, <2>5, <2>6, <2>7, <2>8, <2>9 DEF Create
<1>2. CASE RefillRequest
  BY <1>2, SpawnRefillEffect DEF RefillRequest, disk
<1>3. ASSUME NEW f \in Refillers, Refill(f) PROVE SandboxInv(c)'
  <2> USE DEF IdleRefill, disk
  <2>1. CASE RefillLock(f)
    BY <2>1 DEF RefillLock
  <2>2. ASSUME NEW b \in Sandboxes, RefillMake(f, b) PROVE SandboxInv(c)'
    BY <2>2 DEF RefillMake
  <2>3. CASE RefillRow(f)
    BY <2>3 DEF RefillRow, InsertRow
  <2>4. CASE RefillEntry(f)
    BY <2>4 DEF RefillEntry
  <2>5. CASE RefillDone(f)
    BY <2>5 DEF RefillDone
  <2>6. CASE RefillFails(f)
    BY <2>6 DEF RefillFails
  <2>7. QED
    BY <1>3, <2>1, <2>2, <2>3, <2>4, <2>5, <2>6 DEF Refill
<1>4. ASSUME NEW b \in Sandboxes,
             AgeAccess(b) \/ \E s \in Sessions : Authorize(s, b)
      PROVE  SandboxInv(c)'
  BY <1>4 DEF AgeAccess, Authorize
<1>5. ASSUME NEW b \in Sandboxes, Delete(b) PROVE SandboxInv(c)'
  <2>1. CASE DeleteCheck(b)
    BY <2>1 DEF DeleteCheck
  <2>2. CASE DeleteContainer(b)
    BY <2>2 DEF DeleteContainer
  <2>3. CASE DeleteContainerFails(b)
    BY <2>3 DEF DeleteContainerFails, disk
  <2>4. CASE DeleteRow(b)
    BY <2>4 DEF DeleteRow
  <2>5. QED
    BY <1>5, <2>1, <2>2, <2>3, <2>4 DEF Delete
<1>6. CASE Clean
  <2>1. CASE CleanList
    BY <2>1 DEF CleanList, IdleListed, disk
  <2>2. ASSUME NEW b \in Sandboxes, CleanContainer(b) PROVE SandboxInv(c)'
    BY <2>2 DEF CleanContainer
  <2>3. CASE CleanRow
    BY <2>3 DEF CleanRow
  <2>4. CASE CleanFails
    <3>1. CASE cleaner' = [cleaner EXCEPT !.pc = "loop", !.id = None]
      <4>1. /\ [cleaner EXCEPT !.pc = "loop", !.id = None].todo = cleaner.todo
            /\ [cleaner EXCEPT !.pc = "loop", !.id = None].id = None
        OBVIOUS
      <4>2. cleaner'.todo = cleaner.todo /\ cleaner'.id = None
        BY <3>1, <4>1
      <4>3. QED
        BY <2>4, <4>2 DEF CleanFails, disk
    <3>2. ASSUME NEW b \in cleaner.todo,
                 cleaner' = [cleaner EXCEPT !.todo = @ \ {b}]
          PROVE  SandboxInv(c)'
      <4>1. /\ [cleaner EXCEPT !.todo = @ \ {b}].todo = cleaner.todo \ {b}
            /\ [cleaner EXCEPT !.todo = @ \ {b}].id = cleaner.id
        OBVIOUS
      <4>2. cleaner'.todo = cleaner.todo \ {b} /\ cleaner'.id = cleaner.id
        BY <3>2, <4>1
      <4>3. QED
        BY <2>4, <4>2 DEF CleanFails, disk
    <3>3. QED
      BY <2>4, <3>1, <3>2 DEF CleanFails
  <2>5. CASE CleanDone
    BY <2>5 DEF CleanDone, IdleCleaner, disk
  <2>6. QED
    BY <1>6, <2>1, <2>2, <2>3, <2>4, <2>5 DEF Clean
<1>7. CASE Restart
  BY <1>7 DEF Restart, IdleCreate, IdleRefill, IdleCleaner, disk
<1>8. CASE UNCHANGED vars
  BY <1>8 DEF vars
<1>9. QED
  BY <1>1, <1>2, <1>3, <1>4, <1>5, <1>6, <1>7, <1>8 DEF Next

-----------------------------------------------------------------------------
\* Removing entries keeps the pool finite and makes it no larger.
LEMMA PoolShrinks ==
    ASSUME TypeOK, pool' \subseteq pool
    PROVE  /\ Cardinality(pool) \in Nat /\ Cardinality(pool') \in Nat
           /\ Cardinality(pool') <= Cardinality(pool)
<1>1. IsFiniteSet(pool)
  BY FS_Subset, SandboxPoolAssumption DEF TypeOK
<1>2. QED
  BY <1>1, FS_Subset, FS_CardinalityType

\* Only RefillLock and RefillEntry change what the bound speaks of.
LEMMA NextCountInv == IInv /\ [Next]_vars => CountInv'
<1> SUFFICES ASSUME IInv, [Next]_vars PROVE CountInv'
  OBVIOUS
<1> USE SandboxPoolAssumption
<1> USE DEF IInv, OwnInv, CountInv
<1>1. ASSUME pool' \subseteq pool,
             \A f \in Refillers :
                \/ refill'[f] = refill[f]
                \/ refill'[f].pc \in {"idle", "start"}
                \/ /\ refill[f].pc \in {"loop", "made"}
                   /\ refill'[f].available = refill[f].available
                   /\ refill[f].pc = "loop" =>
                          refill[f].available < PoolSize
      PROVE  CountInv'
  <2>1. \A f \in Refillers : refill[f].available \in Nat
    BY DEF TypeOK
  <2>2. QED
    BY <1>1, <2>1, PoolShrinks
<1>2. ASSUME NEW r \in Requests, Create(r) PROVE CountInv'
  <2>1. pool' \subseteq pool /\ (UNCHANGED refill \/ SpawnRefill)
    BY <1>2 DEF Create, AcquireHit, AcquireMiss, PassPool, CountMiss, Assign,
                CountHit, AllocateFails, CreateMake, CreateMakeFails, CreateRow,
                CreateRowFails, disk
  <2>2. QED
    BY <2>1, <1>1, SpawnRefillEffect
<1>3. CASE RefillRequest
  BY <1>3, <1>1, SpawnRefillEffect DEF RefillRequest, disk
<1>4. ASSUME NEW f \in Refillers, Refill(f) PROVE CountInv'
  <2> USE DEF TypeOK, IdleRefill, disk
  <2>1. CASE RefillLock(f)
    <3>1. pool' = pool /\ Cardinality(pool) \in Nat
      BY <2>1, PoolShrinks DEF RefillLock
    <3>2. CASE PoolSize = 0
      BY <2>1, <3>1, <3>2 DEF RefillLock
    <3>3. CASE PoolSize # 0
      BY <2>1, <3>1, <3>3 DEF RefillLock
    <3>4. QED
      BY <3>2, <3>3
  <2>2. ASSUME NEW b \in Sandboxes, RefillMake(f, b) PROVE CountInv'
    BY <2>2, <1>1 DEF RefillMake
  <2>3. CASE RefillRow(f)
    BY <2>3, <1>1 DEF RefillRow
  <2>4. CASE RefillEntry(f)
    <3>1. /\ Cardinality(pool) \in Nat /\ Cardinality(pool') \in Nat
          /\ Cardinality(pool') <= Cardinality(pool) + 1
      <4>1. IsFiniteSet(pool)
        BY FS_Subset
      <4>2. /\ IsFiniteSet(pool \cup {refill[f].id})
            /\ Cardinality(pool \cup {refill[f].id}) =
                   IF refill[f].id \in pool THEN Cardinality(pool)
                   ELSE Cardinality(pool) + 1
        BY <4>1, FS_AddElement
      <4>3. Cardinality(pool) \in Nat
        BY <4>1, FS_CardinalityType
      <4>4. pool' = pool \cup {refill[f].id}
        BY <2>4 DEF RefillEntry
      <4>5. QED
        BY <4>2, <4>3, <4>4
    <3>2. \A g \in Refillers \ {f} :
              refill[g].pc \notin {"loop", "made", "recorded"}
      BY <2>4 DEF RefillEntry, Shape, RefillShape
    <3>3. Cardinality(pool) <= refill[f].available
          /\ refill[f].available < PoolSize
      BY <2>4 DEF RefillEntry
    <3>4. /\ refill'[f].pc = "loop"
          /\ refill'[f].available = refill[f].available + 1
          /\ \A g \in Refillers \ {f} : refill'[g] = refill[g]
      BY <2>4 DEF RefillEntry
    <3>5. QED
      BY <3>1, <3>2, <3>3, <3>4
  <2>5. CASE RefillDone(f) \/ RefillFails(f)
    BY <2>5, <1>1 DEF RefillDone, RefillFails
  <2>6. QED
    BY <1>4, <2>1, <2>2, <2>3, <2>4, <2>5 DEF Refill
<1>5. CASE Restart
  BY <1>5, <1>1 DEF Restart, IdleRefill, disk
<1>6. ASSUME \/ \E s \in Sessions, b \in Sandboxes : Authorize(s, b)
             \/ \E b \in Sandboxes : AgeAccess(b) \/ Delete(b)
             \/ Clean
             \/ UNCHANGED vars
      PROVE  pool' \subseteq pool /\ UNCHANGED refill
  BY <1>6 DEF Authorize, AgeAccess, Delete, DeleteCheck, DeleteContainer,
              DeleteContainerFails, DeleteRow, Clean, CleanList, CleanContainer,
              CleanRow, CleanFails, CleanDone, vars, disk
<1>7. QED
  BY <1>1, <1>2, <1>3, <1>4, <1>5, <1>6 DEF Next

LEMMA NextIInv == IInv /\ [Next]_vars => IInv'
<1> SUFFICES ASSUME IInv, [Next]_vars PROVE IInv'
  OBVIOUS
<1>1. TypeOK' /\ Shape'
  BY NextTypeOK, NextShape DEF IInv, OwnInv
<1>2. \A b \in Sandboxes : SandboxInv(b)'
  BY NextSandboxInv DEF IInv
<1>3. CountInv'
  BY NextCountInv
<1>4. QED
  BY <1>1, <1>2, <1>3 DEF IInv, OwnInv

-----------------------------------------------------------------------------
(***************************************************************************)
(* Nothing leaks.  NoLeak is inductive relative to OwnInv.                 *)
(***************************************************************************)

LEMMA InitNoLeak == Init => NoLeak
  BY SandboxPoolAssumption
     DEF Init, NoLeak, Owned, LeakInv, Settled, IdleCreate, IdleRefill, IdleCleaner

\* Each create carries the session of its request.
LEMMA NextOwned == OwnInv /\ Owned /\ [Next]_vars => Owned'
<1> SUFFICES ASSUME OwnInv, Owned, [Next]_vars PROVE Owned'
  OBVIOUS
<1> USE SandboxPoolAssumption DEF Owned, OwnInv, TypeOK, IdleCreate
<1>1. ASSUME NEW r \in Requests, Create(r) PROVE Owned'
  <2>1. ASSUME NEW s \in Sessions,
               \/ \E b \in Sandboxes : AcquireHit(r, s, b)
               \/ AcquireMiss(r, s) \/ PassPool(r, s)
        PROVE  Owned'
    <3>1. /\ \A q \in Requests \ {r} : create'[q] = create[q]
          /\ create'[r].session = s
      BY <2>1 DEF AcquireHit, AcquireMiss, PassPool
    <3>2. s # None
      OBVIOUS
    <3>3. QED
      BY <3>1, <3>2
  <2>2. ASSUME NEW b \in Sandboxes, CreateMake(r, b) PROVE Owned'
    BY <2>2 DEF CreateMake
  <2>3. CASE CountMiss(r) \/ Assign(r)
    BY <2>3 DEF CountMiss, Assign
  <2>4. CASE CountHit(r) \/ CreateRow(r)
    BY <2>4 DEF CountHit, CreateRow
  <2>5. CASE AllocateFails(r) \/ CreateMakeFails(r) \/ CreateRowFails(r)
    BY <2>5 DEF AllocateFails, CreateMakeFails, CreateRowFails
  <2>6. QED
    BY <1>1, <2>1, <2>2, <2>3, <2>4, <2>5 DEF Create
<1>2. CASE UNCHANGED create
  BY <1>2
<1>3. CASE Restart
  BY <1>3 DEF Restart
<1>4. ASSUME \/ RefillRequest
             \/ \E f \in Refillers : Refill(f)
             \/ \E s \in Sessions, b \in Sandboxes : Authorize(s, b)
             \/ \E b \in Sandboxes : AgeAccess(b) \/ Delete(b)
             \/ Clean
             \/ UNCHANGED vars
      PROVE  UNCHANGED create
  BY <1>4 DEF RefillRequest, Refill, RefillLock, RefillMake, RefillRow, RefillEntry,
              RefillDone, RefillFails, Authorize, AgeAccess, Delete, DeleteCheck,
              DeleteContainer, DeleteContainerFails, DeleteRow, Clean, CleanList,
              CleanContainer, CleanRow, CleanFails, CleanDone, vars
<1>5. QED
  BY <1>1, <1>2, <1>3, <1>4 DEF Next

\* A step that fails something is one after which nothing is claimed; the
\* removals are as before, or none.
LEMMA FaultEnds ==
    ASSUME TypeOK, Fault, NEW c \in Sandboxes, LeakInv(c),
           c \in containers' => c \in containers \/ session[c] = None,
           \/ delete'[c] = "none" \/ delete'[c] = delete[c],
           \/ cleaner'.pc # "removed" \/ cleaner' = cleaner,
           Removed(c)
    PROVE  LeakInv(c)'
<1>1. faults' # 0
  BY DEF TypeOK, Fault
<1>2. QED
  BY <1>1 DEF LeakInv, Removed

\* One sandbox, and every step.
LEMMA NextLeakInv ==
    ASSUME OwnInv, NoLeak, [Next]_vars, NEW c \in Sandboxes
    PROVE  LeakInv(c)'
<1> USE SandboxPoolAssumption
    DEF OwnInv, TypeOK, Shape, CreateShape, RefillShape, SandboxInv, Undrawn,
        Pooled, HeldByCreate, HeldByRefill, Removed, NoLeak, Owned, LeakInv, Settled
<1>1. ASSUME NEW r \in Requests, Create(r) PROVE LeakInv(c)'
  <2> USE DEF IdleCreate, disk
  <2>1. ASSUME NEW s \in Sessions, NEW b \in Sandboxes, AcquireHit(r, s, b)
        PROVE  LeakInv(c)'
    BY <2>1 DEF AcquireHit
  <2>2. ASSUME NEW s \in Sessions, AcquireMiss(r, s) \/ PassPool(r, s)
        PROVE  LeakInv(c)'
    <3>1. \A q \in Requests : create'[q].id = c => create'[q] = create[q]
      BY <2>2 DEF AcquireMiss, PassPool
    <3>2. \A q \in Requests : create[q].id = c => create'[q] = create[q]
      BY <2>2 DEF AcquireMiss, PassPool
    <3>3. UNCHANGED <<containers, rows, session, pool, drawn, refill, delete,
                      cleaner, faults>>
      BY <2>2 DEF AcquireMiss, PassPool
    <3>4. QED
      BY <3>1, <3>2, <3>3
  <2>3. CASE CountMiss(r)
    BY <2>3 DEF CountMiss
  <2>4. CASE Assign(r)
    BY <2>4 DEF Assign
  <2>5. CASE CountHit(r)
    BY <2>5, SpawnRefillEffect DEF CountHit
  <2>6. CASE AllocateFails(r) \/ CreateRowFails(r)
    BY <2>6, FaultEnds DEF AllocateFails, CreateRowFails
  <2>7. ASSUME NEW b \in Sandboxes, CreateMake(r, b) PROVE LeakInv(c)'
    BY <2>7 DEF CreateMake
  <2>8. CASE CreateMakeFails(r)
    BY <2>8, FaultEnds DEF CreateMakeFails
  <2>9. CASE CreateRow(r)
    BY <2>9, SpawnRefillEffect DEF CreateRow, InsertRow
  <2>10. QED
    BY <1>1, <2>1, <2>2, <2>3, <2>4, <2>5, <2>6, <2>7, <2>8, <2>9 DEF Create
<1>2. CASE RefillRequest
  <2>1. \A f \in Refillers : refill[f].id = c => refill'[f] = refill[f]
    <3>1. \A f \in Refillers : refill[f].id = c => refill[f].pc # "idle"
      OBVIOUS
    <3>2. SpawnRefill
      BY <1>2 DEF RefillRequest
    <3>3. QED
      BY <3>1, <3>2, SpawnRefillEffect
  <2>2. UNCHANGED <<containers, rows, session, pool, create, delete, cleaner, faults>>
    BY <1>2 DEF RefillRequest, disk
  <2>3. (\E f \in Refillers : refill[f].id = c)
        => \E f \in Refillers : refill'[f].id = c
    BY <2>1
  <2>4. QED
    BY <2>2, <2>3
<1>3. ASSUME NEW f \in Refillers, Refill(f) PROVE LeakInv(c)'
  <2> USE DEF IdleRefill, disk
  <2>1. CASE RefillLock(f)
    BY <2>1 DEF RefillLock
  <2>2. ASSUME NEW b \in Sandboxes, RefillMake(f, b) PROVE LeakInv(c)'
    BY <2>2 DEF RefillMake
  <2>3. CASE RefillRow(f)
    BY <2>3 DEF RefillRow, InsertRow
  <2>4. CASE RefillEntry(f)
    BY <2>4 DEF RefillEntry
  <2>5. CASE RefillDone(f)
    BY <2>5 DEF RefillDone
  <2>6. CASE RefillFails(f)
    BY <2>6, FaultEnds DEF RefillFails
  <2>7. QED
    BY <1>3, <2>1, <2>2, <2>3, <2>4, <2>5, <2>6 DEF Refill
<1>4. ASSUME NEW b \in Sandboxes,
             AgeAccess(b) \/ \E s \in Sessions : Authorize(s, b)
      PROVE  LeakInv(c)'
  BY <1>4 DEF AgeAccess, Authorize
<1>5. ASSUME NEW b \in Sandboxes, Delete(b) PROVE LeakInv(c)'
  <2>1. CASE DeleteCheck(b)
    BY <2>1 DEF DeleteCheck
  <2>2. CASE DeleteContainer(b)
    BY <2>2 DEF DeleteContainer
  <2>3. CASE DeleteContainerFails(b)
    <3>1. CASE Fault
      BY <2>3, <3>1, FaultEnds DEF DeleteContainerFails, disk
    <3>2. CASE b \notin containers /\ UNCHANGED faults
      BY <2>3, <3>2 DEF DeleteContainerFails, disk
    <3>3. QED
      BY <2>3, <3>1, <3>2 DEF DeleteContainerFails
  <2>4. CASE DeleteRow(b)
    BY <2>4 DEF DeleteRow
  <2>5. QED
    BY <1>5, <2>1, <2>2, <2>3, <2>4 DEF Delete
<1>6. CASE Clean
  <2>1. CASE CleanList
    BY <2>1 DEF CleanList, IdleListed, disk
  <2>2. ASSUME NEW b \in Sandboxes, CleanContainer(b) PROVE LeakInv(c)'
    BY <2>2 DEF CleanContainer
  <2>3. CASE CleanRow
    BY <2>3 DEF CleanRow
  <2>4. CASE CleanFails
    <3>1. cleaner'.pc # "removed"
      <4>1. CASE cleaner' = [cleaner EXCEPT !.pc = "loop", !.id = None]
        <5>1. [cleaner EXCEPT !.pc = "loop", !.id = None].pc = "loop"
          OBVIOUS
        <5>2. QED
          BY <4>1, <5>1
      <4>2. ASSUME NEW b \in cleaner.todo, cleaner.pc = "loop",
                   cleaner' = [cleaner EXCEPT !.todo = @ \ {b}]
            PROVE  cleaner'.pc # "removed"
        <5>1. [cleaner EXCEPT !.todo = @ \ {b}].pc = cleaner.pc
          OBVIOUS
        <5>2. QED
          BY <4>2, <5>1
      <4>3. QED
        BY <2>4, <4>1, <4>2 DEF CleanFails
    <3>2. QED
      BY <2>4, <3>1, FaultEnds DEF CleanFails, disk
  <2>5. CASE CleanDone
    BY <2>5 DEF CleanDone, IdleCleaner, disk
  <2>6. QED
    BY <1>6, <2>1, <2>2, <2>3, <2>4, <2>5 DEF Clean
<1>7. CASE Restart
  BY <1>7, FaultEnds DEF Restart, IdleCleaner, disk
<1>8. CASE UNCHANGED vars
  BY <1>8 DEF vars
<1>9. QED
  BY <1>1, <1>2, <1>3, <1>4, <1>5, <1>6, <1>7, <1>8 DEF Next

-----------------------------------------------------------------------------
\* The inductive invariant holds in every reachable state.
THEOREM Invariance == Spec => []IInv
  BY InitIInv, NextIInv, PTL DEF Spec

\* What becomes a row or a pool entry is a drawn id, whatever the interleaving.
THEOREM TypeCorrect == Spec => []TypeOK
  BY Invariance, PTL DEF IInv, OwnInv

\* Any number of concurrent refills never overfill the pool.
THEOREM PoolNeverOverfilled == Spec => []PoolBound
<1>1. IInv => PoolBound
  BY DEF IInv, CountInv, PoolBound
<1>2. QED
  BY <1>1, Invariance, PTL

\* Every pool entry is complete, unowned and in nobody's hands.
THEOREM PoolStaysUsable == Spec => []PoolEntriesUsable
<1>1. IInv => PoolEntriesUsable
  BY DEF IInv, OwnInv, TypeOK, SandboxInv, Pooled, PoolEntriesUsable
<1>2. QED
  BY <1>1, Invariance, PTL

\* Only a refill at work holds warmPoolMu, also after failures and restarts.
THEOREM LockIsWithWorkers == Spec => []LockHolderWorks
<1>1. IInv => LockHolderWorks
  BY DEF IInv, OwnInv, Shape, RefillShape, LockHolderWorks
<1>2. QED
  BY <1>1, Invariance, PTL

\* As long as nothing fails, no container and no row is left behind, whatever the
\* interleaving of creates, refills, deletions and the idle cleanup.
THEOREM NoFaultNoLeak == Spec => []NothingLeaksWithoutFaults
<1>1. IInv /\ NoLeak /\ [Next]_vars => NoLeak'
  BY NextOwned, NextLeakInv DEF IInv, NoLeak
<1>2. NoLeak => NothingLeaksWithoutFaults
  BY DEF NoLeak, LeakInv, Settled, NothingLeaksWithoutFaults, InFlight
<1>3. QED
  BY <1>1, <1>2, InitNoLeak, Invariance, PTL DEF Spec

\* A sandbox that a session has got is that session's for good.
OwnerNeverChanges ==
    [][\A b \in Sandboxes : session[b] # None => session'[b] = session[b]]_vars

\* No sandbox ever passes from one session to another.
THEOREM OwnerIsForGood == Spec => OwnerNeverChanges
<1> DEFINE Kept == \A b \in Sandboxes :
                      session[b] # None => session'[b] = session[b]
<1>1. IInv /\ [Next]_vars => [Kept]_vars
  <2> SUFFICES ASSUME IInv, [Next]_vars, NEW c \in Sandboxes, session[c] # None
               PROVE  session'[c] = session[c]
    OBVIOUS
  <2> USE DEF IInv, OwnInv, TypeOK
  <2>1. ASSUME NEW r \in Requests, Create(r)
        PROVE  session'[c] = session[c]
    <3>1. CASE Assign(r)
      BY <3>1 DEF Assign, SandboxInv, HeldByCreate
    <3>2. CASE CreateRow(r)
      BY <3>2 DEF CreateRow, InsertRow, SandboxInv, HeldByCreate
    <3>3. CASE ~Assign(r) /\ ~CreateRow(r)
      BY <2>1, <3>3
         DEF Create, AcquireHit, AcquireMiss, PassPool, CountMiss, CountHit,
             AllocateFails, CreateMake, CreateMakeFails, CreateRowFails, disk
    <3>4. QED
      BY <3>1, <3>2, <3>3
  <2>2. ASSUME NEW f \in Refillers, Refill(f)
        PROVE  session'[c] = session[c]
    <3>1. CASE RefillRow(f)
      BY <3>1 DEF RefillRow, InsertRow, SandboxInv, HeldByRefill
    <3>2. CASE ~RefillRow(f)
      BY <2>2, <3>2
         DEF Refill, RefillLock, RefillMake, RefillEntry, RefillDone,
             RefillFails, disk
    <3>3. QED
      BY <3>1, <3>2
  <2>3. ASSUME \/ RefillRequest \/ Restart \/ Clean
               \/ \E s \in Sessions, b \in Sandboxes : Authorize(s, b)
               \/ \E b \in Sandboxes : AgeAccess(b) \/ Delete(b)
               \/ UNCHANGED vars
        PROVE  session'[c] = session[c]
    BY <2>3 DEF RefillRequest, Restart, Clean, CleanList, CleanContainer,
                CleanRow, CleanFails, CleanDone, Authorize, AgeAccess, Delete,
                DeleteCheck, DeleteContainer, DeleteContainerFails, DeleteRow,
                vars, disk
  <2>4. QED
    BY <2>1, <2>2, <2>3 DEF Next
<1>2. QED
  BY <1>1, Invariance, PTL DEF Spec, OwnerNeverChanges
-----------------------------------------------------------------------------
(***************************************************************************)
(* SandboxPool implements SandboxLife.                                     *)
(***************************************************************************)

\* A create or a refill is making the sandbox.
Making(b) == Held(b, "made") \/ \E f \in Refillers : refill[f].id = b

\* The stages of a sandbox exclude one another, so that each is told by one
\* condition.
StageOf(b) ==
    /\ Stage(b) \in {"unborn", "making", "spare", "taken", "owned", "gone", "lost"}
    /\ Stage(b) = "unborn" <=> b \notin drawn
    /\ Stage(b) = "spare" <=> b \in pool
    /\ Stage(b) = "owned" <=> session[b] # None /\ b \in rows
    /\ Stage(b) = "gone" <=> session[b] # None /\ b \notin rows
    /\ Stage(b) = "taken" <=> Held(b, "acquired")
    /\ Stage(b) = "making" <=> Making(b)

StageInv == \A b \in Sandboxes : StageOf(b)

\* Undrawn, Pooled, HeldByCreate and HeldByRefill keep the stages apart.
LEMMA StagesExclude == OwnInv => StageInv
<1> SUFFICES ASSUME OwnInv, NEW b \in Sandboxes PROVE StageOf(b)
  BY DEF StageInv
<1>1. b \in pool \/ session[b] # None => b \in drawn
  BY DEF OwnInv, SandboxInv, Undrawn
<1>2. Held(b, "acquired") \/ Making(b)
          => b \in drawn /\ b \notin pool /\ session[b] = None
  BY DEF OwnInv, SandboxInv, Undrawn, Pooled, HeldByCreate, HeldByRefill, Held, Making
<1>3. ~(Held(b, "acquired") /\ Making(b))
  BY DEF OwnInv, SandboxInv, HeldByCreate, Held, Making
<1>4. b \in pool => session[b] = None
  BY DEF OwnInv, SandboxInv, Pooled
<1>5. Stage(b) =
          CASE b \notin drawn -> "unborn"
            [] b \in pool -> "spare"
            [] session[b] # None /\ b \in rows -> "owned"
            [] session[b] # None /\ b \notin rows -> "gone"
            [] Held(b, "acquired") -> "taken"
            [] Making(b) -> "making"
            [] OTHER -> "lost"
  BY DEF Stage, Making
<1>6. QED
  BY <1>1, <1>2, <1>3, <1>4, <1>5 DEF StageOf

\* What does not change a sandbox's holders, its place in the pool and its
\* assignment leaves it in its stage.
LEMMA StageKept ==
    ASSUME NEW c \in Sandboxes, StageOf(c), StageOf(c)',
           (c \in drawn') <=> (c \in drawn),
           (c \in pool') <=> (c \in pool),
           session'[c] = session[c],
           session[c] # None => ((c \in rows') <=> (c \in rows)),
           \A r \in Requests : \A pc \in {"acquired", "made"} :
              (create'[r].id = c /\ create'[r].pc = pc)
                  <=> (create[r].id = c /\ create[r].pc = pc),
           \A f \in Refillers : (refill'[f].id = c) <=> (refill[f].id = c)
    PROVE  Stage(c)' = Stage(c)
<1>1. /\ Held(c, "acquired")' <=> Held(c, "acquired")
      /\ Making(c)' <=> Making(c)
  BY DEF Held, Making
<1>2. QED
  BY <1>1 DEF StageOf

\* The stages of all sandboxes at once: none changes, or that of one does.
LEMMA StagesKept ==
    ASSUME \A c \in Sandboxes : Stage(c)' = Stage(c)
    PROVE  Stages' = Stages
  BY DEF Stages

LEMMA OneBecomes ==
    ASSUME NEW b \in Sandboxes, NEW new, Stage(b)' = new,
           \A c \in Sandboxes \ {b} : Stage(c)' = Stage(c)
    PROVE  Life!Become(b, new)
  BY DEF Stages, Life!Become

\* A step that touches neither rows, pool and sessions nor what is being made or
\* taken.
LEMMA QuietStep ==
    ASSUME StageInv, StageInv', UNCHANGED <<drawn, pool, session, rows>>,
           \A r \in Requests :
              \/ create'[r] = create[r]
              \/ /\ create[r].pc \notin {"acquired", "made"}
                 /\ create'[r].pc \notin {"acquired", "made"},
           \A f \in Refillers : refill'[f].id = refill[f].id
    PROVE  Stages' = Stages
<1>1. ASSUME NEW c \in Sandboxes PROVE Stage(c)' = Stage(c)
  BY StageKept DEF StageInv
<1>2. QED
  BY <1>1, StagesKept

LifeStep == Life!Next \/ UNCHANGED <<Stages, session, faults>>

\* A refill that starts holds nothing yet.
LEMMA SpawnHoldsNothing ==
    ASSUME OwnInv, SpawnRefill, NEW f \in Refillers
    PROVE  refill'[f].id = refill[f].id
  BY SpawnRefillEffect DEF OwnInv, Shape, RefillShape

LEMMA TakeStep ==
    ASSUME OwnInv, StageInv, StageInv', NEW r \in Requests, NEW s \in Sessions,
           NEW b \in Sandboxes, AcquireHit(r, s, b)
    PROVE  Life!Take(b)
<1> USE DEF OwnInv, TypeOK, StageInv
<1>1. Stage(b) = "spare"
  BY DEF AcquireHit, StageOf
<1>2. Stage(b)' = "taken"
  <2>1. create'[r].id = b /\ create'[r].pc = "acquired"
    BY DEF AcquireHit
  <2>2. QED
    BY <2>1 DEF StageOf, Held
<1>3. ASSUME NEW c \in Sandboxes \ {b} PROVE Stage(c)' = Stage(c)
  <2>1. create[r].id = None
    BY DEF AcquireHit, Shape, CreateShape
  <2>2. QED
    BY <2>1, StageKept, SandboxPoolAssumption DEF AcquireHit
<1>4. QED
  BY <1>1, <1>2, <1>3, OneBecomes DEF Life!Take, AcquireHit, Stages

\* Assign and CreateRow give the sandbox to the session of the request.
LEMMA GiveStep ==
    ASSUME OwnInv, Owned, StageInv, StageInv', NEW r \in Requests,
           Assign(r) \/ CreateRow(r)
    PROVE  \E b \in Sandboxes, s \in Sessions : Life!Give(b, s)
<1> USE DEF OwnInv, TypeOK, StageInv
<1>1. PICK b \in Sandboxes, s \in Sessions :
          b = create[r].id /\ s = create[r].session
  BY DEF Assign, CreateRow, Owned, Shape, CreateShape
<1>2. Stage(b) \in {"making", "taken"}
  BY <1>1 DEF Assign, CreateRow, StageOf, Held, Making
<1>3. /\ session' = [session EXCEPT ![b] = s] /\ s # None
      /\ b \in rows' /\ rows' \ {b} = rows \ {b}
      /\ UNCHANGED <<drawn, pool, faults>>
      /\ \A q \in Requests \ {r} : create'[q] = create[q]
      /\ create'[r].pc \notin {"acquired", "made"}
      /\ create'[r].id \in {b, None}
      /\ UNCHANGED refill \/ SpawnRefill
  BY <1>1, SandboxPoolAssumption DEF Assign, CreateRow, InsertRow, IdleCreate, Owned
<1>4. Stage(b)' = "owned"
  BY <1>1, <1>3 DEF StageOf
<1>5. ASSUME NEW c \in Sandboxes \ {b} PROVE Stage(c)' = Stage(c)
  <2>1. \A f \in Refillers : refill'[f].id = refill[f].id
    BY <1>3, SpawnHoldsNothing
  <2>2. session'[c] = session[c] /\ (c \in rows' <=> c \in rows)
    BY <1>3, <1>5
  <2>3. create'[r].id # c /\ create[r].id # c
    BY <1>1, <1>3, SandboxPoolAssumption
  <2>4. QED
    BY <1>3, <2>1, <2>2, <2>3, StageKept
<1>6. QED
  <2>1. Life!Become(b, "owned")
    BY <1>1, <1>4, <1>5, OneBecomes
  <2>2. Stages[b] \in {"making", "taken"}
    BY <1>1, <1>2 DEF Stages
  <2>3. QED
    BY <1>1, <1>3, <2>1, <2>2 DEF Life!Give

\* CreateMake and RefillMake draw an id and make a container under it.
LEMMA MakeStep ==
    ASSUME OwnInv, StageInv, StageInv', NEW b \in Sandboxes,
           \/ \E r \in Requests : CreateMake(r, b)
           \/ \E f \in Refillers : RefillMake(f, b)
    PROVE  Life!Make(b)
<1> USE DEF OwnInv, TypeOK, StageInv
<1>1. b \notin drawn /\ drawn' = drawn \cup {b}
      /\ UNCHANGED <<pool, session, rows, faults>>
  BY DEF CreateMake, RefillMake
<1>2. Stage(b) = "unborn"
  BY <1>1 DEF StageOf
<1>3. Making(b)' /\ \A c \in Sandboxes \ {b} : Stage(c)' = Stage(c)
  <2>1. ASSUME NEW r \in Requests, CreateMake(r, b)
        PROVE  Making(b)' /\ \A c \in Sandboxes \ {b} : Stage(c)' = Stage(c)
    <3>1. /\ create'[r].id = b /\ create'[r].pc = "made"
          /\ \A q \in Requests \ {r} : create'[q] = create[q]
          /\ create[r].id = None /\ UNCHANGED refill
      BY <2>1 DEF CreateMake, Shape, CreateShape
    <3>2. Making(b)'
      BY <3>1 DEF Making, Held
    <3>3. ASSUME NEW c \in Sandboxes \ {b} PROVE Stage(c)' = Stage(c)
      <4>1. c # b /\ c # None
        BY SandboxPoolAssumption
      <4>2. create'[r].id # c /\ create[r].id # c
        BY <3>1, <4>1
      <4>3. /\ StageOf(c) /\ StageOf(c)'
            /\ (c \in drawn') <=> (c \in drawn)
            /\ UNCHANGED <<pool, session, rows, refill>>
        BY <1>1, <3>1, <4>1
      <4>4. \A q \in Requests : \A pc \in {"acquired", "made"} :
                (create'[q].id = c /\ create'[q].pc = pc)
                    <=> (create[q].id = c /\ create[q].pc = pc)
        BY <3>1, <4>2
      <4>5. QED
        BY <4>3, <4>4, StageKept
    <3>4. QED
      BY <3>2, <3>3
  <2>2. ASSUME NEW f \in Refillers, RefillMake(f, b)
        PROVE  Making(b)' /\ \A c \in Sandboxes \ {b} : Stage(c)' = Stage(c)
    <3>1. /\ refill'[f].id = b /\ refill[f].id = None
          /\ \A g \in Refillers \ {f} : refill'[g] = refill[g]
          /\ UNCHANGED create
      BY <2>2 DEF RefillMake, Shape, RefillShape
    <3>2. Making(b)'
      BY <3>1 DEF Making, Held
    <3>3. ASSUME NEW c \in Sandboxes \ {b} PROVE Stage(c)' = Stage(c)
      <4>1. c # b /\ c # None
        BY SandboxPoolAssumption
      <4>2. refill'[f].id # c /\ refill[f].id # c
        BY <3>1, <4>1
      <4>3. /\ StageOf(c) /\ StageOf(c)'
            /\ (c \in drawn') <=> (c \in drawn)
            /\ UNCHANGED <<pool, session, rows, create>>
        BY <1>1, <3>1, <4>1
      <4>4. \A g \in Refillers : (refill'[g].id = c) <=> (refill[g].id = c)
        BY <3>1, <4>2
      <4>5. QED
        BY <4>3, <4>4, StageKept
    <3>4. QED
      BY <3>2, <3>3
  <2>3. QED
    BY <2>1, <2>2
<1>4. Stage(b)' = "making"
  BY <1>3 DEF StageOf
<1>5. QED
  BY <1>1, <1>2, <1>3, <1>4, OneBecomes DEF Life!Make, Stages

\* SandboxLife counts as SandboxPool does.
LEMMA SameCardinality == \A S : Life!Cardinality(S) = Cardinality(S)
  BY DEF Life!Cardinality, Cardinality

\* The entry that RefillEntry adds fits: the goroutine counted under warmPoolMu.
LEMMA StockStep ==
    ASSUME OwnInv, CountInv, StageInv, StageInv', NEW f \in Refillers, RefillEntry(f)
    PROVE  \E b \in Sandboxes : Life!Stock(b)
<1> USE DEF OwnInv, TypeOK, StageInv
<1>1. PICK b \in Sandboxes : b = refill[f].id
  BY DEF RefillEntry, Shape, RefillShape
<1>2. Stage(b) = "making"
  BY <1>1 DEF StageOf, Making
<1>3. Stage(b)' = "spare"
  BY <1>1 DEF RefillEntry, StageOf
<1>4. {c \in Sandboxes : Stages[c] = "spare"} = pool
  BY DEF StageOf, Stages
<1>5. Cardinality(pool) < PoolSize
  <2>1. Cardinality(pool) \in Nat
    BY FS_Subset, FS_CardinalityType, SandboxPoolAssumption
  <2>2. Cardinality(pool) <= refill[f].available /\ refill[f].available < PoolSize
        /\ refill[f].available \in Nat
    BY DEF RefillEntry, CountInv
  <2>3. QED
    BY <2>1, <2>2, SandboxPoolAssumption
<1>6. ASSUME NEW c \in Sandboxes \ {b} PROVE Stage(c)' = Stage(c)
  <2>1. /\ refill'[f].id = None
        /\ \A g \in Refillers \ {f} : refill'[g] = refill[g]
        /\ pool' = pool \cup {b}
        /\ UNCHANGED <<rows, session, drawn, create>>
    BY <1>1 DEF RefillEntry
  <2>2. \A g \in Refillers : refill'[g].id = c <=> refill[g].id = c
    BY <1>1, <2>1, SandboxPoolAssumption
  <2>3. QED
    BY <2>1, <2>2, StageKept
<1>7. QED
  <2>1. UNCHANGED <<session, faults>>
    BY DEF RefillEntry
  <2>2. Life!Become(b, "spare")
    BY <1>3, <1>6, OneBecomes
  <2>3. Stages[b] = "making"
    BY <1>2 DEF Stages
  <2>4. Cardinality({c \in Sandboxes : Stages[c] = "spare"}) < PoolSize
    BY <1>4, <1>5
  <2>5. QED
    BY <2>1, <2>2, <2>3, <2>4, SameCardinality DEF Life!Stock

\* The removal of the row ends the life of the sandbox, if no other removal has
\* done so before.
LEMMA GoStep ==
    ASSUME OwnInv, StageInv, StageInv', NEW b \in Sandboxes, session[b] # None,
           rows' = rows \ {b}, pool' = pool \ {b},
           UNCHANGED <<session, drawn, create, refill, faults>>
    PROVE  LifeStep
<1> USE DEF StageInv
<1>1. ASSUME NEW c \in Sandboxes \ {b} PROVE Stage(c)' = Stage(c)
  BY StageKept
<1>2. CASE b \in rows
  <2>1. Stage(b) = "owned" /\ Stage(b)' = "gone"
    BY <1>2 DEF StageOf
  <2>2. Life!Go(b)
    BY <1>1, <2>1, OneBecomes DEF Life!Go, Stages
  <2>3. QED
    BY <2>2 DEF LifeStep, Life!Next
<1>3. CASE b \notin rows
  <2>1. Stage(b)' = Stage(b)
    BY <1>3 DEF StageOf
  <2>2. QED
    BY <1>1, <2>1, StagesKept DEF LifeStep
<1>4. QED
  BY <1>2, <1>3

\* A failure ends the making or taking of at most one sandbox, which is lost; of
\* an id that was just drawn only the container is left.
LEMMA LoseStep ==
    ASSUME StageInv, StageInv', Fault, NEW b \in Sandboxes,
           Stage(b) \in {"unborn", "making", "taken"}, Stage(b)' = "lost",
           \A c \in Sandboxes \ {b} : Stage(c)' = Stage(c),
           UNCHANGED session
    PROVE  LifeStep
<1>1. Life!Become(b, "lost")
  BY OneBecomes
<1>2. Life!Lose(b)
  BY <1>1 DEF Life!Lose, Life!Fail, Fault, Stages
<1>3. QED
  BY <1>2 DEF LifeStep, Life!Next

\* A failure that changes no stage.
LEMMA RecoverStep ==
    ASSUME Fault, Stages' = Stages, UNCHANGED session
    PROVE  LifeStep
  BY DEF Fault, LifeStep, Life!Next, Life!Recover, Life!Fail

\* AllocateFails and CreateRowFails: the request lets go of its sandbox, which only
\* Assign made sure of.
LEMMA CreateFailsStep ==
    ASSUME OwnInv, StageInv, StageInv', NEW r \in Requests,
           AllocateFails(r) \/ CreateRowFails(r)
    PROVE  LifeStep
<1> USE DEF OwnInv, TypeOK, StageInv
<1>1. /\ Fault /\ create'[r] = IdleCreate
      /\ \A q \in Requests \ {r} : create'[q] = create[q]
      /\ create[r].pc \in {"acquired", "assigned", "made"}
      /\ UNCHANGED <<drawn, pool, session, rows, refill>>
  BY DEF AllocateFails, CreateRowFails, disk
<1>2. CASE create[r].pc = "assigned"
  <2>1. Stages' = Stages
    BY <1>1, <1>2, QuietStep DEF IdleCreate
  <2>2. QED
    BY <1>1, <2>1, RecoverStep
<1>3. CASE create[r].pc \in {"acquired", "made"}
  <2>1. PICK b \in Sandboxes : b = create[r].id
    BY <1>3 DEF Shape, CreateShape
  <2>2. Stage(b) \in {"making", "taken"}
    BY <1>3, <2>1 DEF StageOf, Making, Held
  <2>3. b \in drawn /\ b \notin pool /\ session[b] = None
    BY <1>3, <2>1 DEF SandboxInv, Undrawn, Pooled, HeldByCreate
  <2>4. ~Held(b, "acquired")' /\ ~Making(b)'
    <3>1. \A q \in Requests : create'[q].id # b
      BY <1>1, <2>1, SandboxPoolAssumption DEF SandboxInv, HeldByCreate, IdleCreate
    <3>2. \A f \in Refillers : refill'[f].id # b
      BY <1>1, <2>1 DEF SandboxInv, HeldByCreate
    <3>3. QED
      BY <3>1, <3>2 DEF Held, Making
  <2>5. Stage(b)' = "lost"
    BY <1>1, <2>3, <2>4 DEF StageOf
  <2>6. ASSUME NEW c \in Sandboxes \ {b} PROVE Stage(c)' = Stage(c)
    <3>1. create'[r].id # c /\ create[r].id # c
      BY <1>1, <2>1, SandboxPoolAssumption DEF IdleCreate
    <3>2. QED
      BY <1>1, <3>1, StageKept
  <2>7. QED
    BY <1>1, <2>2, <2>5, <2>6, LoseStep
<1>4. QED
  BY <1>1, <1>2, <1>3

\* The container that a failing docker create leaves under a new id is lost.
LEMMA LostAtBirth ==
    ASSUME OwnInv, StageInv, StageInv', Fault, NEW b \in Sandboxes \ drawn,
           drawn' = drawn \cup {b},
           UNCHANGED <<rows, session, pool>>,
           \A r \in Requests : create'[r].id = None \/ create'[r] = create[r],
           \A r \in Requests : create[r].id = None \/ create'[r] = create[r],
           \A f \in Refillers : refill'[f].id = None \/ refill'[f] = refill[f],
           \A f \in Refillers : refill[f].id = None \/ refill'[f] = refill[f]
    PROVE  LifeStep
<1> USE SandboxPoolAssumption DEF OwnInv, TypeOK, StageInv
<1>1. Stage(b) = "unborn"
  BY DEF StageOf
<1>2. /\ \A r \in Requests : create'[r].id # b
      /\ \A f \in Refillers : refill'[f].id # b
      /\ b \notin pool /\ session[b] = None
  BY DEF SandboxInv, Undrawn
<1>3. ~Held(b, "acquired")' /\ ~Making(b)'
  BY <1>2 DEF Held, Making
<1>4. Stage(b)' = "lost"
  BY <1>2, <1>3 DEF StageOf
<1>5. ASSUME NEW c \in Sandboxes \ {b} PROVE Stage(c)' = Stage(c)
  <2>1. \A r \in Requests : create'[r].id = c \/ create[r].id = c
                                => create'[r] = create[r]
    OBVIOUS
  <2>2. \A f \in Refillers : refill'[f].id = c \/ refill[f].id = c
                                => refill'[f] = refill[f]
    OBVIOUS
  <2>3. QED
    BY <2>1, <2>2, StageKept
<1>6. QED
  BY <1>1, <1>4, <1>5, LoseStep

\* A failed docker create leaves a container that nobody knows, or nothing.
LEMMA CreateMakeFailsStep ==
    ASSUME OwnInv, StageInv, StageInv', NEW r \in Requests, CreateMakeFails(r)
    PROVE  LifeStep
<1> USE DEF OwnInv, TypeOK
<1>1. /\ create[r].pc = "draw" /\ create[r].id = None
      /\ create'[r].pc = "idle" /\ create'[r].id = None
      /\ \A q \in Requests \ {r} : create'[q] = create[q]
      /\ UNCHANGED <<rows, session, pool, refill>>
  BY DEF CreateMakeFails, IdleCreate, Shape, CreateShape
<1>2. CASE UNCHANGED drawn
  <2>1. Stages' = Stages
    BY <1>1, <1>2, QuietStep
  <2>2. Fault \/ UNCHANGED faults
    BY DEF CreateMakeFails
  <2>3. QED
    BY <1>1, <2>1, <2>2, RecoverStep DEF LifeStep
<1>3. ASSUME Fault, NEW b \in Sandboxes \ drawn, drawn' = drawn \cup {b}
      PROVE  LifeStep
  <2>1. \A q \in Requests : (create'[q].id = None /\ create[q].id = None)
                                \/ create'[q] = create[q]
    BY <1>1
  <2>2. QED
    BY <1>1, <1>3, <2>1, LostAtBirth
<1>4. QED
  BY <1>2, <1>3 DEF CreateMakeFails

\* What a refill was making is lost with its failure, or nothing is.
LEMMA RefillFailsStep ==
    ASSUME OwnInv, StageInv, StageInv', NEW f \in Refillers, RefillFails(f)
    PROVE  LifeStep
<1> USE DEF OwnInv, TypeOK
<1>1. /\ Fault /\ refill'[f].pc = "idle" /\ refill'[f].id = None
      /\ \A g \in Refillers \ {f} : refill'[g] = refill[g]
      /\ refill[f].pc \in {"loop", "made", "recorded"}
      /\ UNCHANGED <<rows, session, pool, create>>
  BY DEF RefillFails, IdleRefill
<1>2. CASE refill[f].pc = "loop"
  <2>1. \A g \in Refillers : (refill'[g].id = None /\ refill[g].id = None)
                                \/ refill'[g] = refill[g]
    BY <1>1, <1>2 DEF Shape, RefillShape
  <2>2. CASE UNCHANGED drawn
    <3>1. Stages' = Stages
      BY <1>1, <2>1, <2>2, QuietStep
    <3>2. QED
      BY <1>1, <3>1, RecoverStep
  <2>3. ASSUME NEW b \in Sandboxes \ drawn, drawn' = drawn \cup {b} PROVE LifeStep
    BY <1>1, <2>1, <2>3, LostAtBirth
  <2>4. QED
    BY <2>2, <2>3 DEF RefillFails
<1>3. CASE refill[f].pc \in {"made", "recorded"}
  <2>1. PICK b \in Sandboxes : b = refill[f].id
    BY <1>3 DEF Shape, RefillShape
  <2>2. UNCHANGED drawn
    BY <1>3 DEF RefillFails
  <2>3. Stage(b) = "making"
    BY <2>1 DEF StageInv, StageOf, Making
  <2>4. b \in drawn /\ b \notin pool /\ session[b] = None
    BY <2>1 DEF SandboxInv, Undrawn, Pooled, HeldByRefill
  <2>5. \A g \in Refillers \ {f} : refill[g].id = None
    BY <1>1 DEF Shape, RefillShape
  <2>6. /\ \A g \in Refillers : refill'[g].id # b
        /\ \A q \in Requests : create'[q].id # b
    BY <1>1, <2>1, <2>5, SandboxPoolAssumption DEF SandboxInv, HeldByCreate
  <2>7. Stage(b)' = "lost"
    <3>1. ~Held(b, "acquired")' /\ ~Making(b)'
      BY <2>6 DEF Held, Making
    <3>2. QED
      BY <1>1, <2>2, <2>4, <3>1 DEF StageInv, StageOf
  <2>8. ASSUME NEW c \in Sandboxes \ {b} PROVE Stage(c)' = Stage(c)
    <3>1. refill'[f].id # c /\ refill[f].id # c
      BY <1>1, <2>1, SandboxPoolAssumption
    <3>2. QED
      BY <1>1, <2>2, <3>1, StageKept DEF StageInv
  <2>9. QED
    BY <1>1, <2>3, <2>7, <2>8, LoseStep
<1>4. QED
  BY <1>1, <1>2, <1>3

\* After a restart nothing is being made or taken.
LEMMA CrashStep ==
    ASSUME OwnInv, StageInv, StageInv', Restart
    PROVE  Life!Crash
<1> USE DEF OwnInv, TypeOK, StageInv
<1>1. /\ \A r \in Requests : create'[r].id = None
      /\ \A f \in Refillers : refill'[f].id = None
      /\ UNCHANGED <<rows, session, pool, drawn>>
  BY DEF Restart, IdleCreate, IdleRefill, disk
<1>2. ASSUME NEW b \in Sandboxes
      PROVE  Stage(b)' = IF Stage(b) \in {"making", "taken"} THEN "lost" ELSE Stage(b)
  <2>1. ~Held(b, "acquired")' /\ ~Making(b)'
    BY <1>1, SandboxPoolAssumption DEF Held, Making
  <2>2. QED
    BY <1>1, <2>1 DEF StageOf
<1>3. Stages' = [b \in Sandboxes |-> IF Stages[b] \in {"making", "taken"}
                                     THEN "lost" ELSE Stages[b]]
  BY <1>2 DEF Stages
<1>4. QED
  BY <1>1, <1>3 DEF Life!Crash, Life!Fail, Restart, Fault

\* The steps of a create that only move its program counter.
LEMMA CreateQuiet ==
    ASSUME OwnInv, StageInv, StageInv', NEW r \in Requests,
           \/ \E s \in Sessions : AcquireMiss(r, s) \/ PassPool(r, s)
           \/ CountMiss(r) \/ CountHit(r)
    PROVE  LifeStep
<1>1. /\ UNCHANGED <<drawn, pool, session, rows, faults>>
      /\ UNCHANGED refill \/ SpawnRefill
      /\ create[r].pc \notin {"acquired", "made"}
      /\ create'[r].pc \notin {"acquired", "made"}
      /\ \A q \in Requests \ {r} : create'[q] = create[q]
  BY DEF AcquireMiss, PassPool, CountMiss, CountHit, IdleCreate, disk, OwnInv, TypeOK
<1>2. \A f \in Refillers : refill'[f].id = refill[f].id
  BY <1>1, SpawnHoldsNothing
<1>3. Stages' = Stages
  BY <1>1, <1>2, QuietStep
<1>4. QED
  BY <1>1, <1>3 DEF LifeStep

\* And those of a refill: a row without a session gives the sandbox to nobody.
LEMMA RefillQuiet ==
    ASSUME OwnInv, StageInv, StageInv', NEW f \in Refillers,
           RefillLock(f) \/ RefillRow(f) \/ RefillDone(f)
    PROVE  LifeStep
<1> USE DEF OwnInv, TypeOK
<1>1. /\ UNCHANGED <<drawn, pool, create, faults>>
      /\ \A g \in Refillers : refill'[g].id = refill[g].id
  BY DEF RefillLock, RefillRow, RefillDone, IdleRefill, disk, Shape, RefillShape
<1>2. \A c \in Sandboxes : session'[c] = session[c]
          /\ (session[c] # None => (c \in rows' <=> c \in rows))
  BY DEF RefillLock, RefillRow, RefillDone, InsertRow, disk, SandboxInv, HeldByRefill
<1>3. session' = session
  BY <1>2 DEF RefillLock, RefillRow, RefillDone, InsertRow, disk
<1>4. ASSUME NEW c \in Sandboxes PROVE Stage(c)' = Stage(c)
  BY <1>1, <1>2, StageKept DEF StageInv
<1>5. QED
  BY <1>1, <1>3, <1>4, StagesKept DEF LifeStep

\* Access, deletion and cleanup touch only containers and their own records, except
\* for the removal of the row.
LEMMA RemovalStep ==
    ASSUME OwnInv, StageInv, StageInv',
           \/ \E b \in Sandboxes : Delete(b) \/ AgeAccess(b)
           \/ \E s \in Sessions, b \in Sandboxes : Authorize(s, b)
           \/ Clean
    PROVE  LifeStep
<1> USE DEF OwnInv, SandboxInv, Removed
<1>1. UNCHANGED <<session, drawn, create, refill>>
  BY DEF Delete, DeleteCheck, DeleteContainer, DeleteContainerFails, DeleteRow,
         AgeAccess, Authorize, Clean, CleanList, CleanContainer, CleanRow,
         CleanFails, CleanDone, disk
<1>2. ASSUME NEW b \in Sandboxes, DeleteRow(b) PROVE LifeStep
  BY <1>2, GoStep DEF DeleteRow
<1>3. CASE CleanRow
  <2>1. rows' = rows \ {cleaner.id} /\ pool' = pool \ {cleaner.id} /\ UNCHANGED faults
    BY <1>3 DEF CleanRow
  <2>2. CASE cleaner.id \in Sandboxes
    <3>1. PICK b \in Sandboxes : b = cleaner.id
      BY <2>2
    <3>2. QED
      BY <1>1, <2>1, <3>1, GoStep
  <2>3. CASE cleaner.id \notin Sandboxes
    <3>1. UNCHANGED <<rows, pool>>
      BY <2>1, <2>3 DEF TypeOK
    <3>2. QED
      BY <1>1, <2>1, <3>1, QuietStep DEF LifeStep
  <2>4. QED
    BY <2>2, <2>3
<1>4. CASE ~CleanRow /\ \A b \in Sandboxes : ~DeleteRow(b)
  <2>1. UNCHANGED <<rows, pool>> /\ (UNCHANGED faults \/ Fault)
    BY <1>4 DEF Delete, DeleteCheck, DeleteContainer, DeleteContainerFails,
                AgeAccess, Authorize, Clean, CleanList, CleanContainer,
                CleanFails, CleanDone, disk
  <2>2. Stages' = Stages
    BY <1>1, <2>1, QuietStep
  <2>3. QED
    BY <1>1, <2>1, <2>2, RecoverStep DEF LifeStep
<1>5. QED
  BY <1>2, <1>3, <1>4

\* Every step is one of SandboxLife, or none.
LEMMA StepLife ==
    ASSUME IInv, Owned, StageInv, StageInv', Next
    PROVE  LifeStep
<1> USE DEF IInv
<1>1. ASSUME NEW r \in Requests, Create(r) PROVE LifeStep
  <2>1. ASSUME NEW s \in Sessions, NEW b \in Sandboxes, AcquireHit(r, s, b)
        PROVE  LifeStep
    BY <2>1, TakeStep DEF LifeStep, Life!Next
  <2>2. CASE Assign(r) \/ CreateRow(r)
    BY <2>2, GiveStep DEF LifeStep, Life!Next
  <2>3. ASSUME NEW b \in Sandboxes, CreateMake(r, b) PROVE LifeStep
    BY <2>3, MakeStep DEF LifeStep, Life!Next
  <2>4. QED
    BY <1>1, <2>1, <2>2, <2>3, CreateQuiet, CreateFailsStep, CreateMakeFailsStep
       DEF Create
<1>2. ASSUME NEW f \in Refillers, Refill(f) PROVE LifeStep
  <2>1. ASSUME NEW b \in Sandboxes, RefillMake(f, b) PROVE LifeStep
    BY <2>1, MakeStep DEF LifeStep, Life!Next
  <2>2. CASE RefillEntry(f)
    BY <2>2, StockStep DEF LifeStep, Life!Next
  <2>3. QED
    BY <1>2, <2>1, <2>2, RefillQuiet, RefillFailsStep DEF Refill
<1>3. CASE RefillRequest
  <2>1. \A f \in Refillers : refill'[f].id = refill[f].id
    BY <1>3, SpawnHoldsNothing DEF RefillRequest
  <2>2. Stages' = Stages
    BY <1>3, <2>1, QuietStep DEF RefillRequest, disk
  <2>3. QED
    BY <1>3, <2>2 DEF RefillRequest, disk, LifeStep
<1>4. CASE Restart
  BY <1>4, CrashStep DEF LifeStep, Life!Next
<1>5. QED
  BY <1>1, <1>2, <1>3, <1>4, RemovalStep DEF Next

\* At first no sandbox is born.
LEMMA InitLife == Init => Life!Init
<1> SUFFICES ASSUME Init PROVE Life!Init
  OBVIOUS
<1>1. ASSUME NEW b \in Sandboxes PROVE Stage(b) = "unborn"
  BY InitIInv, StagesExclude DEF IInv, StageInv, StageOf, Init
<1>2. QED
  BY <1>1 DEF Life!Init, Stages, Init

\* However creates, refills, deletions and cleanups interleave, whatever fails and
\* whenever the process crashes: each sandbox lives the life of SandboxLife.
THEOREM LifeRefinement == Spec => ImplementsLife
<1>1. IInv /\ Owned /\ StageInv /\ StageInv' /\ [Next]_vars
          => [Life!Next]_<<Stages, session, faults>>
  <2> SUFFICES ASSUME IInv, Owned, StageInv, StageInv', [Next]_vars
               PROVE  LifeStep
    BY DEF LifeStep
  <2>1. CASE UNCHANGED vars
    BY <2>1, QuietStep DEF vars, LifeStep
  <2>2. QED
    BY <2>1, StepLife
<1>2. IInv => StageInv
  BY StagesExclude DEF IInv
<1>3. Init => Owned
  BY InitNoLeak DEF NoLeak
<1>4. IInv /\ Owned /\ [Next]_vars => Owned'
  BY NextOwned DEF IInv
<1>5. QED
  BY <1>1, <1>2, <1>3, <1>4, InitLife, Invariance,
     PTL DEF Spec, ImplementsLife, Life!Spec, Life!lifeVars

=============================================================================
