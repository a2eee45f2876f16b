----------------------------- MODULE SandboxLife -----------------------------
(***************************************************************************)
(* The life of a sandbox as its users see it, whatever requests, refills,  *)
(* deletions and cleanups do at the same time: it is made once, waits in   *)
(* the warm pool or not, is given to one session, and goes; or it is lost, *)
(* which takes a failure.  SandboxPool is shown to implement it.           *)
(***************************************************************************)
EXTENDS Naturals, FiniteSets

CONSTANTS
    Sandboxes,      \* sandbox ids
    Sessions,       \* session ids
    PoolSize,       \* size of the warm pool
    None            \* no session

VARIABLES
    stage,          \* where each sandbox is in its life
    owner,          \* the session it was given to, if any
    failures        \* failed commands and crashes so far

lifeVars == <<stage, owner, failures>>

-----------------------------------------------------------------------------
Init ==
    /\ stage = [b \in Sandboxes |-> "unborn"]
    /\ owner = [b \in Sandboxes |-> None]
    /\ failures = 0

Become(b, new) == stage' = [stage EXCEPT ![b] = new]

Fail == failures' = failures + 1

\* A container is made under a new id, for a session or for the pool.
Make(b) ==
    /\ stage[b] = "unborn"
    /\ Become(b, "making")
    /\ UNCHANGED <<owner, failures>>

\* The pool never holds more than it is configured for, at no point in time.
Stock(b) ==
    /\ stage[b] = "making"
    /\ Cardinality({c \in Sandboxes : stage[c] = "spare"}) < PoolSize
    /\ Become(b, "spare")
    /\ UNCHANGED <<owner, failures>>

\* One request takes it out of the pool, and nobody puts it back.
Take(b) ==
    /\ stage[b] = "spare"
    /\ Become(b, "taken")
    /\ UNCHANGED <<owner, failures>>

Give(b, s) ==
    /\ stage[b] \in {"making", "taken"}
    /\ Become(b, "owned")
    /\ owner' = [owner EXCEPT ![b] = s]
    /\ UNCHANGED failures

\* Deleted by its session or for being idle.
Go(b) ==
    /\ stage[b] = "owned"
    /\ Become(b, "gone")
    /\ UNCHANGED <<owner, failures>>

\* A failure loses the sandbox that the failing request was at work on, and no
\* other; one that has an owner or waits in the pool stays.
Lose(b) ==
    /\ stage[b] \in {"unborn", "making", "taken"}
    /\ Become(b, "lost")
    /\ Fail
    /\ UNCHANGED owner

\* Or it loses none.
Recover == Fail /\ UNCHANGED <<stage, owner>>

\* A crash loses what was in the making, and what no session had got yet.
Crash ==
    /\ stage' = [b \in Sandboxes |-> IF stage[b] \in {"making", "taken"}
                                     THEN "lost" ELSE stage[b]]
    /\ Fail
    /\ UNCHANGED owner

Next ==
    \/ \E b \in Sandboxes :
          \/ Make(b) \/ Stock(b) \/ Take(b) \/ Go(b) \/ Lose(b)
          \/ \E s \in Sessions : Give(b, s)
    \/ Recover \/ Crash

Spec == Init /\ [][Next]_lifeVars
=============================================================================
