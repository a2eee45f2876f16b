--------------------------- MODULE CallbackPromise ---------------------------
(***************************************************************************)
(* What a caller who gives webhook URLs may rely on, on top of the promise *)
(* of the exec endpoints: the life of the subscription of each task and    *)
(* URL, and what is POSTed to it.  ExecWebhooks is shown to implement it.  *)
(***************************************************************************)
EXTENDS ExecPromise

CONSTANT Urls           \* webhook URLs

VARIABLES
    subscription,       \* of each task and URL: none, pending, delivered or gone
    posted              \* the statuses POSTed so far for each task and URL

callbackVars == <<view, subscription, posted>>

-----------------------------------------------------------------------------
CallbackInit ==
    /\ Init
    /\ subscription = [e \in Execs |-> [u \in Urls |-> "none"]]
    /\ posted = [e \in Execs |-> [u \in Urls |-> {}]]

\* A URL is subscribed to a task that can be seen, finished or not, once.
Subscribe(e, u) ==
    /\ view[e] \notin {"unused", "gone"}
    /\ subscription[e][u] = "none"
    /\ subscription' = [subscription EXCEPT ![e][u] = "pending"]
    /\ UNCHANGED <<view, posted>>

\* A callback is POSTed to a subscriber only.  It reports the final status of the
\* task, the one that can be read as long as anything can be, and what every
\* callback of the task before it has reported, to whichever URL.
Post(e, u) ==
    /\ subscription[e][u] # "none"
    /\ \E st \in Terminal :
          /\ view[e] \in {st, "gone"}
          /\ \A v \in Urls : posted[e][v] \subseteq {st}
          /\ posted' = [posted EXCEPT ![e][u] = {st}]
    /\ UNCHANGED <<view, subscription>>

\* A subscription counts as delivered after a POST, and then for good.
Mark(e, u) ==
    /\ subscription[e][u] = "pending"
    /\ posted[e][u] # {}
    /\ subscription' = [subscription EXCEPT ![e][u] = "delivered"]
    /\ UNCHANGED <<view, posted>>

\* Tasks cannot be subscribed to any more, and forget who had subscribed.  A task
\* that has a subscriber is finished by then, or cannot be read either.
Drop(S) ==
    /\ \A e \in S :
          (\E u \in Urls : subscription[e][u] \in {"pending", "delivered"})
              => view'[e] \in Terminal \cup {"gone"}
    /\ subscription' = [e \in Execs |-> IF e \in S THEN [u \in Urls |-> "gone"]
                                        ELSE subscription[e]]
    /\ UNCHANGED posted

\* The task goes on, whoever subscribes to it.
CallbackNext ==
    \/ \E e \in Execs, u \in Urls : Subscribe(e, u) \/ Post(e, u) \/ Mark(e, u)
    \/ [Next]_view /\ \E S \in SUBSET Execs : Drop(S)

CallbackSpec == CallbackInit /\ [][CallbackNext]_callbackVars
=============================================================================
