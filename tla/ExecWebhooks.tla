---------------------------- MODULE ExecWebhooks ----------------------------
(***************************************************************************)
(* Completion callbacks of exec tasks: the subscription rows of the store, *)
(* the requests of SubscribeExecWebhook and the delivery goroutines        *)
(* deliverExecWebhookNotifications, composed with the tasks of ExecTasks.  *)
(*                                                                         *)
(* The text of a payload is left out but for the status it reports.  A     *)
(* waiting exec request only reads, so ExecTasks's Wait is left out here.  *)
(***************************************************************************)
EXTENDS ExecTasks

CONSTANTS
    Urls,           \* webhook URLs
    Clients         \* bound: subscribe requests in flight at a time, each with
                    \* the immediate delivery it may have started

ASSUME ExecWebhooksAssumption == Execs \cap Clients = {}

VARIABLES
    subs,           \* subscription row of each (exec, URL): UNIQUE in the table
    client,         \* the subscribe request of each client
    deliverer,      \* delivery goroutines: one per finished task, one per client
    posts,          \* statuses POSTed so far for each (exec, URL)
    stale           \* history: (exec, URL) subscribed on an outdated reading

webhookVars == <<subs, client, deliverer, posts, stale>>
allVars == <<vars, webhookVars>>

-----------------------------------------------------------------------------
Deliverers == Execs \cup Clients

Idle == [pc |-> "idle"]

Subscription == {"none", "pending", "delivered"}

SubscribeRequest == [pc : {"read"}, exec : Execs, url : Urls, seen : Status]

\* todo are the listed URLs not yet marked; the one in url is being POSTed.
Delivery ==
    [pc : {"list"}, exec : Execs, status : Status]
    \cup [pc : {"send"}, exec : Execs, status : Status, todo : SUBSET Urls]
    \cup [pc : {"mark"}, exec : Execs, status : Status, todo : SUBSET Urls,
          url : Urls]

WebhookTypeOK ==
    /\ subs \in [Execs -> [Urls -> Subscription]]
    /\ client \in [Clients -> SubscribeRequest \cup {Idle}]
    /\ deliverer \in [Deliverers -> Delivery \cup {Idle}]
    /\ posts \in [Execs -> [Urls -> SUBSET Status]]
    /\ stale \subseteq Execs \X Urls

WInit ==
    /\ Init
    /\ subs = [e \in Execs |-> [u \in Urls |-> "none"]]
    /\ client = [c \in Clients |-> Idle]
    /\ deliverer = [d \in Deliverers |-> Idle]
    /\ posts = [e \in Execs |-> [u \in Urls |-> {}]]
    /\ stale = {}

\* Mutant: the status in the payload is the one the task had before.
StartDeliveryOldStatus(d, e, status) ==
    deliverer' = [deliverer EXCEPT ![d] =
                     [pc |-> "list", exec |-> e, status |-> execMap[e].status]]

\* go deliverExecWebhookNotifications(..., e, result)
StartDelivery(d, e, status) ==
    deliverer' = [deliverer EXCEPT ![d] =
                     [pc |-> "list", exec |-> e, status |-> status]]

\* Mutant: the cascade clears the status column instead of deleting the row.
CascadeClearsStatus ==
    subs' = [e \in Execs |-> IF execRows'[e] = NoResult
                             THEN [u \in Urls |-> ""] ELSE subs[e]]

\* ON DELETE CASCADE from exec_tasks: the subscriptions of a row go with it.
CascadeToSubscriptions ==
    subs' = [e \in Execs |-> IF execRows'[e] = NoResult
                             THEN [u \in Urls |-> "none"] ELSE subs[e]]

-----------------------------------------------------------------------------
\* SubscribeExecWebhook, first half: the caller is authorised and GetExec reads
\* the status the request will act upon.
SubscribeRead(c, e, u) ==
    /\ client[c] = Idle
    /\ deliverer[c] = Idle
    /\ View(e) \in Status
    /\ request[e] = "done"
    /\ client' = [client EXCEPT ![c] = [pc |-> "read", exec |-> e, url |-> u,
                                        seen |-> View(e)]]
    /\ UNCHANGED <<subs, deliverer, posts, stale>>

\* Mutant: the subscription is only stored, however late it comes.
SubscribeInsertOnly(c) ==
    /\ client[c] # Idle
    /\ LET e == client[c].exec
           u == client[c].url
       IN  /\ execRows[e] # NoResult
           /\ subs' = IF subs[e][u] = "none"
                      THEN [subs EXCEPT ![e][u] = "pending"] ELSE subs
    /\ client' = [client EXCEPT ![c] = Idle]
    /\ UNCHANGED <<deliverer, posts, stale>>

\* Second half: INSERT OR IGNORE, which needs the exec row, then an immediate
\* delivery if the status read before the insert was terminal.
SubscribeInsert(c) ==
    /\ client[c] # Idle
    /\ LET e == client[c].exec
           u == client[c].url
       IN  /\ execRows[e] # NoResult
           /\ subs' = IF subs[e][u] = "none"
                      THEN [subs EXCEPT ![e][u] = "pending"] ELSE subs
           /\ stale' = IF /\ subs[e][u] = "none"
                          /\ ~IsTerminal(client[c].seen)
                          /\ IsTerminal(View(e))
                       THEN stale \cup {<<e, u>>} ELSE stale
           /\ IF IsTerminal(client[c].seen)
              THEN StartDelivery(c, e, client[c].seen)
              ELSE UNCHANGED deliverer
    /\ client' = [client EXCEPT ![c] = Idle]
    /\ UNCHANGED posts

\* The insert fails: the exec row is gone, or the client has hung up.
SubscribeFails(c) ==
    /\ client[c] # Idle
    /\ client' = [client EXCEPT ![c] = Idle]
    /\ UNCHANGED <<subs, deliverer, posts, stale>>

\* Mutant: the whole list is marked delivered before the first POST.
DeliverListMarking(d) ==
    /\ deliverer[d].pc = "list"
    /\ LET e == deliverer[d].exec
           pending == {u \in Urls : subs[e][u] = "pending"}
       IN  /\ subs' = [subs EXCEPT ![e] = [u \in Urls |->
                          IF u \in pending THEN "delivered" ELSE subs[e][u]]]
           /\ deliverer' = [deliverer EXCEPT ![d] =
                               IF pending = {} THEN Idle
                               ELSE [pc |-> "send", exec |-> e, todo |-> pending,
                                     status |-> deliverer[d].status]]
    /\ UNCHANGED <<client, posts, stale>>

\* ListPendingExecWebhookSubscriptions.  The order of the list is left open.
DeliverList(d) ==
    /\ deliverer[d].pc = "list"
    /\ LET e == deliverer[d].exec
           pending == {u \in Urls : subs[e][u] = "pending"}
       IN  deliverer' = [deliverer EXCEPT ![d] =
                            IF pending = {} THEN Idle
                            ELSE [pc |-> "send", exec |-> e, todo |-> pending,
                                  status |-> deliverer[d].status]]
    /\ UNCHANGED <<subs, client, posts, stale>>

\* sendExecWebhook: one POST, whose answer decides only the recorded text.
DeliverSend(d, u) ==
    /\ deliverer[d].pc = "send"
    /\ u \in deliverer[d].todo
    /\ LET e == deliverer[d].exec
       IN  /\ posts' = [posts EXCEPT ![e][u] = @ \cup {deliverer[d].status}]
           /\ deliverer' = [deliverer EXCEPT ![d] =
                               [pc |-> "mark", exec |-> e, url |-> u,
                                status |-> deliverer[d].status,
                                todo |-> deliverer[d].todo]]
    /\ UNCHANGED <<subs, client, stale>>

\* Mutant: the goroutine stops after the first item.
DeliverMarkFirstOnly(d) ==
    /\ deliverer[d].pc = "mark"
    /\ LET e == deliverer[d].exec
           u == deliverer[d].url
       IN  subs' = IF subs[e][u] = "none" THEN subs
                   ELSE [subs EXCEPT ![e][u] = "delivered"]
    /\ deliverer' = [deliverer EXCEPT ![d] = Idle]
    /\ UNCHANGED <<client, posts, stale>>

\* MarkExecWebhookSubscriptionDelivered, whatever the outcome of the POST; then
\* the next item of the list, if any.
DeliverMark(d) ==
    /\ deliverer[d].pc = "mark"
    /\ LET e == deliverer[d].exec
           u == deliverer[d].url
           rest == deliverer[d].todo \ {u}
       IN  /\ subs' = IF subs[e][u] = "none" THEN subs
                      ELSE [subs EXCEPT ![e][u] = "delivered"]
           /\ deliverer' = [deliverer EXCEPT ![d] =
                               IF rest = {} THEN Idle
                               ELSE [pc |-> "send", exec |-> e, todo |-> rest,
                                     status |-> deliverer[d].status]]
    /\ UNCHANGED <<client, posts, stale>>

-----------------------------------------------------------------------------
\* The last thing runExecTask does is to start the delivery of its result.
FinishAndNotify(e) ==
    /\ RunnerFinish(e)
    /\ StartDelivery(e, e, execMap'[e].status)
    /\ UNCHANGED <<subs, client, posts, stale>>

\* Rows go, and their subscriptions with them; goroutines keep what they hold.
RowsDeleted ==
    /\ \/ \E s \in Sandboxes : DeleteSandbox(s)
       \/ \E S \in SUBSET Execs : CleanupExecHistory(S)
    /\ CascadeToSubscriptions
    /\ UNCHANGED <<client, deliverer, posts, stale>>

\* Requests and goroutines die with the process.  Startup does not look at the
\* subscriptions.
WRestart ==
    /\ Restart
    /\ client' = [c \in Clients |-> Idle]
    /\ deliverer' = [d \in Deliverers |-> Idle]
    /\ UNCHANGED <<subs, posts, stale>>

Subscribe(c) ==
    /\ \/ \E e \in Execs, u \in Urls : SubscribeRead(c, e, u)
       \/ SubscribeInsert(c)
       \/ SubscribeFails(c)
    /\ UNCHANGED vars

Deliver(d) ==
    /\ \/ DeliverList(d)
       \/ \E u \in Urls : DeliverSend(d, u)
       \/ DeliverMark(d)
    /\ UNCHANGED vars

WNext ==
    \/ /\ \/ \E e \in Execs : Request(e)
          \/ \E e \in Execs, out \in Outcomes \ {"none"} : RunnerReturn(e, out)
       /\ UNCHANGED webhookVars
    \/ \E e \in Execs : FinishAndNotify(e)
    \/ RowsDeleted
    \/ WRestart
    \/ \E c \in Clients : Subscribe(c)
    \/ \E d \in Deliverers : Deliver(d)

WSpec == WInit /\ [][WNext]_allVars

\* Goroutines are scheduled, and http.Client bounds each POST by eight seconds.
WFairness ==
    /\ \A e \in Execs : WF_allVars(FinishAndNotify(e))
    /\ \A d \in Deliverers : WF_allVars(Deliver(d))

WFairSpec == WSpec /\ WFairness

-----------------------------------------------------------------------------
(***************************************************************************)
(* Properties.                                                             *)
(***************************************************************************)

\* A delivery goroutine is going to POST to the URL, or to list what is pending.
Owed(e, u) ==
    \E d \in Deliverers :
        /\ deliverer[d] # Idle
        /\ deliverer[d].exec = e
        /\ deliverer[d].pc = "list" \/ u \in deliverer[d].todo

\* Unless the server restarted or the subscription was made on an outdated
\* status, every pending subscription of a finished task is owed to a goroutine:
\* whichever way runExecTask, other subscribers and the deletions interleave,
\* the stale reading is the only way to lose a callback.
PendingIsOwed ==
    \A e \in Execs, u \in Urls :
        (/\ IsTerminal(View(e))
         /\ subs[e][u] = "pending"
         /\ <<e, u>> \notin stale
         /\ crashes = 0)
            => Owed(e, u)

\* "Server sends callback when the task reaches terminal state": once the task
\* is terminal, somebody is going to serve each pending subscription.
CallbackIsSent ==
    \A e \in Execs, u \in Urls :
        IsTerminal(View(e)) /\ subs[e][u] = "pending" => Owed(e, u)

\* A callback reports the final status: what was POSTed is terminal, and is what
\* the task's map entry and row say for as long as they exist.
PostsAreFinal ==
    \A e \in Execs, u \in Urls : \A status \in posts[e][u] :
        /\ IsTerminal(status)
        /\ execMap[e] # NoResult => execMap[e].status = status
        /\ execRows[e] # NoResult => execRows[e].status = status

\* The subscription of a task and URL, for a caller: a task without a row can have
\* no subscription any more.
SubscriptionSeen(e, u) ==
    IF request[e] = "done" /\ execRows[e] = NoResult THEN "gone" ELSE subs[e][u]

Subscriptions == [e \in Execs |-> [u \in Urls |-> SubscriptionSeen(e, u)]]

\* The service implements the promise: whatever finishes, subscribes, delivers,
\* deletes or restarts at the same time, all the callbacks of a task report one
\* and the same status, which is the one GetExec answers with; they go to
\* subscribers only; and a subscription is marked as delivered after its POST, so
\* a process that dies in between never leaves one marked and not sent.
Callbacks == INSTANCE CallbackPromise
                 WITH view <- Answers, subscription <- Subscriptions, posted <- posts
ImplementsCallbacks == Callbacks!CallbackSpec

\* A subscription in place when the command returns is served, by the goroutine
\* runExecTask starts, unless its row is deleted or the process restarts.
TimelyCallbackHappens ==
    \A e \in Execs, u \in Urls :
        subs[e][u] = "pending" /\ runner[e] = "returned" ~>
            subs[e][u] # "pending" \/ runner[e] = "off"
=============================================================================
