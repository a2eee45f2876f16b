-------------------------- MODULE ExecWebhooks_proofs --------------------------
(***************************************************************************)
(* Proofs about ExecWebhooks for every set of tasks, clients and URLs and  *)
(* every number of restarts.  The invariant of ExecTasks is inherited: a   *)
(* step of the composition is a step of the tasks, or leaves them alone.   *)
(***************************************************************************)
EXTENDS ExecWebhooks, ExecTasks_proofs

\* A status is the final one of a task: whatever is still stored says so, and
\* no request or goroutine is left that could store another.
Settled(e, status) ==
    /\ IsTerminal(status)
    /\ request[e] = "done"
    /\ execMap[e] # NoResult => execMap[e].status = status
    /\ execRows[e] # NoResult => execRows[e].status = status

\* What has been POSTed was final.
PostsInv == \A e \in Execs, u \in Urls : \A status \in posts[e][u] :
                Settled(e, status)

\* A delivery goroutine carries a final status, and marks what it has POSTed.
\* The goroutine started by runExecTask serves its own task.
DelivererInv(d) ==
    deliverer[d] # Idle =>
        /\ Settled(deliverer[d].exec, deliverer[d].status)
        /\ deliverer[d].pc = "mark" =>
               posts[deliverer[d].exec][deliverer[d].url] # {}
        /\ d \in Execs => deliverer[d].exec = d /\ runner[d] = "done"

\* A subscribe request starts one delivery at most, with the status it has seen.
ClientInv(c) ==
    client[c] # Idle =>
        /\ deliverer[c] = Idle
        /\ IsTerminal(client[c].seen) => Settled(client[c].exec, client[c].seen)

\* A subscription is recorded as delivered only after a POST.
DeliveredWasPosted ==
    \A e \in Execs, u \in Urls :
        subs[e][u] = "delivered" => posts[e][u] # {}

\* The inductive invariant, on top of that of the tasks.
WInv ==
    /\ WebhookTypeOK
    /\ PostsInv
    /\ \A d \in Deliverers : DelivererInv(d)
    /\ \A c \in Clients : ClientInv(c)
    /\ DeliveredWasPosted
    /\ PendingIsOwed

-----------------------------------------------------------------------------
\* Every step of the composition is a step of the tasks or leaves them alone.
LEMMA WNextIsNext == WNext => [Next]_vars
  BY DEF WNext, Next, FinishAndNotify, RowsDeleted, WRestart, Subscribe, Deliver,
         vars

LEMMA TasksInvariance == WSpec => []IInv
<1>1. WInit => IInv
  BY InitIInv DEF WInit
<1>2. IInv /\ [WNext]_allVars => IInv'
  BY NextIInv, WNextIsNext DEF allVars, vars
<1>3. QED
  BY <1>1, <1>2, PTL DEF WSpec

\* A final status stays final: neither a late cancellation nor a deletion nor a
\* restart makes the stored records say anything else.
LEMMA SettledStable ==
    ASSUME IInv, [Next]_vars, NEW e \in Execs, NEW status, Settled(e, status)
    PROVE  Settled(e, status)'
<1> USE DEF IInv, TypeOK, TaskInv, RequestStage, RunnerStage, TaskSafe, Settled,
            IsTerminal, Terminal, Live, NoResult
<1>1. ASSUME NEW f \in Execs, Request(f) PROVE Settled(e, status)'
  <2>1. CASE ExecuteCheck(f) \/ ExecuteRegister(f) \/ ExecutePersist(f)
             \/ ExecutePersistFails(f)
    BY <2>1 DEF ExecuteCheck, ExecuteRegister, ExecutePersist,
                ExecutePersistFails
  <2>2. CASE CancelCheck(f)
    BY <2>2 DEF CancelCheck
  <2>3. CASE CancelApply(f)
    <3>1. CASE execMap[f].status = "running"
      <4>1. f # e
        BY <3>1
      <4>2. UNCHANGED <<execMap[e], execRows[e], request[e]>>
        BY <2>3, <4>1 DEF CancelApply, UpdateExecTask
      <4>3. QED
        BY <4>2
    <3>2. CASE execMap[f].status # "running"
      BY <2>3, <3>2 DEF CancelApply
    <3>3. QED
      BY <3>1, <3>2
  <2>4. QED
    BY <1>1, <2>1, <2>2, <2>3 DEF Request
<1>2. ASSUME NEW f \in Execs, Wait(f) PROVE Settled(e, status)'
  BY <1>2 DEF Wait, WaitStart, WaitCheck, WaitRead, WaitTimeout
<1>3. ASSUME NEW f \in Execs, NEW out, RunnerReturn(f, out)
      PROVE  Settled(e, status)'
  BY <1>3 DEF RunnerReturn
<1>4. ASSUME NEW f \in Execs, RunnerFinish(f) PROVE Settled(e, status)'
  <2>1. f # e
    BY <1>4 DEF RunnerFinish
  <2>2. UNCHANGED <<execMap[e], execRows[e], request[e]>>
    BY <1>4, <2>1 DEF RunnerFinish, UpdateExecTask
  <2>3. QED
    BY <2>2
<1>5. ASSUME NEW s \in Sandboxes, DeleteSandbox(s) PROVE Settled(e, status)'
  BY <1>5 DEF DeleteSandbox
<1>6. ASSUME NEW S \in SUBSET Execs, CleanupExecHistory(S)
      PROVE  Settled(e, status)'
  BY <1>6 DEF CleanupExecHistory
<1>7. CASE Restart
  BY <1>7 DEF Restart
<1>8. CASE UNCHANGED vars
  BY <1>8 DEF vars
<1>9. QED
  BY <1>1, <1>2, <1>3, <1>4, <1>5, <1>6, <1>7, <1>8 DEF Next

\* A terminal status that GetExec answers with is final.
LEMMA TerminalViewSettled ==
    ASSUME IInv, NEW e \in Execs, request[e] = "done", IsTerminal(View(e))
    PROVE  Settled(e, View(e))
<1> USE DEF IInv, TypeOK, TaskInv, TaskSafe, Settled, IsTerminal, Terminal, Live,
            NoResult
<1>1. View(e) = GetExec(e).status
  BY DEF View
<1>2. QED
  BY <1>1 DEF GetExec

\* Only runExecTask makes GetExec answer with a terminal status.
LEMMA OnlyFinishSettles ==
    ASSUME IInv, [Next]_vars, NEW e \in Execs, ~RunnerFinish(e),
           IsTerminal(View(e)')
    PROVE  IsTerminal(View(e))
<1> USE DEF IInv, TypeOK, TaskInv, RequestStage, RunnerStage, TaskSafe, View,
            GetExec, IsTerminal, Terminal, Live, NoResult
<1>1. ASSUME NEW f \in Execs, Request(f) PROVE IsTerminal(View(e))
  <2>1. CASE ExecuteCheck(f) \/ ExecuteRegister(f) \/ ExecutePersist(f)
             \/ ExecutePersistFails(f)
    BY <2>1 DEF ExecuteCheck, ExecuteRegister, ExecutePersist,
                ExecutePersistFails
  <2>2. CASE CancelCheck(f) \/ CancelApply(f)
    BY <2>2 DEF CancelCheck, CancelApply, UpdateExecTask
  <2>3. QED
    BY <1>1, <2>1, <2>2 DEF Request
<1>2. ASSUME NEW f \in Execs, Wait(f) PROVE IsTerminal(View(e))
  BY <1>2 DEF Wait, WaitStart, WaitCheck, WaitRead, WaitTimeout
<1>3. ASSUME NEW f \in Execs, NEW out, RunnerReturn(f, out)
      PROVE  IsTerminal(View(e))
  BY <1>3 DEF RunnerReturn
<1>4. ASSUME NEW f \in Execs, RunnerFinish(f) PROVE IsTerminal(View(e))
  BY <1>4 DEF RunnerFinish, UpdateExecTask
<1>5. ASSUME NEW s \in Sandboxes, DeleteSandbox(s) PROVE IsTerminal(View(e))
  BY <1>5 DEF DeleteSandbox
<1>6. ASSUME NEW S \in SUBSET Execs, CleanupExecHistory(S)
      PROVE  IsTerminal(View(e))
  BY <1>6 DEF CleanupExecHistory
<1>7. CASE Restart
  BY <1>7 DEF Restart
<1>8. CASE UNCHANGED vars
  BY <1>8 DEF vars
<1>9. QED
  BY <1>1, <1>2, <1>3, <1>4, <1>5, <1>6, <1>7, <1>8 DEF Next

-----------------------------------------------------------------------------
LEMMA InitWInv == WInit => WInv
<1> SUFFICES ASSUME WInit PROVE WInv
  OBVIOUS
<1>1. WebhookTypeOK
  BY DEF WInit, WebhookTypeOK, Subscription
<1>2. PostsInv /\ DeliveredWasPosted /\ PendingIsOwed
  BY DEF WInit, PostsInv, DeliveredWasPosted, PendingIsOwed
<1>3. /\ \A d \in Deliverers : DelivererInv(d)
      /\ \A c \in Clients : ClientInv(c)
  BY DEF WInit, DelivererInv, ClientInv
<1>4. QED
  BY <1>1, <1>2, <1>3 DEF WInv

\* A delivery that is started carries a status.
LEMMA NextWebhookTypeOK ==
    ASSUME IInv, WebhookTypeOK, WNext
    PROVE  WebhookTypeOK'
<1> USE DEF WebhookTypeOK, Deliverers
<1>1. ASSUME UNCHANGED webhookVars PROVE WebhookTypeOK'
  BY <1>1 DEF webhookVars
<1>2. ASSUME NEW e \in Execs, FinishAndNotify(e) PROVE WebhookTypeOK'
  <2>1. execMap'[e].status \in Status
    BY <1>2, FinalStatusTerminal
       DEF FinishAndNotify, RunnerFinish, IInv, TypeOK, Status
  <2>2. [pc |-> "list", exec |-> e, status |-> execMap'[e].status] \in Delivery
    BY <2>1 DEF Delivery
  <2>3. QED
    BY <1>2, <2>2 DEF FinishAndNotify, StartDelivery
<1>3. CASE RowsDeleted
  BY <1>3 DEF RowsDeleted, CascadeToSubscriptions, Subscription
<1>4. CASE WRestart
  BY <1>4 DEF WRestart
<1>5. ASSUME NEW c \in Clients, Subscribe(c) PROVE WebhookTypeOK'
  <2>1. ASSUME NEW e \in Execs, NEW u \in Urls, SubscribeRead(c, e, u)
        PROVE  WebhookTypeOK'
    BY <2>1 DEF SubscribeRead, SubscribeRequest
  <2>2. CASE SubscribeInsert(c)
    <3>1. client[c] \in SubscribeRequest
      BY <2>2 DEF SubscribeInsert
    <3>2. /\ client[c].exec \in Execs /\ client[c].url \in Urls
          /\ client[c].seen \in Status
      BY <3>1 DEF SubscribeRequest
    <3>3. [pc |-> "list", exec |-> client[c].exec, status |-> client[c].seen]
              \in Delivery
      BY <3>2 DEF Delivery
    <3>4. deliverer' \in [Deliverers -> Delivery \cup {Idle}]
      BY <2>2, <3>3 DEF SubscribeInsert, StartDelivery
    <3>5. subs' \in [Execs -> [Urls -> Subscription]] /\ stale' \subseteq Execs \X Urls
      BY <2>2, <3>2 DEF SubscribeInsert, Subscription
    <3>6. QED
      BY <2>2, <3>4, <3>5 DEF SubscribeInsert
  <2>3. CASE SubscribeFails(c)
    BY <2>3 DEF SubscribeFails
  <2>4. QED
    BY <1>5, <2>1, <2>2, <2>3 DEF Subscribe
<1>6. ASSUME NEW d \in Deliverers, Deliver(d) PROVE WebhookTypeOK'
  <2>1. CASE DeliverList(d)
    <3>1. deliverer[d].exec \in Execs /\ deliverer[d].status \in Status
      BY <2>1 DEF DeliverList, Delivery, Idle
    <3>2. \A todo \in SUBSET Urls :
             [pc |-> "send", exec |-> deliverer[d].exec, todo |-> todo,
              status |-> deliverer[d].status] \in Delivery
      BY <3>1 DEF Delivery
    <3>3. QED
      BY <2>1, <3>2 DEF DeliverList
  <2>2. ASSUME NEW u \in Urls, DeliverSend(d, u) PROVE WebhookTypeOK'
    <3>1. /\ deliverer[d].exec \in Execs /\ deliverer[d].status \in Status
          /\ deliverer[d].todo \in SUBSET Urls
      BY <2>2 DEF DeliverSend, Delivery, Idle
    <3>2. [pc |-> "mark", exec |-> deliverer[d].exec, url |-> u,
           status |-> deliverer[d].status, todo |-> deliverer[d].todo]
              \in Delivery
      BY <3>1 DEF Delivery
    <3>3. posts' \in [Execs -> [Urls -> SUBSET Status]]
      BY <2>2, <3>1 DEF DeliverSend
    <3>4. QED
      BY <2>2, <3>2, <3>3 DEF DeliverSend
  <2>3. CASE DeliverMark(d)
    <3>1. /\ deliverer[d].exec \in Execs /\ deliverer[d].status \in Status
          /\ deliverer[d].todo \in SUBSET Urls /\ deliverer[d].url \in Urls
      BY <2>3 DEF DeliverMark, Delivery, Idle
    <3>2. \A todo \in SUBSET Urls :
             [pc |-> "send", exec |-> deliverer[d].exec, todo |-> todo,
              status |-> deliverer[d].status] \in Delivery
      BY <3>1 DEF Delivery
    <3>3. deliverer' \in [Deliverers -> Delivery \cup {Idle}]
      BY <2>3, <3>1, <3>2 DEF DeliverMark
    <3>4. subs' \in [Execs -> [Urls -> Subscription]]
      BY <2>3, <3>1 DEF DeliverMark, Subscription
    <3>5. QED
      BY <2>3, <3>3, <3>4 DEF DeliverMark
  <2>4. QED
    BY <1>6, <2>1, <2>2, <2>3 DEF Deliver
<1>7. QED
  BY <1>1, <1>2, <1>3, <1>4, <1>5, <1>6 DEF WNext

\* What a request or a goroutine holds is of the expected types.
LEMMA HeldTypes ==
    ASSUME WebhookTypeOK
    PROVE  /\ \A c \in Clients : client[c] # Idle =>
                 /\ client[c].exec \in Execs
                 /\ client[c].url \in Urls
                 /\ client[c].seen \in Status
           /\ \A d \in Deliverers : deliverer[d] # Idle =>
                 /\ deliverer[d].pc \in {"list", "send", "mark"}
                 /\ deliverer[d].exec \in Execs
                 /\ deliverer[d].status \in Status
                 /\ deliverer[d].pc # "list" =>
                        deliverer[d].todo \in SUBSET Urls
                 /\ deliverer[d].pc = "mark" => deliverer[d].url \in Urls
  BY DEF WebhookTypeOK, SubscribeRequest, Delivery, Idle

\* Nothing POSTed is forgotten.
LEMMA PostsGrow ==
    ASSUME WebhookTypeOK, WNext, NEW e \in Execs, NEW u \in Urls
    PROVE  posts[e][u] \subseteq posts'[e][u]
<1> USE DEF WebhookTypeOK
<1>1. CASE UNCHANGED posts
  BY <1>1
<1>2. ASSUME NEW d \in Deliverers, NEW v \in Urls, DeliverSend(d, v)
      PROVE  posts[e][u] \subseteq posts'[e][u]
  <2>1. deliverer[d].exec \in Execs
    BY <1>2, HeldTypes DEF DeliverSend, Idle
  <2>2. QED
    BY <1>2, <2>1 DEF DeliverSend
<1>3. QED
  BY <1>1, <1>2
     DEF WNext, webhookVars, FinishAndNotify, RowsDeleted, WRestart, Subscribe,
         SubscribeRead, SubscribeInsert, SubscribeFails, Deliver, DeliverList,
         DeliverMark

\* A result stays recorded until the process dies.
LEMMA DoneStaysDone ==
    ASSUME IInv, [Next]_vars, ~Restart, NEW e \in Execs, runner[e] = "done"
    PROVE  runner'[e] = "done"
<1> USE DEF IInv, TypeOK
<1>1. ASSUME NEW f \in Execs, Request(f) \/ Wait(f) PROVE runner'[e] = "done"
  BY <1>1 DEF Request, ExecuteCheck, ExecuteRegister, ExecutePersist,
              ExecutePersistFails, CancelCheck, CancelApply, Wait, WaitStart,
              WaitCheck, WaitRead, WaitTimeout, TaskInv, RequestStage
<1>2. ASSUME NEW f \in Execs, NEW out, RunnerReturn(f, out) \/ RunnerFinish(f)
      PROVE  runner'[e] = "done"
  BY <1>2 DEF RunnerReturn, RunnerFinish
<1>3. QED
  BY <1>1, <1>2 DEF Next, DeleteSandbox, CleanupExecHistory, vars

\* Every status that is held or was POSTed is, and stays, a final one.
LEMMA NextSettledInv ==
    ASSUME IInv, WInv, WNext
    PROVE  /\ PostsInv'
           /\ \A d \in Deliverers : DelivererInv(d)'
           /\ \A c \in Clients : ClientInv(c)'
<1> USE DEF WInv
<1>0. [Next]_vars
  BY WNextIsNext
<1>1. \A e \in Execs : \A status : Settled(e, status) => Settled(e, status)'
  BY <1>0, SettledStable
<1>2. UNCHANGED posts => PostsInv'
  BY <1>1 DEF PostsInv
<1>3. ASSUME NEW d \in Deliverers, ~WRestart, deliverer'[d] = deliverer[d]
      PROVE  DelivererInv(d)'
  <2>1. SUFFICES ASSUME deliverer[d] # Idle PROVE DelivererInv(d)'
    BY <1>3 DEF DelivererInv, Idle
  <2>2. /\ deliverer[d].exec \in Execs
        /\ deliverer[d].pc = "mark" => deliverer[d].url \in Urls
    BY <2>1, HeldTypes
  <2>3. Settled(deliverer[d].exec, deliverer[d].status)'
    BY <1>1, <1>3, <2>1, <2>2 DEF DelivererInv
  <2>4. deliverer[d].pc = "mark" =>
           posts'[deliverer[d].exec][deliverer[d].url] # {}
    BY <2>1, <2>2, PostsGrow DEF DelivererInv
  <2>5. ~Restart
    <3>1. UNCHANGED crashes
      BY <1>3
         DEF WNext, Request, ExecuteCheck, ExecuteRegister, ExecutePersist,
             ExecutePersistFails, CancelCheck, CancelApply, RunnerReturn,
             FinishAndNotify, RunnerFinish, RowsDeleted, DeleteSandbox,
             CleanupExecHistory, Subscribe, Deliver, vars
    <3>2. QED
      BY <3>1, ExecTasksAssumption DEF Restart, IInv, TypeOK
  <2>6. d \in Execs => deliverer[d].exec = d /\ runner'[d] = "done"
    BY <1>0, <2>1, <2>5, DoneStaysDone DEF DelivererInv
  <2>7. QED
    BY <1>3, <2>3, <2>4, <2>6 DEF DelivererInv
<1>4. ASSUME NEW c \in Clients, client'[c] = client[c],
             deliverer'[c] = deliverer[c]
      PROVE  ClientInv(c)'
  BY <1>1, <1>4, HeldTypes DEF ClientInv, Idle
<1>5. ASSUME UNCHANGED <<client, deliverer, posts>>, ~WRestart
      PROVE  /\ PostsInv'
             /\ \A d \in Deliverers : DelivererInv(d)'
             /\ \A c \in Clients : ClientInv(c)'
  BY <1>2, <1>3, <1>4, <1>5
<1> DEFINE Goal == /\ PostsInv'
                   /\ \A d \in Deliverers : DelivererInv(d)'
                   /\ \A c \in Clients : ClientInv(c)'
<1>6. ASSUME NEW e \in Execs, FinishAndNotify(e), ~WRestart PROVE Goal
  <2>1. e \in Deliverers
    BY DEF Deliverers
  <2>2. ASSUME NEW status, status = execMap'[e].status PROVE Settled(e, status)'
    <3> DEFINE result == [status    |-> FinalStatus(outcome[e],
                                            execMap[e].status = "cancelling"),
                          completed |-> TRUE]
    <3>1. /\ execMap' = [execMap EXCEPT ![e] = result]
          /\ execRows'[e] \in {NoResult, result}
          /\ UNCHANGED request
      BY <1>6 DEF FinishAndNotify, RunnerFinish, UpdateExecTask, IInv, TypeOK
    <3>2. execMap'[e] = result
      BY <3>1 DEF IInv, TypeOK
    <3>3. result.status \in Terminal
      BY FinalStatusTerminal
    <3>4. request[e] = "done"
      BY <1>6 DEF FinishAndNotify, RunnerFinish, IInv, TypeOK, TaskInv,
                  RequestStage
    <3> HIDE DEF result
    <3>5. QED
      BY <2>2, <3>1, <3>2, <3>3, <3>4 DEF Settled, IsTerminal
  <2>3. DelivererInv(e)'
    <3>1. deliverer'[e] = [pc |-> "list", exec |-> e,
                           status |-> execMap'[e].status]
      BY <1>6, <2>1 DEF FinishAndNotify, StartDelivery, WebhookTypeOK
    <3>2. runner'[e] = "done"
      BY <1>6 DEF FinishAndNotify, RunnerFinish, IInv, TypeOK
    <3>3. QED
      BY <2>2, <3>1, <3>2 DEF DelivererInv
  <2>4. \A d \in Deliverers \ {e} : DelivererInv(d)'
    BY <1>3, <1>6 DEF FinishAndNotify, StartDelivery, WebhookTypeOK
  <2>5. \A c \in Clients : client'[c] = client[c] /\ deliverer'[c] = deliverer[c]
    BY <1>6, ExecWebhooksAssumption
       DEF FinishAndNotify, StartDelivery, WebhookTypeOK, Deliverers
  <2>6. QED
    BY <1>2, <1>4, <1>6, <2>3, <2>4, <2>5 DEF FinishAndNotify
<1>7. CASE WRestart
  BY <1>2, <1>7 DEF WRestart, DelivererInv, ClientInv
<1>8. ASSUME NEW c \in Clients, Subscribe(c), ~WRestart PROVE Goal
  <2>1. c \in Deliverers /\ c \notin Execs
    BY ExecWebhooksAssumption DEF Deliverers
  <2>2. ASSUME NEW e \in Execs, NEW u \in Urls, SubscribeRead(c, e, u)
        PROVE  Goal
    <3>1. client'[c] = [pc |-> "read", exec |-> e, url |-> u, seen |-> View(e)]
          /\ deliverer'[c] = Idle
      BY <2>2 DEF SubscribeRead, WebhookTypeOK
    <3>2. \A status : status = View(e) /\ IsTerminal(status)
                         => Settled(e, status)'
      BY <1>1, <2>2, TerminalViewSettled DEF SubscribeRead
    <3>3. ClientInv(c)'
      BY <3>1, <3>2 DEF ClientInv
    <3>4. \A b \in Clients \ {c} : ClientInv(b)'
      BY <1>4, <2>2 DEF SubscribeRead, WebhookTypeOK
    <3>5. QED
      BY <1>2, <1>3, <1>8, <2>2, <3>3, <3>4 DEF SubscribeRead
  <2>3. CASE SubscribeInsert(c)
    <3>1. \A b \in Clients \ {c} : client'[b] = client[b]
                                   /\ deliverer'[b] = deliverer[b]
      BY <2>3 DEF SubscribeInsert, StartDelivery, WebhookTypeOK, Deliverers
    <3>2. \A d \in Deliverers \ {c} : deliverer'[d] = deliverer[d]
      BY <2>3 DEF SubscribeInsert, StartDelivery, WebhookTypeOK
    <3>3. client'[c] = Idle
      BY <2>3 DEF SubscribeInsert, WebhookTypeOK
    <3>4. DelivererInv(c)'
      <4>1. CASE IsTerminal(client[c].seen)
        <5>1. deliverer'[c] = [pc |-> "list", exec |-> client[c].exec,
                               status |-> client[c].seen]
          BY <2>1, <2>3, <4>1
             DEF SubscribeInsert, StartDelivery, WebhookTypeOK
        <5>2. client[c].exec \in Execs
          BY <2>3, HeldTypes DEF SubscribeInsert
        <5>3. \A e, status : e = client[c].exec /\ status = client[c].seen
                                => Settled(e, status)'
          BY <1>1, <2>3, <4>1, <5>2 DEF SubscribeInsert, ClientInv
        <5>4. QED
          BY <2>1, <5>1, <5>3 DEF DelivererInv
      <4>2. CASE ~IsTerminal(client[c].seen)
        BY <1>3, <1>8, <2>1, <2>3, <4>2 DEF SubscribeInsert
      <4>3. QED
        BY <4>1, <4>2
    <3>5. QED
      BY <1>2, <1>3, <1>4, <1>8, <2>3, <3>1, <3>2, <3>3, <3>4
         DEF SubscribeInsert, ClientInv
  <2>4. CASE SubscribeFails(c)
    <3>1. client'[c] = Idle
      BY <2>4 DEF SubscribeFails, WebhookTypeOK
    <3>2. QED
      BY <1>2, <1>3, <1>4, <1>8, <2>4, <3>1
         DEF SubscribeFails, ClientInv, WebhookTypeOK
  <2>5. QED
    BY <1>8, <2>2, <2>3, <2>4 DEF Subscribe
<1>9. ASSUME NEW d \in Deliverers, Deliver(d), ~WRestart PROVE Goal
  <2>1. \A b \in Deliverers \ {d} : deliverer'[b] = deliverer[b]
    BY <1>9 DEF Deliver, DeliverList, DeliverSend, DeliverMark, WebhookTypeOK
  <2>2. deliverer[d] # Idle /\ UNCHANGED client /\ UNCHANGED vars
    <3>1. deliverer[d].pc \in {"list", "send", "mark"} /\ UNCHANGED client
      BY <1>9 DEF Deliver, DeliverList, DeliverSend, DeliverMark
    <3>2. QED
      BY <1>9, <3>1 DEF Deliver, Idle
  <2>3. \A c \in Clients : ClientInv(c)'
    BY <1>4, <2>1, <2>2 DEF ClientInv, Deliverers
  <2>4. \A e, status : e = deliverer[d].exec /\ status = deliverer[d].status
                          => Settled(e, status)'
    BY <1>1, <2>2, HeldTypes DEF DelivererInv
  <2>5. d \in Execs => deliverer[d].exec = d /\ runner'[d] = "done"
    BY <2>2 DEF DelivererInv, vars
  <2>6. CASE DeliverList(d)
    <3>1. \/ deliverer'[d] = Idle
          \/ /\ deliverer'[d].pc = "send"
             /\ deliverer'[d].exec = deliverer[d].exec
             /\ deliverer'[d].status = deliverer[d].status
      BY <2>6 DEF DeliverList, WebhookTypeOK
    <3>2. DelivererInv(d)'
      BY <2>4, <2>5, <3>1 DEF DelivererInv
    <3>3. QED
      BY <1>2, <1>3, <1>9, <2>1, <2>3, <2>6, <3>2 DEF DeliverList
  <2>7. ASSUME NEW u \in Urls, DeliverSend(d, u) PROVE Goal
    <3>1. /\ deliverer'[d].pc = "mark"
          /\ deliverer'[d].exec = deliverer[d].exec
          /\ deliverer'[d].status = deliverer[d].status
          /\ deliverer'[d].url = u
      BY <2>7 DEF DeliverSend, WebhookTypeOK
    <3>2. \A e \in Execs, v \in Urls :
             posts'[e][v] = IF e = deliverer[d].exec /\ v = u
                            THEN posts[e][v] \cup {deliverer[d].status}
                            ELSE posts[e][v]
      BY <2>7 DEF DeliverSend, WebhookTypeOK
    <3>3. PostsInv'
      <4>1. SUFFICES ASSUME NEW e \in Execs, NEW v \in Urls,
                            NEW status \in posts'[e][v]
                     PROVE  Settled(e, status)'
        BY DEF PostsInv
      <4>2. CASE status \in posts[e][v]
        BY <1>1, <4>2 DEF PostsInv
      <4>3. CASE status \notin posts[e][v]
        BY <2>4, <3>2, <4>3, ZenonT(30)
      <4>4. QED
        BY <4>2, <4>3
    <3>4. DelivererInv(d)'
      BY <2>2, <2>4, <2>5, <3>1, <3>2, HeldTypes DEF DelivererInv
    <3>5. QED
      BY <1>3, <1>9, <2>1, <2>3, <3>3, <3>4
  <2>8. CASE DeliverMark(d)
    <3>1. \/ deliverer'[d] = Idle
          \/ /\ deliverer'[d].pc = "send"
             /\ deliverer'[d].exec = deliverer[d].exec
             /\ deliverer'[d].status = deliverer[d].status
      BY <2>8 DEF DeliverMark, WebhookTypeOK
    <3>2. DelivererInv(d)'
      BY <2>4, <2>5, <3>1 DEF DelivererInv
    <3>3. QED
      BY <1>2, <1>3, <1>9, <2>1, <2>3, <2>8, <3>2 DEF DeliverMark
  <2>9. QED
    BY <1>9, <2>6, <2>7, <2>8 DEF Deliver
<1>10. ASSUME UNCHANGED webhookVars \/ RowsDeleted
       PROVE  UNCHANGED <<client, deliverer, posts>>
  BY <1>10 DEF webhookVars, RowsDeleted
<1>11. QED
  BY <1>5, <1>6, <1>7, <1>8, <1>9, <1>10 DEF WNext

\* What is marked has been POSTed.
LEMMA NextDelivered ==
    ASSUME WInv, WNext
    PROVE  DeliveredWasPosted'
<1> SUFFICES ASSUME NEW e \in Execs, NEW u \in Urls, subs'[e][u] = "delivered"
             PROVE  posts'[e][u] # {}
  BY DEF DeliveredWasPosted
<1> USE DEF WInv, WebhookTypeOK
<1>1. CASE subs[e][u] = "delivered"
  BY <1>1, PostsGrow DEF DeliveredWasPosted
<1>2. CASE subs[e][u] # "delivered"
  <2>1. PICK d \in Deliverers : DeliverMark(d)
    <3>1. ~UNCHANGED subs
      BY <1>2
    <3>2. ~RowsDeleted
      BY <1>2 DEF RowsDeleted, CascadeToSubscriptions
    <3>3. \A c \in Clients : ~SubscribeInsert(c)
      BY <1>2 DEF SubscribeInsert
    <3>4. QED
      BY <3>1, <3>2, <3>3
         DEF WNext, webhookVars, FinishAndNotify, WRestart, Subscribe,
             SubscribeRead, SubscribeFails, Deliver, DeliverList, DeliverSend
  <2>2. deliverer[d] # Idle
    BY <2>1 DEF DeliverMark, Idle
  <2>3. e = deliverer[d].exec /\ u = deliverer[d].url
    BY <1>2, <2>1, <2>2, HeldTypes DEF DeliverMark
  <2>4. QED
    BY <2>1, <2>2, <2>3, PostsGrow DEF DelivererInv, DeliverMark
<1>3. QED
  BY <1>1, <1>2

\* No interleaving loses a callback that is owed.
LEMMA NextOwed ==
    ASSUME IInv, WInv, WNext
    PROVE  PendingIsOwed'
<1> SUFFICES ASSUME NEW e \in Execs, NEW u \in Urls, IsTerminal(View(e)'),
                    subs'[e][u] = "pending", <<e, u>> \notin stale', crashes' = 0
             PROVE  Owed(e, u)'
  BY DEF PendingIsOwed
<1> USE DEF WInv, WebhookTypeOK
<1>0. [Next]_vars
  BY WNextIsNext
<1>1. ASSUME ~RunnerFinish(e), subs[e][u] = "pending", UNCHANGED stale,
             crashes = 0
      PROVE  Owed(e, u)
  BY <1>0, <1>1, OnlyFinishSettles DEF PendingIsOwed
<1>2. ASSUME NEW d \in Deliverers, deliverer[d] # Idle, deliverer[d].exec = e,
             deliverer[d].pc = "list" \/ u \in deliverer[d].todo,
             deliverer'[d] = deliverer[d]
      PROVE  Owed(e, u)'
  BY <1>2 DEF Owed, Idle
<1>3. ASSUME runner'[e] = runner[e] \/ runner[e] # "returned"
                \/ runner'[e] # "done"
      PROVE  ~RunnerFinish(e)
  BY <1>3 DEF RunnerFinish, IInv, TypeOK
<1>4. ASSUME NEW f \in Execs,
             Request(f) \/ \E out \in Outcomes : RunnerReturn(f, out),
             UNCHANGED webhookVars
      PROVE  Owed(e, u)'
  <2>1. runner'[e] = runner[e] \/ runner'[e] # "done"
    BY <1>4 DEF Request, ExecuteCheck, ExecuteRegister, ExecutePersist,
                ExecutePersistFails, CancelCheck, CancelApply, RunnerReturn,
                IInv, TypeOK
  <2>2. UNCHANGED crashes
    BY <1>4 DEF Request, ExecuteCheck, ExecuteRegister, ExecutePersist,
                ExecutePersistFails, CancelCheck, CancelApply, RunnerReturn
  <2>3. Owed(e, u)
    BY <1>1, <1>3, <1>4, <2>1, <2>2 DEF webhookVars
  <2>4. QED
    BY <1>4, <2>3 DEF webhookVars, Owed
<1>5. ASSUME NEW f \in Execs, FinishAndNotify(f) PROVE Owed(e, u)'
  <2>1. \A d \in Deliverers :
           deliverer'[d] = IF d = f
                           THEN [pc |-> "list", exec |-> f,
                                 status |-> execMap'[f].status]
                           ELSE deliverer[d]
    BY <1>5 DEF FinishAndNotify, StartDelivery
  <2>2. f \in Deliverers
    BY DEF Deliverers
  <2>3. CASE f = e
    <3>1. deliverer'[e] = [pc |-> "list", exec |-> e,
                           status |-> execMap'[e].status]
      BY <2>1, <2>2, <2>3
    <3>2. /\ deliverer'[e].pc = "list"
          /\ deliverer'[e].exec = e
          /\ deliverer'[e] # Idle
      BY <3>1 DEF Idle
    <3>3. QED
      BY <2>2, <2>3, <3>2 DEF Owed
  <2>4. CASE f # e
    <3>1. runner'[e] = runner[e] /\ UNCHANGED <<subs, stale, crashes>>
      BY <1>5, <2>4 DEF FinishAndNotify, RunnerFinish, IInv, TypeOK
    <3>2. PICK d \in Deliverers :
             /\ deliverer[d] # Idle /\ deliverer[d].exec = e
             /\ deliverer[d].pc = "list" \/ u \in deliverer[d].todo
      BY <1>1, <1>3, <3>1 DEF Owed
    <3>3. d # f
      BY <2>4, <3>2 DEF DelivererInv
    <3>4. QED
      BY <1>2, <2>1, <3>2, <3>3
  <2>5. QED
    BY <2>3, <2>4
<1>6. CASE RowsDeleted
  <2>1. runner'[e] = runner[e] /\ UNCHANGED <<deliverer, stale, crashes>>
    BY <1>6 DEF RowsDeleted, DeleteSandbox, CleanupExecHistory
  <2>2. subs[e][u] = "pending"
    BY <1>6 DEF RowsDeleted, CascadeToSubscriptions
  <2>3. Owed(e, u)
    BY <1>1, <1>3, <2>1, <2>2
  <2>4. QED
    BY <2>1, <2>3 DEF Owed
<1>7. CASE WRestart
  BY <1>7, ExecTasksAssumption DEF WRestart, Restart, IInv, TypeOK
<1>8. ASSUME NEW c \in Clients, Subscribe(c) PROVE Owed(e, u)'
  <2>1. runner'[e] = runner[e] /\ crashes = 0 /\ View(e)' = View(e)
    BY <1>8 DEF Subscribe, vars, View, GetExec
  <2>2. CASE UNCHANGED <<subs, deliverer, stale>>
    <3>1. Owed(e, u)
      BY <1>1, <1>3, <2>1, <2>2
    <3>2. QED
      BY <2>2, <3>1 DEF Owed
  <2>3. CASE SubscribeInsert(c)
    <3>1. /\ deliverer[c] = Idle
          /\ client[c].exec \in Execs /\ client[c].url \in Urls
      BY <2>3, HeldTypes DEF SubscribeInsert, ClientInv
    <3>2. \A d \in Deliverers \ {c} : deliverer'[d] = deliverer[d]
      BY <2>3 DEF SubscribeInsert, StartDelivery
    <3>3. CASE subs[e][u] = "pending"
      <4>1. <<e, u>> \notin stale
        BY <2>3 DEF SubscribeInsert
      <4>2. Owed(e, u)
        BY <2>1, <3>3, <4>1 DEF PendingIsOwed
      <4>3. QED
        BY <1>2, <3>1, <3>2, <4>2 DEF Owed
    <3>4. CASE subs[e][u] # "pending"
      <4>1. /\ e = client[c].exec /\ u = client[c].url
            /\ subs[e][u] = "none"
        BY <2>3, <3>1, <3>4 DEF SubscribeInsert
      <4>2. IsTerminal(client[c].seen)
        BY <2>1, <2>3, <4>1 DEF SubscribeInsert
      <4>3. c \in Deliverers
        BY DEF Deliverers
      <4>4. deliverer'[c] = [pc |-> "list", exec |-> e,
                             status |-> client[c].seen]
        BY <2>3, <4>1, <4>2, <4>3 DEF SubscribeInsert, StartDelivery
      <4>5. /\ deliverer'[c].pc = "list" /\ deliverer'[c].exec = e
            /\ deliverer'[c] # Idle
        BY <4>4 DEF Idle
      <4>6. QED
        BY <4>3, <4>5 DEF Owed
    <3>5. QED
      BY <3>3, <3>4
  <2>4. QED
    BY <1>8, <2>2, <2>3 DEF Subscribe, SubscribeRead, SubscribeFails
<1>9. ASSUME NEW d \in Deliverers, Deliver(d) PROVE Owed(e, u)'
  <2>1. /\ runner'[e] = runner[e] /\ crashes = 0
        /\ UNCHANGED stale /\ subs[e][u] = "pending"
    <3>1. UNCHANGED vars /\ UNCHANGED stale
      BY <1>9 DEF Deliver, DeliverList, DeliverSend, DeliverMark
    <3>2. subs[e][u] = "pending"
      <4>1. CASE UNCHANGED subs
        BY <4>1
      <4>2. CASE DeliverMark(d)
        BY <4>2 DEF DeliverMark
      <4>3. QED
        BY <1>9, <4>1, <4>2 DEF Deliver, DeliverList, DeliverSend
    <3>3. QED
      BY <3>1, <3>2 DEF vars
  <2>2. PICK o \in Deliverers :
           /\ deliverer[o] # Idle /\ deliverer[o].exec = e
           /\ deliverer[o].pc = "list" \/ u \in deliverer[o].todo
    BY <1>1, <1>3, <2>1 DEF Owed
  <2>3. \A b \in Deliverers \ {d} : deliverer'[b] = deliverer[b]
    BY <1>9 DEF Deliver, DeliverList, DeliverSend, DeliverMark
  <2>4. CASE o # d
    BY <1>2, <2>2, <2>3, <2>4
  <2>5. CASE o = d
    <3>1. /\ deliverer'[d].pc \in {"send", "mark"}
          /\ deliverer'[d].exec = e
          /\ u \in deliverer'[d].todo
      <4>1. CASE DeliverList(d)
        BY <2>1, <2>2, <2>5, <4>1 DEF DeliverList
      <4>2. ASSUME NEW v \in Urls, DeliverSend(d, v) PROVE <3>1
        BY <2>2, <2>5, <4>2 DEF DeliverSend
      <4>3. CASE DeliverMark(d)
        <5>1. u # deliverer[d].url
          BY <2>1, <2>2, <2>5, <4>3 DEF DeliverMark
        <5>2. u \in deliverer[d].todo \ {deliverer[d].url}
          BY <2>2, <2>5, <4>3, <5>1 DEF DeliverMark
        <5>3. QED
          BY <2>2, <2>5, <4>3, <5>2 DEF DeliverMark
      <4>4. QED
        BY <1>9, <4>1, <4>2, <4>3 DEF Deliver
    <3>2. QED
      BY <3>1 DEF Owed, Idle
  <2>6. QED
    BY <2>4, <2>5
<1>10. QED
  BY <1>4, <1>5, <1>6, <1>7, <1>8, <1>9 DEF WNext

-----------------------------------------------------------------------------
\* The inductive invariant holds in every reachable state.
THEOREM WebhookInvariance == WSpec => []WInv
<1>1. IInv /\ WInv /\ [WNext]_allVars => WInv'
  <2>1. CASE WNext
    BY <2>1, NextWebhookTypeOK, NextSettledInv, NextDelivered, NextOwed DEF WInv
  <2>2. CASE UNCHANGED allVars
    BY <2>2
       DEF allVars, vars, webhookVars, WInv, WebhookTypeOK, PostsInv,
           DelivererInv, ClientInv, Settled, DeliveredWasPosted, PendingIsOwed,
           Owed, View, GetExec
  <2>3. QED
    BY <2>1, <2>2
<1>2. QED
  BY <1>1, InitWInv, TasksInvariance, PTL DEF WSpec

\* Subscriptions, requests and deliveries stay within their types.
THEOREM WebhookTypeCorrect == WSpec => []WebhookTypeOK
  BY WebhookInvariance, PTL DEF WInv

\* No interleaving loses the callback of a subscription that was not made on an
\* outdated status, as long as the process lives.
THEOREM NoCallbackIsLost == WSpec => []PendingIsOwed
  BY WebhookInvariance, PTL DEF WInv

\* Every callback ever sent reported the final status of the task.
THEOREM CallbacksAreFinal == WSpec => []PostsAreFinal
<1>1. WInv => PostsAreFinal
  BY DEF WInv, PostsInv, Settled, PostsAreFinal
<1>2. QED
  BY <1>1, WebhookInvariance, PTL

\* A subscription is marked after its POST, even across restarts.
THEOREM MarkedAfterPost == WSpec => []DeliveredWasPosted
  BY WebhookInvariance, PTL DEF WInv

-----------------------------------------------------------------------------
(***************************************************************************)
(* The composition keeps what the tasks promise, and implements            *)
(* CallbackPromise.                                                        *)
(***************************************************************************)

\* Without the callbacks, the composition is the exec service of ExecTasks: what
\* is proved of the tasks holds with subscriptions and deliveries around them.
THEOREM TasksWithinWebhooks == WSpec => Spec
<1>1. WInit => Init
  BY DEF WInit
<1>2. [WNext]_allVars => [Next]_vars
  BY WNextIsNext DEF allVars, vars
<1>3. QED
  BY <1>1, <1>2, PTL DEF WSpec, Spec

\* So the answers of GetExec keep the promise of ExecPromise, map and rows agree,
\* and each result is recorded once by its goroutine.
THEOREM PromiseWithWebhooks ==
    WSpec => ImplementsPromise /\ []RecordsAgree /\ []RunnerOwnsTask
  BY TasksWithinWebhooks, Refinement, RowsAgreeWithMap, ResultRecordedOnce, PTL

\* A subscription needs the row of its task, and that the row of the sandbox.
Keys ==
    \A e \in Execs :
        /\ execRows[e] # NoResult => SandboxOf[e] \in alive
        /\ execRows[e] = NoResult => \A u \in Urls : subs[e][u] = "none"

\* A goroutine has listed subscribers only.
Listed(d) ==
    deliverer[d] # Idle /\ deliverer[d].pc # "list" =>
        \A u \in deliverer[d].todo :
            \/ execRows[deliverer[d].exec] = NoResult
            \/ subs[deliverer[d].exec][u] # "none"

\* A callback of the task has told the status, or somebody is about to tell it.
Told(e, status) ==
    \/ \E u \in Urls : status \in posts[e][u]
    \/ \E d \in Deliverers :
          deliverer[d] # Idle /\ deliverer[d].exec = e /\ deliverer[d].status = status
    \/ \E c \in Clients :
          /\ client[c] # Idle /\ client[c].exec = e /\ client[c].seen = status
          /\ IsTerminal(status)

\* Nobody tells anything else than the others.
OneStory == \A e \in Execs : \A s, t : Told(e, s) /\ Told(e, t) => s = t

\* What the refinement needs beyond WInv.
CallbackInv == Keys /\ (\A d \in Deliverers : Listed(d)) /\ OneStory

\* What is told is settled.
LEMMA ToldIsSettled ==
    ASSUME WInv, NEW e \in Execs, NEW status, Told(e, status)
    PROVE  Settled(e, status)
  BY DEF WInv, PostsInv, DelivererInv, ClientInv, Told

LEMMA InitCallbackInv == WInit => CallbackInv
<1> SUFFICES ASSUME WInit PROVE CallbackInv
  OBVIOUS
<1>1. Keys
  BY DEF WInit, Init, Keys, NoResult
<1>2. \A d \in Deliverers : Listed(d)
  BY DEF WInit, Listed
<1>3. OneStory
  BY DEF WInit, OneStory, Told
<1>4. QED
  BY <1>1, <1>2, <1>3 DEF CallbackInv

\* A task without a row never gets one, once its Execute has ended.
LEMMA RowStaysGone ==
    ASSUME IInv, [Next]_vars, NEW e \in Execs, request[e] = "done",
           execRows[e] = NoResult
    PROVE  request'[e] = "done" /\ execRows'[e] = NoResult
<1> USE DEF IInv, TypeOK, NoResult
<1>1. ASSUME NEW f \in Execs, Request(f)
      PROVE  request'[e] = "done" /\ execRows'[e] = NoResult
  BY <1>1 DEF Request, ExecuteCheck, ExecuteRegister, ExecutePersist,
              ExecutePersistFails, CancelCheck, CancelApply, UpdateExecTask
<1>2. ASSUME NEW f \in Execs,
             Wait(f) \/ \E out \in Outcomes : RunnerReturn(f, out)
      PROVE  request'[e] = "done" /\ execRows'[e] = NoResult
  BY <1>2 DEF Wait, WaitStart, WaitCheck, WaitRead, WaitTimeout, RunnerReturn
<1>3. ASSUME NEW f \in Execs, RunnerFinish(f)
      PROVE  request'[e] = "done" /\ execRows'[e] = NoResult
  BY <1>3 DEF RunnerFinish, UpdateExecTask
<1>4. ASSUME NEW s \in Sandboxes, DeleteSandbox(s)
      PROVE  request'[e] = "done" /\ execRows'[e] = NoResult
  BY <1>4 DEF DeleteSandbox
<1>5. ASSUME NEW S \in SUBSET Execs, CleanupExecHistory(S)
      PROVE  request'[e] = "done" /\ execRows'[e] = NoResult
  BY <1>5 DEF CleanupExecHistory
<1>6. CASE Restart
  BY <1>6 DEF Restart
<1>7. CASE UNCHANGED vars
  BY <1>7 DEF vars
<1>8. QED
  BY <1>1, <1>2, <1>3, <1>4, <1>5, <1>6, <1>7 DEF Next

\* What neither deletes rows nor leaves them alone writes results into them.
LEMMA RowKept ==
    ASSUME IInv, NEW e \in Execs, NEW f \in Execs,
           \/ Request(f)
           \/ \E out \in Outcomes : RunnerReturn(f, out)
           \/ RunnerFinish(f)
    PROVE  /\ alive' = alive
           /\ execRows'[e] = NoResult => execRows[e] = NoResult
           /\ execRows'[e] # NoResult =>
                  execRows[e] # NoResult \/ SandboxOf[e] \in alive
<1> USE DEF IInv, TypeOK, NoResult
<1>1. CASE ExecuteCheck(f) \/ ExecuteRegister(f) \/ ExecutePersistFails(f)
           \/ CancelCheck(f) \/ \E out \in Outcomes : RunnerReturn(f, out)
  BY <1>1 DEF ExecuteCheck, ExecuteRegister, ExecutePersistFails, CancelCheck,
              RunnerReturn
<1>2. CASE ExecutePersist(f)
  <2>1. execRows[f] = NoResult /\ SandboxOf[f] \in alive /\ alive' = alive
    BY <1>2 DEF ExecutePersist, TaskInv, RequestStage
  <2>2. f # e => execRows'[e] = execRows[e]
    BY <1>2 DEF ExecutePersist
  <2>3. QED
    BY <2>1, <2>2
<1>3. CASE CancelApply(f)
  <2>1. alive' = alive /\ (f # e => execRows'[e] = execRows[e])
    BY <1>3 DEF CancelApply, UpdateExecTask
  <2>2. [status |-> "cancelling", completed |-> execMap[f].completed] # NoResult
    OBVIOUS
  <2>3. execRows'[f] = NoResult <=> execRows[f] = NoResult
    BY <1>3, <2>2 DEF CancelApply, UpdateExecTask
  <2>4. QED
    BY <2>1, <2>3
<1>4. CASE RunnerFinish(f)
  BY <1>4 DEF RunnerFinish, UpdateExecTask
<1>5. QED
  BY <1>1, <1>2, <1>3, <1>4 DEF Request

LEMMA NextKeys ==
    ASSUME IInv, WInv, CallbackInv, WNext
    PROVE  Keys'
<1> SUFFICES ASSUME NEW e \in Execs
             PROVE  /\ execRows'[e] # NoResult => SandboxOf[e] \in alive'
                    /\ execRows'[e] = NoResult => \A u \in Urls : subs'[e][u] = "none"
  BY DEF Keys
<1> DEFINE Goal == /\ execRows'[e] # NoResult => SandboxOf[e] \in alive'
                   /\ execRows'[e] = NoResult => \A u \in Urls : subs'[e][u] = "none"
<1> USE DEF CallbackInv, Keys
<1>1. ASSUME NEW f \in Execs,
             \/ Request(f)
             \/ \E out \in Outcomes : RunnerReturn(f, out)
             \/ RunnerFinish(f),
             UNCHANGED subs
      PROVE  Goal
  BY <1>1, RowKept
<1>2. ASSUME UNCHANGED <<alive, execRows, subs>> PROVE Goal
  BY <1>2
<1>3. CASE RowsDeleted
  <2>1. execRows'[e] # NoResult => SandboxOf[e] \in alive'
    BY <1>3 DEF RowsDeleted, DeleteSandbox, CleanupExecHistory
  <2>2. execRows'[e] = NoResult => \A u \in Urls : subs'[e][u] = "none"
    BY <1>3 DEF RowsDeleted, CascadeToSubscriptions
  <2>3. QED
    BY <2>1, <2>2
<1>4. ASSUME NEW c \in Clients, Subscribe(c) PROVE Goal
  <2>1. CASE SubscribeInsert(c)
    <3>1. UNCHANGED <<alive, execRows>> /\ execRows[client[c].exec] # NoResult
      BY <1>4, <2>1 DEF Subscribe, SubscribeInsert, vars
    <3>2. e # client[c].exec => subs'[e] = subs[e]
      BY <2>1 DEF SubscribeInsert
    <3>3. QED
      BY <3>1, <3>2
  <2>2. CASE UNCHANGED subs
    BY <1>2, <1>4, <2>2 DEF Subscribe, vars
  <2>3. QED
    BY <1>4, <2>1, <2>2 DEF Subscribe, SubscribeRead, SubscribeFails
<1>5. ASSUME NEW d \in Deliverers, Deliver(d) PROVE Goal
  <2>1. CASE DeliverMark(d)
    <3>1. UNCHANGED <<alive, execRows>>
      BY <1>5 DEF Deliver, vars
    <3>2. \A u \in Urls : subs[e][u] = "none" => subs'[e][u] = "none"
      BY <2>1 DEF DeliverMark, WInv, WebhookTypeOK
    <3>3. QED
      BY <3>1, <3>2
  <2>2. CASE UNCHANGED subs
    BY <1>2, <1>5, <2>2 DEF Deliver, vars
  <2>3. QED
    BY <1>5, <2>1, <2>2 DEF Deliver, DeliverList, DeliverSend
<1>6. QED
  BY <1>1, <1>2, <1>3, <1>4, <1>5
     DEF WNext, webhookVars, FinishAndNotify, WRestart, Restart

\* A subscription goes only with the row of its task.
LEMMA SubscriberStays ==
    ASSUME IInv, WInv, CallbackInv, WNext, NEW e \in Execs, NEW u \in Urls,
           request[e] = "done", execRows[e] = NoResult \/ subs[e][u] # "none"
    PROVE  execRows'[e] = NoResult \/ subs'[e][u] # "none"
<1>1. CASE execRows[e] = NoResult
  BY <1>1, WNextIsNext, RowStaysGone
<1>2. CASE subs[e][u] # "none"
  <2>1. CASE UNCHANGED subs
    BY <1>2, <2>1
  <2>2. CASE RowsDeleted
    BY <1>2, <2>2 DEF RowsDeleted, CascadeToSubscriptions
  <2>3. ASSUME NEW c \in Clients, SubscribeInsert(c)
        PROVE  subs'[e][u] # "none"
    BY <1>2, <2>3 DEF SubscribeInsert, WInv, WebhookTypeOK
  <2>4. ASSUME NEW d \in Deliverers, DeliverMark(d)
        PROVE  subs'[e][u] # "none"
    BY <1>2, <2>4 DEF DeliverMark, WInv, WebhookTypeOK
  <2>5. QED
    BY <2>1, <2>2, <2>3, <2>4
       DEF WNext, webhookVars, FinishAndNotify, WRestart, Subscribe, SubscribeRead,
           SubscribeFails, Deliver, DeliverList, DeliverSend
<1>3. QED
  BY <1>1, <1>2

LEMMA NextListed ==
    ASSUME IInv, WInv, CallbackInv, WNext, NEW d \in Deliverers
    PROVE  Listed(d)'
<1> SUFFICES ASSUME deliverer'[d] # Idle, deliverer'[d].pc # "list",
                    NEW u \in deliverer'[d].todo
             PROVE  \/ execRows'[deliverer'[d].exec] = NoResult
                    \/ subs'[deliverer'[d].exec][u] # "none"
  BY DEF Listed
<1>1. ASSUME deliverer[d] # Idle, deliverer'[d].exec = deliverer[d].exec,
             u \in Urls,
             \/ execRows[deliverer[d].exec] = NoResult
             \/ subs[deliverer[d].exec][u] # "none"
      PROVE  \/ execRows'[deliverer'[d].exec] = NoResult
             \/ subs'[deliverer'[d].exec][u] # "none"
  <2>1. deliverer[d].exec \in Execs /\ request[deliverer[d].exec] = "done"
    BY <1>1, HeldTypes DEF WInv, DelivererInv, Settled
  <2>2. QED
    BY <1>1, <2>1, SubscriberStays
<1>2. CASE deliverer'[d] = deliverer[d]
  <2>1. deliverer[d].todo \in SUBSET Urls
    BY <1>2, HeldTypes DEF WInv
  <2>2. QED
    BY <1>1, <1>2, <2>1 DEF CallbackInv, Listed
<1>3. CASE Deliver(d)
  <2>0. deliverer \in [Deliverers -> Delivery \cup {Idle}] /\ WebhookTypeOK
    BY DEF WInv, WebhookTypeOK
  <2>1. CASE DeliverList(d)
    <3>1. deliverer[d] # Idle
      BY <2>1 DEF DeliverList, Idle
    <3>2. /\ deliverer'[d].exec = deliverer[d].exec
          /\ u \in Urls /\ subs[deliverer[d].exec][u] = "pending"
      BY <2>0, <2>1 DEF DeliverList
    <3>3. QED
      BY <1>1, <3>1, <3>2
  <2>2. CASE (\E v \in Urls : DeliverSend(d, v)) \/ DeliverMark(d)
    <3>1. deliverer[d] # Idle /\ deliverer[d].pc # "list"
      <4>1. deliverer[d].pc \in {"send", "mark"}
        BY <2>2 DEF DeliverSend, DeliverMark
      <4>2. QED
        BY <4>1 DEF Idle
    <3>2. deliverer'[d].exec = deliverer[d].exec /\ u \in deliverer[d].todo
      <4>1. ASSUME NEW v \in Urls, DeliverSend(d, v) PROVE <3>2
        BY <2>0, <4>1 DEF DeliverSend
      <4>2. CASE DeliverMark(d)
        BY <2>0, <4>2 DEF DeliverMark
      <4>3. QED
        BY <2>2, <4>1, <4>2
    <3>3. u \in Urls
      BY <2>0, <3>1, <3>2, HeldTypes
    <3>4. QED
      BY <1>1, <3>1, <3>2, <3>3 DEF CallbackInv, Listed
  <2>3. QED
    BY <1>3, <2>1, <2>2 DEF Deliver
<1>4. ASSUME deliverer'[d] # deliverer[d], ~Deliver(d) PROVE FALSE
  <2> USE DEF WInv, WebhookTypeOK
  <2>1. \A b \in Deliverers \ {d} : ~Deliver(b)
    BY <1>4 DEF Deliver, DeliverList, DeliverSend, DeliverMark
  <2>2. ASSUME NEW f \in Execs, FinishAndNotify(f) PROVE FALSE
    BY <1>4, <2>2 DEF FinishAndNotify, StartDelivery
  <2>3. ASSUME NEW c \in Clients, Subscribe(c) PROVE FALSE
    BY <1>4, <2>3 DEF Subscribe, SubscribeRead, SubscribeInsert, SubscribeFails,
                      StartDelivery
  <2>4. ~WRestart
    BY DEF WRestart
  <2>5. QED
    BY <1>4, <2>1, <2>2, <2>3, <2>4 DEF WNext, webhookVars, RowsDeleted
<1>5. QED
  BY <1>2, <1>3, <1>4

\* A story is begun only with what GetExec answers.
LEMMA ToldAnew ==
    ASSUME IInv, WInv, WNext, NEW e \in Execs, NEW status, Told(e, status)'
    PROVE  Told(e, status) \/ (IsTerminal(status) /\ GetExec(e)'.status = status)
<1> DEFINE Goal == Told(e, status) \/ (IsTerminal(status) /\ GetExec(e)'.status = status)
<1>0. /\ deliverer \in [Deliverers -> Delivery \cup {Idle}]
      /\ client \in [Clients -> SubscribeRequest \cup {Idle}]
      /\ posts \in [Execs -> [Urls -> SUBSET Status]]
  BY DEF WInv, WebhookTypeOK
<1>1. CASE UNCHANGED <<client, deliverer, posts>>
  BY <1>1 DEF Told
<1>2. ASSUME NEW f \in Execs, FinishAndNotify(f) PROVE Goal
  <2>1. f \in Deliverers /\ deliverer'[f] = [pc |-> "list", exec |-> f,
                                            status |-> execMap'[f].status]
    BY <1>0, <1>2 DEF FinishAndNotify, StartDelivery, Deliverers
  <2>2. \A d \in Deliverers \ {f} : deliverer'[d] = deliverer[d]
    BY <1>0, <1>2 DEF FinishAndNotify, StartDelivery
  <2>3. UNCHANGED <<client, posts>>
    BY <1>2 DEF FinishAndNotify
  <2>4. CASE f = e /\ status = execMap'[e].status
    <3>1. /\ execMap'[e] = [status |-> FinalStatus(outcome[e],
                                         execMap[e].status = "cancelling"),
                            completed |-> TRUE]
      BY <1>2, <2>4 DEF FinishAndNotify, RunnerFinish, IInv, TypeOK
    <3>2. status \in Terminal
      <4>1. (execMap[e].status = "cancelling") \in BOOLEAN
        OBVIOUS
      <4>2. FinalStatus(outcome[e], execMap[e].status = "cancelling") \in Terminal
        BY <4>1, FinalStatusTerminal
      <4>3. QED
        BY <2>4, <3>1, <4>2
    <3>3. execMap'[e] # NoResult
      BY <3>1 DEF NoResult
    <3>4. GetExec(e)' = execMap'[e]
      BY <3>3 DEF GetExec
    <3>5. QED
      BY <2>4, <3>2, <3>4 DEF IsTerminal
  <2>5. CASE ~(f = e /\ status = execMap'[e].status)
    <3>1. ~(deliverer'[f].exec = e /\ deliverer'[f].status = status)
      BY <2>1, <2>5
    <3>2. QED
      BY <2>2, <2>3, <3>1 DEF Told
  <2>6. QED
    BY <2>4, <2>5
<1>3. CASE WRestart
  BY <1>3 DEF WRestart, Told
<1>4. ASSUME NEW c \in Clients, Subscribe(c) PROVE Goal
  <2>1. UNCHANGED posts /\ UNCHANGED vars
    BY <1>4 DEF Subscribe, SubscribeRead, SubscribeInsert, SubscribeFails
  <2>2. ASSUME NEW f \in Execs, NEW u \in Urls, SubscribeRead(c, f, u) PROVE Goal
    <3>1. /\ client'[c] = [pc |-> "read", exec |-> f, url |-> u, seen |-> View(f)]
          /\ \A b \in Clients \ {c} : client'[b] = client[b]
          /\ UNCHANGED deliverer
      BY <1>0, <2>2 DEF SubscribeRead
    <3>2. CASE f = e /\ status = View(e) /\ IsTerminal(status)
      <4>1. View(e) = GetExec(e).status
        BY <2>2, <3>2 DEF SubscribeRead, View, IsTerminal, Terminal
      <4>2. GetExec(e)' = GetExec(e)
        BY <2>1 DEF GetExec, vars
      <4>3. QED
        BY <3>2, <4>1, <4>2
    <3>3. CASE ~(f = e /\ status = View(e) /\ IsTerminal(status))
      <4>1. ~(client'[c].exec = e /\ client'[c].seen = status /\ IsTerminal(status))
        BY <3>1, <3>3
      <4>2. QED
        BY <2>1, <3>1, <4>1 DEF Told
    <3>4. QED
      BY <3>2, <3>3
  <2>3. CASE SubscribeInsert(c)
    <3>1. c \in Deliverers /\ client[c] # Idle /\ client'[c] = Idle
      BY <1>0, <2>3 DEF SubscribeInsert, Deliverers
    <3>2. \A b \in Clients \ {c} : client'[b] = client[b]
      BY <1>0, <2>3 DEF SubscribeInsert
    <3>3. \A d \in Deliverers : d # c => deliverer'[d] = deliverer[d]
      BY <1>0, <2>3 DEF SubscribeInsert, StartDelivery
    <3>4. \/ deliverer'[c] = deliverer[c]
          \/ /\ IsTerminal(client[c].seen)
             /\ deliverer'[c] = [pc |-> "list", exec |-> client[c].exec,
                                 status |-> client[c].seen]
      BY <1>0, <2>3, <3>1 DEF SubscribeInsert, StartDelivery
    <3>5. deliverer'[c].exec = e /\ deliverer'[c].status = status /\ deliverer'[c] # Idle
             => Told(e, status)
      BY <3>1, <3>4 DEF Told
    <3>6. QED
      BY <2>1, <3>1, <3>2, <3>3, <3>5 DEF Told
  <2>4. CASE SubscribeFails(c)
    BY <2>1, <2>4 DEF SubscribeFails, Told
  <2>5. QED
    BY <1>4, <2>2, <2>3, <2>4 DEF Subscribe
<1>5. ASSUME NEW d \in Deliverers, Deliver(d) PROVE Goal
  <2>1. deliverer[d] # Idle
    <3>1. deliverer[d].pc \in {"list", "send", "mark"}
      BY <1>5 DEF Deliver, DeliverList, DeliverSend, DeliverMark
    <3>2. QED
      BY <3>1 DEF Idle
  <2>2. /\ \A b \in Deliverers \ {d} : deliverer'[b] = deliverer[b]
        /\ UNCHANGED client
        /\ \/ deliverer'[d] = Idle
           \/ /\ deliverer'[d].exec = deliverer[d].exec
              /\ deliverer'[d].status = deliverer[d].status
    <3>1. CASE DeliverList(d)
      BY <1>0, <3>1 DEF DeliverList
    <3>2. ASSUME NEW u \in Urls, DeliverSend(d, u) PROVE <2>2
      BY <1>0, <3>2 DEF DeliverSend
    <3>3. CASE DeliverMark(d)
      BY <1>0, <3>3 DEF DeliverMark
    <3>4. QED
      BY <1>5, <3>1, <3>2, <3>3 DEF Deliver
  <2>3. \A u \in Urls : status \in posts'[e][u] =>
           \/ status \in posts[e][u]
           \/ e = deliverer[d].exec /\ status = deliverer[d].status
    <3>1. CASE UNCHANGED posts
      BY <3>1
    <3>2. ASSUME NEW v \in Urls, DeliverSend(d, v)
          PROVE  \A u \in Urls : status \in posts'[e][u] =>
                    \/ status \in posts[e][u]
                    \/ e = deliverer[d].exec /\ status = deliverer[d].status
      BY <1>0, <3>2 DEF DeliverSend
    <3>3. QED
      BY <1>5, <3>1, <3>2 DEF Deliver, DeliverList, DeliverMark
  <2>4. QED
    BY <2>1, <2>2, <2>3 DEF Told
<1>6. QED
  BY <1>1, <1>2, <1>3, <1>4, <1>5 DEF WNext, webhookVars, RowsDeleted

LEMMA NextOneStory ==
    ASSUME IInv, WInv, CallbackInv, WNext
    PROVE  OneStory'
<1> SUFFICES ASSUME NEW e \in Execs, NEW s, NEW t, Told(e, s)', Told(e, t)'
             PROVE  s = t
  BY DEF OneStory
<1>1. /\ Told(e, s) \/ (IsTerminal(s) /\ GetExec(e)'.status = s)
      /\ Told(e, t) \/ (IsTerminal(t) /\ GetExec(e)'.status = t)
  BY ToldAnew
<1>2. ASSUME NEW old, NEW new, Told(e, old), IsTerminal(new),
             GetExec(e)'.status = new
      PROVE  old = new
  <2>1. Settled(e, old)
    BY <1>2, ToldIsSettled
  <2>2. Settled(e, old)'
    BY <2>1, WNextIsNext, SettledStable
  <2>3. QED
    BY <1>2, <2>2 DEF Settled, GetExec, IsTerminal, Terminal, NoResult
<1>3. CASE Told(e, s) /\ Told(e, t)
  BY <1>3 DEF CallbackInv, OneStory
<1>4. QED
  BY <1>1, <1>2, <1>3

LEMMA CallbackInvariance == WSpec => []CallbackInv
<1>1. IInv /\ WInv /\ CallbackInv /\ [WNext]_allVars => CallbackInv'
  <2>1. IInv /\ WInv /\ CallbackInv /\ WNext => CallbackInv'
    BY NextKeys, NextListed, NextOneStory DEF CallbackInv
  <2>2. CallbackInv /\ UNCHANGED allVars => CallbackInv'
    BY DEF allVars, vars, webhookVars, CallbackInv, Keys, Listed, OneStory, Told
  <2>3. QED
    BY <2>1, <2>2
<1>2. QED
  BY <1>1, InitCallbackInv, TasksInvariance, WebhookInvariance, PTL DEF WSpec

-----------------------------------------------------------------------------
\* The tasks of CallbackPromise are those of ExecPromise.
LEMMA SamePromise == Promise!Next => Callbacks!Next
  BY DEF Promise!Next, Promise!Start, Promise!Cancel, Promise!Complete,
         Promise!Forget, Promise!Restart, Callbacks!Next, Callbacks!Start,
         Callbacks!Cancel, Callbacks!Complete, Callbacks!Forget,
         Callbacks!Restart

LEMMA InitCallbacks == WInit => Callbacks!CallbackInit
<1> SUFFICES ASSUME WInit PROVE Callbacks!CallbackInit
  OBVIOUS
<1>1. Callbacks!Init
  BY DEF WInit, Init, Callbacks!Init, Answers, View
<1>2. Subscriptions = [e \in Execs |-> [u \in Urls |-> "none"]]
  BY DEF WInit, Init, Subscriptions, SubscriptionSeen
<1>3. QED
  BY <1>1, <1>2 DEF WInit, Callbacks!CallbackInit

\* What was subscribed to is finished when its row goes, or cannot be read.
LEMMA RowGoneAtTheEnd ==
    ASSUME IInv, RowsDeleted, NEW e \in Execs, execRows[e] # NoResult,
           execRows'[e] = NoResult
    PROVE  View(e)' \in Terminal \cup {"gone"}
<1>1. request'[e] = "done"
  BY DEF RowsDeleted, DeleteSandbox, CleanupExecHistory, IInv, TypeOK, RequestPc,
         TaskInv, RequestStage
<1>2. CASE SandboxOf[e] \notin alive'
  BY <1>1, <1>2 DEF View
<1>3. CASE SandboxOf[e] \in alive'
  <2>1. PICK S \in SUBSET Execs : CleanupExecHistory(S)
    BY <1>3 DEF RowsDeleted, DeleteSandbox
  <2>2. execRows[e].status \in Terminal /\ execMap' = execMap
    BY <2>1 DEF CleanupExecHistory, IInv, TaskInv, CompletedIffTerminal, IsTerminal
  <2>3. execMap[e] # NoResult => execMap[e].status \in Terminal
    BY <2>2 DEF IInv, TaskInv, TaskSafe, Terminal
  <2>4. QED
    BY <1>1, <1>3, <2>2, <2>3 DEF View, GetExec
<1>4. QED
  BY <1>2, <1>3

\* A step of the tasks: subscriptions stay, but for those that go with their row.
LEMMA TaskStep ==
    ASSUME IInv, CallbackInv, WNext, UNCHANGED posts,
           UNCHANGED subs \/ RowsDeleted
    PROVE  Callbacks!CallbackNext
<1> DEFINE S == {e \in Execs : request'[e] = "done" /\ execRows'[e] = NoResult}
<1>1. [Promise!Next]_Answers
  <2>1. [Next]_vars
    BY WNextIsNext
  <2>2. UNCHANGED vars => UNCHANGED Answers
    BY ViewFrame, NoAnswerChanges DEF vars
  <2>3. QED
    BY <2>1, <2>2, NextPromise
<1>2. [Callbacks!Next]_Answers
  BY <1>1, SamePromise
<1>3. ASSUME NEW e \in Execs, e \notin S, NEW u \in Urls
      PROVE  SubscriptionSeen(e, u)' = SubscriptionSeen(e, u)
  <2>1. ~(request[e] = "done" /\ execRows[e] = NoResult)
    BY <1>3, WNextIsNext, RowStaysGone
  <2>2. subs'[e][u] = subs[e][u]
    <3>1. ASSUME RowsDeleted, execRows'[e] # NoResult PROVE subs'[e][u] = subs[e][u]
      BY <3>1 DEF RowsDeleted, CascadeToSubscriptions
    <3>2. ASSUME RowsDeleted, execRows'[e] = NoResult PROVE subs'[e][u] = subs[e][u]
      <4>1. request[e] # "done"
        BY <1>3, <3>2 DEF RowsDeleted, DeleteSandbox, CleanupExecHistory
      <4>2. execRows[e] = NoResult
        BY <4>1 DEF IInv, TypeOK, RequestPc, TaskInv, RequestStage
      <4>3. subs[e][u] = "none"
        BY <4>2 DEF CallbackInv, Keys
      <4>4. subs'[e][u] = "none"
        BY <3>2 DEF RowsDeleted, CascadeToSubscriptions
      <4>5. QED
        BY <4>3, <4>4
    <3>3. QED
      BY <3>1, <3>2
  <2>3. QED
    BY <1>3, <2>1, <2>2 DEF SubscriptionSeen
<1>4. ASSUME NEW e \in S, NEW u \in Urls,
             SubscriptionSeen(e, u) \in {"pending", "delivered"}
      PROVE  View(e)' \in Terminal \cup {"gone"}
  <2>1. execRows[e] # NoResult
    BY <1>4 DEF SubscriptionSeen, CallbackInv, Keys
  <2>2. execRows'[e] = NoResult
    BY <1>4
  <2>3. \A f \in Execs : ~Request(f) /\ ~RunnerFinish(f)
                            /\ \A out \in Outcomes : ~RunnerReturn(f, out)
    BY <2>1, <2>2, RowKept
  <2>4. execRows' # execRows
    BY <2>1, <2>2
  <2>5. RowsDeleted
    BY <2>3, <2>4
       DEF WNext, FinishAndNotify, WRestart, Restart, Subscribe, Deliver, vars
  <2>6. QED
    BY <1>4, <2>1, <2>2, <2>5, RowGoneAtTheEnd
<1>5. Callbacks!Drop(S)
  <2>1. ASSUME NEW e \in S,
               \E u \in Urls : Subscriptions[e][u] \in {"pending", "delivered"}
        PROVE  Answers'[e] \in Terminal \cup {"gone"}
    BY <1>4, <2>1 DEF Subscriptions, Answers
  <2>2. \A e \in S, u \in Urls : SubscriptionSeen(e, u)' = "gone"
    BY DEF SubscriptionSeen
  <2>3. Subscriptions' = [e \in Execs |-> IF e \in S THEN [u \in Urls |-> "gone"]
                                          ELSE Subscriptions[e]]
    BY <1>3, <2>2 DEF Subscriptions
  <2>4. QED
    BY <2>1, <2>3 DEF Callbacks!Drop, Callbacks!Terminal, Terminal
<1>6. QED
  BY <1>2, <1>5 DEF Callbacks!CallbackNext

\* A step that leaves the tasks alone, seen through the promise.
LEMMA SubscriptionFrame ==
    ASSUME UNCHANGED vars, NEW e \in Execs, NEW u \in Urls,
           subs'[e][u] = subs[e][u]
    PROVE  SubscriptionSeen(e, u)' = SubscriptionSeen(e, u)
  BY DEF vars, SubscriptionSeen

\* Only one subscription differs after a step that leaves the tasks alone.
LEMMA OneSubscriptionChanges ==
    ASSUME UNCHANGED vars, NEW e \in Execs, NEW u \in Urls, NEW st,
           \A f \in Execs, v \in Urls : (f = e /\ v = u) \/ subs'[f][v] = subs[f][v],
           SubscriptionSeen(e, u)' = st
    PROVE  Subscriptions' = [Subscriptions EXCEPT ![e][u] = st]
<1>1. \A f \in Execs, v \in Urls :
         SubscriptionSeen(f, v)' = IF f = e /\ v = u THEN st
                                   ELSE SubscriptionSeen(f, v)
  BY SubscriptionFrame
<1>2. [Subscriptions EXCEPT ![e][u] = st] =
          [f \in Execs |-> [v \in Urls |-> IF f = e /\ v = u THEN st
                                           ELSE SubscriptionSeen(f, v)]]
  BY DEF Subscriptions
<1>3. QED
  BY <1>1, <1>2 DEF Subscriptions

\* What a caller sees when neither the tasks nor the subscriptions change.
LEMMA NothingSeen ==
    ASSUME UNCHANGED vars, UNCHANGED subs
    PROVE  UNCHANGED Answers /\ UNCHANGED Subscriptions
<1>1. UNCHANGED Answers
  BY ViewFrame, NoAnswerChanges DEF vars
<1>2. UNCHANGED Subscriptions
  BY SubscriptionFrame DEF Subscriptions
<1>3. QED
  BY <1>1, <1>2

LEMMA SubscribeStep ==
    ASSUME IInv, WInv, CallbackInv, NEW c \in Clients, Subscribe(c)
    PROVE  Callbacks!CallbackNext \/ UNCHANGED <<Answers, Subscriptions, posts>>
<1>1. UNCHANGED vars /\ UNCHANGED posts
  BY DEF Subscribe, SubscribeRead, SubscribeInsert, SubscribeFails
<1>2. CASE UNCHANGED subs
  BY <1>1, <1>2, NothingSeen
<1>3. CASE ~UNCHANGED subs
  <2>1. SubscribeInsert(c)
    BY <1>3 DEF Subscribe, SubscribeRead, SubscribeFails
  <2>2. PICK e \in Execs, u \in Urls : e = client[c].exec /\ u = client[c].url
    BY <2>1, HeldTypes DEF SubscribeInsert, WInv
  <2>3. execRows[e] # NoResult /\ subs[e][u] = "none"
    BY <1>3, <2>1, <2>2 DEF SubscribeInsert
  <2>4. subs' = [subs EXCEPT ![e][u] = "pending"]
    BY <2>1, <2>2, <2>3 DEF SubscribeInsert
  <2>5. View(e) \in Status
    <3>1. SandboxOf[e] \in alive /\ request[e] = "done"
      BY <2>3 DEF CallbackInv, Keys, IInv, TypeOK, RequestPc, TaskInv,
                        RequestStage
    <3>2. GetExec(e) \in Result \ {NoResult}
      BY <2>2, <2>3 DEF GetExec, IInv, TypeOK
    <3>3. View(e) = GetExec(e).status
      BY <3>1, <3>2 DEF View
    <3>4. QED
      BY <3>2, <3>3 DEF Result
  <2>6. SubscriptionSeen(e, u) = "none" /\ SubscriptionSeen(e, u)' = "pending"
    <3>1. subs'[e][u] = "pending"
      BY <2>2, <2>4 DEF WInv, WebhookTypeOK
    <3>2. execRows' = execRows
      BY <1>1 DEF vars
    <3>3. QED
      BY <2>3, <3>1, <3>2 DEF SubscriptionSeen
  <2>7. \A f \in Execs, v \in Urls : (f = e /\ v = u) \/ subs'[f][v] = subs[f][v]
    BY <2>2, <2>4 DEF WInv, WebhookTypeOK
  <2>8. Subscriptions' = [Subscriptions EXCEPT ![e][u] = "pending"]
    BY <1>1, <2>6, <2>7, OneSubscriptionChanges
  <2>9. UNCHANGED Answers
    BY <1>1, ViewFrame, NoAnswerChanges DEF vars
  <2>10. Callbacks!Subscribe(e, u)
    BY <1>1, <2>2, <2>5, <2>6, <2>8, <2>9
       DEF Callbacks!Subscribe, Answers, Subscriptions, Status, Live, Terminal
  <2>11. QED
    BY <2>2, <2>10 DEF Callbacks!CallbackNext
<1>4. QED
  BY <1>2, <1>3

LEMMA PostStep ==
    ASSUME IInv, WInv, CallbackInv, NEW d \in Deliverers, NEW u \in Urls,
           DeliverSend(d, u), UNCHANGED vars
    PROVE  Callbacks!CallbackNext
<1>1. deliverer[d] # Idle /\ deliverer[d].pc = "send" /\ u \in deliverer[d].todo
  BY DEF DeliverSend, Idle
<1>2. PICK e \in Execs, st \in Status :
         /\ e = deliverer[d].exec /\ st = deliverer[d].status
         /\ Settled(e, st)
  BY <1>1, HeldTypes DEF WInv, DelivererInv
<1>3. posts' = [posts EXCEPT ![e][u] = posts[e][u] \cup {st}] /\ UNCHANGED subs
  BY <1>2 DEF DeliverSend
<1>4. Told(e, st) /\ \A v \in Urls : \A t \in posts[e][v] : Told(e, t)
  BY <1>1, <1>2 DEF Told
<1>5. st \in Terminal /\ View(e) \in {st, "gone"}
  BY <1>2 DEF Settled, IsTerminal, View, GetExec
<1>6. \A v \in Urls : posts[e][v] \subseteq {st}
  BY <1>2, <1>4 DEF CallbackInv, OneStory
<1>7. posts' = [posts EXCEPT ![e][u] = {st}]
  <2>1. posts[e][u] \cup {st} = {st}
    BY <1>6
  <2>2. QED
    BY <1>3, <2>1
<1>8. Subscriptions[e][u] # "none"
  <2>1. execRows[e] = NoResult \/ subs[e][u] # "none"
    BY <1>1, <1>2 DEF CallbackInv, Listed
  <2>2. QED
    BY <1>2, <2>1 DEF Subscriptions, SubscriptionSeen, Settled
<1>9. UNCHANGED <<Answers, Subscriptions>>
  BY <1>3, NothingSeen
<1>10. Callbacks!Post(e, u)
  BY <1>2, <1>5, <1>6, <1>7, <1>8, <1>9
     DEF Callbacks!Post, Callbacks!Terminal, Terminal, Answers
<1>11. QED
  BY <1>2, <1>10 DEF Callbacks!CallbackNext

LEMMA MarkStep ==
    ASSUME IInv, WInv, CallbackInv, NEW d \in Deliverers, DeliverMark(d),
           UNCHANGED vars
    PROVE  Callbacks!CallbackNext \/ UNCHANGED <<Answers, Subscriptions, posts>>
<1>1. deliverer[d] # Idle /\ deliverer[d].pc = "mark" /\ UNCHANGED posts
  BY DEF DeliverMark, Idle
<1>2. PICK e \in Execs, u \in Urls :
         e = deliverer[d].exec /\ u = deliverer[d].url
  BY <1>1, HeldTypes DEF WInv
<1>3. subs' = IF subs[e][u] = "none" THEN subs
              ELSE [subs EXCEPT ![e][u] = "delivered"]
  BY <1>2 DEF DeliverMark
<1>4. CASE subs[e][u] # "pending"
  <2>1. subs[e][u] \in {"none", "delivered"}
    BY <1>4 DEF WInv, WebhookTypeOK, Subscription
  <2>2. subs' = subs
    BY <1>3, <2>1 DEF WInv, WebhookTypeOK
  <2>3. QED
    BY <1>1, <2>2, NothingSeen
<1>5. CASE subs[e][u] = "pending"
  <2>1. posts[e][u] # {}
    BY <1>1, <1>2 DEF WInv, DelivererInv
  <2>2. execRows[e] # NoResult /\ execRows' = execRows
    BY <1>5 DEF CallbackInv, Keys, vars
  <2>3. subs'[e][u] = "delivered"
    BY <1>3, <1>5 DEF WInv, WebhookTypeOK
  <2>4. SubscriptionSeen(e, u) = "pending" /\ SubscriptionSeen(e, u)' = "delivered"
    BY <1>5, <2>2, <2>3 DEF SubscriptionSeen
  <2>5. \A f \in Execs, v \in Urls : (f = e /\ v = u) \/ subs'[f][v] = subs[f][v]
    BY <1>3 DEF WInv, WebhookTypeOK
  <2>6. Subscriptions' = [Subscriptions EXCEPT ![e][u] = "delivered"]
    BY <2>4, <2>5, OneSubscriptionChanges
  <2>7. UNCHANGED Answers
    BY ViewFrame, NoAnswerChanges DEF vars
  <2>8. Callbacks!Mark(e, u)
    BY <1>1, <2>1, <2>4, <2>6, <2>7 DEF Callbacks!Mark, Subscriptions
  <2>9. QED
    BY <2>8 DEF Callbacks!CallbackNext
<1>6. QED
  BY <1>4, <1>5

\* The service with its callbacks implements the promise made to subscribers: to
\* subscribers only, one and the same final status for every URL and every
\* attempt, marked after the POST, whatever else happens at the same time.
THEOREM CallbackRefinement == WSpec => ImplementsCallbacks
<1> DEFINE Step == Callbacks!CallbackNext \/ UNCHANGED <<Answers, Subscriptions, posts>>
<1>1. IInv /\ WInv /\ CallbackInv /\ WNext => Step
  <2> SUFFICES ASSUME IInv, WInv, CallbackInv, WNext PROVE Step
    OBVIOUS
  <2>1. ASSUME NEW c \in Clients, Subscribe(c) PROVE Step
    BY <2>1, SubscribeStep
  <2>2. ASSUME NEW d \in Deliverers, Deliver(d) PROVE Step
    <3>1. UNCHANGED vars
      BY <2>2 DEF Deliver
    <3>2. CASE DeliverList(d)
      BY <3>1, <3>2, NothingSeen DEF DeliverList
    <3>3. ASSUME NEW u \in Urls, DeliverSend(d, u) PROVE Step
      BY <3>1, <3>3, PostStep
    <3>4. CASE DeliverMark(d)
      BY <3>1, <3>4, MarkStep
    <3>5. QED
      BY <2>2, <3>2, <3>3, <3>4 DEF Deliver
  <2>3. CASE UNCHANGED posts /\ (UNCHANGED subs \/ RowsDeleted)
    BY <2>3, TaskStep
  <2>4. QED
    BY <2>1, <2>2, <2>3
       DEF WNext, webhookVars, FinishAndNotify, RowsDeleted, WRestart
<1>2. UNCHANGED allVars => UNCHANGED <<Answers, Subscriptions, posts>>
  BY NothingSeen DEF allVars, webhookVars
<1>3. IInv /\ WInv /\ CallbackInv /\ [WNext]_allVars
          => [Callbacks!CallbackNext]_<<Answers, Subscriptions, posts>>
  BY <1>1, <1>2
<1>4. QED
  BY <1>3, InitCallbacks, TasksInvariance, WebhookInvariance, CallbackInvariance,
     PTL DEF WSpec, ImplementsCallbacks, Callbacks!CallbackSpec,
             Callbacks!callbackVars

=============================================================================
