------------------------------ MODULE Dispatch ------------------------------
(***************************************************************************)
(* Dispatch of one queue: the queue grain (internal/actors/queue_grain.go),*)
(* the session gateways (gateway.go), the workers behind them and the rows *)
(* of the task log they contend for.                                       *)
(*                                                                         *)
(* A grain and a gateway each handle one message at a time, so a handler   *)
(* is an action; the loop of finishLeaseCycle is unrolled one task per     *)
(* step, under turn, because gateways run while the grain loops.  Broker   *)
(* calls made off the turn (PipeToSelf) are actions of their own.  Every   *)
(* gateway report travels on its own goroutine (tellQueueGrain), so the    *)
(* reports in flight are a bag and arrive in any order; a completion the   *)
(* circuit breaker defers is a report that travels longer.                 *)
(*                                                                         *)
(* Time is abstracted away: a backoff may be over, and a lease may have    *)
(* lapsed, at any moment.  Which of the gateways with credits is picked is *)
(* left open, as is the order of equal priorities.                         *)
(***************************************************************************)
EXTENDS Integers, FiniteSetsExt, Sequences

CONSTANTS
    Task,              \* ids of the queue's tasks
    Late,              \* those not yet enqueued when the grain is activated
    Gateway,           \* gateway actor names, one per worker session
    Key,               \* concurrency keys
    NoKey,             \* the empty concurrency key
    priority,          \* options.priority of each task
    concurrencyKey,    \* options.concurrency_key of each task
    capacity,          \* each gateway's capacity for this queue
    concurrencyLimit,  \* the queue's limit per key, 0 for none
    MaxRetry,          \* options.max_retry
    LeaseBatchMax,     \* Settings.LeaseBatchMax
    LeaseID,           \* lease ids
    NoLease,           \* the empty lease id
    NoEntry            \* no entry in a gateway's inflight map

VARIABLES
    tasks,        \* the task log: state, lease and retry count of each row
    queuePaused,  \* the persisted pause flag
    grain,        \* the QueueGrain's fields
    turn,         \* the loop state of finishLeaseCycle, or Idle
    cycles,       \* lease cycles started and not yet handled by the grain
    releasing,    \* Release calls piped by releaseLeased
    status,       \* the life of each session and its gateway
    mailbox,      \* messages to each gateway, in order
    inflight,     \* Gateway.inflight
    running,      \* executions each worker has yet to report, per task
    reports       \* messages gateways sent the grain, as a bag

brokerVars == <<tasks, queuePaused>>
grainVars == <<grain, turn, cycles, releasing>>
gatewayVars == <<status, mailbox, inflight, running, reports>>
vars == <<brokerVars, grainVars, gatewayVars>>

ASSUME DispatchAssumption ==
    /\ Late \subseteq Task
    /\ concurrencyKey \in [Task -> Key \cup {NoKey}] /\ NoKey \notin Key
    /\ priority \in [Task -> Int]
    /\ capacity \in [Gateway -> Nat \ {0}]
    /\ {concurrencyLimit, MaxRetry} \subseteq Nat
    /\ LeaseBatchMax \in Nat \ {0}
    /\ NoLease \notin LeaseID
    /\ IsFiniteSet(Task) /\ IsFiniteSet(Gateway)

(***************************************************************************)
(* The task log, as far as dispatch uses it                                *)
(***************************************************************************)
RowState == {"absent", "aggregating", "waiting", "active", "completed", "archived"}

Row == [state : RowState,
        leaseID : LeaseID \cup {NoLease},
        retried : 0..MaxRetry]

waiting == {t \in Task : tasks[t].state = "waiting"}

activeRow(t, lease) ==
    /\ tasks[t].state = "active"
    /\ tasks[t].leaseID = lease

\* The rows after a lease-scoped call that moves t to state; ErrLeaseLost
\* leaves them as they are.
settle(t, lease, state, retried) ==
    IF activeRow(t, lease)
    THEN [tasks EXCEPT ![t] = [state |-> state, leaseID |-> NoLease, retried |-> retried]]
    ELSE tasks

Release(t, lease) == settle(t, lease, "waiting", tasks[t].retried)

\* The rows after every delivery of the set D is released.
ReleaseAll(D) ==
    [t \in Task |-> IF tasks[t].state = "active" /\ <<t, tasks[t].leaseID>> \in D
                    THEN [tasks[t] EXCEPT !.state = "waiting", !.leaseID = NoLease]
                    ELSE tasks[t]]

(***************************************************************************)
(* Messages                                                                *)
(***************************************************************************)
Execute == [kind : {"ExecuteTask"}, task : Task, leaseID : LeaseID]
Control == [kind : {"CancelActive"}, task : Task] \cup [kind : {"drainSession"}]

Report == [kind : {"RegisterGateway", "GatewayCredit"}, gateway : Gateway]
              \cup [kind : {"TaskCompleted"}, gateway : Gateway, task : Task]

RegisterGateway(g) == [kind |-> "RegisterGateway", gateway |-> g]
GatewayCredit(g) == [kind |-> "GatewayCredit", gateway |-> g]
TaskCompleted(g, t) == [kind |-> "TaskCompleted", gateway |-> g, task |-> t]

\* tellQueueGrain: the report leaves on a goroutine of its own.
tellQueueGrain(m) == reports' = [reports EXCEPT ![m] = @ + 1]

(***************************************************************************)
(* The grain                                                               *)
(***************************************************************************)
Idle == [leaseID |-> NoLease, todo |-> {}, undeliverable |-> {}, dispatched |-> FALSE]
idle == turn = Idle

totalCredits(credits) == MapThenSumSet(LAMBDA g : credits[g], Gateway)

Entry == [leaseID : LeaseID, cancelRequested : BOOLEAN]

\* The lease ids of the deliveries in g's mailbox and in its inflight map.
boxedIDs(g) == {m.leaseID : m \in {n \in {mailbox[g][i] : i \in DOMAIN mailbox[g]} :
                                       n.kind = "ExecuteTask"}}
trackedIDs(g) == {inflight[g][t].leaseID : t \in {u \in Task : inflight[g][u] # NoEntry}}

inUse ==
    {tasks[t].leaseID : t \in Task} \cup {c.leaseID : c \in cycles} \cup {turn.leaseID}
        \cup {r[2] : r \in releasing}
        \cup UNION {boxedIDs(g) \cup trackedIDs(g) : g \in Gateway}

\* Runtime.NewID: an id no row, message or delivery still refers to.
NewID == CHOOSE id \in LeaseID : id \notin inUse

\* Ends a handler that leaves the grain as gr: starts a lease cycle when the
\* grain is unpaused, has none in flight and has credits.
maybeLease(gr, others) ==
    IF gr.paused \/ gr.leasing \/ totalCredits(gr.credits) = 0
    THEN grain' = gr /\ cycles' = others
    ELSE /\ LeaseID \ inUse # {}
         /\ grain' = [gr EXCEPT !.leasing = TRUE]
         /\ cycles' = others \cup
                {[leaseID |-> NewID, limit |-> Min({totalCredits(gr.credits), LeaseBatchMax}),
                  tasks |-> {}, called |-> FALSE, lost |-> FALSE]}

\* OnReceive of TaskEnqueued or TasksAvailable: a wake-up by the engine after
\* an enqueue, or by the reaper, the scheduler or the resolver.
TasksAvailable ==
    /\ idle
    /\ maybeLease(grain, cycles)
    /\ UNCHANGED <<brokerVars, turn, releasing, gatewayVars>>

\* The due rows a lease of this limit may claim: the highest priorities first.
claimable(limit) ==
    {S \in SUBSET waiting :
        /\ Cardinality(S) = Min({limit, Cardinality(waiting)})
        /\ \A t \in S : \A u \in waiting \ S : priority[u] <= priority[t]}

\* The piped broker call: claims up to limit due rows.
Lease(c) ==
    /\ ~c.called
    /\ \E S \in claimable(c.limit) :
           /\ tasks' = [t \in Task |-> IF t \in S
                                       THEN [tasks[t] EXCEPT !.state = "active", !.leaseID = c.leaseID]
                                       ELSE tasks[t]]
           /\ cycles' = (cycles \ {c}) \cup
                            (IF c.lost THEN {} ELSE {[c EXCEPT !.tasks = S, !.called = TRUE]})
    /\ UNCHANGED <<queuePaused, grain, turn, releasing, gatewayVars>>

\* The broker call fails: the cycle carries an error and no task.
LeaseFails(c) ==
    /\ ~c.called
    /\ cycles' = (cycles \ {c}) \cup (IF c.lost THEN {} ELSE {[c EXCEPT !.called = TRUE]})
    /\ UNCHANGED <<brokerVars, grain, turn, releasing, gatewayVars>>

\* OnReceive of StatusFailure: the result of one pipe is lost, a cycle's or a
\* release's, and the guard is cleared while a lease call may still run.
StatusFailure(lost) ==
    /\ idle
    /\ lost = {} => releasing # {}
    /\ Cardinality(lost) <= 1
    /\ grain' = [grain EXCEPT !.leasing = FALSE]
    /\ cycles' = (cycles \ lost) \cup {[c EXCEPT !.lost = TRUE] : c \in {d \in lost : ~d.called}}
    /\ UNCHANGED <<brokerVars, turn, releasing, gatewayVars>>

\* Mutant: the batch of a paused queue is released and then dispatched too.
finishLeaseCycleFallingThrough(c) ==
    /\ idle /\ c.called
    /\ cycles' = cycles \ {c}
    /\ grain' = [grain EXCEPT !.leasing = FALSE]
    /\ releasing' = IF grain.paused THEN releasing \cup {<<t, c.leaseID>> : t \in c.tasks} ELSE releasing
    /\ turn' = IF c.tasks = {} THEN Idle ELSE [Idle EXCEPT !.leaseID = c.leaseID, !.todo = c.tasks]
    /\ UNCHANGED <<brokerVars, gatewayVars>>

\* Mutant: the pause that landed during the cycle goes unnoticed.
finishLeaseCycleUnpaused(c) ==
    /\ idle /\ c.called
    /\ cycles' = cycles \ {c}
    /\ grain' = [grain EXCEPT !.leasing = FALSE]
    /\ turn' = IF c.tasks = {} THEN Idle ELSE [Idle EXCEPT !.leaseID = c.leaseID, !.todo = c.tasks]
    /\ UNCHANGED <<brokerVars, releasing, gatewayVars>>

\* finishLeaseCycle up to its loop: a failed or empty cycle ends here, and a
\* queue paused meanwhile releases the batch.
finishLeaseCycle(c) ==
    /\ idle /\ c.called
    /\ cycles' = cycles \ {c}
    /\ grain' = [grain EXCEPT !.leasing = FALSE]
    /\ IF grain.paused
       THEN releasing' = releasing \cup {<<t, c.leaseID>> : t \in c.tasks} /\ UNCHANGED turn
       ELSE /\ turn' = IF c.tasks = {} THEN Idle
                       ELSE [Idle EXCEPT !.leaseID = c.leaseID, !.todo = c.tasks]
            /\ UNCHANGED releasing
    /\ UNCHANGED <<brokerVars, gatewayVars>>

\* Mutant: a re-leased task is not recognised as holding its slot.
holdsNoSlot(t) == FALSE

holdsSlot(t) == concurrencyKey[t] # NoKey /\ t \in grain.inFlightKey

\* The concurrency key of t has no slot left and t holds none itself.
saturated(t) ==
    /\ concurrencyKey[t] # NoKey /\ ~holdsSlot(t)
    /\ concurrencyLimit > 0
    /\ grain.activeByKey[concurrencyKey[t]] >= concurrencyLimit

\* pickGateway: some registered gateway with a credit left.
eligible == {g \in grain.gateways : grain.credits[g] > 0}

removeGateway(gr, g) == [gr EXCEPT !.gateways = @ \ {g}, !.credits[g] = 0]

holdBack(t) ==
    /\ t \in turn.todo
    /\ saturated(t) \/ eligible = {}
    /\ turn' = [turn EXCEPT !.todo = @ \ {t}, !.undeliverable = @ \cup {t}]
    /\ UNCHANGED <<brokerVars, grain, cycles, releasing, gatewayVars>>

\* The grain after t is dispatched to g: one credit less, one slot taken.
dispatched(t, g) ==
    [grain EXCEPT !.credits[g] = @ - 1,
                  !.activeByKey = IF concurrencyKey[t] = NoKey \/ holdsSlot(t) THEN grain.activeByKey
                                  ELSE [grain.activeByKey EXCEPT ![concurrencyKey[t]] = @ + 1],
                  !.inFlightKey = IF concurrencyKey[t] = NoKey THEN @ ELSE @ \cup {t}]

\* One iteration of the loop for a task with a gateway to go to: TellActor
\* fails when the gateway's actor is gone, and the grain forgets it.
tellGateway(t, g) ==
    /\ t \in turn.todo /\ ~saturated(t) /\ g \in eligible
    /\ IF status[g] # "stopped"
       THEN /\ mailbox' = [mailbox EXCEPT ![g] = Append(@, [kind |-> "ExecuteTask", task |-> t, leaseID |-> turn.leaseID])]
            /\ grain' = dispatched(t, g)
            /\ turn' = [turn EXCEPT !.todo = @ \ {t}, !.dispatched = TRUE]
       ELSE /\ grain' = removeGateway(grain, g)
            /\ turn' = [turn EXCEPT !.todo = @ \ {t}, !.undeliverable = @ \cup {t}]
            /\ UNCHANGED mailbox
    /\ UNCHANGED <<brokerVars, cycles, releasing, status, inflight, running, reports>>

\* finishLeaseCycle after its loop: releases what was not dispatched and runs
\* another cycle when something was.
endLeaseCycle ==
    /\ ~idle /\ turn.todo = {}
    /\ releasing' = releasing \cup {<<t, turn.leaseID>> : t \in turn.undeliverable}
    /\ turn' = Idle
    /\ IF turn.dispatched THEN maybeLease(grain, cycles) ELSE UNCHANGED <<grain, cycles>>
    /\ UNCHANGED <<brokerVars, gatewayVars>>

\* releaseLeased: one Release call of the piped loop.
releaseLeased(r) ==
    /\ releasing' = releasing \ {r}
    /\ tasks' = Release(r[1], r[2])
    /\ UNCHANGED <<queuePaused, grain, turn, cycles, gatewayVars>>

\* The Release call fails, and the task waits for its lease to lapse.
releaseFails(r) ==
    /\ releasing' = releasing \ {r}
    /\ UNCHANGED <<brokerVars, grain, turn, cycles, gatewayVars>>

\* The report m leaves the bag.
received(m) ==
    /\ idle
    /\ reports[m] > 0
    /\ reports' = [reports EXCEPT ![m] = @ - 1]
    /\ UNCHANGED <<brokerVars, turn, releasing, status, mailbox, inflight, running>>

\* A new gateway is granted its capacity; a re-registration with the capacity
\* already known changes nothing.
registerGateway(g) ==
    /\ received(RegisterGateway(g))
    /\ maybeLease(IF g \in grain.gateways THEN grain
                  ELSE [grain EXCEPT !.gateways = @ \cup {g}, !.credits[g] = capacity[g]], cycles)

refill(gr, g) ==
    IF g \in gr.gateways THEN [gr EXCEPT !.credits[g] = Min({@ + 1, capacity[g]})] ELSE gr

addCredits(g) ==
    /\ received(GatewayCredit(g))
    /\ maybeLease(refill(grain, g), cycles)

releaseConcurrencyKey(gr, t) ==
    IF t \in gr.inFlightKey
    THEN [gr EXCEPT !.inFlightKey = @ \ {t}, !.activeByKey[concurrencyKey[t]] = @ - 1]
    ELSE gr

\* Mutant: a completion of a task that holds no slot returns before the refill.
recordKeyedCompletion(g, t) ==
    /\ received(TaskCompleted(g, t))
    /\ maybeLease(IF t \in grain.inFlightKey
                  THEN releaseConcurrencyKey(refill(grain, g), t) ELSE grain, cycles)

recordCompletion(g, t) ==
    /\ received(TaskCompleted(g, t))
    /\ maybeLease(releaseConcurrencyKey(refill(grain, g), t), cycles)

\* setPaused persists the flag, then applies it; resuming leases again.
DrainQueue ==
    /\ idle
    /\ queuePaused' = TRUE
    /\ grain' = [grain EXCEPT !.paused = TRUE]
    /\ UNCHANGED <<tasks, turn, cycles, releasing, gatewayVars>>

ResumeQueue ==
    /\ idle
    /\ queuePaused' = FALSE
    /\ maybeLease([grain EXCEPT !.paused = FALSE], cycles)
    /\ UNCHANGED <<tasks, turn, releasing, gatewayVars>>

\* broadcastCancel: an operator cancels an active task.
CancelActive(t) ==
    /\ idle /\ tasks[t].state = "active"
    /\ mailbox' = [g \in Gateway |->
                      IF g \in grain.gateways /\ status[g] # "stopped"
                      THEN Append(mailbox[g], [kind |-> "CancelActive", task |-> t])
                      ELSE mailbox[g]]
    /\ UNCHANGED <<brokerVars, grainVars, status, inflight, running, reports>>

\* A fresh grain: the persisted flag and nothing else.
activated(paused) ==
    [paused |-> paused, leasing |-> FALSE, gateways |-> {},
     credits |-> [g \in Gateway |-> 0], inFlightKey |-> {},
     activeByKey |-> [k \in Key |-> 0]]

\* The grain's node dies, or the grain passivates, and it is activated anew; a
\* loop under way is cut short, and a piped result is lost or reaches the new
\* activation.
OnActivate ==
    /\ grain' = activated(queuePaused)
    /\ turn' = Idle
    /\ \E lost \in SUBSET cycles :
           cycles' = (cycles \ lost) \cup {[c EXCEPT !.lost = TRUE] : c \in {d \in lost : ~d.called}}
    /\ \E lost \in SUBSET releasing : releasing' = releasing \ lost
    /\ UNCHANGED <<brokerVars, gatewayVars>>

(***************************************************************************)
(* The gateways and their workers                                          *)
(***************************************************************************)
\* The next message of g's mailbox is of this kind.
next(g, kind) ==
    /\ status[g] # "stopped"
    /\ mailbox[g] # <<>>
    /\ Head(mailbox[g]).kind = kind

\* SpawnGateway: a session opens and its gateway registers (PostStart).
PostStart(g) ==
    /\ status[g] = "new"
    /\ status' = [status EXCEPT ![g] = "up"]
    /\ tellQueueGrain(RegisterGateway(g))
    /\ UNCHANGED <<brokerVars, grainVars, mailbox, inflight, running>>

\* registerTick.  One registration in flight stands for any number of them.
register(g) ==
    /\ status[g] \in {"up", "closed"}
    /\ reports[RegisterGateway(g)] = 0
    /\ tellQueueGrain(RegisterGateway(g))
    /\ UNCHANGED <<brokerVars, grainVars, status, mailbox, inflight, running>>

\* dispatch of an ExecuteTask: tracks the delivery, in place of an earlier one
\* of the same task, and sends it to the worker; a broken stream releases it.
dispatch(g) ==
    /\ next(g, "ExecuteTask")
    /\ LET m == Head(mailbox[g]) IN
       IF status[g] = "up"
       THEN /\ inflight' = [inflight EXCEPT ![g][m.task] =
                   [leaseID |-> m.leaseID, cancelRequested |-> FALSE]]
            /\ running' = [running EXCEPT ![g][m.task] = @ + 1]
            /\ UNCHANGED tasks
       ELSE /\ inflight' = [inflight EXCEPT ![g][m.task] = NoEntry]
            /\ tasks' = Release(m.task, m.leaseID)
            /\ UNCHANGED running
    /\ mailbox' = [mailbox EXCEPT ![g] = Tail(@)]
    /\ UNCHANGED <<queuePaused, grainVars, status, reports>>

cancelActive(g) ==
    /\ next(g, "CancelActive")
    /\ LET t == Head(mailbox[g]).task IN
       inflight' = IF inflight[g][t] = NoEntry THEN inflight
                   ELSE [inflight EXCEPT ![g][t].cancelRequested = TRUE]
    /\ mailbox' = [mailbox EXCEPT ![g] = Tail(@)]
    /\ UNCHANGED <<brokerVars, grainVars, status, running, reports>>

\* Mutant: a canceled delivery that is released goes back to be redelivered.
applyOutcomeRedelivering(t, entry, outcome) ==
    CASE outcome = "SUCCESS" -> settle(t, entry.leaseID, "completed", tasks[t].retried)
      [] outcome = "RETRY" /\ ~entry.cancelRequested /\ tasks[t].retried < MaxRetry ->
             settle(t, entry.leaseID, "waiting", tasks[t].retried + 1)
      [] outcome = "RELEASED" -> Release(t, entry.leaseID)
      [] OTHER -> settle(t, entry.leaseID, "archived", tasks[t].retried)

\* applyOutcome: the durable transition a worker's result stands for.  The
\* gateway decides on the retry count it was handed with the delivery, which is
\* the row's for as long as the lease holds.
applyOutcome(t, entry, outcome) ==
    CASE outcome = "SUCCESS" -> settle(t, entry.leaseID, "completed", tasks[t].retried)
      [] outcome = "RETRY" /\ ~entry.cancelRequested /\ tasks[t].retried < MaxRetry ->
             settle(t, entry.leaseID, "waiting", tasks[t].retried + 1)
      [] outcome = "RELEASED" /\ ~entry.cancelRequested -> Release(t, entry.leaseID)
      [] OTHER -> settle(t, entry.leaseID, "archived", tasks[t].retried)

\* result: the worker reports one execution of t.  A result for a task the
\* gateway does not track is dropped; any other is applied under the lease the
\* gateway tracks and reported to the grain, whether the lease held or not.
result(g, t, outcome) ==
    /\ status[g] = "up"
    /\ running[g][t] > 0
    /\ running' = [running EXCEPT ![g][t] = @ - 1]
    /\ IF inflight[g][t] = NoEntry
       THEN UNCHANGED <<tasks, inflight, reports>>
       ELSE /\ tasks' = applyOutcome(t, inflight[g][t], outcome)
            /\ inflight' = [inflight EXCEPT ![g][t] = NoEntry]
            /\ tellQueueGrain(TaskCompleted(g, t))
    /\ UNCHANGED <<queuePaused, grainVars, status, mailbox>>

\* Mutant: the credit of a lost delivery is returned, its entry kept.
heartbeatKeeping(g, t) ==
    /\ status[g] = "up"
    /\ running[g][t] > 0
    /\ inflight[g][t] # NoEntry
    /\ ~activeRow(t, inflight[g][t].leaseID)
    /\ reports[GatewayCredit(g)] = 0
    /\ tellQueueGrain(GatewayCredit(g))
    /\ UNCHANGED <<brokerVars, grainVars, status, mailbox, inflight, running>>

\* heartbeat for a task whose lease is lost: the delivery is dropped and its
\* credit returned.  (A lease that holds is extended: no step of this model.)
heartbeat(g, t) ==
    /\ status[g] = "up"
    /\ running[g][t] > 0
    /\ inflight[g][t] # NoEntry
    /\ ~activeRow(t, inflight[g][t].leaseID)
    /\ inflight' = [inflight EXCEPT ![g][t] = NoEntry]
    /\ tellQueueGrain(GatewayCredit(g))
    /\ UNCHANGED <<brokerVars, grainVars, status, mailbox, running>>

\* credit: the worker opens a slot without finishing a task.
credit(g) ==
    /\ status[g] = "up"
    /\ tellQueueGrain(GatewayCredit(g))
    /\ UNCHANGED <<brokerVars, grainVars, status, mailbox, inflight, running>>

\* The stream ends, for whatever reason: the session handler asks the gateway
\* to drain, behind the messages already in its mailbox.
CloseStream(g) ==
    /\ status[g] = "up"
    /\ status' = [status EXCEPT ![g] = "closed"]
    /\ running' = [running EXCEPT ![g] = [t \in Task |-> 0]]
    /\ mailbox' = [mailbox EXCEPT ![g] = Append(@, [kind |-> "drainSession"])]
    /\ UNCHANGED <<brokerVars, grainVars, inflight, reports>>

drain(g) ==
    /\ next(g, "drainSession")
    /\ tasks' = ReleaseAll({<<t, inflight[g][t].leaseID>> :
                               t \in {u \in Task : inflight[g][u] # NoEntry}})
    /\ inflight' = [inflight EXCEPT ![g] = [t \in Task |-> NoEntry]]
    /\ mailbox' = [mailbox EXCEPT ![g] = Tail(@)]
    /\ status' = [status EXCEPT ![g] = "drained"]
    /\ UNCHANGED <<queuePaused, grainVars, running, reports>>

\* unregisterGateway waits for the grain to run the message.
unregisterGateway(g) ==
    /\ idle /\ status[g] = "drained"
    /\ status' = [status EXCEPT ![g] = "unregistered"]
    /\ grain' = removeGateway(grain, g)
    /\ UNCHANGED <<brokerVars, turn, cycles, releasing, mailbox, inflight, running, reports>>

\* The actor stops and its mailbox is gone: the last step of Stop, or the death
\* of its node.  (A Stop whose drain timed out, or whose unregistration failed,
\* leaves what a node's death leaves.)
Shutdown(g) ==
    /\ status' = [status EXCEPT ![g] = "stopped"]
    /\ mailbox' = [mailbox EXCEPT ![g] = <<>>]
    /\ inflight' = [inflight EXCEPT ![g] = [t \in Task |-> NoEntry]]
    /\ running' = [running EXCEPT ![g] = [t \in Task |-> 0]]
    /\ UNCHANGED <<brokerVars, grainVars, reports>>

Stop(g) == status[g] = "unregistered" /\ Shutdown(g)

NodeDeath(g) == status[g] \in {"up", "closed", "drained", "unregistered"} /\ Shutdown(g)

\* TellGrain fails: the report is logged and gone.
LoseReport(m) ==
    /\ reports[m] > 0
    /\ reports' = [reports EXCEPT ![m] = @ - 1]
    /\ UNCHANGED <<brokerVars, grainVars, status, mailbox, inflight, running>>

\* Engine.Enqueue commits the task; the wake-up that follows is a hint.
Enqueue(t) ==
    /\ tasks[t].state = "absent"
    /\ tasks' = [tasks EXCEPT ![t].state = "waiting"]
    /\ UNCHANGED <<queuePaused, grainVars, gatewayVars>>

\* ReapExpiredLeases for one row whose lease has lapsed.
Reap(t) ==
    /\ tasks[t].state = "active"
    /\ LET row == tasks[t] IN
       tasks' = [tasks EXCEPT ![t] =
                    IF row.retried >= MaxRetry
                    THEN [row EXCEPT !.state = "archived", !.leaseID = NoLease]
                    ELSE [row EXCEPT !.state = "waiting", !.leaseID = NoLease, !.retried = @ + 1]]
    /\ UNCHANGED <<queuePaused, grainVars, gatewayVars>>

(***************************************************************************)
(* The specification                                                       *)
(***************************************************************************)
Outcome == {"SUCCESS", "RETRY", "SKIP_RETRY", "RELEASED"}

Init ==
    /\ tasks = [t \in Task |-> [state |-> IF t \in Late THEN "absent" ELSE "waiting",
                                leaseID |-> NoLease, retried |-> 0]]
    /\ queuePaused = FALSE
    /\ grain = activated(FALSE)
    /\ turn = Idle
    /\ cycles = {}
    /\ releasing = {}
    /\ status = [g \in Gateway |-> "new"]
    /\ mailbox = [g \in Gateway |-> <<>>]
    /\ inflight = [g \in Gateway |-> [t \in Task |-> NoEntry]]
    /\ running = [g \in Gateway |-> [t \in Task |-> 0]]
    /\ reports = [m \in Report |-> 0]

GrainStep ==
    \/ \E c \in cycles : finishLeaseCycle(c)
    \/ \E t \in Task : holdBack(t) \/ \E g \in Gateway : tellGateway(t, g)
    \/ endLeaseCycle
    \/ \E g \in Gateway : \/ registerGateway(g) \/ addCredits(g)
                          \/ \E t \in Task : recordCompletion(g, t)

PipedStep ==
    \/ \E c \in cycles : Lease(c)
    \/ \E r \in releasing : releaseLeased(r)

GatewayStep ==
    \E g \in Gateway :
        \/ PostStart(g) \/ register(g) \/ dispatch(g)
        \/ \E t \in Task : heartbeat(g, t) \/ \E o \in Outcome : result(g, t, o)

SessionEnd ==
    \E g \in Gateway : CloseStream(g) \/ drain(g) \/ unregisterGateway(g) \/ Stop(g)

PauseStep == DrainQueue \/ ResumeQueue

CancelStep ==
    \/ \E t \in Task : CancelActive(t)
    \/ \E g \in Gateway : cancelActive(g)

Failure ==
    \/ \E c \in cycles : LeaseFails(c)
    \/ \E r \in releasing : releaseFails(r)
    \/ \E g \in Gateway : NodeDeath(g)
    \/ \E m \in Report : LoseReport(m)
    \/ \E lost \in SUBSET cycles : StatusFailure(lost)
    \/ OnActivate

Next ==
    \/ TasksAvailable \/ GrainStep \/ PipedStep \/ GatewayStep
    \/ SessionEnd \/ PauseStep \/ CancelStep \/ Failure
    \/ \E g \in Gateway : credit(g)
    \/ \E t \in Task : Enqueue(t) \/ Reap(t)

Spec == Init /\ [][Next]_vars

(***************************************************************************)
(* Properties                                                              *)
(***************************************************************************)
GrainType == [paused : BOOLEAN, leasing : BOOLEAN, gateways : SUBSET Gateway,
              credits : [Gateway -> Nat], inFlightKey : SUBSET Task,
              activeByKey : [Key -> Int]]

TurnType == [leaseID : LeaseID \cup {NoLease}, todo : SUBSET Task,
             undeliverable : SUBSET Task, dispatched : BOOLEAN]

Cycle(limits) ==
    [leaseID : LeaseID, limit : limits, tasks : SUBSET Task, called : BOOLEAN, lost : BOOLEAN]

\* Every variable holds a value of its kind, leaving open what limit a cycle has.
Shaped ==
    /\ tasks \in [Task -> Row]
    /\ queuePaused \in BOOLEAN
    /\ grain \in GrainType
    /\ turn \in TurnType /\ (turn.leaseID = NoLease => turn.todo \cup turn.undeliverable = {})
    /\ \A c \in cycles : c \in Cycle({c.limit})
    /\ releasing \subseteq Task \X LeaseID
    /\ status \in [Gateway -> {"new", "up", "closed", "drained", "unregistered", "stopped"}]
    /\ mailbox \in [Gateway -> Seq(Execute \cup Control)]
    /\ inflight \in [Gateway -> [Task -> Entry \cup {NoEntry}]]
    /\ running \in [Gateway -> [Task -> Nat]]
    /\ reports \in [Report -> Nat]

\* Every variable holds a value of its kind.
TypeOK == Shaped /\ cycles \subseteq Cycle(Nat)

\* The deliveries queued in g's mailbox.
queued(g) == {i \in DOMAIN mailbox[g] : mailbox[g][i].kind = "ExecuteTask"}
tracked(g) == {t \in Task : inflight[g][t] # NoEntry}

\* Where the delivery of t under lease is: in a finished cycle, in the loop, in
\* a Release call to come, in a gateway's mailbox or in its inflight map.
places(t, lease) ==
    {<<"cycle", c>> : c \in {d \in cycles : d.leaseID = lease /\ t \in d.tasks}}
        \cup {<<"turn">> : u \in {v \in {turn} : v.leaseID = lease /\ t \in v.todo \cup v.undeliverable}}
        \cup {<<"releasing", r>> : r \in releasing \cap {<<t, lease>>}}
        \cup {<<"inflight", g>> : g \in {h \in Gateway :
                         inflight[h][t] # NoEntry /\ inflight[h][t].leaseID = lease}}
        \cup UNION {{<<"mailbox", g, i>> : i \in {j \in queued(g) :
                         mailbox[g][j].task = t /\ mailbox[g][j].leaseID = lease}} : g \in Gateway}

\* A lease is held in one place: no interleaving of lease cycles, pauses,
\* releases, failed tells, gateway shutdowns and grain activations hands the
\* same lease of a task to two owners, so a task is never delivered twice
\* under one lease, nor released while a gateway works on it.
DeliveredOnce ==
    \A t \in Task : tasks[t].state = "active" =>
        Cardinality(places(t, tasks[t].leaseID)) <= 1

\* The keyed semaphore counts what it maps: activeByKey (the counter
\* finishLeaseCycle compares with the limit) is the number of tasks in
\* inFlightKey with that key, and stays within the limit, across re-leases,
\* late completions and completions of tasks that hold no slot.
SlotsCounted ==
    \A k \in Key :
        /\ grain.activeByKey[k] = Cardinality({t \in grain.inFlightKey : concurrencyKey[t] = k})
        /\ concurrencyLimit > 0 => grain.activeByKey[k] <= concurrencyLimit

\* Credits the grain will return to g when the reports in flight arrive.
refunds(g) ==
    reports[GatewayCredit(g)] + MapThenSumSet(LAMBDA t : reports[TaskCompleted(g, t)], Task)

outstanding(g) == Cardinality(queued(g)) + Cardinality(tracked(g))

\* Flow control: what a live session has been sent and not answered, the
\* credits it still has and the ones on their way back never exceed the
\* capacity it registered (docs/protocol.md, the credit model).
CreditsBounded ==
    \A g \in Gateway : status[g] = "up" =>
        grain.credits[g] + outstanding(g) + refunds(g) <= capacity[g]

\* The counters a grain decides by are exact: slots by key, and credits by session.
CountersExact == TypeOK /\ SlotsCounted /\ CreditsBounded

\* Whatever fails, a lease has one owner and a slot one occupant.
OwnershipExact == DeliveredOnce /\ SlotsCounted

\* No credit is lost for good: a registered session with nothing queued,
\* tracked, running or on its way has all its credits.
CreditsReturn ==
    \A g \in grain.gateways :
        /\ status[g] = "up"
        /\ outstanding(g) + refunds(g) = 0
        /\ \A t \in Task : running[g][t] = 0
        => grain.credits[g] = capacity[g]

\* The tasks with key k that some gateway holds under the lease the row has.
delivered(k) ==
    {t \in Task : /\ concurrencyKey[t] = k /\ tasks[t].state = "active"
                  /\ \E g \in Gateway : inflight[g][t] # NoEntry
                                        /\ inflight[g][t].leaseID = tasks[t].leaseID}

\* A keyed queue never runs more than its limit per key.
KeyLimit ==
    concurrencyLimit > 0 => \A k \in Key : Cardinality(delivered(k)) <= concurrencyLimit

\* A queue that is paused sends no task to a gateway, though a lease cycle
\* started before the pause may complete after it.
PausedQueueHolds ==
    [][queuePaused =>
          \A g \in Gateway : Cardinality(queued(g)') <= Cardinality(queued(g))]_vars

\* An operator's cancel sticks: once the gateway has marked the delivery, no
\* report of its worker, whatever the outcome and whichever execution of the
\* task it stems from, sends the task back to be delivered again.
CancelSticks ==
    [][\A g \in Gateway : \A t \in Task :
          inflight[g][t] # NoEntry /\ running'[g][t] < running[g][t] /\ status'[g] = "up"
              => (inflight[g][t].cancelRequested => tasks'[t].state # "waiting"
                                                        \/ tasks[t].state = "waiting")]_vars

\* No wake-up, credit or slot is lost for good: as long as one session stays,
\* every task is settled in the end, though the other session ends or its node
\* dies with tasks in flight, and though the tasks share one concurrency slot.
EveryTaskSettles ==
    \A t \in Task : <>(tasks[t].state \in {"completed", "archived"})

-----------------------------------------------------------------------------
(***************************************************************************)
(* Inductive strengthenings, used by DispatchProofs                        *)
(***************************************************************************)
\* Where the delivery of t under lease is held, or may yet be claimed by a cycle
\* whose broker call is under way.
claimed(t, lease) == \E c \in cycles : c.leaseID = lease /\ (~c.called \/ t \in c.tasks)
inTurn(t, lease) == turn.leaseID = lease /\ t \in turn.todo \cup turn.undeliverable
inRelease(t, lease) == <<t, lease>> \in releasing
boxedAt(g, i, t, lease) ==
    /\ mailbox[g][i].kind = "ExecuteTask"
    /\ mailbox[g][i].task = t
    /\ mailbox[g][i].leaseID = lease
inBox(g, t, lease) == \E i \in DOMAIN mailbox[g] : boxedAt(g, i, t, lease)
inFlight(g, t, lease) == inflight[g][t] # NoEntry /\ inflight[g][t].leaseID = lease

\* One holder at a time, whatever the row's lease is now.
OneHolder(t, lease) ==
    /\ claimed(t, lease) => ~inTurn(t, lease) /\ ~inRelease(t, lease)
    /\ inTurn(t, lease) => ~inRelease(t, lease)
    /\ claimed(t, lease) \/ inTurn(t, lease) \/ inRelease(t, lease) =>
          \A g \in Gateway : ~inBox(g, t, lease) /\ ~inFlight(g, t, lease)
    /\ \A g, h \in Gateway :
          /\ ~(inBox(g, t, lease) /\ inFlight(h, t, lease))
          /\ inBox(g, t, lease) /\ inBox(h, t, lease) => g = h
          /\ inFlight(g, t, lease) /\ inFlight(h, t, lease) => g = h

\* The lease id of a cycle is its own, and an uncalled cycle has no tasks yet.
CyclesDistinct ==
    /\ \A c, d \in cycles : c.leaseID = d.leaseID => c = d
    /\ \A c \in cycles : ~c.called => c.tasks = {}

\* A mailbox holds a delivery once.
BoxedOnce(g) ==
    \A i, j \in DOMAIN mailbox[g] :
        /\ mailbox[g][i].kind = "ExecuteTask" /\ mailbox[g][j].kind = "ExecuteTask"
        /\ mailbox[g][i].task = mailbox[g][j].task
        /\ mailbox[g][i].leaseID = mailbox[g][j].leaseID
        => i = j

LeaseInv ==
    /\ CyclesDistinct
    /\ turn.todo \cap turn.undeliverable = {}
    /\ \A g \in Gateway : BoxedOnce(g)
    /\ \A t \in Task, lease \in LeaseID : OneHolder(t, lease)

\* Slots are counted, and only tasks with a key hold one.
SlotInv == SlotsCounted /\ \A t \in grain.inFlightKey : concurrencyKey[t] # NoKey

\* The grain knows of the pause, and no loop is under way while it lasts.
PauseInv == queuePaused = grain.paused /\ (grain.paused => idle)
=============================================================================
