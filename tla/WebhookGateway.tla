---------------------------- MODULE WebhookGateway ----------------------------
(***************************************************************************)
(* The webhook gateway actor (internal/actors/webhook_gateway.go): the     *)
(* bridge between queue grains and one HTTP endpoint.  Each action is one  *)
(* mailbox turn, or one step of what surrounds the actor: a grain that     *)
(* dispatches, a clock, the reaper, the endpoint's callbacks.              *)
(*                                                                         *)
(* A dispatch is [lease, tasks, batch]; it waits in mailbox until deliver  *)
(* posts it, and is then an open request until its answer is handled.  An  *)
(* HTTP answer carries no lease id, so complete finds its delivery by task *)
(* id alone.  What a grain is told is applied at once: a grain never reads *)
(* the gateway's state, so a dispatch made on older credits is the same    *)
(* dispatch made earlier and delivered late.                               *)
(***************************************************************************)
EXTENDS Capacity, TLC

CONSTANTS
  Task, Queue,       \* queue names are numbers, see Capacity
  queueOf,           \* the queue each task belongs to
  Registration,      \* the snapshots: [queues |-> weights, concurrency |-> n]
  MaxRetry,          \* the retry budget of every task
  MaxLeases,         \* bound: lease cycles that dispatch to this gateway
  MaxBeats,          \* bound: heartbeats the endpoint sends
  MaxStarts,         \* bound: starts of the actor after the first
  BrokerFails        \* whether a broker call may fail for a transient reason

VARIABLES
  rows,          \* the task log: state, lease and whether the lease expired
  leased,        \* how many leases were taken
  grain,         \* what each queue's grain holds for this gateway
  mailbox,       \* dispatches sent to the gateway and not yet delivered
  requests,      \* posted deliveries whose answer was not yet handled
  registration, inflight, async, batchStates,
  breaker,       \* the endpoint breaker of the library, and its lapsed timer
  mode,          \* full, withholding or probing, and the lapsed probe timer
  typeOpen,      \* the per-type breaker is open
  deferred,      \* completion reports withheld while it is
  draining, running, starts, beats,
  resolving,     \* tasks handed to the resolver pool
  forgotten      \* deliveries whose tracking was lost with their slot

task == <<rows, leased>>
actor == <<registration, inflight, async, batchStates, draining, running, starts>>
health == <<breaker, mode, typeOpen>>
wires == <<mailbox, requests, deferred, beats>>
vars == <<task, grain, actor, health, wires, resolving, forgotten>>

NoEntry == [lease |-> 0, canceled |-> FALSE]
NoBeat == [lease |-> 0, stale |-> FALSE]
Outcome == {"SUCCESS", "RETRY", "SKIP_RETRY", "RELEASED"}
Answer == {"TransportFailure", "Completed", "Accepted", "Retry", "SkipRetry"}

tracked == {t \in Task : inflight[t] # NoEntry}
isAsync == {t \in Task : async[t] # NoBeat}
serves(q) == q \in DOMAIN registration.queues

\* capacity: nothing while withholding, one while probing, else the share.
capacity(q, as) ==
  CASE as = "withholding" -> 0
    [] as = "probing" -> 1
    [] OTHER -> splitCapacity(registration.concurrency, registration.queues)[q]

\* register: announce the capacity to every served queue, unless draining.
register(g, as) ==
  IF draining THEN g
  ELSE [q \in Queue |-> IF serves(q) THEN registered(g[q], capacity(q, as)) ELSE g[q]]

\* The lease of a delivery still owns its row: what every broker call checks.
owns(t) == rows[t].state = "active" /\ rows[t].lease = inflight[t].lease

Init ==
  /\ rows = [t \in Task |-> [state |-> "pending", lease |-> 0, expired |-> FALSE,
                             retried |-> 0]]
  /\ leased = 0 /\ mailbox = {} /\ requests = {} /\ deferred = {} /\ beats = 0
  /\ registration \in Registration
  /\ inflight = [t \in Task |-> NoEntry] /\ async = [t \in Task |-> NoBeat]
  /\ batchStates = << >>
  /\ breaker = [state |-> "Closed", due |-> FALSE]
  /\ mode = [as |-> "full", due |-> FALSE]
  /\ typeOpen = FALSE /\ draining = FALSE /\ running = TRUE /\ starts = 0
  /\ grain = register([q \in Queue |-> Unregistered], "full")
  /\ resolving = {} /\ forgotten = {}

-------------------------------------------------------------------------------
(* The surroundings: queue grain, clock, reaper.                            *)

\* A grain leases due tasks and dispatches them on one credit: one task, or a
\* fired group as one batch.
dispatch(q, T, batch) ==
  /\ running /\ leased < MaxLeases /\ grain[q].credits > 0
  /\ \A t \in T : queueOf[t] = q /\ rows[t].state = "pending"
  /\ leased' = leased + 1
  /\ rows' = [t \in Task |-> IF t \notin T THEN rows[t]
                ELSE [rows[t] EXCEPT !.state = "active", !.lease = leased', !.expired = FALSE]]
  /\ grain' = [grain EXCEPT ![q].credits = @ - 1]
  /\ mailbox' = mailbox \union {[lease |-> leased', tasks |-> T, batch |-> batch]}
  /\ UNCHANGED <<actor, health, requests, deferred, beats, resolving, forgotten>>

\* The grain's dispatch to a stopped gateway fails: the grain forgets it and
\* releases the tasks it had leased.
unreachable(q) ==
  /\ ~running /\ grain[q].credits > 0
  /\ grain' = [grain EXCEPT ![q] = Unregistered]
  /\ UNCHANGED <<task, actor, health, wires, resolving, forgotten>>

leaseExpires(t) ==
  /\ rows[t].state = "active" /\ ~rows[t].expired
  /\ rows' = [rows EXCEPT ![t].expired = TRUE]
  /\ UNCHANGED <<leased, grain, actor, health, wires, resolving, forgotten>>

\* The reaper takes an expired lease back: one more retry, or the archive.
reap(t) ==
  /\ rows[t].state = "active" /\ rows[t].expired
  /\ rows' = [rows EXCEPT ![t] =
       [state |-> IF @.retried < MaxRetry THEN "pending" ELSE "archived",
        lease |-> 0, expired |-> FALSE, retried |-> least(@.retried + 1, MaxRetry)]]
  /\ UNCHANGED <<leased, grain, actor, health, wires, resolving, forgotten>>

\* The last heartbeat of an accepted delivery is older than the lease TTL.  The
\* lease it extended at that moment has then expired, or been taken back.
beatLapses(t) ==
  /\ async[t] # NoBeat /\ ~async[t].stale
  /\ \/ rows[t].lease # async[t].lease \/ rows[t].expired
  /\ async' = [async EXCEPT ![t].stale = TRUE]
  /\ UNCHANGED <<task, grain, registration, inflight, batchStates, draining, running,
                 starts, health, wires, resolving, forgotten>>

\* The open timeout passes: for the library's breaker, and for the probe timer
\* the gateway keeps itself.  Each measures on its own clock.
breakerTimeout ==
  /\ breaker.state = "Open" /\ ~breaker.due
  /\ breaker' = [breaker EXCEPT !.due = TRUE]
  /\ UNCHANGED <<task, grain, actor, mode, typeOpen, wires, resolving, forgotten>>

probeTimeout ==
  /\ mode.as = "withholding" /\ ~mode.due
  /\ mode' = [mode EXCEPT !.due = TRUE]
  /\ UNCHANGED <<task, grain, actor, breaker, typeOpen, wires, resolving, forgotten>>

-------------------------------------------------------------------------------
(* Deliveries.                                                              *)

entry(m) == [lease |-> m.lease, canceled |-> FALSE]
single(t) == inflight[t].lease \notin DOMAIN batchStates

lost(t, l, batch) == [task |-> t, lease |-> l, batch |-> batch]

\* The entries that a new delivery of the same tasks replaces.
overwritten(m) ==
  forgotten \union {lost(t, inflight[t].lease, ~single(t)) : t \in m.tasks \intersect tracked}

\* Every slot an actor holds when it dies without a drain.
abandoned ==
  forgotten \union {lost(t, inflight[t].lease, FALSE) : t \in {u \in tracked : single(u)}}
            \union {lost(CHOOSE t \in batchStates[l].members : TRUE, l, FALSE) :
                       l \in DOMAIN batchStates}

\* deliver: post the task and track it under its id, over whatever was tracked
\* under that id before.
deliver(m) ==
  /\ m \in mailbox /\ running /\ ~m.batch
  /\ mailbox' = mailbox \ {m}
  /\ requests' = requests \union {m}
  /\ inflight' = [t \in Task |-> IF t \in m.tasks THEN entry(m) ELSE inflight[t]]
  /\ forgotten' = overwritten(m)
  /\ UNCHANGED <<task, grain, registration, async, batchStates, draining, running, starts,
                 health, deferred, beats, resolving>>

\* deliverBatch: one POST for the group; its members share one lease and one
\* credit, counted down in batchStates.
deliverBatch(m) ==
  /\ m \in mailbox /\ running /\ m.batch
  /\ mailbox' = mailbox \ {m}
  /\ requests' = requests \union {m}
  /\ inflight' = [t \in Task |-> IF t \in m.tasks THEN entry(m) ELSE inflight[t]]
  /\ batchStates' = (m.lease :> [queue |-> CHOOSE q \in Queue : \E t \in m.tasks : queueOf[t] = q, members |-> m.tasks,
                                 remaining |-> Cardinality(m.tasks)])
                    @@ batchStates
  /\ forgotten' = overwritten(m)
  /\ UNCHANGED <<task, grain, registration, async, draining, running, starts,
                 health, deferred, beats, resolving>>

-------------------------------------------------------------------------------
(* The endpoint breaker: which capacity the gateway announces.              *)

\* The library's breaker, as the gateway uses it: a sample in the closed state
\* may trip it, an open one drops samples until its timeout, then the next call
\* probes (half-open) and decides, or waits for more samples.
sampled(failed) ==
  LET to(states) == {[state |-> s, due |-> FALSE] : s \in states}
  IN  CASE breaker.state = "Closed" -> to(IF failed THEN {"Closed", "Open"} ELSE {"Closed"})
        [] breaker.state = "Open" /\ ~breaker.due -> {breaker}
        [] OTHER -> to(IF failed THEN {"Open"} ELSE {"HalfOpen", "Closed"})

Withheld == [as |-> "withholding", due |-> FALSE]
Probing == [as |-> "probing", due |-> FALSE]
Full == [as |-> "full", due |-> FALSE]

\* Mutant: once withheld, capacity waits for a breaker that nothing moves.
syncBreakerCapacityStuck(b) ==
  CASE mode.as = "full" /\ b.state = "Open" -> Withheld
    [] mode.as = "withholding" /\ b.state # "Open" -> Probing
    [] OTHER -> mode

\* syncBreakerCapacity: withhold as soon as the breaker opens, probe once the
\* gateway's own timer has lapsed.
syncBreakerCapacity(b) ==
  CASE mode.as = "full" /\ b.state = "Open" -> Withheld
    [] mode.as = "withholding" /\ mode.due -> Probing
    [] OTHER -> mode

\* resolveProbe: a sample handled while probing decides the probe, whichever
\* delivery it belongs to.
resolveProbe(b) ==
  CASE b.state = "Closed" -> Full
    [] b.state = "Open" -> Withheld
    [] OTHER -> mode

\* recordTransport: sample, then announce what the breaker's state demands.
recordTransport(failed) ==
  /\ breaker' \in sampled(failed)
  /\ mode' = IF mode.as = "probing" THEN resolveProbe(breaker')
             ELSE syncBreakerCapacity(breaker')

-------------------------------------------------------------------------------
(* Answers.                                                                 *)

\* resolveBatchMember: count the resolved members out of their batches; a batch
\* without members left is gone, and its one credit is reported.
resolveBatchMember(T) ==
  LET left(l) == batchStates[l].remaining - Cardinality({t \in T : inflight[t].lease = l})
  IN  [l \in {k \in DOMAIN batchStates : left(k) > 0} |->
         [batchStates[l] EXCEPT !.remaining = left(l)]]

\* Mutant: a finished batch does not return its credit.
reportedSingles(g, singles, batches) ==
  [q \in Queue |->
     IF ~serves(q) THEN g[q]
     ELSE refilled(g[q], Cardinality({t \in singles : queueOf[t] = q}))]

\* reportCompletion, reportBatchCompletion and refillCredit: one credit per
\* single delivery and per finished batch, unless its queue is no longer served.
reported(g, singles, batches) ==
  [q \in Queue |->
     IF ~serves(q) THEN g[q]
     ELSE refilled(g[q], Cardinality({t \in singles : queueOf[t] = q})
                       + Cardinality({l \in batches : batchStates[l].queue = q}))]

\* Stop tracking T, and track the accepted tasks A as asynchronous.  The slots
\* are reported, those of the tasks in held excepted.
forget(T, A, held, g) ==
  /\ inflight' = [t \in Task |-> IF t \in T THEN NoEntry ELSE inflight[t]]
  /\ async' = [t \in Task |->
       CASE t \in A -> [lease |-> inflight[t].lease, stale |-> FALSE]
         [] t \in T -> NoBeat
         [] OTHER -> async[t]]
  /\ batchStates' = resolveBatchMember(T)
  /\ grain' = reported(g, {t \in T \ held : single(t)}, DOMAIN batchStates \ DOMAIN batchStates')

\* applyOutcome: the durable transition of an owned delivery.  A canceled one
\* archives instead of running again.  The retry delay is abstracted.
applyOutcome(t, outcome) ==
  LET row == [rows[t] EXCEPT !.lease = 0, !.expired = FALSE]
  IN  CASE outcome = "SUCCESS" -> [row EXCEPT !.state = "completed"]
        [] outcome = "SKIP_RETRY" -> [row EXCEPT !.state = "archived"]
        [] inflight[t].canceled -> [row EXCEPT !.state = "archived"]
        [] outcome = "RETRY" /\ row.retried >= MaxRetry -> [row EXCEPT !.state = "archived"]
        [] outcome = "RETRY" -> [row EXCEPT !.state = "pending", !.retried = @ + 1]
        [] OTHER -> [row EXCEPT !.state = "pending"]

Terminal == {"completed", "archived"}
TransientFailures(T) == IF BrokerFails THEN SUBSET T ELSE {{}}

\* recordTypeOutcome: failures may open the type's breaker, a success may close it.
recordTypeOutcome(outcomes) ==
  typeOpen' \in {typeOpen} \union (IF "RETRY" \in outcomes THEN {TRUE} ELSE {})
                          \union (IF "SUCCESS" \in outcomes THEN {FALSE} ELSE {})

\* resolveDependents: told only of the tasks this delivery itself made terminal.
handOver(T, out, failing) ==
  resolving' = resolving \union {t \in T \ failing : owns(t) /\ applyOutcome(t, out[t]).state \in Terminal}

\* resolveDelivery, for the tasks of one answer: the durable transitions, the
\* type breaker, the resolver pool, and the slots, deferred while the type's
\* breaker is open.  A broker call that fails leaves its row to lease expiry.
resolveDelivery(T, out, A, g) ==
  \E failing \in TransientFailures(T) :
    /\ rows' = [t \in Task |-> IF t \in T \ failing /\ owns(t) THEN applyOutcome(t, out[t])
                               ELSE rows[t]]
    /\ recordTypeOutcome({out[t] : t \in T})
    /\ handOver(T, out, failing)
    /\ LET held == IF typeOpen' THEN {t \in T : single(t)} ELSE {}
       IN  /\ deferred' = deferred \union {[task |-> t, lease |-> inflight[t].lease] : t \in held}
           /\ forget(T, A, held, g)

\* Classify and deliveryResult, batchMemberResult: what an answer means.
deliveryResult(answer) ==
  CASE answer = "Completed" -> "SUCCESS"
    [] answer = "SkipRetry" -> "SKIP_RETRY"
    [] answer = "Omitted" -> "RELEASED"
    [] OTHER -> "RETRY"

\* complete: the answer of a single delivery.
complete(m, answer) ==
  /\ m \in requests /\ running /\ ~m.batch
  /\ requests' = requests \ {m}
  /\ LET T == m.tasks \intersect tracked
         A == IF answer = "Accepted" THEN T ELSE {}
     IN  IF T = {} THEN UNCHANGED <<task, grain, inflight, async, batchStates, health, deferred, resolving>>
         ELSE /\ recordTransport(answer = "TransportFailure")
              /\ resolveDelivery(T \ A, [t \in T |-> deliveryResult(answer)], A,
                                 register(grain, mode'.as))
              /\ UNCHANGED leased
  /\ UNCHANGED <<registration, draining, running, starts, mailbox, beats, forgotten>>

\* A failed POST answers TransportFailure for every member; an answer may omit
\* members.
BatchAnswers(T) ==
  {[t \in T |-> "TransportFailure"]} \union [T -> (Answer \ {"TransportFailure"}) \union {"Omitted"}]

\* completeBatch: the answers of the members, one transport sample for the POST;
\* an omitted member is released.
completeBatch(m, answers) ==
  /\ m \in requests /\ running /\ m.batch
  /\ requests' = requests \ {m}
  /\ LET T == m.tasks \intersect tracked
         A == {t \in T : answers[t] = "Accepted"}
     IN  IF m.lease \notin DOMAIN batchStates
         THEN UNCHANGED <<task, grain, inflight, async, batchStates, health, deferred, resolving>>
         ELSE /\ recordTransport(\A t \in m.tasks : answers[t] = "TransportFailure")
              /\ resolveDelivery(T \ A, [t \in T |-> deliveryResult(answers[t])], A,
                                 register(grain, mode'.as))
              /\ UNCHANGED leased
  /\ UNCHANGED <<registration, draining, running, starts, mailbox, beats, forgotten>>

\* deferredCompletion: the timer of a withheld report fires.
reportDeferred(d) ==
  /\ d \in deferred /\ running
  /\ deferred' = deferred \ {d}
  /\ grain' = reported(grain, {d.task}, {})
  /\ UNCHANGED <<task, actor, health, mailbox, requests, beats, resolving, forgotten>>

-------------------------------------------------------------------------------
(* Callbacks of an endpoint that accepted a delivery, and admin cancels.    *)

\* heartbeatAsync: extend the lease of the delivery the token names.  A lost
\* lease drops the delivery and returns its slot.
heartbeatAsync(t, l) ==
  /\ running /\ beats < MaxBeats
  /\ t \in tracked \intersect isAsync /\ inflight[t].lease = l
  /\ beats' = beats + 1
  /\ \/ /\ owns(t)
        /\ rows' = [rows EXCEPT ![t].expired = FALSE]
        /\ async' = [async EXCEPT ![t] = [lease |-> l, stale |-> FALSE]]
        /\ UNCHANGED <<grain, inflight, batchStates>>
     \/ /\ ~owns(t)
        /\ forget({t}, {}, {}, grain)
        /\ UNCHANGED rows
     \/ BrokerFails /\ UNCHANGED <<rows, grain, inflight, async, batchStates>>
  /\ UNCHANGED <<leased, registration, draining, running, starts, health, mailbox, requests,
                 deferred, resolving, forgotten>>

\* resultAsync: the result of the delivery the token names; a stale token is
\* dropped.
resultAsync(t, l, outcome) ==
  /\ running /\ t \in tracked /\ inflight[t].lease = l
  /\ outcome \in {"SUCCESS", "RETRY", "SKIP_RETRY"}
  /\ resolveDelivery({t}, [u \in {t} |-> outcome], {}, grain)
  /\ UNCHANGED <<leased, registration, draining, running, starts, breaker, mode, mailbox,
                 requests, beats, forgotten>>

\* cancelActive: an admin cancel marks the delivery.  Its open request is
\* aborted, or its endpoint notified; either way an answer still follows.
cancelActive(t) ==
  /\ running /\ t \in tracked /\ ~inflight[t].canceled
  /\ inflight' = [inflight EXCEPT ![t].canceled = TRUE]
  /\ UNCHANGED <<task, grain, registration, async, batchStates, draining, running, starts,
                 health, wires, resolving, forgotten>>

-------------------------------------------------------------------------------
(* Ticks, registration changes and the life of the actor.                   *)

\* extendLeases: the open synchronous deliveries whose lease another delivery
\* has taken.  Their requests are aborted and they are dropped.
lostLeases(failing) == {t \in tracked \ (isAsync \union failing) : ~owns(t)}

\* reapStaleAsync: the accepted deliveries whose last heartbeat is too old.
reapStaleAsync == {t \in tracked : async[t].stale}

\* registerTick: breaker sync, registration, lease extension, stale deliveries.
registerTick ==
  /\ running
  /\ mode' = syncBreakerCapacity(breaker)
  /\ \E failing \in TransientFailures(tracked \ isAsync) :
       /\ rows' = [t \in Task |->
            IF t \in tracked \ (isAsync \union failing) /\ owns(t)
            THEN [rows[t] EXCEPT !.expired = FALSE] ELSE rows[t]]
       /\ forget(lostLeases(failing) \union reapStaleAsync, {}, {}, register(grain, mode'.as))
  /\ UNCHANGED <<leased, registration, draining, running, starts, breaker, typeOpen, wires,
                 resolving, forgotten>>

\* apply: queues no longer served are withdrawn, then the snapshot registers.
apply(new) ==
  /\ running /\ new # registration
  /\ registration' = new
  /\ grain' = [q \in Queue |->
       LET share == CASE mode.as = "withholding" -> 0
                      [] mode.as = "probing" -> 1
                      [] OTHER -> splitCapacity(new.concurrency, new.queues)[q]
       IN  CASE q \in DOMAIN new.queues /\ ~draining -> registered(grain[q], share)
             [] serves(q) /\ q \notin DOMAIN new.queues -> registered(grain[q], 0)
             [] OTHER -> grain[q]]
  /\ UNCHANGED <<task, inflight, async, batchStates, draining, running, starts, health, wires,
                 resolving, forgotten>>

\* drain: release everything in flight and announce nothing any more.
drain ==
  /\ running /\ ~draining
  /\ draining' = TRUE
  /\ \E failing \in TransientFailures(tracked) :
       rows' = [t \in Task |-> IF t \in tracked \ failing /\ owns(t)
                  THEN [rows[t] EXCEPT !.state = "pending", !.lease = 0, !.expired = FALSE]
                  ELSE rows[t]]
  /\ inflight' = [t \in Task |-> NoEntry] /\ async' = [t \in Task |-> NoBeat]
  /\ batchStates' = << >> /\ forgotten' = abandoned
  /\ UNCHANGED <<leased, grain, registration, running, starts, health, wires, resolving>>

\* What a stopped actor leaves behind: its mailbox and timers are gone, and no
\* answer reaches it.
stopped ==
  /\ running' = FALSE
  /\ inflight' = [t \in Task |-> NoEntry] /\ async' = [t \in Task |-> NoBeat]
  /\ batchStates' = << >>
  /\ mailbox' = {} /\ requests' = {} /\ deferred' = {}
  /\ UNCHANGED <<task, registration, draining, starts, health, beats, resolving>>

\* stopChild after a drain that answered: unregister from every queue, shut down.
stopChild ==
  /\ running /\ draining
  /\ grain' = [q \in Queue |-> IF serves(q) THEN Unregistered ELSE grain[q]]
  /\ stopped
  /\ forgotten' = {}

\* stopChild after a drain that timed out: the grains still list the gateway.
stopUndrained ==
  /\ running /\ BrokerFails
  /\ UNCHANGED grain
  /\ stopped
  /\ forgotten' = abandoned
       \union {lost(CHOOSE t \in m.tasks : TRUE, m.lease, FALSE) : m \in mailbox}
       \union {lost(d.task, d.lease, FALSE) : d \in deferred}

\* PreStart and PostStart: a fresh actor under the same name, or a supervision
\* restart of the running one.  All working state is reset; the answers of
\* requests posted before a restart still arrive.
PreStart ==
  /\ starts < MaxStarts /\ (running => ~draining)
  /\ starts' = starts + 1 /\ running' = TRUE /\ draining' = FALSE
  /\ inflight' = [t \in Task |-> NoEntry] /\ async' = [t \in Task |-> NoBeat]
  /\ batchStates' = << >>
  /\ breaker' = [state |-> "Closed", due |-> FALSE] /\ mode' = Full /\ typeOpen' = FALSE
  /\ grain' = [q \in Queue |-> IF serves(q) THEN registered(grain[q], capacity(q, "full"))
                               ELSE grain[q]]
  /\ forgotten' = abandoned
  /\ UNCHANGED <<task, registration, wires, resolving>>

Groups == {T \in SUBSET Task : Cardinality(T) > 1}

surroundings ==
  \/ \E q \in Queue : \E t \in Task : dispatch(q, {t}, FALSE)
  \/ \E q \in Queue : \E T \in Groups : dispatch(q, T, TRUE)
  \/ \E q \in Queue : unreachable(q)
  \/ \E t \in Task : leaseExpires(t) \/ reap(t) \/ beatLapses(t)
  \/ breakerTimeout \/ probeTimeout

turns ==
  \/ \E m \in mailbox : deliver(m) \/ deliverBatch(m)
  \/ \E m \in requests : \E a \in Answer : complete(m, a)
  \/ \E m \in requests : \E a \in BatchAnswers(m.tasks) : completeBatch(m, a)
  \/ \E d \in deferred : reportDeferred(d)
  \/ registerTick

callbacks ==
  \/ \E t \in Task : \E l \in 1..leased : heartbeatAsync(t, l)
  \/ \E t \in Task : \E l \in 1..leased : \E o \in Outcome : resultAsync(t, l, o)
  \/ \E t \in Task : cancelActive(t)

lifecycle ==
  \/ \E r \in Registration : apply(r)
  \/ drain \/ stopChild \/ stopUndrained \/ PreStart

Next == surroundings \/ turns \/ callbacks \/ lifecycle

-------------------------------------------------------------------------------
(* Properties.                                                              *)

WebhookTypeOK ==
  /\ \A t \in Task : /\ rows[t].state \in {"pending", "active"} \union Terminal
                     /\ rows[t].lease \in 0..leased /\ inflight[t].lease \in 0..leased
                     /\ async[t].lease \in 0..leased /\ rows[t].retried \in 0..MaxRetry
  /\ \A q \in Queue : grain[q].credits \in 0..grain[q].capacity
  /\ mailbox \intersect requests = {} /\ leased \in 0..MaxLeases
  /\ DOMAIN batchStates \subseteq 1..leased
  /\ mode.as \in {"full", "withholding", "probing"} /\ breaker.state \in {"Closed", "Open", "HalfOpen"}

\* What every grain of a served queue holds as this gateway's capacity is what
\* the gateway means to announce for the endpoint's health, and a queue it no
\* longer serves holds none (register, apply, syncBreakerCapacity, resolveProbe):
\* a missed announcement would lease to a dead endpoint or starve a live one.
AnnouncedAgrees ==
  running /\ ~draining =>
    \A q \in Queue : grain[q].capacity = IF serves(q) THEN capacity(q, mode.as) ELSE 0

\* Once drained, a gateway never raises the capacity a grain holds for it: no
\* tick, answer or registration update re-announces it before it is unregistered
\* (draining, register).
DrainedStaysQuietStep ==
  draining /\ draining' => \A q \in Queue : grain'[q].capacity <= grain[q].capacity
outstanding(q) ==
  Cardinality({m \in mailbox : \E t \in m.tasks : queueOf[t] = q})
  + Cardinality({t \in tracked : single(t) /\ queueOf[t] = q})
  + Cardinality({l \in DOMAIN batchStates : batchStates[l].queue = q})

withheldReports(q) == Cardinality({d \in deferred : queueOf[d.task] = q})
lostSlots(q) == Cardinality({f \in forgotten : ~f.batch /\ queueOf[f.task] = q})

\* No slot of a served queue disappears: what the grain may spend, what is on
\* its way, tracked or withheld, and what the gateway lost by tracking a second
\* delivery of the same task or by dying undrained, add up to the announced
\* capacity at least, through shrinking and growing capacities (dropDelivery,
\* refillCredit, resolveBatchMember, registerGateway's clamp and delta).
SlotsNeverLost ==
  running /\ ~draining =>
    \A q \in Queue : serves(q) =>
      grain[q].credits + outstanding(q) + withheldReports(q) + lostSlots(q) >= grain[q].capacity

\* A batch waits for exactly its unresolved members: those still tracked under
\* its lease, and those whose entry a later delivery replaced (webhookBatch.remaining).
BatchCounts ==
  \A l \in DOMAIN batchStates :
    batchStates[l].remaining =
      Cardinality({t \in batchStates[l].members : inflight[t].lease = l})
      + Cardinality({f \in forgotten : f.batch /\ f.lease = l})

\* The resolver pool is handed only tasks whose row really is final: a delivery
\* that lost its lease must not drive resolution (applyOutcome, resolveDelivery).
ResolvesTerminal == \A t \in resolving : rows[t].state \in Terminal

\* The answer of a canceled delivery that still owns its task ends the task: it
\* is never run again by that answer (applyOutcome, cancelActive).
CanceledEndsStep ==
  \A t \in Task :
    inflight[t].canceled /\ owns(t) /\ inflight'[t] = NoEntry /\ rows'[t] # rows[t]
    /\ running' /\ ~draining' => rows'[t].state \in Terminal
-------------------------------------------------------------------------------
(* Fairness: ticks are scheduled, a request has a deadline, timers fire, the *)
(* reaper runs, mailboxes are served.  Nothing is asked of the endpoint.    *)

Fairness ==
  /\ WF_vars(registerTick) /\ WF_vars(breakerTimeout) /\ WF_vars(probeTimeout)
  /\ \A t \in Task : WF_vars(leaseExpires(t)) /\ WF_vars(reap(t)) /\ WF_vars(beatLapses(t))
  /\ WF_vars(\E m \in mailbox : deliver(m) \/ deliverBatch(m))
  /\ WF_vars(\E m \in requests : \E a \in Answer : complete(m, a))
  /\ WF_vars(\E m \in requests : \E a \in BatchAnswers(m.tasks) : completeBatch(m, a))
  /\ WF_vars(\E d \in deferred : reportDeferred(d))

Spec == Init /\ [][Next]_vars /\ Fairness

\* Every delivery ends: answered, taken over, dropped for a lost lease, or given
\* up when its endpoint falls silent; it does not hold its slot for ever
\* (extendLeases, reapStaleAsync, deliveryDeadline).
DeliveryEnds ==
  \A t \in Task : \A l \in 1..MaxLeases : (inflight[t].lease = l) ~> (inflight[t].lease # l)

\* A gateway that runs and withholds capacity comes to probe, though no call
\* moves the breaker while nothing is leased (syncBreakerCapacity).
WithheldProbes == (running /\ mode.as = "withholding") ~> (running => mode.as # "withholding")

\* Deliveries and capacity are accounted for in every turn: with the grains, with
\* the batches, with the rows and with what operators canceled.
DeliveriesAccountedStep ==
  /\ (WebhookTypeOK /\ AnnouncedAgrees /\ SlotsNeverLost /\ BatchCounts /\ ResolvesTerminal)'
  /\ DrainedStaysQuietStep /\ CanceledEndsStep

\* The gateway goes on: no delivery and no withheld capacity stays for ever.
DeliveriesProgress == DeliveryEnds /\ WithheldProbes
===============================================================================
