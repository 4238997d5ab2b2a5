---------------------------- MODULE WorkerSession -----------------------------
(***************************************************************************)
(* A worker session end to end: the Go SDK's worker (sdks/go/worker.go),   *)
(* the stream, the session handler of the server                           *)
(* (server/api/worker_service.go, session.go) and the turns of the session *)
(* gateway that the handler drives (internal/actors/gateway.go).           *)
(*                                                                         *)
(* The worker's sessions are numbered; an old session may still be closing *)
(* while the next one opens.  Concurrent parts of one session: the         *)
(* worker's receive loop, heartbeats and executions; the server's receive  *)
(* goroutine, its session loop, the gateway actor, and the node's          *)
(* DrainSessions.  A frame is a record with its kind; a Result carries the *)
(* task id alone.                                                          *)
(***************************************************************************)
EXTENDS Naturals, Sequences, FiniteSets, SequencesExt

CONSTANTS
  Task,
  Options,         \* worker options: [sdk, required, concurrency, queues |-> name to weight]
  ServerVersion, MinSdkVersion,  \* numbers; zero is a build that is no semantic version
  ValidName,       \* the queue names the server's pattern admits
  Batch,           \* the task sets a fired group may deliver as one batch
  MaxSessions,     \* bound: sessions the worker opens
  MaxLeases,       \* bound: leases taken
  MaxBeats,        \* bound: heartbeat frames
  MaxFaults        \* bound: broken streams, failed spawns, drain timeouts

Session == 1..MaxSessions

VARIABLES
  contract,        \* what this worker was built with
  run,             \* the loop of Worker.Run
  current,         \* the worker's session number
  canceled,        \* the Run context is canceled
  executions,      \* the executor goroutines: [session, tasks, batch, lease, state, cause]
  cancels,         \* the session's unresolved tasks, with the execution to cancel
  beats,
  up, down,        \* frames in transit, by session
  requestClosed,   \* the worker closed its side
  broken,          \* the connection is gone
  handler,         \* the session handler's progress
  held,            \* the frame the receive goroutine took and not yet handed over
  sessionDone,     \* the session context is canceled
  violations,      \* sessions that ended with a protocol violation
  registry, draining, drained,
  gateway,         \* unborn, alive or dead, by session
  listed,          \* the grains hold the gateway
  mailbox, inflight, sending, gatewayDraining, senderClosed,
  rows, leased, faults

worker == <<contract, run, current, canceled, executions, cancels, beats>>
stream == <<up, down, requestClosed, broken>>
server == <<handler, held, sessionDone, violations, registry, draining, drained>>
actor == <<gateway, listed, mailbox, inflight, sending, gatewayDraining, senderClosed>>
log == <<rows, leased>>
vars == <<worker, stream, server, actor, log, faults>>

-------------------------------------------------------------------------------
\* NewWorker: a queue and a positive weight each, a positive concurrency.
NewWorker(o) ==
  /\ DOMAIN o.queues # {} /\ "" \notin DOMAIN o.queues
  /\ \A q \in DOMAIN o.queues : o.queues[q] > 0
  /\ o.concurrency > 0

\* validateHello: versions are compared only when both are comparable; the
\* queues and the concurrency are checked again, the names by pattern.
validateHello(o) ==
  /\ o.sdk # 0 => o.sdk >= MinSdkVersion
  /\ o.required # 0 /\ ServerVersion # 0 => ServerVersion >= o.required
  /\ o.concurrency > 0 /\ DOMAIN o.queues # {}
  /\ \A q \in DOMAIN o.queues : q \in ValidName /\ o.queues[q] > 0

Concurrency == contract.concurrency

NoFrame == [kind |-> "none"]
Hello == [kind |-> "Hello"]
Welcome == [kind |-> "Welcome"]
Quit == [kind |-> "quit"]
\* Dispatch and BatchDispatch, and the messages ExecuteTask and ExecuteBatch.
Dispatch(T, l, b) == [kind |-> "Dispatch", tasks |-> T, lease |-> l, batch |-> b]
Execute(T, l, b) == [kind |-> "Execute", tasks |-> T, lease |-> l, batch |-> b]
Cancel(t) == [kind |-> "Cancel", task |-> t]
\* Result and BatchResult: the outcome of each task named.
Result(outcomes) == [kind |-> "Result", outcomes |-> outcomes]
Heartbeat(T) == [kind |-> "Heartbeat", tasks |-> T]
DrainSession == [kind |-> "drainSession"]

Init ==
  /\ contract \in {o \in Options : NewWorker(o)}
  /\ run = "connecting" /\ current = 0 /\ canceled = FALSE /\ executions = {} /\ beats = 0
  /\ cancels = [t \in Task |-> 0]
  /\ up = [s \in Session |-> << >>] /\ down = [s \in Session |-> << >>]
  /\ requestClosed = {} /\ broken = {}
  /\ handler = [s \in Session |-> "none"] /\ held = [s \in Session |-> NoFrame]
  /\ sessionDone = {} /\ violations = {} /\ registry = {} /\ draining = FALSE /\ drained = "no"
  /\ gateway = [s \in Session |-> "unborn"] /\ listed = {}
  /\ mailbox = [s \in Session |-> << >>] /\ inflight = [s \in Session |-> [t \in Task |-> 0]]
  /\ sending = [s \in Session |-> << >>] /\ gatewayDraining = {} /\ senderClosed = {}
  /\ rows = [t \in Task |-> [state |-> "pending", lease |-> 0]] /\ leased = 0 /\ faults = 0

fault == faults < MaxFaults /\ faults' = faults + 1

-------------------------------------------------------------------------------
(* The worker.                                                              *)

\* send: a frame on a stream that is closed or broken goes nowhere.
sent(s, frame) ==
  up' = IF s \in requestClosed \union broken THEN up ELSE [up EXCEPT ![s] = Append(@, frame)]

\* runSession: open a stream and say Hello.
runSession ==
  /\ run = "connecting" /\ current < MaxSessions
  /\ current' = current + 1
  /\ up' = [up EXCEPT ![current'] = <<Hello>>]
  /\ handler' = [handler EXCEPT ![current'] = "new"]
  /\ cancels' = [t \in Task |-> 0]
  /\ run' = "hello"
  /\ UNCHANGED <<contract, canceled, executions, beats, down, requestClosed, broken, held, sessionDone,
                 violations, registry, draining, drained, actor, log, faults>>

\* The first frame must be Welcome: anything else ends the session attempt.
awaitWelcome ==
  /\ run = "hello" /\ current \notin broken /\ down[current] # << >>
  /\ down' = [down EXCEPT ![current] = Tail(@)]
  /\ IF Head(down[current]) = Welcome THEN run' = "running" /\ UNCHANGED requestClosed
     ELSE run' = "backoff" /\ requestClosed' = requestClosed \union {current}
  /\ UNCHANGED <<contract, current, canceled, executions, cancels, beats, up, broken, server, actor, log, faults>>

\* Track every task of the frame, then start the one execution, which waits for
\* a slot.
started(frame) ==
  /\ cancels' = [t \in Task |-> IF t \in frame.tasks THEN frame.lease ELSE cancels[t]]
  /\ executions' = executions \union
       {[session |-> current, tasks |-> frame.tasks, batch |-> frame.batch, lease |-> frame.lease,
         state |-> "waiting", cause |-> "none"]}

dispatch(frame) == ~frame.batch /\ started(frame)

\* dispatchBatch: the members share one execution; an empty batch starts none.
dispatchBatch(frame) == frame.batch /\ frame.tasks # {} /\ started(frame)

\* cancel: the tracked execution of the task is canceled by the server; the
\* first cause stays.
cancel(frame) ==
  /\ executions' = {IF e.session = current /\ frame.task \in e.tasks
                       /\ e.lease = cancels[frame.task] /\ e.cause = "none"
                    THEN [e EXCEPT !.cause = "server"] ELSE e : e \in executions}
  /\ UNCHANGED cancels

receive ==
  /\ run = "running" /\ current \notin broken /\ down[current] # << >>
  /\ down' = [down EXCEPT ![current] = Tail(@)]
  /\ LET frame == Head(down[current])
     IN  CASE frame.kind = "Dispatch" -> dispatch(frame) \/ dispatchBatch(frame)
           [] frame.kind = "Cancel" -> cancel(frame)
           [] OTHER -> UNCHANGED <<executions, cancels>>
  /\ UNCHANGED <<contract, run, current, canceled, beats, up, requestClosed, broken, server, actor, log, faults>>

active(s) == {e \in executions : e.session = s /\ e.state = "running"}

\* A free slot of the session starts the handler.
acquire(e) ==
  /\ e \in executions /\ e.state = "waiting" /\ Cardinality(active(e.session)) < Concurrency
  /\ executions' = (executions \ {e}) \union {[e EXCEPT !.state = "running"]}
  /\ UNCHANGED <<contract, run, current, canceled, cancels, beats, stream, server, actor, log, faults>>

\* execute, executeBatch: a batch takes one slot for all its members.
executeTask(e) == ~e.batch /\ acquire(e)
executeBatch(e) == e.batch /\ acquire(e)

\* outcomeFor: finished work counts even while draining; then SkipRetry; a task
\* aborted by the drain is released, any other failure retries.
outcomeFor(e, result) ==
  CASE result = "ok" -> "SUCCESS"
    [] result = "skip" -> "SKIP_RETRY"
    [] e.cause = "drain" -> "RELEASED"
    [] OTHER -> "RETRY"

\* batchMemberResult: a drain releases every member of a failed batch; else each
\* member has its own result.  results is constant for a plain error.
batchMemberResult(e, results, t) ==
  CASE \A u \in e.tasks : results[u] = "ok" -> "SUCCESS"
    [] e.cause = "drain" -> "RELEASED"
    [] OTHER -> [ok |-> "SUCCESS", skip |-> "SKIP_RETRY", error |-> "RETRY"][results[t]]

resolved(e, outcomes) ==
  /\ executions' = executions \ {e}
  /\ cancels' = [t \in Task |-> IF e.session = current /\ t \in e.tasks THEN 0 ELSE cancels[t]]
  /\ sent(e.session, Result(outcomes))
  /\ UNCHANGED <<contract, run, current, canceled, beats, down, requestClosed, broken, server, actor,
                 log, faults>>

\* A waiting execution ends only when it is canceled, with the context's error.
mayEnd(e, results) ==
  /\ e \in executions /\ DOMAIN results = e.tasks
  /\ e.state = "waiting" => e.cause # "none" /\ \A t \in e.tasks : results[t] = "error"

\* finish: forget the task, report the outcome.
finish(e, results) ==
  /\ ~e.batch /\ mayEnd(e, results)
  /\ resolved(e, [t \in e.tasks |-> outcomeFor(e, results[t])])

\* finishBatch: forget the members, report their outcomes in one frame.
finishBatch(e, results) ==
  /\ e.batch /\ mayEnd(e, results)
  /\ resolved(e, [t \in e.tasks |-> batchMemberResult(e, results, t)])

activeTaskIDs == {t \in Task : cancels[t] # 0}

\* heartbeatLoop: report the unresolved tasks.
heartbeat ==
  /\ run = "running" /\ beats < MaxBeats
  /\ beats' = beats + 1
  /\ sent(current, Heartbeat(activeTaskIDs))
  /\ UNCHANGED <<contract, run, current, canceled, executions, cancels, down, requestClosed, broken, server,
                 actor, log, faults>>

\* The Run context is canceled: the watcher closes the request side.
cancelRun ==
  /\ ~canceled /\ canceled' = TRUE
  /\ requestClosed' = IF run = "running" THEN requestClosed \union {current} ELSE requestClosed
  /\ UNCHANGED <<contract, run, current, executions, cancels, beats, up, down, broken, server, actor, log, faults>>

ended(s) == s \in broken \/ (handler[s] = "returned" /\ down[s] = << >>)

\* cancelAll: every tracked execution is canceled with the draining cause.
cancelAll ==
  {IF /\ e.session = current /\ e.cause = "none" /\ \E t \in e.tasks : cancels[t] = e.lease
   THEN [e EXCEPT !.cause = "drain"] ELSE e : e \in executions}

\* run returns when the stream ends.  Run returns when its context ended or the server refused
\* the session contract; else it waits its backoff out.
streamEnds ==
  /\ \/ run \in {"hello", "running"} /\ ended(current)
     \/ run = "hello" /\ canceled
  /\ run' = IF canceled \/ (current \in violations \ broken) THEN "returned" ELSE "backoff"
  /\ executions' = cancelAll
  /\ requestClosed' = requestClosed \union {current}
  /\ UNCHANGED <<contract, current, canceled, cancels, beats, up, down, broken, server, actor, log, faults>>

\* Run: the backoff lapses, or the context ends it.
reconnect ==
  /\ run = "backoff"
  /\ run' = IF canceled THEN "returned" ELSE "connecting"
  /\ UNCHANGED <<contract, current, canceled, executions, cancels, beats, stream, server, actor, log, faults>>

-------------------------------------------------------------------------------
(* The session handler.                                                     *)

phase(s, p) == handler' = [handler EXCEPT ![s] = p]

\* check: after Hello only the later frames, a Result with defined outcomes.
check(frame) ==
  /\ frame.kind \in {"Result", "Heartbeat"}
  /\ frame.kind = "Result" =>
       \A t \in DOMAIN frame.outcomes :
         frame.outcomes[t] \in {"SUCCESS", "RETRY", "SKIP_RETRY", "RELEASED"}

\* Session: the first frame is a valid Hello; registerSession refuses a draining
\* node.
open(s) ==
  /\ handler[s] = "new" /\ s \notin broken
  /\ up' = [up EXCEPT ![s] = Tail(@)]
  /\ IF draining \/ ~validateHello(contract) THEN phase(s, "returned") /\ UNCHANGED registry
     ELSE phase(s, "registered") /\ registry' = registry \union {s}
  /\ violations' = IF validateHello(contract) THEN violations ELSE violations \union {s}
  /\ UNCHANGED <<worker, down, requestClosed, broken, held, sessionDone, draining, drained,
                 actor, log, faults>>

\* The stream breaks before Hello arrives.
openFails(s) ==
  /\ handler[s] = "new" /\ s \in broken
  /\ phase(s, "returned")
  /\ UNCHANGED <<worker, stream, held, sessionDone, violations, registry, draining, drained,
                 actor, log, faults>>

\* Welcome goes out before the gateway exists.
welcome(s) ==
  /\ handler[s] = "registered"
  /\ IF s \in broken THEN phase(s, "stopped") /\ UNCHANGED down
     ELSE phase(s, "welcomed") /\ down' = [down EXCEPT ![s] = Append(@, Welcome)]
  /\ UNCHANGED <<worker, up, requestClosed, broken, held, sessionDone, violations, registry, draining,
                 drained, actor, log, faults>>

\* SpawnGateway: the gateway registers with its grains as it starts.
spawnGateway(s) ==
  /\ handler[s] = "welcomed"
  /\ gateway' = [gateway EXCEPT ![s] = "alive"] /\ listed' = listed \union {s}
  /\ phase(s, "serving")
  /\ UNCHANGED <<worker, stream, held, sessionDone, violations, registry, draining, drained,
                 mailbox, inflight, sending, gatewayDraining, senderClosed, log, faults>>

spawnFails(s) ==
  /\ handler[s] = "welcomed" /\ fault
  /\ phase(s, "stopped")
  /\ UNCHANGED <<worker, stream, held, sessionDone, violations, registry, draining, drained,
                 actor, log>>

done(s) == s \in sessionDone \/ s \in broken \/ handler[s] = "returned"

\* The receive goroutine takes one frame off the stream ...
receiverTakes(s) ==
  /\ handler[s] \in {"serving", "flushing"} /\ held[s] = NoFrame
  /\ s \notin broken /\ up[s] # << >>
  /\ held' = [held EXCEPT ![s] = Head(up[s])]
  /\ up' = [up EXCEPT ![s] = Tail(@)]
  /\ UNCHANGED <<worker, down, requestClosed, broken, handler, sessionDone, violations, registry,
                 draining, drained, actor, log, faults>>

\* ... and offers it to the loop, until the session is over.
receiverQuits(s) ==
  /\ done(s) /\ held[s] \notin {NoFrame, Quit}
  /\ held' = [held EXCEPT ![s] = Quit]
  /\ UNCHANGED <<worker, stream, handler, sessionDone, violations, registry, draining, drained, actor,
                 log, faults>>

forward(s, frame) == mailbox' = [mailbox EXCEPT ![s] = Append(@, frame)]

\* The loop, or flushFrames, takes the offered frame: check, then forward.
take(s) ==
  /\ handler[s] \in {"serving", "flushing"} /\ held[s] \notin {NoFrame, Quit}
  /\ held' = [held EXCEPT ![s] = NoFrame]
  /\ IF check(held[s])
     THEN /\ forward(s, held[s])
          /\ UNCHANGED <<violations, handler>>
     ELSE /\ UNCHANGED mailbox
          /\ IF handler[s] = "serving"
             THEN violations' = violations \union {s} /\ phase(s, "closing")
             ELSE UNCHANGED <<violations, handler>>
  /\ UNCHANGED <<worker, stream, sessionDone, registry, draining, drained, gateway, listed,
                 inflight, sending, gatewayDraining, senderClosed, log, faults>>

\* Mutant: the loop waits for the stream to end.
loopEndsWithStream(s) ==
  /\ handler[s] = "serving" /\ held[s] = NoFrame
  /\ s \in broken \/ (up[s] = << >> /\ s \in requestClosed)
  /\ phase(s, "closing")
  /\ UNCHANGED <<worker, stream, held, sessionDone, violations, registry, draining, drained,
                 actor, log, faults>>

\* The loop ends: the session context is done (then flushFrames), or the
\* receive goroutine reported the stream's end.
loopEnds(s) ==
  /\ handler[s] = "serving"
  /\ \/ (s \in sessionDone \/ s \in broken) /\ phase(s, "flushing")
     \/ /\ held[s] = NoFrame
        /\ s \in broken \/ (up[s] = << >> /\ s \in requestClosed)
        /\ phase(s, "closing")
  /\ UNCHANGED <<worker, stream, held, sessionDone, violations, registry, draining, drained,
                 actor, log, faults>>

\* flushFrames finds no frame offered.
flushed(s) ==
  /\ handler[s] = "flushing"
  /\ phase(s, "closing")
  /\ UNCHANGED <<worker, stream, held, sessionDone, violations, registry, draining, drained,
                 actor, log, faults>>

\* handle.Stop: ask the gateway to drain ...
stop(s) ==
  /\ handler[s] = "closing"
  /\ phase(s, "asking")
  /\ mailbox' = [mailbox EXCEPT ![s] = Append(@, DrainSession)]
  /\ UNCHANGED <<worker, stream, held, sessionDone, violations, registry, draining, drained,
                 gateway, listed, inflight, sending, gatewayDraining, senderClosed, log, faults>>

askTimesOut(s) ==
  /\ handler[s] = "asking" /\ fault
  /\ phase(s, "undrained")
  /\ UNCHANGED <<worker, stream, held, sessionDone, violations, registry, draining, drained,
                 actor, log>>

\* ... take it off its grains, and shut it down; the mailbox goes with it, the
\* turn in progress does not.
unregisterGateway(s) ==
  /\ handler[s] = "drained"
  /\ phase(s, "unlisted") /\ listed' = listed \ {s}
  /\ UNCHANGED <<worker, stream, held, sessionDone, violations, registry, draining, drained,
                 gateway, mailbox, inflight, sending, gatewayDraining, senderClosed, log, faults>>

shutdown(s) ==
  /\ handler[s] \in {"unlisted", "undrained"}
  /\ phase(s, "stopped")
  /\ gateway' = [gateway EXCEPT ![s] = "dead"] /\ mailbox' = [mailbox EXCEPT ![s] = << >>]
  /\ UNCHANGED <<worker, stream, held, sessionDone, violations, registry, draining, drained,
                 listed, inflight, sending, gatewayDraining, senderClosed, log, faults>>

\* sender.close: every later send fails.
closeSender(s) ==
  /\ handler[s] = "stopped"
  /\ phase(s, "severed") /\ senderClosed' = senderClosed \union {s}
  /\ UNCHANGED <<worker, stream, held, sessionDone, violations, registry, draining, drained,
                 gateway, listed, mailbox, inflight, sending, gatewayDraining, log, faults>>

\* Mutant: the session leaves the registry before its gateway is stopped.
unregisterSessionEarly(s) ==
  /\ \/ handler[s] = "severed" /\ phase(s, "returned") /\ UNCHANGED registry
     \/ handler[s] = "closing" /\ s \in registry /\ registry' = registry \ {s} /\ UNCHANGED handler
  /\ UNCHANGED <<worker, stream, held, sessionDone, violations, draining, drained, actor, log,
                 faults>>

\* unregisterSession is the last deferred call that anything waits for.
unregisterSession(s) ==
  /\ handler[s] = "severed"
  /\ phase(s, "returned") /\ registry' = registry \ {s}
  /\ UNCHANGED <<worker, stream, held, sessionDone, violations, draining, drained, actor, log,
                 faults>>

\* DrainSessions: refuse new sessions, cancel the registered ones, wait for the
\* registry to empty.
DrainSessions ==
  /\ ~draining /\ draining' = TRUE
  /\ sessionDone' = sessionDone \union registry
  /\ UNCHANGED <<worker, stream, handler, held, violations, registry, drained, actor, log, faults>>

drainReturns ==
  /\ draining /\ drained = "no"
  /\ \/ registry = {} /\ drained' = "yes" /\ UNCHANGED faults
     \/ registry # {} /\ drained' = "lapsed" /\ fault
  /\ UNCHANGED <<worker, stream, handler, held, sessionDone, violations, registry, draining,
                 actor, log>>

-------------------------------------------------------------------------------
(* The gateway's turns, and what surrounds the node.                        *)

owns(t, l) == rows[t] = [state |-> "active", lease |-> l]

\* Release of the tasks of a function from task to lease: no other lease moves.
Released(leases) ==
  [t \in Task |-> IF t \in DOMAIN leases /\ leases[t] # 0 /\ owns(t, leases[t])
                  THEN [state |-> "pending", lease |-> 0] ELSE rows[t]]

\* applyOutcome under the lease the gateway tracks.
applied(s, outcomes) ==
  [t \in Task |->
     IF t \in DOMAIN outcomes /\ inflight[s][t] # 0 /\ owns(t, inflight[s][t])
     THEN [state |-> IF outcomes[t] = "SUCCESS" THEN "completed"
                     ELSE IF outcomes[t] = "SKIP_RETRY" THEN "archived" ELSE "pending",
           lease |-> 0]
     ELSE rows[t]]

\* One mailbox turn, up to its sends: dispatch tracks before it sends; a result
\* settles and forgets; a heartbeat forgets the tasks whose lease is lost and
\* cancels them; drain releases everything tracked.
turn(s) ==
  /\ gateway[s] = "alive" /\ sending[s] = << >> /\ mailbox[s] # << >>
  /\ mailbox' = [mailbox EXCEPT ![s] = Tail(@)]
  /\ LET m == Head(mailbox[s])
         lost == IF m.kind # "Heartbeat" THEN {}
                 ELSE {t \in m.tasks : inflight[s][t] # 0 /\ ~owns(t, inflight[s][t])}
     IN  CASE m.kind = "Execute" ->
                /\ inflight' = [inflight EXCEPT ![s] =
                     [t \in Task |-> IF t \in m.tasks THEN m.lease ELSE @[t]]]
                /\ sending' = [sending EXCEPT ![s] = <<Dispatch(m.tasks, m.lease, m.batch)>>]
                /\ UNCHANGED <<rows, gatewayDraining, handler>>
           [] m.kind = "Result" ->
                /\ rows' = applied(s, m.outcomes)
                /\ inflight' = [inflight EXCEPT ![s] =
                     [t \in Task |-> IF t \in DOMAIN m.outcomes THEN 0 ELSE @[t]]]
                /\ UNCHANGED <<sending, gatewayDraining, handler>>
           [] m.kind = "Heartbeat" ->
                /\ inflight' = [inflight EXCEPT ![s] = [t \in Task |-> IF t \in lost THEN 0 ELSE @[t]]]
                /\ sending' = [sending EXCEPT ![s] = SetToSeq({Cancel(t) : t \in lost})]
                /\ UNCHANGED <<rows, gatewayDraining, handler>>
           [] m.kind = "CancelActive" ->
                /\ sending' = [sending EXCEPT ![s] =
                     IF inflight[s][m.task] = 0 THEN << >> ELSE <<Cancel(m.task)>>]
                /\ UNCHANGED <<rows, inflight, gatewayDraining, handler>>
           [] m.kind = "drainSession" ->
                /\ rows' = Released(inflight[s])
                /\ inflight' = [inflight EXCEPT ![s] = [t \in Task |-> 0]]
                /\ gatewayDraining' = gatewayDraining \union {s}
                /\ handler' = [handler EXCEPT ![s] = IF @ = "asking" THEN "drained" ELSE @]
                /\ UNCHANGED sending
  /\ UNCHANGED <<worker, stream, held, sessionDone, violations, registry, draining, drained,
                 gateway, listed, senderClosed, leased, faults>>

\* streamSender.Send: after close it fails, on a broken stream it may; a
\* delivery that cannot be sent is released at once.
send(s) ==
  /\ sending[s] # << >>
  /\ sending' = [sending EXCEPT ![s] = Tail(@)]
  /\ LET frame == Head(sending[s])
     IN  \/ /\ s \notin senderClosed
            /\ down' = [down EXCEPT ![s] = Append(@, frame)]
            /\ UNCHANGED <<rows, inflight>>
         \/ /\ s \in senderClosed \union broken
            /\ IF frame.kind = "Dispatch"
               THEN /\ rows' = Released([t \in frame.tasks |-> frame.lease])
                    /\ inflight' = [inflight EXCEPT ![s] =
                         [t \in Task |-> IF t \in frame.tasks THEN 0 ELSE @[t]]]
               ELSE UNCHANGED <<rows, inflight>>
            /\ UNCHANGED down
  /\ UNCHANGED <<worker, up, requestClosed, broken, server, gateway, listed, mailbox, gatewayDraining,
                 senderClosed, leased, faults>>

\* A queue grain leases a task, or a fired group's members, to a listed gateway.
execute(s, T, batch) ==
  /\ s \in listed /\ gateway[s] = "alive" /\ leased < MaxLeases
  /\ \A t \in T : rows[t].state = "pending"
  /\ leased' = leased + 1
  /\ rows' = [t \in Task |-> IF t \in T THEN [state |-> "active", lease |-> leased'] ELSE rows[t]]
  /\ mailbox' = [mailbox EXCEPT ![s] = Append(@, Execute(T, leased', batch))]
  /\ UNCHANGED <<worker, stream, server, gateway, listed, inflight, sending, gatewayDraining,
                 senderClosed, faults>>

\* An admin cancel of an active task reaches its gateway.
cancelActive(s, t) ==
  /\ gateway[s] = "alive" /\ inflight[s][t] # 0 /\ fault
  /\ mailbox' = [mailbox EXCEPT ![s] = Append(@, [kind |-> "CancelActive", task |-> t])]
  /\ UNCHANGED <<worker, stream, server, gateway, listed, inflight, sending, gatewayDraining,
                 senderClosed, log>>

\* A lease runs out and the reaper makes the task pending again.
leaseLapses(t) ==
  /\ rows[t].state = "active" /\ leased < MaxLeases /\ fault
  /\ rows' = [rows EXCEPT ![t] = [state |-> "pending", lease |-> 0]]
  /\ UNCHANGED <<worker, stream, server, actor, leased>>

breaks(s) ==
  /\ s = current /\ s \notin broken /\ handler[s] # "returned" /\ fault
  /\ broken' = broken \union {s}
  /\ UNCHANGED <<worker, up, down, requestClosed, server, actor, log>>

Deliveries == {<<{t}, FALSE>> : t \in Task} \union {<<T, TRUE>> : T \in Batch}
Results(T) == [T -> {"ok", "skip", "error"}]

workerMoves ==
  \/ runSession \/ awaitWelcome \/ receive \/ heartbeat \/ cancelRun \/ streamEnds \/ reconnect
  \/ \E e \in executions :
       \/ executeTask(e) \/ executeBatch(e)
       \/ \E results \in Results(e.tasks) : finish(e, results) \/ finishBatch(e, results)

handlerMoves ==
  \/ \E s \in Session :
       \/ open(s) \/ openFails(s) \/ welcome(s) \/ spawnGateway(s) \/ spawnFails(s)
       \/ receiverTakes(s) \/ receiverQuits(s) \/ take(s) \/ loopEnds(s) \/ flushed(s)
       \/ stop(s) \/ askTimesOut(s) \/ unregisterGateway(s) \/ shutdown(s) \/ closeSender(s)
       \/ unregisterSession(s)
  \/ DrainSessions \/ drainReturns

gatewayMoves ==
  \/ \E s \in Session : turn(s) \/ send(s) \/ breaks(s) \/ \E d \in Deliveries : execute(s, d[1], d[2])
  \/ \E s \in Session, t \in Task : cancelActive(s, t)
  \/ \E t \in Task : leaseLapses(t)

Next == workerMoves \/ handlerMoves \/ gatewayMoves

\* The goroutines and actors that are runnable run; handlers return; faults,
\* cancellation and the drain are never owed.
Fairness ==
  /\ WF_vars(runSession \/ awaitWelcome \/ streamEnds \/ reconnect)
  /\ WF_vars(receive)
  /\ WF_vars(\E e \in executions :
                \/ executeTask(e) \/ executeBatch(e)
                \/ \E r \in Results(e.tasks) : finish(e, r) \/ finishBatch(e, r))
  /\ \A s \in Session :
       /\ WF_vars(open(s) \/ openFails(s) \/ welcome(s) \/ spawnGateway(s))
       /\ WF_vars(receiverTakes(s) \/ receiverQuits(s))
       /\ WF_vars(take(s) \/ loopEnds(s))
       /\ WF_vars(flushed(s) \/ stop(s) \/ unregisterGateway(s) \/ shutdown(s) \/ closeSender(s)
                  \/ unregisterSession(s))
       /\ WF_vars(turn(s) \/ send(s))
  /\ WF_vars(registry = {} /\ drainReturns)

Spec == Init /\ [][Next]_vars /\ Fairness

-------------------------------------------------------------------------------
Outcome == {"SUCCESS", "RETRY", "SKIP_RETRY", "RELEASED"}
Phase == {"none", "new", "registered", "welcomed", "serving", "flushing", "closing", "asking",
          "drained", "undrained", "unlisted", "stopped", "severed", "returned"}

\* Type invariant: the phases, leases and sets of the worker, the handler and the
\* gateway are what the code can hold.
SessionTypeOK ==
  /\ run \in {"connecting", "hello", "running", "backoff", "returned"}
  /\ current \in 0..MaxSessions /\ canceled \in BOOLEAN
  /\ cancels \in [Task -> 0..MaxLeases]
  /\ handler \in [Session -> Phase]
  /\ registry \subseteq Session /\ sessionDone \subseteq Session /\ listed \subseteq Session
  /\ violations \subseteq Session /\ senderClosed \subseteq Session /\ broken \subseteq Session
  /\ gateway \in [Session -> {"unborn", "alive", "dead"}]
  /\ inflight \in [Session -> [Task -> 0..MaxLeases]]
  /\ rows \in [Task -> [state : {"pending", "active", "completed", "archived"}, lease : 0..MaxLeases]]
  /\ leased \in 0..MaxLeases /\ drained \in {"no", "yes", "lapsed"}

\* WelcomeFirst: the first frame a worker that awaits its Welcome finds on the
\* stream is Welcome, whatever the grains had waiting: Session sends it before
\* SpawnGateway.
WelcomeFirst ==
  run = "hello" /\ down[current] # << >> => Head(down[current]) = Welcome

\* SdkConforms: no frame the Go SDK sends, however its executions, cancels and
\* batches interleave, is a protocol violation for sessionState.check.
SdkConforms == violations # {} => ~validateHello(contract)

\* RefusedStopsStep: a worker whose session contract the server refuses does not
\* come back with the same contract, unless the connection broke before it heard
\* the refusal (Run: "The same binary can never succeed by retrying").
RefusedStopsStep == current' > current => violations \subseteq broken

\* SlotsBound: a session never runs more handlers than its declared
\* concurrency, and a batch takes one slot (worker.go execute, executeBatch).
SlotsBound == \A s \in Session : Cardinality(active(s)) <= Concurrency

\* UnregisteredIsStopped: a session that is not in the registry has no live
\* gateway, so DrainSessions returns nil only when every gateway it canceled has
\* stopped (unregisterSession is deferred before handle.Stop).
UnregisteredIsStopped == \A s \in Session : gateway[s] = "alive" => s \in registry

\* NoSendAfterReturnStep: once the handler of a session has returned nothing is
\* written to its stream, though its stopped gateway may still be in a turn.
NoSendAfterReturnStep ==
  \A s \in Session : handler[s] = "returned" => Len(down'[s]) <= Len(down[s])

\* TrackedIsReleasedStep: when a session has closed through its drain turn, no task
\* its gateway still tracked then is left active under that lease: what is left
\* active was leased to the gateway after the drain turn.
TrackedIsReleasedStep ==
  \A s \in Session : s \in gatewayDraining' \ gatewayDraining =>
    \A t \in Task : inflight[s][t] # 0 => ~(rows'[t].state = "active" /\ rows'[t].lease = inflight[s][t])

\* SessionConforms: the protocol of a session holds from Hello to its end, for the
\* worker, the handler and the gateway together.
SessionConforms ==
  [][/\ (SessionTypeOK /\ WelcomeFirst /\ SdkConforms /\ SlotsBound /\ UnregisteredIsStopped)'
     /\ RefusedStopsStep /\ NoSendAfterReturnStep /\ TrackedIsReleasedStep]_vars

\* SessionsClose: every registered session of a draining node leaves the
\* registry, so DrainSessions always returns.
SessionsClose == draining ~> drained # "no"

===============================================================================
