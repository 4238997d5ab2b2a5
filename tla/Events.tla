-------------------------------- MODULE Events --------------------------------
(***************************************************************************)
(* The lifecycle event stream: what a broker transition publishes          *)
(* (internal/events/derive.go, the brokers' emit), the cluster topic and   *)
(* each node's relay (internal/actors/events.go), the node's event bus     *)
(* (internal/events/events.go), the WatchEvents streams                    *)
(* (server/api/admin_service.go) and the webhook sink                      *)
(* (internal/events/webhook.go).                                           *)
(*                                                                         *)
(* The memory broker emits under its mutex; the Postgres broker emits      *)
(* after the commit, so that concurrent calls may emit in another order    *)
(* than they committed in.  A publish may be lost.  One node is modelled:  *)
(* the others have buses of their own.                                     *)
(***************************************************************************)
EXTENDS Naturals, Sequences, FiniteSets, SequencesExt

CONSTANTS
    Task, QueueOf,
    Watcher,        \* WatchEvents streams; "webhook" is the sink
    Request,        \* watch requests: queues and event types
    BufferSize,     \* settings.EventBufferSize
    MaxRetries,     \* WebhookConfig.MaxRetries
    Transition,     \* the transitions a task may make
    MaxEvents, MaxFaults, MaxWatches  \* bounds

VARIABLES
    underLock, \* the memory broker, not the Postgres broker
    state,     \* the rows' states
    emitting,  \* events derived and not yet emitted
    topic,     \* the topic actor's and the relay's mailboxes
    subs,      \* the bus's subscriptions, and the channels of ended ones
    due,       \* matching events the bus was given since the subscription
    dropped,   \* events dropped for a subscription
    got,       \* events a watcher was sent, or the sink is done with
    sink,      \* the webhook's delivery loop
    count, lost, faults, watches

eventVars == <<underLock, state, emitting, topic, subs, due, dropped, got, sink, count, lost,
               faults, watches>>

Subscriber == Watcher \cup {"webhook"}

(***************************************************************************)
(* Events and filters                                                      *)
(***************************************************************************)
\* Mutant: a task committed while blocked reports nothing.
classifyUnblocked(old, new) ==
    CASE new = "active" -> "LEASED"
      [] new = "pending" -> IF old = "active" THEN "RELEASED" ELSE "ENQUEUED"
      [] new = "completed" -> "COMPLETED"
      [] new = "retry" -> "RETRIED"
      [] new = "archived" -> "ARCHIVED"
      [] new = "canceled" -> "CANCELED"
      [] new = "scheduled" -> "SCHEDULED"
      [] OTHER -> "UNSPECIFIED"

\* The new state names the event; the old one tells a release.
classify(old, new) ==
    CASE new = "active" -> "LEASED"
      [] new = "completed" -> "COMPLETED"
      [] new = "retry" -> "RETRIED"
      [] new = "archived" -> "ARCHIVED"
      [] new = "canceled" -> "CANCELED"
      [] new = "scheduled" -> "SCHEDULED"
      [] new = "pending" -> IF old = "active" THEN "RELEASED" ELSE "ENQUEUED"
      [] new \in {"aggregating", "blocked"} -> "ENQUEUED"
      [] OTHER -> "UNSPECIFIED"

\* No event for a transition that changes nothing or has no event type.
Derive(old, new, t, n) ==
    IF old = new \/ classify(old, new) = "UNSPECIFIED" THEN <<>>
    ELSE <<[task |-> t, queue |-> QueueOf[t], state |-> new, type |-> classify(old, new), n |-> n]>>

\* An empty dimension accepts everything, and so does one left empty once the
\* unspecified type is ignored.
NewFilter(request) == [request EXCEPT !.types = @ \ {"UNSPECIFIED"}]

matches(filter, event) ==
    /\ filter.queues = {} \/ event.queue \in filter.queues
    /\ filter.types = {} \/ event.type \in filter.types

All == [queues |-> {}, types |-> {}]
NoSub == [asks |-> All, since |-> 0, filter |-> All, on |-> FALSE, closed |-> FALSE, channel |-> <<>>]
IdleSink == [at |-> "wait", event |-> <<>>, attempt |-> 0, stopping |-> FALSE]

Init ==
    /\ underLock \in BOOLEAN
    /\ state = [t \in Task |-> "absent"]
    /\ emitting = {}
    /\ topic = <<>>
    /\ subs = [s \in Subscriber |-> [NoSub EXCEPT !.on = s = "webhook"]]
    /\ due = [s \in Subscriber |-> <<>>]
    /\ dropped = [s \in Subscriber |-> 0]
    /\ got = [s \in Subscriber |-> <<>>]
    /\ sink = IdleSink
    /\ count = 0 /\ lost = 0 /\ faults = 0 /\ watches = 0

(***************************************************************************)
(* Emission                                                                *)
(***************************************************************************)
\* A broker call moves a row; emit under the lock publishes there and then.
transition(t, new) ==
    LET event == Derive(state[t], new, t, count)
    IN  /\ count < MaxEvents /\ <<state[t], new>> \in Transition
        /\ count' = count + 1
        /\ state' = [state EXCEPT ![t] = new]
        /\ IF underLock THEN topic' = topic \o event /\ UNCHANGED emitting
           ELSE emitting' = emitting \cup ToSet(event) /\ UNCHANGED topic
        /\ UNCHANGED <<underLock, subs, due, dropped, got, sink, lost, faults, watches>>

\* emitEvent and emitChange: after the commit, on the goroutine of the call.
emitEvent(event) ==
    /\ event \in emitting
    /\ emitting' = emitting \ {event}
    /\ topic' = Append(topic, event)
    /\ UNCHANGED <<underLock, state, subs, due, dropped, got, sink, count, lost, faults, watches>>

\* topicSink.Emit: the publish is dropped.
publishFails ==
    /\ topic # <<>> /\ faults < MaxFaults
    /\ faults' = faults + 1 /\ lost' = lost + 1
    /\ topic' = Tail(topic)
    /\ UNCHANGED <<underLock, state, emitting, subs, due, dropped, got, sink, count, watches>>

\* EventBus.Emit: every matching subscription with room in its buffer gets the
\* event, for the others it is dropped and counted.
Emit(event) ==
    LET to == {s \in Subscriber : subs[s].on /\ matches(subs[s].filter, event)}
        full == {s \in to : Len(subs[s].channel) = BufferSize}
    IN  /\ due' = [s \in Subscriber |-> IF s \in to THEN Append(due[s], event) ELSE due[s]]
        /\ subs' = [s \in Subscriber |-> IF s \in to \ full
                      THEN [subs[s] EXCEPT !.channel = Append(@, event)] ELSE subs[s]]
        /\ dropped' = [s \in Subscriber |-> IF s \in full THEN dropped[s] + 1 ELSE dropped[s]]

\* eventRelay.Receive of a TaskEvent.
relay ==
    /\ topic # <<>>
    /\ topic' = Tail(topic)
    /\ Emit(Head(topic))
    /\ UNCHANGED <<underLock, state, emitting, got, sink, count, lost, faults, watches>>

(***************************************************************************)
(* WatchEvents                                                             *)
(***************************************************************************)
Subscribe(w, request) ==
    /\ ~subs[w].on /\ watches < MaxWatches
    /\ watches' = watches + 1
    /\ subs' = [subs EXCEPT ![w] = [NoSub EXCEPT !.asks = request, !.since = count,
                                            !.filter = NewFilter(request), !.on = TRUE]]
    /\ due' = [due EXCEPT ![w] = <<>>]
    /\ got' = [got EXCEPT ![w] = <<>>]
    /\ dropped' = [dropped EXCEPT ![w] = 0]
    /\ UNCHANGED <<underLock, state, emitting, topic, sink, count, lost, faults>>

\* Subscribe's cancel: removed and closed in one critical section, once.
cancel(s) == IF subs[s].on THEN [subs EXCEPT ![s] = [@ EXCEPT !.on = FALSE, !.closed = TRUE]] ELSE subs

\* WatchEvents: send the next event.
watch(w) ==
    /\ subs[w].on /\ subs[w].channel # <<>>
    /\ got' = [got EXCEPT ![w] = Append(@, Head(subs[w].channel))]
    /\ subs' = [subs EXCEPT ![w].channel = Tail(@)]
    /\ UNCHANGED <<underLock, state, emitting, topic, due, dropped, sink, count, lost, faults, watches>>

\* The client goes away, or the send fails: the deferred cancel runs.
watchEnds(w) ==
    /\ subs[w].on
    /\ subs' = cancel(w)
    /\ UNCHANGED <<underLock, state, emitting, topic, due, dropped, got, sink, count, lost, faults, watches>>

(***************************************************************************)
(* The webhook sink                                                        *)
(***************************************************************************)
\* run: take the next event off the channel.
take ==
    /\ sink.at = "wait" /\ subs["webhook"].channel # <<>>
    /\ sink' = [sink EXCEPT !.at = "post", !.attempt = 0, !.event = <<Head(subs["webhook"].channel)>>]
    /\ subs' = [subs EXCEPT !["webhook"].channel = Tail(@)]
    /\ UNCHANGED <<underLock, state, emitting, topic, due, dropped, got, count, lost, faults, watches>>

\* run: the channel is closed and empty.
runEnds ==
    /\ sink.at = "wait" /\ subs["webhook"].closed /\ subs["webhook"].channel = <<>>
    /\ sink' = [sink EXCEPT !.at = "done"]
    /\ UNCHANGED <<underLock, state, emitting, topic, subs, due, dropped, got, count, lost, faults, watches>>

delivered ==
    /\ sink' = [sink EXCEPT !.at = "wait", !.event = <<>>]
    /\ got' = [got EXCEPT !["webhook"] = @ \o sink.event]

\* deliver: success and a client error end the event, a transport error, a 5xx
\* or a 429 is retried within the budget.
post(answer) ==
    /\ sink.at = "post"
    /\ IF answer = "retryable" /\ sink.attempt < MaxRetries
       THEN /\ faults < MaxFaults /\ faults' = faults + 1
            /\ sink' = [sink EXCEPT !.at = "backoff"]
            /\ UNCHANGED got
       ELSE delivered /\ UNCHANGED faults
    /\ UNCHANGED <<underLock, state, emitting, topic, subs, due, dropped, count, lost, watches>>

\* deliver: the delay passes, or Stop interrupts it and the event is let go.
backoff ==
    /\ sink.at = "backoff"
    /\ \/ /\ sink' = [sink EXCEPT !.at = "post", !.attempt = @ + 1]
          /\ UNCHANGED got
       \/ sink.stopping /\ delivered
    /\ UNCHANGED <<underLock, state, emitting, topic, subs, due, dropped, count, lost, faults, watches>>

\* Stop: unsubscribe, interrupt the backoff, and wait for the loop to end.
\* Events already buffered are still posted.
Stop ==
    /\ ~sink.stopping
    /\ sink' = [sink EXCEPT !.stopping = TRUE]
    /\ subs' = cancel("webhook")
    /\ UNCHANGED <<underLock, state, emitting, topic, due, dropped, got, count, lost, faults, watches>>

Next ==
    \/ \E t \in Task : \E tr \in Transition : transition(t, tr[2])
    \/ \E event \in emitting : emitEvent(event)
    \/ publishFails \/ relay
    \/ \E w \in Watcher : \/ \E request \in Request : Subscribe(w, request)
                          \/ watch(w) \/ watchEnds(w)
    \/ take \/ runEnds \/ backoff \/ Stop
    \/ \E answer \in {"ok", "rejected", "retryable"} : post(answer)

Spec == Init /\ [][Next]_eventVars

(***************************************************************************)
(* Properties                                                              *)
(***************************************************************************)
\* Type invariant: no buffer exceeds its size, and only events are emitted.
EventsTypeOK ==
    /\ \A s \in Subscriber : Len(subs[s].channel) <= BufferSize /\ dropped[s] \in Nat
    /\ sink.at \in {"wait", "post", "backoff", "done"} /\ sink.stopping \in BOOLEAN
    /\ \A event \in emitting : event.type # "UNSPECIFIED"

\* Every event the bus was given for a subscription was sent, is buffered, or
\* was dropped and counted; what was sent and buffered keeps the order of the
\* bus (Emit, WatchEvents, run).
WatchConserves ==
    \A s \in Subscriber :
        LET kept == got[s] \o (IF s = "webhook" THEN sink.event ELSE <<>>) \o subs[s].channel
        IN  /\ Len(kept) + dropped[s] = Len(due[s])
            /\ ToSet(kept) \subseteq ToSet(due[s])
            /\ \A i, j \in DOMAIN kept : i < j =>
                  \E k, l \in DOMAIN due[s] : k < l /\ due[s][k] = kept[i] /\ due[s][l] = kept[j]

\* What a subscriber has that missed nothing and has everything tells the
\* state every task is in, for a broker that emits under its lock (Derive,
\* classify, NewFilter).
EventsTellState ==
    \A s \in Subscriber :
        LET last(t) == Max({i \in DOMAIN got[s] : got[s][i].task = t})
        IN  /\ underLock /\ lost = 0 /\ topic = <<>> /\ dropped[s] = 0
            /\ subs[s].on /\ subs[s].since = 0 /\ subs[s].channel = <<>>
            /\ subs[s].asks.queues = {} /\ subs[s].asks.types \subseteq {"UNSPECIFIED"}
            /\ s = "webhook" => sink.event = <<>>
            => \A t \in Task : state[t] # "absent" =>
                  /\ \E i \in DOMAIN got[s] : got[s][i].task = t
                  /\ got[s][last(t)].state = state[t]

\* An event is posted at most once more than the retry budget.
AttemptsBounded == sink.attempt <= MaxRetries

\* Watchers and the webhook are told what happened: nothing is lost uncounted,
\* reordered, misnamed or posted beyond the budget.
WatchersTold == EventsTypeOK /\ WatchConserves /\ EventsTellState /\ AttemptsBounded
=============================================================================
