----------------------------- MODULE Enqueueing -----------------------------
(***************************************************************************)
(* Enqueueing: the Go SDK's client (sdks/go/client.go, enqueuetx.go), the  *)
(* TaskService handlers (server/api/tasks_service.go) and the engine's     *)
(* coalesced wake-ups (internal/actors/engine.go), over the task log.      *)
(*                                                                         *)
(* Handlers are goroutines and interleave.  An answer may be lost or come  *)
(* too late: the caller then repeats the call with the same options, while *)
(* the first handler may still be running.  A payload is sealed with a     *)
(* fresh nonce every time a request is built.                              *)
(***************************************************************************)
EXTENDS Integers, Sequences, FiniteSets, Functions

CONSTANTS
    Client,      \* callers; each makes one call and repeats it if need be
    Operation,   \* the calls they may make: a kind and a sequence of items, see below
    Queue,       \* queue names
    NoID,        \* an item without TaskID
    NoKey,       \* the empty unique key
    MaxAttempts  \* how often each caller sends its request

\* An item: [id, queue, unique, work, form].  unique is the Unique option, work
\* the type and plaintext payload; form is what the item's other options make
\* of it: "plain", "later" (ProcessAt), "grouped", "dependent" or "invalid".

VARIABLES
    tasks,     \* the rows of the task log
    clients,   \* each caller: its call, the attempt under way, its answer
    handlers,  \* the handlers running
    wakers,    \* Engine.wakers: the queueWaker of each queue
    unwoken,   \* tasks no wake-up of their queue has been attempted for since
    due,       \* the time of the "later" items has come
    resolved   \* the dependency of the "dependent" items has completed

enqueueVars == <<tasks, clients, handlers, wakers, unwoken, due, resolved>>

Sleeping == [dirty |-> FALSE, running |-> FALSE, tell |-> "none"]

Init ==
    /\ tasks = {}
    /\ clients \in [Client -> [op : Operation, attempt : {0}, at : {"ready"}, answer : {<<>>}]]
    /\ handlers = {}
    /\ wakers = [q \in Queue |-> Sleeping]
    /\ unwoken = {}
    /\ due \in BOOLEAN
    /\ resolved \in BOOLEAN

items(h) == clients[h.client].op.items
kind(h) == clients[h.client].op.kind

(***************************************************************************)
(* The SDK                                                                 *)
(***************************************************************************)
\* Mutant: the key is derived from the payload as it is sent.
derivedFromSealed(h, item) == <<"sha256", item.work, h.attempt, h.client>>

\* derivedUniqueKey: a digest of the type and the plaintext payload.
derivedUniqueKey(h, item) == <<"sha256", item.work>>

\* The requests a call builds: each item with its key and its sealed payload.
buildEnqueueRequest(h, item) ==
    [id |-> item.id, queue |-> item.queue, form |-> item.form,
     key |-> IF item.unique THEN derivedUniqueKey(h, item) ELSE NoKey,
     sealed |-> <<item.work, h.client, h.attempt>>]

send(c, attempt) ==
    /\ clients' = [clients EXCEPT ![c].attempt = attempt, ![c].at = "waiting"]
    /\ handlers' = handlers \cup {[client |-> c, attempt |-> attempt, at |-> "serve", index |-> 1,
                                   queues |-> {}, results |-> <<>>]}

call(c) ==
    /\ clients[c].at = "ready"
    /\ send(c, 1)
    /\ UNCHANGED <<tasks, wakers, unwoken, due, resolved>>

\* No answer in time: the caller repeats the call.
repeat(c) ==
    /\ clients[c].at = "waiting" /\ clients[c].attempt < MaxAttempts[c]
    /\ send(c, clients[c].attempt + 1)
    /\ UNCHANGED <<tasks, wakers, unwoken, due, resolved>>

(***************************************************************************)
(* The broker's Enqueue and EnqueueBatch                                   *)
(***************************************************************************)
Incomplete == {"scheduled", "pending", "aggregating", "blocked"}

uniqueKeyClaimed(log, key) == \E t \in log : t.key = key /\ t.state \in Incomplete

\* The state a row starts in.
stagedState(form) ==
    CASE form = "grouped" -> "aggregating"
      [] form = "later" /\ ~due -> "scheduled"
      [] form = "dependent" /\ ~resolved -> "blocked"
      [] OTHER -> "pending"

\* Engine.Enqueue gives a task without an id a fresh one.
newID(h, i) == <<h.client, h.attempt, i>>

\* prepareEnqueue, stageEnqueue: the row of item i.
row(h, i) ==
    LET r == buildEnqueueRequest(h, items(h)[i])
    IN [id |-> IF r.id = NoID THEN newID(h, i) ELSE r.id, queue |-> r.queue, key |-> r.key,
        sealed |-> r.sealed, state |-> stagedState(r.form), by |-> <<h.client, i>>]

known(log, r) == \E t \in log : t.id = r.id

\* stageEnqueue and applyStaged: a known id is a no-op, a claimed key refused.
duplicate(log, r) == ~known(log, r) /\ r.key # NoKey /\ uniqueKeyClaimed(log, r.key)
inserted(log, r) == IF known(log, r) THEN log ELSE log \cup {r}

\* The log after items 1..n of h are committed in order, and the first item, if
\* any, that stops it.
batchLog(h) ==
    LET log[n \in 0..Len(items(h))] ==
            IF n = 0 THEN tasks ELSE inserted(log[n - 1], row(h, n))
    IN log
offending(h) == {n \in DOMAIN items(h) : duplicate(batchLog(h)[n - 1], row(h, n))}

(***************************************************************************)
(* The handlers                                                            *)
(***************************************************************************)
initialState(form) ==
    CASE form = "dependent" -> "blocked"
      [] form = "grouped" -> "aggregating"
      [] form = "later" /\ ~due -> "scheduled"
      [] OTHER -> "pending"

\* envelopeFromRequest's validation.
valid(item) == item.form # "invalid"

advance(h, next) == handlers' = (handlers \ {h}) \cup {next}

\* What follows item h.index: the next item of a batch, or the answer.
stepped(h, code) ==
    [h EXCEPT !.results = Append(@, code), !.index = @ + 1,
              !.at = IF h.index < Len(items(h)) THEN "serve" ELSE "answer"]

\* Enqueue, and one turn of EnqueueBatch's loop: envelopeFromRequest validates,
\* the engine commits; enqueueError maps a duplicate to AlreadyExists.
serve(h) ==
    /\ h.at = "serve" /\ kind(h) # "tx"
    /\ LET r == row(h, h.index)
           item == items(h)[h.index]
       IN IF ~valid(item)
          THEN advance(h, stepped(h, "InvalidArgument")) /\ UNCHANGED <<tasks, unwoken>>
          ELSE IF duplicate(tasks, r)
          THEN advance(h, stepped(h, "AlreadyExists")) /\ UNCHANGED <<tasks, unwoken>>
          ELSE /\ tasks' = inserted(tasks, r)
               /\ unwoken' = unwoken \cup (tasks' \ tasks)
               /\ advance(h, [h EXCEPT !.at = "wake", !.queues = {r.queue}])
    /\ UNCHANGED <<clients, wakers, due, resolved>>

\* EnqueueTx: every item is validated before the broker is touched; one
\* EnqueueBatch commits all of them or none.
serveTx(h) ==
    /\ h.at = "serve" /\ kind(h) = "tx"
    /\ IF \E n \in DOMAIN items(h) : ~valid(items(h)[n])
       THEN /\ advance(h, [h EXCEPT !.at = "answer", !.results = <<"InvalidArgument">>])
            /\ UNCHANGED <<tasks, unwoken>>
       ELSE IF offending(h) # {}
       THEN /\ advance(h, [h EXCEPT !.at = "answer", !.results = <<"AlreadyExists">>])
            /\ UNCHANGED <<tasks, unwoken>>
       ELSE /\ tasks' = batchLog(h)[Len(items(h))]
            /\ unwoken' = unwoken \cup (tasks' \ tasks)
            /\ advance(h, [h EXCEPT !.at = "wake", !.queues = {items(h)[n].queue : n \in DOMAIN items(h)}])
    /\ UNCHANGED <<clients, wakers, due, resolved>>

woken(w) == [w EXCEPT !.dirty = TRUE, !.running = TRUE]

\* Engine.wake for one of the queues the handler committed to.
wake(h, q) ==
    /\ h.at = "wake" /\ q \in h.queues
    /\ wakers' = [wakers EXCEPT ![q] = woken(@)]
    /\ advance(h, IF h.queues # {q} THEN [h EXCEPT !.queues = @ \ {q}]
                  ELSE IF kind(h) = "tx"
                  THEN [h EXCEPT !.queues = {}, !.at = "answer", !.results = [n \in DOMAIN items(h) |-> initialState(items(h)[n].form)]]
                  ELSE [stepped(h, initialState(items(h)[h.index].form)) EXCEPT !.queues = {}])
    /\ UNCHANGED <<tasks, clients, unwoken, due, resolved>>

\* The answer reaches the caller if it still waits for this attempt, or is lost.
answer(h, lost) ==
    /\ h.at = "answer"
    /\ handlers' = handlers \ {h}
    /\ LET c == h.client
       IN IF ~lost /\ clients[c].at = "waiting" /\ clients[c].attempt = h.attempt
          THEN clients' = [clients EXCEPT ![c].at = "done", ![c].answer = h.results]
          ELSE UNCHANGED clients
    /\ UNCHANGED <<tasks, wakers, unwoken, due, resolved>>

(***************************************************************************)
(* drainWaker: the flag is taken under the lock, the tell sent outside it  *)
(***************************************************************************)
drainWaker(q) ==
    /\ wakers[q].running /\ wakers[q].tell = "none"
    /\ wakers' = [wakers EXCEPT ![q] = IF @.dirty THEN [@ EXCEPT !.dirty = FALSE, !.tell = "sent"] ELSE Sleeping]
    /\ UNCHANGED <<tasks, clients, handlers, unwoken, due, resolved>>

\* The grain leases on TasksAvailable.  A tell that fails is dropped: the rows
\* wait for the reaper's sweep, and the waker goes on as after one that arrived.
tasksAvailable(q) ==
    /\ wakers[q].tell = "sent"
    /\ wakers' = [wakers EXCEPT ![q].tell = "handled"]
    /\ unwoken' = {t \in unwoken : t.queue # q}
    /\ UNCHANGED <<tasks, clients, handlers, due, resolved>>

\* TellQueue returns some time after the grain has handled the message.
TellQueue(q) ==
    /\ wakers[q].tell = "handled"
    /\ wakers' = [wakers EXCEPT ![q].tell = "none"]
    /\ UNCHANGED <<tasks, clients, handlers, unwoken, due, resolved>>

(***************************************************************************)
(* Meanwhile: time passes, the dependency completes, tasks are executed    *)
(***************************************************************************)
moved(from, to) == {IF t.state = from THEN [t EXCEPT !.state = to] ELSE t : t \in tasks}

timePasses ==
    /\ ~due /\ due' = TRUE
    /\ tasks' = moved("scheduled", "pending")
    /\ UNCHANGED <<clients, handlers, wakers, unwoken, resolved>>

dependencyCompletes ==
    /\ ~resolved /\ resolved' = TRUE
    /\ tasks' = moved("blocked", "pending")
    /\ UNCHANGED <<clients, handlers, wakers, unwoken, due>>

complete(t) ==
    /\ t.state = "pending"
    /\ tasks' = (tasks \ {t}) \cup {[t EXCEPT !.state = "completed"]}
    /\ UNCHANGED <<clients, handlers, wakers, unwoken, due, resolved>>

HandlerStep ==
    \E h \in handlers : serve(h) \/ serveTx(h) \/ answer(h, FALSE) \/ \E q \in Queue : wake(h, q)

WakerStep == \E q \in Queue : drainWaker(q) \/ tasksAvailable(q) \/ TellQueue(q)

Next ==
    \/ \E c \in Client : call(c) \/ repeat(c)
    \/ HandlerStep \/ WakerStep
    \/ \E h \in handlers : answer(h, TRUE)
    \/ timePasses \/ dependencyCompletes \/ \E t \in tasks : complete(t)

(***************************************************************************)
(* Properties                                                              *)
(***************************************************************************)
EnqueueTypeOK ==
    /\ \A s, t \in tasks : s.id = t.id => s = t
    /\ \A c \in Client : clients[c].attempt \in 0..MaxAttempts[c]
    /\ \A q \in Queue : wakers[q] \in [dirty : BOOLEAN, running : BOOLEAN, tell : {"none", "sent", "handled"}]

\* A call repeated with its TaskID commits its task once, whatever answers were
\* lost and however the attempts overlap (options.go, TaskID: "making Enqueue
\* retries idempotent"), as long as the row is kept.
RepeatsCommitOnce ==
    \A c \in Client : \A i \in DOMAIN clients[c].op.items :
        clients[c].op.items[i].id # NoID => Cardinality({t \in tasks : t.by = <<c, i>>}) <= 1

\* The same work is never twice in the log, incomplete, when both were enqueued
\* as Unique, although every sealed payload is different (client.go: "identical
\* work still collides under Unique while the server only ever sees ciphertext").
UniqueWorkCollides ==
    \A s, t \in tasks :
        /\ s # t /\ s.key # NoKey /\ t.key # NoKey
        /\ s.state \in Incomplete /\ t.state \in Incomplete
        => s.sealed[1] # t.sealed[1]

\* The tasks of one EnqueueTx are committed all together or not at all
\* (tasks_service.go, EnqueueTx), counting those known from an earlier attempt.
TxWhole ==
    \A c \in Client : clients[c].op.kind = "tx" =>
        \/ \A i \in DOMAIN clients[c].op.items : ~\E t \in tasks : t.by = <<c, i>>
        \/ \A i \in DOMAIN clients[c].op.items :
               \E t \in tasks : t.by = <<c, i>> \/ t.id = clients[c].op.items[i].id

\* A committed task that no wake-up was sent for is still owed one: its handler
\* is about to ask for it, or the queue's waker will send again (engine.go,
\* drainWaker: "an enqueue that arrives during a send is never lost").
WakeOwed ==
    \A t \in unwoken :
        \/ wakers[t.queue].running /\ (wakers[t.queue].dirty \/ wakers[t.queue].tell = "sent")
        \/ \E h \in handlers : h.at = "wake" /\ t.queue \in h.queues

\* What a client asked for is what the log holds, once, and its queue is woken,
\* through lost answers, repeated calls and concurrent handlers.
EnqueuedAsAsked ==
    EnqueueTypeOK /\ RepeatsCommitOnce /\ UniqueWorkCollides /\ TxWhole /\ WakeOwed
=============================================================================
