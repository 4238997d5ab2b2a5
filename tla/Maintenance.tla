----------------------------- MODULE Maintenance -----------------------------
(***************************************************************************)
(* How work that became ready reaches its queue grain: the engine's        *)
(* coalesced wake-ups (internal/actors/engine.go), the scheduler's         *)
(* promotion pass, the dependency resolvers and the reaper's maintenance   *)
(* pass (scheduler.go, resolver.go, reaper.go).                            *)
(*                                                                         *)
(* Every wake-up is a hint: sending it may fail, and it may be lost after  *)
(* it was sent.  So may the message that asks a resolver for a finished    *)
(* task's dependents.  A row keeps only where it is; the brokers' modules  *)
(* have the rest.                                                          *)
(***************************************************************************)
EXTENDS Integers, FiniteSets, FiniteSetsExt

CONSTANTS
    Task, Queue,
    QueueOf,           \* the queue of each task
    Enters,            \* the state each task is committed in once its dependencies ended
    DependsOn,         \* the tasks each task waits for, however they end
    Expiring,          \* tasks with an expiry
    LeaseBatchMax,     \* rows one call of a pass may touch
    ResolverPoolSize,  \* Settings.ResolverPoolSize
    MaxFaults          \* bound on the failures of a behaviour

VARIABLES
    rows,       \* where each task is
    waking,     \* tasks committed by a handler that has not woken their queue
    waker,      \* queueWaker: dirty, and its drain goroutines
    sending,    \* queues a drain goroutine is sending a wake-up to
    hints,      \* wake-ups on their way to a grain
    resolving,  \* ResolveDependents messages on their way to the pool
    reaper,     \* the broker call the maintenance pass makes next
    owed,       \* queues woken with no send begun since
    faults

maintVars == <<rows, waking, waker, sending, hints, resolving, reaper, owed, faults>>

Init ==
    /\ rows = [t \in Task |-> "absent"]
    /\ waking = {}
    /\ waker = [q \in Queue |-> [dirty |-> FALSE, drains |-> 0]]
    /\ sending = {}
    /\ hints = {}
    /\ resolving = {}
    /\ reaper = "idle"
    /\ owed = {}
    /\ faults = 0

in(states) == {t \in Task : rows[t] \in states}
queuesOf(T) == {QueueOf[t] : t \in T}
move(T, state) == rows' = [t \in Task |-> IF t \in T THEN state ELSE rows[t]]

\* A call with a limit touches that many rows when there are that many.
batch(S) == kSubset(IF Cardinality(S) < LeaseBatchMax THEN Cardinality(S) ELSE LeaseBatchMax, S)

(***************************************************************************)
(* The engine                                                              *)
(***************************************************************************)
\* The broker commits new tasks, all or none; a dependency is a known task.
commit(T) ==
    /\ \A t \in T : rows[t] = "absent" /\ \A d \in DependsOn[t] : d \in T \/ rows[d] # "absent"
    /\ rows' = [t \in Task |-> IF t \notin T THEN rows[t]
                               ELSE IF DependsOn[t] \subseteq in({"ended"}) THEN Enters[t]
                               ELSE "blocked"]

\* Enqueue: the task is durable before its queue is woken.
Enqueue(t) ==
    /\ commit({t})
    /\ waking' = waking \cup {t}
    /\ UNCHANGED <<waker, sending, hints, resolving, reaper, owed, faults>>

\* EnqueueBatch: commit, then wake every distinct queue.
EnqueueBatch(T) ==
    /\ T # {} /\ commit(T)
    /\ waking' = waking \cup T
    /\ UNCHANGED <<waker, sending, hints, resolving, reaper, owed, faults>>

\* wake: mark the queue, and start its drain goroutine unless one runs.
wake(q) ==
    /\ q \in queuesOf(waking)
    /\ waking' = {t \in waking : QueueOf[t] # q}
    /\ waker' = [waker EXCEPT ![q] = [dirty |-> TRUE, drains |-> IF @.drains > 0 THEN @.drains ELSE 1]]
    /\ owed' = owed \cup {q}
    /\ UNCHANGED <<rows, sending, hints, resolving, reaper, faults>>

\* drainWaker: test and clear the mark in one critical section, then send.
drainWaker(q) ==
    /\ waker[q].drains > 0
    /\ IF q \in sending
       THEN /\ sending' = sending \ {q}
            /\ hints' = hints \cup {q}
            /\ UNCHANGED <<waker, owed>>
       ELSE /\ waker' = [waker EXCEPT ![q] = IF @.dirty THEN [@ EXCEPT !.dirty = FALSE]
                                             ELSE [@ EXCEPT !.drains = @ - 1]]
            /\ sending' = IF waker[q].dirty THEN sending \cup {q} ELSE sending
            /\ owed' = IF waker[q].dirty THEN owed \ {q} ELSE owed
            /\ UNCHANGED hints
    /\ UNCHANGED <<rows, waking, resolving, reaper, faults>>

\* TellQueue cannot resolve the grain or the tell fails: logged.
TellQueueFails(q) ==
    /\ q \in sending /\ faults < MaxFaults
    /\ faults' = faults + 1
    /\ sending' = sending \ {q}
    /\ UNCHANGED <<rows, waking, waker, hints, resolving, reaper, owed>>

\* wakeQueue, a goroutine of its own for each hint (tellQueueGrain).
wakeQueue(T) == hints' = hints \cup queuesOf(T)

\* A node dies: its handlers, drain goroutines and hints are gone.
nodeDies ==
    /\ faults < MaxFaults
    /\ faults' = faults + 1
    /\ waking' = {} /\ sending' = {} /\ hints' = {} /\ resolving' = {} /\ owed' = {}
    /\ waker' = [q \in Queue |-> [dirty |-> FALSE, drains |-> 0]]
    /\ reaper' = "idle"
    /\ UNCHANGED rows

\* tellQueueGrain's goroutine fails, or the message is dropped.
hintLost(q) ==
    /\ q \in hints /\ faults < MaxFaults
    /\ faults' = faults + 1
    /\ hints' = hints \ {q}
    /\ UNCHANGED <<rows, waking, waker, sending, resolving, reaper, owed>>

(***************************************************************************)
(* Grains, sessions and time (external)                                    *)
(***************************************************************************)
grain(q) ==
    /\ q \in hints
    /\ hints' = hints \ {q}
    /\ move({t \in in({"pending"}) : QueueOf[t] = q}, "active")
    /\ UNCHANGED <<waking, waker, sending, resolving, reaper, owed, faults>>

leaseLapses(t) ==
    /\ rows[t] = "active" /\ faults < MaxFaults
    /\ faults' = faults + 1
    /\ move({t}, "lapsed")
    /\ UNCHANGED <<waking, waker, sending, hints, resolving, reaper, owed>>

\* The gateway records the outcome and asks the pool, if there is one.
completes(t) ==
    /\ rows[t] = "active"
    /\ move({t}, "ended")
    /\ resolving' = IF ResolverPoolSize > 0 THEN resolving \cup {t} ELSE resolving
    /\ UNCHANGED <<waking, waker, sending, hints, reaper, owed, faults>>

(***************************************************************************)
(* The passes                                                              *)
(***************************************************************************)
\* A blocked task whose dependencies have ended.
ready(t) == rows[t] = "blocked" /\ DependsOn[t] \subseteq in({"ended"})

\* promote: due scheduled tasks become pending and their queues are woken;
\* the cron pass that follows is in Scheduler.  A failed call wakes nobody.
promote ==
    \E T \in batch(in({"scheduled"})) :
        /\ T # {}
        /\ move(T, "pending")
        /\ wakeQueue(T)
        /\ UNCHANGED <<waking, waker, sending, resolving, reaper, owed, faults>>

\* resolve: the tasks that waited for t alone, or for t last, become pending.
resolve(t) ==
    /\ t \in resolving
    /\ resolving' = resolving \ {t}
    /\ LET T == {d \in Task : t \in DependsOn[d] /\ ready(d)}
       IN  move(T, "pending") /\ wakeQueue(T)
    /\ UNCHANGED <<waking, waker, sending, reaper, owed, faults>>

resolveFails(t) ==
    /\ t \in resolving /\ faults < MaxFaults
    /\ faults' = faults + 1
    /\ resolving' = resolving \ {t}
    /\ UNCHANGED <<rows, waking, waker, sending, hints, reaper, owed>>

after(call) == CASE call = "idle" -> "reap"
                 [] call = "reap" -> "purge"
                 [] call = "purge" -> "archive"
                 [] call = "archive" -> "promote"
                 [] call = "promote" -> "count"
                 [] call = "count" -> "idle"

\* Mutant: the pass trusts the wake-ups and sweeps only what it freed.
maintainNoSweep ==
    /\ reaper' = after(reaper)
    /\ CASE reaper = "reap" -> \E T \in batch(in({"lapsed"})) : move(T, "pending") /\ wakeQueue(T)
         [] reaper = "archive" ->
              \E T \in batch(Expiring \cap in({"pending", "scheduled", "blocked"})) :
                  move(T, "ended") /\ UNCHANGED hints
         [] reaper = "promote" -> \E T \in batch({t \in Task : ready(t)}) : move(T, "pending") /\ wakeQueue(T)
         [] OTHER -> UNCHANGED <<rows, hints>>
    /\ UNCHANGED <<waking, waker, sending, resolving, owed, faults>>

\* maintain, one broker call at a time: reap and wake, purge (rows nobody
\* waits for), archive the expired, promote ready dependents and wake, count
\* the pending and wake every queue that has some.
maintain ==
    /\ reaper' = after(reaper)
    /\ CASE reaper = "reap" -> \E T \in batch(in({"lapsed"})) : move(T, "pending") /\ wakeQueue(T)
         [] reaper = "archive" ->
              \E T \in batch(Expiring \cap in({"pending", "scheduled", "blocked"})) :
                  move(T, "ended") /\ UNCHANGED hints
         [] reaper = "promote" -> \E T \in batch({t \in Task : ready(t)}) : move(T, "pending") /\ wakeQueue(T)
         [] reaper = "count" -> wakeQueue(in({"pending"})) /\ UNCHANGED rows
         [] OTHER -> UNCHANGED <<rows, hints>>
    /\ UNCHANGED <<waking, waker, sending, resolving, owed, faults>>

\* A failed call is logged and the pass goes on to the next one.
maintainFails ==
    /\ reaper # "idle" /\ faults < MaxFaults
    /\ faults' = faults + 1
    /\ reaper' = after(reaper)
    /\ UNCHANGED <<rows, waking, waker, sending, hints, resolving, owed>>

Next ==
    \/ \E t \in Task : Enqueue(t) \/ leaseLapses(t) \/ completes(t) \/ resolve(t) \/ resolveFails(t)
    \/ \E T \in SUBSET Task : EnqueueBatch(T)
    \/ \E q \in Queue : wake(q) \/ drainWaker(q) \/ TellQueueFails(q) \/ hintLost(q) \/ grain(q)
    \/ promote \/ maintain \/ maintainFails \/ nodeDies

\* Goroutines run, ticks recur, mailboxes are worked off and executions end.
Fairness ==
    /\ WF_maintVars(maintain) /\ WF_maintVars(promote)
    /\ \A q \in Queue : WF_maintVars(wake(q)) /\ WF_maintVars(drainWaker(q)) /\ WF_maintVars(grain(q))
    /\ \A t \in Task : WF_maintVars(completes(t)) /\ WF_maintVars(resolve(t))

Spec == Init /\ [][Next]_maintVars /\ Fairness

(***************************************************************************)
(* Properties                                                              *)
(***************************************************************************)
\* Type invariant: only committed tasks wait to be woken for, and only ended ones
\* are with the resolver pool.
MaintTypeOK ==
    /\ rows \in [Task -> {"absent", "scheduled", "blocked", "pending", "active", "lapsed", "ended"}]
    /\ waking \subseteq in({"scheduled", "blocked", "pending", "active", "lapsed", "ended"})
    /\ waker \in [Queue -> [dirty : BOOLEAN, drains : Nat]]
    /\ sending \subseteq Queue /\ hints \subseteq Queue /\ owed \subseteq Queue
    /\ resolving \subseteq in({"ended"})
    /\ reaper \in {"idle", "reap", "purge", "archive", "promote", "count"}

\* No wake-up is lost to the coalescing: a queue woken since its last send
\* began is marked dirty, and a drain goroutine is there to see the mark
\* (engine.go, wake and drainWaker).
WakeOwed == \A q \in owed : waker[q].dirty /\ waker[q].drains > 0

\* At most one wake-up of a queue is in flight from a node, by its only drain
\* goroutine.
OneWakeInFlight == \A q \in Queue : waker[q].drains <= 1 /\ (q \in sending => waker[q].drains = 1)

\* The engine's wake-ups are coalesced without losing one.
WakesKept == MaintTypeOK /\ WakeOwed /\ OneWakeInFlight

\* A committed task ends, whatever wake-ups and resolver requests are lost,
\* leases lapse, broker calls of a pass fail and nodes die: the reaper's next
\* pass recovers it.
CommittedEnds == \A t \in Task : rows[t] # "absent" ~> rows[t] = "ended"
=============================================================================
