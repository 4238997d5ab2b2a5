------------------------------ MODULE Settings ------------------------------
(***************************************************************************)
(* The tables of a broker besides the task rows, and the reads that list   *)
(* them, as the in-memory broker keeps them (internal/broker/memory):      *)
(* queue pause flags, rate and concurrency limits, group overrides, cron   *)
(* entries, webhook registrations.  It is what every broker promises: the  *)
(* PostgreSQL one is shown to implement it (PostgresSettings).             *)
(*                                                                         *)
(* Every method runs under the broker's mutex, so it is an action.  call   *)
(* is the call last made, answer what it returned.  Names are numbers in   *)
(* the order of the strings.  A task row changes by any of the operations  *)
(* modelled elsewhere (MemoryBroker); here it just changes.                *)
(***************************************************************************)
EXTENDS Integers, FiniteSetsExt, SequencesExt

CONSTANTS
    Name,         \* queue names, cron entry ids and registration names
    Group,        \* group names; AnyGroup is the empty one
    TaskID,       \* task ids
    RateLimit,    \* rate and burst pairs
    MaxActive,    \* concurrency limits
    GroupConfig,  \* records of maxSize, maxDelay and gracePeriod
    CronSpec,     \* cron specifications
    Worker,       \* records of a registration's settings, without its pause flag
    Time,         \* instants; ZeroTime is the zero time.Time
    Limit,        \* page sizes asked for
    DefaultListLimit, MaxListLimit,
    Absent        \* no entry under a key

VARIABLES db, call, answer

settingsVars == <<db, call, answer>>

ZeroTime == 0

State == {"scheduled", "pending", "active", "retry", "canceled"}
Row == [queue : Name, state : State, enqueued : Time, processAt : Time]
CronEntry == [spec : CronSpec, paused : BOOLEAN, nextRunAt : Time \cup {ZeroTime}]
WebhookWorker == [worker : Worker, paused : BOOLEAN]

Tables ==
    [tasks : [TaskID -> Row \cup {Absent}],
     pausedQueues : [Name -> BOOLEAN \cup {Absent}],
     rateLimits : [Name -> RateLimit \cup {Absent}],
     concurrencyLimits : [Name -> MaxActive \cup {Absent}],
     groupConfigs : [Name \X Group -> GroupConfig \cup {Absent}],
     cronEntries : [Name -> CronEntry \cup {Absent}],
     webhookWorkers : [Name -> WebhookWorker \cup {Absent}]]

empty(K) == [k \in K |-> Absent]

Init ==
    /\ db = [tasks |-> empty(TaskID), pausedQueues |-> empty(Name), rateLimits |-> empty(Name),
             concurrencyLimits |-> empty(Name), groupConfigs |-> empty(Name \X Group),
             cronEntries |-> empty(Name), webhookWorkers |-> empty(Name)]
    /\ call = <<"New">>
    /\ answer = <<>>

(***************************************************************************)
(* Reading a table                                                         *)
(***************************************************************************)
keys(table) == {k \in DOMAIN table : table[k] # Absent}

\* A queue and group pair sorts by queue, then by group.
pairBefore(j, k) == j[1] < k[1] \/ (j[1] = k[1] /\ j[2] < k[2])

entries(table, ordered) == [i \in DOMAIN ordered |-> <<ordered[i], table[ordered[i]]>>]
byName(table) == entries(table, SetToSortSeq(keys(table), <))

\* What a call returns, having changed nothing.
returns(name, value) == call' = name /\ answer' = value /\ UNCHANGED db

\* A write: what it leaves, with a nil error.
writes(name, tables) == call' = name /\ answer' = <<"nil">> /\ db' = tables

notFound(name) == returns(name, <<"ErrTaskNotFound">>)

found(table, k) == IF table[k] = Absent THEN <<>> ELSE <<table[k]>>

(***************************************************************************)
(* Queues                                                                  *)
(***************************************************************************)
SetQueuePaused(q, paused) ==
    writes(<<"SetQueuePaused", q, paused>>, [db EXCEPT !.pausedQueues[q] = paused])

pausedFlag(q) == db.pausedQueues[q] # Absent /\ db.pausedQueues[q]

QueuePaused(q) == returns(<<"QueuePaused", q>>, <<pausedFlag(q)>>)

SetQueueRateLimit(q, limit) ==
    writes(<<"SetQueueRateLimit", q, limit>>, [db EXCEPT !.rateLimits[q] = limit])

DeleteQueueRateLimit(q) ==
    writes(<<"DeleteQueueRateLimit", q>>, [db EXCEPT !.rateLimits[q] = Absent])

QueueRateLimit(q) == returns(<<"QueueRateLimit", q>>, found(db.rateLimits, q))

QueueRateLimits == returns(<<"QueueRateLimits">>, byName(db.rateLimits))

SetQueueConcurrencyLimit(q, maxActive) ==
    writes(<<"SetQueueConcurrencyLimit", q, maxActive>>, [db EXCEPT !.concurrencyLimits[q] = maxActive])

DeleteQueueConcurrencyLimit(q) ==
    writes(<<"DeleteQueueConcurrencyLimit", q>>, [db EXCEPT !.concurrencyLimits[q] = Absent])

QueueConcurrencyLimit(q) == returns(<<"QueueConcurrencyLimit", q>>, found(db.concurrencyLimits, q))

QueueConcurrencyLimits == returns(<<"QueueConcurrencyLimits">>, byName(db.concurrencyLimits))

(***************************************************************************)
(* Tasks, as the reads see them                                            *)
(***************************************************************************)
TaskChanges(id, row) == writes(<<"TaskChanges", id, row>>, [db EXCEPT !.tasks[id] = row])

\* The due time is the row's, not the one of the stored envelope.
overlay(id) == [id |-> id, state |-> db.tasks[id].state, processAt |-> db.tasks[id].processAt]

GetTask(id) ==
    IF db.tasks[id] = Absent THEN notFound(<<"GetTask", id>>)
    ELSE returns(<<"GetTask", id>>, <<overlay(id)>>)

EffectiveListLimit(limit) ==
    IF limit <= 0 THEN DefaultListLimit ELSE Min({limit, MaxListLimit})

\* An Absent queue, state or token is an empty one: it selects every row.
matches(id, queue, state, afterID) ==
    /\ queue = Absent \/ db.tasks[id].queue = queue
    /\ state = Absent \/ db.tasks[id].state = state
    /\ afterID = Absent \/ id < afterID

page(queue, state, afterID, limit) ==
    LET matched == SetToSortSeq({id \in keys(db.tasks) : matches(id, queue, state, afterID)}, >)
    IN SubSeq(matched, 1, Min({Len(matched), EffectiveListLimit(limit)}))

ListTasks(queue, state, afterID, limit) ==
    LET ids == page(queue, state, afterID, limit)
    IN returns(<<"ListTasks", queue, state, afterID, limit>>, [i \in DOMAIN ids |-> overlay(ids[i])])

PendingCount(now) ==
    LET due == {id \in keys(db.tasks) : /\ db.tasks[id].state \in {"pending", "retry"}
                                        /\ db.tasks[id].processAt <= now}
        queues == {db.tasks[id].queue : id \in due}
    IN returns(<<"PendingCount", now>>,
               <<[q \in queues |-> Cardinality({id \in due : db.tasks[id].queue = q})]>>)

\* The states QueueStat has a count for: none for a canceled task.
Counted == State \ {"canceled"}

inState(q, s) == {id \in keys(db.tasks) : db.tasks[id].queue = q /\ db.tasks[id].state = s}

QueueStats ==
    LET queues == SetToSortSeq(keys(db.pausedQueues) \cup {db.tasks[id].queue : id \in keys(db.tasks)}, <)
    IN returns(<<"QueueStats">>,
               [i \in DOMAIN queues |-> [queue |-> queues[i], paused |-> pausedFlag(queues[i]),
                                         count |-> [s \in Counted |-> Cardinality(inState(queues[i], s))]]])

(***************************************************************************)
(* Group overrides, cron entries and webhook registrations                 *)
(***************************************************************************)
SetGroupConfig(q, g, config) ==
    writes(<<"SetGroupConfig", q, g, config>>, [db EXCEPT !.groupConfigs[q, g] = config])

DeleteGroupConfig(q, g) ==
    writes(<<"DeleteGroupConfig", q, g>>, [db EXCEPT !.groupConfigs[q, g] = Absent])

GroupConfigs ==
    returns(<<"GroupConfigs">>, entries(db.groupConfigs, SetToSortSeq(keys(db.groupConfigs), pairBefore)))

UpsertCronEntry(id, entry) ==
    writes(<<"UpsertCronEntry", id, entry>>, [db EXCEPT !.cronEntries[id] = entry])

ListCronEntries == returns(<<"ListCronEntries">>, byName(db.cronEntries))

dueEntry(entry, now) == ~entry.paused /\ entry.nextRunAt <= now

ListDueCronEntries(now) ==
    LET due == {id \in keys(db.cronEntries) : dueEntry(db.cronEntries[id], now)}
    IN returns(<<"ListDueCronEntries", now>>, entries(db.cronEntries, SetToSortSeq(due, <)))

SetCronPaused(id, paused) ==
    IF db.cronEntries[id] = Absent THEN notFound(<<"SetCronPaused", id, paused>>)
    ELSE writes(<<"SetCronPaused", id, paused>>, [db EXCEPT !.cronEntries[id].paused = paused])

UpdateCronNextRun(id, expected, next) ==
    LET stale == db.cronEntries[id] = Absent \/ db.cronEntries[id].nextRunAt # expected
    IN writes(<<"UpdateCronNextRun", id, expected, next>>,
              IF stale THEN db ELSE [db EXCEPT !.cronEntries[id].nextRunAt = next])

DeleteCronEntry(id) == writes(<<"DeleteCronEntry", id>>, [db EXCEPT !.cronEntries[id] = Absent])

UpsertWebhookWorker(name, w) ==
    writes(<<"UpsertWebhookWorker", name, w>>, [db EXCEPT !.webhookWorkers[name] = w])

GetWebhookWorker(name) ==
    IF db.webhookWorkers[name] = Absent THEN notFound(<<"GetWebhookWorker", name>>)
    ELSE returns(<<"GetWebhookWorker", name>>, <<db.webhookWorkers[name]>>)

ListWebhookWorkers == returns(<<"ListWebhookWorkers">>, byName(db.webhookWorkers))

SetWebhookWorkerPaused(name, paused) ==
    IF db.webhookWorkers[name] = Absent THEN notFound(<<"SetWebhookWorkerPaused", name, paused>>)
    ELSE writes(<<"SetWebhookWorkerPaused", name, paused>>,
                [db EXCEPT !.webhookWorkers[name].paused = paused])

DeleteWebhookWorker(name) ==
    writes(<<"DeleteWebhookWorker", name>>, [db EXCEPT !.webhookWorkers[name] = Absent])

QueueCall ==
    \/ \E q \in Name : \/ \E b \in BOOLEAN : SetQueuePaused(q, b)
                       \/ QueuePaused(q) \/ DeleteQueueRateLimit(q) \/ QueueRateLimit(q)
                       \/ \E limit \in RateLimit : SetQueueRateLimit(q, limit)
                       \/ \E n \in MaxActive : SetQueueConcurrencyLimit(q, n)
                       \/ DeleteQueueConcurrencyLimit(q) \/ QueueConcurrencyLimit(q)
    \/ QueueRateLimits \/ QueueConcurrencyLimits

TaskCall ==
    \/ \E id \in TaskID : GetTask(id) \/ \E row \in Row \cup {Absent} : TaskChanges(id, row)
    \/ \E q \in Name \cup {Absent}, s \in State \cup {Absent}, after \in TaskID \cup {Absent}, n \in Limit :
           ListTasks(q, s, after, n)
    \/ \E now \in Time : PendingCount(now)
    \/ QueueStats

GroupCall ==
    \/ \E q \in Name, g \in Group : \/ \E config \in GroupConfig : SetGroupConfig(q, g, config)
                                  \/ DeleteGroupConfig(q, g)
    \/ GroupConfigs

CronCall ==
    \/ \E id \in Name : \/ \E entry \in CronEntry : UpsertCronEntry(id, entry)
                        \/ \E b \in BOOLEAN : SetCronPaused(id, b)
                        \/ \E e \in Time \cup {ZeroTime}, n \in Time : UpdateCronNextRun(id, e, n)
                        \/ DeleteCronEntry(id)
    \/ ListCronEntries
    \/ \E now \in Time : ListDueCronEntries(now)

WebhookCall ==
    \/ \E name \in Name : \/ \E w \in WebhookWorker : UpsertWebhookWorker(name, w)
                          \/ \E b \in BOOLEAN : SetWebhookWorkerPaused(name, b)
                          \/ GetWebhookWorker(name) \/ DeleteWebhookWorker(name)
    \/ ListWebhookWorkers

Next == QueueCall \/ TaskCall \/ GroupCall \/ CronCall \/ WebhookCall

SettingsSpec == Init /\ [][Next]_settingsVars
=============================================================================
