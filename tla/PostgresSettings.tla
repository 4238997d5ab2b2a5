-------------------------- MODULE PostgresSettings --------------------------
(***************************************************************************)
(* The same tables in PostgreSQL (internal/broker/postgres/postgres.go):   *)
(* each method is one statement, so one action.  A column holds an         *)
(* encoding of the value: milliseconds for the durations of a group        *)
(* override, NULL for a zero time, a number for a task state.  decoded is  *)
(* what the scans make of the columns; under it the broker implements      *)
(* Settings.                                                               *)
(***************************************************************************)
EXTENDS Integers, FiniteSetsExt, SequencesExt

CONSTANTS Name, Group, TaskID, RateLimit, MaxActive, GroupConfig, CronSpec, Worker, Time, Limit,
          DefaultListLimit, MaxListLimit, Absent,
          Millisecond,  \* clock units in a millisecond
          Microsecond,  \* clock units in a microsecond
          NULL

VARIABLES sql, call, answer

sqlVars == <<sql, call, answer>>

(***************************************************************************)
(* Encodings                                                               *)
(***************************************************************************)
ZeroTime == 0

nullableTime(t) == IF t = ZeroTime THEN NULL ELSE t
scannedTime(column) == IF column = NULL THEN ZeroTime ELSE column

milliseconds(d) == d \div Millisecond
pgInterval(d) == d \div Microsecond

\* The numbers of the states, in the column and in the TaskState enumeration.
stateCode == [scheduled |-> 1, pending |-> 2, active |-> 3, retry |-> 4, canceled |-> 7]
stateOf(code) == CHOOSE s \in DOMAIN stateCode : stateCode[s] = code

encodeConfig(c) ==
    [maxSize |-> c.maxSize, maxDelayMS |-> milliseconds(c.maxDelay), gracePeriodMS |-> milliseconds(c.gracePeriod)]
scanGroupConfig(r) ==
    [maxSize |-> r.maxSize, maxDelay |-> r.maxDelayMS * Millisecond, gracePeriod |-> r.gracePeriodMS * Millisecond]

scanCronEntry(r) == [r EXCEPT !.nextRunAt = scannedTime(@)]

encodeWorker(w) == [w EXCEPT !.worker.requestTimeout = pgInterval(@)]
scanWebhookWorker(r) == [r EXCEPT !.worker.requestTimeout = @ * Microsecond]

scanTask(r) ==
    [queue |-> r.queue, state |-> stateOf(r.state), enqueued |-> r.payload, processAt |-> r.processAt]
encodeTask(row) ==
    [queue |-> row.queue, state |-> stateCode[row.state], payload |-> row.enqueued, processAt |-> row.processAt]

scanned(table, Scan(_)) == [k \in DOMAIN table |-> IF table[k] = Absent THEN Absent ELSE Scan(table[k])]

decoded ==
    [sql EXCEPT !.tasks = scanned(@, scanTask), !.groupConfigs = scanned(@, scanGroupConfig),
                !.cronEntries = scanned(@, scanCronEntry), !.webhookWorkers = scanned(@, scanWebhookWorker)]

empty(K) == [k \in K |-> Absent]

Init ==
    /\ sql = [tasks |-> empty(TaskID), pausedQueues |-> empty(Name), rateLimits |-> empty(Name),
              concurrencyLimits |-> empty(Name), groupConfigs |-> empty(Name \X Group),
              cronEntries |-> empty(Name), webhookWorkers |-> empty(Name)]
    /\ call = <<"New">>
    /\ answer = <<>>

(***************************************************************************)
(* Statements                                                              *)
(***************************************************************************)
keys(table) == {k \in DOMAIN table : table[k] # Absent}
pairBefore(j, k) == j[1] < k[1] \/ (j[1] = k[1] /\ j[2] < k[2])
ORDERBY(S) == SetToSortSeq(S, <)

select(name, value) == call' = name /\ answer' = value /\ UNCHANGED sql
exec(name, tables) == call' = name /\ answer' = <<"nil">> /\ sql' = tables

\* An UPDATE by key that must hit a row.
update(name, table, k, tables) ==
    IF table[k] = Absent THEN select(name, <<"ErrTaskNotFound">>) ELSE exec(name, tables)

optional(table, k) == IF table[k] = Absent THEN <<>> ELSE <<table[k]>>
listed(table, ordered) == [i \in DOMAIN ordered |-> <<ordered[i], table[ordered[i]]>>]

(***************************************************************************)
(* Queues                                                                  *)
(***************************************************************************)
SetQueuePaused(q, paused) == exec(<<"SetQueuePaused", q, paused>>, [sql EXCEPT !.pausedQueues[q] = paused])

QueuePaused(q) ==
    select(<<"QueuePaused", q>>,
           IF sql.pausedQueues[q] = Absent THEN <<FALSE>> ELSE <<sql.pausedQueues[q]>>)

SetQueueRateLimit(q, limit) ==
    exec(<<"SetQueueRateLimit", q, limit>>, [sql EXCEPT !.rateLimits[q] = limit])

DeleteQueueRateLimit(q) == exec(<<"DeleteQueueRateLimit", q>>, [sql EXCEPT !.rateLimits[q] = Absent])

QueueRateLimit(q) == select(<<"QueueRateLimit", q>>, optional(sql.rateLimits, q))

QueueRateLimits == select(<<"QueueRateLimits">>, listed(sql.rateLimits, ORDERBY(keys(sql.rateLimits))))

SetQueueConcurrencyLimit(q, n) ==
    exec(<<"SetQueueConcurrencyLimit", q, n>>, [sql EXCEPT !.concurrencyLimits[q] = n])

DeleteQueueConcurrencyLimit(q) ==
    exec(<<"DeleteQueueConcurrencyLimit", q>>, [sql EXCEPT !.concurrencyLimits[q] = Absent])

QueueConcurrencyLimit(q) == select(<<"QueueConcurrencyLimit", q>>, optional(sql.concurrencyLimits, q))

QueueConcurrencyLimits ==
    select(<<"QueueConcurrencyLimits">>, listed(sql.concurrencyLimits, ORDERBY(keys(sql.concurrencyLimits))))

(***************************************************************************)
(* Tasks                                                                   *)
(***************************************************************************)
TaskChanges(id, row) ==
    exec(<<"TaskChanges", id, row>>, [sql EXCEPT !.tasks[id] = IF row = Absent THEN Absent ELSE encodeTask(row)])

\* The envelope as stored, stamped with the columns that overrule it.
stamp(id) ==
    [id |-> id, state |-> stateOf(sql.tasks[id].state), processAt |-> sql.tasks[id].processAt]

GetTask(id) ==
    IF sql.tasks[id] = Absent THEN select(<<"GetTask", id>>, <<"ErrTaskNotFound">>)
    ELSE select(<<"GetTask", id>>, <<stamp(id)>>)

EffectiveListLimit(limit) ==
    IF limit <= 0 THEN DefaultListLimit ELSE IF limit > MaxListLimit THEN MaxListLimit ELSE limit

\* The WHERE clause: a condition for each filter that is set.
where(queue, state, afterID) ==
    {id \in keys(sql.tasks) : /\ queue # Absent => sql.tasks[id].queue = queue
                              /\ state # Absent => sql.tasks[id].state = stateCode[state]
                              /\ afterID # Absent => id < afterID}

ListTasks(queue, state, afterID, limit) ==
    LET ids == SetToSortSeq(where(queue, state, afterID), >)
        n == Min({Len(ids), EffectiveListLimit(limit)})
    IN select(<<"ListTasks", queue, state, afterID, limit>>, [i \in 1..n |-> stamp(ids[i])])

PendingCount(now) ==
    LET due == {id \in keys(sql.tasks) : /\ sql.tasks[id].state \in {stateCode.pending, stateCode.retry}
                                         /\ sql.tasks[id].processAt <= now}
    IN select(<<"PendingCount", now>>,
              <<[q \in {sql.tasks[id].queue : id \in due} |->
                    Cardinality({id \in due : sql.tasks[id].queue = q})]>>)

\* GROUP BY queue, state.
grouped ==
    {[queue |-> g[1], state |-> g[2],
      count |-> Cardinality({id \in keys(sql.tasks) : <<sql.tasks[id].queue, sql.tasks[id].state>> = g})] :
        g \in {<<sql.tasks[id].queue, sql.tasks[id].state>> : id \in keys(sql.tasks)}}

\* FULL OUTER JOIN with the pause flags: a queue without tasks has one row.
joined ==
    {[queue |-> g.queue, paused |-> sql.pausedQueues[g.queue] \notin {Absent, FALSE},
      state |-> g.state, count |-> g.count] : g \in grouped}
    \cup {[queue |-> q, paused |-> sql.pausedQueues[q], state |-> NULL, count |-> NULL] :
              q \in keys(sql.pausedQueues) \ {g.queue : g \in grouped}}

noCounts == [s \in {"scheduled", "pending", "active", "retry"} |-> 0]

\* One scanned row: it opens a queue's QueueStat when the queue is a new one.
scanStat(stats, r) ==
    LET opened == IF stats = <<>> \/ Last(stats).queue # r.queue
                  THEN Append(stats, [queue |-> r.queue, paused |-> r.paused, count |-> noCounts])
                  ELSE stats
    IN [opened EXCEPT ![Len(opened)].count =
            [s \in DOMAIN noCounts |-> IF stateCode[s] = r.state THEN r.count ELSE @[s]]]

QueueStats ==
    select(<<"QueueStats">>,
           FoldLeft(scanStat, <<>>, SetToSortSeq(joined, LAMBDA a, b : a.queue < b.queue)))

(***************************************************************************)
(* Group overrides, cron entries and webhook registrations                 *)
(***************************************************************************)
SetGroupConfig(q, g, config) ==
    exec(<<"SetGroupConfig", q, g, config>>, [sql EXCEPT !.groupConfigs[q, g] = encodeConfig(config)])

DeleteGroupConfig(q, g) == exec(<<"DeleteGroupConfig", q, g>>, [sql EXCEPT !.groupConfigs[q, g] = Absent])

GroupConfigs ==
    select(<<"GroupConfigs">>,
           listed(decoded.groupConfigs, SetToSortSeq(keys(sql.groupConfigs), pairBefore)))

\* The cursor of an upsert is NULL unless the caller gives one.
UpsertCronEntry(id, entry) ==
    exec(<<"UpsertCronEntry", id, entry>>,
         [sql EXCEPT !.cronEntries[id] = [entry EXCEPT !.nextRunAt = nullableTime(@)]])

ListCronEntries ==
    select(<<"ListCronEntries">>, listed(decoded.cronEntries, ORDERBY(keys(sql.cronEntries))))

ListDueCronEntries(now) ==
    LET due == {id \in keys(sql.cronEntries) :
                   /\ ~sql.cronEntries[id].paused
                   /\ sql.cronEntries[id].nextRunAt = NULL \/ sql.cronEntries[id].nextRunAt <= now}
    IN select(<<"ListDueCronEntries", now>>, listed(decoded.cronEntries, ORDERBY(due)))

SetCronPaused(id, paused) ==
    update(<<"SetCronPaused", id, paused>>, sql.cronEntries, id, [sql EXCEPT !.cronEntries[id].paused = paused])

\* Mutant: the cursor is compared with =, and NULL equals nothing.
comparesEqual(column, expected) == column # NULL /\ column = nullableTime(expected)

\* IS NOT DISTINCT FROM: NULL matches the zero time.
notDistinct(column, expected) == column = nullableTime(expected)

UpdateCronNextRun(id, expected, next) ==
    LET hit == sql.cronEntries[id] # Absent /\ notDistinct(sql.cronEntries[id].nextRunAt, expected)
    IN exec(<<"UpdateCronNextRun", id, expected, next>>,
            IF hit THEN [sql EXCEPT !.cronEntries[id].nextRunAt = next] ELSE sql)

DeleteCronEntry(id) == exec(<<"DeleteCronEntry", id>>, [sql EXCEPT !.cronEntries[id] = Absent])

UpsertWebhookWorker(name, w) ==
    exec(<<"UpsertWebhookWorker", name, w>>, [sql EXCEPT !.webhookWorkers[name] = encodeWorker(w)])

GetWebhookWorker(name) ==
    LET found == optional(decoded.webhookWorkers, name)
    IN select(<<"GetWebhookWorker", name>>, IF found = <<>> THEN <<"ErrTaskNotFound">> ELSE found)

ListWebhookWorkers ==
    select(<<"ListWebhookWorkers">>, listed(decoded.webhookWorkers, ORDERBY(keys(sql.webhookWorkers))))

SetWebhookWorkerPaused(name, paused) ==
    update(<<"SetWebhookWorkerPaused", name, paused>>, sql.webhookWorkers, name,
           [sql EXCEPT !.webhookWorkers[name].paused = paused])

DeleteWebhookWorker(name) ==
    exec(<<"DeleteWebhookWorker", name>>, [sql EXCEPT !.webhookWorkers[name] = Absent])

(***************************************************************************)
(* The broker implements Settings: through the encodings, every call has   *)
(* the effect and the answer that the in-memory broker gives it.           *)
(***************************************************************************)
Memory == INSTANCE Settings WITH db <- decoded

QueueCall ==
    \/ \E q \in Name : \/ \E b \in BOOLEAN : SetQueuePaused(q, b)
                       \/ QueuePaused(q) \/ DeleteQueueRateLimit(q) \/ QueueRateLimit(q)
                       \/ \E limit \in RateLimit : SetQueueRateLimit(q, limit)
                       \/ \E n \in MaxActive : SetQueueConcurrencyLimit(q, n)
                       \/ DeleteQueueConcurrencyLimit(q) \/ QueueConcurrencyLimit(q)
    \/ QueueRateLimits \/ QueueConcurrencyLimits

TaskCall ==
    \/ \E id \in TaskID : GetTask(id) \/ \E row \in Memory!Row \cup {Absent} : TaskChanges(id, row)
    \/ \E q \in Name \cup {Absent}, s \in DOMAIN stateCode \cup {Absent}, after \in TaskID \cup {Absent},
         n \in Limit : ListTasks(q, s, after, n)
    \/ \E now \in Time : PendingCount(now)
    \/ QueueStats

GroupCall ==
    \/ \E q \in Name, g \in Group : \/ \E config \in GroupConfig : SetGroupConfig(q, g, config)
                                  \/ DeleteGroupConfig(q, g)
    \/ GroupConfigs

CronCall ==
    \/ \E id \in Name : \/ \E entry \in Memory!CronEntry : UpsertCronEntry(id, entry)
                        \/ \E b \in BOOLEAN : SetCronPaused(id, b)
                        \/ \E e \in Time \cup {ZeroTime}, n \in Time : UpdateCronNextRun(id, e, n)
                        \/ DeleteCronEntry(id)
    \/ ListCronEntries
    \/ \E now \in Time : ListDueCronEntries(now)

WebhookCall ==
    \/ \E name \in Name : \/ \E w \in Memory!WebhookWorker : UpsertWebhookWorker(name, w)
                          \/ \E b \in BOOLEAN : SetWebhookWorkerPaused(name, b)
                          \/ GetWebhookWorker(name) \/ DeleteWebhookWorker(name)
    \/ ListWebhookWorkers

Next == QueueCall \/ TaskCall \/ GroupCall \/ CronCall \/ WebhookCall

SqlSpec == Init /\ [][Next]_sqlVars
=============================================================================
