------------------------------ MODULE MCControl ------------------------------
(***************************************************************************)
(* Instances of PostgresSettings, Admin, Enqueueing, TaskAdmin, Access,    *)
(* Configuration, Throttle, Scheduler, Backoff and Events side by side: a  *)
(* behaviour follows one scenario, of one of them.                         *)
(***************************************************************************)
EXTENDS Admin, FiniteSetsExt, SequencesExt

CONSTANTS c1, c2, NoID, NoKey, NULL

VARIABLES
    scenario,
    sql, call, answer,
    tasks, clients, handlers, wakers, unwoken, due, resolved,
    rows, fresh, taskCalls, owed, listing, steady, changes,
    serving, outcome, restarts,
    registry, from, config, node, loads,
    limiter, cycle, spent, allowed, ticks, limitChanges,
    cronNow, cronEntries, fired, cronHost, pass, cronAnswer, cronChanges, cronFaults, moves,
    server, options, retried, delay,
    underLock, state, emitting, topic, subs, dueTo, dropped, got, sink, count, lost,
    eventFaults, watches

settingsVars == <<sql, call, answer>>
enqueueVars == <<tasks, clients, handlers, wakers, unwoken, due, resolved>>
taskAdminVars == <<rows, fresh, taskCalls, owed, listing, steady, changes>>
accessVars == <<serving, outcome, restarts>>
configVars == <<registry, from, config, node, loads>>
limitVars == <<limiter, cycle, spent, allowed, ticks, limitChanges>>
scheduleVars == <<cronNow, cronEntries, fired, cronHost, pass, cronAnswer, cronChanges, cronFaults, moves>>
retryVars == <<server, options, retried, delay>>
eventVars == <<underLock, state, emitting, topic, subs, dueTo, dropped, got, sink, count, lost,
               eventFaults, watches>>

Configs == {[maxSize |-> 2, maxDelay |-> 1000, gracePeriod |-> 0],
            [maxSize |-> 0, maxDelay |-> 0, gracePeriod |-> 2000]}
Workers == {[url |-> 1, requestTimeout |-> 0], [url |-> 2, requestTimeout |-> 30000]}

Sql == INSTANCE PostgresSettings WITH
    Name <- {1, 2}, Group <- {1, 2}, TaskID <- {1, 2}, RateLimit <- {1, 2}, MaxActive <- {1, 2},
    GroupConfig <- Configs, CronSpec <- {1}, Worker <- Workers, Time <- {1, 2}, Limit <- {0, 3},
    DefaultListLimit <- 1, MaxListLimit <- 2, Millisecond <- 1000, Microsecond <- 1

ASSUME RequestsAssumption == Requests

(***************************************************************************)
(* Enqueueing: a pair of calls, of which the first may be repeated once,   *)
(* except beside several tasks.                                            *)
(***************************************************************************)
item(id, q, unique, work, form) == [id |-> id, queue |-> q, unique |-> unique, work |-> work, form |-> form]
single(i) == [kind |-> "one", items |-> <<i>>]
Named == single(item(<<1>>, 1, FALSE, 1, "plain"))
Unnamed == single(item(NoID, 1, TRUE, 1, "plain"))
Mixed == [kind |-> "batch", items |-> <<item(NoID, 1, TRUE, 1, "later"), item(NoID, 1, FALSE, 1, "invalid"),
                                        item(NoID, 1, TRUE, 1, "grouped")>>]
Whole == [kind |-> "tx", items |-> <<item(<<2>>, 1, TRUE, 1, "plain"), item(<<3>>, 2, TRUE, 2, "dependent")>>]
Broken == [kind |-> "tx", items |-> <<item(NoID, 2, FALSE, 1, "plain"), item(NoID, 2, FALSE, 1, "invalid")>>]
Pairs == {<<Named, Named>>, <<Unnamed, Unnamed>>, <<Unnamed, Mixed>>, <<Unnamed, Whole>>, <<Named, Broken>>}

Enqueue == INSTANCE Enqueueing WITH
    Client <- {c1, c2}, Operation <- {p[1] : p \in Pairs} \cup {p[2] : p \in Pairs}, Queue <- {1, 2},
    MaxAttempts <- (c1 :> 2) @@ (c2 :> 1)

enqueueStep == Enqueue!Next /\ (clients[c2].op \in {Mixed, Whole} => clients'[c1].attempt <= 1)

has(form) == \E c \in {c1, c2} : \E i \in DOMAIN clients[c].op.items : clients[c].op.items[i].form = form

(***************************************************************************)
(* TaskAdmin: two calls on two tasks, or a listing of up to four           *)
(***************************************************************************)
asked(op, ids, now) == [op |-> op, ids |-> ids, due |-> now]
TaskRequests ==
    {asked(op, ids, TRUE) : op \in {"cancel", "delete", "run", "archive"}, ids \in {<<1>>, <<2, 1>>}}
    \cup {asked("reschedule", <<1>>, b) : b \in BOOLEAN}

Tasks == INSTANCE TaskAdmin WITH
    Handler <- {c1, c2}, Request <- TaskRequests, TaskID <- 1..4, Queue <- {1}, Waiting <- {2},
    PageLimit <- 2, MaxChanges <- 2, handlers <- taskCalls

(***************************************************************************)
(* Access: api blocks with every kind of declaration, valid and not        *)
(***************************************************************************)
api(auth, scoped, open, readOnly) ==
    [authTokens |-> auth, scopedTokens |-> scoped, allowUnauthenticated |-> open, readOnly |-> readOnly]
scopedToken(t, scopes) == [token |-> t, scopes |-> scopes]
ApiConfigs ==
    {api(<<>>, <<>>, FALSE, FALSE), api(<<>>, <<>>, TRUE, TRUE),
     api(<<"a">>, <<scopedToken("b", {"produce"})>>, FALSE, FALSE),
     api(<<"a", "b">>, <<scopedToken("b", {"produce"})>>, FALSE, FALSE),
     api(<<>>, <<scopedToken("b", {"admin"}), scopedToken("a", {"consume"})>>, FALSE, TRUE),
     api(<<>>, <<scopedToken("b", {"admin"}), scopedToken("b", {"consume"})>>, FALSE, TRUE),
     api(<<"a">>, <<scopedToken("b", {})>>, FALSE, TRUE)}

AccessOf == INSTANCE Access WITH
    Token <- {"a", "b", "c"}, NoToken <- "", ApiConfig <- ApiConfigs, MaxRestarts <- 2,
    running <- serving

(***************************************************************************)
(* Configuration: layers that set the keys whose checks interact           *)
(***************************************************************************)
hook(scheme, host, secrets) ==
    [name |-> "w", scheme |-> scheme, host |-> host, queues |-> 1, weight |-> 1,
     concurrency |-> 1, secrets |-> secrets]
Layers ==
    {<<>>, [dsn |-> "dsn", tokens |-> {"t"}], [open |-> TRUE, driver |-> "memory"], [open |-> FALSE],
     [dsn |-> "dsn", tokens |-> {"t"}, statementTimeout |-> 500, maxConns |-> 2, minConns |-> 3],
     [statementTimeout |-> 1500, discovery |-> "custom"], [statementTimeout |-> 500],
     [rate |-> 1, certFile |-> "c"], [burst |-> 1, keyFile |-> "k"],
     [webhooks |-> <<hook("http", "private", 1)>>], [interval |-> 0, port |-> 0]}

ConfigOf == INSTANCE Configuration WITH
    Layer <- Layers, Provider <- {"custom", "static"}, MaxLoads <- 2

(***************************************************************************)
(* Throttle: a queue's limit and the cycles that spend it                  *)
(***************************************************************************)
limitOf(rate, burst) == [rate |-> rate, burst |-> burst]

INSTANCE Throttle WITH
    Limit <- {limitOf(1, 1), limitOf(1, 3), limitOf(2, 2), limitOf(0, 0)}, Default <- limitOf(0, 0),
    LeaseMax <- 3, MaxTicks <- 2, MaxChanges <- 2, changes <- limitChanges

ASSUME NumbersAssumption == Numbers

(***************************************************************************)
(* Scheduler: an entry that two nodes' schedulers fire across a relocation *)
(***************************************************************************)
INSTANCE Scheduler WITH
    Host <- {1, 2}, EntryID <- {1}, Period <- {2, 3}, Invalid <- 99, UniqueTTL <- 3,
    MaxTime <- 4, MaxChanges <- 2, MaxFaults <- 1, MaxMoves <- 1,
    now <- cronNow, host <- cronHost, answer <- cronAnswer, changes <- cronChanges, faults <- cronFaults

\* An entry is changed twice, or once besides a failing call.
scheduleStep == CronNext /\ cronChanges' + cronFaults' <= 2

(***************************************************************************)
(* Backoff: durations of eight bits.  The base and the cap stay below the  *)
(* sign bit and the bit the shift's guard keeps free, as 64-bit ones of    *)
(* less than 146 years do.                                                 *)
(***************************************************************************)
Retry == INSTANCE Backoff WITH Width <- 8, Duration <- {0, 1, 9, 20, 60}, MaxRetry <- 7

(***************************************************************************)
(* Events: a stream that may lose publishes, one that is watched, and one  *)
(* of a broker that emits after its commits                                *)
(***************************************************************************)
Stream == INSTANCE Events WITH
    Task <- {"t"}, QueueOf <- "t" :> "q", Watcher <- {"w"}, BufferSize <- 1, MaxRetries <- 1,
    Request <- {[queues |-> {"q"}, types |-> {"LEASED"}], [queues |-> {}, types |-> {"UNSPECIFIED"}]},
    Transition <- {<<"absent", "pending">>, <<"absent", "blocked">>, <<"blocked", "pending">>,
                   <<"pending", "active">>, <<"active", "pending">>, <<"active", "retry">>,
                   <<"active", "completed">>, <<"retry", "active">>},
    MaxEvents <- 3, MaxFaults <- 2, MaxWatches <- 1,
    due <- dueTo, faults <- eventFaults

EventScenario == {"losing", "watched", "emitting late"}

streamStep ==
    /\ Stream!Next
    /\ scenario # "losing" => eventFaults' = 0
    /\ scenario # "watched" => watches' = 0

(***************************************************************************)
(* The scenarios                                                           *)
(***************************************************************************)
SqlScenario == {"queues", "tasks", "groups", "cron", "webhooks"}
AdminScenario == {"paused", "rateLimit", "maxActive"}
TaskScenario == {"calls", "listing"}
PolicyScenario == {"access", "configuration", "throttle", "schedule", "retries"}

policyVars == <<accessVars, configVars, limitVars, scheduleVars, retryVars, eventVars>>
mcVars == <<settingsVars, adminVars, enqueueVars, taskAdminVars, policyVars, scenario>>

\* What a call was and returned does not bear on the next one.
View == <<sql, adminVars, enqueueVars, taskAdminVars, policyVars, scenario>>

ControlInit ==
    /\ scenario \in SqlScenario \cup AdminScenario \cup TaskScenario
                    \cup PolicyScenario \cup EventScenario \cup {"enqueue"}
    /\ Sql!Init /\ Init /\ AccessOf!Init /\ ConfigOf!Init /\ RateInit
    /\ Enqueue!Init
    /\ \E p \in Pairs : /\ clients[c1].op = p[1] /\ clients[c2].op = p[2]
                        /\ scenario # "enqueue" => p = <<Named, Named>>
    /\ due # has("later") /\ resolved # has("dependent")
    /\ Tasks!Init
    /\ scenario \notin TaskScenario => \A id \in DOMAIN rows : rows[id] = Absent
    /\ scenario = "calls" => rows[3] = Absent /\ rows[4] = Absent
    /\ scenario = "listing" => \A id \in 1..3 : rows[id] # Absent /\ rows[id].state = "pending"
    /\ Stream!Init /\ underLock = (scenario # "emitting late")
    /\ CronInit /\ (scenario # "schedule" => cronHost = 1)
    /\ Retry!Init /\ (scenario # "retries" =>
         /\ server = [kind |-> "fixed", base |-> 1, max |-> 1]
         /\ options = [kind |-> "default", base |-> 0, max |-> 0])

\* One of two tasks takes every state; listings ask for any, or for one of two.
SqlNext ==
    \/ scenario = "queues" /\ Sql!QueueCall
    \/ /\ scenario = "tasks"
       /\ Sql!TaskCall \/ Sql!SetQueuePaused(2, TRUE)
       /\ call'[1] = "ListTasks" => call'[3] \in {Absent, "pending", "retry"}
       /\ sql'.tasks[2] # Absent => Sql!stateOf(sql'.tasks[2].state) \in {"pending", "retry"}
    \/ scenario = "groups" /\ Sql!GroupCall
    \/ scenario = "cron" /\ Sql!CronCall
    \/ scenario = "webhooks" /\ Sql!WebhookCall

\* The requests of a behaviour change one setting.
AdminNext == Next /\ \A c \in {c1, c2} : calls'[c].at # "idle" => calls'[c].setting = scenario

TaskNext ==
    \/ \E h \in {c1, c2} : scenario = "calls" /\ (Tasks!CallStep(h) \/ \E r \in TaskRequests : Tasks!call(h, r))
    \/ scenario = "listing" /\ (Tasks!startListing \/ Tasks!ListTasks)
    \/ \E id \in IF scenario = "listing" THEN 1..4 ELSE 1..2 :
           /\ Tasks!proceed(id) \/ Tasks!appear(id) \/ Tasks!purge(id)
           /\ scenario = "calls" => changes' <= 1

ControlNext ==
    /\ UNCHANGED scenario
    /\ IF scenario \in SqlScenario THEN SqlNext ELSE UNCHANGED settingsVars
    /\ IF scenario \in AdminScenario THEN AdminNext ELSE UNCHANGED adminVars
    /\ IF scenario = "enqueue" THEN enqueueStep ELSE UNCHANGED enqueueVars
    /\ IF scenario \in TaskScenario THEN TaskNext ELSE UNCHANGED taskAdminVars
    /\ IF scenario = "access" THEN AccessOf!Next ELSE UNCHANGED accessVars
    /\ IF scenario = "configuration" THEN ConfigOf!Next ELSE UNCHANGED configVars
    /\ IF scenario = "throttle" THEN RateNext ELSE UNCHANGED limitVars
    /\ IF scenario = "schedule" THEN scheduleStep ELSE UNCHANGED scheduleVars
    /\ IF scenario = "retries" THEN Retry!Next ELSE UNCHANGED retryVars
    /\ IF scenario \in EventScenario THEN streamStep ELSE UNCHANGED eventVars

ControlSpec == ControlInit /\ [][ControlNext]_mcVars

(***************************************************************************)
(* The properties of the modules                                           *)
(***************************************************************************)
\* The PostgreSQL tables implement Settings (PostgresSettings): they start as its
\* empty tables, and every call leaves and answers what a call of the in-memory
\* broker does.  The steps of the other modules leave the tables alone.
ImplementsSettings ==
    [][IF scenario \in SqlScenario
       THEN Sql!Memory!Next /\ (call = <<"New">> => Sql!Memory!Init)
       ELSE UNCHANGED settingsVars]_settingsVars

\* What clients enqueue is committed once, whole, and woken for, through lost
\* answers and repeated calls (Enqueueing).
EnqueuedAsAsked == scenario = "enqueue" => Enqueue!EnqueuedAsAsked

\* A task an operator made due is woken for, and paging through a listing misses
\* no task that was there throughout (TaskAdmin).
NoTaskForgotten == scenario \in TaskScenario => Tasks!NoTaskForgotten

\* What an operator configured is what the node enforces: a handler runs only
\* where every declaration of the caller's token grants it, and only reads under
\* read-only mode (Access); a node is open only where the nearest layer allows
\* it, and what a configuration asks for takes effect (Configuration).
ConfiguredIsEnforced ==
    /\ scenario = "access" => AccessOf!GrantIsDeclared /\ AccessOf!ReadOnlyHolds
    /\ scenario = "configuration" => ConfigOf!EffectiveAsAsked /\ ConfigOf!OpenOnlyWhenAllowed

\* A retry waits what its growth and its cap give, however they overflow (Backoff).
DelayFollowsPolicy == scenario = "retries" => Retry!DelayFollowsPolicy

\* Every event is sent, buffered or counted as dropped, in order, and whoever
\* missed none knows every task's state (Events).
WatchersTold == scenario \in EventScenario => Stream!WatchersTold
=============================================================================
