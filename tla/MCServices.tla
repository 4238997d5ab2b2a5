------------------------------ MODULE MCServices ------------------------------
(***************************************************************************)
(* The services around the brokers for model checking: cron scheduling,    *)
(* maintenance, migrations, the life of a node, the webhook manager, a     *)
(* webhook gateway, a worker session, and the sweeps of the in-memory      *)
(* broker.  They share no state, so each behaviour picks one scenario,     *)
(* which fixes the component that moves.                                   *)
(***************************************************************************)
EXTENDS Scheduler, TLC

VARIABLES
    scenario,
    rows, waking, waker, sending, hints, resolving, reaper, owed, maintFaults,
    applied, lock, at, tx, migrateFaults,
    setup, boot, running, field, closed, signaled, sessions, draining, lost, probe, stop,
    shutdown, expired, overran, errs, nodeFaults, nodeStops,
    workers, gateways, spawned, updates, children, stopping, stops, confirmed, listed,
    undrained, workerChanges, deaths,
    brokerNow, tasks, dependents, sweep, leaseSeq, grants, acked, outcomes, revived,
    hookRows, hookLeased, hookGrain, hookMailbox, hookRequests, hookRegistration, hookInflight,
    hookAsync, hookBatchStates, hookBreaker, hookMode, hookTypeOpen, hookDeferred, hookDraining,
    hookRunning, hookStarts, hookBeats, hookResolving, hookForgotten,
    contract, run, current, canceled, executions, cancels, beats, up, down, requestClosed, broken,
    handler, heldFrame, sessionDone, violations, registry, nodeDraining, drained,
    gateway, gatewayListed, mailbox, inflight, sendingFrame, gatewayDraining, senderClosed,
    sessionRows, leased, sessionFaults

maintVars == <<rows, waking, waker, sending, hints, resolving, reaper, owed, maintFaults>>
migrateVars == <<applied, lock, at, tx, migrateFaults>>
nodeVars == <<setup, boot, running, field, closed, signaled, sessions, draining, lost, probe, stop,
              shutdown, expired, overran, errs, nodeFaults, nodeStops>>
managerVars == <<workers, gateways, spawned, updates, children, stopping, stops, confirmed,
                 listed, undrained, workerChanges, deaths>>
brokerVars == <<brokerNow, tasks, dependents, sweep, leaseSeq, grants, acked, outcomes, revived>>
hookVars == <<hookRows, hookLeased, hookGrain, hookMailbox, hookRequests, hookRegistration,
              hookInflight, hookAsync, hookBatchStates, hookBreaker, hookMode, hookTypeOpen,
              hookDeferred, hookDraining, hookRunning, hookStarts, hookBeats, hookResolving,
              hookForgotten>>
sessionVars == <<contract, run, current, canceled, executions, cancels, beats, up, down,
                 requestClosed, broken, handler, heldFrame, sessionDone, violations, registry,
                 nodeDraining, drained, gateway, gatewayListed, mailbox, inflight,
                 sendingFrame, gatewayDraining, senderClosed, sessionRows, leased, sessionFaults>>
mcVars == <<scenario, cronVars, maintVars, migrateVars, nodeVars, managerVars,
            brokerVars, hookVars, sessionVars>>

(***************************************************************************)
(* The instances                                                           *)
(***************************************************************************)
\* A task that is scheduled and expires, and one that depends on it.
Maint == INSTANCE Maintenance WITH
    Task <- {"a", "b"}, Queue <- {"q"}, QueueOf <- "a" :> "q" @@ "b" :> "q",
    Enters <- "a" :> "scheduled" @@ "b" :> "pending", DependsOn <- "a" :> {} @@ "b" :> {"a"},
    Expiring <- {"a"}, LeaseBatchMax <- 1, ResolverPoolSize <- 1, MaxFaults <- 2,
    faults <- maintFaults

\* Three nodes, one of a release that lacks a migration in the middle.
Migrate == INSTANCE Migrations WITH
    Node <- {"a", "b", "c"}, Files <- "a" :> {1, 3} @@ "b" :> {1, 2, 3} @@ "c" :> {1, 2, 3},
    MaxFaults <- 2, faults <- migrateFaults

ASSUME ReleasesAssumption == Migrate!Releases

Server == INSTANCE Lifecycle WITH
    Session <- {"s"}, MaxFaults <- 1, MaxStops <- 2, faults <- nodeFaults, stops <- nodeStops

\* One task, delivered twice at most.
Hook == INSTANCE WebhookGateway WITH
    Task <- {1}, Queue <- {1}, queueOf <- 1 :> 1,
    Registration <- {[queues |-> 1 :> 1, concurrency |-> 1]},
    MaxRetry <- 1, MaxLeases <- 2, MaxBeats <- 1, MaxStarts <- 0, BrokerFails <- FALSE,
    rows <- hookRows, leased <- hookLeased, grain <- hookGrain, mailbox <- hookMailbox,
    requests <- hookRequests, registration <- hookRegistration, inflight <- hookInflight,
    async <- hookAsync, batchStates <- hookBatchStates, breaker <- hookBreaker, mode <- hookMode,
    typeOpen <- hookTypeOpen, deferred <- hookDeferred, draining <- hookDraining,
    running <- hookRunning, starts <- hookStarts, beats <- hookBeats, resolving <- hookResolving,
    forgotten <- hookForgotten

\* One session of one task, on a node that drains.
Worker == INSTANCE WorkerSession WITH
    Task <- {"t"}, Batch <- {}, ServerVersion <- 3, MinSdkVersion <- 2, ValidName <- {"q"},
    Options <- {[sdk |-> 2, required |-> 3, concurrency |-> 1, queues |-> "q" :> 1]},
    MaxSessions <- 1, MaxLeases <- 1, MaxBeats <- 0, MaxFaults <- 1,
    held <- heldFrame, draining <- nodeDraining, listed <- gatewayListed,
    sending <- sendingFrame, rows <- sessionRows, faults <- sessionFaults

\* Rotations of a webhook's secrets; requests with too few and too many.
hook(secrets, concurrency, paused) ==
    [queues |-> "q" :> 1, concurrency |-> concurrency, secrets |-> secrets, timeout |-> 0,
     paused |-> paused]

Manager == INSTANCE WebhookManager WITH
    Name <- {"n"}, MaxChanges <- 4, MaxDeaths <- 1, changes <- workerChanges,
    Request <- {hook(<<"a">>, 1, FALSE), hook(<<"b", "a">>, 1, FALSE), hook(<<>>, 1, FALSE),
                hook(<<"b", "a", "c">>, 1, TRUE), hook(<<"a">>, 0, FALSE)}

\* Dependency graphs of three tasks that only the reaper's sweeps resolve.
Memory == INSTANCE MCMemoryBroker WITH
    TaskID <- 1..3, Queue <- {"q"}, Group <- {"g"}, NoGroup <- "nogroup", Key <- {"k"},
    NoKey <- "nokey", Envelopes <- {}, Batches <- {}, LeaseTTL <- 1, ArchiveRetention <- 1,
    Limits <- {3}, RetryDelays <- {}, RunAts <- {}, MaxTime <- 4, MaxLease <- 3,
    scenario <- "revive", now <- brokerNow

(***************************************************************************)
(* The scenarios                                                           *)
(***************************************************************************)
ServicesInit ==
    /\ scenario \in {"cron", "maintenance", "migrations", "node", "manager", "sweeps",
                    "hook", "session"}
    /\ CronInit /\ (scenario # "cron" => host = CHOOSE h \in Host : TRUE)
    /\ Maint!Init /\ Manager!Init /\ Memory!LiveInit
    /\ Hook!Init /\ Worker!Init
    /\ Migrate!Init /\ (scenario # "migrations" => \A v \in DOMAIN applied : applied[v] = 0)
    /\ Server!Init /\ (scenario # "node" => setup = CHOOSE s \in Server!Setup : TRUE)

ServicesNext ==
    /\ UNCHANGED scenario
    /\ IF scenario = "cron" THEN CronNext ELSE UNCHANGED cronVars
    /\ IF scenario = "maintenance" THEN Maint!Next ELSE UNCHANGED maintVars
    /\ IF scenario = "migrations" THEN Migrate!Next ELSE UNCHANGED migrateVars
    /\ IF scenario = "node" THEN Server!Next ELSE UNCHANGED nodeVars
    /\ IF scenario = "manager" THEN Manager!Next ELSE UNCHANGED managerVars
    /\ IF scenario = "sweeps" THEN Memory!LiveNext ELSE UNCHANGED brokerVars
    /\ IF scenario = "hook" THEN Hook!Next ELSE UNCHANGED hookVars
    /\ IF scenario = "session" THEN Worker!Next ELSE UNCHANGED sessionVars

\* The fairness of each module, for the scenarios in which it moves.
ServicesFairness ==
    /\ \A h \in Host : WF_cronVars(scenario = "cron" /\ tick(h))
    /\ WF_maintVars(scenario = "maintenance" /\ Maint!maintain)
    /\ WF_maintVars(scenario = "maintenance" /\ Maint!promote)
    /\ WF_maintVars(scenario = "maintenance" /\ Maint!wake("q"))
    /\ WF_maintVars(scenario = "maintenance" /\ Maint!drainWaker("q"))
    /\ WF_maintVars(scenario = "maintenance" /\ Maint!grain("q"))
    /\ \A t \in {"a", "b"} : /\ WF_maintVars(scenario = "maintenance" /\ Maint!completes(t))
                             /\ WF_maintVars(scenario = "maintenance" /\ Maint!resolve(t))
    /\ \A n \in {"a", "b", "c"} : WF_migrateVars(scenario = "migrations" /\ Migrate!migrate(n))
    /\ WF_nodeVars(scenario = "node" /\ Server!Stopping)
    /\ WF_nodeVars(scenario = "node" /\ Server!deadlinePasses)
    /\ WF_managerVars(scenario = "manager" /\ Manager!reconcile)
    /\ WF_managerVars(scenario = "manager" /\ Manager!gatewayStopped("n"))
    /\ WF_managerVars(scenario = "manager" /\ \E s \in stops :
                    Manager!askDrain(s) \/ Manager!unregisterGateway(s) \/ Manager!shutdown(s))
    /\ WF_managerVars(scenario = "manager" /\ \E i \in DOMAIN gateways : Manager!apply(i))
    /\ WF_brokerVars(scenario = "sweeps" /\ ~sweep.held /\ Memory!PromoteReadyDependents(3))
    /\ WF_brokerVars(scenario = "sweeps" /\ sweep.held
                       /\ (Memory!SweepResolve \/ Memory!SweepBackstop))
    /\ WF_hookVars(scenario = "hook" /\ Hook!registerTick)
    /\ WF_hookVars(scenario = "hook" /\ Hook!breakerTimeout)
    /\ WF_hookVars(scenario = "hook" /\ Hook!probeTimeout)
    /\ WF_hookVars(scenario = "hook" /\ Hook!leaseExpires(1))
    /\ WF_hookVars(scenario = "hook" /\ Hook!reap(1))
    /\ WF_hookVars(scenario = "hook" /\ Hook!beatLapses(1))
    /\ WF_hookVars(scenario = "hook" /\ \E m \in hookMailbox : Hook!deliver(m))
    /\ WF_hookVars(scenario = "hook" /\ \E m \in hookRequests : \E a \in Hook!Answer :
                     Hook!complete(m, a))
    /\ WF_hookVars(scenario = "hook" /\ \E d \in hookDeferred : Hook!reportDeferred(d))
    /\ WF_sessionVars(scenario = "session" /\ (Worker!runSession \/ Worker!awaitWelcome
                        \/ Worker!streamEnds \/ Worker!reconnect))
    /\ WF_sessionVars(scenario = "session" /\ Worker!receive)
    /\ WF_sessionVars(scenario = "session" /\ \E e \in executions :
                        Worker!executeTask(e) \/ \E r \in Worker!Results(e.tasks) : Worker!finish(e, r))
    /\ WF_sessionVars(scenario = "session" /\ (Worker!open(1) \/ Worker!openFails(1)
                        \/ Worker!welcome(1) \/ Worker!spawnGateway(1)))
    /\ WF_sessionVars(scenario = "session" /\ (Worker!receiverTakes(1) \/ Worker!receiverQuits(1)))
    /\ WF_sessionVars(scenario = "session" /\ (Worker!take(1) \/ Worker!loopEnds(1)))
    /\ WF_sessionVars(scenario = "session" /\ (Worker!flushed(1) \/ Worker!stop(1)
                        \/ Worker!unregisterGateway(1) \/ Worker!shutdown(1)
                        \/ Worker!closeSender(1) \/ Worker!unregisterSession(1)))
    /\ WF_sessionVars(scenario = "session" /\ (Worker!turn(1) \/ Worker!send(1)))
    /\ WF_sessionVars(scenario = "session" /\ registry = {} /\ Worker!drainReturns)

ServicesSpec == ServicesInit /\ [][ServicesNext]_mcVars /\ ServicesFairness

(***************************************************************************)
(* The properties of the instances, under their own names                  *)
(***************************************************************************)
\* No wake-up of a queue is lost to the engine's coalescing, and a committed task
\* ends, whatever is lost or dies (Maintenance).
CommittedEnds ==
    /\ [](scenario = "maintenance" => Maint!WakesKept)
    /\ scenario = "maintenance" => Maint!CommittedEnds

\* Racing nodes apply each migration once, a release's as a whole, serve only over
\* a schema with all their own, and all come to serve (Migrations).
EveryNodeServes ==
    /\ [](scenario = "migrations" => Migrate!SchemaSound)
    /\ scenario = "migrations" => Migrate!EveryNodeServes

\* A Stop takes the node down in order, once, and whole, and returns (Lifecycle).
StopIsOrderly ==
    /\ [](scenario = "node" => Server!StopIsOrderly)
    /\ scenario = "node" => Server!StopEnds

\* No two gateways of one registration are alive, and the gateways come to agree
\* with the registrations and mint tokens that verify (WebhookManager).
GatewaysConverge ==
    /\ [](scenario = "manager" => Manager!GatewaysOwned)
    /\ scenario = "manager" => Manager!Converges

\* A dependent whose dependencies all completed leaves blocked, even when only
\* the reaper sweeps (MemoryBroker).
NeverStranded == scenario = "sweeps" => Memory!NeverStranded

\* Every webhook delivery ends, and a gateway that withholds its capacity comes
\* to probe (WebhookGateway).
DeliveriesProgress == scenario = "hook" => Hook!DeliveriesProgress

\* Every session of a draining node ends (WorkerSession).
SessionsClose == scenario = "session" => Worker!SessionsClose
===============================================================================
