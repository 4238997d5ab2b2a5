------------------------------ MODULE Lifecycle -------------------------------
(***************************************************************************)
(* One node from boot to exit: Server.Start and Stop (server/server.go),   *)
(* Engine.Start and Stop (internal/actors/engine.go), the telemetry they   *)
(* own (server/telemetry.go), and the callers that supervise them          *)
(* (cmd/conveyord/main.go, embedded/embedded.go).                          *)
(*                                                                         *)
(* Every step of Start may fail.  Stop runs under a deadline that may pass *)
(* at any moment, while worker sessions drain, requests are served and     *)
(* metrics are scraped.  Sessions are kept to whether their tasks were     *)
(* released; WorkerSession has the drain itself.                           *)
(***************************************************************************)
EXTENDS Naturals, FiniteSets

CONSTANTS
    Session,              \* worker sessions that may open
    MaxFaults, MaxStops   \* bounds

VARIABLES
    setup,     \* what the configuration asks for, and who runs the node
    boot,      \* the step Start is at
    running,   \* what runs: broker, telemetry, system, webhook, metrics, api
    field,     \* the Server fields that are set
    closed,    \* how often each was shut down
    signaled,  \* the termination signal arrived
    sessions,  \* open worker sessions, with tasks in flight
    draining,  \* WorkerService refuses new sessions
    lost,      \* sessions cut off before they released their tasks
    probe,     \* a readiness request being served
    stop,      \* the step Stop is at
    shutdown,  \* http.Server.Shutdown of the API: idle, waiting, done
    expired,   \* Stop's deadline has passed
    overran,   \* some Stop overran its deadline
    errs,      \* Stop has met an error
    faults, stops

nodeVars == <<setup, boot, running, field, closed, signaled, sessions, draining, lost, probe,
              stop, shutdown, expired, overran, errs, faults, stops>>

Part == {"broker", "telemetry", "system", "webhook", "metrics", "api"}

Setup == [caller : {"conveyord", "embedded", "server"}, metrics : BOOLEAN, events : BOOLEAN]

Init ==
    /\ setup \in Setup
    /\ setup.caller = "embedded" => ~setup.metrics
    /\ boot = "broker"
    /\ running = {} /\ field = {}
    /\ closed = [p \in Part |-> 0]
    /\ signaled = FALSE
    /\ sessions = {} /\ draining = FALSE /\ lost = {}
    /\ probe = "none"
    /\ stop = "idle" /\ shutdown = "idle" /\ expired = FALSE /\ overran = FALSE /\ errs = FALSE
    /\ faults = 0 /\ stops = 0

stopVars == <<sessions, draining, lost, probe, stop, shutdown, expired, overran, errs, stops>>

(***************************************************************************)
(* Start                                                                   *)
(***************************************************************************)
\* A step of Start that leaves what it built running, and in a field.
built(step, next, parts) ==
    /\ boot = step
    /\ boot' = next
    /\ running' = running \cup parts
    /\ field' = field \cup parts
    /\ UNCHANGED <<setup, closed, signaled, faults>> /\ UNCHANGED stopVars

\* buildBroker: the driver's broker; the Postgres one is migrated first.
buildBroker == built("broker", "seed", {"broker"})

\* seedWebhookWorkers: the declared registrations are upserted.
seedWebhookWorkers == built("seed", "discovery", {})

buildDiscovery == built("discovery", "tls", {})

buildClusterTLS == built("tls", "telemetry", {})

\* newTelemetry, only with a metrics listener configured.
newTelemetry == built("telemetry", "system", IF setup.metrics THEN {"telemetry"} ELSE {})

\* Engine.Start: the actor system starts detached from the start context.
\* The server does not hold the engine before its Start has returned.
systemStart ==
    /\ boot = "system"
    /\ boot' = "singletons"
    /\ running' = running \cup {"system"}
    /\ UNCHANGED <<setup, field, closed, signaled, faults>> /\ UNCHANGED stopVars

\* Engine.Start: the singletons, the resolver pool and the event relay.
spawnSingletons ==
    /\ boot = "singletons"
    /\ boot' = "webhook"
    /\ field' = field \cup {"system"}
    /\ UNCHANGED <<setup, running, closed, signaled, faults>> /\ UNCHANGED stopVars

\* SetEventSink and startWebhook.
startWebhook == built("webhook", "metrics", IF setup.events THEN {"webhook"} ELSE {})

\* registerEngineMetrics and startMetricsServer.
startMetricsServer == built("metrics", "listen", IF setup.metrics THEN {"metrics"} ELSE {})

\* net.Listen, buildMux and Serve.
serve == built("listen", "started", {"api"})

\* The step fails and Start returns its error.  A step that was skipped or
\* that cannot fail does not.
startFails ==
    /\ boot \notin {"started", "failed"} /\ faults < MaxFaults
    /\ boot \in {"telemetry", "metrics"} => setup.metrics
    /\ boot = "webhook" => setup.events
    /\ faults' = faults + 1
    /\ boot' = "failed"
    /\ field' = IF boot = "singletons" THEN field \cup {"engine start failed"} ELSE field
    /\ UNCHANGED <<setup, running, closed, signaled>> /\ UNCHANGED stopVars

(***************************************************************************)
(* The callers                                                             *)
(***************************************************************************)
terminate ==
    /\ ~signaled /\ setup.caller = "conveyord"
    /\ signaled' = TRUE
    /\ UNCHANGED <<setup, boot, running, field, closed, faults>> /\ UNCHANGED stopVars

\* runNode: an error of Start ends the process, and so does Stop's return.
processExits ==
    /\ setup.caller = "conveyord" /\ running # {}
    /\ boot = "failed" \/ stop = "returned"
    /\ running' = {} /\ sessions' = {} /\ probe' = "none"
    /\ lost' = lost \cup sessions
    /\ UNCHANGED <<setup, boot, field, closed, signaled, draining, stop, shutdown, expired,
                   overran, errs, faults, stops>>

\* runNode waits for the signal; an embedding program stops when it likes,
\* embedded.Start also when it has no client, and a direct user of the server
\* also after a failed Start.
mayStop ==
    \/ setup.caller = "conveyord" /\ boot = "started" /\ signaled
    \/ setup.caller = "embedded" /\ boot = "started"
    \/ setup.caller = "server" /\ boot \in {"started", "failed"}

(***************************************************************************)
(* Sessions, requests and scrapes                                          *)
(***************************************************************************)
others == <<setup, boot, running, field, closed, signaled, stop, shutdown, expired, overran,
            errs, faults, stops>>

sessionOpens(s) ==
    /\ "api" \in running /\ "system" \in running /\ ~draining /\ shutdown = "idle"
    /\ s \notin sessions \cup lost
    /\ sessions' = sessions \cup {s}
    /\ UNCHANGED <<draining, lost, probe>> /\ UNCHANGED others

\* Mutant: the actor system is tied to the start context.
messagingAttached == "system" \in running /\ ~signaled

\* The actor system, started detached from the start context, handles messages
\* until its Stop begins.
messaging == "system" \in running

\* A drained or closed session's gateway releases its tasks, if its messages
\* are still handled.
sessionEnds(s) ==
    /\ s \in sessions
    /\ sessions' = sessions \ {s}
    /\ lost' = IF messaging THEN lost ELSE lost \cup {s}
    /\ UNCHANGED <<draining, probe>> /\ UNCHANGED others

\* readyz reads the fields, then probes the broker through its field.
readyz ==
    /\ \/ /\ probe = "none" /\ "api" \in running /\ shutdown = "idle"
          /\ probe' = IF {"system", "broker"} \subseteq field THEN "checked" ELSE "unavailable"
       \/ /\ probe = "checked"
          /\ probe' = IF "broker" \notin field THEN "nil"
                      ELSE IF "broker" \in running THEN "ready" ELSE "unavailable"
       \/ probe \in {"ready", "unavailable", "nil"} /\ probe' = "none"
    /\ UNCHANGED <<sessions, draining, lost>> /\ UNCHANGED others

(***************************************************************************)
(* Stop                                                                    *)
(***************************************************************************)
stepVars == <<setup, boot, signaled, lost, probe, overran, faults, stops>>

\* Shuts one part down and clears its field.
release(part) ==
    /\ running' = IF part \in field THEN running \ {part} ELSE running
    /\ field' = field \ {part}
    /\ closed' = IF part \in field THEN [closed EXCEPT ![part] = @ + 1] ELSE closed

Stop ==
    /\ mayStop /\ stop \in {"idle", "returned"} /\ stops < MaxStops
    /\ stops' = stops + 1
    /\ stop' = "webhook" /\ errs' = FALSE /\ expired' = FALSE
    /\ UNCHANGED <<setup, boot, running, field, closed, signaled, sessions, draining, lost, probe,
                   shutdown, overran, faults>>

\* The event webhook unsubscribes and ends its deliveries first.
stopWebhook ==
    /\ stop = "webhook"
    /\ stop' = "drain"
    /\ release("webhook")
    /\ draining' = (draining \/ "api" \in field)
    /\ UNCHANGED <<sessions, shutdown, expired, errs>> /\ UNCHANGED stepVars

\* DrainSessions returns when no session is left, or at the deadline; then the
\* API listener closes and Shutdown waits for requests on its own goroutine.
drainSessions ==
    /\ stop = "drain"
    /\ sessions = {} \/ expired
    /\ errs' = (errs \/ sessions # {})
    /\ stop' = "engine"
    /\ shutdown' = IF "api" \in field THEN "waiting" ELSE "done"
    /\ UNCHANGED <<running, field, closed, sessions, draining, expired>> /\ UNCHANGED stepVars

\* Engine.Stop; an actor system that does not stop in time is kept.
stopEngine ==
    /\ stop = "engine"
    /\ stop' = "http"
    /\ \/ release("system") /\ UNCHANGED errs
       \/ expired /\ "system" \in field /\ errs' = TRUE /\ UNCHANGED <<running, field, closed>>
    /\ UNCHANGED <<sessions, draining, shutdown, expired>> /\ UNCHANGED stepVars

\* Shutdown returns when no request is being served, or at the deadline.
shutdownEnds ==
    /\ shutdown = "waiting"
    /\ shutdown' = "done"
    /\ running' = running \ {"api"}
    /\ \/ probe = "none" /\ sessions = {} /\ UNCHANGED errs
       \/ expired /\ errs' = TRUE
    /\ UNCHANGED <<field, closed, sessions, draining, stop, expired>> /\ UNCHANGED stepVars

\* The broker closes once the API server has shut down.
closeBroker ==
    /\ stop = "http" /\ shutdown = "done"
    /\ stop' = "metrics"
    /\ release("broker")
    /\ UNCHANGED <<sessions, draining, shutdown, expired, errs>> /\ UNCHANGED stepVars

\* The metrics server, then the providers; each is kept when it fails.
stopPart(step, next, part) ==
    /\ stop = step
    /\ stop' = next
    /\ \/ release(part) /\ UNCHANGED errs
       \/ expired /\ part \in field /\ errs' = TRUE /\ UNCHANGED <<running, field, closed>>
    /\ UNCHANGED <<sessions, draining, shutdown, expired>> /\ UNCHANGED stepVars

stopMetrics == stopPart("metrics", "telemetry", "metrics")

stopTelemetry == stopPart("telemetry", "returned", "telemetry")

deadlinePasses ==
    /\ stop \notin {"idle", "returned"} /\ ~expired
    /\ expired' = TRUE /\ overran' = TRUE
    /\ UNCHANGED <<setup, boot, running, field, closed, signaled, sessions, draining, lost, probe, stop,
                   shutdown, errs, faults, stops>>

Starting ==
    \/ buildBroker \/ seedWebhookWorkers \/ buildDiscovery \/ buildClusterTLS \/ newTelemetry
    \/ systemStart \/ spawnSingletons \/ startWebhook \/ startMetricsServer \/ serve

Stopping ==
    \/ stopWebhook \/ drainSessions \/ stopEngine \/ shutdownEnds \/ closeBroker
    \/ stopMetrics \/ stopTelemetry

Next ==
    \/ Starting \/ startFails \/ terminate \/ processExits
    \/ \E s \in Session : sessionOpens(s) \/ sessionEnds(s)
    \/ readyz \/ Stop \/ Stopping \/ deadlinePasses

\* Stop's goroutine runs and its deadline comes; sessions owe nothing.
Fairness == WF_nodeVars(Stopping) /\ WF_nodeVars(deadlinePasses)

Spec == Init /\ [][Next]_nodeVars /\ Fairness

(***************************************************************************)
(* Properties                                                              *)
(***************************************************************************)
\* Type invariant.
NodeTypeOK ==
    /\ boot \in {"broker", "seed", "discovery", "tls", "telemetry", "system", "singletons", "webhook",
                 "metrics", "listen", "started", "failed"}
    /\ running \subseteq Part /\ field \subseteq Part \cup {"engine start failed"}
    /\ sessions \subseteq Session /\ lost \subseteq Session
    /\ shutdown \in {"idle", "waiting", "done"}
    /\ boot = "started" => "api" \in field

\* A session whose tasks were not released when the engine went away was cut
\* off by the deadline: "the drain must complete before the engine stops"
\* (Server.Stop), and a signal does not end the grains' messaging
\* (Engine.Start).
DrainedBeforeEngineStops == stop # "idle" /\ lost # {} => overran

\* A readiness request never goes through a broker field that Stop cleared
\* under it, unless the deadline cut the API server's shutdown short (readyz,
\* Server.Stop).
ProbesALiveField == probe = "nil" => overran

\* The engine outlives its broker only when it would not stop in time, or when
\* its own Start failed half way and the server never held it ("the broker
\* closes last", Server.Stop).
BrokerOutlivesEngine ==
    "system" \in running /\ "broker" \notin running =>
        overran \/ "engine start failed" \in field

\* A Stop that reports no error leaves nothing running, whichever step of
\* Start had failed, except an engine whose own Start failed.
StoppedHoldsNothing ==
    stop = "returned" /\ ~errs /\ "engine start failed" \notin field => running = {}

\* Stop is idempotent: nothing is shut down twice.
ClosedOnce == \A p \in Part : closed[p] <= 1

\* A node is taken down in order, once, and whole.
StopIsOrderly ==
    /\ NodeTypeOK /\ DrainedBeforeEngineStops /\ ProbesALiveField
    /\ BrokerOutlivesEngine /\ StoppedHoldsNothing /\ ClosedOnce

\* Stop returns, whatever its sessions do.
StopEnds == stop # "idle" ~> stop = "returned"
=============================================================================
