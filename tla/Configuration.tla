---------------------------- MODULE Configuration -----------------------------
(***************************************************************************)
(* The configuration of a node (server/config.go): the layers it is read   *)
(* from, what Validate refuses, and what the parts of the node make of     *)
(* what it accepts (server/server.go, server/discovery.go, poolConfig of   *)
(* the Postgres broker).                                                   *)
(*                                                                         *)
(* A layer assigns some keys.  Durations are in microseconds, since the    *)
(* database takes a timeout in whole milliseconds.  The intervals that     *)
(* Validate treats alike are one key, and so are the ports, the TLS files  *)
(* of the API and of the cluster, and the declared webhook workers.        *)
(***************************************************************************)
EXTENDS Integers, FiniteSets

CONSTANTS
    Layer,       \* the assignments a file or the environment may make
    Provider,    \* names under which a custom discovery may be registered
    MaxLoads     \* bound on the times the node is started

VARIABLES
    registry,    \* the discovery providers registered so far
    from,        \* the layers the configuration was read from
    config,      \* the configuration that passed Validate
    node,        \* what runs: down, the settings in effect, or why Start failed
    loads

configVars == <<registry, from, config, node, loads>>

Down == [at |-> "down"]
maxPortNumber == 65535

DefaultConfig ==
    [mode |-> "standalone", driver |-> "postgres", dsn |-> "", maxConns |-> 0, minConns |-> 0,
     statementTimeout |-> 0, open |-> FALSE, tokens |-> {}, discovery |-> "static",
     namespace |-> "", labels |-> 0, port |-> 7000, interval |-> 1, rate |-> 0, burst |-> 0,
     limited |-> TRUE, certFile |-> "", keyFile |-> "", webhooks |-> <<>>, private |-> FALSE]

DevConfig ==
    [DefaultConfig EXCEPT !.driver = "memory", !.open = TRUE, !.private = TRUE]

\* The file over the base, and the environment over both.
layered(base, file, env) ==
    [k \in DOMAIN base |-> IF k \in DOMAIN env THEN env[k]
                           ELSE IF k \in DOMAIN file THEN file[k] ELSE base[k]]

\* PoolConfig.validate: a timeout is not below what the database can express.
validatePool(c) ==
    /\ c.maxConns >= 0 /\ c.minConns >= 0
    /\ c.maxConns > 0 => c.minConns <= c.maxConns
    /\ c.statementTimeout = 0 \/ c.statementTimeout >= 1000

validateBroker(c) ==
    /\ c.driver \in {"postgres", "memory"}
    /\ c.driver = "postgres" => c.dsn # ""
    /\ validatePool(c)

validateTLS(c) == (c.certFile = "") <=> (c.keyFile = "")

validateRateLimitDefault(c) == c.rate >= 0 /\ (c.rate > 0 => c.burst >= 1)

isBuiltinDiscovery(name) == name \in {"static", "kubernetes"}

validateDiscovery(c) ==
    /\ isBuiltinDiscovery(c.discovery) \/ c.discovery \in registry
    /\ c.discovery = "kubernetes" => c.namespace # "" /\ c.labels > 0

\* Plaintext http only where authentication is off.  A host that is an address
\* is checked here, a name when it is dialled.
validateWebhookWorkers(c) ==
    /\ \A i, j \in DOMAIN c.webhooks : c.webhooks[i].name = c.webhooks[j].name => i = j
    /\ \A i \in DOMAIN c.webhooks :
        LET w == c.webhooks[i]
        IN  /\ w.scheme \in {"http", "https"}
            /\ w.scheme = "http" => c.tokens = {}
            /\ w.host = "private" => c.private
            /\ w.queues > 0 /\ w.weight > 0 /\ w.concurrency >= 1
            /\ w.secrets \in 1..2

\* Validate, every check of it that names one of the keys.
Validate(c) ==
    /\ c.mode \in {"standalone", "cluster", "kubernetes"}
    /\ validateBroker(c)
    /\ validateTLS(c)
    /\ c.tokens = {} => c.open
    /\ validateDiscovery(c)
    /\ c.port \in 1..maxPortNumber
    /\ c.interval > 0
    /\ validateRateLimitDefault(c)
    /\ validateWebhookWorkers(c)

Init ==
    /\ registry = {}
    /\ from = [base |-> DefaultConfig, file |-> <<>>, env |-> <<>>, mode |-> ""]
    /\ config = <<>> /\ node = Down /\ loads = 0

\* RegisterDiscovery panics on a built-in name and on a second registration.
RegisterDiscovery(name) ==
    /\ ~isBuiltinDiscovery(name) /\ name \notin registry
    /\ registry' = registry \cup {name}
    /\ UNCHANGED <<from, config, node, loads>>

loading == node = Down /\ config = <<>> /\ loads < MaxLoads /\ loads' = loads + 1

\* LoadConfig, then the --mode flag over the result, which is validated again.
loadConfig(file, env, mode) ==
    /\ loading
    /\ LET read == layered(DefaultConfig, file, env)
           chosen == IF mode = "" THEN read ELSE [read EXCEPT !.mode = mode]
       IN  /\ from' = [base |-> DefaultConfig, file |-> file, env |-> env, mode |-> mode]
           /\ config' = IF Validate(read) /\ Validate(chosen) THEN <<chosen>> ELSE <<>>
    /\ UNCHANGED <<registry, node>>

\* LoadDevConfig: the preset under the environment, and no file or mode.
LoadDevConfig(env) ==
    /\ loading
    /\ LET read == layered(DevConfig, <<>>, env)
       IN  /\ from' = [base |-> DevConfig, file |-> <<>>, env |-> env, mode |-> ""]
           /\ config' = IF Validate(read) THEN <<read>> ELSE <<>>
    /\ UNCHANGED <<registry, node>>

\* buildServerConfig of an embedded node: its own listeners and no tokens.
buildServerConfig(driver, dsn) ==
    /\ loading
    /\ LET built == [DefaultConfig EXCEPT !.driver = IF driver = "" THEN "memory" ELSE driver,
                                          !.dsn = dsn, !.open = TRUE]
       IN  /\ from' = [base |-> built, file |-> <<>>, env |-> <<>>, mode |-> ""]
           /\ config' = IF Validate(built) THEN <<built>> ELSE <<>>
    /\ UNCHANGED <<registry, node>>

\* poolConfig: the timeout in whole milliseconds, where zero is no limit.
poolConfig(c) ==
    [maxConns |-> c.maxConns, minConns |-> c.minConns,
     timeout |-> IF c.statementTimeout > 0 THEN c.statementTimeout \div 1000 ELSE 0]

\* buildDiscovery and buildCustomDiscovery.
buildDiscovery(c) ==
    IF isBuiltinDiscovery(c.discovery) THEN {c.discovery} ELSE {c.discovery} \cap registry

\* The limiter a grain builds from the default.
defaultLimiter(c) == IF c.limited /\ c.rate > 0 /\ c.burst >= 1 THEN {c.rate} ELSE {}

\* Start builds the parts from the configuration New accepted.
Start ==
    /\ node = Down /\ config # <<>>
    /\ LET c == config[1]
       IN  node' = IF buildDiscovery(c) = {} THEN [at |-> "no provider"]
                   ELSE [at |-> "up", pool |-> poolConfig(c), limiter |-> defaultLimiter(c),
                         provider |-> buildDiscovery(c), tls |-> {c.certFile, c.keyFile} \ {""},
                         ticks |-> c.interval]
    /\ UNCHANGED <<registry, from, config, loads>>

Stop ==
    /\ node # Down
    /\ node' = Down /\ config' = <<>>
    /\ UNCHANGED <<registry, from, loads>>

Next ==
    \/ \E name \in Provider : RegisterDiscovery(name)
    \/ \E file, env \in Layer, mode \in {"", "cluster", "unknown"} : loadConfig(file, env, mode)
    \/ \E env \in Layer : LoadDevConfig(env)
    \/ \E driver \in {"", "postgres"}, dsn \in {"", "dsn"} : buildServerConfig(driver, dsn)
    \/ Start
    \/ Stop

Spec == Init /\ [][Next]_configVars

(***************************************************************************)
(* Properties                                                              *)
(***************************************************************************)
\* What was asked for is what takes effect: a timeout that was set is never
\* handed to the database as "no limit", a rate that was set always limits, the
\* pool's minimum fits its maximum, a certificate never goes without its key,
\* tickers have a period, and the discovery that was named when the
\* configuration was validated is still there when it is built.
EffectiveAsAsked ==
    /\ node.at # "no provider"
    /\ node.at = "up" =>
        LET c == config[1]
        IN  /\ c.statementTimeout > 0 => node.pool.timeout > 0
            /\ node.pool.maxConns > 0 => node.pool.minConns <= node.pool.maxConns
            /\ c.rate > 0 /\ c.limited => node.limiter # {}
            /\ Cardinality(node.tls) # 1
            /\ node.ticks > 0

\* A node that runs without tokens was told to: by a layer that its
\* configuration was read from, by the dev preset, or by being embedded; and the
\* nearest layer that names a key decides it.
OpenOnlyWhenAllowed ==
    config # <<>> /\ config[1].tokens = {} =>
        IF "open" \in DOMAIN from.env THEN from.env.open
        ELSE IF "open" \in DOMAIN from.file THEN from.file.open
        ELSE from.base.open
===============================================================================
