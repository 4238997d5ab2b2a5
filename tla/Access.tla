-------------------------------- MODULE Access --------------------------------
(***************************************************************************)
(* Who may call what: the bearer tokens and scopes of the API and its      *)
(* read-only mode (server/api/auth.go, server/api/readonly.go, and their   *)
(* configuration in server/config.go), over an operator's restarts of the  *)
(* node with other settings.                                               *)
(*                                                                         *)
(* A procedure is a service and a method.  The webhook callbacks carry     *)
(* lease tokens and mount without this interceptor: WebhookManager has     *)
(* them.                                                                   *)
(***************************************************************************)
EXTENDS Naturals, Sequences, SequencesExt

CONSTANTS
    Token,        \* what a caller may present; NoToken is a header without one
    NoToken,
    ApiConfig,    \* the api blocks an operator may start the node with
    MaxRestarts

VARIABLES
    running,   \* the api block the node serves with, none while it is down
    outcome,   \* the latest call and whether its handler ran
    restarts

accessVars == <<running, outcome, restarts>>

Scope == {"produce", "consume", "admin"}

\* The handlers of the AdminService that only read.
Reads ==
    {"ListQueues", "ListRateLimits", "ListConcurrencyLimits", "ListGroupConfigs",
     "ListTasks", "ListCron", "ClusterInfo", "ListWebhookWorkers", "ListWorkerSessions",
     "BrokerInfo", "WatchEvents"}

\* The procedures of the generated handlers.
AdminMethod ==
    Reads \cup
    {"PauseQueue", "ResumeQueue", "SetQueueRateLimit", "DeleteQueueRateLimit",
     "SetQueueConcurrencyLimit", "DeleteQueueConcurrencyLimit", "SetGroupConfig",
     "DeleteGroupConfig", "CancelTask", "DeleteTask", "RunTask", "RescheduleTask",
     "ArchiveTask", "BatchDeleteTasks", "BatchRunTasks", "BatchCancelTasks",
     "BatchArchiveTasks", "UpsertCron", "PauseCron", "ResumeCron", "DeleteCron",
     "UpsertWebhookWorker", "PauseWebhookWorker", "ResumeWebhookWorker",
     "DeleteWebhookWorker"}

\* mutatingProcedures: the AdminService procedures that change state.
mutatingProcedures ==
    {"PauseQueue", "ResumeQueue", "SetQueueRateLimit", "DeleteQueueRateLimit",
     "SetQueueConcurrencyLimit", "DeleteQueueConcurrencyLimit", "SetGroupConfig",
     "DeleteGroupConfig", "CancelTask", "DeleteTask", "RunTask", "RescheduleTask",
     "ArchiveTask", "BatchDeleteTasks", "BatchRunTasks", "BatchCancelTasks",
     "BatchArchiveTasks", "UpsertCron", "PauseCron", "ResumeCron", "DeleteCron",
     "UpsertWebhookWorker", "PauseWebhookWorker", "ResumeWebhookWorker",
     "DeleteWebhookWorker"}

Procedure ==
    [service : {"task"}, method : {"GetTask", "Enqueue", "EnqueueBatch"}]
    \cup [service : {"worker"}, method : {"Session"}]
    \cup [service : {"admin"}, method : AdminMethod]

AuthDisabled(c) == c.authTokens = <<>> /\ c.scopedTokens = <<>>

\* validateScopedTokens: a value and at least one scope, all of them known.
validateScopedTokens(entries) ==
    \A i \in DOMAIN entries :
        /\ entries[i].token # NoToken
        /\ entries[i].scopes # {} /\ entries[i].scopes \subseteq Scope

\* Mutant: a scoped token is compared with the other scoped tokens only.
validateTokensAreDistinctScoped(c) ==
    \A i, j \in DOMAIN c.scopedTokens : c.scopedTokens[i].token = c.scopedTokens[j].token => i = j

\* validateTokensAreDistinct: a scoped token is declared nowhere else.
validateTokensAreDistinct(c) ==
    /\ \A i, j \in DOMAIN c.scopedTokens : c.scopedTokens[i].token = c.scopedTokens[j].token => i = j
    /\ \A i \in DOMAIN c.scopedTokens : ~Contains(c.authTokens, c.scopedTokens[i].token)

\* validateAuth: some token, unless unauthenticated access is permitted.
validateAuth(c) ==
    /\ AuthDisabled(c) => c.allowUnauthenticated
    /\ ~Contains(c.authTokens, NoToken)
    /\ validateScopedTokens(c.scopedTokens)
    /\ validateTokensAreDistinct(c)

\* scopedTokens: the full-access tokens first, then the scoped ones.
scopedTokens(c) ==
    [i \in DOMAIN c.authTokens |-> [token |-> c.authTokens[i], scopes |-> Scope]] \o c.scopedTokens

\* admittedScopes: one scope per service, and two for task inspection.
admittedScopes(p) ==
    CASE p.service = "task" /\ p.method = "GetTask" -> {"produce", "admin"}
      [] p.service = "task" -> {"produce"}
      [] p.service = "worker" -> {"consume"}
      [] p.service = "admin" -> {"admin"}
      [] OTHER -> {}

authorizeScope(scopes, p) == scopes \cap admittedScopes(p) # {}

\* authorize: the first entry with the presented token decides.
authorize(tokens, presented, p) ==
    LET match == SelectInSeq(tokens, LAMBDA e : e.token = presented)
    IN  presented # NoToken /\ match > 0 /\ authorizeScope(tokens[match].scopes, p)

\* The read-only interceptor of the AdminService.
refusedReadOnly(c, p) == c.readOnly /\ p.service = "admin" /\ p.method \in mutatingProcedures

NoCall == [token |-> NoToken, procedure |-> [service |-> "none", method |-> "none"], ran |-> FALSE]

Init == running = <<>> /\ outcome = NoCall /\ restarts = 0

\* A configuration that does not validate starts nothing.
restart(c) ==
    /\ restarts < MaxRestarts /\ restarts' = restarts + 1
    /\ validateAuth(c)
    /\ running' = <<c>>
    /\ outcome' = NoCall

\* A call passes the interceptors buildMux mounts, and then its handler runs.
call(token, p) ==
    /\ running # <<>>
    /\ LET c == running[1]
       IN  outcome' = [token |-> token, procedure |-> p,
                       ran |-> /\ AuthDisabled(c) \/ authorize(scopedTokens(c), token, p)
                               /\ ~refusedReadOnly(c, p)]
    /\ UNCHANGED <<running, restarts>>

Next ==
    \/ \E c \in ApiConfig : restart(c)
    \/ \E token \in Token \cup {NoToken}, p \in Procedure : call(token, p)

Spec == Init /\ [][Next]_accessVars

(***************************************************************************)
(* Properties                                                              *)
(***************************************************************************)
\* What each service is for: the declaration of a scope in the configuration.
serves == [produce |-> {"task"}, consume |-> {"worker"}, admin |-> {"admin"}]

\* A handler runs for a token only if every place the configuration in force
\* declares the token grants the procedure, so that narrowing a token's scopes
\* takes them away; and without any token only where the operator allowed it.
GrantIsDeclared ==
    outcome.ran =>
        LET c == running[1]
            p == outcome.procedure
            grants(scopes) == \/ \E s \in scopes : p.service \in serves[s]
                              \/ p.method = "GetTask" /\ "admin" \in scopes
        IN  \/ c.allowUnauthenticated /\ AuthDisabled(c)
            \/ /\ \A i \in DOMAIN c.scopedTokens :
                    c.scopedTokens[i].token = outcome.token => grants(c.scopedTokens[i].scopes)
               /\ \/ Contains(c.authTokens, outcome.token)
                  \/ \E i \in DOMAIN c.scopedTokens : c.scopedTokens[i].token = outcome.token

\* Under read-only mode an operator's call runs only a handler that reads.
ReadOnlyHolds ==
    outcome.ran /\ outcome.procedure.service = "admin" /\ running[1].readOnly =>
        outcome.procedure.method \in Reads
===============================================================================
