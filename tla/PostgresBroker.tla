--------------------------- MODULE PostgresBroker ---------------------------
(***************************************************************************)
(* The Postgres broker (internal/broker/postgres/postgres.go): the task    *)
(* table, the dependency edges, and the statements concurrent connections  *)
(* run on them at READ COMMITTED.                                          *)
(*                                                                         *)
(* A statement is an action.  It sees what is committed and what its own   *)
(* transaction wrote, waits for a row another transaction has locked (the  *)
(* action is disabled until then, and re-evaluates its condition, as       *)
(* Postgres does) or skips it where the query says SKIP LOCKED.  What a    *)
(* transaction wrote stays with its connection until it commits.           *)
(*                                                                         *)
(* Time is abstracted away: due times, leases, claims and retentions may   *)
(* run out at any moment, and retries may be used up or not.  A call under *)
(* a lease the row no longer has matches no row (ErrLeaseLost), so lease   *)
(* ids are left out, as are payloads, results and emitted events.          *)
(***************************************************************************)
EXTENDS Integers, FiniteSets, Sequences

CONSTANTS
    TaskID,    \* task ids, ordered as integers
    Conn,      \* connections of the pool
    NoKey,     \* the empty unique key
    options,   \* each task's options: dependsOn, uniqueKey, uniqueTtl, group, delayed, expires
    Limit,     \* Settings.LeaseBatchMax, the limit of every sweep
    NoWrite    \* a row a transaction has not written

VARIABLES
    tasks,     \* conveyor_tasks, as committed
    edges,     \* conveyor_task_deps, as committed: <<dependent_id, dependency_id>>
    conn,      \* what each connection is doing, and what it has not committed
    outcomes,  \* history: the terminal states each id has had, and whether its row was removed
    revived    \* history: the ids RunTaskNow took out of the dead letter

history == <<outcomes, revived>>
vars == <<tasks, edges, conn, history>>

(***************************************************************************)
(* Rows                                                                    *)
(***************************************************************************)
Terminal == {"completed", "archived", "canceled"}
Failed == {"archived", "canceled"}
Started == {"scheduled", "pending", "aggregating", "active", "retry", "completed"}
State == {"absent", "blocked"} \cup Started \cup Terminal

\* claim: whether the row holds its unique key, and whether that has lapsed.
Row == [state : State, claim : {"none", "held", "lapsed"}]
NoRow == [state |-> "absent", claim |-> "none"]

\* resolveInitialDeps skips an edge of a task on itself, dependencyPolicy maps
\* every policy to one of three, and prepareEnqueue refuses a grouped task that
\* is scheduled.
ASSUME PostgresAssumption ==
    /\ TaskID \subseteq Nat \ {0} /\ IsFiniteSet(TaskID)
    /\ Limit \in Nat \ {0}
    /\ \A t \in TaskID :
          /\ DOMAIN options[t].dependsOn \subseteq TaskID \ {t}
          /\ \A d \in DOMAIN options[t].dependsOn :
                options[t].dependsOn[d] \in {"CASCADE_CANCEL", "CONTINUE", "BLOCK"}
          /\ options[t].group \in BOOLEAN /\ options[t].delayed \in BOOLEAN
          /\ options[t].group => ~options[t].delayed
    /\ NoWrite \notin Row

policy(d, t) == options[d].dependsOn[t]

\* conveyor_tasks_unique_idx covers scheduled, pending, active and retry rows.
indexed(row) == row.claim # "none" /\ row.state \in {"scheduled", "pending", "active", "retry"}

\* The state of a row with nothing to wait for, when it is inserted and when it
\* is promoted, by which time its due time may have come.
readyState(t) ==
    IF options[t].group THEN "aggregating" ELSE IF options[t].delayed THEN "scheduled" ELSE "pending"
promotedStates(t) == {readyState(t)} \cup IF options[t].delayed THEN {"pending"} ELSE {}

\* A dependency of t in this state is nothing to wait for any more.
accepts(state, t, d) == state = "completed" \/ (state \in Failed /\ policy(t, d) = "CONTINUE")

(***************************************************************************)
(* Connections                                                             *)
(***************************************************************************)
Free == [op |-> "none", pc |-> "idle", todo |-> <<>>, seen |-> {}, finished |-> 0, failed |-> FALSE,
         unsatisfied |-> {}, cancel |-> FALSE, cancels |-> {}, satisfied |-> {},
         rows |-> [t \in TaskID |-> NoWrite], locked |-> {}, dropped |-> {}, added |-> {}]

free(c) == conn[c].op = "none"
at(c, op, pc) == conn[c].op = op /\ conn[c].pc = pc

\* What a statement of c sees.
row(c, t) == IF conn[c].rows[t] = NoWrite THEN tasks[t] ELSE conn[c].rows[t]
edgesSeen(c) == (edges \ conn[c].dropped) \cup conn[c].added
waitsOn(c, t) == {e \in edgesSeen(c) : e[1] = t}

lockedBy(c) == conn[c].locked \cup {t \in TaskID : conn[c].rows[t] # NoWrite}
lockedElsewhere(c) == UNION {lockedBy(b) : b \in Conn \ {c}}
locked == UNION {lockedBy(c) : c \in Conn}
edgesLockedElsewhere(c) == UNION {conn[b].dropped : b \in Conn \ {c}}

sameKey(t) == {u \in TaskID \ {t} : options[t].uniqueKey # NoKey /\ options[u].uniqueKey = options[t].uniqueKey}

\* An index entry of t conflicts with a row that c sees (23505), or has to wait
\* for the fate of one that another connection has written.
violates(c, t) == \E u \in sameKey(t) : indexed(row(c, u))
unsettled(u, C) ==
    \E b \in C : conn[b].rows[u] # NoWrite /\ (indexed(tasks[u]) \/ indexed(conn[b].rows[u]))
mustWait(c, t) == \E u \in sameKey(t) : unsettled(u, Conn \ {c})

\* The history after the rows become new.
recorded(new) ==
    /\ outcomes' = [t \in TaskID |-> outcomes[t] \cup ({new[t].state} \cap Terminal)]
    /\ revived' = revived \cup {t \in TaskID : tasks[t].state = "archived" /\ new[t].state = "pending"}

rollback(c) ==
    /\ conn' = [conn EXCEPT ![c] = Free]
    /\ UNCHANGED <<tasks, edges, history>>

commit(c) ==
    /\ tasks' = [t \in TaskID |-> row(c, t)]
    /\ edges' = edgesSeen(c)
    /\ conn' = [conn EXCEPT ![c] = Free]
    /\ recorded(tasks')

(***************************************************************************)
(* Enqueueing                                                              *)
(***************************************************************************)
\* The common path of Enqueue: no unique key, no dependencies, one statement.
\* An id that is taken is an idempotent retry.
Enqueue(t) ==
    /\ options[t].uniqueKey = NoKey /\ DOMAIN options[t].dependsOn = {}
    /\ t \notin locked /\ tasks[t].state = "absent"
    /\ tasks' = [tasks EXCEPT ![t] = [NoRow EXCEPT !.state = readyState(t)]]
    /\ UNCHANGED <<edges, conn, history>>

\* enqueueWithEdges, or EnqueueBatch with several tasks, begins a transaction.
enqueueWithEdges(c, batch) ==
    /\ free(c)
    /\ conn' = [conn EXCEPT ![c] = [Free EXCEPT !.op = "enqueue", !.pc = "read", !.todo = batch]]
    /\ UNCHANGED <<tasks, edges, history>>

\* The dependencies of t that are neither satisfied nor failed for good.
unsatisfied(c, t) ==
    {d \in DOMAIN options[t].dependsOn : ~accepts(row(c, d).state, t, d)}

\* enqueueOneTx up to its insert: releases the lapsed claims of the key and
\* reads the states of the dependencies (resolveInitialDeps).
resolveInitialDeps(c) ==
    /\ at(c, "enqueue", "read") /\ conn[c].todo # <<>>
    /\ LET t == Head(conn[c].todo)
           lapsed == {u \in sameKey(t) \cup {t} : options[t].uniqueKey # NoKey /\ row(c, u).claim = "lapsed"}
       IN /\ lapsed \cap lockedElsewhere(c) = {}
          /\ conn' = [conn EXCEPT ![c] = [conn[c] EXCEPT
                !.rows = [u \in TaskID |-> IF u \in lapsed THEN [row(c, u) EXCEPT !.claim = "none"] ELSE @[u]],
                !.unsatisfied = unsatisfied(c, t),
                !.cancel = \E d \in DOMAIN options[t].dependsOn :
                               row(c, d).state \in Failed /\ policy(t, d) = "CASCADE_CANCEL",
                !.pc = "insert"]]
    /\ UNCHANGED <<tasks, edges, history>>

\* enqueueOneTx from its insert on: inserts the row in its resulting state and
\* its edges, unless the id is taken; a duplicate key rolls everything back.
insertTask(c) ==
    /\ at(c, "enqueue", "insert")
    /\ LET t == Head(conn[c].todo)
           new == [NoRow EXCEPT
                      !.state = IF conn[c].cancel THEN "canceled"
                                ELSE IF conn[c].unsatisfied # {} THEN "blocked" ELSE readyState(t),
                      !.claim = IF options[t].uniqueKey = NoKey THEN "none" ELSE "held"]
           E == IF new.state = "blocked" THEN {<<t, d>> : d \in conn[c].unsatisfied} ELSE {}
           done == [conn[c] EXCEPT !.todo = Tail(@), !.pc = "read", !.unsatisfied = {}, !.cancel = FALSE]
       IN /\ t \notin lockedElsewhere(c)
          /\ IF row(c, t).state # "absent" THEN conn' = [conn EXCEPT ![c] = done]
             ELSE /\ indexed(new) => ~mustWait(c, t)
                  /\ E \cap edgesLockedElsewhere(c) = {}
                  /\ conn' = [conn EXCEPT ![c] = IF indexed(new) /\ violates(c, t) THEN Free
                                                 ELSE [done EXCEPT !.rows[t] = new, !.added = @ \cup (E \ edgesSeen(c))]]
    /\ UNCHANGED <<tasks, edges, history>>

(***************************************************************************)
(* Resolving dependents                                                    *)
(***************************************************************************)
resolving(c, todo, op) ==
    conn' = [conn EXCEPT ![c] = [Free EXCEPT !.op = op, !.pc = "terminalState", !.todo = todo]]

\* After t went terminal; the fast path returns when no edge waits on it.
ResolveDependents(c, t) ==
    /\ free(c) /\ outcomes[t] \cap Terminal # {}
    /\ \E e \in edges : e[2] = t
    /\ resolving(c, <<t>>, "resolve")
    /\ UNCHANGED <<tasks, edges, history>>

ready == {t \in TaskID : tasks[t].state \in Terminal /\ \E e \in edges : e[2] = t}

\* LIMIT: as many of the rows as it allows, whichever they are.
limited(R) == {S \in SUBSET R : Cardinality(S) <= Limit /\ (Cardinality(S) < Limit => S = R)}

\* The reaper's sweep: as many finished dependencies with edges as the limit
\* allows, in whatever order the query returns them.
PromoteReadyDependents(c) ==
    /\ free(c)
    /\ \E n \in 0..Limit : \E todo \in [1..n -> ready] :
           /\ \A i, j \in 1..n : todo[i] = todo[j] => i = j
           /\ {todo[i] : i \in 1..n} \in limited(ready)
           /\ resolving(c, todo, "sweep")
    /\ UNCHANGED <<tasks, edges, history>>

resolves(c) == conn[c].op \in {"resolve", "sweep"}

\* resolveWithin takes the next task off its worklist and reads its state.
terminalState(c) ==
    /\ resolves(c) /\ conn[c].pc = "terminalState" /\ conn[c].todo # <<>>
    /\ LET t == Head(conn[c].todo)
           popped == [conn[c] EXCEPT !.todo = Tail(@), !.seen = @ \cup {t}]
       IN conn' = [conn EXCEPT ![c] =
              IF t \in conn[c].seen \/ row(c, t).state \notin Terminal THEN popped
              ELSE [popped EXCEPT !.pc = "edgesWaitingOn", !.finished = t,
                                  !.failed = row(c, t).state \in Failed]]
    /\ UNCHANGED <<tasks, edges, history>>

\* Reads the edges that wait on it and sorts them by policy; a block-policy
\* edge on a failed dependency stays.
edgesWaitingOn(c) ==
    /\ resolves(c) /\ conn[c].pc = "edgesWaitingOn"
    /\ LET f == conn[c].finished
           D == {e[1] : e \in {x \in edgesSeen(c) : x[2] = f}}
           cancels == {d \in D : conn[c].failed /\ policy(d, f) = "CASCADE_CANCEL"}
           kept == {d \in D : conn[c].failed /\ policy(d, f) = "BLOCK"}
       IN conn' = [conn EXCEPT ![c] = [conn[c] EXCEPT
              !.cancels = cancels, !.satisfied = (D \ cancels) \ kept,
              !.pc = IF cancels # {} THEN "cascadeCancel"
                     ELSE IF D # kept THEN "dropSatisfied" ELSE "terminalState"]]
    /\ UNCHANGED <<tasks, edges, history>>

\* The first of a list in id order.
Min(S) == CHOOSE d \in S : \A other \in S : d <= other

\* Cancels the next dependent, in id order, if it is blocked.
cascadeCancel(c) ==
    /\ resolves(c) /\ conn[c].pc = "cascadeCancel"
    /\ LET d == Min(conn[c].cancels) IN
       /\ row(c, d).state = "blocked" => d \notin lockedElsewhere(c)
       /\ conn' = [conn EXCEPT ![c] = [conn[c] EXCEPT
             !.rows[d] = IF row(c, d).state = "blocked" THEN [row(c, d) EXCEPT !.state = "canceled"] ELSE @,
             !.pc = "dropDependentEdges"]]
    /\ UNCHANGED <<tasks, edges, history>>

\* Drops every edge of the canceled dependent, which joins the worklist.
dropDependentEdges(c) ==
    /\ resolves(c) /\ conn[c].pc = "dropDependentEdges"
    /\ LET d == Min(conn[c].cancels)
           left == conn[c].cancels \ {d}
       IN /\ waitsOn(c, d) \cap edgesLockedElsewhere(c) = {}
          /\ conn' = [conn EXCEPT ![c] = [conn[c] EXCEPT
                !.dropped = @ \cup waitsOn(c, d), !.cancels = left, !.todo = Append(@, d),
                !.pc = IF left # {} THEN "cascadeCancel"
                       ELSE IF conn[c].satisfied # {} THEN "dropSatisfied" ELSE "terminalState"]]
    /\ UNCHANGED <<tasks, edges, history>>

dropSatisfiedEdges(c) ==
    /\ resolves(c) /\ conn[c].pc = "dropSatisfied"
    /\ LET E == {<<d, conn[c].finished>> : d \in conn[c].satisfied} IN
       /\ E \cap edgesSeen(c) \cap edgesLockedElsewhere(c) = {}
       /\ conn' = [conn EXCEPT ![c] = [conn[c] EXCEPT !.dropped = @ \cup (E \cap edges), !.pc = "lock"]]
    /\ UNCHANGED <<tasks, edges, history>>

\* Mutant of lockBlockedDependent: goes on to promote without the row lock.
lockNothing(c) ==
    /\ resolves(c) /\ conn[c].pc = "lock"
    /\ conn' = [conn EXCEPT ![c].pc = IF conn[c].satisfied = {} THEN "terminalState" ELSE "promote"]
    /\ UNCHANGED <<tasks, edges, history>>

\* promoteDependent, first statement: locks the next dependent if it is blocked.
lockBlockedDependent(c) ==
    /\ resolves(c) /\ conn[c].pc = "lock"
    /\ IF conn[c].satisfied = {} THEN conn' = [conn EXCEPT ![c] = [conn[c] EXCEPT !.pc = "terminalState"]]
       ELSE LET d == Min(conn[c].satisfied) IN
            IF row(c, d).state = "blocked"
            THEN /\ d \notin lockedElsewhere(c)
                 /\ conn' = [conn EXCEPT ![c] = [conn[c] EXCEPT !.locked = @ \cup {d}, !.pc = "promote"]]
            ELSE conn' = [conn EXCEPT ![c] = [conn[c] EXCEPT !.satisfied = @ \ {d}]]
    /\ UNCHANGED <<tasks, edges, history>>

\* promoteDependent, second statement: promotes it when no edge is left.
promoteDependent(c) ==
    /\ resolves(c) /\ conn[c].pc = "promote"
    /\ LET d == Min(conn[c].satisfied)
           done == [conn[c] EXCEPT !.satisfied = @ \ {d}, !.pc = "lock"]
       IN IF row(c, d).state # "blocked" \/ waitsOn(c, d) # {} THEN conn' = [conn EXCEPT ![c] = done]
          ELSE \E s \in promotedStates(d) :
                  LET new == [row(c, d) EXCEPT !.state = s] IN
                  /\ indexed(new) => ~mustWait(c, d)
                  /\ conn' = [conn EXCEPT ![c] = IF indexed(new) /\ violates(c, d) THEN Free
                                                 ELSE [done EXCEPT !.rows[d] = new]]
    /\ UNCHANGED <<tasks, edges, history>>

orphans(c) == {t \in TaskID \ lockedElsewhere(c) : row(c, t).state = "blocked" /\ waitsOn(c, t) = {}}

\* The last statement of the sweep: promotes blocked rows that hold no edges.
promoteOrphanBlocked(c) ==
    /\ at(c, "sweep", "terminalState") /\ conn[c].todo = <<>>
    /\ \E S \in limited(orphans(c)) :
           \E state \in {f \in [S -> State] : \A t \in S : f[t] \in promotedStates(t)} :
               LET new(t) == [row(c, t) EXCEPT !.state = state[t]]
                   entering == {t \in S : indexed(new(t))}
               IN /\ \A t \in entering : ~mustWait(c, t)
                  /\ conn' = [conn EXCEPT ![c] =
                        IF \E t \in entering : violates(c, t) THEN Free
                        ELSE [conn[c] EXCEPT !.pc = "commit",
                                        !.rows = [t \in TaskID |-> IF t \in S THEN new(t) ELSE @[t]]]]
    /\ UNCHANGED <<tasks, edges, history>>

Commit(c) ==
    /\ \/ conn[c].op \in {"enqueue", "resolve"} /\ conn[c].todo = <<>> /\ conn[c].pc \in {"read", "terminalState"}
       \/ at(c, "sweep", "commit")
    /\ commit(c)

\* A statement fails, the deadlock detector picks a victim, or the node dies.
Rollback(c) == ~free(c) /\ rollback(c)

(***************************************************************************)
(* Deleting and purging: statements that commit one by one                 *)
(***************************************************************************)
strands(t) == \E e \in edges : e[2] = t /\ tasks[e[1]].state \notin Terminal \cup {"absent"}

\* DeleteTask refuses a task that others wait on, then deletes its row and its
\* edges.
DeleteTask(c, t) ==
    /\ free(c) /\ tasks[t].state # "absent" /\ ~strands(t)
    /\ conn' = [conn EXCEPT ![c] = [Free EXCEPT !.op = "delete", !.pc = "delete", !.todo = <<t>>]]
    /\ UNCHANGED <<tasks, edges, history>>

deleteTask(c) ==
    /\ at(c, "delete", "delete")
    /\ LET t == Head(conn[c].todo) IN
       /\ t \notin lockedElsewhere(c)
       /\ IF tasks[t].state \in {"absent", "active"}
          THEN conn' = [conn EXCEPT ![c] = Free] /\ UNCHANGED <<tasks, outcomes>>
          ELSE /\ tasks' = [tasks EXCEPT ![t] = NoRow]
               /\ conn' = [conn EXCEPT ![c] = [conn[c] EXCEPT !.pc = "edges"]]
               /\ outcomes' = [outcomes EXCEPT ![t] = @ \cup {"removed"}]
    /\ UNCHANGED <<edges, revived>>

deleteEdges(c) ==
    /\ at(c, "delete", "edges")
    /\ waitsOn(c, Head(conn[c].todo)) \cap edgesLockedElsewhere(c) = {}
    /\ edges' = edges \ waitsOn(c, Head(conn[c].todo))
    /\ conn' = [conn EXCEPT ![c] = Free]
    /\ UNCHANGED <<tasks, history>>

\* PurgeTerminal, first statement: releases every lapsed claim.
PurgeTerminal(c) ==
    /\ free(c)
    /\ \A t \in locked : tasks[t].claim # "lapsed"
    /\ tasks' = [t \in TaskID |-> IF tasks[t].claim = "lapsed" THEN [tasks[t] EXCEPT !.claim = "none"] ELSE tasks[t]]
    /\ conn' = [conn EXCEPT ![c] = [Free EXCEPT !.op = "purge", !.pc = "edges"]]
    /\ UNCHANGED <<edges, history>>

stale == {e \in edges : tasks[e[1]].state \in Terminal \cup {"absent"}}

dropTerminalDependentEdges(c) ==
    /\ at(c, "purge", "edges")
    /\ stale \cap edgesLockedElsewhere(c) = {}
    /\ edges' = edges \ stale
    /\ conn' = [conn EXCEPT ![c] = [conn[c] EXCEPT !.pc = "completed"]]
    /\ UNCHANGED <<tasks, history>>

\* Rows in one of these states that no edge depends on and no one has locked.
purgeable(states) ==
    {t \in TaskID \ locked : tasks[t].state \in states /\ \A e \in edges : e[2] # t}

purge(c, states) ==
    /\ \E S \in SUBSET purgeable(states) :
           /\ Cardinality(S) <= Limit
           /\ tasks' = [t \in TaskID |-> IF t \in S THEN NoRow ELSE tasks[t]]
           /\ outcomes' = [t \in TaskID |-> outcomes[t] \cup IF t \in S THEN {"removed"} ELSE {}]
    /\ UNCHANGED <<edges, revived>>

purgeCompleted(c) ==
    /\ at(c, "purge", "completed")
    /\ purge(c, {"completed"})
    /\ conn' = [conn EXCEPT ![c] = [conn[c] EXCEPT !.pc = "archived"]]

purgeArchived(c) ==
    /\ at(c, "purge", "archived")
    /\ purge(c, {"archived", "canceled"})
    /\ conn' = [conn EXCEPT ![c] = Free]

(***************************************************************************)
(* Statements on single rows                                               *)
(***************************************************************************)
\* One statement moves the rows of S, all unlocked, to state.
update(S, state) ==
    /\ S # {} /\ S \cap locked = {}
    /\ tasks' = [t \in TaskID |-> IF t \in S THEN [tasks[t] EXCEPT !.state = state] ELSE tasks[t]]
    /\ recorded(tasks')
    /\ UNCHANGED <<edges, conn>>

inState(t, states) == tasks[t].state \in states
to(t, state) == update({t}, state)

\* Lease skips what is locked; its order and its limit are abstracted away.
Lease(t) == inState(t, {"pending", "retry"}) /\ to(t, "active")

\* The unique index admits t in a state it covers.
admitted(t) ==
    tasks[t].claim # "none" => \A u \in sameKey(t) : ~indexed(tasks[u]) /\ ~unsettled(u, Conn)

\* LeaseGroup claims the members of a group at once: a member whose key another
\* row of the index holds, or two members of one key, fail the statement.
LeaseGroup(S) ==
    /\ \A t \in S : inState(t, {"aggregating"})
    /\ \A t \in S : admitted(t) /\ \A u \in S \cap sameKey(t) : "none" \in {tasks[t].claim, tasks[u].claim}
    /\ update(S, "active")

Ack(t) == inState(t, {"active"}) /\ to(t, "completed")

AckBatch(S) ==
    /\ \A t \in S : inState(t, {"active"})
    /\ update(S, "completed")

Fail(t) == inState(t, {"active"}) /\ to(t, "retry")

Release(t) == inState(t, {"active"}) /\ to(t, "pending")

\* Mutant of Archive: without the condition that the task is not completed.
ArchiveCompleted(t) == tasks[t].state # "absent" /\ to(t, "archived")

\* Archive under the lease, or of any row that is not completed.
Archive(t) == tasks[t].state \notin {"absent", "completed"} /\ to(t, "archived")

ReapExpiredLeases(t) == inState(t, {"active"}) /\ (to(t, "retry") \/ to(t, "archived"))

PromoteScheduled(t) == inState(t, {"scheduled"}) /\ to(t, "pending")

ArchiveExpired(t) ==
    /\ options[t].expires
    /\ inState(t, {"scheduled", "pending", "retry", "blocked"}) /\ to(t, "archived")

CancelTask(t) ==
    inState(t, {"scheduled", "pending", "retry", "aggregating", "blocked"}) /\ to(t, "canceled")

\* A dead letter is run again unless its key is taken meanwhile.
RunTaskNow(t) ==
    /\ inState(t, {"scheduled", "pending", "retry", "archived"})
    /\ admitted(t)
    /\ to(t, "pending")

RescheduleTask(t, state) == inState(t, {"scheduled", "pending", "retry"}) /\ to(t, state)

ArchiveTask(t) == inState(t, {"scheduled", "pending", "retry", "blocked"}) /\ to(t, "archived")

\* The TTL of a unique claim runs out.
Lapse(t) ==
    /\ options[t].uniqueTtl /\ tasks[t].claim = "held" /\ t \notin locked
    /\ tasks' = [tasks EXCEPT ![t].claim = "lapsed"]
    /\ UNCHANGED <<edges, conn, history>>

(***************************************************************************)
(* The specification                                                       *)
(***************************************************************************)
Init ==
    /\ tasks = [t \in TaskID |-> NoRow]
    /\ edges = {}
    /\ conn = [c \in Conn |-> Free]
    /\ outcomes = [t \in TaskID |-> {}]
    /\ revived = {}

Enqueueing(batches) ==
    \/ \E t \in TaskID : <<t>> \in batches /\ Enqueue(t)
    \/ \E c \in Conn : \/ \E b \in batches : enqueueWithEdges(c, b)
                       \/ resolveInitialDeps(c) \/ insertTask(c)

Resolution ==
    \E c \in Conn :
        \/ \E t \in TaskID : ResolveDependents(c, t)
        \/ PromoteReadyDependents(c)
        \/ terminalState(c) \/ edgesWaitingOn(c) \/ cascadeCancel(c) \/ dropDependentEdges(c)
        \/ dropSatisfiedEdges(c) \/ lockBlockedDependent(c) \/ promoteDependent(c)
        \/ promoteOrphanBlocked(c) \/ Commit(c)

Deletion == \E c \in Conn : deleteTask(c) \/ deleteEdges(c) \/ \E t \in TaskID : DeleteTask(c, t)

Purging ==
    \E c \in Conn :
        \/ PurgeTerminal(c) \/ dropTerminalDependentEdges(c) \/ purgeCompleted(c) \/ purgeArchived(c)

Execution ==
    \/ \E t \in TaskID : \/ Lease(t) \/ Ack(t) \/ Fail(t) \/ Release(t) \/ Archive(t)
                         \/ ReapExpiredLeases(t) \/ PromoteScheduled(t) \/ ArchiveExpired(t)
    \/ \E S \in SUBSET TaskID : LeaseGroup(S) \/ AckBatch(S)

Operators ==
    \E t \in TaskID : \/ CancelTask(t) \/ RunTaskNow(t) \/ ArchiveTask(t)
                      \/ \E s \in {"scheduled", "pending"} : RescheduleTask(t, s)

Next ==
    \/ Enqueueing(Seq(TaskID) \ {<<>>}) \/ Resolution \/ Deletion \/ Purging \/ Execution \/ Operators
    \/ \E c \in Conn : Rollback(c)
    \/ \E t \in TaskID : Lapse(t)

Spec == Init /\ [][Next]_vars

(***************************************************************************)
(* Properties                                                              *)
(***************************************************************************)
\* Committed rows and edges, and what each open transaction has written over
\* them, keep their types; a transaction deletes only edges that are committed.
TypeOK ==
    /\ tasks \in [TaskID -> Row]
    /\ edges \subseteq TaskID \X TaskID
    /\ \A c \in Conn :
           /\ conn[c].rows \in [TaskID -> Row \cup {NoWrite}]
           /\ conn[c].added \cup conn[c].dropped \subseteq TaskID \X TaskID
           /\ conn[c].dropped \subseteq edges
    /\ outcomes \in [TaskID -> SUBSET (Terminal \cup {"removed"})]
    /\ revived \subseteq TaskID

\* However the resolvers of its dependencies interleave, a task is committed as
\* blocked only while an edge of it is: the resolver that drops the last one
\* also promotes it.  Two that each miss the other's deletes would leave it
\* blocked with nothing to wake it: the lost wakeup lockBlockedDependentQuery
\* is there to prevent.
BlockedOnSomething ==
    \A t \in TaskID : "removed" \notin outcomes[t] /\ tasks[t].state = "blocked" => \E e \in edges : e[1] = t

\* A task with dependencies gets past blocked only after each of them had an
\* outcome its policy accepts, whichever of the enqueue, a resolver, a cascade
\* and the sweep of orphans moved it; an operator may run one that was
\* dead-lettered anyway.
DependentsWaitForOutcome ==
    \A t \in {u \in TaskID \ revived : "removed" \notin outcomes[u]} :
        tasks[t].state \in Started =>
            \A d \in DOMAIN options[t].dependsOn : \E s \in outcomes[d] : accepts(s, t, d)

\* A dependent waits as long as it must and no longer, however the statements of
\* two connections interleave and whichever transaction is rolled back.
WaitsExactly == TypeOK /\ BlockedOnSomething /\ DependentsWaitForOutcome

\* What has been completed or canceled stays so until it is purged, deleted or
\* (if canceled) dead-lettered: no transaction that read the row before, and
\* commits after, puts it back to work.
SettledStays ==
    [][\A t \in TaskID :
          /\ tasks[t].state = "completed" => tasks'[t].state \in {"completed", "absent"}
          /\ tasks[t].state = "canceled" => tasks'[t].state \in {"canceled", "archived", "absent"}]_vars

\* A dependency that has finished keeps its row while someone's edge waits on
\* it, so that the edge can still be resolved.
DependencyKeptForEdges ==
    \A e \in edges : outcomes[e[2]] # {} => tasks[e[2]].state # "absent"
=============================================================================
