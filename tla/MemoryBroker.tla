---------------------------- MODULE MemoryBroker ----------------------------
(***************************************************************************)
(* The in-memory broker (internal/broker/memory/memory.go): the durable    *)
(* task log every other part of Conveyor talks to.  Each exported method   *)
(* runs under one mutex, so each is one action; only the loop of           *)
(* PromoteReadyDependents is unrolled, under an explicit mutex.            *)
(*                                                                         *)
(* A method that returns an error changes no state and is not a step.      *)
(* Payloads, results, error texts and the display-only startedAt are left  *)
(* out; the value of a progress report is abstracted to the lease that     *)
(* reported it.                                                            *)
(***************************************************************************)
EXTENDS Integers, FiniteSets

CONSTANTS
    TaskID,            \* task ids: ULIDs in the code, ordered, hence numbers
    Queue,             \* queue names
    Group,             \* aggregation group keys
    NoGroup,           \* the empty group key
    Key,               \* unique keys
    NoKey,             \* the empty unique key
    Envelopes,         \* the envelopes clients may enqueue
    Batches,           \* the envelope sequences clients may enqueue atomically
    LeaseTTL,          \* Settings.LeaseTTL
    ArchiveRetention,  \* engine.archive_retention, 0 keeps rows forever
    Limits,            \* the limits callers pass to Lease and to the sweeps
    RetryDelays,       \* backoff delays the gateway may pass to Fail
    RunAts,            \* due times an operator may reschedule to
    MaxTime,           \* bound on the clock
    MaxLease           \* bound on the number of Lease calls that claim a task

VARIABLES
    now,         \* clock.Now(), starting at 1: 0 is the zero time
    tasks,       \* Broker.tasks, total: an absent id holds NoRow
    dependents,  \* Broker.dependents, the reverse dependency index
    sweep,       \* the mutex and the loop state of PromoteReadyDependents
    leaseSeq,    \* how many lease ids have been issued
    grants,      \* history: the leases each task was claimed under
    acked,       \* history: the leases under which an Ack was accepted
    outcomes,    \* history: the terminal states each id has reached
    revived      \* history: rows RunTaskNow brought back from archived

vars == <<now, tasks, dependents, sweep, leaseSeq, grants, acked, outcomes, revived>>
history == <<leaseSeq, grants, acked, outcomes, revived>>

(***************************************************************************)
(* Rows and envelopes                                                      *)
(***************************************************************************)
NoTime == 0
NoLease == 0

Incomplete == {"scheduled", "pending", "active", "retry", "aggregating", "blocked"}
Failed == {"archived", "canceled"}
Terminal == Failed \cup {"completed"}
State == Incomplete \cup Terminal \cup {"unspecified"}

Policy == {"BLOCK", "CONTINUE", "CASCADE_CANCEL"}
NoDeps == [d \in TaskID |-> "NONE"]
Deps == [TaskID -> Policy \cup {"NONE"}]

Envelope == [id: TaskID, queue: Queue, group: Group \cup {NoGroup}, priority: Nat,
             processAt: Nat, expiresAt: Nat, retention: Nat, maxRetry: Nat,
             uniqueKey: Key \cup {NoKey}, uniqueTtl: Nat, dependsOn: Deps]

\* The envelope of an absent row; it is never enqueued.
NoEnvelope == [id |-> 0, queue |-> "", group |-> NoGroup, priority |-> 0,
               processAt |-> NoTime, expiresAt |-> NoTime, retention |-> 0,
               maxRetry |-> 0, uniqueKey |-> NoKey, uniqueTtl |-> 0,
               dependsOn |-> NoDeps]

taskRow == [state: State, envelope: Envelope \cup {NoEnvelope}, processAt: Nat,
            retried: Nat, leaseID: Nat, leaseExpiresAt: Nat, completedAt: Nat,
            progress: Nat, uniqueKey: Key \cup {NoKey}, uniqueExpiresAt: Nat,
            enqueuedAt: Nat, deps: Deps]

NoRow == [state |-> "unspecified", envelope |-> NoEnvelope, processAt |-> NoTime,
          retried |-> 0, leaseID |-> NoLease, leaseExpiresAt |-> NoTime,
          completedAt |-> NoTime, progress |-> 0, uniqueKey |-> NoKey,
          uniqueExpiresAt |-> NoTime, enqueuedAt |-> NoTime, deps |-> NoDeps]

ASSUME ConstantsAssumption ==
    /\ TaskID \subseteq Nat
    /\ IsFiniteSet(TaskID)
    /\ NoKey \notin Key
    /\ Envelopes \subseteq Envelope
    /\ \A b \in Batches : DOMAIN b \subseteq Nat /\ \A i \in DOMAIN b : b[i] \in Envelopes
    /\ LeaseTTL \in Nat
    /\ ArchiveRetention \in Nat
    /\ Limits \subseteq Nat \ {0}
    /\ RetryDelays \subseteq Nat
    /\ RunAts \subseteq Nat
    /\ MaxTime \in Nat
    /\ MaxLease \in Nat

Exists(t) == tasks[t].state # "unspecified"
After(time) == time > now

expired(row) == row.envelope.expiresAt # NoTime /\ ~After(row.envelope.expiresAt)
dispatchable(state) == state \in {"pending", "retry"}

\* Where a task starts, or lands once its dependencies are settled.
ReadyState(group, processAt) ==
    IF group # NoGroup THEN "aggregating"
    ELSE IF After(processAt) THEN "scheduled" ELSE "pending"

(***************************************************************************)
(* Enqueue                                                                 *)
(***************************************************************************)
Claims(row, key) ==
    /\ row.uniqueKey = key
    /\ row.state \in Incomplete
    /\ row.uniqueExpiresAt = NoTime \/ After(row.uniqueExpiresAt)

uniqueKeyClaimed(key) == \E t \in TaskID : Claims(tasks[t], key)

\* A dependency that is already decided when the dependent is enqueued.
satisfiedAtEnqueue(d, policy) ==
    \/ tasks[d].state = "completed"
    \/ tasks[d].state \in Failed /\ policy = "CONTINUE"

resolveInitialDeps(e) ==
    [d \in TaskID |-> IF d = e.id \/ satisfiedAtEnqueue(d, e.dependsOn[d])
                      THEN "NONE" ELSE e.dependsOn[d]]

cancelAtEnqueue(e) ==
    \E d \in TaskID \ {e.id} :
        tasks[d].state \in Failed /\ e.dependsOn[d] = "CASCADE_CANCEL"

due(e) == IF e.processAt = NoTime THEN now ELSE e.processAt

admissible(e) ==
    /\ e.uniqueKey = NoKey \/ ~uniqueKeyClaimed(e.uniqueKey)
    /\ e.group = NoGroup \/ ~After(due(e))

stageEnqueue(e) ==
    LET cancel == cancelAtEnqueue(e)
        deps == IF cancel THEN NoDeps ELSE resolveInitialDeps(e)
    IN  [state |-> IF cancel THEN "canceled"
                   ELSE IF deps # NoDeps THEN "blocked"
                   ELSE ReadyState(e.group, due(e)),
         envelope |-> e,
         processAt |-> due(e),
         retried |-> 0,
         leaseID |-> NoLease,
         leaseExpiresAt |-> NoTime,
         completedAt |-> IF cancel THEN now ELSE NoTime,
         progress |-> 0,
         uniqueKey |-> e.uniqueKey,
         uniqueExpiresAt |-> IF e.uniqueKey # NoKey /\ e.uniqueTtl # 0
                             THEN now + e.uniqueTtl ELSE NoTime,
         enqueuedAt |-> now,
         deps |-> deps]

\* Inserting the rows of a set of envelopes with distinct ids.
applyStaged(E) ==
    LET staged(t) == stageEnqueue(CHOOSE e \in E : e.id = t)
        ids == {e.id : e \in E}
    IN  /\ tasks' = [t \in TaskID |-> IF t \in ids THEN staged(t) ELSE tasks[t]]
        /\ dependents' = [d \in TaskID |-> dependents[d] \cup
                             {t \in ids : staged(t).deps[d] # "NONE"}]
        /\ outcomes' = [t \in TaskID |-> outcomes[t] \cup
                           IF t \in ids /\ staged(t).state = "canceled"
                           THEN {"canceled"} ELSE {}]
        /\ revived' = revived \ ids
        /\ UNCHANGED <<now, sweep, leaseSeq, grants, acked>>

Enqueue(e) ==
    /\ ~Exists(e.id)
    /\ admissible(e)
    /\ applyStaged({e})

\* The members of a batch that are not skipped as already committed.
fresh(batch) ==
    {i \in DOMAIN batch : /\ ~Exists(batch[i].id)
                          /\ \A j \in DOMAIN batch : j < i => batch[j].id # batch[i].id}

\* Mutant: members are checked against the stored rows only.
EnqueueBatchUnstaged(batch) ==
    /\ fresh(batch) # {}
    /\ \A i \in fresh(batch) : admissible(batch[i])
    /\ applyStaged({batch[i] : i \in fresh(batch)})

EnqueueBatch(batch) ==
    /\ fresh(batch) # {}
    /\ \A i \in fresh(batch) :
          /\ admissible(batch[i])
          /\ \A j \in fresh(batch) :
                j < i /\ batch[i].uniqueKey # NoKey => batch[j].uniqueKey # batch[i].uniqueKey
    /\ applyStaged({batch[i] : i \in fresh(batch)})

(***************************************************************************)
(* Leasing.  S is what remains of the sorted candidates after truncation   *)
(* to limit.                                                               *)
(***************************************************************************)
dueTasks(q) ==
    {t \in TaskID : /\ dispatchable(tasks[t].state)
                    /\ tasks[t].envelope.queue = q
                    /\ ~After(tasks[t].processAt)
                    /\ ~expired(tasks[t])}

groupMembers(q, g) ==
    {t \in TaskID : /\ tasks[t].state = "aggregating"
                    /\ tasks[t].envelope.queue = q
                    /\ tasks[t].envelope.group = g}

\* Higher priority first, then earlier due time, then smaller id.
dispatchOrder(a, b) ==
    LET p(t) == tasks[t].envelope.priority
        at(t) == tasks[t].processAt
    IN  \/ p(a) > p(b)
        \/ p(a) = p(b) /\ at(a) < at(b)
        \/ p(a) = p(b) /\ at(a) = at(b) /\ a < b

groupOrder(a, b) ==
    \/ tasks[a].enqueuedAt < tasks[b].enqueuedAt
    \/ tasks[a].enqueuedAt = tasks[b].enqueuedAt /\ a < b

Truncated(S, from, limit) ==
    /\ S \subseteq from
    /\ Cardinality(S) <= limit
    /\ S # from => Cardinality(S) = limit

claim(S, lease) ==
    /\ leaseSeq' = lease
    /\ tasks' = [t \in TaskID |->
                    IF t \in S
                    THEN [tasks[t] EXCEPT !.state = "active",
                                          !.leaseID = lease,
                                          !.leaseExpiresAt = now + LeaseTTL,
                                          !.progress = 0]
                    ELSE tasks[t]]
    /\ grants' = [t \in TaskID |-> IF t \in S THEN grants[t] \cup {lease} ELSE grants[t]]
    /\ UNCHANGED <<now, dependents, sweep, acked, outcomes, revived>>

\* leaseSeq + 1 is the fresh id the caller draws (runtime.NewID).
Lease(q, limit) ==
    /\ leaseSeq < MaxLease
    /\ \E S \in SUBSET dueTasks(q) \ {{}} :
          /\ Truncated(S, dueTasks(q), limit)
          /\ \A a \in S, b \in dueTasks(q) \ S : dispatchOrder(a, b)
          /\ claim(S, leaseSeq + 1)

LeaseGroup(q, g, limit) ==
    /\ leaseSeq < MaxLease
    /\ \E S \in SUBSET groupMembers(q, g) \ {{}} :
          /\ Truncated(S, groupMembers(q, g), limit)
          /\ \A a \in S, b \in groupMembers(q, g) \ S : groupOrder(a, b)
          /\ claim(S, leaseSeq + 1)

(***************************************************************************)
(* Lease-scoped mutations.  A caller only holds leases it was granted, but *)
(* may present one long after it was lost.                                 *)
(***************************************************************************)
activeRow(t, lease) ==
    /\ tasks[t].state = "active"
    /\ tasks[t].leaseID = lease

\* Sets the row and records a terminal state among the id's outcomes.
setRow(t, row) ==
    /\ tasks' = [tasks EXCEPT ![t] = row]
    /\ outcomes' = [outcomes EXCEPT ![t] = @ \cup ({row.state} \cap Terminal)]
    /\ UNCHANGED <<now, dependents, sweep, leaseSeq, grants>>

ExtendLease(t, lease) ==
    /\ activeRow(t, lease)
    /\ setRow(t, [tasks[t] EXCEPT !.leaseExpiresAt = now + LeaseTTL])
    /\ UNCHANGED <<acked, revived>>

SetProgress(t, lease) ==
    /\ activeRow(t, lease)
    /\ setRow(t, [tasks[t] EXCEPT !.progress = lease])
    /\ UNCHANGED <<acked, revived>>

completed(row) ==
    [row EXCEPT !.state = "completed", !.completedAt = now, !.leaseID = NoLease]

Ack(t, lease) ==
    /\ activeRow(t, lease)
    /\ setRow(t, completed(tasks[t]))
    /\ acked' = [acked EXCEPT ![t] = @ \cup {lease}]
    /\ UNCHANGED revived

\* Mutant: a member is acknowledged whatever lease it is active under.
AckBatchAnyLease(items) ==
    LET held == {t \in DOMAIN items : tasks[t].state = "active"}
    IN  /\ held # {}
        /\ tasks' = [t \in TaskID |-> IF t \in held THEN completed(tasks[t]) ELSE tasks[t]]
        /\ outcomes' = [t \in TaskID |-> outcomes[t] \cup
                                         IF t \in held THEN {"completed"} ELSE {}]
        /\ acked' = [t \in TaskID |-> acked[t] \cup IF t \in held THEN {items[t]} ELSE {}]
        /\ UNCHANGED <<now, dependents, sweep, leaseSeq, grants, revived>>

\* items maps each member to the lease it was delivered under; members no
\* longer active under it are skipped.
AckBatch(items) ==
    LET held == {t \in DOMAIN items : activeRow(t, items[t])}
    IN  /\ held # {}
        /\ tasks' = [t \in TaskID |-> IF t \in held THEN completed(tasks[t]) ELSE tasks[t]]
        /\ outcomes' = [t \in TaskID |-> outcomes[t] \cup
                                         IF t \in held THEN {"completed"} ELSE {}]
        /\ acked' = [t \in TaskID |-> acked[t] \cup IF t \in held THEN {items[t]} ELSE {}]
        /\ UNCHANGED <<now, dependents, sweep, leaseSeq, grants, revived>>

Fail(t, lease, processAt) ==
    /\ activeRow(t, lease)
    /\ setRow(t, [tasks[t] EXCEPT !.state = "retry", !.retried = @ + 1,
                                  !.processAt = processAt, !.leaseID = NoLease])
    /\ UNCHANGED <<acked, revived>>

Release(t, lease) ==
    /\ activeRow(t, lease)
    /\ setRow(t, [tasks[t] EXCEPT !.state = "pending", !.processAt = now,
                                  !.leaseID = NoLease])
    /\ UNCHANGED <<acked, revived>>

archived(row) ==
    [row EXCEPT !.state = "archived", !.completedAt = now, !.leaseID = NoLease]

Archive(t, lease) ==
    /\ IF lease # NoLease THEN activeRow(t, lease)
       ELSE Exists(t) /\ tasks[t].state # "completed"
    /\ setRow(t, archived(tasks[t]))
    /\ UNCHANGED <<acked, revived>>

(***************************************************************************)
(* Sweeps.  Map iteration order is random, so a sweep may pick any limit   *)
(* of the candidates.                                                      *)
(***************************************************************************)
reap(row) ==
    IF row.retried >= row.envelope.maxRetry
    THEN archived(row)
    ELSE [row EXCEPT !.state = "retry", !.retried = @ + 1,
                     !.processAt = now, !.leaseID = NoLease]

\* Applies row-wise f to the rows of S.
setRows(S, f(_)) ==
    /\ tasks' = [t \in TaskID |-> IF t \in S THEN f(tasks[t]) ELSE tasks[t]]
    /\ outcomes' = [t \in TaskID |-> IF t \in S
                                     THEN outcomes[t] \cup ({f(tasks[t]).state} \cap Terminal)
                                     ELSE outcomes[t]]
    /\ UNCHANGED <<now, dependents, sweep, leaseSeq, grants, acked, revived>>

ReapExpiredLeases(limit) ==
    LET lapsed == {t \in TaskID : /\ tasks[t].state = "active"
                                  /\ ~After(tasks[t].leaseExpiresAt)}
    IN  \E S \in (SUBSET lapsed) \ {{}} : Truncated(S, lapsed, limit) /\ setRows(S, reap)

promote(row) == [row EXCEPT !.state = "pending"]

PromoteScheduled(limit) ==
    LET ready == {t \in TaskID : /\ tasks[t].state = "scheduled"
                                 /\ ~After(tasks[t].processAt)}
    IN  \E S \in (SUBSET ready) \ {{}} : Truncated(S, ready, limit) /\ setRows(S, promote)

ArchiveExpired(limit) ==
    LET stale == {t \in TaskID : /\ \/ dispatchable(tasks[t].state)
                                    \/ tasks[t].state \in {"scheduled", "blocked"}
                                 /\ expired(tasks[t])}
    IN  \E S \in (SUBSET stale) \ {{}} : Truncated(S, stale, limit) /\ setRows(S, archived)

(***************************************************************************)
(* Dependency resolution.  The worklist of resolveDependents cancels the   *)
(* dependents that cascade edges reach from the finished task, then treats *)
(* each of them as finished too.  The order in which it visits them does   *)
(* not matter: an edge is dropped only when it is settled or when its      *)
(* dependent is canceled.                                                  *)
(***************************************************************************)
waitsOn(w, d) == w \in dependents[d] /\ tasks[w].deps[d] # "NONE"

CascadeClosed(S, finished) ==
    \A d \in S \cup {finished}, w \in TaskID :
        waitsOn(w, d) /\ tasks[w].deps[d] = "CASCADE_CANCEL" => w \in S

\* The least set of dependents the cascade reaches.
cascade(finished) ==
    IF tasks[finished].state \notin Failed THEN {}
    ELSE {w \in TaskID : \A S \in SUBSET TaskID : CascadeClosed(S, finished) => w \in S}

\* The dependencies of w that the pass settles without canceling w.
settled(w, finished) ==
    {d \in cascade(finished) \cup {finished} :
        /\ waitsOn(w, d)
        /\ tasks[w].deps[d] = "BLOCK" => tasks[finished].state = "completed"}

\* Mutant: one settled dependency is enough.
promoteAnyway(row) ==
    IF row.state = "blocked"
    THEN [row EXCEPT !.state = ReadyState(row.envelope.group, row.processAt)]
    ELSE row

promoteIfReady(row) ==
    IF row.state = "blocked" /\ row.deps = NoDeps
    THEN [row EXCEPT !.state = ReadyState(row.envelope.group, row.processAt)]
    ELSE row

resolved(w, finished) ==
    IF w \in cascade(finished)
    THEN [tasks[w] EXCEPT !.state = "canceled", !.completedAt = now, !.deps = NoDeps]
    ELSE IF settled(w, finished) = {} THEN tasks[w]
    ELSE promoteIfReady([tasks[w] EXCEPT
            !.deps = [d \in TaskID |-> IF d \in settled(w, finished) THEN "NONE" ELSE @[d]]])

resolveDependents(finished) ==
    LET C == cascade(finished)
        dropped(w, d) ==
            \/ w \in C /\ tasks[w].deps[d] # "NONE"
            \/ d \in C \cup {finished} /\ (~waitsOn(w, d) \/ d \in settled(w, finished))
    IN  /\ tasks' = [w \in TaskID |-> resolved(w, finished)]
        /\ dependents' = [d \in TaskID |-> {w \in dependents[d] : ~dropped(w, d)}]
        /\ outcomes' = [w \in TaskID |-> outcomes[w] \cup
                                         IF w \in C THEN {"canceled"} ELSE {}]
        /\ UNCHANGED <<now, leaseSeq, grants, acked, revived>>

ResolveDependents(t) ==
    /\ tasks[t].state \in Terminal
    /\ resolveDependents(t)
    /\ UNCHANGED sweep

\* PromoteReadyDependents takes the mutex and collects the finished
\* dependencies of blocked rows, resolves up to limit of them in map order,
\* promotes the blocked rows left without dependencies and unlocks.
Unlocked == [held |-> FALSE, finished |-> {}, budget |-> 0]

\* Mutant: only failures are collected, as if success always reached its
\* dependents through the gateway.
PromoteFailedDependents(limit) ==
    /\ sweep' = [held |-> TRUE,
                 finished |-> {d \in TaskID : /\ tasks[d].state \in Failed
                                              /\ \E w \in TaskID :
                                                    /\ tasks[w].state = "blocked"
                                                    /\ tasks[w].deps[d] # "NONE"},
                 budget |-> limit]
    /\ UNCHANGED <<now, tasks, dependents, leaseSeq, grants, acked, outcomes, revived>>

PromoteReadyDependents(limit) ==
    /\ sweep' = [held |-> TRUE,
                 finished |-> {d \in TaskID : /\ tasks[d].state \in Terminal
                                              /\ \E w \in TaskID :
                                                    /\ tasks[w].state = "blocked"
                                                    /\ tasks[w].deps[d] # "NONE"},
                 budget |-> limit]
    /\ UNCHANGED <<now, tasks, dependents, leaseSeq, grants, acked, outcomes, revived>>

SweepResolve ==
    \E d \in sweep.finished :
        /\ sweep.budget > 0
        /\ resolveDependents(d)
        /\ sweep' = [sweep EXCEPT !.finished = @ \ {d}, !.budget = @ - 1]

SweepBackstop ==
    /\ sweep.finished = {} \/ sweep.budget = 0
    /\ tasks' = [t \in TaskID |-> promoteIfReady(tasks[t])]
    /\ sweep' = Unlocked
    /\ UNCHANGED <<now, dependents, leaseSeq, grants, acked, outcomes, revived>>

(***************************************************************************)
(* Purge and delete                                                        *)
(***************************************************************************)
\* Mutant: incomplete() forgets the blocked state.
hasRunningDependents(d) == \E w \in dependents[d] : tasks[w].state \in Incomplete \ {"blocked"}

hasWaitingDependents(d) == \E w \in dependents[d] : tasks[w].state \in Incomplete

dropTerminalDependentEdges ==
    [d \in TaskID |-> {w \in dependents[d] : tasks[w].state \in Incomplete}]

purgeable(row) ==
    \/ row.state = "completed" /\ ~After(row.completedAt + row.envelope.retention)
    \/ /\ row.state \in Failed
       /\ ArchiveRetention > 0
       /\ ~After(row.completedAt + ArchiveRetention)

releaseLapsedUnique(row) ==
    IF row.uniqueExpiresAt # NoTime /\ ~After(row.uniqueExpiresAt)
    THEN [row EXCEPT !.uniqueKey = NoKey] ELSE row

purgeCandidates(states) ==
    {t \in TaskID : /\ tasks[t].state \in states
                    /\ purgeable(tasks[t])
                    /\ dropTerminalDependentEdges[t] = {}}

PurgeTerminal(limit) ==
    \E D \in SUBSET purgeCandidates({"completed"}), A \in SUBSET purgeCandidates(Failed) :
        /\ Truncated(D, purgeCandidates({"completed"}), limit)
        /\ Truncated(A, purgeCandidates(Failed), limit)
        /\ tasks' = [t \in TaskID |-> IF t \in D \cup A THEN NoRow
                                      ELSE releaseLapsedUnique(tasks[t])]
        /\ dependents' = dropTerminalDependentEdges
        /\ UNCHANGED <<now, sweep, history>>

\* Mutant: the deleted row stays in the reverse index.
DeleteTaskKeepingEdges(t) ==
    /\ Exists(t)
    /\ ~hasWaitingDependents(t)
    /\ tasks[t].state # "active"
    /\ tasks' = [tasks EXCEPT ![t] = NoRow]
    /\ UNCHANGED <<now, dependents, sweep, history>>

DeleteTask(t) ==
    /\ Exists(t)
    /\ ~hasWaitingDependents(t)
    /\ tasks[t].state # "active"
    /\ tasks' = [tasks EXCEPT ![t] = NoRow]
    /\ dependents' = [d \in TaskID |-> IF tasks[t].deps[d] # "NONE"
                                       THEN dependents[d] \ {t} ELSE dependents[d]]
    /\ UNCHANGED <<now, sweep, history>>

(***************************************************************************)
(* Operator commands                                                       *)
(***************************************************************************)
\* Mutant: a running task is canceled in the broker.
CancelTaskRunning(t) ==
    /\ tasks[t].state \in Incomplete
    /\ setRow(t, [tasks[t] EXCEPT !.state = "canceled", !.completedAt = now])
    /\ UNCHANGED <<acked, revived>>

CancelTask(t) ==
    /\ tasks[t].state \in Incomplete \ {"active"}
    /\ setRow(t, [tasks[t] EXCEPT !.state = "canceled", !.completedAt = now])
    /\ UNCHANGED <<acked, revived>>

\* Mutant: the completion time of the dead letter is kept.
RunTaskNowKeepingStamp(t) ==
    /\ tasks[t].state \in {"scheduled", "pending", "retry", "archived"}
    /\ setRow(t, [tasks[t] EXCEPT !.state = "pending", !.processAt = now])
    /\ revived' = IF tasks[t].state = "archived" THEN revived \cup {t} ELSE revived
    /\ UNCHANGED acked

RunTaskNow(t) ==
    /\ tasks[t].state \in {"scheduled", "pending", "retry", "archived"}
    /\ setRow(t, [tasks[t] EXCEPT !.state = "pending", !.processAt = now,
                                  !.completedAt = NoTime])
    /\ revived' = IF tasks[t].state = "archived" THEN revived \cup {t} ELSE revived
    /\ UNCHANGED acked

RescheduleTask(t, processAt) ==
    /\ tasks[t].state \in {"scheduled", "pending", "retry"}
    /\ setRow(t, [tasks[t] EXCEPT !.processAt = processAt,
                                  !.state = ReadyState(NoGroup, processAt)])
    /\ UNCHANGED <<acked, revived>>

ArchiveTask(t) ==
    /\ tasks[t].state \in {"scheduled", "pending", "retry", "blocked"}
    /\ setRow(t, [tasks[t] EXCEPT !.state = "archived", !.completedAt = now])
    /\ UNCHANGED <<acked, revived>>

Tick ==
    /\ now < MaxTime
    /\ now' = now + 1
    /\ UNCHANGED <<tasks, dependents, sweep, history>>

(***************************************************************************)
(* Specification                                                           *)
(***************************************************************************)
New ==
    /\ now = 1
    /\ tasks = [t \in TaskID |-> NoRow]
    /\ dependents = [d \in TaskID |-> {}]
    /\ sweep = Unlocked
    /\ leaseSeq = 0
    /\ grants = [t \in TaskID |-> {}]
    /\ acked = [t \in TaskID |-> {}]
    /\ outcomes = [t \in TaskID |-> {}]
    /\ revived = {}

Clients ==
    \/ \E e \in Envelopes : Enqueue(e)
    \/ \E b \in Batches : EnqueueBatch(b)

Leasing ==
    \E q \in Queue, limit \in Limits :
        \/ Lease(q, limit)
        \/ \E g \in Group : LeaseGroup(q, g, limit)

LeaseHolders ==
    \/ \E t \in TaskID : \E lease \in grants[t] :
          \/ ExtendLease(t, lease)
          \/ SetProgress(t, lease)
          \/ Ack(t, lease)
          \/ \E delay \in RetryDelays : Fail(t, lease, now + delay)
          \/ Release(t, lease)
          \/ Archive(t, lease)
    \/ \E S \in SUBSET TaskID : \E items \in [S -> 1..leaseSeq] :
          (\A t \in S : items[t] \in grants[t]) /\ AckBatch(items)

Maintenance ==
    \/ \E limit \in Limits :
          \/ ReapExpiredLeases(limit)
          \/ PromoteScheduled(limit)
          \/ ArchiveExpired(limit)
          \/ PromoteReadyDependents(limit)
          \/ PurgeTerminal(limit)
    \/ \E t \in TaskID : ResolveDependents(t)

Operators ==
    \E t \in TaskID :
        \/ CancelTask(t)
        \/ DeleteTask(t)
        \/ RunTaskNow(t)
        \/ \E at \in RunAts : RescheduleTask(t, at)
        \/ ArchiveTask(t)
        \/ Archive(t, NoLease)

\* Every method waits for the mutex; only the sweep runs while it is held.
Next ==
    \/ /\ ~sweep.held
       /\ Clients \/ Leasing \/ LeaseHolders \/ Maintenance \/ Operators \/ Tick
    \/ sweep.held /\ (SweepResolve \/ SweepBackstop)

Spec == New /\ [][Next]_vars

-----------------------------------------------------------------------------
(***************************************************************************)
(* Properties                                                              *)
(***************************************************************************)

\* The Go types of Broker and taskRow, and the range of each index.
TypeOK ==
    /\ now \in Nat
    /\ tasks \in [TaskID -> taskRow]
    /\ dependents \in [TaskID -> SUBSET TaskID]
    /\ sweep \in [held: BOOLEAN, finished: SUBSET TaskID, budget: Nat]
    /\ leaseSeq \in Nat
    /\ grants \in [TaskID -> SUBSET (1..leaseSeq)]
    /\ acked \in [TaskID -> SUBSET (1..leaseSeq)]
    /\ outcomes \in [TaskID -> SUBSET Terminal]
    /\ revived \subseteq TaskID

\* A task is completed only by the holder of its latest lease: an Ack that
\* arrives after the lease lapsed, was reaped and was granted again never
\* completes the newer attempt (activeRow).
CompletedByLatestLease ==
    \A t \in TaskID : tasks[t].state = "completed" =>
        \E lease \in acked[t] : \A other \in grants[t] : other <= lease

\* The states of a task whose dependencies no longer hold it back.
Started == {"scheduled", "pending", "active", "retry", "aggregating", "completed"}

\* What a dependency must have reached before its dependent may leave blocked.
Decided(d, policy) ==
    \/ "completed" \in outcomes[d]
    \/ policy = "CONTINUE" /\ outcomes[d] \cap Failed # {}

\* A task runs only after every dependency it was enqueued with completed, or
\* failed under a continue policy.  Rows an operator revived from the dead
\* letter with RunTaskNow are exempt: that command ignores dependencies.
DependentsWaitForOutcome ==
    \A t \in TaskID \ revived : tasks[t].state \in Started =>
        \A d \in TaskID \ {t} : tasks[t].envelope.dependsOn[d] # "NONE" =>
            Decided(d, tasks[t].envelope.dependsOn[d])

\* The reverse index and the rows never disagree where it matters: every edge
\* of the index is an unsettled dependency of a stored row, and every
\* dependency of a blocked row is in the index, so the resolution of the
\* dependency will find its dependent.
IndexExact ==
    \A d, w \in TaskID :
        /\ w \in dependents[d] => tasks[w].deps[d] # "NONE"
        /\ tasks[w].state = "blocked" /\ tasks[w].deps[d] # "NONE" => w \in dependents[d]

\* A blocked row always has something left to wait for: no interleaving of
\* resolutions leaves it blocked on nothing once the mutex is free.
BlockedOnSomething ==
    \A t \in TaskID : tasks[t].state = "blocked" => tasks[t].deps # NoDeps

\* Neither purge nor delete removes a stored row that a blocked row still
\* waits for, which no later resolution could settle.
DependedOnRowKept ==
    [][\A d, w \in TaskID :
          Exists(d) /\ tasks'[d].state = "unspecified" =>
              ~(tasks'[w].state = "blocked" /\ tasks'[w].deps[d] # "NONE")]_vars

\* At most one incomplete task holds an unlapsed claim on a unique key, over
\* single and batch enqueues, lapses, purges and re-enqueues; a row revived
\* from the dead letter is exempt, since RunTaskNow does not check its key.
UniqueKeyExclusive ==
    \A t, u \in TaskID \ revived : \A k \in Key :
        Claims(tasks[t], k) /\ Claims(tasks[u], k) => t = u

\* Cancellation is a pre-dispatch outcome and completion is final: a row that
\* was never revived is not canceled while a worker runs it or after it
\* completed, whichever of its dependencies fails, and in whatever order.
NeverCanceledAfterDispatch ==
    [][\A t \in TaskID \ revived :
          tasks'[t].state = "canceled" => tasks[t].state \notin {"active", "completed"}]_vars

\* Terminal rows, and only they, carry the completion time that purge measures
\* retention from, across revival, re-archival and cascades.
CompletionStamped ==
    \A t \in TaskID : tasks[t].state \in Terminal <=> tasks[t].completedAt # NoTime

\* The progress shown for a running task was reported by the attempt that is
\* running, never by an earlier lease of the same task.
ProgressOfCurrentAttempt ==
    \A t \in TaskID : tasks[t].state = "active" => tasks[t].progress \in {0, tasks[t].leaseID}

\* What a row says of itself holds together: its stamps fit its state and its
\* progress its current attempt, through every operation on it.
RowsConsistent == TypeOK /\ CompletionStamped /\ ProgressOfCurrentAttempt

\* The dependency graph holds together: rows and reverse index agree, and no row
\* is blocked on nothing, through enqueues, resolutions, cascades and purges.
DependencyGraphSound == IndexExact /\ BlockedOnSomething

\* Liveness: the reaper calls PromoteReadyDependents on every tick.
ReaperFairness ==
    /\ \A limit \in Limits : WF_vars(~sweep.held /\ PromoteReadyDependents(limit))
    /\ WF_vars(sweep.held /\ (SweepResolve \/ SweepBackstop))

FairSpec == Spec /\ ReaperFairness

\* A dependent is never stranded: once everything it waits for has completed
\* it leaves blocked, even when no worker's gateway asks for the resolution.
NeverStranded ==
    \A w \in TaskID :
        /\ tasks[w].state = "blocked"
        /\ \A d \in TaskID : tasks[w].deps[d] # "NONE" => tasks[d].state = "completed"
        ~> tasks[w].state # "blocked"

-----------------------------------------------------------------------------
(***************************************************************************)
(* Inductive strengthenings, used by MemoryBrokerProofs                    *)
(***************************************************************************)

\* What one row says of the leases granted and acknowledged for it.
RowInv(row, granted, ackedUnder) ==
    /\ row.state = "active" =>
          /\ row.leaseID \in granted
          /\ \A other \in granted : other <= row.leaseID
          /\ row.progress \in {0, row.leaseID}
    /\ row.state = "completed" =>
          \E lease \in ackedUnder : \A other \in granted : other <= lease
    /\ row.state \in Terminal <=> row.completedAt # NoTime

RowsInv ==
    /\ now > 0
    /\ \A t \in TaskID : RowInv(tasks[t], grants[t], acked[t])

DepsInv ==
    /\ IndexExact
    /\ BlockedOnSomething
    /\ \A t \in TaskID : tasks[t].state \in Terminal => tasks[t].state \in outcomes[t]
    /\ \A t \in TaskID : tasks[t].state = "unspecified" => tasks[t].deps = NoDeps
    /\ \A t, d \in TaskID : tasks[t].deps[d] # "NONE" =>
          d # t /\ tasks[t].deps[d] = tasks[t].envelope.dependsOn[d]
    /\ \A t \in TaskID \ revived : tasks[t].state \in Started => tasks[t].deps = NoDeps
    /\ \A t \in TaskID \ revived : tasks[t].state \in Started \cup {"blocked"} =>
          \A d \in TaskID \ {t} :
              tasks[t].envelope.dependsOn[d] # "NONE" /\ tasks[t].deps[d] = "NONE" =>
                  Decided(d, tasks[t].envelope.dependsOn[d])
    /\ \A d \in sweep.finished : tasks[d].state \in Terminal
    /\ ~sweep.held => sweep.finished = {}
=============================================================================
