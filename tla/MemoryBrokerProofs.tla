------------------------- MODULE MemoryBrokerProofs -------------------------
(* TLAPS proofs about MemoryBroker, for every value of its constants. *)
EXTENDS MemoryBroker, TLAPS

-----------------------------------------------------------------------------
(* Type correctness *)

LEMMA NoRowType == NoRow \in taskRow
  BY DEF NoRow, taskRow, NoDeps, Deps, State, NoEnvelope, NoTime, NoLease

\* Staging an envelope builds a well-formed row.
LEMMA StageType ==
  ASSUME TypeOK, NEW e \in Envelopes
  PROVE  stageEnqueue(e) \in taskRow
<1> DEFINE deps == IF cancelAtEnqueue(e) THEN NoDeps ELSE resolveInitialDeps(e)
<1>1. e \in Envelope
  BY ConstantsAssumption
<1>2. deps \in Deps
  BY <1>1 DEF Deps, NoDeps, resolveInitialDeps, Envelope
<1>3. due(e) \in Nat /\ now + e.uniqueTtl \in Nat /\ now \in Nat
  BY <1>1 DEF due, Envelope, TypeOK
<1>4. e.uniqueKey \in Key \cup {NoKey}
  BY <1>1 DEF Envelope
<1>5. ReadyState(e.group, due(e)) \in State
  BY DEF ReadyState, State, Incomplete
<1> HIDE DEF deps
<1> QED
  BY <1>1, <1>2, <1>3, <1>4, <1>5
  DEF stageEnqueue, taskRow, State, Incomplete, Terminal, Failed, NoTime, NoLease, deps

\* applyStaged keeps the types when it is given envelopes clients may send.
LEMMA ApplyStagedType ==
  ASSUME TypeOK, NEW E, E \subseteq Envelopes, applyStaged(E)
  PROVE  TypeOK'
<1> DEFINE ids == {e.id : e \in E}
           staged(t) == stageEnqueue(CHOOSE e \in E : e.id = t)
<1>1. ids \subseteq TaskID
  BY ConstantsAssumption DEF Envelope
<1>2. \A t \in ids : staged(t) \in taskRow
  <2> TAKE t \in ids
  <2>1. PICK e \in E : e.id = t
    OBVIOUS
  <2>2. (CHOOSE x \in E : x.id = t) \in Envelopes
    BY <2>1
  <2> QED
    BY <2>2, StageType
<1>3. /\ tasks' = [t \in TaskID |-> IF t \in ids THEN staged(t) ELSE tasks[t]]
      /\ dependents' = [d \in TaskID |-> dependents[d] \cup
                           {t \in ids : staged(t).deps[d] # "NONE"}]
      /\ outcomes' = [t \in TaskID |-> outcomes[t] \cup
                         IF t \in ids /\ staged(t).state = "canceled"
                         THEN {"canceled"} ELSE {}]
      /\ revived' = revived \ ids
      /\ UNCHANGED <<now, sweep, leaseSeq, grants, acked>>
  BY DEF applyStaged
<1> HIDE DEF ids, staged
<1>4. tasks' \in [TaskID -> taskRow]
  BY <1>2, <1>3 DEF TypeOK
<1>5. dependents' \in [TaskID -> SUBSET TaskID]
  BY <1>1, <1>3 DEF TypeOK
<1>6. outcomes' \in [TaskID -> SUBSET Terminal]
  BY <1>3 DEF TypeOK, Terminal, Failed
<1> QED
  BY <1>3, <1>4, <1>5, <1>6 DEF TypeOK

LEMMA EnqueueType ==
  ASSUME TypeOK, NEW e \in Envelopes, Enqueue(e)
  PROVE  TypeOK'
  BY ApplyStagedType DEF Enqueue

LEMMA EnqueueBatchType ==
  ASSUME TypeOK, NEW b \in Batches, EnqueueBatch(b)
  PROVE  TypeOK'
<1>1. {b[i] : i \in fresh(b)} \subseteq Envelopes
  BY ConstantsAssumption DEF fresh
<1> QED
  BY <1>1, ApplyStagedType DEF EnqueueBatch

LEMMA ClaimType ==
  ASSUME TypeOK, NEW S, S \subseteq TaskID, claim(S, leaseSeq + 1)
  PROVE  TypeOK'
<1>1. tasks' \in [TaskID -> taskRow]
  <2> SUFFICES ASSUME NEW t \in S
               PROVE  [tasks[t] EXCEPT !.state = "active", !.leaseID = leaseSeq + 1,
                          !.leaseExpiresAt = now + LeaseTTL, !.progress = 0] \in taskRow
    BY Zenon DEF claim, TypeOK
  <2>1. tasks[t] \in taskRow /\ leaseSeq + 1 \in Nat /\ now + LeaseTTL \in Nat
    BY ConstantsAssumption DEF TypeOK
  <2> QED
    BY Zenon, <2>1 DEF taskRow, State, Incomplete
<1>2. leaseSeq' \in Nat /\ 1..leaseSeq \subseteq 1..leaseSeq' /\ leaseSeq' \in 1..leaseSeq'
  <2>1. leaseSeq' = leaseSeq + 1 /\ leaseSeq \in Nat
    BY ZenonT(40) DEF claim, TypeOK
  <2> QED
    BY <2>1
<1>3. grants' \in [TaskID -> SUBSET (1..leaseSeq')]
  BY ZenonT(40), <1>2 DEF claim, TypeOK
<1>4. acked' \in [TaskID -> SUBSET (1..leaseSeq')]
  BY Zenon, <1>2 DEF claim, TypeOK
<1> QED
  BY Zenon, <1>1, <1>2, <1>3, <1>4 DEF claim, TypeOK

\* A step that replaces one row by a well-formed row keeps the types.
LEMMA SetRowType ==
  ASSUME TypeOK, NEW t \in TaskID, NEW row \in taskRow, setRow(t, row),
         acked' \in [TaskID -> SUBSET (1..leaseSeq)], revived' \subseteq TaskID
  PROVE  TypeOK'
  BY Zenon DEF setRow, TypeOK

LEMMA SettledRowType ==
  ASSUME TypeOK, NEW row \in taskRow
  PROVE  completed(row) \in taskRow /\ archived(row) \in taskRow
<1>1. now \in Nat
  BY DEF TypeOK
<1> QED
  BY Zenon, <1>1 DEF taskRow, completed, archived, State, Terminal, Failed, NoLease

\* Every step of a lease holder keeps the types.
LEMMA LeaseHolderType ==
  ASSUME TypeOK, NEW t \in TaskID, NEW lease \in grants[t],
         \/ ExtendLease(t, lease)
         \/ SetProgress(t, lease)
         \/ Ack(t, lease)
         \/ \E delay \in RetryDelays : Fail(t, lease, now + delay)
         \/ Release(t, lease)
         \/ Archive(t, lease)
  PROVE  TypeOK'
<1>1. tasks[t] \in taskRow /\ lease \in 1..leaseSeq /\ lease \in Nat /\ now \in Nat
  BY DEF TypeOK
<1>2. CASE ExtendLease(t, lease)
  <2>1. [tasks[t] EXCEPT !.leaseExpiresAt = now + LeaseTTL] \in taskRow
    BY <1>1, ConstantsAssumption DEF taskRow
  <2> QED
    BY <1>2, <2>1, SetRowType DEF ExtendLease, TypeOK
<1>3. CASE SetProgress(t, lease)
  <2>1. [tasks[t] EXCEPT !.progress = lease] \in taskRow
    BY <1>1 DEF taskRow
  <2> QED
    BY <1>3, <2>1, SetRowType DEF SetProgress, TypeOK
<1>4. CASE Ack(t, lease)
  BY <1>1, <1>4, SettledRowType, SetRowType DEF Ack, TypeOK
<1>5. CASE \E delay \in RetryDelays : Fail(t, lease, now + delay)
  <2> PICK delay \in RetryDelays : Fail(t, lease, now + delay)
    BY <1>5
  <2>1. [tasks[t] EXCEPT !.state = "retry", !.retried = @ + 1,
            !.processAt = now + delay, !.leaseID = NoLease] \in taskRow
    <3>1. now + delay \in Nat /\ tasks[t].retried + 1 \in Nat
      BY <1>1, ConstantsAssumption DEF taskRow
    <3> QED
      BY Zenon, <1>1, <3>1 DEF taskRow, State, Incomplete, NoLease
  <2> QED
    BY Zenon, <2>1, SetRowType DEF Fail, TypeOK
<1>6. CASE Release(t, lease)
  <2>1. [tasks[t] EXCEPT !.state = "pending", !.processAt = now,
            !.leaseID = NoLease] \in taskRow
    BY Zenon, <1>1 DEF taskRow, State, Incomplete, NoLease
  <2> QED
    BY <1>6, <2>1, SetRowType DEF Release, TypeOK
<1>7. CASE Archive(t, lease)
  BY <1>1, <1>7, SettledRowType, SetRowType DEF Archive, TypeOK
<1> QED
  BY <1>2, <1>3, <1>4, <1>5, <1>6, <1>7

LEMMA AckBatchType ==
  ASSUME TypeOK, NEW S \in SUBSET TaskID, NEW items \in [S -> 1..leaseSeq], AckBatch(items)
  PROVE  TypeOK'
<1>1. tasks' \in [TaskID -> taskRow]
  <2>1. \A t \in TaskID : tasks[t] \in taskRow /\ completed(tasks[t]) \in taskRow
    BY SettledRowType DEF TypeOK
  <2> QED
    BY <2>1 DEF AckBatch
<1>2. acked' \in [TaskID -> SUBSET (1..leaseSeq)]
  <2> DEFINE held == {t \in DOMAIN items : activeRow(t, items[t])}
  <2>1. acked' = [t \in TaskID |-> acked[t] \cup IF t \in held THEN {items[t]} ELSE {}]
    BY DEF AckBatch
  <2>2. \A t \in held : items[t] \in 1..leaseSeq
    OBVIOUS
  <2> HIDE DEF held
  <2> QED
    BY <2>1, <2>2 DEF TypeOK
<1> QED
  BY <1>1, <1>2 DEF AckBatch, TypeOK, Terminal

LEMMA ReapType ==
  ASSUME TypeOK, NEW row \in taskRow
  PROVE  reap(row) \in taskRow
<1>1. now \in Nat /\ row.retried + 1 \in Nat
  BY DEF TypeOK, taskRow
<1>2. [row EXCEPT !.state = "retry", !.retried = @ + 1, !.processAt = now,
                  !.leaseID = NoLease] \in taskRow
  BY Zenon, <1>1 DEF taskRow, State, Incomplete, NoLease
<1> QED
  BY <1>2, SettledRowType DEF reap

LEMMA PromoteType ==
  ASSUME NEW row \in taskRow
  PROVE  promote(row) \in taskRow /\ releaseLapsedUnique(row) \in taskRow
  BY DEF promote, releaseLapsedUnique, taskRow, State, Incomplete

\* The sweeps that rewrite a set of rows keep the types.
LEMMA SweepType ==
  ASSUME TypeOK, NEW limit \in Limits,
         \/ ReapExpiredLeases(limit)
         \/ PromoteScheduled(limit)
         \/ ArchiveExpired(limit)
  PROVE  TypeOK'
<1>1. CASE ReapExpiredLeases(limit)
  <2> PICK S \in SUBSET TaskID : setRows(S, reap)
    BY <1>1 DEF ReapExpiredLeases
  <2>1. \A t \in TaskID : tasks[t] \in taskRow /\ reap(tasks[t]) \in taskRow
    BY ReapType DEF TypeOK
  <2> QED
    BY <2>1 DEF setRows, TypeOK
<1>2. CASE PromoteScheduled(limit)
  <2> PICK S \in SUBSET TaskID : setRows(S, promote)
    BY <1>2 DEF PromoteScheduled
  <2>1. \A t \in TaskID : tasks[t] \in taskRow /\ promote(tasks[t]) \in taskRow
    BY PromoteType DEF TypeOK
  <2> QED
    BY <2>1 DEF setRows, TypeOK
<1>3. CASE ArchiveExpired(limit)
  <2> PICK S \in SUBSET TaskID : setRows(S, archived)
    BY <1>3 DEF ArchiveExpired
  <2>1. \A t \in TaskID : tasks[t] \in taskRow /\ archived(tasks[t]) \in taskRow
    BY SettledRowType DEF TypeOK
  <2> QED
    BY <2>1 DEF setRows, TypeOK
<1> QED
  BY <1>1, <1>2, <1>3

LEMMA PromoteIfReadyType ==
  ASSUME NEW row \in taskRow
  PROVE  promoteIfReady(row) \in taskRow
  BY DEF promoteIfReady, ReadyState, taskRow, State, Incomplete

LEMMA ResolveType ==
  ASSUME TypeOK, NEW f \in TaskID, resolveDependents(f),
         sweep' \in [held: BOOLEAN, finished: SUBSET TaskID, budget: Nat]
  PROVE  TypeOK'
<1>1. \A w \in TaskID : resolved(w, f) \in taskRow
  <2> TAKE w \in TaskID
  <2>1. tasks[w] \in taskRow /\ now \in Nat
    BY DEF TypeOK
  <2> DEFINE left == [d \in TaskID |-> IF d \in settled(w, f) THEN "NONE" ELSE tasks[w].deps[d]]
  <2>2. left \in Deps /\ NoDeps \in Deps
    BY <2>1 DEF Deps, NoDeps, taskRow
  <2> HIDE DEF left
  <2>3. [tasks[w] EXCEPT !.deps = left] \in taskRow
    BY <2>1, <2>2 DEF taskRow
  <2>4. [tasks[w] EXCEPT !.state = "canceled", !.completedAt = now, !.deps = NoDeps] \in taskRow
    BY Zenon, <2>1, <2>2 DEF taskRow, State, Terminal, Failed
  <2> QED
    BY <2>1, <2>3, <2>4, PromoteIfReadyType DEF resolved, left
<1>2. tasks' \in [TaskID -> taskRow]
  BY <1>1 DEF resolveDependents
<1>3. dependents' \in [TaskID -> SUBSET TaskID]
  BY DEF resolveDependents, TypeOK
<1>4. outcomes' \in [TaskID -> SUBSET Terminal]
  BY DEF resolveDependents, TypeOK, Terminal, Failed
<1> QED
  BY <1>2, <1>3, <1>4 DEF resolveDependents, TypeOK

LEMMA PromoteReadyType ==
  ASSUME TypeOK,
         \/ \E limit \in Limits : PromoteReadyDependents(limit)
         \/ SweepResolve
         \/ SweepBackstop
  PROVE  TypeOK'
<1>1. CASE \E limit \in Limits : PromoteReadyDependents(limit)
  BY <1>1, ConstantsAssumption DEF PromoteReadyDependents, TypeOK
<1>2. CASE SweepResolve
  <2> PICK f \in sweep.finished :
        /\ sweep.budget > 0
        /\ resolveDependents(f)
        /\ sweep' = [sweep EXCEPT !.finished = @ \ {f}, !.budget = @ - 1]
    BY Zenon, <1>2 DEF SweepResolve
  <2>1. sweep \in [held: BOOLEAN, finished: SUBSET TaskID, budget: Nat]
    BY DEF TypeOK
  <2>2. sweep.budget - 1 \in Nat /\ sweep.finished \ {f} \in SUBSET TaskID /\ f \in TaskID
    BY <2>1
  <2>3. sweep' \in [held: BOOLEAN, finished: SUBSET TaskID, budget: Nat]
    BY Zenon, <2>1, <2>2
  <2> QED
    BY <2>2, <2>3, ResolveType
<1>3. CASE SweepBackstop
  <2>1. \A t \in TaskID : promoteIfReady(tasks[t]) \in taskRow
    BY PromoteIfReadyType DEF TypeOK
  <2> QED
    BY <1>3, <2>1 DEF SweepBackstop, Unlocked, TypeOK
<1> QED
  BY <1>1, <1>2, <1>3

\* Removing rows keeps the types.
LEMMA RemoveType ==
  ASSUME TypeOK,
         \/ \E limit \in Limits : PurgeTerminal(limit)
         \/ \E t \in TaskID : DeleteTask(t)
  PROVE  TypeOK'
<1>1. CASE \E limit \in Limits : PurgeTerminal(limit)
  <2> PICK D \in SUBSET purgeCandidates({"completed"}), A \in SUBSET purgeCandidates(Failed) :
        /\ tasks' = [t \in TaskID |-> IF t \in D \cup A THEN NoRow
                                      ELSE releaseLapsedUnique(tasks[t])]
        /\ dependents' = dropTerminalDependentEdges
        /\ UNCHANGED <<now, sweep, history>>
    BY <1>1 DEF PurgeTerminal
  <2>1. \A t \in TaskID : releaseLapsedUnique(tasks[t]) \in taskRow
    BY PromoteType DEF TypeOK
  <2>2. tasks' \in [TaskID -> taskRow]
    BY <2>1, NoRowType
  <2>3. dependents' \in [TaskID -> SUBSET TaskID]
    BY DEF dropTerminalDependentEdges, TypeOK
  <2> QED
    BY <2>2, <2>3 DEF TypeOK, history
<1>2. CASE \E t \in TaskID : DeleteTask(t)
  <2> PICK t \in TaskID : DeleteTask(t)
    BY <1>2
  <2>1. tasks' \in [TaskID -> taskRow]
    BY NoRowType DEF DeleteTask, TypeOK
  <2>2. dependents' \in [TaskID -> SUBSET TaskID]
    BY DEF DeleteTask, TypeOK
  <2> QED
    BY <2>1, <2>2 DEF DeleteTask, TypeOK, history
<1> QED
  BY <1>1, <1>2

LEMMA OperatorType ==
  ASSUME TypeOK, NEW t \in TaskID,
         \/ CancelTask(t)
         \/ RunTaskNow(t)
         \/ \E at \in RunAts : RescheduleTask(t, at)
         \/ ArchiveTask(t)
         \/ Archive(t, NoLease)
  PROVE  TypeOK'
<1>1. tasks[t] \in taskRow /\ now \in Nat
  BY DEF TypeOK
<1>2. CASE CancelTask(t)
  <2>1. [tasks[t] EXCEPT !.state = "canceled", !.completedAt = now] \in taskRow
    BY Zenon, <1>1 DEF taskRow, State, Terminal, Failed
  <2> QED
    BY <1>2, <2>1, SetRowType DEF CancelTask, TypeOK
<1>3. CASE RunTaskNow(t)
  <2>1. [tasks[t] EXCEPT !.state = "pending", !.processAt = now, !.completedAt = NoTime] \in taskRow
    BY Zenon, <1>1 DEF taskRow, State, Incomplete, NoTime
  <2> QED
    BY <1>3, <2>1, SetRowType DEF RunTaskNow, TypeOK
<1>4. CASE \E at \in RunAts : RescheduleTask(t, at)
  <2> PICK at \in RunAts : RescheduleTask(t, at)
    BY <1>4
  <2>1. at \in Nat /\ ReadyState(NoGroup, at) \in State
    BY ConstantsAssumption DEF ReadyState, State, Incomplete
  <2>2. [tasks[t] EXCEPT !.processAt = at, !.state = ReadyState(NoGroup, at)] \in taskRow
    BY Zenon, <1>1, <2>1 DEF taskRow
  <2> QED
    BY Zenon, <2>2, SetRowType DEF RescheduleTask, TypeOK
<1>5. CASE ArchiveTask(t)
  <2>1. [tasks[t] EXCEPT !.state = "archived", !.completedAt = now] \in taskRow
    BY Zenon, <1>1 DEF taskRow, State, Terminal, Failed
  <2> QED
    BY <1>5, <2>1, SetRowType DEF ArchiveTask, TypeOK
<1>6. CASE Archive(t, NoLease)
  BY <1>1, <1>6, SettledRowType, SetRowType DEF Archive, TypeOK
<1> QED
  BY <1>2, <1>3, <1>4, <1>5, <1>6

\* Every step keeps the types.
LEMMA TypeStep == TypeOK /\ [Next]_vars => TypeOK'
<1> SUFFICES ASSUME TypeOK, [Next]_vars
             PROVE  TypeOK'
  OBVIOUS
<1>1. CASE Clients
  BY <1>1, EnqueueType, EnqueueBatchType DEF Clients
<1>2. CASE Leasing
  <2> PICK S \in SUBSET TaskID : claim(S, leaseSeq + 1)
    BY Zenon, <1>2 DEF Leasing, Lease, LeaseGroup, dueTasks, groupMembers
  <2> QED
    BY ClaimType
<1>3. CASE LeaseHolders
  BY <1>3, LeaseHolderType, AckBatchType DEF LeaseHolders
<1>4. CASE Maintenance
  <2>1. CASE \E t \in TaskID : ResolveDependents(t)
    BY <2>1, ResolveType DEF ResolveDependents, TypeOK
  <2> QED
    BY <1>4, <2>1, SweepType, PromoteReadyType, RemoveType DEF Maintenance
<1>5. CASE Operators
  BY <1>5, OperatorType, RemoveType DEF Operators
<1>6. CASE Tick
  BY <1>6 DEF Tick, TypeOK, history
<1>7. CASE SweepResolve \/ SweepBackstop
  BY <1>7, PromoteReadyType
<1>8. CASE UNCHANGED vars
  BY <1>8 DEF vars, TypeOK
<1> QED
  BY <1>1, <1>2, <1>3, <1>4, <1>5, <1>6, <1>7, <1>8 DEF Next

\* Type correctness: every row, index and counter keeps its Go type.
THEOREM TypeCorrect == Spec => []TypeOK
<1>1. New => TypeOK
  BY NoRowType DEF New, TypeOK, Unlocked
<1> QED
  BY <1>1, TypeStep, PTL DEF Spec

-----------------------------------------------------------------------------
(* Leases, progress and completion stamps *)

\* The rewrites that take a row out of a lease or to the dead letter.
LEMMA RewriteRow ==
  ASSUME NEW row \in taskRow, NEW g, NEW a, RowInv(row, g, a), now \in Nat, now > 0
  PROVE  /\ RowInv(archived(row), g, a)
         /\ row.state = "active" => RowInv(reap(row), g, a)
         /\ row.state = "scheduled" => RowInv(promote(row), g, a)
         /\ RowInv(promoteIfReady(row), g, a)
         /\ RowInv(releaseLapsedUnique(row), g, a)
         /\ RowInv([row EXCEPT !.state = "canceled", !.completedAt = now], g, a)
         /\ RowInv([row EXCEPT !.state = "archived", !.completedAt = now], g, a)
         /\ RowInv([row EXCEPT !.state = "pending", !.processAt = now,
                               !.completedAt = NoTime], g, a)
<1> USE DEF RowInv, NoTime, Terminal, Failed, taskRow
<1>1. RowInv(archived(row), g, a)
  BY DEF archived
<1>2. row.state = "active" => RowInv(reap(row), g, a)
  BY <1>1 DEF reap
<1>3. row.state = "scheduled" => RowInv(promote(row), g, a)
  BY DEF promote
<1>4. RowInv(promoteIfReady(row), g, a)
  BY DEF promoteIfReady, ReadyState
<1>5. RowInv(releaseLapsedUnique(row), g, a)
  BY DEF releaseLapsedUnique
<1>6. RowInv([row EXCEPT !.state = "canceled", !.completedAt = now], g, a)
  OBVIOUS
<1>7. RowInv([row EXCEPT !.state = "archived", !.completedAt = now], g, a)
  OBVIOUS
<1>8. RowInv([row EXCEPT !.state = "pending", !.processAt = now,
                         !.completedAt = NoTime], g, a)
  OBVIOUS
<1> QED
  BY <1>1, <1>2, <1>3, <1>4, <1>5, <1>6, <1>7, <1>8

LEMMA LeaseHolderRows ==
  ASSUME TypeOK, RowsInv, NEW t \in TaskID, NEW lease \in grants[t],
         \/ ExtendLease(t, lease)
         \/ SetProgress(t, lease)
         \/ Ack(t, lease)
         \/ \E delay \in RetryDelays : Fail(t, lease, now + delay)
         \/ Release(t, lease)
         \/ Archive(t, lease)
  PROVE  RowsInv'
<1>1. /\ tasks[t] \in taskRow /\ lease \in Nat /\ lease # NoLease /\ now \in Nat /\ now > 0
      /\ RowInv(tasks[t], grants[t], acked[t])
  BY DEF TypeOK, RowsInv, NoLease
<1>2. CASE ExtendLease(t, lease)
  <2>1. RowInv([tasks[t] EXCEPT !.leaseExpiresAt = now + LeaseTTL], grants[t], acked[t])
    BY <1>1 DEF RowInv, taskRow
  <2> QED
    BY <1>2, <2>1 DEF ExtendLease, setRow, RowsInv, TypeOK
<1>3. CASE SetProgress(t, lease)
  <2>1. RowInv([tasks[t] EXCEPT !.progress = lease], grants[t], acked[t])
    BY <1>1, <1>3 DEF RowInv, taskRow, SetProgress, activeRow
  <2> QED
    BY <1>3, <2>1 DEF SetProgress, setRow, RowsInv, TypeOK
<1>4. CASE Ack(t, lease)
  <2>1. RowInv(completed(tasks[t]), grants[t], acked[t] \cup {lease})
    BY <1>1, <1>4 DEF RowInv, completed, taskRow, Ack, activeRow, Terminal, Failed, NoTime
  <2> QED
    BY <1>4, <2>1 DEF Ack, setRow, RowsInv, TypeOK
<1>5. CASE \E delay \in RetryDelays : Fail(t, lease, now + delay)
  <2> PICK delay \in RetryDelays : Fail(t, lease, now + delay)
    BY <1>5
  <2>1. RowInv([tasks[t] EXCEPT !.state = "retry", !.retried = @ + 1,
            !.processAt = now + delay, !.leaseID = NoLease], grants[t], acked[t])
    BY Zenon, <1>1 DEF RowInv, taskRow, Fail, activeRow, Terminal, Failed
  <2> QED
    BY Zenon, <2>1 DEF Fail, setRow, RowsInv, TypeOK
<1>6. CASE Release(t, lease)
  <2>1. RowInv([tasks[t] EXCEPT !.state = "pending", !.processAt = now,
            !.leaseID = NoLease], grants[t], acked[t])
    BY <1>1, <1>6 DEF RowInv, taskRow, Release, activeRow, Terminal, Failed
  <2> QED
    BY <1>6, <2>1 DEF Release, setRow, RowsInv, TypeOK
<1>7. CASE Archive(t, lease)
  BY Zenon, <1>1, <1>7, RewriteRow DEF Archive, setRow, RowsInv, TypeOK
<1> QED
  BY <1>2, <1>3, <1>4, <1>5, <1>6, <1>7

LEMMA AckBatchRows ==
  ASSUME TypeOK, RowsInv, NEW S \in SUBSET TaskID, NEW items \in [S -> 1..leaseSeq],
         \A t \in S : items[t] \in grants[t], AckBatch(items)
  PROVE  RowsInv'
<1> DEFINE held == {t \in DOMAIN items : activeRow(t, items[t])}
<1>1. /\ tasks' = [t \in TaskID |-> IF t \in held THEN completed(tasks[t]) ELSE tasks[t]]
      /\ acked' = [t \in TaskID |-> acked[t] \cup IF t \in held THEN {items[t]} ELSE {}]
      /\ UNCHANGED <<now, grants>>
  BY DEF AckBatch
<1>2. \A t \in held : activeRow(t, items[t]) /\ t \in TaskID
  OBVIOUS
<1> HIDE DEF held
<1>3. ASSUME NEW t \in TaskID
      PROVE  RowInv(tasks'[t], grants[t], acked'[t])
  <2>1. tasks[t] \in taskRow /\ now \in Nat /\ now > 0 /\ RowInv(tasks[t], grants[t], acked[t])
    BY DEF TypeOK, RowsInv
  <2>2. CASE t \in held
    <3>1. RowInv(completed(tasks[t]), grants[t], acked[t] \cup {items[t]})
      BY SMTT(40), <1>2, <2>1, <2>2
      DEF RowInv, completed, taskRow, activeRow, Terminal, Failed, NoTime
    <3> QED
      BY <1>1, <2>2, <3>1
  <2>3. CASE t \notin held
    <3>1. tasks'[t] = tasks[t] /\ acked'[t] = acked[t]
      BY <1>1, <2>3
    <3> QED
      BY <2>1, <3>1
  <2> QED
    BY <2>2, <2>3
<1> QED
  BY Zenon, <1>1, <1>3 DEF RowsInv

LEMMA ClaimRows ==
  ASSUME TypeOK, RowsInv, NEW S \in SUBSET TaskID, claim(S, leaseSeq + 1),
         \A t \in S : tasks[t].state \notin Terminal
  PROVE  RowsInv'
<1>1. ASSUME NEW t \in TaskID
      PROVE  RowInv(tasks'[t], grants'[t], acked[t])
  <2>1. /\ tasks[t] \in taskRow /\ RowInv(tasks[t], grants[t], acked[t])
        /\ leaseSeq \in Nat /\ grants[t] \subseteq 1..leaseSeq
    BY DEF TypeOK, RowsInv
  <2>2. CASE t \in S
    <3>1. /\ grants'[t] = grants[t] \cup {leaseSeq + 1}
          /\ tasks'[t] = [tasks[t] EXCEPT !.state = "active", !.leaseID = leaseSeq + 1,
                             !.leaseExpiresAt = now + LeaseTTL, !.progress = 0]
      BY Zenon, <2>2 DEF claim
    <3>2. \A other \in grants[t] \cup {leaseSeq + 1} : other <= leaseSeq + 1
      BY <2>1
    <3> QED
      BY <2>1, <2>2, <3>1, <3>2 DEF RowInv, taskRow, Terminal, Failed
  <2>3. CASE t \notin S
    BY Zenon, <2>1, <2>3 DEF claim
  <2> QED
    BY <2>2, <2>3
<1> QED
  BY Zenon, <1>1 DEF claim, RowsInv

LEMMA EnqueueRows ==
  ASSUME TypeOK, RowsInv, NEW E, E \subseteq Envelopes, applyStaged(E),
         \A e \in E : ~Exists(e.id)
  PROVE  RowsInv'
<1>1. now \in Nat /\ now > 0
  BY DEF TypeOK, RowsInv
<1>2. \A e \in Envelopes : \A g, a : RowInv(stageEnqueue(e), g, a)
  <2>1. \A e \in Envelopes : stageEnqueue(e).state \notin {"active", "completed"}
    BY DEF stageEnqueue, ReadyState
  <2>2. \A e \in Envelopes :
           stageEnqueue(e).state \in Terminal <=> stageEnqueue(e).completedAt # NoTime
    BY SMTT(40), <1>1 DEF stageEnqueue, ReadyState, Terminal, Failed, NoTime
  <2> QED
    BY <2>1, <2>2 DEF RowInv
<1> DEFINE ids == {e.id : e \in E}
           staged(t) == stageEnqueue(CHOOSE e \in E : e.id = t)
<1>3. tasks' = [t \in TaskID |-> IF t \in ids THEN staged(t) ELSE tasks[t]]
  BY SMTT(40) DEF applyStaged
<1>4. \A t \in ids : \A g, a : RowInv(staged(t), g, a)
  <2> SUFFICES ASSUME NEW t \in ids, NEW g, NEW a
               PROVE  RowInv(staged(t), g, a)
    OBVIOUS
  <2>1. PICK e \in E : e.id = t
    OBVIOUS
  <2>2. (CHOOSE x \in E : x.id = t) \in Envelopes
    BY <2>1
  <2> QED
    BY <1>2, <2>2
<1>5. UNCHANGED <<now, grants, acked>>
  BY DEF applyStaged
<1> HIDE DEF ids, staged
<1> QED
  BY <1>1, <1>3, <1>4, <1>5 DEF RowsInv

LEMMA SweepRows ==
  ASSUME TypeOK, RowsInv, NEW limit \in Limits,
         \/ ReapExpiredLeases(limit)
         \/ PromoteScheduled(limit)
         \/ ArchiveExpired(limit)
  PROVE  RowsInv'
<1>1. \A t \in TaskID : tasks[t] \in taskRow /\ RowInv(tasks[t], grants[t], acked[t])
  BY DEF TypeOK, RowsInv
<1>2. now \in Nat /\ now > 0
  BY DEF TypeOK, RowsInv
<1>3. CASE ReapExpiredLeases(limit)
  <2> PICK S \in SUBSET {t \in TaskID : tasks[t].state = "active"} : setRows(S, reap)
    BY <1>3 DEF ReapExpiredLeases
  <2> QED
    BY Zenon, <1>1, <1>2, RewriteRow DEF setRows, RowsInv
<1>4. CASE PromoteScheduled(limit)
  <2> PICK S \in SUBSET {t \in TaskID : tasks[t].state = "scheduled"} : setRows(S, promote)
    BY <1>4 DEF PromoteScheduled
  <2> QED
    BY Zenon, <1>1, <1>2, RewriteRow DEF setRows, RowsInv
<1>5. CASE ArchiveExpired(limit)
  <2> PICK S \in SUBSET TaskID : setRows(S, archived)
    BY SMTT(40), <1>5 DEF ArchiveExpired
  <2> QED
    BY Zenon, <1>1, <1>2, RewriteRow DEF setRows, RowsInv
<1> QED
  BY <1>3, <1>4, <1>5

LEMMA ResolveRows ==
  ASSUME TypeOK, RowsInv, NEW f \in TaskID, resolveDependents(f)
  PROVE  RowsInv'
<1>1. now \in Nat /\ now > 0
  BY DEF TypeOK, RowsInv
<1>2. ASSUME NEW w \in TaskID
      PROVE  RowInv(resolved(w, f), grants[w], acked[w])
  <2>1. tasks[w] \in taskRow /\ RowInv(tasks[w], grants[w], acked[w])
    BY DEF TypeOK, RowsInv
  <2> DEFINE left == [d \in TaskID |-> IF d \in settled(w, f) THEN "NONE" ELSE tasks[w].deps[d]]
             waiting == [tasks[w] EXCEPT !.deps = left]
  <2>2. left \in Deps
    BY <2>1 DEF Deps, taskRow
  <2> HIDE DEF left
  <2>3. waiting \in taskRow /\ RowInv(waiting, grants[w], acked[w])
    BY <2>1, <2>2 DEF taskRow, RowInv
  <2>4. RowInv(promoteIfReady(waiting), grants[w], acked[w])
    BY Zenon, <1>1, <2>3, RewriteRow
  <2>5. RowInv([tasks[w] EXCEPT !.state = "canceled", !.completedAt = now, !.deps = NoDeps],
               grants[w], acked[w])
    BY <1>1, <2>1 DEF taskRow, RowInv, Terminal, Failed, NoTime
  <2> QED
    BY <2>1, <2>4, <2>5 DEF resolved, left
<1> QED
  BY <1>2 DEF resolveDependents, RowsInv

LEMMA RemoveRows ==
  ASSUME TypeOK, RowsInv,
         \/ \E limit \in Limits : PurgeTerminal(limit)
         \/ \E t \in TaskID : DeleteTask(t)
  PROVE  RowsInv'
<1>1. \A t \in TaskID : tasks[t] \in taskRow /\ RowInv(tasks[t], grants[t], acked[t])
  BY DEF TypeOK, RowsInv
<1>2. now \in Nat /\ now > 0
  BY DEF TypeOK, RowsInv
<1>3. \A g, a : RowInv(NoRow, g, a)
  BY DEF RowInv, NoRow, Terminal, Failed
<1>4. CASE \E limit \in Limits : PurgeTerminal(limit)
  <2> PICK D \in SUBSET purgeCandidates({"completed"}), A \in SUBSET purgeCandidates(Failed) :
        /\ tasks' = [t \in TaskID |-> IF t \in D \cup A THEN NoRow
                                      ELSE releaseLapsedUnique(tasks[t])]
        /\ UNCHANGED <<now, sweep, history>>
    BY SMTT(40), <1>4 DEF PurgeTerminal
  <2> QED
    BY Zenon, <1>1, <1>2, <1>3, RewriteRow DEF RowsInv, history
<1>5. CASE \E t \in TaskID : DeleteTask(t)
  BY <1>1, <1>2, <1>3, <1>5 DEF DeleteTask, RowsInv, history, TypeOK
<1> QED
  BY <1>4, <1>5

LEMMA OperatorRows ==
  ASSUME TypeOK, RowsInv, NEW t \in TaskID,
         \/ CancelTask(t)
         \/ RunTaskNow(t)
         \/ \E at \in RunAts : RescheduleTask(t, at)
         \/ ArchiveTask(t)
         \/ Archive(t, NoLease)
  PROVE  RowsInv'
<1>1. tasks[t] \in taskRow /\ RowInv(tasks[t], grants[t], acked[t]) /\ now \in Nat /\ now > 0
  BY DEF TypeOK, RowsInv
<1>2. CASE CancelTask(t)
  BY ZenonT(40), <1>1, <1>2, RewriteRow DEF CancelTask, setRow, RowsInv, TypeOK
<1>3. CASE RunTaskNow(t)
  BY ZenonT(40), <1>1, <1>3, RewriteRow DEF RunTaskNow, setRow, RowsInv, TypeOK
<1>4. CASE \E at \in RunAts : RescheduleTask(t, at)
  <2> PICK at \in RunAts : RescheduleTask(t, at)
    BY <1>4
  <2>1. ReadyState(NoGroup, at) \in {"scheduled", "pending"}
    BY DEF ReadyState
  <2>2. RowInv([tasks[t] EXCEPT !.processAt = at, !.state = ReadyState(NoGroup, at)],
               grants[t], acked[t])
    BY ZenonT(40), <1>1, <2>1 DEF RescheduleTask, RowInv, taskRow, Terminal, Failed
  <2> QED
    BY Zenon, <2>2 DEF RescheduleTask, setRow, RowsInv, TypeOK
<1>5. CASE ArchiveTask(t)
  BY ZenonT(40), <1>1, <1>5, RewriteRow DEF ArchiveTask, setRow, RowsInv, TypeOK
<1>6. CASE Archive(t, NoLease)
  BY Zenon, <1>1, <1>6, RewriteRow DEF Archive, setRow, RowsInv, TypeOK
<1> QED
  BY <1>2, <1>3, <1>4, <1>5, <1>6

\* Every step keeps the lease record of every row.
LEMMA RowsStep == TypeOK /\ RowsInv /\ [Next]_vars => RowsInv'
<1> SUFFICES ASSUME TypeOK, RowsInv, [Next]_vars
             PROVE  RowsInv'
  OBVIOUS
<1>1. CASE Clients
  <2>1. CASE \E e \in Envelopes : Enqueue(e)
    BY <2>1, EnqueueRows DEF Enqueue
  <2>2. CASE \E b \in Batches : EnqueueBatch(b)
    <3> PICK b \in Batches : EnqueueBatch(b)
      BY <2>2
    <3>1. {b[i] : i \in fresh(b)} \subseteq Envelopes
      BY ConstantsAssumption DEF fresh
    <3>2. \A e \in {b[i] : i \in fresh(b)} : ~Exists(e.id)
      BY DEF fresh
    <3> QED
      BY <3>1, <3>2, EnqueueRows DEF EnqueueBatch
  <2> QED
    BY <1>1, <2>1, <2>2 DEF Clients
<1>2. CASE Leasing
  <2> PICK S \in SUBSET TaskID :
        claim(S, leaseSeq + 1) /\ \A t \in S : tasks[t].state \notin Terminal
    BY ZenonT(40), <1>2 DEF Leasing, Lease, LeaseGroup, dueTasks, groupMembers, dispatchable, Terminal, Failed
  <2> QED
    BY ClaimRows
<1>3. CASE LeaseHolders
  BY <1>3, LeaseHolderRows, AckBatchRows DEF LeaseHolders
<1>4. CASE Maintenance
  <2>1. CASE \E t \in TaskID : ResolveDependents(t)
    BY <2>1, ResolveRows DEF ResolveDependents
  <2>2. CASE \E limit \in Limits : PromoteReadyDependents(limit)
    BY <2>2 DEF PromoteReadyDependents, RowsInv
  <2> QED
    BY <1>4, <2>1, <2>2, SweepRows, RemoveRows DEF Maintenance
<1>5. CASE Operators
  BY <1>5, OperatorRows, RemoveRows DEF Operators
<1>6. CASE Tick
  BY <1>6 DEF Tick, RowsInv, history, TypeOK
<1>7. CASE SweepResolve
  BY <1>7, ResolveRows DEF SweepResolve, TypeOK
<1>8. CASE SweepBackstop
  <2>1. \A t \in TaskID : RowInv(promoteIfReady(tasks[t]), grants[t], acked[t])
    BY Zenon, RewriteRow DEF TypeOK, RowsInv
  <2> QED
    BY <1>8, <2>1 DEF SweepBackstop, RowsInv
<1>9. CASE UNCHANGED vars
  BY <1>9 DEF vars, RowsInv
<1> QED
  BY <1>1, <1>2, <1>3, <1>4, <1>5, <1>6, <1>7, <1>8, <1>9 DEF Next

LEMMA RowsInvariant == Spec => [](TypeOK /\ RowsInv)
<1>1. New => TypeOK
  BY NoRowType DEF New, TypeOK, Unlocked
<1>2. New => RowsInv
  BY DEF New, RowsInv, RowInv, NoRow, Terminal, Failed, NoTime
<1> QED
  BY <1>1, <1>2, TypeStep, RowsStep, PTL DEF Spec

\* No stale acknowledgement: whatever the number of tasks, leases and
\* retries, a completed task was acknowledged under its latest lease.
THEOREM NoStaleCompletion == Spec => []CompletedByLatestLease
<1>1. TypeOK /\ RowsInv => CompletedByLatestLease
  BY DEF RowsInv, RowInv, CompletedByLatestLease
<1> QED
  BY <1>1, RowsInvariant, PTL

\* The progress of a running task was reported under its current lease.
THEOREM ProgressIsCurrent == Spec => []ProgressOfCurrentAttempt
<1>1. TypeOK /\ RowsInv => ProgressOfCurrentAttempt
  BY DEF RowsInv, RowInv, ProgressOfCurrentAttempt
<1> QED
  BY <1>1, RowsInvariant, PTL

\* Exactly the terminal rows carry the time purge measures retention from.
THEOREM CompletionAlwaysStamped == Spec => []CompletionStamped
<1>1. TypeOK /\ RowsInv => CompletionStamped
  BY DEF RowsInv, RowInv, CompletionStamped
<1> QED
  BY <1>1, RowsInvariant, PTL

\* Types, stamps and progress of the rows hold together.
THEOREM RowsAlwaysConsistent == Spec => []RowsConsistent
<1>1. TypeOK /\ CompletionStamped /\ ProgressOfCurrentAttempt => RowsConsistent
  BY DEF RowsConsistent
<1> QED
  BY <1>1, TypeCorrect, CompletionAlwaysStamped, ProgressIsCurrent, PTL

-----------------------------------------------------------------------------
(* Unique keys *)

\* A row that is incomplete after the step was so before it, with the same claim.
KeepsClaims ==
    /\ now' = now
    /\ revived \subseteq revived'
    /\ \A t \in TaskID \ revived' : tasks'[t].state \in Incomplete =>
          /\ tasks[t].state \in Incomplete
          /\ tasks'[t].uniqueKey = tasks[t].uniqueKey
          /\ tasks'[t].uniqueExpiresAt = tasks[t].uniqueExpiresAt

LEMMA KeptClaimsExclusive ==
  ASSUME UniqueKeyExclusive, KeepsClaims
  PROVE  UniqueKeyExclusive'
<1>1. \A t \in TaskID \ revived' : \A k : Claims(tasks[t], k)' => Claims(tasks[t], k)
  BY DEF KeepsClaims, Claims, After
<1> QED
  BY Zenon, <1>1 DEF UniqueKeyExclusive, KeepsClaims

\* Replacing one row by one that makes no new claim.
LEMMA SetRowKeepsClaims ==
  ASSUME TypeOK, NEW t \in TaskID, NEW row, setRow(t, row), revived \subseteq revived',
         t \in revived' \/
         (row.state \in Incomplete =>
            /\ tasks[t].state \in Incomplete
            /\ row.uniqueKey = tasks[t].uniqueKey
            /\ row.uniqueExpiresAt = tasks[t].uniqueExpiresAt)
  PROVE  KeepsClaims
<1>1. tasks' = [tasks EXCEPT ![t] = row] /\ now' = now /\ tasks \in [TaskID -> taskRow]
  BY SMTT(40) DEF setRow, TypeOK
<1> QED
  BY <1>1 DEF KeepsClaims

\* Rewriting the rows of a set by a rewrite that makes no new claim.
LEMMA RewriteKeepsClaims ==
  ASSUME NEW row \in taskRow
  PROVE  /\ archived(row).state \notin Incomplete
         /\ completed(row).state \notin Incomplete
         /\ row.state = "active" /\ reap(row).state \in Incomplete =>
               /\ reap(row).uniqueKey = row.uniqueKey
               /\ reap(row).uniqueExpiresAt = row.uniqueExpiresAt
         /\ promote(row).uniqueKey = row.uniqueKey
         /\ promote(row).uniqueExpiresAt = row.uniqueExpiresAt
         /\ promoteIfReady(row).state \in Incomplete => row.state \in Incomplete
         /\ promoteIfReady(row).uniqueKey = row.uniqueKey
         /\ promoteIfReady(row).uniqueExpiresAt = row.uniqueExpiresAt
<1> USE DEF taskRow, Incomplete
<1>1. archived(row).state \notin Incomplete /\ completed(row).state \notin Incomplete
  BY DEF archived, completed
<1>2. reap(row).state \in Incomplete =>
         reap(row).uniqueKey = row.uniqueKey /\ reap(row).uniqueExpiresAt = row.uniqueExpiresAt
  BY <1>1 DEF reap
<1>3. promote(row).uniqueKey = row.uniqueKey /\ promote(row).uniqueExpiresAt = row.uniqueExpiresAt
  BY DEF promote
<1>4. /\ promoteIfReady(row).state \in Incomplete => row.state \in Incomplete
      /\ promoteIfReady(row).uniqueKey = row.uniqueKey
      /\ promoteIfReady(row).uniqueExpiresAt = row.uniqueExpiresAt
  BY SMTT(40) DEF promoteIfReady
<1> QED
  BY <1>1, <1>2, <1>3, <1>4

LEMMA LeaseHolderKeepsClaims ==
  ASSUME TypeOK, NEW t \in TaskID, NEW lease \in grants[t],
         \/ ExtendLease(t, lease)
         \/ SetProgress(t, lease)
         \/ Ack(t, lease)
         \/ \E delay \in RetryDelays : Fail(t, lease, now + delay)
         \/ Release(t, lease)
         \/ Archive(t, lease)
  PROVE  KeepsClaims
<1>1. tasks[t] \in taskRow
  BY SMTT(40) DEF TypeOK
<1>2. CASE ExtendLease(t, lease)
  <2> DEFINE row == [tasks[t] EXCEPT !.leaseExpiresAt = now + LeaseTTL]
  <2>1. /\ row.state = tasks[t].state /\ row.uniqueKey = tasks[t].uniqueKey
        /\ row.uniqueExpiresAt = tasks[t].uniqueExpiresAt
    BY <1>1 DEF taskRow
  <2>2. setRow(t, row) /\ revived' = revived
    BY <1>2 DEF ExtendLease
  <2> HIDE DEF row
  <2> QED
    BY <2>1, <2>2, SetRowKeepsClaims
<1>3. CASE SetProgress(t, lease)
  <2> DEFINE row == [tasks[t] EXCEPT !.progress = lease]
  <2>1. /\ row.state = tasks[t].state /\ row.uniqueKey = tasks[t].uniqueKey
        /\ row.uniqueExpiresAt = tasks[t].uniqueExpiresAt
    BY <1>1 DEF taskRow
  <2>2. setRow(t, row) /\ revived' = revived
    BY SMTT(40), <1>3 DEF SetProgress
  <2> HIDE DEF row
  <2> QED
    BY <2>1, <2>2, SetRowKeepsClaims
<1>4. CASE Ack(t, lease)
  BY <1>1, <1>4, RewriteKeepsClaims, SetRowKeepsClaims DEF Ack
<1>5. CASE \E delay \in RetryDelays : Fail(t, lease, now + delay)
  <2> PICK delay \in RetryDelays : Fail(t, lease, now + delay)
    BY <1>5
  <2> DEFINE row == [tasks[t] EXCEPT !.state = "retry", !.retried = @ + 1,
                        !.processAt = now + delay, !.leaseID = NoLease]
  <2>1. row.uniqueKey = tasks[t].uniqueKey /\ row.uniqueExpiresAt = tasks[t].uniqueExpiresAt
    BY SMTT(40), <1>1 DEF taskRow
  <2>2. setRow(t, row) /\ revived' = revived /\ tasks[t].state \in Incomplete
    BY DEF Fail, activeRow, Incomplete
  <2> HIDE DEF row
  <2> QED
    BY <2>1, <2>2, SetRowKeepsClaims
<1>6. CASE Release(t, lease)
  <2> DEFINE row == [tasks[t] EXCEPT !.state = "pending", !.processAt = now, !.leaseID = NoLease]
  <2>1. row.uniqueKey = tasks[t].uniqueKey /\ row.uniqueExpiresAt = tasks[t].uniqueExpiresAt
    BY <1>1 DEF taskRow
  <2>2. setRow(t, row) /\ revived' = revived /\ tasks[t].state \in Incomplete
    BY SMTT(40), <1>6 DEF Release, activeRow, Incomplete
  <2> HIDE DEF row
  <2> QED
    BY <2>1, <2>2, SetRowKeepsClaims
<1>7. CASE Archive(t, lease)
  BY <1>1, <1>7, RewriteKeepsClaims, SetRowKeepsClaims DEF Archive
<1> QED
  BY <1>2, <1>3, <1>4, <1>5, <1>6, <1>7

LEMMA OperatorKeepsClaims ==
  ASSUME TypeOK, NEW t \in TaskID,
         \/ CancelTask(t)
         \/ DeleteTask(t)
         \/ RunTaskNow(t)
         \/ \E at \in RunAts : RescheduleTask(t, at)
         \/ ArchiveTask(t)
         \/ Archive(t, NoLease)
  PROVE  KeepsClaims
<1>1. tasks[t] \in taskRow
  BY SMTT(40) DEF TypeOK
<1>2. CASE CancelTask(t)
  <2> DEFINE row == [tasks[t] EXCEPT !.state = "canceled", !.completedAt = now]
  <2>1. row.state \notin Incomplete
    BY <1>1 DEF taskRow, Incomplete
  <2>2. setRow(t, row) /\ revived' = revived
    BY SMTT(40), <1>2 DEF CancelTask
  <2> HIDE DEF row
  <2> QED
    BY <2>1, <2>2, SetRowKeepsClaims
<1>3. CASE DeleteTask(t)
  <2>1. tasks' = [tasks EXCEPT ![t] = NoRow] /\ now' = now /\ revived' = revived
    BY <1>3 DEF DeleteTask, history
  <2> QED
    BY SMTT(40), <2>1 DEF KeepsClaims, NoRow, Incomplete, TypeOK
<1>4. CASE RunTaskNow(t)
  <2> DEFINE row == [tasks[t] EXCEPT !.state = "pending", !.processAt = now,
                                     !.completedAt = NoTime]
  <2>1. row.uniqueKey = tasks[t].uniqueKey /\ row.uniqueExpiresAt = tasks[t].uniqueExpiresAt
    BY <1>1 DEF taskRow
  <2>2. setRow(t, row) /\ revived \subseteq revived'
    BY <1>4 DEF RunTaskNow
  <2>3. t \in revived' \/ tasks[t].state \in Incomplete
    BY SMTT(40), <1>4 DEF RunTaskNow, Incomplete
  <2> HIDE DEF row
  <2> QED
    BY <2>1, <2>2, <2>3, SetRowKeepsClaims
<1>5. CASE \E at \in RunAts : RescheduleTask(t, at)
  <2> PICK at \in RunAts : RescheduleTask(t, at)
    BY <1>5
  <2> DEFINE row == [tasks[t] EXCEPT !.processAt = at, !.state = ReadyState(NoGroup, at)]
  <2>1. row.uniqueKey = tasks[t].uniqueKey /\ row.uniqueExpiresAt = tasks[t].uniqueExpiresAt
    BY SMTT(40), <1>1 DEF taskRow
  <2>2. setRow(t, row) /\ revived' = revived /\ tasks[t].state \in Incomplete
    BY DEF RescheduleTask, Incomplete
  <2> HIDE DEF row
  <2> QED
    BY <2>1, <2>2, SetRowKeepsClaims
<1>6. CASE ArchiveTask(t)
  <2> DEFINE row == [tasks[t] EXCEPT !.state = "archived", !.completedAt = now]
  <2>1. row.state \notin Incomplete
    BY <1>1 DEF taskRow, Incomplete
  <2>2. setRow(t, row) /\ revived' = revived
    BY SMTT(40), <1>6 DEF ArchiveTask
  <2> HIDE DEF row
  <2> QED
    BY <2>1, <2>2, SetRowKeepsClaims
<1>7. CASE Archive(t, NoLease)
  BY <1>1, <1>7, RewriteKeepsClaims, SetRowKeepsClaims DEF Archive
<1> QED
  BY <1>2, <1>3, <1>4, <1>5, <1>6, <1>7

LEMMA LeasingKeepsClaims ==
  ASSUME TypeOK, Leasing
  PROVE  KeepsClaims
<1> PICK S \in SUBSET TaskID :
      claim(S, leaseSeq + 1) /\ \A t \in S : tasks[t].state \in Incomplete
  BY ZenonT(40) DEF Leasing, Lease, LeaseGroup, dueTasks, groupMembers, dispatchable, Incomplete
<1>1. now' = now /\ revived' = revived
  BY DEF claim
<1>2. ASSUME NEW t \in TaskID
      PROVE  /\ t \in S \/ tasks'[t] = tasks[t]
             /\ tasks'[t].uniqueKey = tasks[t].uniqueKey
             /\ tasks'[t].uniqueExpiresAt = tasks[t].uniqueExpiresAt
  <2>1. tasks[t] \in taskRow
    BY DEF TypeOK
  <2>2. CASE t \in S
    <3>1. tasks'[t] = [tasks[t] EXCEPT !.state = "active", !.leaseID = leaseSeq + 1,
                          !.leaseExpiresAt = now + LeaseTTL, !.progress = 0]
      BY Zenon, <2>2 DEF claim
    <3> QED
      BY <2>1, <2>2, <3>1 DEF taskRow
  <2>3. CASE t \notin S
    BY Zenon, <2>3 DEF claim
  <2> QED
    BY <2>2, <2>3
<1> QED
  BY <1>1, <1>2 DEF KeepsClaims

LEMMA AckBatchKeepsClaims ==
  ASSUME TypeOK, NEW S \in SUBSET TaskID, NEW items \in [S -> 1..leaseSeq], AckBatch(items)
  PROVE  KeepsClaims
<1>1. now' = now /\ revived' = revived
  BY DEF AckBatch
<1>2. \A t \in TaskID : tasks'[t] = tasks[t] \/ tasks'[t] = completed(tasks[t])
  BY SMTT(40) DEF AckBatch
<1>3. \A t \in TaskID : completed(tasks[t]).state \notin Incomplete
  BY RewriteKeepsClaims DEF TypeOK
<1> QED
  BY Zenon, <1>1, <1>2, <1>3 DEF KeepsClaims

LEMMA SweepKeepsClaims ==
  ASSUME TypeOK, NEW limit \in Limits,
         \/ ReapExpiredLeases(limit)
         \/ PromoteScheduled(limit)
         \/ ArchiveExpired(limit)
  PROVE  KeepsClaims
<1>1. \A t \in TaskID : tasks[t] \in taskRow
  BY DEF TypeOK
<1>2. CASE ReapExpiredLeases(limit)
  <2> PICK S \in SUBSET {t \in TaskID : tasks[t].state = "active"} : setRows(S, reap)
    BY <1>2 DEF ReapExpiredLeases
  <2>1. now' = now /\ revived' = revived
    BY DEF setRows
  <2>2. \A t \in TaskID : \/ tasks'[t] = tasks[t]
                          \/ tasks[t].state = "active" /\ tasks'[t] = reap(tasks[t])
    BY SMTT(40) DEF setRows
  <2>3. \A t \in TaskID : tasks[t].state = "active" /\ reap(tasks[t]).state \in Incomplete =>
           /\ reap(tasks[t]).uniqueKey = tasks[t].uniqueKey
           /\ reap(tasks[t]).uniqueExpiresAt = tasks[t].uniqueExpiresAt
    BY SMTT(40), <1>1, RewriteKeepsClaims
  <2> QED
    BY SMTT(40), <2>1, <2>2, <2>3 DEF KeepsClaims, Incomplete
<1>3. CASE PromoteScheduled(limit)
  <2> PICK S \in SUBSET {t \in TaskID : tasks[t].state = "scheduled"} : setRows(S, promote)
    BY SMTT(40), <1>3 DEF PromoteScheduled
  <2>1. now' = now /\ revived' = revived
    BY DEF setRows
  <2>2. \A t \in TaskID : \/ tasks'[t] = tasks[t]
                          \/ tasks[t].state = "scheduled" /\ tasks'[t] = promote(tasks[t])
    BY SMTT(40) DEF setRows
  <2>3. \A t \in TaskID : /\ promote(tasks[t]).uniqueKey = tasks[t].uniqueKey
                          /\ promote(tasks[t]).uniqueExpiresAt = tasks[t].uniqueExpiresAt
    BY <1>1, RewriteKeepsClaims
  <2> QED
    BY <2>1, <2>2, <2>3 DEF KeepsClaims, Incomplete
<1>4. CASE ArchiveExpired(limit)
  <2> PICK S \in SUBSET TaskID : setRows(S, archived)
    BY <1>4 DEF ArchiveExpired
  <2>1. now' = now /\ revived' = revived
    BY DEF setRows
  <2>2. \A t \in TaskID : tasks'[t] = tasks[t] \/ tasks'[t] = archived(tasks[t])
    BY SMTT(40) DEF setRows
  <2>3. \A t \in TaskID : archived(tasks[t]).state \notin Incomplete
    BY SMTT(40), <1>1, RewriteKeepsClaims
  <2> QED
    BY <2>1, <2>2, <2>3 DEF KeepsClaims
<1> QED
  BY <1>2, <1>3, <1>4

LEMMA ResolveKeepsClaims ==
  ASSUME TypeOK, NEW f \in TaskID, resolveDependents(f)
  PROVE  KeepsClaims
<1>1. now' = now /\ revived' = revived
  BY SMTT(40) DEF resolveDependents
<1>2. ASSUME NEW w \in TaskID
      PROVE  resolved(w, f).state \in Incomplete =>
                /\ tasks[w].state \in Incomplete
                /\ resolved(w, f).uniqueKey = tasks[w].uniqueKey
                /\ resolved(w, f).uniqueExpiresAt = tasks[w].uniqueExpiresAt
  <2>1. tasks[w] \in taskRow
    BY DEF TypeOK
  <2> DEFINE left == [d \in TaskID |-> IF d \in settled(w, f) THEN "NONE" ELSE tasks[w].deps[d]]
             waiting == [tasks[w] EXCEPT !.deps = left]
             canceled == [tasks[w] EXCEPT !.state = "canceled", !.completedAt = now,
                                          !.deps = NoDeps]
  <2>2. left \in Deps
    BY <2>1 DEF Deps, taskRow
  <2> HIDE DEF left
  <2>3. /\ waiting \in taskRow /\ waiting.state = tasks[w].state
        /\ waiting.uniqueKey = tasks[w].uniqueKey
        /\ waiting.uniqueExpiresAt = tasks[w].uniqueExpiresAt
    BY <2>1, <2>2 DEF taskRow
  <2>4. canceled.state \notin Incomplete
    BY <2>1 DEF taskRow, Incomplete
  <2>5. resolved(w, f) \in {canceled, tasks[w], promoteIfReady(waiting)}
    BY SMTT(40) DEF resolved, left
  <2> HIDE DEF waiting, canceled
  <2>6. /\ promoteIfReady(waiting).state \in Incomplete => waiting.state \in Incomplete
        /\ promoteIfReady(waiting).uniqueKey = waiting.uniqueKey
        /\ promoteIfReady(waiting).uniqueExpiresAt = waiting.uniqueExpiresAt
    BY <2>3, RewriteKeepsClaims
  <2> QED
    BY <2>3, <2>4, <2>5, <2>6
<1> QED
  BY SMTT(40), <1>1, <1>2 DEF resolveDependents, KeepsClaims

\* A purge only lets go of claims that have lapsed.
LEMMA PurgeUnique ==
  ASSUME TypeOK, UniqueKeyExclusive, NEW limit \in Limits, PurgeTerminal(limit)
  PROVE  UniqueKeyExclusive'
<1>1. now' = now /\ revived' = revived
  BY DEF PurgeTerminal, history
<1>2. \A t \in TaskID : tasks'[t] = NoRow \/ tasks'[t] = releaseLapsedUnique(tasks[t])
  BY DEF PurgeTerminal
<1>3. ASSUME NEW t \in TaskID, NEW k, Claims(tasks[t], k)'
      PROVE  Claims(tasks[t], k)
  <2>1. tasks[t] \in taskRow
    BY SMTT(40) DEF TypeOK
  <2>2. Claims(tasks'[t], k)
    BY SMTT(40), <1>1, <1>3 DEF Claims, After
  <2>3. tasks'[t] = releaseLapsedUnique(tasks[t])
    <3>1. tasks'[t].state \in Incomplete
      BY SMTT(40), <2>2 DEF Claims
    <3>2. NoRow.state \notin Incomplete
      BY DEF NoRow, Incomplete
    <3> QED
      BY <1>2, <3>1, <3>2
  <2>4. CASE tasks'[t] = tasks[t]
    BY <2>2, <2>4
  <2>5. CASE tasks[t].uniqueExpiresAt # NoTime /\ ~After(tasks[t].uniqueExpiresAt)
    BY SMTT(40), <2>1, <2>2, <2>3, <2>5 DEF Claims, releaseLapsedUnique, taskRow
  <2> QED
    BY <2>3, <2>4, <2>5 DEF releaseLapsedUnique
<1> QED
  BY Zenon, <1>1, <1>3 DEF UniqueKeyExclusive

\* Admitted envelopes claim keys no row holds, each its own.
LEMMA StagedUnique ==
  ASSUME TypeOK, UniqueKeyExclusive, NEW E, E \subseteq Envelopes, applyStaged(E),
         \A e \in E : admissible(e),
         \A e, o \in E : e.id # o.id /\ e.uniqueKey # NoKey => e.uniqueKey # o.uniqueKey
  PROVE  UniqueKeyExclusive'
<1> DEFINE ids == {e.id : e \in E}
           of(t) == CHOOSE e \in E : e.id = t
<1>1. /\ tasks' = [t \in TaskID |-> IF t \in ids THEN stageEnqueue(of(t)) ELSE tasks[t]]
      /\ now' = now /\ revived' = revived \ ids
  BY SMTT(40) DEF applyStaged
<1>2. \A t \in ids : of(t) \in E /\ of(t).id = t
  <2> TAKE t \in ids
  <2>1. \E e \in E : e.id = t
    BY SMTT(40)
  <2> QED
    BY <2>1
<1> HIDE DEF ids, of
<1> SUFFICES ASSUME NEW t \in TaskID \ revived', NEW u \in TaskID \ revived', NEW k \in Key,
                    Claims(tasks[t], k)', Claims(tasks[u], k)'
             PROVE  t = u
  BY SMTT(40) DEF UniqueKeyExclusive
<1>3. ASSUME NEW v \in TaskID \ revived', Claims(tasks[v], k)'
      PROVE  \/ v \in ids /\ of(v).uniqueKey = k /\ k # NoKey /\ ~uniqueKeyClaimed(k)
             \/ v \notin ids /\ v \notin revived /\ Claims(tasks[v], k)
  <2>1. Claims(tasks'[v], k)
    BY SMTT(40), <1>1, <1>3 DEF Claims, After
  <2>2. CASE v \in ids
    <3>1. tasks'[v] = stageEnqueue(of(v))
      BY ZenonT(40), <1>1, <2>2
    <3>2. of(v).uniqueKey = k
      <4>1. tasks'[v].uniqueKey = k
        BY SMTT(40), <2>1 DEF Claims
      <4>2. stageEnqueue(of(v)).uniqueKey = of(v).uniqueKey
        BY ZenonT(40) DEF stageEnqueue
      <4> QED
        BY SMTT(40), <3>1, <4>1, <4>2
    <3>3. admissible(of(v)) /\ k # NoKey
      BY SMTT(40), <1>2, <2>2, ConstantsAssumption
    <3> QED
      BY SMTT(40), <2>2, <3>2, <3>3 DEF admissible
  <2>3. CASE v \notin ids
    BY SMTT(40), <1>1, <2>1, <2>3
  <2> QED
    BY ZenonT(40), <2>2, <2>3
<1>4. \A v \in TaskID : Claims(tasks[v], k) => uniqueKeyClaimed(k)
  BY SMTT(40) DEF uniqueKeyClaimed
<1>5. CASE t \in ids /\ u \in ids
  <2>1. of(t).uniqueKey = k /\ of(u).uniqueKey = k /\ k # NoKey
    BY SMTT(40), <1>3, <1>5
  <2>2. of(t) \in E /\ of(u) \in E /\ of(t).id = t /\ of(u).id = u
    BY SMTT(40), <1>2, <1>5
  <2> QED
    BY SMTT(40), <2>1, <2>2
<1>6. CASE t \notin ids /\ u \notin ids
  BY <1>3, <1>6 DEF UniqueKeyExclusive
<1> QED
  BY SMTT(40), <1>3, <1>4, <1>5, <1>6

\* Every step keeps the claims exclusive.
LEMMA UniqueStep == TypeOK /\ UniqueKeyExclusive /\ [Next]_vars => UniqueKeyExclusive'
<1> SUFFICES ASSUME TypeOK, UniqueKeyExclusive, [Next]_vars
             PROVE  UniqueKeyExclusive'
  OBVIOUS
<1>1. CASE \E e \in Envelopes : Enqueue(e)
  BY <1>1, StagedUnique DEF Enqueue
<1>2. CASE \E b \in Batches : EnqueueBatch(b)
  <2> PICK b \in Batches : EnqueueBatch(b)
    BY <1>2
  <2> DEFINE E == {b[i] : i \in fresh(b)}
  <2>1. E \subseteq Envelopes /\ DOMAIN b \subseteq Nat /\ fresh(b) \subseteq DOMAIN b
    BY ConstantsAssumption DEF fresh
  <2>2. applyStaged(E) /\ \A e \in E : admissible(e)
    BY DEF EnqueueBatch
  <2>3. ASSUME NEW i \in fresh(b), NEW j \in fresh(b), b[i].id # b[j].id, b[i].uniqueKey # NoKey
        PROVE  b[i].uniqueKey # b[j].uniqueKey
    <3>1. i \in Nat /\ j \in Nat /\ i # j
      BY <2>1, <2>3
    <3>2. \A m, n \in fresh(b) :
             n < m /\ b[m].uniqueKey # NoKey => b[n].uniqueKey # b[m].uniqueKey
      BY DEF EnqueueBatch
    <3>3. CASE i < j
      BY <2>3, <3>2, <3>3
    <3>4. CASE j < i
      BY <2>3, <3>2, <3>4
    <3> QED
      BY <3>1, <3>3, <3>4
  <2>4. \A e, o \in E : e.id # o.id /\ e.uniqueKey # NoKey => e.uniqueKey # o.uniqueKey
    BY <2>3
  <2> HIDE DEF E
  <2> QED
    BY SMTT(40), <2>1, <2>2, <2>4, StagedUnique
<1>3. CASE Leasing
  BY SMTT(40), <1>3, LeasingKeepsClaims, KeptClaimsExclusive
<1>4. CASE LeaseHolders
  BY <1>4, LeaseHolderKeepsClaims, AckBatchKeepsClaims, KeptClaimsExclusive DEF LeaseHolders
<1>5. CASE Maintenance
  <2>1. CASE \E t \in TaskID : ResolveDependents(t)
    BY SMTT(40), <2>1, ResolveKeepsClaims, KeptClaimsExclusive DEF ResolveDependents
  <2>2. CASE \E limit \in Limits : PromoteReadyDependents(limit)
    BY <2>2, KeptClaimsExclusive DEF PromoteReadyDependents, KeepsClaims
  <2> QED
    BY <1>5, <2>1, <2>2, SweepKeepsClaims, PurgeUnique, KeptClaimsExclusive DEF Maintenance
<1>6. CASE Operators
  BY <1>6, OperatorKeepsClaims, KeptClaimsExclusive DEF Operators
<1>7. CASE Tick
  <2>1. UNCHANGED <<tasks, revived>> /\ now' = now + 1 /\ now \in Nat
    BY <1>7 DEF Tick, history, TypeOK
  <2>2. ASSUME NEW t \in TaskID, NEW k, Claims(tasks[t], k)'
        PROVE  Claims(tasks[t], k)
    <3>1. tasks[t].uniqueExpiresAt \in Nat
      BY DEF TypeOK, taskRow
    <3> QED
      BY <2>1, <2>2, <3>1 DEF Claims, After
  <2> QED
    BY Zenon, <2>1, <2>2 DEF UniqueKeyExclusive
<1>8. CASE SweepResolve
  BY <1>8, ResolveKeepsClaims, KeptClaimsExclusive DEF SweepResolve, TypeOK
<1>9. CASE SweepBackstop
  <2>1. \A t \in TaskID : /\ promoteIfReady(tasks[t]).state \in Incomplete => tasks[t].state \in Incomplete
                          /\ promoteIfReady(tasks[t]).uniqueKey = tasks[t].uniqueKey
                          /\ promoteIfReady(tasks[t]).uniqueExpiresAt = tasks[t].uniqueExpiresAt
    BY ZenonT(40), RewriteKeepsClaims DEF TypeOK
  <2>2. KeepsClaims
    BY <1>9, <2>1 DEF SweepBackstop, KeepsClaims
  <2> QED
    BY SMTT(40), <2>2, KeptClaimsExclusive
<1>10. CASE UNCHANGED vars
  BY <1>10, KeptClaimsExclusive DEF vars, KeepsClaims
<1> QED
  BY <1>1, <1>2, <1>3, <1>4, <1>5, <1>6, <1>7, <1>8, <1>9, <1>10 DEF Next, Clients

\* Unique keys are exclusive however many tasks, batches, lapses and purges
\* there are: no enqueue admits a second live claim (uniqueKeyClaimed), and no
\* later step creates one, save RunTaskNow on the dead letter.
THEOREM UniqueKeysExclusive == Spec => []UniqueKeyExclusive
<1>1. New => UniqueKeyExclusive
  BY DEF New, UniqueKeyExclusive, Claims, NoRow, Incomplete
<1> QED
  BY <1>1, TypeCorrect, UniqueStep, PTL DEF Spec
=============================================================================
