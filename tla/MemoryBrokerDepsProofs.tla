----------------------- MODULE MemoryBrokerDepsProofs -----------------------
(* TLAPS proofs about the dependency graph of MemoryBroker. *)
EXTENDS MemoryBrokerProofs

\* A step that leaves dependency edges and envelopes alone, brings no row to
\* blocked, and starts no row that was not started, unless it was revived.
Quiet ==
    /\ ~sweep.held
    /\ UNCHANGED dependents
    /\ \A d \in sweep'.finished : tasks'[d].state \in Terminal
    /\ ~sweep'.held => sweep'.finished = {}
    /\ revived \subseteq revived'
    /\ \A t \in TaskID :
          /\ tasks'[t].deps = tasks[t].deps
          /\ tasks'[t].envelope = tasks[t].envelope
          /\ tasks'[t].state = "blocked" => tasks[t].state = "blocked"
          /\ tasks'[t].state = "unspecified" <=> tasks[t].state = "unspecified"
          /\ t \notin revived' /\ tasks'[t].state \in Started => tasks[t].state \in Started
          /\ outcomes[t] \subseteq outcomes'[t]
          /\ tasks'[t].state \in Terminal => tasks'[t].state \in outcomes'[t]

\* Outcomes only accumulate, so a decided dependency stays decided, and a
\* quiet step keeps the dependency invariant.
LEMMA QuietDeps ==
  ASSUME TypeOK, DepsInv, Quiet
  PROVE  DepsInv'
<1>1. IndexExact'
  BY DEF Quiet, DepsInv, IndexExact
<1>2. BlockedOnSomething'
  BY DEF Quiet, DepsInv, BlockedOnSomething
<1>3. \A t, d \in TaskID : tasks'[t].deps[d] # "NONE" =>
          d # t /\ tasks'[t].deps[d] = tasks'[t].envelope.dependsOn[d]
  BY DEF Quiet, DepsInv
<1>4. \A t \in TaskID \ revived' : tasks'[t].state \in Started => tasks'[t].deps = NoDeps
  BY DEF Quiet, DepsInv
<1>5. \A t \in TaskID \ revived' : tasks'[t].state \in Started \cup {"blocked"} =>
          \A d \in TaskID \ {t} :
              tasks'[t].envelope.dependsOn[d] # "NONE" /\ tasks'[t].deps[d] = "NONE" =>
                  Decided(d, tasks[t].envelope.dependsOn[d])'
  <2> SUFFICES ASSUME NEW t \in TaskID \ revived', tasks'[t].state \in Started \cup {"blocked"},
                      NEW d \in TaskID \ {t}, tasks'[t].envelope.dependsOn[d] # "NONE",
                      tasks'[t].deps[d] = "NONE"
               PROVE  Decided(d, tasks[t].envelope.dependsOn[d])'
    OBVIOUS
  <2>1. t \notin revived /\ tasks[t].state \in Started \cup {"blocked"}
    BY DEF Quiet
  <2>2. Decided(d, tasks[t].envelope.dependsOn[d])
    BY <2>1 DEF Quiet, DepsInv
  <2>3. tasks'[t].envelope = tasks[t].envelope /\ outcomes[d] \subseteq outcomes'[d]
    BY DEF Quiet
  <2> QED
    BY <2>2, <2>3 DEF Decided
<1> QED
  BY <1>1, <1>2, <1>3, <1>4, <1>5 DEF Quiet, DepsInv

\* Replacing one row by one with the same edges and envelope is quiet.
LEMMA SetRowQuiet ==
  ASSUME TypeOK, DepsInv, ~sweep.held, NEW t \in TaskID, NEW row, setRow(t, row),
         revived \subseteq revived',
         row.deps = tasks[t].deps, row.envelope = tasks[t].envelope,
         row.state # "blocked", row.state # "unspecified", tasks[t].state # "unspecified",
         t \notin revived' /\ row.state \in Started => tasks[t].state \in Started
  PROVE  Quiet
<1>1. /\ tasks' = [tasks EXCEPT ![t] = row]
      /\ outcomes' = [outcomes EXCEPT ![t] = @ \cup ({row.state} \cap Terminal)]
      /\ UNCHANGED <<now, dependents, sweep, leaseSeq, grants>>
  BY DEF setRow
<1>2. tasks \in [TaskID -> taskRow] /\ outcomes \in [TaskID -> SUBSET Terminal]
  BY DEF TypeOK
<1>3. sweep.finished = {}
  BY DEF DepsInv
<1>4. \A u \in TaskID : tasks[u].state \in Terminal => tasks[u].state \in outcomes[u]
  BY DEF DepsInv
<1> QED
  BY <1>1, <1>2, <1>3, <1>4 DEF Quiet

LEMMA LeaseHolderQuiet ==
  ASSUME TypeOK, DepsInv, ~sweep.held, NEW t \in TaskID, NEW lease \in grants[t],
         \/ ExtendLease(t, lease)
         \/ SetProgress(t, lease)
         \/ Ack(t, lease)
         \/ \E delay \in RetryDelays : Fail(t, lease, now + delay)
         \/ Release(t, lease)
         \/ Archive(t, lease)
  PROVE  Quiet
<1>1. tasks[t] \in taskRow /\ lease # NoLease
  BY DEF TypeOK, NoLease
<1>2. tasks[t].state = "active" /\ UNCHANGED revived
  BY Zenon, <1>1 DEF ExtendLease, SetProgress, Ack, Fail, Release, Archive, activeRow
<1> USE DEF Started, taskRow
<1>3. CASE ExtendLease(t, lease)
  BY <1>1, <1>2, <1>3, SetRowQuiet DEF ExtendLease
<1>4. CASE SetProgress(t, lease)
  BY <1>1, <1>2, <1>4, SetRowQuiet DEF SetProgress
<1>5. CASE Ack(t, lease)
  BY Zenon, <1>1, <1>2, <1>5, SetRowQuiet DEF Ack, completed
<1>6. CASE \E delay \in RetryDelays : Fail(t, lease, now + delay)
  BY Zenon, <1>1, <1>2, <1>6, SetRowQuiet DEF Fail
<1>7. CASE Release(t, lease)
  BY Zenon, <1>1, <1>2, <1>7, SetRowQuiet DEF Release
<1>8. CASE Archive(t, lease)
  BY Zenon, <1>1, <1>2, <1>8, SetRowQuiet DEF Archive, archived
<1> QED
  BY <1>3, <1>4, <1>5, <1>6, <1>7, <1>8

LEMMA OperatorQuiet ==
  ASSUME TypeOK, DepsInv, ~sweep.held, NEW t \in TaskID,
         \/ CancelTask(t)
         \/ RunTaskNow(t)
         \/ \E at \in RunAts : RescheduleTask(t, at)
         \/ ArchiveTask(t)
         \/ Archive(t, NoLease)
  PROVE  Quiet
<1>1. tasks[t] \in taskRow
  BY DEF TypeOK
<1> USE DEF Started, taskRow
<1>2. CASE CancelTask(t)
  BY Zenon, <1>1, <1>2, SetRowQuiet DEF CancelTask, Incomplete
<1>3. CASE RunTaskNow(t)
  <2>1. revived \subseteq revived' /\ (t \notin revived' => tasks[t].state # "archived")
    BY <1>3 DEF RunTaskNow
  <2> QED
    BY Zenon, <1>1, <1>3, <2>1, SetRowQuiet DEF RunTaskNow
<1>4. CASE \E at \in RunAts : RescheduleTask(t, at)
  <2> PICK at \in RunAts : RescheduleTask(t, at)
    BY <1>4
  <2>1. ReadyState(NoGroup, at) \in {"scheduled", "pending"}
    BY DEF ReadyState
  <2> QED
    BY Zenon, <1>1, <2>1, SetRowQuiet DEF RescheduleTask
<1>5. CASE ArchiveTask(t)
  BY Zenon, <1>1, <1>5, SetRowQuiet DEF ArchiveTask
<1>6. CASE Archive(t, NoLease)
  BY Zenon, <1>1, <1>6, SetRowQuiet DEF Archive, archived, Exists
<1> QED
  BY <1>2, <1>3, <1>4, <1>5, <1>6

\* Claims, batch acknowledgements and row sweeps are quiet as well.
LEMMA ClaimQuiet ==
  ASSUME TypeOK, DepsInv, ~sweep.held, NEW S \in SUBSET TaskID, claim(S, leaseSeq + 1),
         \A t \in S : tasks[t].state \in {"pending", "retry", "aggregating"}
  PROVE  Quiet
<1>1. sweep.finished = {} /\ \A t \in TaskID : tasks[t] \in taskRow
  BY DEF DepsInv, TypeOK
<1>2. \A u \in TaskID : tasks[u].state \in Terminal => tasks[u].state \in outcomes[u]
  BY DEF DepsInv
<1> QED
  BY ZenonT(40), <1>1, <1>2 DEF claim, Quiet, Started, taskRow, Terminal, Failed

LEMMA AckBatchQuiet ==
  ASSUME TypeOK, DepsInv, ~sweep.held, NEW S \in SUBSET TaskID,
         NEW items \in [S -> 1..leaseSeq], AckBatch(items)
  PROVE  Quiet
<1>1. sweep.finished = {} /\ \A t \in TaskID : tasks[t] \in taskRow
  BY DEF DepsInv, TypeOK
<1>2. \A u \in TaskID : tasks[u].state \in Terminal => tasks[u].state \in outcomes[u]
  BY DEF DepsInv
<1> DEFINE held == {t \in DOMAIN items : activeRow(t, items[t])}
<1>3. \A t \in held : tasks[t].state = "active"
  BY DEF activeRow
<1>4. /\ tasks' = [t \in TaskID |-> IF t \in held THEN completed(tasks[t]) ELSE tasks[t]]
      /\ outcomes' = [t \in TaskID |-> outcomes[t] \cup
                                       IF t \in held THEN {"completed"} ELSE {}]
      /\ UNCHANGED <<dependents, sweep, revived>>
  BY DEF AckBatch
<1> HIDE DEF held
<1>5. \A t \in TaskID : /\ completed(tasks[t]).deps = tasks[t].deps
                        /\ completed(tasks[t]).envelope = tasks[t].envelope
                        /\ completed(tasks[t]).state = "completed"
  BY <1>1 DEF completed, taskRow
<1> QED
  BY <1>1, <1>2, <1>3, <1>4, <1>5 DEF Quiet, Started

\* What the row rewrites of the sweeps leave alone.
LEMMA SweepRowFacts ==
  ASSUME NEW row \in taskRow
  PROVE  /\ reap(row).deps = row.deps /\ reap(row).envelope = row.envelope
         /\ reap(row).state \in {"retry", "archived"}
         /\ promote(row).deps = row.deps /\ promote(row).envelope = row.envelope
         /\ promote(row).state = "pending"
         /\ archived(row).deps = row.deps /\ archived(row).envelope = row.envelope
         /\ archived(row).state = "archived"
         /\ releaseLapsedUnique(row).deps = row.deps
         /\ releaseLapsedUnique(row).envelope = row.envelope
         /\ releaseLapsedUnique(row).state = row.state
  BY DEF reap, promote, archived, releaseLapsedUnique, taskRow

LEMMA SweepQuiet ==
  ASSUME TypeOK, DepsInv, ~sweep.held, NEW limit \in Limits,
         \/ ReapExpiredLeases(limit)
         \/ PromoteScheduled(limit)
         \/ ArchiveExpired(limit)
  PROVE  Quiet
<1>1. sweep.finished = {} /\ \A t \in TaskID : tasks[t] \in taskRow
  BY DEF DepsInv, TypeOK
<1>2. \A u \in TaskID : tasks[u].state \in Terminal => tasks[u].state \in outcomes[u]
  BY DEF DepsInv
<1>3. CASE ReapExpiredLeases(limit)
  <2> PICK S \in SUBSET {t \in TaskID : tasks[t].state = "active"} : setRows(S, reap)
    BY <1>3 DEF ReapExpiredLeases
  <2> QED
    BY <1>1, <1>2, SweepRowFacts DEF setRows, Quiet, Started
<1>4. CASE PromoteScheduled(limit)
  <2> PICK S \in SUBSET {t \in TaskID : tasks[t].state = "scheduled"} : setRows(S, promote)
    BY SMTT(40), <1>4 DEF PromoteScheduled
  <2> QED
    BY <1>1, <1>2, SweepRowFacts DEF setRows, Quiet, Started
<1>5. CASE ArchiveExpired(limit)
  <2> PICK S \in SUBSET {t \in TaskID : tasks[t].state # "unspecified"} : setRows(S, archived)
    BY <1>5 DEF ArchiveExpired, dispatchable
  <2> QED
    BY <1>1, <1>2, SweepRowFacts DEF setRows, Quiet, Started
<1> QED
  BY <1>3, <1>4, <1>5

LEMMA OtherQuiet ==
  ASSUME TypeOK, DepsInv, ~sweep.held,
         Tick \/ \E limit \in Limits : PromoteReadyDependents(limit)
  PROVE  Quiet
<1>1. sweep.finished = {}
  BY DEF DepsInv
<1>2. \A u \in TaskID : tasks[u].state \in Terminal => tasks[u].state \in outcomes[u]
  BY DEF DepsInv
<1> QED
  BY <1>1, <1>2 DEF Quiet, Tick, PromoteReadyDependents, history

\* What a freshly staged row says of its dependencies.
LEMMA StagedFacts ==
  ASSUME TypeOK, DepsInv, NEW e \in Envelopes
  PROVE  LET row == stageEnqueue(e) IN
         /\ row.envelope = e
         /\ row.state \in Started \cup {"blocked", "canceled"}
         /\ row.state # "completed"
         /\ row.state = "blocked" => row.deps # NoDeps
         /\ row.state # "blocked" => row.deps = NoDeps
         /\ \A d \in TaskID : row.deps[d] # "NONE" => d # e.id /\ row.deps[d] = e.dependsOn[d]
         /\ row.state # "canceled" => \A d \in TaskID \ {e.id} :
               e.dependsOn[d] # "NONE" /\ row.deps[d] = "NONE" => Decided(d, e.dependsOn[d])
<1> DEFINE row == stageEnqueue(e)
           deps == IF cancelAtEnqueue(e) THEN NoDeps ELSE resolveInitialDeps(e)
<1>1. /\ row.envelope = e /\ row.deps = deps
      /\ row.state = IF cancelAtEnqueue(e) THEN "canceled"
                     ELSE IF deps # NoDeps THEN "blocked"
                     ELSE ReadyState(e.group, due(e))
  BY DEF stageEnqueue
<1>2. ReadyState(e.group, due(e)) \in {"aggregating", "scheduled", "pending"}
  BY DEF ReadyState
<1>3. \A d \in TaskID : deps[d] # "NONE" => d # e.id /\ deps[d] = e.dependsOn[d]
  BY DEF resolveInitialDeps, NoDeps
<1>4. ASSUME NEW d \in TaskID \ {e.id}, e.dependsOn[d] # "NONE", deps[d] = "NONE",
             ~cancelAtEnqueue(e)
      PROVE  Decided(d, e.dependsOn[d])
  <2>1. satisfiedAtEnqueue(d, e.dependsOn[d])
    BY <1>4 DEF resolveInitialDeps
  <2>2. tasks[d].state \in Terminal => tasks[d].state \in outcomes[d]
    BY DEF DepsInv
  <2> QED
    BY <2>1, <2>2 DEF satisfiedAtEnqueue, Decided, Terminal, Failed
<1> HIDE DEF row, deps
<1>5. \A d \in TaskID \ {e.id} : e.dependsOn[d] # "NONE" /\ deps[d] = "NONE" /\ ~cancelAtEnqueue(e)
         => Decided(d, e.dependsOn[d])
  BY <1>4
<1>6. cancelAtEnqueue(e) => deps = NoDeps
  BY SMTT(40) DEF deps
<1> QED
  BY <1>1, <1>2, <1>3, <1>5, <1>6 DEF Started, row

LEMMA EnqueueDeps ==
  ASSUME TypeOK, DepsInv, ~sweep.held, NEW E, E \subseteq Envelopes, applyStaged(E),
         \A e \in E : ~Exists(e.id)
  PROVE  DepsInv'
<1> DEFINE ids == {e.id : e \in E}
           staged(t) == stageEnqueue(CHOOSE e \in E : e.id = t)
<1>1. /\ tasks' = [t \in TaskID |-> IF t \in ids THEN staged(t) ELSE tasks[t]]
      /\ dependents' = [d \in TaskID |-> dependents[d] \cup
                           {t \in ids : staged(t).deps[d] # "NONE"}]
      /\ outcomes' = [t \in TaskID |-> outcomes[t] \cup
                         IF t \in ids /\ staged(t).state = "canceled"
                         THEN {"canceled"} ELSE {}]
      /\ revived' = revived \ ids
      /\ UNCHANGED sweep
  BY DEF applyStaged
<1>2. ASSUME NEW t \in ids
      PROVE  /\ tasks[t].state = "unspecified" /\ t \in TaskID
             /\ \E e \in Envelopes : e.id = t /\ staged(t) = stageEnqueue(e)
  <2>1. PICK e \in E : e.id = t
    BY <1>2
  <2>2. (CHOOSE x \in E : x.id = t) \in E /\ (CHOOSE x \in E : x.id = t).id = t
    BY SMTT(40), <2>1
  <2> QED
    BY Zenon, <2>1, <2>2, ConstantsAssumption DEF Exists, Envelope
<1> HIDE DEF ids, staged
<1>3. ASSUME NEW t \in ids
      PROVE  /\ staged(t).state \in Started \cup {"blocked", "canceled"}
             /\ staged(t).state # "completed"
             /\ staged(t).state = "blocked" => staged(t).deps # NoDeps
             /\ staged(t).state # "blocked" => staged(t).deps = NoDeps
             /\ \A d \in TaskID : staged(t).deps[d] # "NONE" =>
                   d # t /\ staged(t).deps[d] = staged(t).envelope.dependsOn[d]
             /\ staged(t).state # "canceled" => \A d \in TaskID \ {t} :
                   staged(t).envelope.dependsOn[d] # "NONE" /\ staged(t).deps[d] = "NONE" =>
                      Decided(d, staged(t).envelope.dependsOn[d])
  <2> PICK e \in Envelopes : e.id = t /\ staged(t) = stageEnqueue(e)
    BY <1>2, <1>3
  <2> QED
    BY StagedFacts
<1>4. \A d \in TaskID : outcomes[d] \subseteq outcomes'[d]
  BY <1>1
<1>5. IndexExact'
  <2> SUFFICES ASSUME NEW d \in TaskID, NEW w \in TaskID
               PROVE  /\ w \in dependents'[d] => tasks'[w].deps[d] # "NONE"
                      /\ tasks'[w].state = "blocked" /\ tasks'[w].deps[d] # "NONE" =>
                            w \in dependents'[d]
    BY DEF IndexExact
  <2>1. CASE w \in ids
    <3>1. w \notin dependents[d]
      BY SMTT(40), <1>2, <2>1 DEF DepsInv, IndexExact, NoDeps
    <3> QED
      BY SMTT(40), <1>1, <2>1, <3>1
  <2>2. CASE w \notin ids
    BY SMTT(40), <1>1, <2>2 DEF DepsInv, IndexExact
  <2> QED
    BY <2>1, <2>2
<1>6. BlockedOnSomething'
  BY <1>1, <1>3 DEF DepsInv, BlockedOnSomething
<1>7. \A t \in TaskID : tasks'[t].state \in Terminal => tasks'[t].state \in outcomes'[t]
  <2> SUFFICES ASSUME NEW t \in TaskID, tasks'[t].state \in Terminal
               PROVE  tasks'[t].state \in outcomes'[t]
    OBVIOUS
  <2>1. CASE t \in ids
    BY <1>1, <1>3, <2>1 DEF Started, Terminal, Failed
  <2>2. CASE t \notin ids
    BY SMTT(40), <1>1, <2>2 DEF DepsInv
  <2> QED
    BY <2>1, <2>2
<1>8. \A t \in TaskID : tasks'[t].state = "unspecified" => tasks'[t].deps = NoDeps
  BY SMTT(40), <1>1, <1>3 DEF DepsInv, Started
<1>9. \A t, d \in TaskID : tasks'[t].deps[d] # "NONE" =>
          d # t /\ tasks'[t].deps[d] = tasks'[t].envelope.dependsOn[d]
  BY SMTT(40), <1>1, <1>3 DEF DepsInv
<1>10. \A t \in TaskID \ revived' : tasks'[t].state \in Started => tasks'[t].deps = NoDeps
  BY <1>1, <1>3 DEF DepsInv, Started
<1>11. ASSUME NEW t \in TaskID \ revived', tasks'[t].state \in Started \cup {"blocked"},
              NEW d \in TaskID \ {t}, tasks'[t].envelope.dependsOn[d] # "NONE",
              tasks'[t].deps[d] = "NONE"
       PROVE  Decided(d, tasks[t].envelope.dependsOn[d])'
  <2>1. Decided(d, tasks'[t].envelope.dependsOn[d])
    <3>1. CASE t \in ids
      BY SMTT(40), <1>1, <1>3, <1>11, <3>1 DEF Started
    <3>2. CASE t \notin ids
      BY SMTT(40), <1>1, <1>11, <3>2 DEF DepsInv
    <3> QED
      BY <3>1, <3>2
  <2> QED
    BY <1>4, <2>1 DEF Decided
<1>12. sweep' = sweep /\ sweep.finished = {}
  BY <1>1 DEF DepsInv
<1> QED
  BY SMTT(40), <1>5, <1>6, <1>7, <1>8, <1>9, <1>10, <1>11, <1>12 DEF DepsInv

-----------------------------------------------------------------------------
(* Resolution *)

\* The cascade is closed under cascade edges.
LEMMA CascadeIsClosed ==
  ASSUME NEW f \in TaskID, tasks[f].state \in Failed,
         NEW d \in cascade(f) \cup {f}, NEW w \in TaskID, waitsOn(w, d),
         tasks[w].deps[d] = "CASCADE_CANCEL"
  PROVE  w \in cascade(f)
<1> SUFFICES ASSUME NEW S \in SUBSET TaskID, CascadeClosed(S, f)
             PROVE  w \in S
  BY DEF cascade
<1>1. d \in S \cup {f}
  BY DEF cascade
<1> QED
  BY <1>1 DEF CascadeClosed

\* The cascade only reaches rows that wait for something.
LEMMA CascadeWaits ==
  ASSUME NEW f \in TaskID, NEW w \in cascade(f)
  PROVE  w \in TaskID /\ \E d \in TaskID : tasks[w].deps[d] # "NONE"
<1> DEFINE S == {x \in TaskID : \E d \in TaskID : tasks[x].deps[d] # "NONE"}
<1>1. S \in SUBSET TaskID /\ CascadeClosed(S, f)
  BY DEF CascadeClosed, waitsOn
<1> HIDE DEF S
<1>2. w \in S
  BY <1>1 DEF cascade
<1> QED
  BY <1>2 DEF S

\* promoteIfReady changes nothing but the state of the row it promotes.
LEMMA PromoteIfReadyFacts ==
  ASSUME NEW row \in taskRow, row.state = "blocked", row.deps = NoDeps
  PROVE  /\ promoteIfReady(row).deps = row.deps
         /\ promoteIfReady(row).envelope = row.envelope
         /\ promoteIfReady(row).state = ReadyState(row.envelope.group, row.processAt)
  BY SMTT(40) DEF promoteIfReady, taskRow

\* What resolution does to a row it does not cancel.
LEMMA ResolvedFacts ==
  ASSUME TypeOK, NEW f \in TaskID, NEW w \in TaskID, w \notin cascade(f)
  PROVE  LET row == resolved(w, f) IN
         /\ row.envelope = tasks[w].envelope
         /\ \A d \in TaskID : row.deps[d] = IF d \in settled(w, f) THEN "NONE"
                                            ELSE tasks[w].deps[d]
         /\ row.state # tasks[w].state => /\ tasks[w].state = "blocked"
                                          /\ row.deps = NoDeps
                                          /\ row.state \in {"aggregating", "scheduled", "pending"}
         /\ row.state = "blocked" /\ settled(w, f) # {} => row.deps # NoDeps
         /\ settled(w, f) = {} => row = tasks[w]
<1>1. tasks[w] \in taskRow
  BY DEF TypeOK
<1>2. CASE settled(w, f) = {}
  BY SMTT(40), <1>2 DEF resolved
<1>3. CASE settled(w, f) # {}
  <2> DEFINE left == [d \in TaskID |-> IF d \in settled(w, f) THEN "NONE" ELSE tasks[w].deps[d]]
             waiting == [tasks[w] EXCEPT !.deps = left]
  <2>1. resolved(w, f) = promoteIfReady(waiting)
    BY <1>3 DEF resolved
  <2>2. \A d \in TaskID : left[d] = IF d \in settled(w, f) THEN "NONE" ELSE tasks[w].deps[d]
    OBVIOUS
  <2> HIDE DEF left
  <2>3. /\ waiting.deps = left /\ waiting.envelope = tasks[w].envelope
        /\ waiting.state = tasks[w].state
    BY <1>1 DEF taskRow
  <2>4. promoteIfReady(waiting) =
           IF tasks[w].state = "blocked" /\ left = NoDeps
           THEN [waiting EXCEPT !.state = ReadyState(waiting.envelope.group, waiting.processAt)]
           ELSE waiting
    BY <2>3 DEF promoteIfReady
  <2>5. ReadyState(waiting.envelope.group, waiting.processAt) \in {"aggregating", "scheduled", "pending"}
    BY DEF ReadyState
  <2>8. waiting \in taskRow
    <3>1. left \in Deps
      BY <1>1 DEF left, taskRow, Deps, Policy
    <3> QED
      BY <1>1, <3>1 DEF taskRow
  <2> HIDE DEF waiting
  <2>6. CASE tasks[w].state = "blocked" /\ left = NoDeps
    <3>1. /\ resolved(w, f).deps = left /\ resolved(w, f).envelope = tasks[w].envelope
          /\ resolved(w, f).state = ReadyState(waiting.envelope.group, waiting.processAt)
      BY <2>1, <2>3, <2>6, <2>8, PromoteIfReadyFacts
    <3> QED
      BY <1>3, <2>2, <2>5, <2>6, <3>1
  <2>7. CASE ~(tasks[w].state = "blocked" /\ left = NoDeps)
    <3>1. resolved(w, f) = waiting
      BY SMTT(40), <2>1, <2>4, <2>7
    <3> QED
      BY <1>3, <2>2, <2>3, <2>7, <3>1
  <2> QED
    BY <2>6, <2>7
<1> QED
  BY <1>2, <1>3

LEMMA ResolveDeps ==
  ASSUME TypeOK, DepsInv, NEW f \in TaskID, tasks[f].state \in Terminal, resolveDependents(f),
         \A d \in sweep'.finished : tasks'[d].state \in Terminal,
         ~sweep'.held => sweep'.finished = {}
  PROVE  DepsInv'
<1> DEFINE C == cascade(f)
<1>0. C \subseteq TaskID
  BY DEF cascade
<1>1. /\ tasks' = [w \in TaskID |-> resolved(w, f)]
      /\ outcomes' = [w \in TaskID |-> outcomes[w] \cup IF w \in C THEN {"canceled"} ELSE {}]
      /\ UNCHANGED revived
  BY DEF resolveDependents
<1>2. \A d, w \in TaskID : w \in dependents'[d] <=>
         /\ w \in dependents[d]
         /\ ~(w \in C /\ tasks[w].deps[d] # "NONE")
         /\ ~(d \in C \cup {f} /\ (~waitsOn(w, d) \/ d \in settled(w, f)))
  BY DEF resolveDependents
<1>3. ASSUME NEW w \in C
      PROVE  /\ tasks'[w].state = "canceled" /\ tasks'[w].deps = NoDeps
             /\ tasks'[w].envelope = tasks[w].envelope
  <2>1. w \in TaskID /\ tasks[w] \in taskRow
    BY <1>0 DEF TypeOK
  <2>2. tasks'[w] = [tasks[w] EXCEPT !.state = "canceled", !.completedAt = now, !.deps = NoDeps]
    BY Zenon, <1>1, <2>1 DEF resolved
  <2> QED
    BY <2>1, <2>2 DEF taskRow
<1>4. ASSUME NEW w \in TaskID \ C
      PROVE  /\ tasks'[w].envelope = tasks[w].envelope
             /\ \A d \in TaskID : tasks'[w].deps[d] = IF d \in settled(w, f) THEN "NONE"
                                                       ELSE tasks[w].deps[d]
             /\ tasks'[w].state # tasks[w].state =>
                   /\ tasks[w].state = "blocked"
                   /\ tasks'[w].deps = NoDeps
                   /\ tasks'[w].state \in {"aggregating", "scheduled", "pending"}
             /\ tasks'[w].state = "blocked" /\ settled(w, f) # {} => tasks'[w].deps # NoDeps
             /\ settled(w, f) = {} => tasks'[w] = tasks[w]
  BY <1>1, ResolvedFacts
<1> HIDE DEF C
<1>5. \A d \in TaskID : outcomes[d] \subseteq outcomes'[d]
  BY SMTT(40), <1>1
<1>6. IndexExact'
  <2> SUFFICES ASSUME NEW d \in TaskID, NEW w \in TaskID
               PROVE  /\ w \in dependents'[d] => tasks'[w].deps[d] # "NONE"
                      /\ tasks'[w].state = "blocked" /\ tasks'[w].deps[d] # "NONE" =>
                            w \in dependents'[d]
    BY SMTT(40) DEF IndexExact
  <2>1. w \in dependents[d] => tasks[w].deps[d] # "NONE"
    BY DEF DepsInv, IndexExact
  <2>2. CASE w \in C
    BY SMTT(40), <1>2, <1>3, <2>1, <2>2
  <2>3. CASE w \notin C
    <3>1. d \in settled(w, f) => d \in C \cup {f}
      BY SMTT(40) DEF settled, C
    <3>2. tasks[w].state = "blocked" /\ tasks[w].deps[d] # "NONE" => waitsOn(w, d)
      BY DEF DepsInv, IndexExact, waitsOn
    <3>3. waitsOn(w, d) => w \in dependents[d]
      BY SMTT(40) DEF waitsOn
    <3> QED
      BY SMTT(40), <1>2, <1>4, <2>1, <2>3, <3>1, <3>2, <3>3
  <2> QED
    BY <2>2, <2>3
<1>7. BlockedOnSomething'
  <2> SUFFICES ASSUME NEW t \in TaskID, tasks'[t].state = "blocked"
               PROVE  tasks'[t].deps # NoDeps
    BY DEF BlockedOnSomething
  <2>1. t \notin C
    BY <1>3
  <2> QED
    BY <1>4, <2>1 DEF DepsInv, BlockedOnSomething
<1>8. \A t \in TaskID : tasks'[t].state \in Terminal => tasks'[t].state \in outcomes'[t]
  <2> SUFFICES ASSUME NEW t \in TaskID, tasks'[t].state \in Terminal
               PROVE  tasks'[t].state \in outcomes'[t]
    OBVIOUS
  <2>1. CASE t \in C
    BY SMTT(40), <1>1, <1>3, <2>1
  <2>2. CASE t \notin C
    <3>1. tasks'[t].state = tasks[t].state
      BY SMTT(40), <1>4, <2>2 DEF Terminal, Failed
    <3> QED
      BY <1>5, <3>1 DEF DepsInv
  <2> QED
    BY <2>1, <2>2
<1>9. \A t \in TaskID : tasks'[t].state = "unspecified" => tasks'[t].deps = NoDeps
  <2> SUFFICES ASSUME NEW t \in TaskID, tasks'[t].state = "unspecified"
               PROVE  tasks'[t].deps = NoDeps
    OBVIOUS
  <2>1. t \notin C /\ tasks[t].state = "unspecified"
    BY SMTT(40), <1>3, <1>4
  <2>2. settled(t, f) = {}
    BY SMTT(40), <2>1 DEF DepsInv, NoDeps, settled, waitsOn, C, cascade
  <2> QED
    BY SMTT(40), <1>4, <2>1, <2>2 DEF DepsInv
<1>10. \A t, d \in TaskID : tasks'[t].deps[d] # "NONE" =>
          d # t /\ tasks'[t].deps[d] = tasks'[t].envelope.dependsOn[d]
  <2> SUFFICES ASSUME NEW t \in TaskID, NEW d \in TaskID, tasks'[t].deps[d] # "NONE"
               PROVE  d # t /\ tasks'[t].deps[d] = tasks'[t].envelope.dependsOn[d]
    OBVIOUS
  <2>1. t \notin C
    BY <1>3 DEF NoDeps
  <2> QED
    BY <1>4, <2>1 DEF DepsInv
<1>11. \A t \in TaskID \ revived' : tasks'[t].state \in Started => tasks'[t].deps = NoDeps
  <2> SUFFICES ASSUME NEW t \in TaskID \ revived', tasks'[t].state \in Started
               PROVE  tasks'[t].deps = NoDeps
    OBVIOUS
  <2>1. t \notin C
    BY <1>3 DEF Started
  <2>2. CASE tasks'[t].state # tasks[t].state
    BY <1>4, <2>1, <2>2
  <2>3. CASE tasks'[t].state = tasks[t].state
    <3>1. tasks[t].deps = NoDeps
      BY <1>1, <2>3 DEF DepsInv
    <3>2. settled(t, f) = {}
      BY SMTT(40), <3>1 DEF NoDeps, settled, waitsOn, cascade
    <3> QED
      BY SMTT(40), <1>4, <2>1, <3>1, <3>2
  <2> QED
    BY <2>2, <2>3
<1>12. ASSUME NEW t \in TaskID \ revived', tasks'[t].state \in Started \cup {"blocked"},
              NEW d \in TaskID \ {t}, tasks'[t].envelope.dependsOn[d] # "NONE",
              tasks'[t].deps[d] = "NONE"
       PROVE  Decided(d, tasks[t].envelope.dependsOn[d])'
  <2>1. t \notin C /\ t \notin revived /\ tasks[t].state \in Started \cup {"blocked"}
    BY Zenon, <1>1, <1>3, <1>4, <1>12 DEF Started
  <2>2. tasks'[t].envelope = tasks[t].envelope
    BY <1>4, <2>1
  <2>3. CASE tasks[t].deps[d] = "NONE"
    <3>1. Decided(d, tasks[t].envelope.dependsOn[d])
      BY <1>12, <2>1, <2>2, <2>3 DEF DepsInv
    <3> QED
      BY SMTT(40), <1>5, <2>2, <3>1 DEF Decided
  <2>4. CASE tasks[t].deps[d] # "NONE"
    <3>1. d \in settled(t, f)
      BY SMTT(40), <1>4, <1>12, <2>1, <2>4
    <3>2. /\ d \in C \cup {f} /\ waitsOn(t, d)
          /\ tasks[t].deps[d] = "BLOCK" => tasks[f].state = "completed"
      BY SMTT(40), <3>1 DEF settled, C
    <3>3. tasks[t].deps[d] = tasks[t].envelope.dependsOn[d]
      BY SMTT(40), <2>4 DEF DepsInv
    <3>4. tasks[f].state \in outcomes[f]
      BY DEF DepsInv
    <3>5. CASE tasks[f].state = "completed"
      <4>1. C = {}
        BY <3>5 DEF C, cascade, Failed
      <4> QED
        BY <1>5, <3>2, <3>4, <3>5, <4>1 DEF Decided
    <3>6. CASE tasks[f].state # "completed"
      <4>1. tasks[f].state \in Failed
        BY <3>6 DEF Terminal
      <4>2. tasks[t].deps[d] # "CASCADE_CANCEL"
        BY SMTT(40), <2>1, <3>2, <4>1, CascadeIsClosed DEF C
      <4>3. tasks[t].deps[d] = "CONTINUE"
        BY SMTT(40), <2>4, <3>2, <3>6, <4>2 DEF TypeOK, taskRow, Deps, Policy
      <4>4. outcomes'[d] \cap Failed # {}
        BY SMTT(40), <1>0, <1>1, <3>2, <3>4, <4>1 DEF Failed
      <4> QED
        BY <2>2, <3>3, <4>3, <4>4 DEF Decided
    <3> QED
      BY SMTT(40), <3>5, <3>6
  <2> QED
    BY <2>3, <2>4
<1> QED
  BY SMTT(40), <1>6, <1>7, <1>8, <1>9, <1>10, <1>11, <1>12 DEF DepsInv

\* Removing rows that no incomplete row waits for keeps the invariant.
LEMMA RemoveRowsDeps ==
  ASSUME TypeOK, DepsInv, ~sweep.held, NEW D \in SUBSET TaskID,
         \A t \in D : tasks'[t] = NoRow,
         \A t \in TaskID \ D : /\ tasks'[t].state = tasks[t].state
                               /\ tasks'[t].deps = tasks[t].deps
                               /\ tasks'[t].envelope = tasks[t].envelope,
         \A d \in TaskID : /\ dependents'[d] \subseteq dependents[d] \ D
                           /\ \A w \in dependents[d] \ D :
                                 tasks[w].state \in Incomplete => w \in dependents'[d],
         UNCHANGED <<sweep, history>>
  PROVE  DepsInv'
<1>1. NoRow.state = "unspecified" /\ NoRow.deps = NoDeps
  BY DEF NoRow
<1>2. \A d \in TaskID : NoDeps[d] = "NONE"
  BY SMTT(40) DEF NoDeps
<1>3. sweep.finished = {} /\ sweep' = sweep /\ outcomes' = outcomes /\ revived' = revived
  BY SMTT(40) DEF DepsInv, history
<1>4. IndexExact'
  <2> SUFFICES ASSUME NEW d \in TaskID, NEW w \in TaskID
               PROVE  /\ w \in dependents'[d] => tasks'[w].deps[d] # "NONE"
                      /\ tasks'[w].state = "blocked" /\ tasks'[w].deps[d] # "NONE" =>
                            w \in dependents'[d]
    BY SMTT(40) DEF IndexExact
  <2> QED
    BY SMTT(40), <1>1, <1>2 DEF DepsInv, IndexExact, Incomplete
<1>5. BlockedOnSomething'
  BY SMTT(40), <1>1 DEF DepsInv, BlockedOnSomething
<1>6. \A t \in TaskID : tasks'[t].state \in Terminal => tasks'[t].state \in outcomes'[t]
  BY SMTT(40), <1>1, <1>3 DEF DepsInv, Terminal, Failed
<1>7. \A t \in TaskID : tasks'[t].state = "unspecified" => tasks'[t].deps = NoDeps
  BY SMTT(40), <1>1 DEF DepsInv
<1>8. \A t, d \in TaskID : tasks'[t].deps[d] # "NONE" =>
         d # t /\ tasks'[t].deps[d] = tasks'[t].envelope.dependsOn[d]
  BY SMTT(40), <1>1, <1>2 DEF DepsInv
<1>9. \A t \in TaskID \ revived' : tasks'[t].state \in Started => tasks'[t].deps = NoDeps
  BY SMTT(40), <1>1, <1>3 DEF DepsInv
<1>10. ASSUME NEW t \in TaskID \ revived', tasks'[t].state \in Started \cup {"blocked"},
              NEW d \in TaskID \ {t}, tasks'[t].envelope.dependsOn[d] # "NONE",
              tasks'[t].deps[d] = "NONE"
       PROVE  Decided(d, tasks[t].envelope.dependsOn[d])'
  <2>1. t \notin D
    BY SMTT(40), <1>1, <1>10 DEF Started
  <2>2. Decided(d, tasks[t].envelope.dependsOn[d])
    BY <1>3, <1>10, <2>1 DEF DepsInv
  <2> QED
    BY SMTT(40), <1>3, <2>1, <2>2 DEF Decided
<1> QED
  BY ZenonT(40), <1>3, <1>4, <1>5, <1>6, <1>7, <1>8, <1>9, <1>10 DEF DepsInv

LEMMA RemoveDeps ==
  ASSUME TypeOK, DepsInv, ~sweep.held,
         \/ \E limit \in Limits : PurgeTerminal(limit)
         \/ \E t \in TaskID : DeleteTask(t)
  PROVE  DepsInv'
<1>1. CASE \E limit \in Limits : PurgeTerminal(limit)
  <2> PICK D \in SUBSET purgeCandidates({"completed"}), A \in SUBSET purgeCandidates(Failed) :
        /\ tasks' = [t \in TaskID |-> IF t \in D \cup A THEN NoRow
                                      ELSE releaseLapsedUnique(tasks[t])]
        /\ dependents' = dropTerminalDependentEdges
        /\ UNCHANGED <<now, sweep, history>>
    BY SMTT(40), <1>1 DEF PurgeTerminal
  <2>1. D \cup A \in SUBSET TaskID
    BY DEF purgeCandidates
  <2>2. \A t \in D \cup A : tasks[t].state \notin Incomplete
    BY DEF purgeCandidates, Failed, Incomplete
  <2>3. \A row \in taskRow : /\ releaseLapsedUnique(row).state = row.state
                             /\ releaseLapsedUnique(row).deps = row.deps
                             /\ releaseLapsedUnique(row).envelope = row.envelope
    BY SMTT(40) DEF releaseLapsedUnique, taskRow
  <2>4. \A t \in TaskID \ (D \cup A) : /\ tasks'[t].state = tasks[t].state
                                       /\ tasks'[t].deps = tasks[t].deps
                                       /\ tasks'[t].envelope = tasks[t].envelope
    BY SMTT(40), <2>3 DEF TypeOK
  <2>5. \A d \in TaskID : /\ dependents'[d] \subseteq dependents[d] \ (D \cup A)
                          /\ \A w \in dependents[d] \ (D \cup A) :
                                tasks[w].state \in Incomplete => w \in dependents'[d]
    BY <2>2 DEF dropTerminalDependentEdges
  <2>6. \A t \in D \cup A : tasks'[t] = NoRow
    BY SMTT(40), <2>1
  <2> QED
    BY Zenon, <2>1, <2>4, <2>5, <2>6, RemoveRowsDeps
<1>2. CASE \E t \in TaskID : DeleteTask(t)
  <2> PICK t \in TaskID : DeleteTask(t)
    BY SMTT(40), <1>2
  <2>1. \A u \in {t} : tasks'[u] = NoRow
    BY SMTT(40) DEF DeleteTask, TypeOK
  <2>2. \A u \in TaskID \ {t} : tasks'[u] = tasks[u]
    BY SMTT(40) DEF DeleteTask, TypeOK
  <2>3. \A d \in TaskID : t \in dependents[d] => tasks[t].deps[d] # "NONE"
    BY SMTT(40) DEF DepsInv, IndexExact
  <2>4. \A d \in TaskID : dependents'[d] = dependents[d] \ {t}
    BY SMTT(40), <2>3 DEF DeleteTask
  <2> DEFINE D == {t}
  <2>5. /\ D \in SUBSET TaskID
        /\ \A u \in D : tasks'[u] = NoRow
        /\ \A u \in TaskID \ D : /\ tasks'[u].state = tasks[u].state
                                 /\ tasks'[u].deps = tasks[u].deps
                                 /\ tasks'[u].envelope = tasks[u].envelope
    BY <2>1, <2>2
  <2>6. \A d \in TaskID : /\ dependents'[d] \subseteq dependents[d] \ D
                          /\ \A w \in dependents[d] \ D :
                                tasks[w].state \in Incomplete => w \in dependents'[d]
    BY SMTT(40), <2>4
  <2>7. UNCHANGED <<sweep, history>>
    BY DEF DeleteTask
  <2> HIDE DEF D
  <2> QED
    BY <2>5, <2>6, <2>7, RemoveRowsDeps
<1> QED
  BY <1>1, <1>2

\* The backstop finds nothing to do: no row is blocked on nothing.
LEMMA BackstopIdle ==
  ASSUME TypeOK, DepsInv, SweepBackstop
  PROVE  tasks' = tasks
<1>1. \A t \in TaskID : promoteIfReady(tasks[t]) = tasks[t]
  BY DEF promoteIfReady, DepsInv, BlockedOnSomething
<1> QED
  BY <1>1 DEF SweepBackstop, TypeOK

\* The outcome of a resolution stays terminal.
LEMMA ResolveKeepsTerminal ==
  ASSUME TypeOK, NEW f \in TaskID, resolveDependents(f), NEW d \in TaskID,
         tasks[d].state \in Terminal
  PROVE  tasks'[d].state \in Terminal
<1>1. tasks[d] \in taskRow /\ tasks'[d] = resolved(d, f)
  BY DEF TypeOK, resolveDependents
<1>2. CASE d \in cascade(f)
  BY SMTT(40), <1>1, <1>2 DEF resolved, taskRow, Terminal, Failed
<1>3. CASE d \notin cascade(f)
  BY <1>1, <1>3, ResolvedFacts DEF Terminal, Failed
<1> QED
  BY SMTT(40), <1>2, <1>3

LEMMA SweepDeps ==
  ASSUME TypeOK, DepsInv, SweepResolve \/ SweepBackstop
  PROVE  DepsInv'
<1>1. CASE SweepResolve
  <2> PICK f \in sweep.finished :
        /\ resolveDependents(f)
        /\ sweep' = [sweep EXCEPT !.finished = @ \ {f}, !.budget = @ - 1]
    BY Zenon, <1>1 DEF SweepResolve
  <2>1. sweep'.held = sweep.held /\ sweep'.finished = sweep.finished \ {f}
    BY DEF TypeOK
  <2>2. f \in TaskID /\ sweep.finished \subseteq TaskID /\ tasks[f].state \in Terminal
    BY DEF TypeOK, DepsInv
  <2>3. \A d \in sweep'.finished : tasks'[d].state \in Terminal
    BY <2>1, <2>2, ResolveKeepsTerminal DEF DepsInv
  <2>4. ~sweep'.held => sweep'.finished = {}
    BY <2>1 DEF DepsInv
  <2> QED
    BY <2>2, <2>3, <2>4, ResolveDeps
<1>2. CASE SweepBackstop
  <2>1. tasks' = tasks
    BY SMTT(40), <1>2, BackstopIdle
  <2>2. sweep'.finished = {}
    BY <1>2 DEF SweepBackstop, Unlocked
  <2>3. UNCHANGED <<dependents, outcomes, revived>>
    BY SMTT(40), <1>2 DEF SweepBackstop
  <2>4. IndexExact' /\ BlockedOnSomething'
    BY SMTT(40), <2>1, <2>3 DEF DepsInv, IndexExact, BlockedOnSomething
  <2>5. \A t \in TaskID \ revived' : tasks'[t].state \in Started \cup {"blocked"} =>
           \A d \in TaskID \ {t} :
              tasks'[t].envelope.dependsOn[d] # "NONE" /\ tasks'[t].deps[d] = "NONE" =>
                  Decided(d, tasks[t].envelope.dependsOn[d])'
    BY SMTT(40), <2>1, <2>3 DEF DepsInv, Decided
  <2>6. \A t \in TaskID : tasks'[t].state \in Terminal => tasks'[t].state \in outcomes'[t]
    BY SMTT(40), <2>1, <2>3 DEF DepsInv
  <2>7. /\ \A t \in TaskID : tasks'[t].state = "unspecified" => tasks'[t].deps = NoDeps
        /\ \A t, d \in TaskID : tasks'[t].deps[d] # "NONE" =>
              d # t /\ tasks'[t].deps[d] = tasks'[t].envelope.dependsOn[d]
        /\ \A t \in TaskID \ revived' : tasks'[t].state \in Started => tasks'[t].deps = NoDeps
    BY <2>1, <2>3 DEF DepsInv
  <2> QED
    BY Zenon, <2>2, <2>4, <2>5, <2>6, <2>7 DEF DepsInv
<1> QED
  BY <1>1, <1>2

-----------------------------------------------------------------------------
(* The invariant and what follows from it *)

LEMMA DepsStep == TypeOK /\ DepsInv /\ [Next]_vars => DepsInv'
<1> SUFFICES ASSUME TypeOK, DepsInv, [Next]_vars
             PROVE  DepsInv'
  OBVIOUS
<1>1. CASE ~sweep.held /\ Clients
  <2>1. CASE \E e \in Envelopes : Enqueue(e)
    <3> PICK e \in Envelopes : Enqueue(e)
      BY <2>1
    <3>1. {e} \subseteq Envelopes /\ applyStaged({e}) /\ \A x \in {e} : ~Exists(x.id)
      BY DEF Enqueue, admissible
    <3> QED
      BY <1>1, <3>1, EnqueueDeps
  <2>2. CASE \E b \in Batches : EnqueueBatch(b)
    <3> PICK b \in Batches : EnqueueBatch(b)
      BY <2>2
    <3>1. {b[i] : i \in fresh(b)} \subseteq Envelopes
      BY ConstantsAssumption DEF fresh
    <3>2. \A e \in {b[i] : i \in fresh(b)} : ~Exists(e.id)
      BY DEF fresh
    <3> QED
      BY SMTT(40), <1>1, <3>1, <3>2, EnqueueDeps DEF EnqueueBatch
  <2> QED
    BY <1>1, <2>1, <2>2 DEF Clients
<1>2. CASE ~sweep.held /\ Leasing
  <2> PICK S \in SUBSET TaskID :
        claim(S, leaseSeq + 1) /\ \A t \in S : tasks[t].state \in {"pending", "retry", "aggregating"}
    BY ZenonT(40), <1>2 DEF Leasing, Lease, LeaseGroup, dueTasks, groupMembers, dispatchable
  <2> QED
    BY <1>2, ClaimQuiet, QuietDeps
<1>3. CASE ~sweep.held /\ LeaseHolders
  BY Zenon, <1>3, LeaseHolderQuiet, AckBatchQuiet, QuietDeps DEF LeaseHolders
<1>4. CASE ~sweep.held /\ Maintenance
  <2>1. CASE \E t \in TaskID : ResolveDependents(t)
    <3> PICK t \in TaskID : ResolveDependents(t)
      BY <2>1
    <3>1. tasks[t].state \in Terminal /\ resolveDependents(t) /\ sweep' = sweep
      BY SMTT(40) DEF ResolveDependents
    <3>2. sweep'.finished = {}
      BY <1>4, <3>1 DEF DepsInv
    <3> QED
      BY <3>1, <3>2, ResolveDeps
  <2>2. CASE \E limit \in Limits : PromoteReadyDependents(limit)
    BY <1>4, <2>2, OtherQuiet, QuietDeps
  <2>3. CASE \E limit \in Limits : PurgeTerminal(limit)
    BY <1>4, <2>3, RemoveDeps
  <2>4. CASE \E limit \in Limits : \/ ReapExpiredLeases(limit)
                                    \/ PromoteScheduled(limit)
                                    \/ ArchiveExpired(limit)
    BY <1>4, <2>4, SweepQuiet, QuietDeps
  <2> QED
    BY <1>4, <2>1, <2>2, <2>3, <2>4 DEF Maintenance
<1>5. CASE ~sweep.held /\ Operators
  <2>1. CASE \E t \in TaskID : DeleteTask(t)
    BY <1>5, <2>1, RemoveDeps
  <2> QED
    BY <1>5, <2>1, OperatorQuiet, QuietDeps DEF Operators
<1>6. CASE ~sweep.held /\ Tick
  BY <1>6, OtherQuiet, QuietDeps
<1>7. CASE SweepResolve \/ SweepBackstop
  BY SMTT(40), <1>7, SweepDeps
<1>8. CASE UNCHANGED vars
  <2>1. /\ tasks' = tasks /\ outcomes' = outcomes /\ sweep' = sweep
        /\ revived' = revived /\ dependents' = dependents
    BY SMTT(40), <1>8 DEF vars
  <2>2. IndexExact' /\ BlockedOnSomething'
    BY SMTT(40), <2>1 DEF DepsInv, IndexExact, BlockedOnSomething
  <2>3. /\ \A t \in TaskID : tasks'[t].state \in Terminal => tasks'[t].state \in outcomes'[t]
        /\ \A t \in TaskID : tasks'[t].state = "unspecified" => tasks'[t].deps = NoDeps
        /\ \A t \in TaskID \ revived' : tasks'[t].state \in Started => tasks'[t].deps = NoDeps
        /\ \A d \in sweep'.finished : tasks'[d].state \in Terminal
        /\ ~sweep'.held => sweep'.finished = {}
    BY SMTT(40), <2>1 DEF DepsInv
  <2>4. \A t, d \in TaskID : tasks'[t].deps[d] # "NONE" =>
           d # t /\ tasks'[t].deps[d] = tasks'[t].envelope.dependsOn[d]
    BY SMTT(40), <2>1 DEF DepsInv
  <2>5. (\A t \in TaskID \ revived : tasks[t].state \in Started \cup {"blocked"} =>
           \A d \in TaskID \ {t} :
              tasks[t].envelope.dependsOn[d] # "NONE" /\ tasks[t].deps[d] = "NONE" =>
                 Decided(d, tasks[t].envelope.dependsOn[d]))'
    BY <2>1 DEF DepsInv, Decided
  <2> QED
    BY ZenonT(40), <2>2, <2>3, <2>4, <2>5 DEF DepsInv
<1> QED
  BY <1>1, <1>2, <1>3, <1>4, <1>5, <1>6, <1>7, <1>8 DEF Next

LEMMA DepsInvariant == Spec => [](TypeOK /\ DepsInv)
<1>1. New => TypeOK
  BY SMTT(40), NoRowType DEF New, TypeOK, Unlocked
<1>2. New => DepsInv
  <2> SUFFICES ASSUME New PROVE DepsInv
    BY SMTT(40)
  <2>1. \A t \in TaskID : tasks[t].state = "unspecified" /\ tasks[t].deps = NoDeps
    BY DEF New, NoRow
  <2>2. \A t, d \in TaskID : tasks[t].deps[d] = "NONE"
    BY SMTT(40), <2>1 DEF NoDeps
  <2>3. IndexExact /\ BlockedOnSomething
    BY <2>1, <2>2 DEF New, IndexExact, BlockedOnSomething
  <2>4. sweep.finished = {}
    BY DEF New, Unlocked
  <2> QED
    BY <2>1, <2>2, <2>3, <2>4 DEF DepsInv, Terminal, Failed, Started
<1> QED
  BY <1>1, <1>2, TypeStep, DepsStep, PTL DEF Spec

\* Workflow safety: whatever the graph and the order in which resolutions,
\* sweeps, cancellations and purges run, a task that was not revived by an
\* operator starts only after its dependencies are decided.
THEOREM DependentsWait == Spec => []DependentsWaitForOutcome
<1>1. DepsInv => DependentsWaitForOutcome
  <2> SUFFICES ASSUME DepsInv, NEW t \in TaskID \ revived, tasks[t].state \in Started,
                      NEW d \in TaskID \ {t}, tasks[t].envelope.dependsOn[d] # "NONE"
               PROVE  Decided(d, tasks[t].envelope.dependsOn[d])
    BY SMTT(40) DEF DependentsWaitForOutcome
  <2>1. tasks[t].deps[d] = "NONE"
    BY SMTT(40) DEF DepsInv, NoDeps
  <2> QED
    BY SMTT(40), <2>1 DEF DepsInv
<1> QED
  BY <1>1, DepsInvariant, PTL

\* The reverse index stays exact for every blocked row.
THEOREM IndexAlwaysExact == Spec => []IndexExact
<1>1. DepsInv => IndexExact
  BY SMTT(40) DEF DepsInv
<1> QED
  BY <1>1, DepsInvariant, PTL

\* No resolution leaves a row blocked on nothing.
THEOREM NeverBlockedOnNothing == Spec => []BlockedOnSomething
<1>1. DepsInv => BlockedOnSomething
  BY DEF DepsInv
<1> QED
  BY <1>1, DepsInvariant, PTL

\* Rows and reverse index agree, and no row is blocked on nothing.
THEOREM DependencyGraphAlwaysSound == Spec => []DependencyGraphSound
<1>1. IndexExact /\ BlockedOnSomething => DependencyGraphSound
  BY DEF DependencyGraphSound
<1> QED
  BY <1>1, IndexAlwaysExact, NeverBlockedOnNothing, PTL

\* Rows survive while a blocked row waits for them, whether purge or an
\* operator's delete comes first.
THEOREM DependedOnRowsKept == Spec => DependedOnRowKept
<1> DEFINE Kept == \A d, w \in TaskID :
              Exists(d) /\ tasks'[d].state = "unspecified" =>
                  ~(tasks'[w].state = "blocked" /\ tasks'[w].deps[d] # "NONE")
<1>1. TypeOK /\ DepsInv /\ DepsInv' /\ Next => Kept
  <2> SUFFICES ASSUME TypeOK, DepsInv, DepsInv', Next,
                      NEW d \in TaskID, NEW w \in TaskID,
                      Exists(d), tasks'[d].state = "unspecified",
                      tasks'[w].state = "blocked", tasks'[w].deps[d] # "NONE"
               PROVE  FALSE
    OBVIOUS
  <2>1. w \in dependents'[d]
    BY ZenonT(40) DEF DepsInv, IndexExact
  <2>2. ASSUME Quiet PROVE FALSE
    BY ZenonT(40), <2>2 DEF Quiet, Exists
  <2>3. ASSUME ~sweep.held, Clients PROVE FALSE
    <3> PICK E : E \subseteq Envelopes /\ applyStaged(E)
      BY Zenon, <2>3, ConstantsAssumption DEF Clients, Enqueue, EnqueueBatch, fresh
    <3>1. tasks'[d] = tasks[d] \/ \E e \in Envelopes : tasks'[d] = stageEnqueue(e)
      BY Zenon DEF applyStaged
    <3> QED
      BY <3>1, StagedFacts DEF Started, Exists
  <2>4. ASSUME ~sweep.held, Leasing PROVE FALSE
    <3> PICK S \in SUBSET TaskID :
          claim(S, leaseSeq + 1) /\ \A t \in S : tasks[t].state \in {"pending", "retry", "aggregating"}
      BY ZenonT(40), <2>4 DEF Leasing, Lease, LeaseGroup, dueTasks, groupMembers, dispatchable
    <3> QED
      BY <2>2, <2>4, ClaimQuiet
  <2>5. ASSUME ~sweep.held, LeaseHolders PROVE FALSE
    BY Zenon, <2>2, <2>5, LeaseHolderQuiet, AckBatchQuiet DEF LeaseHolders
  <2>6. ASSUME NEW f \in TaskID, resolveDependents(f) PROVE FALSE
    <3>1. tasks'[d] = resolved(d, f) /\ tasks[d] \in taskRow
      BY <2>6 DEF resolveDependents, TypeOK
    <3>2. CASE d \in cascade(f)
      BY SMTT(40), <3>1, <3>2 DEF resolved, taskRow
    <3>3. CASE d \notin cascade(f)
      BY SMTT(40), <3>1, <3>3, ResolvedFacts DEF Exists
    <3> QED
      BY <3>2, <3>3
  <2>7. ASSUME NEW limit \in Limits, PurgeTerminal(limit) PROVE FALSE
    <3>1. d \in TaskID /\ dropTerminalDependentEdges[d] = {}
      <4> PICK D \in SUBSET purgeCandidates({"completed"}), A \in SUBSET purgeCandidates(Failed) :
            tasks' = [t \in TaskID |-> IF t \in D \cup A THEN NoRow
                                      ELSE releaseLapsedUnique(tasks[t])]
        BY Zenon, <2>7 DEF PurgeTerminal
      <4>1. d \notin D \cup A => tasks'[d].state = tasks[d].state
        BY SMTT(40) DEF releaseLapsedUnique, TypeOK, taskRow
      <4>2. d \in D \cup A
        BY SMTT(40), <4>1 DEF Exists
      <4> QED
        BY <4>2 DEF purgeCandidates
    <3> QED
      BY SMTT(40), <2>1, <2>7, <3>1 DEF PurgeTerminal
  <2>8. ASSUME NEW t \in TaskID, DeleteTask(t) PROVE FALSE
    <3>1. d = t
      BY SMTT(40), <2>8 DEF DeleteTask, Exists, TypeOK
    <3>2. w # t /\ tasks[w] = tasks'[w]
      BY <2>8 DEF DeleteTask, TypeOK, NoRow
    <3>3. w \in dependents[d] /\ tasks[w].state \in Incomplete
      BY Zenon, <2>1, <2>8, <3>2 DEF DeleteTask, Incomplete
    <3> QED
      BY ZenonT(40), <2>8, <3>1, <3>3 DEF DeleteTask, hasWaitingDependents
  <2>9. ASSUME ~sweep.held, Maintenance PROVE FALSE
    BY ZenonT(40), <2>2, <2>6, <2>7, <2>9, SweepQuiet, OtherQuiet DEF Maintenance, ResolveDependents
  <2>10. ASSUME ~sweep.held, Operators PROVE FALSE
    BY ZenonT(40), <2>2, <2>8, <2>10, OperatorQuiet DEF Operators
  <2>11. ASSUME ~sweep.held, Tick PROVE FALSE
    BY <2>2, <2>11, OtherQuiet
  <2>12. ASSUME SweepResolve PROVE FALSE
    BY <2>6, <2>12 DEF SweepResolve, TypeOK
  <2>13. ASSUME SweepBackstop PROVE FALSE
    BY <2>13, BackstopIdle DEF Exists
  <2> QED
    BY SMTT(40), <2>3, <2>4, <2>5, <2>9, <2>10, <2>11, <2>12, <2>13 DEF Next
<1>2. TypeOK /\ DepsInv /\ DepsInv' /\ [Next]_vars => [Kept]_vars
  BY <1>1
<1> QED
  BY <1>2, DepsInvariant, PTL DEF Spec, DependedOnRowKept

\* Cancellation stays a pre-dispatch outcome for every row that was not
\* revived, whichever cascade, sweep or operator command cancels it.
THEOREM CanceledBeforeDispatch == Spec => NeverCanceledAfterDispatch
<1> DEFINE Safe == \A t \in TaskID \ revived :
              tasks'[t].state = "canceled" => tasks[t].state \notin {"active", "completed"}
<1>1. TypeOK /\ DepsInv /\ Next => Safe
  <2> SUFFICES ASSUME TypeOK, DepsInv, Next, NEW t \in TaskID \ revived,
                      tasks'[t].state = "canceled", tasks[t].state \in {"active", "completed"}
               PROVE  FALSE
    BY SMTT(40)
  <2>1. tasks[t].deps = NoDeps /\ tasks[t] \in taskRow
    BY DEF DepsInv, Started, TypeOK
  <2>2. ASSUME NEW f \in TaskID, resolveDependents(f) PROVE FALSE
    <3>1. t \notin cascade(f)
      BY ZenonT(40), <2>1, CascadeWaits DEF NoDeps
    <3> HIDE DEF Safe
    <3>4. tasks' = [w \in TaskID |-> resolved(w, f)]
      BY Zenon, <2>2 DEF resolveDependents
    <3>2. tasks'[t] = resolved(t, f)
      BY ZenonT(40), <3>4
    <3>3. resolved(t, f).state # tasks[t].state => tasks[t].state = "blocked"
      BY <3>1, ResolvedFacts
    <3> QED
      BY Zenon, <3>2, <3>3
  <2>3. ASSUME NEW u \in TaskID, NEW row, setRow(u, row), row.state # "canceled" PROVE FALSE
    BY SMTT(40), <2>3 DEF setRow, TypeOK
  <2>4. ASSUME Clients PROVE FALSE
    <3>0. \E E : applyStaged(E) /\ \A e \in E : ~Exists(e.id)
      <4>1. CASE \E e \in Envelopes : Enqueue(e)
        BY SMTT(40), <4>1 DEF Enqueue
      <4>2. CASE \E b \in Batches : EnqueueBatch(b)
        <5> PICK b \in Batches : EnqueueBatch(b)
          BY SMTT(40), <4>2
        <5>1. \A e \in {b[i] : i \in fresh(b)} : ~Exists(e.id)
          BY DEF fresh
        <5> QED
          BY <5>1 DEF EnqueueBatch
      <4> QED
        BY SMTT(40), <2>4, <4>1, <4>2 DEF Clients
    <3> PICK E : applyStaged(E) /\ \A e \in E : ~Exists(e.id)
      BY SMTT(40), <3>0
    <3>1. tasks'[t] = tasks[t]
      BY DEF applyStaged, Exists
    <3> QED
      BY <3>1
  <2>5. ASSUME Leasing PROVE FALSE
    <3> PICK S \in SUBSET TaskID : claim(S, leaseSeq + 1)
      BY ZenonT(40), <2>5 DEF Leasing, Lease, LeaseGroup, dueTasks, groupMembers
    <3> QED
      BY ZenonT(40), <2>1 DEF claim, taskRow
  <2>6. ASSUME LeaseHolders PROVE FALSE
    <3>1. \A row \in taskRow : archived(row).state # "canceled" /\ completed(row).state # "canceled"
      BY DEF archived, completed, taskRow
    <3>2. CASE \E S \in SUBSET TaskID : \E items \in [S -> 1..leaseSeq] : AckBatch(items)
      BY <2>1, <3>1, <3>2 DEF AckBatch
    <3>3. CASE \E u \in TaskID : \E lease \in grants[u] :
                 \/ ExtendLease(u, lease)
                 \/ SetProgress(u, lease)
                 \/ Ack(u, lease)
                 \/ \E delay \in RetryDelays : Fail(u, lease, now + delay)
                 \/ Release(u, lease)
                 \/ Archive(u, lease)
      <4> PICK u \in TaskID : \E lease \in grants[u] :
                 \/ ExtendLease(u, lease)
                 \/ SetProgress(u, lease)
                 \/ Ack(u, lease)
                 \/ \E delay \in RetryDelays : Fail(u, lease, now + delay)
                 \/ Release(u, lease)
                 \/ Archive(u, lease)
        BY <3>3
      <4> PICK lease \in grants[u] :
                 \/ ExtendLease(u, lease)
                 \/ SetProgress(u, lease)
                 \/ Ack(u, lease)
                 \/ \E delay \in RetryDelays : Fail(u, lease, now + delay)
                 \/ Release(u, lease)
                 \/ Archive(u, lease)
        BY ZenonT(40)
      <4>0. tasks[u] \in taskRow
        BY Zenon DEF TypeOK
      <4>1. CASE ExtendLease(u, lease)
        BY <2>3, <4>0, <4>1 DEF ExtendLease, activeRow, taskRow
      <4>2. CASE SetProgress(u, lease)
        BY <2>3, <4>0, <4>2 DEF SetProgress, activeRow, taskRow
      <4>3. CASE Ack(u, lease)
        BY ZenonT(40), <2>3, <3>1, <4>0, <4>3 DEF Ack
      <4>4. CASE \E delay \in RetryDelays : Fail(u, lease, now + delay)
        BY Zenon, <2>3, <4>0, <4>4 DEF Fail, taskRow
      <4>5. CASE Release(u, lease)
        BY ZenonT(40), <2>3, <4>0, <4>5 DEF Release, taskRow
      <4>6. CASE Archive(u, lease)
        BY ZenonT(40), <2>3, <3>1, <4>0, <4>6 DEF Archive
      <4> QED
        BY ZenonT(40), <4>1, <4>2, <4>3, <4>4, <4>5, <4>6
    <3> QED
      BY Zenon, <2>6, <3>2, <3>3 DEF LeaseHolders
  <2>7. ASSUME NEW limit \in Limits,
               \/ ReapExpiredLeases(limit)
               \/ PromoteScheduled(limit)
               \/ ArchiveExpired(limit)
        PROVE  FALSE
    <3>1. tasks'[t].state \in {tasks[t].state, reap(tasks[t]).state, promote(tasks[t]).state,
                               archived(tasks[t]).state}
      BY ZenonT(40), <2>7 DEF ReapExpiredLeases, PromoteScheduled, ArchiveExpired, setRows
    <3> QED
      BY <2>1, <3>1, SweepRowFacts
  <2>8. ASSUME NEW limit \in Limits, PurgeTerminal(limit) PROVE FALSE
    <3>1. tasks'[t] \in {NoRow, releaseLapsedUnique(tasks[t])}
      BY SMTT(40), <2>8 DEF PurgeTerminal
    <3> QED
      BY SMTT(40), <2>1, <3>1 DEF NoRow, releaseLapsedUnique, taskRow
  <2>9. ASSUME Maintenance PROVE FALSE
    <3>1. ASSUME NEW limit \in Limits, PromoteReadyDependents(limit) PROVE FALSE
      BY <3>1 DEF PromoteReadyDependents
    <3> QED
      BY SMTT(40), <2>2, <2>7, <2>8, <2>9, <3>1 DEF Maintenance, ResolveDependents
  <2>10. ASSUME Operators PROVE FALSE
    <3>0. \A u \in TaskID : tasks[u] \in taskRow
      BY DEF TypeOK
    <3>1. ASSUME NEW u \in TaskID, CancelTask(u) PROVE FALSE
      BY SMTT(40), <2>1, <3>0, <3>1 DEF CancelTask, setRow, Incomplete, TypeOK
    <3>2. ASSUME NEW u \in TaskID, DeleteTask(u) PROVE FALSE
      BY <3>2 DEF DeleteTask, NoRow, TypeOK
    <3>3. ASSUME NEW u \in TaskID, RunTaskNow(u) PROVE FALSE
      BY Zenon, <2>3, <3>0, <3>3 DEF RunTaskNow, taskRow
    <3>4. ASSUME NEW u \in TaskID, \E at \in RunAts : RescheduleTask(u, at) PROVE FALSE
      BY Zenon, <2>3, <3>0, <3>4 DEF RescheduleTask, ReadyState, taskRow
    <3>5. ASSUME NEW u \in TaskID, ArchiveTask(u) PROVE FALSE
      BY ZenonT(40), <2>3, <3>0, <3>5 DEF ArchiveTask, taskRow
    <3>6. ASSUME NEW u \in TaskID, Archive(u, NoLease) PROVE FALSE
      BY Zenon, <2>3, <3>0, <3>6, SweepRowFacts DEF Archive
    <3> QED
      BY ZenonT(40), <2>10, <3>1, <3>2, <3>3, <3>4, <3>5, <3>6 DEF Operators
  <2>11. ASSUME Tick \/ SweepBackstop PROVE FALSE
    BY Zenon, <2>11, BackstopIdle DEF Tick
  <2>12. ASSUME SweepResolve PROVE FALSE
    BY <2>2, <2>12 DEF SweepResolve, TypeOK
  <2> QED
    BY SMTT(40), <2>4, <2>5, <2>6, <2>9, <2>10, <2>11, <2>12 DEF Next
<1> QED
  BY <1>1, DepsInvariant, PTL DEF Spec, NeverCanceledAfterDispatch
=============================================================================
