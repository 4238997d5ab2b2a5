------------------------ MODULE PostgresBrokerProofs ------------------------
(***************************************************************************)
(* Proofs about PostgresBroker: for any number of connections, tasks and   *)
(* any dependency graph, the statements of concurrent transactions lose no *)
(* wake-up, start no dependent early and revive nothing that is settled.   *)
(* PostgresTxnProofs has the invariant and the steps that commit nothing;  *)
(* this module has the steps that do, and the theorems.                    *)
(***************************************************************************)
EXTENDS PostgresTxnProofs

\* What others may commit while x is open: they leave the rows it holds and the
\* edges it deletes alone, take no row back to waiting, and leave a dependent it
\* has locked something to wait for.
LEMMA TxnKept ==
  ASSUME NEW T, NEW E, NEW O, NEW R, Committed(T, E, O, R), NEW x, TxnInv(x, T, E, O, R),
         NEW T2, NEW E2, NEW O2, NEW R2, Committed(T2, E2, O2, R2),
         \A t \in TaskID : O[t] \subseteq O2[t], R \subseteq R2,
         \A t \in TaskID : T[t].state \notin {"absent", "blocked"} =>
             Removed(O2, t) \/ T2[t].state \notin {"absent", "blocked"},
         \A t \in TaskID : T[t].state = "blocked" => Removed(O2, t) \/ T2[t].state # "absent",
         \A t \in lockedIn(x) : T2[t].state = T[t].state,
         x.dropped \subseteq E2,
         \A t \in x.locked : /\ ~Removed(O2, t) /\ T[t].state = "blocked"
                             /\ \E d \in TaskID : <<t, d>> \in edgesIn(x, E)
                             => \E d \in TaskID : <<t, d>> \in edgesIn(x, E2)
  PROVE  TxnInv(x, T2, E2, O2, R2)
<1>1. /\ x \in Txn /\ Modes(x) /\ Writes(x, T) /\ Inserts(x, T, O, R) /\ Drops(x, T, E, O)
      /\ Wakes(x, T, E, O) /\ Works(x, T, O)
  BY DEF TxnInv
<1>2. /\ x.rows \in [TaskID -> Row \cup {NoWrite}] /\ x.todo \in Seq(TaskID) /\ x.cancels \subseteq TaskID
      /\ x.satisfied \subseteq TaskID /\ x.dropped \subseteq Dependency /\ x.locked \subseteq TaskID
  BY <1>1 DEF Txn
<1>3. \A t \in TaskID : Removed(O, t) => Removed(O2, t)
  BY DEF Removed
<1>4. \A t \in TaskID : Plain(O2, R2, t) => Plain(O, R, t)
  BY <1>3 DEF Plain
<1>5. \A t : \A d \in TaskID : DecidedIn(x, O, t, d) => DecidedIn(x, O2, t, d)
  BY DEF DecidedIn, Decided
<1>6. \A t \in TaskID : x.rows[t] # NoWrite => T2[t].state = T[t].state
  BY DEF lockedIn
<1>7. ASSUME NEW t \in TaskID PROVE gone(x, T, O, t) => gone(x, T2, O2, t)
  BY <1>3 DEF gone, rowIn
<1>8. Writes(x, T2)
  BY <1>1, <1>6 DEF Writes
<1>9. Inserts(x, T2, O2, R2)
  <2>1. \A t \in TaskID : \A d \in deps(t) : d \in TaskID
    BY ZenonT(40), DepsAreTasks
  <2>2. x.pc = "insert" => Head(x.todo) \in TaskID
    BY <1>1, <1>2, SeqFacts DEF Modes
  <2>3. ASSUME NEW t \in TaskID, x.rows[t] # NoWrite, Plain(O2, R2, t), NEW d \in deps(t)
        PROVE  /\ x.rows[t].state \in Started => DecidedIn(x, O2, t, d)
               /\ x.rows[t].state = "blocked" /\ T2[t].state = "absent" => <<t, d>> \in x.added \/ DecidedIn(x, O2, t, d)
    <3>1. /\ x.rows[t].state \in Started => DecidedIn(x, O, t, d)
          /\ x.rows[t].state = "blocked" /\ T[t].state = "absent" => <<t, d>> \in x.added \/ DecidedIn(x, O, t, d)
      BY <1>1, <1>4, <2>3 DEF Inserts
    <3> QED
      BY SMTT(40), <1>5, <1>6, <2>1, <2>3, <3>1
  <2>4. \A t \in TaskID :
          x.rows[t] # NoWrite /\ x.rows[t].state = "blocked" /\ T2[t].state = "absent" /\ ~Removed(O2, t) =>
              \E d \in deps(t) : <<t, d>> \in x.added
    BY <1>1, <1>3, <1>6 DEF Inserts
  <2>5. ASSUME x.op = "enqueue", x.pc = "insert", ~x.cancel, NEW d \in deps(Head(x.todo))
        PROVE  d \in x.unsatisfied \/ DecidedIn(x, O2, Head(x.todo), d)
    <3>1. d \in x.unsatisfied \/ DecidedIn(x, O, Head(x.todo), d)
      BY SMTT(40), <1>1, <2>5 DEF Inserts
    <3> QED
      BY <1>5, <2>1, <2>2, <2>5, <3>1
  <2>6. /\ \A t, d \in TaskID : <<t, d>> \in x.added => x.rows[t] # NoWrite
        /\ x.op = "enqueue" /\ x.pc = "insert" => x.unsatisfied \subseteq deps(Head(x.todo))
    BY <1>1 DEF Inserts
  <2> QED
    BY ZenonT(40), <2>3, <2>4, <2>5, <2>6 DEF Inserts
<1>10. Drops(x, T2, E2, O2)
  BY <1>1, <1>5, <1>7 DEF Drops
<1>11. Wakes(x, T2, E2, O2)
  <2> SUFFICES ASSUME NEW t \in TaskID, ~Removed(O2, t), T2[t].state = "blocked", rowIn(x, T2, t).state = "blocked",
                      NEW d \in TaskID, <<t, d>> \in x.dropped
               PROVE  \/ t \in x.satisfied /\ x.pc \in {"lock", "promote"}
                      \/ t \in x.locked /\ \E u \in TaskID : <<t, u>> \in edgesIn(x, E2)
    BY DEF Wakes
  <2>1. T[t].state # "absent"
    BY SMTT(40), <1>1, <1>3 DEF Drops, Committed
  <2>2. T[t].state = "blocked"
    BY <2>1
  <2>3. rowIn(x, T, t).state = "blocked"
    BY <2>2 DEF rowIn
  <2>4. \/ t \in x.satisfied /\ x.pc \in {"lock", "promote"}
        \/ t \in x.locked /\ \E u \in TaskID : <<t, u>> \in edgesIn(x, E)
    BY <1>1, <1>3, <2>2, <2>3 DEF Wakes
  <2> QED
    BY SMTT(40), <2>2, <2>4
<1>12. Works(x, T2, O2)
  <2>1. x.pc \in {"edgesWaitingOn", "cascadeCancel", "dropDependentEdges", "dropSatisfied"} =>
          /\ x.finished \in TaskID
          /\ \E s \in O2[x.finished] \cup {y.state : y \in {x.rows[x.finished]} \cap Row} :
                IF x.failed THEN s \in Failed ELSE s = "completed"
    BY <1>1 DEF Works
  <2>2. ASSUME NEW d \in TaskID, Removed(O, d) \/ rowIn(x, T, d).state # "absent"
        PROVE  Removed(O2, d) \/ rowIn(x, T2, d).state # "absent"
    BY SMTT(40), <1>3, <2>2 DEF rowIn
  <2>3. x.pc \in {"cascadeCancel", "dropDependentEdges"} =>
          /\ x.cancels # {}
          /\ \A d \in x.cancels : Removed(O2, d) \/ rowIn(x, T2, d).state # "absent"
    BY <1>1, <1>2, <2>2 DEF Works
  <2>4. x.pc = "dropDependentEdges" => gone(x, T2, O2, Min(x.cancels))
    <3>1. x.pc = "dropDependentEdges" => Min(x.cancels) \in TaskID
      BY <1>2, <2>3, MinIn
    <3> QED
      BY SMTT(40), <1>1, <1>7, <3>1 DEF Works
  <2>5. x.pc \in {"cascadeCancel", "dropDependentEdges", "dropSatisfied"} =>
          \A d \in x.satisfied : DecidedIn(x, O2, d, x.finished)
    BY <1>1, <1>5, <2>1 DEF Works
  <2>6. x.op = "delete" /\ x.pc = "edges" => Removed(O2, Head(x.todo))
    BY <1>1, <1>2, <1>3, SeqFacts DEF Works, Modes
  <2>7. x.pc = "promote" => x.satisfied # {} /\ Min(x.satisfied) \in x.locked
    BY SMTT(40), <1>1 DEF Works
  <2> QED
    BY <2>1, <2>3, <2>4, <2>5, <2>6, <2>7 DEF Works
<1> QED
  BY <1>1, <1>8, <1>9, <1>10, <1>11, <1>12 DEF TxnInv

\* What the transactions in W keep, whatever a step commits: no row goes back to
\* waiting, and their locks are respected.
Respects(W) ==
    /\ \A t \in TaskID : outcomes[t] \subseteq outcomes'[t]
    /\ revived \subseteq revived'
    /\ \A t \in TaskID : tasks[t].state \notin {"absent", "blocked"} =>
          Removed(outcomes', t) \/ tasks'[t].state \notin {"absent", "blocked"}
    /\ \A t \in TaskID : tasks[t].state = "blocked" => Removed(outcomes', t) \/ tasks'[t].state # "absent"
    /\ \A b \in W :
          /\ \A t \in lockedIn(conn[b]) : tasks'[t].state = tasks[t].state
          /\ conn[b].dropped \subseteq edges'
          /\ \A t \in conn[b].locked :
                /\ ~Removed(outcomes', t) /\ tasks[t].state = "blocked"
                /\ \E d \in TaskID : <<t, d>> \in edgesIn(conn[b], edges)
                => \E d \in TaskID : <<t, d>> \in edgesIn(conn[b], edges')

LEMMA OthersKept ==
  ASSUME Inv, Committed(tasks', edges', outcomes', revived'), NEW W, W \subseteq Conn, Respects(W), NEW b \in W
  PROVE  TxnInv(conn[b], tasks', edges', outcomes', revived')
<1>1. Committed(tasks, edges, outcomes, revived) /\ TxnInv(conn[b], tasks, edges, outcomes, revived)
  BY DEF Inv
<1> QED
  BY SMTT(40), <1>1, TxnKept DEF Respects

\* A statement that commits by itself.
LEMMA SharedStep ==
  ASSUME Inv, conn' = conn, Committed(tasks', edges', outcomes', revived'), Respects(Conn)
  PROVE  Inv'
<1>1. ASSUME NEW b \in Conn PROVE TxnInv(conn'[b], tasks', edges', outcomes', revived')
  BY <1>1, OthersKept
<1> QED
  BY <1>1 DEF Inv

\* A connection commits, and goes on holding nothing.
LEMMA ConnStep ==
  ASSUME Inv, NEW c \in Conn, NEW y, conn' = [conn EXCEPT ![c] = y],
         Committed(tasks', edges', outcomes', revived'), Respects(Conn \ {c}),
         TxnInv(y, tasks', edges', outcomes', revived'), lockedIn(y) = {}, y.dropped = {}
  PROVE  Inv'
<1>1. conn' = [b \in Conn |-> conn'[b]] /\ conn'[c] = y /\ \A b \in Conn \ {c} : conn'[b] = conn[b]
  BY DEF Inv
<1>2. ASSUME NEW b \in Conn PROVE TxnInv(conn'[b], tasks', edges', outcomes', revived')
  <2>1. CASE b = c
    BY <1>1, <2>1
  <2>2. CASE b # c
    <3> DEFINE W == Conn \ {c}
    <3>1. W \subseteq Conn /\ Respects(W) /\ b \in W
      BY <2>2
    <3> HIDE DEF W
    <3>2. TxnInv(conn[b], tasks', edges', outcomes', revived')
      BY Zenon, <3>1, OthersKept
    <3> QED
      BY <1>1, <2>2, <3>2
  <2> QED
    BY <2>1, <2>2
<1>3. ASSUME NEW a \in Conn, NEW b \in Conn, a # b PROVE Apart(conn'[a], conn'[b])
  <2>1. CASE a # c /\ b # c
    BY <1>1, <1>3, <2>1 DEF Inv
  <2>2. CASE a = c \/ b = c
    BY SMTT(40), <1>1, <2>2 DEF Apart
  <2> QED
    BY SMTT(40), <2>1, <2>2
<1> QED
  BY <1>1, <1>2, <1>3 DEF Inv

LEMMA LockedFacts ==
  ASSUME NEW c \in Conn
  PROVE  /\ \A b \in Conn : lockedIn(conn[b]) \subseteq locked
         /\ \A b \in Conn \ {c} : /\ lockedIn(conn[b]) \subseteq lockedElsewhere(c)
                                  /\ conn[b].dropped \subseteq edgesLockedElsewhere(c)
<1>1. \A b \in Conn : lockedIn(conn[b]) = lockedBy(b)
  BY DEF lockedIn, lockedBy
<1> QED
  BY <1>1 DEF locked, lockedElsewhere, edgesLockedElsewhere

(***************************************************************************)
(* Statements on single rows                                               *)
(***************************************************************************)
\* Every one of them moves rows that exist and are not completed; one that is
\* canceled only to the dead letter, and one that waits only to an end.
Moves(S, state) ==
    /\ S \subseteq TaskID /\ state \in State \ {"absent", "blocked"}
    /\ \A t \in S : /\ tasks[t].state \notin {"absent", "completed"}
                    /\ tasks[t].state = "canceled" => state = "archived"
                    /\ state \in Started =>
                          tasks[t].state \in Started \/ (tasks[t].state = "archived" /\ state = "pending")
    /\ update(S, state)

LEMMA StatementsMove ==
  ASSUME Execution \/ Operators
  PROVE  \E S, state : Moves(S, state)
<1>1. ASSUME NEW t \in TaskID, NEW s \in State \ {"absent", "blocked"}, to(t, s),
             tasks[t].state \notin {"absent", "completed"}, tasks[t].state = "canceled" => s = "archived",
             s \in Started => tasks[t].state \in Started \/ (tasks[t].state = "archived" /\ s = "pending")
      PROVE  \E S, state : Moves(S, state)
  <2> DEFINE S == {t}
  <2>1. Moves(S, s)
    BY <1>1 DEF Moves, to
  <2> QED
    BY Zenon, <2>1
<1>2. {"active", "completed", "retry", "pending", "archived", "canceled", "scheduled"} \subseteq State \ {"absent", "blocked"}
  BY DEF State, Started, Terminal
<1>3. ASSUME NEW t \in TaskID,
             \/ Lease(t) \/ Ack(t) \/ Fail(t) \/ Release(t) \/ Archive(t) \/ ReapExpiredLeases(t)
             \/ PromoteScheduled(t) \/ ArchiveExpired(t) \/ CancelTask(t) \/ RunTaskNow(t) \/ ArchiveTask(t)
             \/ \E s \in {"scheduled", "pending"} : RescheduleTask(t, s)
      PROVE  \E S, state : Moves(S, state)
  <2>1. CASE Lease(t)
    BY <1>1, <1>2, <2>1 DEF Lease, inState, Started
  <2>2. CASE Ack(t)
    BY <1>1, <1>2, <2>2 DEF Ack, inState, Started
  <2>3. CASE Fail(t)
    BY <1>1, <1>2, <2>3 DEF Fail, inState, Started
  <2>4. CASE Release(t)
    BY <1>1, <1>2, <2>4 DEF Release, inState, Started
  <2>5. CASE Archive(t)
    BY SMTT(40), <1>1, <1>2, <2>5 DEF Archive, Started
  <2>6. CASE ReapExpiredLeases(t)
    BY <1>1, <1>2, <2>6 DEF ReapExpiredLeases, inState, Started
  <2>7. CASE PromoteScheduled(t)
    BY SMTT(40), <1>1, <1>2, <2>7 DEF PromoteScheduled, inState, Started
  <2>8. CASE ArchiveExpired(t)
    BY SMTT(40), <1>1, <1>2, <2>8 DEF ArchiveExpired, inState, Started
  <2>9. CASE CancelTask(t)
    BY <1>1, <1>2, <2>9 DEF CancelTask, inState, Started
  <2>10. CASE RunTaskNow(t)
    BY <1>1, <1>2, <2>10 DEF RunTaskNow, inState, Started
  <2>11. CASE ArchiveTask(t)
    BY <1>1, <1>2, <2>11 DEF ArchiveTask, inState, Started
  <2>12. CASE \E s \in {"scheduled", "pending"} : RescheduleTask(t, s)
    BY <1>1, <1>2, <2>12 DEF RescheduleTask, inState, Started
  <2> QED
    BY <1>3, <2>1, <2>2, <2>3, <2>4, <2>5, <2>6, <2>7, <2>8, <2>9, <2>10, <2>11, <2>12
<1>4. ASSUME NEW S \in SUBSET TaskID, LeaseGroup(S) PROVE Moves(S, "active")
  BY <1>2, <1>4 DEF LeaseGroup, Moves, inState, Started
<1>5. ASSUME NEW S \in SUBSET TaskID, AckBatch(S) PROVE Moves(S, "completed")
  BY <1>2, <1>5 DEF AckBatch, Moves, inState, Started
<1> QED
  BY <1>3, <1>4, <1>5 DEF Execution, Operators

LEMMA MovesStep ==
  ASSUME Inv, NEW S, NEW state, Moves(S, state)
  PROVE  Inv'
<1>1. /\ S \subseteq TaskID /\ state \in State /\ state \notin {"absent", "blocked"} /\ S \cap locked = {}
      /\ tasks' = [t \in TaskID |-> IF t \in S THEN [tasks[t] EXCEPT !.state = state] ELSE tasks[t]]
      /\ outcomes' = [t \in TaskID |-> outcomes[t] \cup ({tasks'[t].state} \cap Terminal)]
      /\ revived' = revived \cup {t \in TaskID : tasks[t].state = "archived" /\ tasks'[t].state = "pending"}
      /\ edges' = edges /\ conn' = conn
  BY DEF Moves, update, recorded
<1>2. Committed(tasks, edges, outcomes, revived)
  BY DEF Inv
<1>3. tasks \in [TaskID -> Row] /\ outcomes \in [TaskID -> SUBSET (Terminal \cup {"removed"})] /\ revived \subseteq TaskID
  BY <1>2 DEF Committed
<1>4. ASSUME NEW t \in TaskID
      PROVE  /\ t \in S => tasks'[t].state = state /\ tasks[t].state \notin {"absent", "completed"}
             /\ t \notin S => tasks'[t] = tasks[t]
             /\ outcomes'[t] = outcomes[t] \cup ({tasks'[t].state} \cap Terminal)
  BY <1>1, <1>3 DEF Moves, Row
<1>5. tasks' \in [TaskID -> Row]
  BY <1>1, <1>3 DEF Row
<1>6. outcomes' \in [TaskID -> SUBSET (Terminal \cup {"removed"})] /\ revived' \subseteq TaskID
  BY <1>1, <1>3
<1>7. /\ \A t \in TaskID : Removed(outcomes', t) <=> Removed(outcomes, t)
      /\ \A t \in TaskID : Plain(outcomes', revived', t) => Plain(outcomes, revived, t)
      /\ \A t : \A d \in TaskID : Decided(outcomes, t, d) => Decided(outcomes', t, d)
  BY SMTT(40), <1>1, <1>4 DEF Removed, Plain, Decided, Terminal
<1>8. Committed(tasks', edges', outcomes', revived')
  <2>1. \A t \in TaskID : tasks'[t].state = "absent" => tasks'[t].claim = "none"
    BY <1>1, <1>2, <1>4 DEF Committed
  <2>2. \A t \in TaskID : tasks'[t].state \in Terminal => tasks'[t].state \in outcomes'[t]
    BY <1>4
  <2>3. \A t, d \in TaskID : <<t, d>> \in edges' => Removed(outcomes', t) \/ tasks'[t].state # "absent"
    BY <1>1, <1>2, <1>4, <1>7 DEF Committed
  <2>4. \A t \in TaskID : tasks'[t].state = "blocked" /\ ~Removed(outcomes', t) => \E d \in TaskID : <<t, d>> \in edges'
    BY ZenonT(40), <1>1, <1>2, <1>4, <1>7 DEF Committed
  <2>5. ASSUME NEW t \in TaskID, Plain(outcomes', revived', t), NEW d \in deps(t)
        PROVE  /\ tasks'[t].state = "blocked" => <<t, d>> \in edges' \/ Decided(outcomes', t, d)
               /\ tasks'[t].state \in Started => Decided(outcomes', t, d)
    <3>1. d \in TaskID /\ Plain(outcomes, revived, t)
      BY ZenonT(40), <1>7, <2>5, DepsAreTasks
    <3>2. /\ tasks[t].state = "blocked" => <<t, d>> \in edges \/ Decided(outcomes, t, d)
          /\ tasks[t].state \in Started => Decided(outcomes, t, d)
      BY SMTT(40), <1>2, <3>1 DEF Committed
    <3>3. CASE t \notin S
      BY <1>1, <1>4, <1>7, <3>1, <3>2, <3>3
    <3>4. CASE t \in S
      <4>1. tasks'[t].state # "blocked"
        BY ZenonT(40), <1>1, <1>4, <3>4
      <4>2. ASSUME tasks'[t].state \in Started PROVE tasks[t].state \in Started
        <5>1. ~(tasks[t].state = "archived" /\ tasks'[t].state = "pending")
          BY SMTT(40), <1>1, <2>5 DEF Plain
        <5> QED
          BY <1>4, <3>4, <4>2, <5>1 DEF Moves
      <4> QED
        BY SMTT(40), <1>7, <3>1, <3>2, <4>1, <4>2
    <3> QED
      BY SMTT(40), <3>3, <3>4
  <2> QED
    BY ZenonT(40), <1>1, <1>2, <1>5, <1>6, <2>1, <2>2, <2>3, <2>4, <2>5 DEF Committed
<1>9. Respects(Conn)
  <2>1. ASSUME NEW b \in Conn PROVE lockedIn(conn[b]) \cap S = {} /\ lockedIn(conn[b]) \subseteq TaskID /\ conn[b].dropped \subseteq edges
    BY <1>1, LockedFacts DEF Inv, TxnInv, Drops, Txn, lockedIn
  <2> QED
    BY SMTT(40), <1>1, <1>4, <2>1 DEF Respects
<1> QED
  BY <1>1, <1>8, <1>9, SharedStep

LEMMA EnqueueStep ==
  ASSUME Inv, NEW t \in TaskID, Enqueue(t)
  PROVE  Inv'
<1> DEFINE new == [NoRow EXCEPT !.state = readyState(t)]
<1>1. /\ deps(t) = {} /\ t \notin locked /\ tasks[t].state = "absent"
      /\ tasks' = [tasks EXCEPT ![t] = new]
      /\ edges' = edges /\ conn' = conn /\ outcomes' = outcomes /\ revived' = revived
  BY DEF Enqueue, deps, history
<1>2. Committed(tasks, edges, outcomes, revived)
  BY DEF Inv
<1>3. tasks \in [TaskID -> Row]
  BY <1>2 DEF Committed
<1>4. readyState(t) \in {"aggregating", "scheduled", "pending"}
  BY DEF readyState
<1>5. new \in Row /\ new.state \in {"aggregating", "scheduled", "pending"}
  <2>1. NoRow \in Row
    BY DEF NoRow, Row, State
  <2> QED
    BY <1>4, <2>1 DEF Row, State, Started, Terminal
<1> HIDE DEF new
<1>6. tasks' \in [TaskID -> Row] /\ tasks'[t] = new /\ \A u \in TaskID \ {t} : tasks'[u] = tasks[u]
  BY <1>1, <1>3, <1>5
<1>7. Committed(tasks', edges', outcomes', revived')
  <2>1. \A u \in TaskID : tasks'[u].state = "absent" => tasks'[u].claim = "none"
    BY SMTT(40), <1>2, <1>5, <1>6 DEF Committed
  <2>2. \A u \in TaskID : tasks'[u].state \in Terminal => tasks'[u].state \in outcomes'[u]
    BY <1>1, <1>2, <1>5, <1>6 DEF Committed, Terminal
  <2>3. \A u, d \in TaskID : <<u, d>> \in edges' => Removed(outcomes', u) \/ tasks'[u].state # "absent"
    BY <1>1, <1>2, <1>5, <1>6 DEF Committed
  <2>4. \A u \in TaskID : tasks'[u].state = "blocked" /\ ~Removed(outcomes', u) => \E d \in TaskID : <<u, d>> \in edges'
    BY ZenonT(40), <1>1, <1>2, <1>5, <1>6 DEF Committed
  <2>5. ASSUME NEW u \in TaskID, Plain(outcomes', revived', u), NEW d \in deps(u)
        PROVE  /\ tasks'[u].state = "blocked" => <<u, d>> \in edges' \/ Decided(outcomes', u, d)
               /\ tasks'[u].state \in Started => Decided(outcomes', u, d)
    BY <1>1, <1>2, <1>6, <2>5 DEF Committed
  <2> QED
    BY ZenonT(40), <1>1, <1>2, <1>6, <2>1, <2>2, <2>3, <2>4, <2>5 DEF Committed
<1>8. Respects(Conn)
  <2>1. ASSUME NEW b \in Conn PROVE t \notin lockedIn(conn[b]) /\ lockedIn(conn[b]) \subseteq TaskID /\ conn[b].dropped \subseteq edges
    BY SMTT(40), <1>1, LockedFacts DEF Inv, TxnInv, Drops, Txn, lockedIn
  <2> QED
    BY ZenonT(40), <1>1, <1>5, <1>6, <2>1 DEF Respects
<1> QED
  BY <1>1, <1>7, <1>8, SharedStep

(***************************************************************************)
(* Claims: the state of no row changes                                     *)
(***************************************************************************)
LEMMA ClaimsCommitted ==
  ASSUME Inv, tasks' \in [TaskID -> Row], \A t \in TaskID : tasks'[t].state = tasks[t].state,
         \A t \in TaskID : tasks[t].claim = "none" => tasks'[t].claim = "none",
         edges' = edges, outcomes' = outcomes, revived' = revived
  PROVE  Committed(tasks', edges', outcomes', revived') /\ Respects(Conn)
<1>1. Committed(tasks, edges, outcomes, revived)
  BY DEF Inv
<1>2. Committed(tasks', edges', outcomes', revived')
  BY ZenonT(40), <1>1 DEF Committed
<1>3. ASSUME NEW b \in Conn PROVE lockedIn(conn[b]) \subseteq TaskID /\ conn[b].dropped \subseteq edges
  BY DEF Inv, TxnInv, Drops, Txn, lockedIn
<1> QED
  BY SMTT(40), <1>2, <1>3 DEF Respects

LEMMA LapseStep ==
  ASSUME Inv, NEW t \in TaskID, Lapse(t)
  PROVE  Inv'
<1>1. /\ tasks' = [tasks EXCEPT ![t] = [tasks[t] EXCEPT !.claim = "lapsed"]] /\ tasks[t].claim = "held"
      /\ edges' = edges /\ conn' = conn /\ outcomes' = outcomes /\ revived' = revived
  BY DEF Lapse, history
<1>2. tasks \in [TaskID -> Row]
  BY DEF Inv, Committed
<1>3. tasks' \in [TaskID -> Row]
  BY <1>1, <1>2 DEF Row
<1>4. \A u \in TaskID : tasks'[u].state = tasks[u].state /\ (tasks[u].claim = "none" => tasks'[u].claim = "none")
  BY <1>1, <1>2 DEF Row
<1> QED
  BY <1>1, <1>3, <1>4, ClaimsCommitted, SharedStep

LEMMA PurgeTerminalStep ==
  ASSUME Inv, NEW c \in Conn, PurgeTerminal(c)
  PROVE  Inv'
<1> DEFINE q == <<>>
           y == [Free EXCEPT !.op = "purge", !.pc = "edges", !.todo = q]
<1>1. /\ tasks' = [t \in TaskID |-> IF tasks[t].claim = "lapsed" THEN [tasks[t] EXCEPT !.claim = "none"] ELSE tasks[t]]
      /\ edges' = edges /\ outcomes' = outcomes /\ revived' = revived
      /\ conn' = [conn EXCEPT ![c] = [Free EXCEPT !.op = "purge", !.pc = "edges"]]
  BY DEF PurgeTerminal, history
<1>2. y = [Free EXCEPT !.op = "purge", !.pc = "edges"]
  <2>1. Free \in Txn /\ Free.todo = <<>>
    BY SMTT(40) DEF Free, Txn
  <2> QED
    BY ZenonT(40), <2>1 DEF Txn
<1>3. tasks \in [TaskID -> Row]
  BY DEF Inv, Committed
<1>4. tasks' \in [TaskID -> Row]
  BY SMTT(40), <1>1, <1>3 DEF Row
<1>5. \A u \in TaskID : tasks'[u].state = tasks[u].state /\ (tasks[u].claim = "none" => tasks'[u].claim = "none")
  BY SMTT(40), <1>1, <1>3 DEF Row
<1>6. Committed(tasks', edges', outcomes', revived') /\ Respects(Conn)
  BY <1>1, <1>4, <1>5, ClaimsCommitted
<1>7. Respects(Conn \ {c})
  BY <1>6 DEF Respects
<1>8. y = [Free EXCEPT !.op = "purge", !.pc = "edges", !.todo = q] /\ q \in Seq(TaskID)
  OBVIOUS
<1> HIDE DEF y, q
<1>9. TxnInv(y, tasks', edges', outcomes', revived') /\ lockedIn(y) = {} /\ y.dropped = {}
  BY ZenonT(40), <1>6, <1>8, BeginTxn
<1> QED
  BY ZenonT(40), <1>1, <1>2, <1>6, <1>7, <1>9, ConnStep

(***************************************************************************)
(* Deleting and purging                                                    *)
(***************************************************************************)
\* A delete or a purge keeps nothing uncommitted.
LEMMA IdleFacts ==
  ASSUME Inv, NEW c \in Conn, conn[c].op \in {"delete", "purge"}
  PROVE  /\ conn[c] = [Free EXCEPT !.op = conn[c].op, !.pc = conn[c].pc, !.todo = conn[c].todo]
         /\ conn[c].todo \in Seq(TaskID) /\ edgesSeen(c) = edges
         /\ conn[c].op = "delete" => conn[c].todo # <<>> /\ (conn[c].pc = "edges" => Removed(outcomes, Head(conn[c].todo)))
<1>1. conn[c] \in Txn /\ Modes(conn[c]) /\ Works(conn[c], tasks, outcomes)
  BY DEF Inv, TxnInv
<1>2. conn[c] = [Free EXCEPT !.op = conn[c].op, !.pc = conn[c].pc, !.todo = conn[c].todo]
  BY <1>1 DEF Modes
<1>3. conn[c].dropped = {} /\ conn[c].added = {}
  BY ZenonT(40), <1>2 DEF Free
<1> QED
  BY <1>1, <1>2, <1>3 DEF Modes, Works, Txn, edgesSeen

\* It moves on to another statement.
LEMMA IdleTxn ==
  ASSUME Inv, NEW c \in Conn, conn[c].op \in {"delete", "purge"}, Committed(tasks', edges', outcomes', revived'),
         NEW p \in {"edges", "completed", "archived"},
         conn[c].op = "delete" => p = "edges" /\ Removed(outcomes', Head(conn[c].todo)),
         NEW y, y = [conn[c] EXCEPT !.pc = p]
  PROVE  TxnInv(y, tasks', edges', outcomes', revived') /\ lockedIn(y) = {} /\ y.dropped = {}
<1> DEFINE o == conn[c].op
           q == conn[c].todo
<1>1. y = [Free EXCEPT !.op = o, !.pc = p, !.todo = q]
  BY ZenonT(40), IdleFacts DEF Free
<1>2. /\ o \in {"none", "enqueue", "resolve", "sweep", "delete", "purge"}
      /\ p \in {"idle", "read", "terminalState", "delete", "edges", "completed", "archived"}
      /\ o = "enqueue" => p = "read"
      /\ o = "delete" => q # <<>> /\ (p = "delete" \/ (p = "edges" /\ Removed(outcomes', Head(q))))
      /\ q \in Seq(TaskID)
  BY ZenonT(40), IdleFacts
<1> HIDE DEF o, q
<1> QED
  BY ZenonT(40), <1>1, <1>2, BeginTxn

\* Rows are removed, and their ids remembered.
LEMMA RemovalCommitted ==
  ASSUME Inv, NEW S, S \subseteq TaskID, NEW W, W \subseteq Conn, \A b \in W : lockedIn(conn[b]) \cap S = {},
         tasks' = [t \in TaskID |-> IF t \in S THEN NoRow ELSE tasks[t]],
         outcomes' = [t \in TaskID |-> outcomes[t] \cup IF t \in S THEN {"removed"} ELSE {}],
         edges' = edges, revived' = revived
  PROVE  Committed(tasks', edges', outcomes', revived') /\ Respects(W) /\ \A t \in S : Removed(outcomes', t)
<1>1. Committed(tasks, edges, outcomes, revived)
  BY DEF Inv
<1>2. tasks \in [TaskID -> Row] /\ outcomes \in [TaskID -> SUBSET (Terminal \cup {"removed"})]
  BY <1>1 DEF Committed
<1>3. NoRow \in Row /\ NoRow.state = "absent" /\ NoRow.claim = "none"
  BY DEF NoRow, Row, State
<1>4. tasks' \in [TaskID -> Row] /\ outcomes' \in [TaskID -> SUBSET (Terminal \cup {"removed"})]
  BY SMTT(40), <1>2, <1>3
<1>5. ASSUME NEW t \in TaskID
      PROVE  /\ t \in S => tasks'[t] = NoRow /\ Removed(outcomes', t)
             /\ t \notin S => tasks'[t] = tasks[t] /\ outcomes'[t] = outcomes[t]
             /\ outcomes[t] \subseteq outcomes'[t]
  BY DEF Removed
<1>6. /\ \A t \in TaskID : Removed(outcomes, t) => Removed(outcomes', t)
      /\ \A t : \A d \in TaskID : Decided(outcomes, t, d) => Decided(outcomes', t, d)
  BY <1>5 DEF Removed, Decided
<1>7. Committed(tasks', edges', outcomes', revived')
  <2>1. /\ \A t \in TaskID : tasks'[t].state = "absent" => tasks'[t].claim = "none"
        /\ \A t \in TaskID : tasks'[t].state \in Terminal => tasks'[t].state \in outcomes'[t]
    BY <1>1, <1>3, <1>5 DEF Committed, Terminal
  <2>2. /\ \A t, d \in TaskID : <<t, d>> \in edges' => Removed(outcomes', t) \/ tasks'[t].state # "absent"
        /\ \A t \in TaskID : tasks'[t].state = "blocked" /\ ~Removed(outcomes', t) => \E d \in TaskID : <<t, d>> \in edges'
    BY ZenonT(40), <1>1, <1>5, <1>6 DEF Committed
  <2>3. ASSUME NEW t \in TaskID, Plain(outcomes', revived', t), NEW d \in deps(t)
        PROVE  /\ tasks'[t].state = "blocked" => <<t, d>> \in edges' \/ Decided(outcomes', t, d)
               /\ tasks'[t].state \in Started => Decided(outcomes', t, d)
    <3>1. d \in TaskID /\ t \notin S /\ Plain(outcomes, revived, t)
      BY ZenonT(40), <1>5, <1>6, <2>3, DepsAreTasks DEF Plain
    <3> QED
      BY SMTT(40), <1>1, <1>5, <1>6, <3>1 DEF Committed
  <2> QED
    BY ZenonT(40), <1>1, <1>4, <2>1, <2>2, <2>3 DEF Committed
<1>8. Respects(W)
  <2>1. ASSUME NEW b \in W PROVE lockedIn(conn[b]) \subseteq TaskID /\ conn[b].dropped \subseteq edges
    BY DEF Inv, TxnInv, Drops, Txn, lockedIn
  <2> QED
    BY ZenonT(40), <1>5, <2>1 DEF Respects
<1> QED
  BY <1>5, <1>7, <1>8

LEMMA DeleteTaskStep ==
  ASSUME Inv, NEW c \in Conn, deleteTask(c)
  PROVE  Inv'
<1> DEFINE x == conn[c]
           t == Head(x.todo)
           S == {t}
           W == Conn \ {c}
           y == [x EXCEPT !.pc = "edges"]
<1>1. /\ x.op = "delete" /\ t \notin lockedElsewhere(c) /\ edges' = edges /\ revived' = revived
      /\ \/ conn' = [conn EXCEPT ![c] = Free] /\ tasks' = tasks /\ outcomes' = outcomes
         \/ /\ tasks' = [tasks EXCEPT ![t] = NoRow]
            /\ conn' = [conn EXCEPT ![c] = y]
            /\ outcomes' = [outcomes EXCEPT ![t] = outcomes[t] \cup {"removed"}]
  BY DEF deleteTask, at
<1>2. x.todo \in Seq(TaskID) /\ x.todo # <<>>
  BY ZenonT(40), <1>1, IdleFacts
<1>3. t \in TaskID
  BY SMTT(40), <1>2, SeqFacts
<1>4. CASE conn' = [conn EXCEPT ![c] = Free] /\ tasks' = tasks /\ outcomes' = outcomes
  BY ZenonT(40), <1>1, <1>4, FreeStep DEF history
<1>5. CASE /\ tasks' = [tasks EXCEPT ![t] = NoRow]
           /\ conn' = [conn EXCEPT ![c] = y]
           /\ outcomes' = [outcomes EXCEPT ![t] = outcomes[t] \cup {"removed"}]
  <2>1. tasks \in [TaskID -> Row] /\ outcomes \in [TaskID -> SUBSET (Terminal \cup {"removed"})]
    BY DEF Inv, Committed
  <2>2. /\ tasks' = [u \in TaskID |-> IF u \in S THEN NoRow ELSE tasks[u]]
        /\ outcomes' = [u \in TaskID |-> outcomes[u] \cup IF u \in S THEN {"removed"} ELSE {}]
    <3> HIDE DEF t
    <3> QED
      BY ZenonT(40), <1>3, <1>5, <2>1
  <2>3. S \subseteq TaskID /\ W \subseteq Conn /\ \A b \in W : lockedIn(conn[b]) \cap S = {}
    BY SMTT(40), <1>1, <1>3, LockedFacts
  <2>4. t \in S
    OBVIOUS
  <2> HIDE DEF S, W
  <2>5. Committed(tasks', edges', outcomes', revived') /\ Respects(W) /\ \A u \in S : Removed(outcomes', u)
    BY ZenonT(40), <1>1, <2>2, <2>3, RemovalCommitted
  <2> DEFINE p == "edges"
  <2>6. /\ conn[c].op \in {"delete", "purge"} /\ p \in {"edges", "completed", "archived"}
        /\ conn[c].op = "delete" => p = "edges" /\ Removed(outcomes', Head(conn[c].todo))
        /\ y = [conn[c] EXCEPT !.pc = p]
    BY <1>1, <2>4, <2>5
  <2> HIDE DEF p, x, y
  <2>7. TxnInv(y, tasks', edges', outcomes', revived') /\ lockedIn(y) = {} /\ y.dropped = {}
    BY ZenonT(40), <2>5, <2>6, IdleTxn
  <2>8. Respects(Conn \ {c})
    BY SMTT(40), <2>5 DEF W
  <2> QED
    BY ZenonT(40), <1>5, <2>5, <2>7, <2>8, ConnStep
<1> QED
  BY <1>1, <1>4, <1>5

\* Edges are deleted whose dependent waits no more.
LEMMA EdgesCommitted ==
  ASSUME Inv, NEW D, NEW W, W \subseteq Conn,
         \A t, d \in TaskID : <<t, d>> \in D => Removed(outcomes, t) \/ tasks[t].state # "blocked",
         \A b \in W : conn[b].dropped \cap D = {},
         edges' = edges \ D, tasks' = tasks, outcomes' = outcomes, revived' = revived
  PROVE  Committed(tasks', edges', outcomes', revived') /\ Respects(W)
<1>1. Committed(tasks, edges, outcomes, revived)
  BY DEF Inv
<1>2. Committed(tasks', edges', outcomes', revived')
  <2>1. \A t \in TaskID : tasks'[t].state = "blocked" /\ ~Removed(outcomes', t) => \E d \in TaskID : <<t, d>> \in edges'
    BY ZenonT(40), <1>1 DEF Committed
  <2>2. ASSUME NEW t \in TaskID, Plain(outcomes', revived', t), NEW d \in deps(t)
        PROVE  /\ tasks'[t].state = "blocked" => <<t, d>> \in edges' \/ Decided(outcomes', t, d)
               /\ tasks'[t].state \in Started => Decided(outcomes', t, d)
    <3>1. d \in TaskID
      BY ZenonT(40), DepsAreTasks
    <3> QED
      BY <1>1, <2>2, <3>1 DEF Committed, Plain
  <2> QED
    BY ZenonT(40), <1>1, <2>1, <2>2 DEF Committed
<1>3. Respects(W)
  <2>1. ASSUME NEW b \in W PROVE /\ lockedIn(conn[b]) \subseteq TaskID /\ conn[b].locked \subseteq lockedIn(conn[b])
                                 /\ conn[b].dropped \subseteq edges
    BY DEF Inv, TxnInv, Drops, Txn, lockedIn
  <2>2. ASSUME NEW b \in W, NEW t \in conn[b].locked, ~Removed(outcomes', t), tasks[t].state = "blocked",
               NEW d \in TaskID, <<t, d>> \in edgesIn(conn[b], edges)
        PROVE  <<t, d>> \in edgesIn(conn[b], edges')
    <3>1. t \in TaskID /\ <<t, d>> \notin D
      BY <2>1, <2>2
    <3> QED
      BY <2>2, <3>1 DEF edgesIn
  <2> QED
    BY ZenonT(40), <2>1, <2>2 DEF Respects
<1> QED
  BY <1>2, <1>3

LEMMA DeleteEdgesStep ==
  ASSUME Inv, NEW c \in Conn, deleteEdges(c)
  PROVE  Inv'
<1> DEFINE D == waitsOn(c, Head(conn[c].todo))
           W == Conn \ {c}
<1>1. /\ conn[c].op = "delete" /\ conn[c].pc = "edges" /\ D \cap edgesLockedElsewhere(c) = {}
      /\ edges' = edges \ D /\ conn' = [conn EXCEPT ![c] = Free]
      /\ tasks' = tasks /\ outcomes' = outcomes /\ revived' = revived
  BY DEF deleteEdges, at, history
<1>2. Removed(outcomes, Head(conn[c].todo))
  BY ZenonT(40), <1>1, IdleFacts
<1>3. \A t, d \in TaskID : <<t, d>> \in D => Removed(outcomes, t) \/ tasks[t].state # "blocked"
  BY <1>2 DEF waitsOn
<1>4. W \subseteq Conn /\ \A b \in W : conn[b].dropped \cap D = {}
  BY SMTT(40), <1>1, LockedFacts
<1> HIDE DEF D, W
<1>5. Committed(tasks', edges', outcomes', revived') /\ Respects(W)
  BY ZenonT(40), <1>1, <1>3, <1>4, EdgesCommitted
<1>6. TxnInv(Free, tasks', edges', outcomes', revived') /\ lockedIn(Free) = {} /\ Free.dropped = {}
  BY <1>5, FreeTxn
<1> QED
  BY ZenonT(40), <1>1, <1>5, <1>6, ConnStep DEF W

LEMMA DropTerminalDependentEdgesStep ==
  ASSUME Inv, NEW c \in Conn, dropTerminalDependentEdges(c)
  PROVE  Inv'
<1> DEFINE D == stale
           W == Conn \ {c}
           x == conn[c]
           y == [x EXCEPT !.pc = "completed"]
<1>1. /\ x.op = "purge" /\ D \cap edgesLockedElsewhere(c) = {}
      /\ edges' = edges \ D /\ conn' = [conn EXCEPT ![c] = y]
      /\ tasks' = tasks /\ outcomes' = outcomes /\ revived' = revived
  BY DEF dropTerminalDependentEdges, at, history
<1>2. \A t, d \in TaskID : <<t, d>> \in D => Removed(outcomes, t) \/ tasks[t].state # "blocked"
  BY DEF stale, Terminal
<1>3. W \subseteq Conn /\ \A b \in W : conn[b].dropped \cap D = {}
  BY <1>1, LockedFacts
<1> HIDE DEF D, W
<1>4. Committed(tasks', edges', outcomes', revived') /\ Respects(W)
  BY ZenonT(40), <1>1, <1>2, <1>3, EdgesCommitted
<1> DEFINE p == "completed"
<1>5. /\ conn[c].op \in {"delete", "purge"} /\ p \in {"edges", "completed", "archived"}
      /\ conn[c].op = "delete" => p = "edges" /\ Removed(outcomes', Head(conn[c].todo))
      /\ y = [conn[c] EXCEPT !.pc = p]
  BY <1>1
<1> HIDE DEF p, x, y
<1>6. TxnInv(y, tasks', edges', outcomes', revived') /\ lockedIn(y) = {} /\ y.dropped = {}
  BY ZenonT(40), <1>4, <1>5, IdleTxn
<1> QED
  BY ZenonT(40), <1>1, <1>4, <1>6, ConnStep DEF W

\* purge leaves locked rows alone.
LEMMA PurgeCommitted ==
  ASSUME Inv, NEW c \in Conn, NEW states, purge(c, states)
  PROVE  Committed(tasks', edges', outcomes', revived') /\ Respects(Conn)
<1>1. PICK S \in SUBSET purgeable(states) :
          /\ tasks' = [t \in TaskID |-> IF t \in S THEN NoRow ELSE tasks[t]]
          /\ outcomes' = [t \in TaskID |-> outcomes[t] \cup IF t \in S THEN {"removed"} ELSE {}]
  BY DEF purge
<1>2. S \subseteq TaskID /\ \A b \in Conn : lockedIn(conn[b]) \cap S = {}
  BY SMTT(40), <1>1, LockedFacts DEF purgeable
<1>3. edges' = edges /\ revived' = revived
  BY DEF purge
<1> QED
  BY ZenonT(40), <1>1, <1>2, <1>3, RemovalCommitted

LEMMA PurgeStep ==
  ASSUME Inv, NEW c \in Conn, purgeCompleted(c) \/ purgeArchived(c)
  PROVE  Inv'
<1> DEFINE x == conn[c]
           y == [x EXCEPT !.pc = "archived"]
<1>1. x.op = "purge" /\ (conn' = [conn EXCEPT ![c] = y] \/ conn' = [conn EXCEPT ![c] = Free])
  BY DEF purgeCompleted, purgeArchived, at
<1>2. Committed(tasks', edges', outcomes', revived') /\ Respects(Conn)
  BY PurgeCommitted DEF purgeCompleted, purgeArchived
<1>3. Respects(Conn \ {c})
  BY ZenonT(40), <1>2 DEF Respects
<1>4. CASE conn' = [conn EXCEPT ![c] = y]
  <2> DEFINE p == "archived"
  <2>1. /\ conn[c].op \in {"delete", "purge"} /\ p \in {"edges", "completed", "archived"}
        /\ conn[c].op = "delete" => p = "edges" /\ Removed(outcomes', Head(conn[c].todo))
        /\ y = [conn[c] EXCEPT !.pc = p]
    BY <1>1
  <2> HIDE DEF p, x, y
  <2>2. TxnInv(y, tasks', edges', outcomes', revived') /\ lockedIn(y) = {} /\ y.dropped = {}
    BY ZenonT(40), <1>2, <2>1, IdleTxn
  <2> QED
    BY ZenonT(40), <1>2, <1>3, <1>4, <2>2, ConnStep
<1>5. CASE conn' = [conn EXCEPT ![c] = Free]
  <2>1. TxnInv(Free, tasks', edges', outcomes', revived') /\ lockedIn(Free) = {} /\ Free.dropped = {}
    BY <1>2, FreeTxn
  <2> QED
    BY ZenonT(40), <1>2, <1>3, <1>5, <2>1, ConnStep
<1> QED
  BY <1>1, <1>4, <1>5

(***************************************************************************)
(* A transaction commits                                                   *)
(***************************************************************************)
\* At its commit a resolution has nothing left to wake: what it dropped edges of
\* and left blocked, it has locked and something else holds up.
LEMMA CommitFacts ==
  ASSUME Inv, NEW c \in Conn, Commit(c)
  PROVE  /\ Committed(tasks, edges, outcomes, revived) /\ conn[c] \in Txn
         /\ conn[c].rows \in [TaskID -> Row \cup {NoWrite}] /\ conn[c].added \subseteq Dependency
         /\ Writes(conn[c], tasks) /\ Inserts(conn[c], tasks, outcomes, revived)
         /\ Drops(conn[c], tasks, edges, outcomes)
         /\ \A t \in TaskID :
               /\ ~Removed(outcomes, t) /\ tasks[t].state = "blocked" /\ rowIn(conn[c], tasks, t).state = "blocked"
               /\ \E d \in TaskID : <<t, d>> \in conn[c].dropped
               => t \in conn[c].locked /\ \E d \in TaskID : <<t, d>> \in edgesIn(conn[c], edges)
         /\ tasks' = [t \in TaskID |-> rowIn(conn[c], tasks, t)]
         /\ edges' = edgesIn(conn[c], edges)
         /\ conn' = [conn EXCEPT ![c] = Free]
         /\ outcomes' = [t \in TaskID |-> outcomes[t] \cup ({tasks'[t].state} \cap Terminal)]
         /\ revived' = revived \cup {t \in TaskID : tasks[t].state = "archived" /\ tasks'[t].state = "pending"}
<1>1. Committed(tasks, edges, outcomes, revived) /\ TxnInv(conn[c], tasks, edges, outcomes, revived)
  BY DEF Inv
<1>2. /\ conn[c] \in Txn /\ Writes(conn[c], tasks) /\ Inserts(conn[c], tasks, outcomes, revived)
      /\ Drops(conn[c], tasks, edges, outcomes) /\ Wakes(conn[c], tasks, edges, outcomes)
  BY <1>1 DEF TxnInv
<1>3. conn[c].pc \notin {"lock", "promote"}
  BY DEF Commit, at
<1>4. \A t \in TaskID :
         /\ ~Removed(outcomes, t) /\ tasks[t].state = "blocked" /\ rowIn(conn[c], tasks, t).state = "blocked"
         /\ \E d \in TaskID : <<t, d>> \in conn[c].dropped
         => t \in conn[c].locked /\ \E d \in TaskID : <<t, d>> \in edgesIn(conn[c], edges)
  BY SMTT(40), <1>2, <1>3 DEF Wakes
<1>5. /\ tasks' = [t \in TaskID |-> row(c, t)] /\ edges' = edgesSeen(c) /\ conn' = [conn EXCEPT ![c] = Free]
      /\ outcomes' = [t \in TaskID |-> outcomes[t] \cup ({tasks'[t].state} \cap Terminal)]
      /\ revived' = revived \cup {t \in TaskID : tasks[t].state = "archived" /\ tasks'[t].state = "pending"}
  BY DEF Commit, commit, recorded
<1>6. tasks' = [t \in TaskID |-> rowIn(conn[c], tasks, t)] /\ edges' = edgesIn(conn[c], edges)
  BY <1>5 DEF row, rowIn, edgesSeen, edgesIn
<1>7. conn[c].rows \in [TaskID -> Row \cup {NoWrite}] /\ conn[c].added \subseteq Dependency
  BY <1>2 DEF Txn
<1> QED
  BY ZenonT(40), <1>1, <1>2, <1>4, <1>5, <1>6, <1>7

LEMMA CommitCommitted ==
  ASSUME Inv, NEW c \in Conn, Commit(c)
  PROVE  Committed(tasks', edges', outcomes', revived')
<1> DEFINE x == conn[c]
<1>1. /\ Committed(tasks, edges, outcomes, revived)
      /\ x.rows \in [TaskID -> Row \cup {NoWrite}] /\ x.added \subseteq Dependency
      /\ Writes(x, tasks) /\ Inserts(x, tasks, outcomes, revived) /\ Drops(x, tasks, edges, outcomes)
      /\ \A t \in TaskID :
            /\ ~Removed(outcomes, t) /\ tasks[t].state = "blocked" /\ rowIn(x, tasks, t).state = "blocked"
            /\ \E d \in TaskID : <<t, d>> \in x.dropped
            => t \in x.locked /\ \E d \in TaskID : <<t, d>> \in edgesIn(x, edges)
      /\ tasks' = [t \in TaskID |-> rowIn(x, tasks, t)]
      /\ edges' = edgesIn(x, edges)
      /\ outcomes' = [t \in TaskID |-> outcomes[t] \cup ({tasks'[t].state} \cap Terminal)]
      /\ revived' = revived \cup {t \in TaskID : tasks[t].state = "archived" /\ tasks'[t].state = "pending"}
  BY ZenonT(40), CommitFacts
<1> HIDE DEF x
<1>2. /\ tasks \in [TaskID -> Row] /\ outcomes \in [TaskID -> SUBSET (Terminal \cup {"removed"})]
      /\ edges \subseteq Dependency /\ revived \subseteq TaskID
  BY ZenonT(40), <1>1 DEF Committed
<1>3. ASSUME NEW t \in TaskID
      PROVE  /\ x.rows[t] = NoWrite => tasks'[t] = tasks[t]
             /\ x.rows[t] # NoWrite => tasks'[t] = x.rows[t] /\ tasks'[t].state # "absent"
             /\ tasks'[t] = rowIn(x, tasks, t) /\ tasks'[t] \in Row
             /\ outcomes'[t] = outcomes[t] \cup ({tasks'[t].state} \cap Terminal)
  BY ZenonT(40), <1>1, <1>2 DEF rowIn, Writes
<1>4. /\ tasks' \in [TaskID -> Row] /\ outcomes' \in [TaskID -> SUBSET (Terminal \cup {"removed"})]
      /\ edges' \subseteq Dependency /\ revived' \subseteq TaskID
  BY <1>1, <1>2, <1>3 DEF edgesIn
<1>5. /\ \A t \in TaskID : Removed(outcomes', t) <=> Removed(outcomes, t)
      /\ \A t \in TaskID : Plain(outcomes', revived', t) => Plain(outcomes, revived, t)
  BY <1>1, <1>3 DEF Removed, Plain, Terminal
<1>6. ASSUME NEW t, NEW d \in TaskID, DecidedIn(x, outcomes, t, d) PROVE Decided(outcomes', t, d)
  <2>1. CASE Decided(outcomes, t, d)
    BY <1>3, <2>1 DEF Decided
  <2>2. CASE x.rows[d] # NoWrite /\ accepts(x.rows[d].state, t, d)
    <3>1. x.rows[d].state \in Terminal
      BY SMTT(40), <2>2 DEF accepts, Terminal, Failed
    <3>2. x.rows[d].state \in outcomes'[d]
      BY SMTT(40), <1>3, <2>2, <3>1
    <3> QED
      BY <2>2, <3>2 DEF Decided
  <2> QED
    BY <1>6, <2>1, <2>2 DEF DecidedIn
<1>7. ASSUME NEW t \in TaskID, tasks'[t].state = "blocked", tasks[t].state # "absent"
      PROVE  tasks[t].state = "blocked" /\ rowIn(x, tasks, t).state = "blocked"
  BY SMTT(40), <1>1, <1>3, <1>7 DEF Writes
<1>8. ASSUME NEW t \in TaskID, tasks'[t].state = "blocked", tasks[t].state = "absent"
      PROVE  x.rows[t] # NoWrite /\ x.rows[t].state = "blocked"
  BY <1>3, <1>8
<1>9. \A t \in TaskID : tasks'[t].state = "absent" => tasks'[t].claim = "none"
  BY ZenonT(40), <1>1, <1>3 DEF Committed
<1>10. \A t \in TaskID : tasks'[t].state \in Terminal => tasks'[t].state \in outcomes'[t]
  BY <1>3
<1>11. ASSUME NEW t \in TaskID, NEW d \in TaskID, <<t, d>> \in edges'
       PROVE  Removed(outcomes', t) \/ tasks'[t].state # "absent"
  <2>1. CASE <<t, d>> \in edges
    BY ZenonT(40), <1>1, <1>3, <1>5, <2>1 DEF Committed
  <2>2. CASE <<t, d>> \in x.added
    BY ZenonT(40), <1>1, <1>3, <2>2 DEF Inserts
  <2> QED
    BY ZenonT(40), <1>1, <1>11, <2>1, <2>2 DEF edgesIn
<1>12. ASSUME NEW t \in TaskID, tasks'[t].state = "blocked", ~Removed(outcomes', t)
       PROVE  \E d \in TaskID : <<t, d>> \in edges'
  <2>1. ~Removed(outcomes, t)
    BY SMTT(40), <1>5, <1>12
  <2>2. CASE tasks[t].state = "absent"
    <3>1. PICK d \in deps(t) : <<t, d>> \in x.added
      BY ZenonT(40), <1>1, <1>8, <1>12, <2>1, <2>2 DEF Inserts
    <3> QED
      BY ZenonT(40), <1>1, <3>1, DepsAreTasks DEF edgesIn
  <2>3. CASE tasks[t].state # "absent" /\ \E d \in TaskID : <<t, d>> \in x.dropped
    BY ZenonT(40), <1>1, <1>7, <1>12, <2>1, <2>3
  <2>4. CASE tasks[t].state # "absent" /\ \A d \in TaskID : <<t, d>> \notin x.dropped
    <3>1. PICK d \in TaskID : <<t, d>> \in edges
      BY ZenonT(40), <1>1, <1>7, <1>12, <2>1, <2>4 DEF Committed
    <3> QED
      BY ZenonT(40), <1>1, <2>4, <3>1 DEF edgesIn
  <2> QED
    BY ZenonT(40), <2>2, <2>3, <2>4
<1>13. ASSUME NEW t \in TaskID, Plain(outcomes', revived', t), NEW d \in deps(t)
       PROVE  /\ tasks'[t].state = "blocked" => <<t, d>> \in edges' \/ Decided(outcomes', t, d)
              /\ tasks'[t].state \in Started => Decided(outcomes', t, d)
  <2>1. Plain(outcomes, revived, t) /\ d \in TaskID
    BY ZenonT(40), <1>5, <1>13, DepsAreTasks
  <2>2. \A s : Decided(outcomes, s, d) => DecidedIn(x, outcomes, s, d)
    BY DEF DecidedIn
  <2>3. ASSUME tasks'[t].state = "blocked" PROVE <<t, d>> \in edges' \/ Decided(outcomes', t, d)
    <3>1. CASE tasks[t].state = "absent"
      <4>1. <<t, d>> \in x.added \/ DecidedIn(x, outcomes, t, d)
        BY ZenonT(40), <1>1, <1>8, <2>1, <2>3, <3>1 DEF Inserts
      <4> QED
        BY <1>1, <1>6, <2>1, <4>1 DEF edgesIn
    <3>2. CASE tasks[t].state # "absent"
      <4>1. tasks[t].state = "blocked" /\ rowIn(x, tasks, t).state = "blocked"
        BY <1>7, <2>3, <3>2
      <4>2. <<t, d>> \in edges \/ Decided(outcomes, t, d)
        BY ZenonT(40), <1>1, <2>1, <4>1 DEF Committed
      <4>3. CASE <<t, d>> \in x.dropped
        <5>1. ~gone(x, tasks, outcomes, t)
          BY <2>1, <4>1 DEF gone, Plain
        <5>2. DecidedIn(x, outcomes, t, d)
          BY ZenonT(40), <1>1, <2>1, <4>3, <5>1 DEF Drops
        <5> QED
          BY <1>6, <2>1, <5>2
      <4>4. CASE <<t, d>> \notin x.dropped
        BY <1>1, <1>6, <2>1, <2>2, <4>2, <4>4 DEF edgesIn
      <4> QED
        BY <4>3, <4>4
    <3> QED
      BY <3>1, <3>2
  <2>4. ASSUME tasks'[t].state \in Started PROVE Decided(outcomes', t, d)
    <3>1. CASE x.rows[t] = NoWrite
      <4>1. Decided(outcomes, t, d)
        BY ZenonT(40), <1>1, <1>3, <2>1, <2>4, <3>1 DEF Committed
      <4> QED
        BY <1>6, <2>1, <2>2, <4>1
    <3>2. CASE x.rows[t] # NoWrite
      <4>1. DecidedIn(x, outcomes, t, d)
        BY ZenonT(40), <1>1, <1>3, <2>1, <2>4, <3>2 DEF Inserts
      <4> QED
        BY <1>6, <2>1, <4>1
    <3> QED
      BY SMTT(40), <3>1, <3>2
  <2> QED
    BY SMTT(40), <2>3, <2>4
<1> QED
  BY ZenonT(40), <1>4, <1>9, <1>10, <1>11, <1>12, <1>13 DEF Committed

LEMMA CommitStep ==
  ASSUME Inv, NEW c \in Conn, Commit(c)
  PROVE  Inv'
<1> DEFINE x == conn[c]
<1>1. /\ Committed(tasks, edges, outcomes, revived)
      /\ x.rows \in [TaskID -> Row \cup {NoWrite}]
      /\ Writes(x, tasks)
      /\ \A t \in TaskID :
            /\ ~Removed(outcomes, t) /\ tasks[t].state = "blocked" /\ rowIn(x, tasks, t).state = "blocked"
            /\ \E d \in TaskID : <<t, d>> \in x.dropped
            => t \in x.locked /\ \E d \in TaskID : <<t, d>> \in edgesIn(x, edges)
      /\ tasks' = [t \in TaskID |-> rowIn(x, tasks, t)]
      /\ edges' = edgesIn(x, edges)
      /\ conn' = [conn EXCEPT ![c] = Free]
      /\ outcomes' = [t \in TaskID |-> outcomes[t] \cup ({tasks'[t].state} \cap Terminal)]
      /\ revived' = revived \cup {t \in TaskID : tasks[t].state = "archived" /\ tasks'[t].state = "pending"}
  BY ZenonT(40), CommitFacts
<1>2. Committed(tasks', edges', outcomes', revived')
  BY SMTT(40), CommitCommitted
<1>3. Respects(Conn \ {c})
  <2>1. \A t \in TaskID : outcomes[t] \subseteq outcomes'[t]
    BY ZenonT(40), <1>1
  <2>2. \A t \in TaskID : tasks'[t] = rowIn(x, tasks, t) /\ (Removed(outcomes, t) => Removed(outcomes', t))
    BY <1>1 DEF Removed
  <2>3. \A t \in TaskID : /\ tasks[t].state \notin {"absent", "blocked"} => tasks'[t].state = tasks[t].state
                          /\ tasks[t].state = "blocked" => tasks'[t].state # "absent"
    BY ZenonT(40), <1>1, <2>2 DEF rowIn, Writes
  <2>4. ASSUME NEW b \in Conn \ {c}
        PROVE  /\ \A t \in lockedIn(conn[b]) : tasks'[t].state = tasks[t].state
               /\ conn[b].dropped \subseteq edges'
               /\ \A t \in conn[b].locked :
                     /\ ~Removed(outcomes', t) /\ tasks[t].state = "blocked"
                     /\ \E d \in TaskID : <<t, d>> \in edgesIn(conn[b], edges)
                     => \E d \in TaskID : <<t, d>> \in edgesIn(conn[b], edges')
    <3>1. TxnInv(conn[b], tasks, edges, outcomes, revived) /\ Apart(conn[b], x)
      BY DEF Inv
    <3>2. /\ conn[b] \in Txn /\ Modes(conn[b]) /\ conn[b].dropped \subseteq edges
          /\ lockedIn(conn[b]) \cap lockedIn(x) = {} /\ conn[b].dropped \cap x.dropped = {}
      BY ZenonT(40), <3>1 DEF TxnInv, Apart, Drops
    <3>3. conn[b].locked \subseteq TaskID /\ conn[b].locked \subseteq lockedIn(conn[b]) /\ lockedIn(conn[b]) \subseteq TaskID
      BY SMTT(40), <3>2 DEF Txn, lockedIn
    <3> HIDE DEF x
    <3>4. \A t \in lockedIn(conn[b]) : x.rows[t] = NoWrite /\ t \notin x.locked
      BY <3>2, <3>3 DEF lockedIn
    <3>5. \A t \in lockedIn(conn[b]) : tasks'[t] = tasks[t]
      BY SMTT(40), <2>2, <3>3, <3>4 DEF rowIn
    <3>6. conn[b].dropped \subseteq edges'
      BY <1>1, <3>2 DEF edgesIn
    <3>7. ASSUME NEW t \in conn[b].locked, ~Removed(outcomes', t), tasks[t].state = "blocked",
                 NEW d \in TaskID, <<t, d>> \in edgesIn(conn[b], edges)
          PROVE  <<t, d>> \in edgesIn(conn[b], edges')
      <4>1. conn[b].op \notin {"none", "delete", "purge", "enqueue"}
        BY ZenonT(40), <3>2, <3>7 DEF Modes, Free
      <4>2. conn[b].added = {}
        BY <3>2, <4>1 DEF Modes, Txn
      <4>3. <<t, d>> \notin x.dropped
        <5>1. t \in TaskID /\ ~Removed(outcomes, t) /\ rowIn(x, tasks, t).state = "blocked" /\ t \notin x.locked
          BY <2>2, <3>3, <3>4, <3>7 DEF rowIn
        <5> QED
          BY ZenonT(40), <1>1, <3>7, <5>1
      <4> QED
        BY <1>1, <3>7, <4>2, <4>3 DEF edgesIn
    <3> QED
      BY <3>5, <3>6, <3>7
  <2>5. revived \subseteq revived'
    BY SMTT(40), <1>1
  <2> QED
    BY SMTT(40), <2>1, <2>3, <2>4, <2>5 DEF Respects
<1>4. TxnInv(Free, tasks', edges', outcomes', revived') /\ lockedIn(Free) = {} /\ Free.dropped = {}
  BY <1>2, FreeTxn
<1> QED
  BY ZenonT(40), <1>1, <1>2, <1>3, <1>4, ConnStep

(***************************************************************************)
(* The theorems                                                            *)
(***************************************************************************)
LEMMA InvInit == Init => Inv
<1> SUFFICES ASSUME Init PROVE Inv
  OBVIOUS
<1>1. Committed(tasks, edges, outcomes, revived)
  <2>1. NoRow \in Row /\ NoRow.state = "absent" /\ NoRow.claim = "none"
    BY DEF NoRow, Row, State
  <2> QED
    BY <2>1 DEF Init, Committed, Terminal, Started
<1>2. TxnInv(Free, tasks, edges, outcomes, revived) /\ lockedIn(Free) = {} /\ Free.dropped = {}
  BY SMTT(40), <1>1, FreeTxn
<1>3. conn = [c \in Conn |-> conn[c]] /\ \A c \in Conn : conn[c] = Free
  BY DEF Init
<1> QED
  BY <1>1, <1>2, <1>3 DEF Inv, Apart

\* The steps of a connection that commit nothing.
LEMMA UncommittedStep ==
  ASSUME Inv, NEW c \in Conn,
         \/ \E b \in Seq(TaskID) \ {<<>>} : enqueueWithEdges(c, b)
         \/ resolveInitialDeps(c) \/ insertTask(c)
         \/ \E t \in TaskID : ResolveDependents(c, t)
         \/ PromoteReadyDependents(c)
         \/ terminalState(c) \/ edgesWaitingOn(c) \/ cascadeCancel(c) \/ dropDependentEdges(c)
         \/ dropSatisfiedEdges(c) \/ lockBlockedDependent(c) \/ promoteDependent(c)
         \/ promoteOrphanBlocked(c)
         \/ \E t \in TaskID : DeleteTask(c, t)
         \/ Rollback(c)
  PROVE  Inv' /\ tasks' = tasks
<1>1. Inv'
  BY BeginSteps, ResolveInitialDepsStep, InsertTaskStep, TerminalStateStep, EdgesWaitingOnStep, CascadeCancelStep,
     DropDependentEdgesStep, DropSatisfiedEdgesStep, LockBlockedDependentStep, PromoteDependentStep,
     PromoteOrphanBlockedStep, RollbackStep
<1>2. tasks' = tasks
  BY ZenonT(40) DEF enqueueWithEdges, resolveInitialDeps, insertTask, ResolveDependents, PromoteReadyDependents, terminalState,
         edgesWaitingOn, cascadeCancel, dropDependentEdges, dropSatisfiedEdges, lockBlockedDependent,
         promoteDependent, promoteOrphanBlocked, DeleteTask, Rollback, rollback
<1> QED
  BY SMTT(40), <1>1, <1>2

\* A settled row stays as it is, is dead-lettered if it was canceled, or goes.
Settled(t) ==
    /\ tasks[t].state = "completed" => tasks'[t].state \in {"completed", "absent"}
    /\ tasks[t].state = "canceled" => tasks'[t].state \in {"canceled", "archived", "absent"}

LEMMA NextStep ==
  ASSUME Inv, Next
  PROVE  Inv' /\ \A t \in TaskID : Settled(t)
<1> DEFINE Good == Inv' /\ \A t \in TaskID : Settled(t)
<1>1. tasks \in [TaskID -> Row]
  BY DEF Inv, Committed
<1>2. ASSUME NEW t \in TaskID, Enqueue(t) PROVE Good
  <2>1. \A u \in TaskID : tasks[u].state \in {"completed", "canceled"} => tasks'[u] = tasks[u]
    BY SMTT(40), <1>1, <1>2 DEF Enqueue
  <2> QED
    BY SMTT(40), <1>2, <2>1, EnqueueStep DEF Settled
<1>3. ASSUME NEW c \in Conn, Commit(c) PROVE Good
  <2>1. \A u \in TaskID : tasks[u].state \in {"completed", "canceled"} => tasks'[u].state = tasks[u].state
    BY ZenonT(40), <1>3, CommitFacts DEF rowIn, Writes
  <2> QED
    BY <1>3, <2>1, CommitStep DEF Settled
<1>4. ASSUME NEW c \in Conn, deleteTask(c) \/ deleteEdges(c) PROVE Good
  <2>1. \A u \in TaskID : tasks'[u] = tasks[u] \/ tasks'[u].state = "absent"
    BY SMTT(40), <1>1, <1>4 DEF deleteTask, deleteEdges, NoRow
  <2> QED
    BY <1>4, <2>1, DeleteTaskStep, DeleteEdgesStep DEF Settled
<1>5. ASSUME NEW c \in Conn,
             PurgeTerminal(c) \/ dropTerminalDependentEdges(c) \/ purgeCompleted(c) \/ purgeArchived(c)
      PROVE  Good
  <2>1. \A u \in TaskID : tasks'[u].state \in {tasks[u].state, "absent"}
    <3>1. CASE PurgeTerminal(c)
      BY SMTT(40), <1>1, <3>1 DEF PurgeTerminal, Row
    <3>2. CASE dropTerminalDependentEdges(c)
      BY <3>2 DEF dropTerminalDependentEdges
    <3>3. CASE purgeCompleted(c) \/ purgeArchived(c)
      BY <3>3 DEF purgeCompleted, purgeArchived, purge, NoRow
    <3> QED
      BY <1>5, <3>1, <3>2, <3>3
  <2> QED
    BY SMTT(40), <1>5, <2>1, PurgeTerminalStep, DropTerminalDependentEdgesStep, PurgeStep DEF Settled
<1>6. ASSUME Execution \/ Operators PROVE Good
  <2>1. PICK S, state : Moves(S, state)
    BY <1>6, StatementsMove
  <2>2. \A u \in TaskID : Settled(u)
    BY <1>1, <2>1 DEF Moves, update, Settled, Row
  <2> QED
    BY SMTT(40), <2>1, <2>2, MovesStep
<1>7. ASSUME NEW t \in TaskID, Lapse(t) PROVE Good
  <2>1. \A u \in TaskID : tasks'[u].state = tasks[u].state
    BY <1>1, <1>7 DEF Lapse, Row
  <2> QED
    BY <1>7, <2>1, LapseStep DEF Settled
<1>8. ASSUME Inv', tasks' = tasks PROVE Good
  BY SMTT(40), <1>8 DEF Settled
<1>9. ASSUME Enqueueing(Seq(TaskID) \ {<<>>}) PROVE Good
  BY <1>2, <1>8, <1>9, UncommittedStep DEF Enqueueing
<1>10. ASSUME Resolution PROVE Good
  BY <1>3, <1>8, <1>10, UncommittedStep DEF Resolution
<1>11. ASSUME Deletion PROVE Good
  BY <1>4, <1>8, <1>11, UncommittedStep DEF Deletion
<1>12. ASSUME NEW c \in Conn, Rollback(c) PROVE Good
  BY <1>8, <1>12, UncommittedStep
<1> QED
  BY <1>5, <1>6, <1>7, <1>9, <1>10, <1>11, <1>12 DEF Next, Purging

LEMMA InvStep == Inv /\ [Next]_vars => Inv' /\ \A t \in TaskID : Settled(t)
<1> SUFFICES ASSUME Inv, [Next]_vars PROVE Inv' /\ \A t \in TaskID : Settled(t)
  OBVIOUS
<1>1. CASE Next
  BY <1>1, NextStep
<1>2. CASE UNCHANGED vars
  <2>1. tasks' = tasks /\ edges' = edges /\ conn' = conn /\ outcomes' = outcomes /\ revived' = revived
    BY SMTT(40), <1>2 DEF vars, history
  <2>2. Inv'
    BY <2>1 DEF Inv
  <2> QED
    BY <2>1, <2>2 DEF Settled
<1> QED
  BY <1>1, <1>2

LEMMA InvWaits == Inv => WaitsExactly
<1> SUFFICES ASSUME Inv PROVE WaitsExactly
  OBVIOUS
<1>1. Committed(tasks, edges, outcomes, revived)
  BY DEF Inv
<1>2. TypeOK
  <2>1. ASSUME NEW c \in Conn
        PROVE  /\ conn[c].rows \in [TaskID -> Row \cup {NoWrite}]
               /\ conn[c].added \cup conn[c].dropped \subseteq TaskID \X TaskID
               /\ conn[c].dropped \subseteq edges
    BY DEF Inv, TxnInv, Drops, Txn, Dependency
  <2> QED
    BY ZenonT(40), <1>1, <2>1 DEF TypeOK, Committed, Dependency
<1>3. BlockedOnSomething
  BY ZenonT(40), <1>1 DEF BlockedOnSomething, Committed, Removed
<1>4. DependentsWaitForOutcome
  <2> SUFFICES ASSUME NEW t \in TaskID, t \notin revived, "removed" \notin outcomes[t], tasks[t].state \in Started,
                      NEW d \in DOMAIN options[t].dependsOn
               PROVE  \E s \in outcomes[d] : accepts(s, t, d)
    BY DEF DependentsWaitForOutcome
  <2> QED
    BY SMTT(40), <1>1 DEF Committed, Plain, Removed, Decided, deps
<1> QED
  BY <1>2, <1>3, <1>4 DEF WaitsExactly

\* For any pool of connections, tasks and dependency graph: a row is committed
\* as blocked only while an edge of it is, and as started only once each of its
\* dependencies had an outcome its policy accepts.  No interleaving of resolvers
\* loses the wake-up that lockBlockedDependentQuery is there for, and neither an
\* enqueue, a cascade nor the sweep of orphans starts a dependent early.
THEOREM WaitsAlwaysExactly == Spec => []WaitsExactly
<1>1. Inv /\ [Next]_vars => Inv'
  BY InvStep
<1> QED
  BY <1>1, InvInit, InvWaits, PTL DEF Spec

\* A transaction that read a row before it was settled and commits after never
\* puts it back to work: completed stays until the row goes, and canceled until
\* it goes or is dead-lettered.
THEOREM SettledAlwaysStays == Spec => SettledStays
<1>1. Inv /\ [Next]_vars => Inv'
  BY InvStep
<1>2. Inv /\ [Next]_vars =>
        [\A t \in TaskID :
            /\ tasks[t].state = "completed" => tasks'[t].state \in {"completed", "absent"}
            /\ tasks[t].state = "canceled" => tasks'[t].state \in {"canceled", "archived", "absent"}]_vars
  BY InvStep DEF Settled
<1> QED
  BY <1>1, <1>2, InvInit, PTL DEF Spec, SettledStays
=============================================================================
