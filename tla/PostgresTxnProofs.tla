------------------------- MODULE PostgresTxnProofs -------------------------
(***************************************************************************)
(* The inductive invariant of PostgresBroker, and the steps of a           *)
(* transaction before it commits: what a connection has read, locked and   *)
(* written stays consistent with what is committed.                        *)
(***************************************************************************)
EXTENDS PostgresBroker, TLAPS, WellFoundedInduction

(***************************************************************************)
(* The inductive invariant.  It is stated of a connection x over committed *)
(* rows T, edges E and history O, R, so that a step of one connection      *)
(* leaves the facts about the others as they are.                          *)
(***************************************************************************)
deps(t) == DOMAIN options[t].dependsOn
Dependency == {e \in TaskID \X TaskID : e[2] \in deps(e[1])}

\* The id has not been used twice, nor taken out of the dead letter.
Removed(O, t) == "removed" \in O[t]
Plain(O, R, t) == ~Removed(O, t) /\ t \notin R

\* The dependency d of t has had an outcome that satisfies it, or will have had
\* it when x commits.
Decided(O, t, d) == \E s \in O[d] : accepts(s, t, d)
DecidedIn(x, O, t, d) == Decided(O, t, d) \/ (x.rows[d] # NoWrite /\ accepts(x.rows[d].state, t, d))

\* What x sees, and what it keeps others from writing.
rowIn(x, T, t) == IF x.rows[t] = NoWrite THEN T[t] ELSE x.rows[t]
edgesIn(x, E) == (E \ x.dropped) \cup x.added
lockedIn(x) == x.locked \cup {t \in TaskID : x.rows[t] # NoWrite}
gone(x, T, O, t) == Removed(O, t) \/ rowIn(x, T, t).state \notin {"absent", "blocked"}

Txn == [op : {"none", "enqueue", "resolve", "sweep", "delete", "purge"},
        pc : {"idle", "read", "insert", "terminalState", "edgesWaitingOn", "cascadeCancel",
              "dropDependentEdges", "dropSatisfied", "lock", "promote", "commit",
              "delete", "edges", "completed", "archived"},
        todo : Seq(TaskID), seen : SUBSET TaskID, finished : TaskID \cup {0}, failed : BOOLEAN,
        unsatisfied : SUBSET TaskID, cancel : BOOLEAN, cancels : SUBSET TaskID, satisfied : SUBSET TaskID,
        rows : [TaskID -> Row \cup {NoWrite}], locked : SUBSET TaskID,
        dropped : SUBSET Dependency, added : SUBSET Dependency]

\* What an operation writes: only enqueues add edges, only resolutions drop them
\* and lock rows, and deletes and purges keep nothing uncommitted.
Modes(x) ==
    /\ x.op \in {"none", "delete", "purge"} => x = [Free EXCEPT !.op = x.op, !.pc = x.pc, !.todo = x.todo]
    /\ x.op \in {"resolve", "sweep"} => x.added = {}
    /\ x.op = "enqueue" => x.dropped = {} /\ x.locked = {} /\ x.pc \in {"read", "insert"}
    /\ x.op = "delete" => x.pc \in {"delete", "edges"} /\ x.todo # <<>>
    /\ x.pc = "insert" => x.todo # <<>>

\* A transaction writes a row that is committed in some state only from there:
\* it inserts what is absent, and moves on what is blocked.
Writes(x, T) ==
    \A t \in TaskID : x.rows[t] # NoWrite =>
        /\ x.rows[t].state # "absent"
        /\ T[t].state \notin {"absent", "blocked"} => x.rows[t].state = T[t].state
        /\ T[t].state = "absent" => x.op = "enqueue"

\* A row it wrote as started has its dependencies decided, and one it inserted
\* as blocked has an edge for each that is not.
Inserts(x, T, O, R) ==
    /\ \A t \in TaskID : x.rows[t] # NoWrite /\ Plain(O, R, t) =>
          /\ x.rows[t].state \in Started => \A d \in deps(t) : DecidedIn(x, O, t, d)
          /\ x.rows[t].state = "blocked" /\ T[t].state = "absent" =>
                \A d \in deps(t) : <<t, d>> \in x.added \/ DecidedIn(x, O, t, d)
    /\ \A t \in TaskID :
          x.rows[t] # NoWrite /\ x.rows[t].state = "blocked" /\ T[t].state = "absent" /\ ~Removed(O, t) =>
              \E d \in deps(t) : <<t, d>> \in x.added
    /\ \A t, d \in TaskID : <<t, d>> \in x.added => x.rows[t] # NoWrite
    /\ x.op = "enqueue" /\ x.pc = "insert" /\ ~x.cancel =>
          \A d \in deps(Head(x.todo)) : d \in x.unsatisfied \/ DecidedIn(x, O, Head(x.todo), d)
    /\ x.op = "enqueue" /\ x.pc = "insert" => x.unsatisfied \subseteq deps(Head(x.todo))

\* An edge it dropped was satisfied, or its dependent no longer waits.
Drops(x, T, E, O) ==
    /\ x.dropped \subseteq E
    /\ \A t, d \in TaskID : <<t, d>> \in x.dropped => gone(x, T, O, t) \/ DecidedIn(x, O, t, d)

\* A dependent that lost an edge to x is one x has yet to look at, or is locked
\* by x and waits for something else.
Wakes(x, T, E, O) ==
    \A t \in TaskID :
        /\ ~Removed(O, t) /\ T[t].state = "blocked" /\ rowIn(x, T, t).state = "blocked"
        /\ \E d \in TaskID : <<t, d>> \in x.dropped
        => \/ t \in x.satisfied /\ x.pc \in {"lock", "promote"}
           \/ t \in x.locked /\ \E d \in TaskID : <<t, d>> \in edgesIn(x, E)

\* Where x is in its worklist.
Works(x, T, O) ==
    /\ x.pc \in {"edgesWaitingOn", "cascadeCancel", "dropDependentEdges", "dropSatisfied"} =>
          /\ x.finished \in TaskID
          /\ \E s \in O[x.finished] \cup {y.state : y \in {x.rows[x.finished]} \cap Row} :
                IF x.failed THEN s \in Failed ELSE s = "completed"
    /\ x.pc \in {"cascadeCancel", "dropDependentEdges"} =>
          /\ x.cancels # {}
          /\ \A d \in x.cancels : Removed(O, d) \/ rowIn(x, T, d).state # "absent"
    /\ x.pc = "dropDependentEdges" => gone(x, T, O, Min(x.cancels))
    /\ x.pc \in {"cascadeCancel", "dropDependentEdges", "dropSatisfied"} =>
          \A d \in x.satisfied : DecidedIn(x, O, d, x.finished)
    /\ x.pc = "promote" => x.satisfied # {} /\ Min(x.satisfied) \in x.locked
    /\ x.op = "delete" /\ x.pc = "edges" => Removed(O, Head(x.todo))

TxnInv(x, T, E, O, R) ==
    /\ x \in Txn /\ Modes(x)
    /\ Writes(x, T) /\ Inserts(x, T, O, R) /\ Drops(x, T, E, O) /\ Wakes(x, T, E, O) /\ Works(x, T, O)

\* Committed rows and edges.
Committed(T, E, O, R) ==
    /\ T \in [TaskID -> Row] /\ E \subseteq Dependency
    /\ O \in [TaskID -> SUBSET (Terminal \cup {"removed"})] /\ R \subseteq TaskID
    /\ \A t \in TaskID : T[t].state = "absent" => T[t].claim = "none"
    /\ \A t \in TaskID : T[t].state \in Terminal => T[t].state \in O[t]
    /\ \A t, d \in TaskID : <<t, d>> \in E => Removed(O, t) \/ T[t].state # "absent"
    /\ \A t \in TaskID : T[t].state = "blocked" /\ ~Removed(O, t) => \E d \in TaskID : <<t, d>> \in E
    /\ \A t \in TaskID : Plain(O, R, t) =>
          /\ T[t].state = "blocked" => \A d \in deps(t) : <<t, d>> \in E \/ Decided(O, t, d)
          /\ T[t].state \in Started => \A d \in deps(t) : Decided(O, t, d)

\* No two connections hold one row, or delete one edge.
Apart(x, y) == lockedIn(x) \cap lockedIn(y) = {} /\ x.dropped \cap y.dropped = {}

Inv ==
    /\ conn = [c \in Conn |-> conn[c]]
    /\ Committed(tasks, edges, outcomes, revived)
    /\ \A c \in Conn : TxnInv(conn[c], tasks, edges, outcomes, revived)
    /\ \A b, c \in Conn : b # c => Apart(conn[b], conn[c])

(***************************************************************************)
(* Least elements, and transactions that have written nothing              *)
(***************************************************************************)
\* The ids are ordered well, so the next dependent of a worklist is in it.
LEMMA LessThanWF == IsWellFoundedOn({p \in Nat \X Nat : p[1] < p[2]}, Nat)
  BY NatLessThanWellFounded, Zenon DEF OpToRel

LEMMA MinIn ==
  ASSUME NEW S, S \subseteq TaskID, S # {}
  PROVE  Min(S) \in S
<1> DEFINE P == {p \in Nat \X Nat : p[1] < p[2]}
<1>1. S \subseteq Nat
  BY PostgresAssumption
<1>2. PICK m \in S : \A n \in S : ~(<<n, m>> \in P)
  <2>1. IsWellFoundedOn(P, Nat)
    BY LessThanWF
  <2> HIDE DEF P
  <2> QED
    BY Zenon, <1>1, <2>1, WFMin
<1>3. ASSUME NEW n \in S PROVE m <= n
  <2>1. m \in Nat /\ n \in Nat
    BY <1>1
  <2>2. n < m => <<n, m>> \in P
    BY <2>1
  <2>3. ~(n < m)
    BY Zenon, <1>2, <2>2
  <2> QED
    BY <2>1, <2>3
<1> QED
  BY <1>3 DEF Min

\* A transaction that begins, and a call that keeps nothing uncommitted.
LEMMA BeginTxn ==
  ASSUME NEW T, NEW E, NEW O, NEW R, Committed(T, E, O, R), NEW x,
         NEW o \in {"none", "enqueue", "resolve", "sweep", "delete", "purge"},
         NEW p \in {"idle", "read", "terminalState", "delete", "edges", "completed", "archived"},
         NEW q \in Seq(TaskID),
         x = [Free EXCEPT !.op = o, !.pc = p, !.todo = q],
         o = "enqueue" => p = "read",
         o = "delete" => q # <<>> /\ (p = "delete" \/ (p = "edges" /\ Removed(O, Head(q))))
  PROVE  TxnInv(x, T, E, O, R) /\ lockedIn(x) = {} /\ x.dropped = {}
<1>1. /\ x.op = o /\ x.pc = p /\ x.todo = q /\ x.added = {} /\ x.dropped = {} /\ x.locked = {}
      /\ x.rows = [t \in TaskID |-> NoWrite] /\ x.satisfied = {}
      /\ x = [Free EXCEPT !.op = x.op, !.pc = x.pc, !.todo = x.todo]
  BY DEF Free
<1>2. x \in Txn
  BY ZenonT(40) DEF Free, Txn
<1>3. Modes(x)
  BY <1>1 DEF Modes
<1>4. Writes(x, T)
  BY <1>1 DEF Writes
<1>5. Inserts(x, T, O, R)
  BY <1>1 DEF Inserts
<1>6. Drops(x, T, E, O)
  BY <1>1 DEF Drops
<1>7. Wakes(x, T, E, O)
  BY <1>1 DEF Wakes
<1>8. Works(x, T, O)
  BY <1>1 DEF Works
<1>9. lockedIn(x) = {}
  BY <1>1 DEF lockedIn
<1> QED
  BY <1>1, <1>2, <1>3, <1>4, <1>5, <1>6, <1>7, <1>8, <1>9 DEF TxnInv

LEMMA FreeTxn ==
  ASSUME NEW T, NEW E, NEW O, NEW R, Committed(T, E, O, R)
  PROVE  TxnInv(Free, T, E, O, R) /\ lockedIn(Free) = {} /\ Free.dropped = {}
<1>1. Free \in Txn /\ Free.op = "none" /\ Free.pc = "idle" /\ Free.todo = <<>> /\ <<>> \in Seq(TaskID)
  BY DEF Free, Txn
<1>2. Free = [Free EXCEPT !.op = "none", !.pc = "idle", !.todo = <<>>]
  BY ZenonT(40), <1>1 DEF Txn
<1> QED
  BY Zenon, <1>1, <1>2, BeginTxn

(***************************************************************************)
(* Steps of one connection                                                 *)
(***************************************************************************)
\* A connection moves on by itself: the rows it newly locks, or writes, and the
\* edges it newly drops are not held by another.
LEMMA LocalStep ==
  ASSUME Inv, NEW c \in Conn, NEW y, NEW N, NEW M,
         conn' = [conn EXCEPT ![c] = y], UNCHANGED <<tasks, edges, history>>,
         TxnInv(y, tasks, edges, outcomes, revived),
         lockedIn(y) \subseteq lockedIn(conn[c]) \cup N, N \cap lockedElsewhere(c) = {},
         y.dropped \subseteq conn[c].dropped \cup M, M \cap edgesLockedElsewhere(c) = {}
  PROVE  Inv'
<1>1. conn' = [b \in Conn |-> conn'[b]] /\ conn'[c] = y /\ \A b \in Conn \ {c} : conn'[b] = conn[b]
  BY DEF Inv
<1>2. tasks' = tasks /\ edges' = edges /\ outcomes' = outcomes /\ revived' = revived
  BY DEF history
<1>3. Committed(tasks, edges, outcomes, revived)'
  BY <1>2 DEF Inv
<1>4. ASSUME NEW b \in Conn PROVE TxnInv(conn[b], tasks, edges, outcomes, revived)'
  BY Zenon, <1>1, <1>2 DEF Inv
<1>5. ASSUME NEW b \in Conn \ {c} PROVE Apart(conn[b], y) /\ Apart(y, conn[b])
  <2>1. Apart(conn[b], conn[c])
    BY DEF Inv
  <2>2. lockedIn(conn[b]) \subseteq lockedElsewhere(c) /\ conn[b].dropped \subseteq edgesLockedElsewhere(c)
    BY DEF lockedElsewhere, lockedBy, lockedIn, edgesLockedElsewhere
  <2> QED
    BY <2>1, <2>2 DEF Apart
<1>6. ASSUME NEW a \in Conn, NEW b \in Conn, a # b PROVE Apart(conn[a], conn[b])'
  BY Zenon, <1>1, <1>5, <1>6 DEF Inv
<1> QED
  BY <1>1, <1>3, <1>4, <1>6 DEF Inv

LEMMA OwnStep ==
  ASSUME Inv, NEW c \in Conn, NEW y,
         conn' = [conn EXCEPT ![c] = y], UNCHANGED <<tasks, edges, history>>,
         TxnInv(y, tasks, edges, outcomes, revived),
         lockedIn(y) \subseteq lockedIn(conn[c]), y.dropped \subseteq conn[c].dropped
  PROVE  Inv'
<1> DEFINE N == {}
<1>1. /\ lockedIn(y) \subseteq lockedIn(conn[c]) \cup N /\ N \cap lockedElsewhere(c) = {}
      /\ y.dropped \subseteq conn[c].dropped \cup N /\ N \cap edgesLockedElsewhere(c) = {}
  OBVIOUS
<1> HIDE DEF N
<1> QED
  BY ZenonT(40), <1>1, LocalStep

\* The connection rolls back, or fails.
LEMMA FreeStep ==
  ASSUME Inv, NEW c \in Conn, conn' = [conn EXCEPT ![c] = Free], UNCHANGED <<tasks, edges, history>>
  PROVE  Inv'
<1>1. TxnInv(Free, tasks, edges, outcomes, revived) /\ lockedIn(Free) = {} /\ Free.dropped = {}
  BY FreeTxn DEF Inv
<1> QED
  BY ZenonT(40), <1>1, OwnStep

LEMMA DepsAreTasks ==
  ASSUME NEW t \in TaskID, NEW d \in deps(t)
  PROVE  d \in TaskID /\ <<t, d>> \in Dependency /\ policy(t, d) \in {"CASCADE_CANCEL", "CONTINUE", "BLOCK"}
BY PostgresAssumption DEF deps, Dependency, policy

\* A step of a resolution that drops no edge: it may write rows it sees blocked,
\* and gives up a dependent it has to wake only when that waits no more, or is
\* locked and waits for something else.
LEMMA WrittenTxn ==
  ASSUME NEW T, NEW E, NEW O, NEW R, Committed(T, E, O, R), NEW x, TxnInv(x, T, E, O, R),
         x.op \in {"resolve", "sweep"},
         NEW y \in Txn, y.op = x.op, y.pc # "insert", y.added = x.added, y.dropped = x.dropped,
         x.locked \subseteq y.locked,
         NEW S \in SUBSET TaskID,
         \A t \in TaskID \ S : y.rows[t] = x.rows[t],
         \A t \in S : /\ rowIn(x, T, t).state = "blocked"
                      /\ y.rows[t] \in Row /\ y.rows[t].state \in {"canceled"} \cup Started
                      /\ Plain(O, R, t) /\ y.rows[t].state \in Started =>
                             \A d \in deps(t) : DecidedIn(x, O, t, d),
         Works(y, T, O),
         x.pc \in {"lock", "promote"} =>
             \A t \in x.satisfied :
                 \/ t \in y.satisfied /\ y.pc \in {"lock", "promote"}
                 \/ rowIn(y, T, t).state # "blocked"
                 \/ t \in y.locked /\ \E d \in TaskID : <<t, d>> \in edgesIn(x, E)
  PROVE  TxnInv(y, T, E, O, R)
<1>1. x \in Txn /\ Modes(x) /\ Writes(x, T) /\ Inserts(x, T, O, R) /\ Drops(x, T, E, O) /\ Wakes(x, T, E, O)
  BY DEF TxnInv
<1>2. x.rows \in [TaskID -> Row \cup {NoWrite}] /\ y.rows \in [TaskID -> Row \cup {NoWrite}] /\ NoWrite \notin Row
  BY <1>1, PostgresAssumption DEF Txn
<1>3. ASSUME NEW t, NEW d \in TaskID, DecidedIn(x, O, t, d) PROVE DecidedIn(y, O, t, d)
  <2>1. CASE d \in S
    BY <1>3, <2>1 DEF DecidedIn, rowIn, accepts, Failed
  <2>2. CASE d \notin S
    BY <1>3, <2>2 DEF DecidedIn
  <2> QED
    BY <2>1, <2>2
<1>4. Modes(y)
  BY <1>1 DEF Modes
<1>5. ASSUME NEW t \in S PROVE T[t].state = "blocked"
  <2>1. rowIn(x, T, t).state = "blocked" /\ t \in TaskID
    OBVIOUS
  <2>2. CASE x.rows[t] = NoWrite
    BY <2>1, <2>2 DEF rowIn
  <2>3. CASE x.rows[t] # NoWrite
    BY SMTT(40), <1>1, <2>1, <2>3 DEF rowIn, Writes
  <2> QED
    BY <2>2, <2>3
<1>6. Writes(y, T)
  <2> SUFFICES ASSUME NEW t \in TaskID, y.rows[t] # NoWrite
               PROVE  /\ y.rows[t].state # "absent"
                      /\ T[t].state \notin {"absent", "blocked"} => y.rows[t].state = T[t].state
                      /\ T[t].state = "absent" => y.op = "enqueue"
    BY DEF Writes
  <2>1. CASE t \in S
    BY SMTT(40), <1>5, <2>1 DEF Started
  <2>2. CASE t \notin S
    BY <1>1, <2>2 DEF Writes
  <2> QED
    BY <2>1, <2>2
<1>7. ASSUME NEW t \in TaskID, y.rows[t] # NoWrite, Plain(O, R, t), y.rows[t].state \in Started, NEW d \in deps(t)
      PROVE  DecidedIn(y, O, t, d)
  <2>1. d \in TaskID
    BY ZenonT(40), DepsAreTasks
  <2>2. DecidedIn(x, O, t, d)
    BY SMTT(40), <1>1, <1>7 DEF Inserts
  <2> QED
    BY SMTT(40), <1>3, <2>1, <2>2
<1>8. Inserts(y, T, O, R)
  <2>1. \A t \in TaskID : y.rows[t] # NoWrite => T[t].state # "absent"
    BY <1>6 DEF Writes
  <2>2. \A t, d \in TaskID : <<t, d>> \notin y.added
    BY ZenonT(40), <1>1 DEF Modes
  <2> QED
    BY SMTT(40), <1>7, <2>1, <2>2 DEF Inserts
<1>9. Drops(y, T, E, O)
  <2> SUFFICES ASSUME NEW t \in TaskID, NEW d \in TaskID, <<t, d>> \in y.dropped
               PROVE  gone(y, T, O, t) \/ DecidedIn(y, O, t, d)
    BY <1>1 DEF Drops
  <2>1. gone(x, T, O, t) \/ DecidedIn(x, O, t, d)
    BY <1>1 DEF Drops
  <2>2. gone(x, T, O, t) => gone(y, T, O, t)
    <3>1. CASE t \in S
      BY <3>1 DEF gone
    <3>2. CASE t \notin S
      BY <3>2 DEF gone, rowIn
    <3> QED
      BY SMTT(40), <3>1, <3>2
  <2> QED
    BY SMTT(40), <1>3, <2>1, <2>2
<1>10. Wakes(y, T, E, O)
  <2> SUFFICES ASSUME NEW t \in TaskID, ~Removed(O, t), T[t].state = "blocked", rowIn(y, T, t).state = "blocked",
                      \E d \in TaskID : <<t, d>> \in y.dropped
               PROVE  \/ t \in y.satisfied /\ y.pc \in {"lock", "promote"}
                      \/ t \in y.locked /\ \E d \in TaskID : <<t, d>> \in edgesIn(y, E)
    BY DEF Wakes
  <2>1. t \notin S
    BY <1>2 DEF rowIn, Started
  <2>2. rowIn(x, T, t).state = "blocked"
    BY <2>1 DEF rowIn
  <2>3. edgesIn(y, E) = edgesIn(x, E)
    BY DEF edgesIn
  <2>4. \/ t \in x.satisfied /\ x.pc \in {"lock", "promote"}
        \/ t \in x.locked /\ \E d \in TaskID : <<t, d>> \in edgesIn(x, E)
    BY SMTT(40), <1>1, <2>2 DEF Wakes
  <2> QED
    BY SMTT(40), <2>3, <2>4
<1> QED
  BY <1>4, <1>6, <1>8, <1>9, <1>10 DEF TxnInv

LEMMA SameRowsTxn ==
  ASSUME NEW T, NEW E, NEW O, NEW R, Committed(T, E, O, R), NEW x, TxnInv(x, T, E, O, R),
         x.op \in {"resolve", "sweep"},
         NEW y \in Txn, y.op = x.op, y.pc # "insert", y.added = x.added, y.dropped = x.dropped, y.rows = x.rows,
         x.locked \subseteq y.locked,
         Works(y, T, O),
         x.pc \in {"lock", "promote"} =>
             \A t \in x.satisfied :
                 \/ t \in y.satisfied /\ y.pc \in {"lock", "promote"}
                 \/ rowIn(x, T, t).state # "blocked"
                 \/ t \in y.locked /\ \E d \in TaskID : <<t, d>> \in edgesIn(x, E)
  PROVE  TxnInv(y, T, E, O, R)
<1> DEFINE S == {}
<1>1. S \in SUBSET TaskID /\ (\A t \in TaskID \ S : y.rows[t] = x.rows[t]) /\ \A t \in S : FALSE
  OBVIOUS
<1>2. \A t : rowIn(y, T, t) = rowIn(x, T, t)
  BY DEF rowIn
<1> HIDE DEF S
<1> QED
  BY <1>1, <1>2, WrittenTxn

\* A step of a resolution that drops edges and writes nothing.
LEMMA DroppedTxn ==
  ASSUME NEW T, NEW E, NEW O, NEW R, Committed(T, E, O, R), NEW x, TxnInv(x, T, E, O, R),
         x.op \in {"resolve", "sweep"}, x.pc \notin {"lock", "promote"},
         NEW y \in Txn, y.op = x.op, y.pc # "insert", y.added = x.added, y.rows = x.rows, y.locked = x.locked,
         NEW D \in SUBSET E, y.dropped = x.dropped \cup D,
         \A t, d \in TaskID : <<t, d>> \in D =>
             \/ gone(x, T, O, t)
             \/ DecidedIn(x, O, t, d) /\ t \in y.satisfied /\ y.pc = "lock",
         Works(y, T, O)
  PROVE  TxnInv(y, T, E, O, R)
<1>1. x \in Txn /\ Modes(x) /\ Writes(x, T) /\ Inserts(x, T, O, R) /\ Drops(x, T, E, O) /\ Wakes(x, T, E, O)
  BY DEF TxnInv
<1>2. \A t \in TaskID : rowIn(y, T, t) = rowIn(x, T, t)
  BY DEF rowIn
<1>3. \A t, d \in TaskID : DecidedIn(y, O, t, d) <=> DecidedIn(x, O, t, d)
  BY DEF DecidedIn
<1>4. Modes(y)
  BY <1>1 DEF Modes
<1>5. Writes(y, T)
  BY SMTT(40), <1>1 DEF Writes
<1>6. Inserts(y, T, O, R)
  <2>1. \A t, d \in TaskID : <<t, d>> \notin y.added
    BY ZenonT(40), <1>1 DEF Modes
  <2>2. \A t \in TaskID : y.rows[t] # NoWrite => T[t].state # "absent"
    BY <1>5 DEF Writes
  <2>3. \A t \in TaskID : \A d \in deps(t) : d \in TaskID
    BY ZenonT(40), DepsAreTasks
  <2>4. \A t \in TaskID : x.rows[t] # NoWrite /\ Plain(O, R, t) /\ x.rows[t].state \in Started =>
            \A d \in deps(t) : DecidedIn(x, O, t, d)
    BY <1>1 DEF Inserts
  <2> QED
    BY <1>3, <2>1, <2>2, <2>3, <2>4 DEF Inserts
<1>7. Drops(y, T, E, O)
  BY <1>1, <1>2, <1>3 DEF Drops, gone
<1>8. Wakes(y, T, E, O)
  <2> SUFFICES ASSUME NEW t \in TaskID, ~Removed(O, t), T[t].state = "blocked", rowIn(y, T, t).state = "blocked",
                      \E d \in TaskID : <<t, d>> \in y.dropped
               PROVE  \/ t \in y.satisfied /\ y.pc \in {"lock", "promote"}
                      \/ t \in y.locked /\ \E d \in TaskID : <<t, d>> \in edgesIn(y, E)
    BY DEF Wakes
  <2>1. rowIn(x, T, t).state = "blocked" /\ ~gone(x, T, O, t)
    BY <1>2 DEF gone
  <2>2. CASE \E d \in TaskID : <<t, d>> \in D
    BY SMTT(40), <2>1, <2>2
  <2>3. CASE ~ \E d \in TaskID : <<t, d>> \in D
    <3>1. \E d \in TaskID : <<t, d>> \in x.dropped
      BY <2>3
    <3>2. t \in x.locked /\ \E d \in TaskID : <<t, d>> \in edgesIn(x, E)
      BY <1>1, <2>1, <3>1 DEF Wakes
    <3> QED
      BY SMTT(40), <2>3, <3>2 DEF edgesIn
  <2> QED
    BY SMTT(40), <2>2, <2>3
<1> QED
  BY <1>4, <1>5, <1>6, <1>7, <1>8 DEF TxnInv

(***************************************************************************)
(* Resolving dependents                                                    *)
(***************************************************************************)
LEMMA SeqFacts ==
  ASSUME NEW q \in Seq(TaskID), q # <<>>
  PROVE  Head(q) \in TaskID /\ Tail(q) \in Seq(TaskID)
OBVIOUS

LEMMA TerminalStateStep ==
  ASSUME Inv, NEW c \in Conn, terminalState(c)
  PROVE  Inv'
<1> DEFINE x == conn[c]
           t == Head(x.todo)
           popped == [x EXCEPT !.todo = Tail(@), !.seen = @ \cup {t}]
           y == IF t \in x.seen \/ row(c, t).state \notin Terminal THEN popped
                ELSE [popped EXCEPT !.pc = "edgesWaitingOn", !.finished = t, !.failed = row(c, t).state \in Failed]
<1>1. /\ conn' = [conn EXCEPT ![c] = y] /\ UNCHANGED <<tasks, edges, history>>
      /\ x.op \in {"resolve", "sweep"} /\ x.pc = "terminalState" /\ x.todo # <<>>
  BY DEF terminalState, resolves
<1>2. TxnInv(x, tasks, edges, outcomes, revived) /\ Committed(tasks, edges, outcomes, revived)
  BY DEF Inv
<1>3. x \in Txn /\ x.todo \in Seq(TaskID) /\ x.rows \in [TaskID -> Row \cup {NoWrite}] /\ tasks \in [TaskID -> Row]
  BY <1>2 DEF TxnInv, Txn, Committed
<1>4. t \in TaskID /\ Tail(x.todo) \in Seq(TaskID)
  BY <1>1, <1>3, SeqFacts
<1> HIDE DEF t
<1>5. /\ y \in Txn /\ y.op = x.op /\ y.added = x.added /\ y.dropped = x.dropped /\ y.locked = x.locked
      /\ y.rows = x.rows /\ y.pc \in {"terminalState", "edgesWaitingOn"}
  <2>1. /\ popped \in Txn /\ popped.op = x.op /\ popped.added = x.added /\ popped.dropped = x.dropped
        /\ popped.locked = x.locked /\ popped.rows = x.rows /\ popped.pc = x.pc
    BY ZenonT(40), <1>3, <1>4 DEF Txn
  <2> HIDE DEF popped
  <2>2. CASE t \in x.seen \/ row(c, t).state \notin Terminal
    BY <1>1, <2>1, <2>2
  <2>3. CASE ~(t \in x.seen \/ row(c, t).state \notin Terminal)
    <3>1. (row(c, t).state \in Failed) \in BOOLEAN
      OBVIOUS
    <3> QED
      BY ZenonT(40), <1>4, <2>1, <2>3, <3>1 DEF Txn
  <2> QED
    BY <2>2, <2>3
<1>6. y.pc = "edgesWaitingOn" => row(c, t).state \in Terminal /\ y.finished = t /\ y.failed = (row(c, t).state \in Failed)
  BY SMTT(40), <1>1, <1>3, <1>4 DEF Txn
<1> HIDE DEF x, y
<1>7. ASSUME y.pc = "edgesWaitingOn"
      PROVE  \E s \in outcomes[t] \cup {r.state : r \in {x.rows[t]} \cap Row} :
                 IF y.failed THEN s \in Failed ELSE s = "completed"
  <2>1. row(c, t).state \in Terminal /\ y.failed = (row(c, t).state \in Failed)
    BY <1>6, <1>7
  <2>2. CASE x.rows[t] = NoWrite
    <3>1. row(c, t).state \in outcomes[t]
      BY <1>2, <1>4, <2>1, <2>2 DEF Committed, row, x
    <3> QED
      BY ZenonT(40), <2>1, <3>1 DEF Terminal, Failed
  <2>3. CASE x.rows[t] # NoWrite
    <3>1. row(c, t) = x.rows[t] /\ x.rows[t] \in Row
      BY SMTT(40), <1>3, <1>4, <2>3 DEF row, x
    <3> QED
      BY ZenonT(40), <2>1, <3>1 DEF Terminal, Failed
  <2> QED
    BY <2>2, <2>3
<1>8. Works(y, tasks, outcomes)
  BY <1>1, <1>4, <1>5, <1>6, <1>7 DEF Works
<1>9. TxnInv(y, tasks, edges, outcomes, revived)
  BY <1>1, <1>2, <1>5, <1>8, SameRowsTxn
<1>10. lockedIn(y) = lockedIn(x)
  BY SMTT(40), <1>5 DEF lockedIn
<1> QED
  BY ZenonT(40), <1>1, <1>5, <1>9, <1>10, OwnStep DEF x

\* What is known of a connection in a resolution.
LEMMA ResolvingFacts ==
  ASSUME Inv, NEW c \in Conn, resolves(c)
  PROVE  /\ TxnInv(conn[c], tasks, edges, outcomes, revived) /\ Committed(tasks, edges, outcomes, revived)
         /\ conn[c] \in Txn /\ conn[c].op \in {"resolve", "sweep"} /\ conn[c].added = {}
         /\ conn[c].rows \in [TaskID -> Row \cup {NoWrite}] /\ tasks \in [TaskID -> Row] /\ edges \subseteq Dependency
         /\ conn[c].satisfied \subseteq TaskID /\ conn[c].cancels \subseteq TaskID /\ conn[c].todo \in Seq(TaskID)
         /\ conn[c].dropped \subseteq edges
         /\ edgesSeen(c) = edges \ conn[c].dropped
         /\ \A t : row(c, t) = rowIn(conn[c], tasks, t)
         /\ \A t \in TaskID : row(c, t) \in Row
<1>1. TxnInv(conn[c], tasks, edges, outcomes, revived) /\ Committed(tasks, edges, outcomes, revived)
  BY DEF Inv
<1>2. conn[c] \in Txn /\ Modes(conn[c]) /\ Drops(conn[c], tasks, edges, outcomes)
  BY <1>1 DEF TxnInv
<1>3. conn[c].op \in {"resolve", "sweep"}
  BY DEF resolves
<1>4. /\ conn[c].rows \in [TaskID -> Row \cup {NoWrite}] /\ conn[c].satisfied \subseteq TaskID
      /\ conn[c].cancels \subseteq TaskID /\ conn[c].todo \in Seq(TaskID)
  BY <1>2 DEF Txn
<1>5. tasks \in [TaskID -> Row] /\ edges \subseteq Dependency
  BY <1>1 DEF Committed
<1>6. conn[c].added = {} /\ conn[c].dropped \subseteq edges
  BY <1>2, <1>3 DEF Modes, Drops
<1>7. \A t : row(c, t) = rowIn(conn[c], tasks, t)
  BY DEF row, rowIn
<1>8. \A t \in TaskID : row(c, t) \in Row
  BY SMTT(40), <1>4, <1>5 DEF row
<1>9. edgesSeen(c) = edges \ conn[c].dropped
  BY <1>6 DEF edgesSeen
<1> QED
  BY <1>1, <1>2, <1>3, <1>4, <1>5, <1>6, <1>7, <1>8, <1>9

LEMMA EdgesWaitingOnStep ==
  ASSUME Inv, NEW c \in Conn, edgesWaitingOn(c)
  PROVE  Inv'
<1> DEFINE x == conn[c]
           f == x.finished
           D == {e[1] : e \in {g \in edgesSeen(c) : g[2] = f}}
           cancels == {d \in D : x.failed /\ policy(d, f) = "CASCADE_CANCEL"}
           kept == {d \in D : x.failed /\ policy(d, f) = "BLOCK"}
           pc == IF cancels # {} THEN "cascadeCancel" ELSE IF D # kept THEN "dropSatisfied" ELSE "terminalState"
           y == [x EXCEPT !.cancels = cancels, !.satisfied = (D \ cancels) \ kept, !.pc = pc]
<1>1. /\ conn' = [conn EXCEPT ![c] = y] /\ UNCHANGED <<tasks, edges, history>>
      /\ resolves(c) /\ x.pc = "edgesWaitingOn"
  BY DEF edgesWaitingOn
<1>2. /\ TxnInv(x, tasks, edges, outcomes, revived) /\ Committed(tasks, edges, outcomes, revived)
      /\ x \in Txn /\ x.op \in {"resolve", "sweep"} /\ edges \subseteq Dependency
      /\ x.rows \in [TaskID -> Row \cup {NoWrite}]
      /\ edgesSeen(c) = edges \ x.dropped
  BY SMTT(40), <1>1, ResolvingFacts
<1>3. Works(x, tasks, outcomes) /\ Writes(x, tasks)
  BY <1>2 DEF TxnInv
<1>4. ASSUME NEW d \in D PROVE d \in TaskID /\ <<d, f>> \in edges /\ f \in deps(d)
  <2>1. PICK e \in edgesSeen(c) : e[2] = f /\ d = e[1]
    OBVIOUS
  <2>2. e \in edges /\ e \in Dependency
    BY <1>2, <2>1
  <2>3. e = <<d, f>>
    BY <2>1, <2>2 DEF Dependency
  <2> QED
    BY SMTT(40), <2>2, <2>3 DEF Dependency
<1>5. D \subseteq TaskID /\ cancels \subseteq D /\ kept \subseteq D
  BY ZenonT(40), <1>4
<1>6. x.failed \in BOOLEAN
  BY <1>2 DEF Txn
<1>7. \A d \in (D \ cancels) \ kept : d \in D /\ (x.failed => policy(d, f) = "CONTINUE")
  BY ZenonT(40), <1>4, <1>6, DepsAreTasks
<1>8. pc \in {"cascadeCancel", "dropSatisfied", "terminalState"} /\ (pc = "cascadeCancel" => cancels # {})
  OBVIOUS
<1> HIDE DEF D, cancels, kept, pc
<1>9. /\ y \in Txn /\ y.op = x.op /\ y.added = x.added /\ y.dropped = x.dropped /\ y.locked = x.locked
      /\ y.rows = x.rows /\ y.pc = pc /\ y.finished = f /\ y.failed = x.failed /\ y.cancels = cancels
      /\ y.satisfied = (D \ cancels) \ kept
  BY ZenonT(40), <1>2, <1>5, <1>8 DEF Txn
<1> HIDE DEF x, y, f
<1>10. /\ x.finished \in TaskID
       /\ \E s \in outcomes[x.finished] \cup {r.state : r \in {x.rows[x.finished]} \cap Row} :
             IF x.failed THEN s \in Failed ELSE s = "completed"
  BY ZenonT(40), <1>1, <1>3 DEF Works, x
<1>11. ASSUME NEW d \in (D \ cancels) \ kept PROVE DecidedIn(y, outcomes, d, f)
  <2>1. PICK s \in outcomes[f] \cup {r.state : r \in {x.rows[f]} \cap Row} :
            IF x.failed THEN s \in Failed ELSE s = "completed"
    BY <1>10 DEF f
  <2>2. accepts(s, d, f)
    BY <1>6, <1>7, <2>1 DEF accepts
  <2>3. CASE s \in outcomes[f]
    BY <2>2, <2>3 DEF DecidedIn, Decided
  <2>4. CASE s \notin outcomes[f]
    BY <1>9, <2>1, <2>2, <2>4, PostgresAssumption DEF DecidedIn
  <2> QED
    BY <2>3, <2>4
<1>12. ASSUME NEW d \in cancels PROVE Removed(outcomes, d) \/ rowIn(y, tasks, d).state # "absent"
  <2>1. d \in TaskID /\ f \in TaskID /\ <<d, f>> \in edges
    BY SMTT(40), <1>4, <1>5, <1>10 DEF f
  <2>2. Removed(outcomes, d) \/ tasks[d].state # "absent"
    BY <1>2, <2>1 DEF Committed
  <2> QED
    BY <1>3, <1>9, <2>1, <2>2 DEF Writes, rowIn
<1>13. Works(y, tasks, outcomes)
  BY ZenonT(40), <1>2, <1>8, <1>9, <1>10, <1>11, <1>12 DEF Works, f
<1>14. TxnInv(y, tasks, edges, outcomes, revived)
  BY <1>1, <1>2, <1>8, <1>9, <1>13, SameRowsTxn DEF x
<1>15. lockedIn(y) = lockedIn(x)
  BY <1>9 DEF lockedIn
<1> QED
  BY ZenonT(40), <1>1, <1>9, <1>14, <1>15, OwnStep DEF x

LEMMA CascadeCancelStep ==
  ASSUME Inv, NEW c \in Conn, cascadeCancel(c)
  PROVE  Inv'
<1> DEFINE x == conn[c]
           d == Min(x.cancels)
           new == [row(c, d) EXCEPT !.state = "canceled"]
           y == [x EXCEPT !.rows[d] = IF row(c, d).state = "blocked" THEN new ELSE @, !.pc = "dropDependentEdges"]
           S == IF row(c, d).state = "blocked" THEN {d} ELSE {}
<1>1. /\ conn' = [conn EXCEPT ![c] = y] /\ UNCHANGED <<tasks, edges, history>>
      /\ resolves(c) /\ x.pc = "cascadeCancel" /\ S \cap lockedElsewhere(c) = {}
  BY DEF cascadeCancel
<1>2. /\ TxnInv(x, tasks, edges, outcomes, revived) /\ Committed(tasks, edges, outcomes, revived)
      /\ x \in Txn /\ x.op \in {"resolve", "sweep"} /\ x.cancels \subseteq TaskID
      /\ x.rows \in [TaskID -> Row \cup {NoWrite}]
      /\ \A t : row(c, t) = rowIn(x, tasks, t)
      /\ \A t \in TaskID : row(c, t) \in Row
  BY SMTT(40), <1>1, ResolvingFacts
<1>3. Works(x, tasks, outcomes) /\ Writes(x, tasks)
  BY <1>2 DEF TxnInv
<1>4. d \in x.cancels /\ d \in TaskID /\ x.cancels # {}
  BY <1>1, <1>2, <1>3, MinIn DEF Works
<1>5. new \in Row /\ new.state = "canceled"
  BY <1>2, <1>4 DEF Row, State, Terminal
<1> HIDE DEF d, new
<1>6. /\ y \in Txn /\ y.op = x.op /\ y.added = x.added /\ y.dropped = x.dropped /\ y.locked = x.locked
      /\ y.pc = "dropDependentEdges" /\ y.finished = x.finished /\ y.failed = x.failed
      /\ y.cancels = x.cancels /\ y.satisfied = x.satisfied
      /\ y.rows = [x.rows EXCEPT ![d] = IF row(c, d).state = "blocked" THEN new ELSE @]
  <2>1. (IF row(c, d).state = "blocked" THEN new ELSE x.rows[d]) \in Row \cup {NoWrite}
    BY <1>2, <1>4, <1>5
  <2> QED
    BY ZenonT(40), <1>2, <1>4, <2>1 DEF Txn
<1>7. /\ S \in SUBSET TaskID
      /\ \A t \in TaskID \ S : y.rows[t] = x.rows[t]
      /\ \A t \in S : t = d /\ row(c, t).state = "blocked" /\ y.rows[t] = new
  BY <1>2, <1>4, <1>6
<1> HIDE DEF x, y, S
<1>8. \A t \in TaskID : rowIn(x, tasks, t).state # "absent" => rowIn(y, tasks, t).state # "absent"
  BY SMTT(40), <1>5, <1>7, PostgresAssumption DEF rowIn
<1>9. Removed(outcomes, d) \/ rowIn(x, tasks, d).state # "absent"
  BY SMTT(40), <1>1, <1>3, <1>4 DEF Works, x
<1>10. gone(y, tasks, outcomes, d)
  <2>1. CASE row(c, d).state = "blocked"
    <3>1. y.rows[d] = new /\ y.rows[d] # NoWrite
      BY <1>2, <1>4, <1>5, <1>6, <2>1, PostgresAssumption
    <3> QED
      BY SMTT(40), <1>5, <3>1 DEF gone, rowIn
  <2>2. CASE row(c, d).state # "blocked"
    <3>1. y.rows[d] = x.rows[d]
      BY <1>2, <1>4, <1>6, <2>2
    <3> QED
      BY SMTT(40), <1>2, <1>9, <2>2, <3>1 DEF gone, rowIn
  <2> QED
    BY SMTT(40), <2>1, <2>2
<1>11. ASSUME NEW t, NEW u \in TaskID, DecidedIn(x, outcomes, t, u) PROVE DecidedIn(y, outcomes, t, u)
  <2>1. CASE u \in S
    BY <1>2, <1>7, <1>11, <2>1 DEF DecidedIn, rowIn, accepts, Failed
  <2>2. CASE u \notin S
    BY <1>7, <1>11, <2>2 DEF DecidedIn
  <2> QED
    BY SMTT(40), <2>1, <2>2
<1>12. /\ x.finished \in TaskID
       /\ \E s \in outcomes[x.finished] \cup {r.state : r \in {x.rows[x.finished]} \cap Row} :
             IF x.failed THEN s \in Failed ELSE s = "completed"
       /\ \A t \in x.cancels : Removed(outcomes, t) \/ rowIn(x, tasks, t).state # "absent"
       /\ \A t \in x.satisfied : DecidedIn(x, outcomes, t, x.finished)
  BY ZenonT(40), <1>1, <1>3 DEF Works, x
<1>13. \E s \in outcomes[x.finished] \cup {r.state : r \in {y.rows[x.finished]} \cap Row} :
             IF x.failed THEN s \in Failed ELSE s = "completed"
  <2>1. CASE x.finished \in S
    <3>1. x.rows[x.finished] # NoWrite => x.rows[x.finished].state = "blocked"
      BY <1>2, <1>7, <2>1 DEF rowIn
    <3>2. {r.state : r \in {x.rows[x.finished]} \cap Row} \subseteq {"blocked"}
      BY SMTT(40), <3>1, PostgresAssumption
    <3> QED
      BY SMTT(40), <1>12, <3>2 DEF Failed
  <2>2. CASE x.finished \notin S
    BY <1>7, <1>12, <2>2
  <2> QED
    BY SMTT(40), <2>1, <2>2
<1>14. Works(y, tasks, outcomes)
  BY ZenonT(40), <1>2, <1>4, <1>6, <1>8, <1>10, <1>11, <1>12, <1>13 DEF Works, d
<1>15. \A t \in S : /\ rowIn(x, tasks, t).state = "blocked"
                    /\ y.rows[t] \in Row /\ y.rows[t].state \in {"canceled"} \cup Started
                    /\ y.rows[t].state \notin Started
  BY <1>2, <1>5, <1>7 DEF Started
<1>16. TxnInv(y, tasks, edges, outcomes, revived)
  <2>1. \A t \in S : /\ rowIn(x, tasks, t).state = "blocked"
                     /\ y.rows[t] \in Row /\ y.rows[t].state \in {"canceled"} \cup Started
                     /\ Plain(outcomes, revived, t) /\ y.rows[t].state \in Started =>
                            \A u \in deps(t) : DecidedIn(x, outcomes, t, u)
    BY <1>15
  <2>2. x.pc \notin {"lock", "promote"} /\ y.pc # "insert" /\ x.locked \subseteq y.locked
    BY SMTT(40), <1>1, <1>6
  <2> QED
    BY ZenonT(40), <1>2, <1>6, <1>7, <1>14, <2>1, <2>2, WrittenTxn
<1>17. lockedIn(y) \subseteq lockedIn(x) \cup S
  BY SMTT(40), <1>6, <1>7 DEF lockedIn
<1>18. y.dropped \subseteq x.dropped \cup {} /\ {} \cap edgesLockedElsewhere(c) = {}
  BY <1>6
<1> QED
  BY ZenonT(40), <1>1, <1>16, <1>17, <1>18, LocalStep DEF x

LEMMA DropDependentEdgesStep ==
  ASSUME Inv, NEW c \in Conn, dropDependentEdges(c)
  PROVE  Inv'
<1> DEFINE x == conn[c]
           d == Min(x.cancels)
           left == x.cancels \ {d}
           D == waitsOn(c, d)
           pc == IF left # {} THEN "cascadeCancel"
                 ELSE IF x.satisfied # {} THEN "dropSatisfied" ELSE "terminalState"
           y == [x EXCEPT !.dropped = @ \cup D, !.cancels = left, !.todo = Append(@, d), !.pc = pc]
<1>1. /\ conn' = [conn EXCEPT ![c] = y] /\ UNCHANGED <<tasks, edges, history>>
      /\ resolves(c) /\ x.pc = "dropDependentEdges" /\ D \cap edgesLockedElsewhere(c) = {}
  BY DEF dropDependentEdges
<1>2. /\ TxnInv(x, tasks, edges, outcomes, revived) /\ Committed(tasks, edges, outcomes, revived)
      /\ x \in Txn /\ x.op \in {"resolve", "sweep"} /\ x.cancels \subseteq TaskID
      /\ x.todo \in Seq(TaskID) /\ edges \subseteq Dependency /\ x.dropped \subseteq edges
      /\ edgesSeen(c) = edges \ x.dropped
  BY SMTT(40), <1>1, ResolvingFacts
<1>3. Works(x, tasks, outcomes)
  BY <1>2 DEF TxnInv
<1>4. d \in x.cancels /\ d \in TaskID
  BY <1>1, <1>2, <1>3, MinIn DEF Works
<1>5. D \subseteq edges /\ \A t, u \in TaskID : <<t, u>> \in D => t = d
  BY SMTT(40), <1>2 DEF waitsOn
<1>6. /\ pc \in {"cascadeCancel", "dropSatisfied", "terminalState"} /\ (pc = "cascadeCancel" => left # {})
      /\ left \subseteq x.cancels
  OBVIOUS
<1>7. Append(x.todo, d) \in Seq(TaskID)
  BY SMTT(40), <1>2, <1>4
<1> HIDE DEF d, D, pc, left
<1>8. /\ y \in Txn /\ y.op = x.op /\ y.added = x.added /\ y.dropped = x.dropped \cup D /\ y.locked = x.locked
      /\ y.pc = pc /\ y.finished = x.finished /\ y.failed = x.failed
      /\ y.cancels = left /\ y.satisfied = x.satisfied /\ y.rows = x.rows
  BY ZenonT(40), <1>2, <1>5, <1>6, <1>7 DEF Txn
<1> HIDE DEF x, y
<1>9. gone(x, tasks, outcomes, d)
  BY ZenonT(40), <1>1, <1>3 DEF Works, x, d
<1>10. /\ x.finished \in TaskID
       /\ \E s \in outcomes[x.finished] \cup {r.state : r \in {x.rows[x.finished]} \cap Row} :
             IF x.failed THEN s \in Failed ELSE s = "completed"
       /\ \A t \in x.cancels : Removed(outcomes, t) \/ rowIn(x, tasks, t).state # "absent"
       /\ \A t \in x.satisfied : DecidedIn(x, outcomes, t, x.finished)
  BY ZenonT(40), <1>1, <1>3 DEF Works, x
<1>11. \A t : rowIn(y, tasks, t) = rowIn(x, tasks, t) /\ \A u : DecidedIn(y, outcomes, t, u) <=> DecidedIn(x, outcomes, t, u)
  BY <1>8 DEF rowIn, DecidedIn
<1>12. Works(y, tasks, outcomes)
  BY ZenonT(40), <1>2, <1>6, <1>8, <1>10, <1>11 DEF Works
<1>13. TxnInv(y, tasks, edges, outcomes, revived)
  BY ZenonT(40), <1>1, <1>2, <1>5, <1>6, <1>8, <1>9, <1>12, DroppedTxn
<1>14. lockedIn(y) \subseteq lockedIn(x) \cup {} /\ {} \cap lockedElsewhere(c) = {}
  BY <1>8 DEF lockedIn
<1> QED
  BY ZenonT(40), <1>1, <1>8, <1>13, <1>14, LocalStep DEF x

LEMMA DropSatisfiedEdgesStep ==
  ASSUME Inv, NEW c \in Conn, dropSatisfiedEdges(c)
  PROVE  Inv'
<1> DEFINE x == conn[c]
           E == {<<d, x.finished>> : d \in x.satisfied}
           D == E \cap edges
           y == [x EXCEPT !.dropped = @ \cup D, !.pc = "lock"]
<1>1. /\ conn' = [conn EXCEPT ![c] = y] /\ UNCHANGED <<tasks, edges, history>>
      /\ resolves(c) /\ x.pc = "dropSatisfied" /\ E \cap edgesSeen(c) \cap edgesLockedElsewhere(c) = {}
  BY DEF dropSatisfiedEdges
<1>2. /\ TxnInv(x, tasks, edges, outcomes, revived) /\ Committed(tasks, edges, outcomes, revived)
      /\ x \in Txn /\ x.op \in {"resolve", "sweep"} /\ x.satisfied \subseteq TaskID
      /\ edges \subseteq Dependency /\ x.dropped \subseteq edges
      /\ edgesSeen(c) = edges \ x.dropped
  BY SMTT(40), <1>1, ResolvingFacts
<1>3. Works(x, tasks, outcomes)
  BY <1>2 DEF TxnInv
<1>4. \A d \in x.satisfied : DecidedIn(x, outcomes, d, x.finished)
  BY <1>1, <1>3 DEF Works
<1>5. D \subseteq edges /\ \A t, u \in TaskID : <<t, u>> \in D => t \in x.satisfied /\ u = x.finished
  OBVIOUS
<1>6. D \cap edgesLockedElsewhere(c) \subseteq x.dropped
  BY <1>1, <1>2
<1> HIDE DEF E, D
<1>7. /\ y \in Txn /\ y.op = x.op /\ y.added = x.added /\ y.dropped = x.dropped \cup D /\ y.locked = x.locked
      /\ y.pc = "lock" /\ y.satisfied = x.satisfied /\ y.rows = x.rows
  BY ZenonT(40), <1>2, <1>5 DEF Txn
<1> HIDE DEF x, y
<1>8. Works(y, tasks, outcomes)
  BY ZenonT(40), <1>2, <1>7 DEF Works
<1>9. TxnInv(y, tasks, edges, outcomes, revived)
  <2>1. x.pc \notin {"lock", "promote"} /\ y.pc # "insert" /\ D \in SUBSET edges
    BY <1>1, <1>5, <1>7
  <2>2. \A t, d \in TaskID : <<t, d>> \in D =>
            \/ gone(x, tasks, outcomes, t)
            \/ DecidedIn(x, outcomes, t, d) /\ t \in y.satisfied /\ y.pc = "lock"
    BY ZenonT(40), <1>4, <1>5, <1>7
  <2> QED
    BY ZenonT(40), <1>2, <1>7, <1>8, <2>1, <2>2, DroppedTxn
<1>10. lockedIn(y) \subseteq lockedIn(x) \cup {} /\ {} \cap lockedElsewhere(c) = {}
  BY <1>7 DEF lockedIn
<1>11. y.dropped \subseteq x.dropped \cup (D \ x.dropped) /\ (D \ x.dropped) \cap edgesLockedElsewhere(c) = {}
  BY SMTT(40), <1>6, <1>7
<1> QED
  BY ZenonT(40), <1>1, <1>9, <1>10, <1>11, LocalStep DEF x

LEMMA LockBlockedDependentStep ==
  ASSUME Inv, NEW c \in Conn, lockBlockedDependent(c)
  PROVE  Inv'
<1> DEFINE x == conn[c]
           d == Min(x.satisfied)
<1>1. UNCHANGED <<tasks, edges, history>> /\ resolves(c) /\ x.pc = "lock"
  BY DEF lockBlockedDependent
<1>2. /\ TxnInv(x, tasks, edges, outcomes, revived) /\ Committed(tasks, edges, outcomes, revived)
      /\ x \in Txn /\ x.op \in {"resolve", "sweep"} /\ x.satisfied \subseteq TaskID /\ x.locked \subseteq TaskID
      /\ \A t : row(c, t) = rowIn(x, tasks, t)
  BY ZenonT(40), <1>1, ResolvingFacts DEF Txn
<1>3. CASE x.satisfied = {}
  <2> DEFINE y == [x EXCEPT !.pc = "terminalState"]
  <2>1. conn' = [conn EXCEPT ![c] = y]
    BY <1>3 DEF lockBlockedDependent
  <2>2. /\ y \in Txn /\ y.op = x.op /\ y.added = x.added /\ y.dropped = x.dropped /\ y.locked = x.locked
        /\ y.pc = "terminalState" /\ y.rows = x.rows
    BY ZenonT(40), <1>2 DEF Txn
  <2> HIDE DEF x, y
  <2>3. Works(y, tasks, outcomes)
    BY ZenonT(40), <1>2, <2>2 DEF Works
  <2>4. TxnInv(y, tasks, edges, outcomes, revived)
    BY ZenonT(40), <1>2, <1>3, <2>2, <2>3, SameRowsTxn
  <2>5. lockedIn(y) = lockedIn(x)
    BY <2>2 DEF lockedIn
  <2> QED
    BY ZenonT(40), <1>1, <2>1, <2>2, <2>4, <2>5, OwnStep DEF x
<1>4. CASE x.satisfied # {} /\ row(c, d).state = "blocked"
  <2> DEFINE y == [x EXCEPT !.locked = @ \cup {d}, !.pc = "promote"]
  <2>1. conn' = [conn EXCEPT ![c] = y] /\ {d} \cap lockedElsewhere(c) = {}
    BY SMTT(40), <1>4 DEF lockBlockedDependent
  <2>2. d \in x.satisfied /\ d \in TaskID
    BY <1>2, <1>4, MinIn
  <2>3. /\ y \in Txn /\ y.op = x.op /\ y.added = x.added /\ y.dropped = x.dropped /\ y.locked = x.locked \cup {d}
        /\ y.pc = "promote" /\ y.rows = x.rows /\ y.satisfied = x.satisfied
    BY ZenonT(40), <1>2, <2>2 DEF Txn
  <2> HIDE DEF x, y
  <2>4. Works(y, tasks, outcomes)
    BY ZenonT(40), <1>2, <1>4, <2>3 DEF Works
  <2>5. TxnInv(y, tasks, edges, outcomes, revived)
    BY ZenonT(40), <1>2, <2>3, <2>4, SameRowsTxn
  <2>6. lockedIn(y) \subseteq lockedIn(x) \cup {d}
    BY <2>3 DEF lockedIn
  <2>7. y.dropped \subseteq x.dropped \cup {} /\ {} \cap edgesLockedElsewhere(c) = {}
    BY <2>3
  <2> QED
    BY ZenonT(40), <1>1, <2>1, <2>5, <2>6, <2>7, LocalStep DEF x
<1>5. CASE x.satisfied # {} /\ row(c, d).state # "blocked"
  <2> DEFINE y == [x EXCEPT !.satisfied = @ \ {d}]
  <2>1. conn' = [conn EXCEPT ![c] = y]
    BY <1>5 DEF lockBlockedDependent
  <2>2. /\ y \in Txn /\ y.op = x.op /\ y.added = x.added /\ y.dropped = x.dropped /\ y.locked = x.locked
        /\ y.pc = "lock" /\ y.rows = x.rows /\ y.satisfied = x.satisfied \ {d}
    BY SMTT(40), <1>1, <1>2 DEF Txn
  <2> HIDE DEF x, y, d
  <2>3. Works(y, tasks, outcomes)
    BY SMTT(40), <1>2, <2>2 DEF Works
  <2>4. \A t \in x.satisfied : t \in y.satisfied \/ rowIn(x, tasks, t).state # "blocked"
    BY <1>2, <1>5, <2>2
  <2>5. TxnInv(y, tasks, edges, outcomes, revived)
    BY <1>2, <2>2, <2>3, <2>4, SameRowsTxn
  <2>6. lockedIn(y) = lockedIn(x)
    BY <2>2 DEF lockedIn
  <2> QED
    BY ZenonT(40), <1>1, <2>1, <2>2, <2>5, <2>6, OwnStep DEF x
<1> QED
  BY <1>3, <1>4, <1>5

\* A blocked row that shows no edge to the resolution has its dependencies decided.
LEMMA PromotableDecided ==
  ASSUME NEW T, NEW E, NEW O, NEW R, Committed(T, E, O, R), NEW x, TxnInv(x, T, E, O, R),
         x.op \in {"resolve", "sweep"}, NEW t \in TaskID, rowIn(x, T, t).state = "blocked", Plain(O, R, t),
         ~ \E d \in TaskID : <<t, d>> \in edgesIn(x, E),
         NEW d \in deps(t)
  PROVE  DecidedIn(x, O, t, d)
<1>1. Writes(x, T) /\ Drops(x, T, E, O)
  BY DEF TxnInv
<1>2. T[t].state = "blocked"
  BY <1>1 DEF Writes, rowIn
<1>3. d \in TaskID
  BY DepsAreTasks
<1>4. <<t, d>> \in E \/ Decided(O, t, d)
  BY SMTT(40), <1>2, <1>3 DEF Committed
<1>5. CASE <<t, d>> \in E
  <2>1. <<t, d>> \in x.dropped
    BY <1>3, <1>5 DEF edgesIn
  <2>2. ~gone(x, T, O, t)
    BY DEF gone, Plain
  <2> QED
    BY <1>1, <1>3, <2>1, <2>2 DEF Drops
<1> QED
  BY <1>4, <1>5 DEF DecidedIn

LEMMA PromotedStates ==
  ASSUME NEW t \in TaskID, NEW s \in promotedStates(t), NEW r \in Row
  PROVE  s \in Started /\ [r EXCEPT !.state = s] \in Row /\ [r EXCEPT !.state = s].state = s
<1>1. s \in Started
  BY DEF promotedStates, readyState, Started
<1> QED
  BY <1>1 DEF Row, State

LEMMA WaitsOnFacts ==
  ASSUME Inv, NEW c \in Conn, resolves(c), NEW t \in TaskID
  PROVE  (waitsOn(c, t) # {}) <=> \E d \in TaskID : <<t, d>> \in edgesIn(conn[c], edges)
<1>1. edgesSeen(c) = edgesIn(conn[c], edges)
  BY DEF edgesSeen, edgesIn
<1>2. edgesSeen(c) \subseteq Dependency
  BY ResolvingFacts
<1>3. ASSUME NEW e \in edgesSeen(c), e[1] = t PROVE e[2] \in TaskID /\ e = <<t, e[2]>>
  BY <1>2, <1>3 DEF Dependency
<1>4. ASSUME waitsOn(c, t) # {} PROVE \E d \in TaskID : <<t, d>> \in edgesIn(conn[c], edges)
  <2>1. PICK e \in edgesSeen(c) : e[1] = t
    BY <1>4 DEF waitsOn
  <2> QED
    BY SMTT(40), <1>1, <1>3, <2>1
<1>5. ASSUME NEW d \in TaskID, <<t, d>> \in edgesIn(conn[c], edges) PROVE <<t, d>> \in waitsOn(c, t)
  BY <1>1, <1>5 DEF waitsOn
<1> QED
  BY ZenonT(40), <1>4, <1>5

LEMMA PromoteDependentStep ==
  ASSUME Inv, NEW c \in Conn, promoteDependent(c)
  PROVE  Inv'
<1> DEFINE x == conn[c]
           d == Min(x.satisfied)
           done == [x EXCEPT !.satisfied = @ \ {d}, !.pc = "lock"]
           new(s) == [row(c, d) EXCEPT !.state = s]
<1>1. UNCHANGED <<tasks, edges, history>> /\ resolves(c) /\ x.pc = "promote"
  BY ZenonT(40) DEF promoteDependent
<1>2. /\ TxnInv(x, tasks, edges, outcomes, revived) /\ Committed(tasks, edges, outcomes, revived)
      /\ x \in Txn /\ x.op \in {"resolve", "sweep"} /\ x.satisfied \subseteq TaskID
      /\ x.rows \in [TaskID -> Row \cup {NoWrite}]
      /\ \A t : row(c, t) = rowIn(x, tasks, t)
      /\ \A t \in TaskID : row(c, t) \in Row
  BY <1>1, ResolvingFacts
<1>3. d \in x.satisfied /\ d \in TaskID /\ d \in x.locked
  BY ZenonT(40), <1>1, <1>2, MinIn DEF TxnInv, Works
<1>4. /\ done \in Txn /\ done.op = x.op /\ done.added = x.added /\ done.dropped = x.dropped
      /\ done.locked = x.locked /\ done.pc = "lock" /\ done.rows = x.rows /\ done.satisfied = x.satisfied \ {d}
  BY ZenonT(40), <1>2 DEF Txn
<1>5. CASE row(c, d).state # "blocked" \/ waitsOn(c, d) # {}
  <2>1. conn' = [conn EXCEPT ![c] = done]
    BY ZenonT(40), <1>5 DEF promoteDependent
  <2>2. waitsOn(c, d) # {} => \E u \in TaskID : <<d, u>> \in edgesIn(x, edges)
    BY ZenonT(40), <1>1, <1>3, WaitsOnFacts
  <2> HIDE DEF x, done, d
  <2>3. Works(done, tasks, outcomes)
    BY ZenonT(40), <1>2, <1>4 DEF Works
  <2>4. \A t \in x.satisfied :
            \/ t \in done.satisfied /\ done.pc \in {"lock", "promote"}
            \/ rowIn(x, tasks, t).state # "blocked"
            \/ t \in done.locked /\ \E u \in TaskID : <<t, u>> \in edgesIn(x, edges)
    BY SMTT(40), <1>2, <1>3, <1>4, <1>5, <2>2
  <2>5. TxnInv(done, tasks, edges, outcomes, revived)
    BY <1>2, <1>4, <2>3, <2>4, SameRowsTxn
  <2>6. lockedIn(done) = lockedIn(x)
    BY <1>4 DEF lockedIn
  <2> QED
    BY ZenonT(40), <1>1, <1>4, <2>1, <2>5, <2>6, OwnStep DEF x
<1>6. CASE row(c, d).state = "blocked" /\ waitsOn(c, d) = {}
  <2>1. PICK s \in promotedStates(d) :
            conn' = [conn EXCEPT ![c] = IF indexed(new(s)) /\ violates(c, d) THEN Free
                                        ELSE [done EXCEPT !.rows[d] = new(s)]]
    BY ZenonT(40), <1>6 DEF promoteDependent
  <2>2. CASE indexed(new(s)) /\ violates(c, d)
    BY ZenonT(40), <1>1, <2>1, <2>2, FreeStep
  <2>3. CASE ~(indexed(new(s)) /\ violates(c, d))
    <3> DEFINE y == [done EXCEPT !.rows[d] = new(s)]
    <3>1. conn' = [conn EXCEPT ![c] = y]
      BY ZenonT(40), <2>1, <2>3
    <3>2. s \in Started /\ new(s) \in Row /\ new(s).state = s
      BY <1>2, <1>3, PromotedStates
    <3>3. ~ \E u \in TaskID : <<d, u>> \in edgesIn(x, edges)
      BY ZenonT(40), <1>1, <1>3, <1>6, WaitsOnFacts
    <3> HIDE DEF x, done, d, new
    <3>4. /\ y \in Txn /\ y.op = x.op /\ y.added = x.added /\ y.dropped = x.dropped /\ y.locked = x.locked
          /\ y.pc = "lock" /\ y.satisfied = x.satisfied \ {d} /\ y.rows = [x.rows EXCEPT ![d] = new(s)]
      BY ZenonT(40), <1>2, <1>3, <1>4, <3>2 DEF Txn
    <3> HIDE DEF y
    <3>5. Works(y, tasks, outcomes)
      BY ZenonT(40), <1>2, <3>4 DEF Works
    <3> DEFINE S == {d}
    <3>6. S \in SUBSET TaskID /\ y.rows[d] = new(s) /\ \A t \in TaskID \ S : y.rows[t] = x.rows[t]
      BY ZenonT(40), <1>2, <1>3, <3>4
    <3>7. Plain(outcomes, revived, d) => \A u \in deps(d) : DecidedIn(x, outcomes, d, u)
      BY <1>2, <1>3, <1>6, <3>3, PromotableDecided
    <3>8. \A t \in S : /\ rowIn(x, tasks, t).state = "blocked"
                       /\ y.rows[t] \in Row /\ y.rows[t].state \in {"canceled"} \cup Started
                       /\ Plain(outcomes, revived, t) /\ y.rows[t].state \in Started =>
                              \A u \in deps(t) : DecidedIn(x, outcomes, t, u)
      BY ZenonT(40), <1>2, <1>6, <3>2, <3>6, <3>7
    <3>9. rowIn(y, tasks, d).state # "blocked"
      BY <3>2, <3>6, PostgresAssumption DEF rowIn, Started
    <3>10. \A t \in x.satisfied : (t \in y.satisfied /\ y.pc \in {"lock", "promote"}) \/ rowIn(y, tasks, t).state # "blocked"
      BY <3>4, <3>9
    <3>11. TxnInv(y, tasks, edges, outcomes, revived)
      <4> HIDE DEF S
      <4>1. y.op = x.op /\ y.pc # "insert" /\ y.added = x.added /\ y.dropped = x.dropped /\ x.locked \subseteq y.locked
        BY <3>4
      <4>2. \A t \in x.satisfied :
                \/ t \in y.satisfied /\ y.pc \in {"lock", "promote"}
                \/ rowIn(y, tasks, t).state # "blocked"
                \/ t \in y.locked /\ \E u \in TaskID : <<t, u>> \in edgesIn(x, edges)
        BY <3>10
      <4> QED
        BY ZenonT(40), <1>2, <3>4, <3>5, <3>6, <3>8, <4>1, <4>2, WrittenTxn
    <3>12. lockedIn(y) \subseteq lockedIn(x)
      BY SMTT(40), <1>3, <3>4, <3>6 DEF lockedIn
    <3> QED
      BY ZenonT(40), <1>1, <3>1, <3>4, <3>11, <3>12, OwnStep DEF x
  <2> QED
    BY SMTT(40), <2>2, <2>3
<1> QED
  BY <1>5, <1>6

LEMMA PromoteOrphanBlockedStep ==
  ASSUME Inv, NEW c \in Conn, promoteOrphanBlocked(c)
  PROVE  Inv'
<1> DEFINE x == conn[c]
<1>1. UNCHANGED <<tasks, edges, history>> /\ x.op = "sweep" /\ x.pc = "terminalState" /\ resolves(c)
  BY DEF promoteOrphanBlocked, at, resolves
<1>2. PICK S \in limited(orphans(c)) :
          \E state \in {f \in [S -> State] : \A t \in S : f[t] \in promotedStates(t)} :
              conn' = [conn EXCEPT ![c] =
                  IF \E t \in {u \in S : indexed([row(c, u) EXCEPT !.state = state[u]])} : violates(c, t) THEN Free
                  ELSE [conn[c] EXCEPT !.pc = "commit",
                            !.rows = [t \in TaskID |-> IF t \in S THEN [row(c, t) EXCEPT !.state = state[t]] ELSE @[t]]]]
  BY ZenonT(40) DEF promoteOrphanBlocked
<1>3. PICK state \in {f \in [S -> State] : \A t \in S : f[t] \in promotedStates(t)} :
          conn' = [conn EXCEPT ![c] =
              IF \E t \in {u \in S : indexed([row(c, u) EXCEPT !.state = state[u]])} : violates(c, t) THEN Free
              ELSE [conn[c] EXCEPT !.pc = "commit",
                        !.rows = [t \in TaskID |-> IF t \in S THEN [row(c, t) EXCEPT !.state = state[t]] ELSE @[t]]]]
  BY ZenonT(40), <1>2
<1>4. S \subseteq orphans(c)
  BY <1>2 DEF limited
<1>5. S \in SUBSET TaskID /\ S \cap lockedElsewhere(c) = {}
      /\ \A t \in S : row(c, t).state = "blocked" /\ waitsOn(c, t) = {}
  BY <1>4 DEF orphans
<1> DEFINE new(t) == [row(c, t) EXCEPT !.state = state[t]]
           rows == [t \in TaskID |-> IF t \in S THEN new(t) ELSE x.rows[t]]
           y == [x EXCEPT !.pc = "commit", !.rows = rows]
<1>6. conn' = [conn EXCEPT ![c] = Free] \/ conn' = [conn EXCEPT ![c] = y]
  BY ZenonT(40), <1>3
<1>7. CASE conn' = [conn EXCEPT ![c] = Free]
  BY ZenonT(40), <1>1, <1>7, FreeStep
<1>8. CASE conn' = [conn EXCEPT ![c] = y]
  <2>1. /\ TxnInv(x, tasks, edges, outcomes, revived) /\ Committed(tasks, edges, outcomes, revived)
        /\ x \in Txn /\ x.op \in {"resolve", "sweep"}
        /\ x.rows \in [TaskID -> Row \cup {NoWrite}]
        /\ \A t : row(c, t) = rowIn(x, tasks, t)
        /\ \A t \in TaskID : row(c, t) \in Row
    BY ZenonT(40), <1>1, ResolvingFacts
  <2>2. \A t \in S : state[t] \in Started /\ new(t) \in Row /\ new(t).state = state[t]
    BY <1>3, <1>5, <2>1, PromotedStates
  <2>3. \A t \in S : ~ \E u \in TaskID : <<t, u>> \in edgesIn(x, edges)
    BY ZenonT(40), <1>1, <1>5, WaitsOnFacts
  <2> HIDE DEF new
  <2>4. rows \in [TaskID -> Row \cup {NoWrite}]
    BY ZenonT(40), <1>5, <2>1, <2>2
  <2>5. (\A t \in S : rows[t] = new(t)) /\ \A t \in TaskID \ S : rows[t] = x.rows[t]
    BY <1>5
  <2> HIDE DEF rows
  <2>6. /\ y \in Txn /\ y.op = x.op /\ y.added = x.added /\ y.dropped = x.dropped /\ y.locked = x.locked
        /\ y.pc = "commit" /\ y.rows = rows
    BY ZenonT(40), <2>1, <2>4 DEF Txn
  <2> HIDE DEF x, y
  <2>7. Works(y, tasks, outcomes)
    BY ZenonT(40), <2>1, <2>6 DEF Works
  <2>8. \A t \in S : Plain(outcomes, revived, t) => \A u \in deps(t) : DecidedIn(x, outcomes, t, u)
    BY ZenonT(40), <1>5, <2>1, <2>3, PromotableDecided
  <2>9. \A t \in S : /\ rowIn(x, tasks, t).state = "blocked"
                     /\ y.rows[t] \in Row /\ y.rows[t].state \in {"canceled"} \cup Started
                     /\ Plain(outcomes, revived, t) /\ y.rows[t].state \in Started =>
                            \A u \in deps(t) : DecidedIn(x, outcomes, t, u)
    BY ZenonT(40), <1>5, <2>1, <2>2, <2>5, <2>6, <2>8
  <2>10. TxnInv(y, tasks, edges, outcomes, revived)
    BY ZenonT(40), <1>1, <1>5, <2>1, <2>5, <2>6, <2>7, <2>9, WrittenTxn
  <2>11. lockedIn(y) \subseteq lockedIn(x) \cup S
    BY ZenonT(40), <2>5, <2>6 DEF lockedIn
  <2>12. y.dropped \subseteq x.dropped \cup {} /\ {} \cap edgesLockedElsewhere(c) = {}
    BY SMTT(40), <2>6
  <2> QED
    BY ZenonT(40), <1>1, <1>5, <1>8, <2>10, <2>11, <2>12, LocalStep DEF x
<1> QED
  BY <1>6, <1>7, <1>8

(***************************************************************************)
(* Enqueueing                                                              *)
(***************************************************************************)
\* An enqueue drops no edges and locks only what it writes, so it is enough to
\* look at what it writes.
LEMMA EnqueueTxn ==
  ASSUME NEW T, NEW E, NEW O, NEW R, NEW y \in Txn,
         y.op = "enqueue", y.dropped = {}, y.locked = {}, y.pc \in {"read", "insert"},
         y.pc = "insert" => y.todo # <<>>,
         Writes(y, T), Inserts(y, T, O, R)
  PROVE  TxnInv(y, T, E, O, R)
<1>1. Modes(y)
  BY SMTT(40) DEF Modes
<1>2. Drops(y, T, E, O) /\ Wakes(y, T, E, O) /\ Works(y, T, O)
  BY DEF Drops, Wakes, Works
<1> QED
  BY <1>1, <1>2 DEF TxnInv

LEMMA EnqueueFacts ==
  ASSUME Inv, NEW c \in Conn, conn[c].op = "enqueue"
  PROVE  /\ Committed(tasks, edges, outcomes, revived)
         /\ conn[c] \in Txn /\ conn[c].dropped = {} /\ conn[c].locked = {} /\ conn[c].pc \in {"read", "insert"}
         /\ Writes(conn[c], tasks) /\ Inserts(conn[c], tasks, outcomes, revived)
         /\ conn[c].pc = "insert" => conn[c].todo # <<>>
         /\ conn[c].rows \in [TaskID -> Row \cup {NoWrite}] /\ tasks \in [TaskID -> Row] /\ edges \subseteq Dependency
         /\ conn[c].todo \in Seq(TaskID)
         /\ edgesSeen(c) = edges \cup conn[c].added
         /\ \A t : row(c, t) = rowIn(conn[c], tasks, t)
         /\ \A t \in TaskID : row(c, t) \in Row
<1>1. TxnInv(conn[c], tasks, edges, outcomes, revived) /\ Committed(tasks, edges, outcomes, revived)
  BY DEF Inv
<1>2. conn[c] \in Txn /\ Modes(conn[c]) /\ Writes(conn[c], tasks) /\ Inserts(conn[c], tasks, outcomes, revived)
  BY SMTT(40), <1>1 DEF TxnInv
<1>3. conn[c].rows \in [TaskID -> Row \cup {NoWrite}] /\ conn[c].todo \in Seq(TaskID)
  BY SMTT(40), <1>2 DEF Txn
<1>4. tasks \in [TaskID -> Row] /\ edges \subseteq Dependency
  BY <1>1 DEF Committed
<1>5. /\ conn[c].dropped = {} /\ conn[c].locked = {} /\ conn[c].pc \in {"read", "insert"}
      /\ conn[c].pc = "insert" => conn[c].todo # <<>>
  BY <1>2 DEF Modes
<1>6. \A t : row(c, t) = rowIn(conn[c], tasks, t)
  BY DEF row, rowIn
<1>7. \A t \in TaskID : row(c, t) \in Row
  BY SMTT(40), <1>3, <1>4 DEF row
<1>8. edgesSeen(c) = edges \cup conn[c].added
  BY <1>5 DEF edgesSeen
<1> QED
  BY ZenonT(40), <1>1, <1>2, <1>3, <1>4, <1>5, <1>6, <1>7, <1>8

LEMMA ResolveInitialDepsStep ==
  ASSUME Inv, NEW c \in Conn, resolveInitialDeps(c)
  PROVE  Inv'
<1> DEFINE x == conn[c]
           t0 == Head(x.todo)
           L == {u \in sameKey(t0) \cup {t0} : options[t0].uniqueKey # NoKey /\ row(c, u).claim = "lapsed"}
           rows == [u \in TaskID |-> IF u \in L THEN [row(c, u) EXCEPT !.claim = "none"] ELSE x.rows[u]]
           cancel == \E d \in DOMAIN options[t0].dependsOn :
                         row(c, d).state \in Failed /\ policy(t0, d) = "CASCADE_CANCEL"
           y == [x EXCEPT !.rows = rows, !.unsatisfied = unsatisfied(c, t0), !.cancel = cancel, !.pc = "insert"]
<1>1. /\ conn' = [conn EXCEPT ![c] = y] /\ UNCHANGED <<tasks, edges, history>>
      /\ x.op = "enqueue" /\ x.pc = "read" /\ x.todo # <<>> /\ L \cap lockedElsewhere(c) = {}
  BY DEF resolveInitialDeps, at
<1>2. /\ Committed(tasks, edges, outcomes, revived)
      /\ x \in Txn /\ x.dropped = {} /\ x.locked = {} /\ x.todo \in Seq(TaskID)
      /\ Writes(x, tasks) /\ Inserts(x, tasks, outcomes, revived)
      /\ x.rows \in [TaskID -> Row \cup {NoWrite}] /\ tasks \in [TaskID -> Row]
      /\ \A t : row(c, t) = rowIn(x, tasks, t)
      /\ \A t \in TaskID : row(c, t) \in Row
  BY SMTT(40), <1>1, EnqueueFacts
<1>3. t0 \in TaskID
  BY <1>1, <1>2, SeqFacts
<1>4. L \subseteq TaskID /\ \A u \in L : row(c, u).claim = "lapsed"
  BY <1>3 DEF sameKey
<1>5. unsatisfied(c, t0) = {d \in deps(t0) : ~accepts(row(c, d).state, t0, d)}
  BY DEF unsatisfied, deps
<1>6. unsatisfied(c, t0) \subseteq TaskID /\ unsatisfied(c, t0) \subseteq deps(t0)
  BY ZenonT(40), <1>3, <1>5, DepsAreTasks
<1>7. cancel \in BOOLEAN
  OBVIOUS
<1> HIDE DEF L, cancel
<1>8. rows \in [TaskID -> Row \cup {NoWrite}] /\ \A u \in L : rows[u] \in Row /\ rows[u].state = row(c, u).state
  BY SMTT(40), <1>2, <1>4 DEF Row
<1>9. \A u \in TaskID \ L : rows[u] = x.rows[u]
  OBVIOUS
<1> HIDE DEF rows
<1>10. /\ y \in Txn /\ y.op = "enqueue" /\ y.pc = "insert" /\ y.added = x.added /\ y.dropped = {} /\ y.locked = {}
       /\ y.rows = rows /\ y.todo = x.todo /\ y.unsatisfied = unsatisfied(c, t0)
  BY ZenonT(40), <1>1, <1>2, <1>6, <1>7, <1>8 DEF Txn
<1> HIDE DEF x, y, t0
<1>11. ASSUME NEW u \in TaskID
       PROVE  /\ y.rows[u] = NoWrite => x.rows[u] = NoWrite
              /\ x.rows[u] # NoWrite => y.rows[u] # NoWrite /\ y.rows[u].state = x.rows[u].state
              /\ x.rows[u] = NoWrite /\ y.rows[u] # NoWrite =>
                     y.rows[u].state = tasks[u].state /\ tasks[u].state # "absent"
  <2>1. CASE u \notin L
    BY SMTT(40), <1>9, <1>10, <2>1
  <2>2. CASE u \in L
    <3>1. y.rows[u] # NoWrite /\ y.rows[u].state = row(c, u).state
      BY <1>8, <1>10, <2>2, PostgresAssumption
    <3>2. CASE x.rows[u] # NoWrite
      BY SMTT(40), <1>2, <3>1, <3>2 DEF rowIn
    <3>3. CASE x.rows[u] = NoWrite
      <4>1. row(c, u) = tasks[u]
        BY ZenonT(40), <1>2, <3>3 DEF rowIn
      <4>2. tasks[u].claim # "none"
        BY SMTT(40), <1>4, <2>2, <4>1
      <4> QED
        BY ZenonT(40), <1>2, <3>1, <3>3, <4>1, <4>2 DEF Committed
    <3> QED
      BY SMTT(40), <3>2, <3>3
  <2> QED
    BY SMTT(40), <2>1, <2>2
<1>12. ASSUME NEW u, NEW d \in TaskID, DecidedIn(x, outcomes, u, d) PROVE DecidedIn(y, outcomes, u, d)
  BY ZenonT(40), <1>11, <1>12 DEF DecidedIn
<1>13. Writes(y, tasks)
  BY ZenonT(40), <1>2, <1>10, <1>11 DEF Writes
<1>14. Inserts(y, tasks, outcomes, revived)
  <2>1. ASSUME NEW u \in TaskID, y.rows[u] # NoWrite, Plain(outcomes, revived, u), NEW d \in deps(u)
        PROVE  /\ y.rows[u].state \in Started => DecidedIn(y, outcomes, u, d)
               /\ y.rows[u].state = "blocked" /\ tasks[u].state = "absent" =>
                     <<u, d>> \in y.added \/ DecidedIn(y, outcomes, u, d)
    <3>1. d \in TaskID
      BY ZenonT(40), DepsAreTasks
    <3>2. CASE x.rows[u] # NoWrite
      BY ZenonT(40), <1>2, <1>10, <1>11, <1>12, <2>1, <3>1, <3>2 DEF Inserts
    <3>3. CASE x.rows[u] = NoWrite
      BY ZenonT(40), <1>2, <1>11, <2>1, <3>3 DEF Committed, DecidedIn
    <3> QED
      BY <3>2, <3>3
  <2>2. ASSUME NEW u \in TaskID, y.rows[u] # NoWrite, y.rows[u].state = "blocked", tasks[u].state = "absent",
               ~Removed(outcomes, u)
        PROVE  \E d \in deps(u) : <<u, d>> \in y.added
    <3>1. x.rows[u] # NoWrite /\ x.rows[u].state = "blocked"
      BY SMTT(40), <1>11, <2>2
    <3> QED
      BY ZenonT(40), <1>2, <1>10, <2>2, <3>1 DEF Inserts
  <2>3. \A u, d \in TaskID : <<u, d>> \in y.added => y.rows[u] # NoWrite
    BY ZenonT(40), <1>2, <1>10, <1>11 DEF Inserts
  <2>4. ASSUME NEW d \in deps(t0), d \notin y.unsatisfied PROVE DecidedIn(y, outcomes, t0, d)
    <3>1. d \in TaskID /\ accepts(row(c, d).state, t0, d)
      BY ZenonT(40), <1>3, <1>5, <1>10, <2>4, DepsAreTasks
    <3>2. CASE x.rows[d] # NoWrite
      BY ZenonT(40), <1>2, <1>11, <3>1, <3>2 DEF DecidedIn, rowIn
    <3>3. CASE x.rows[d] = NoWrite
      <4>1. tasks[d].state \in Terminal /\ row(c, d) = tasks[d]
        BY <1>2, <3>1, <3>3 DEF rowIn, accepts, Terminal, Failed
      <4>2. tasks[d].state \in outcomes[d]
        BY ZenonT(40), <1>2, <3>1, <4>1 DEF Committed
      <4> QED
        BY <3>1, <4>1, <4>2 DEF DecidedIn, Decided
    <3> QED
      BY SMTT(40), <3>2, <3>3
  <2>5. y.unsatisfied \subseteq deps(Head(y.todo)) /\ Head(y.todo) = t0
    BY SMTT(40), <1>6, <1>10 DEF t0
  <2> QED
    BY ZenonT(40), <2>1, <2>2, <2>3, <2>4, <2>5 DEF Inserts
<1>15. TxnInv(y, tasks, edges, outcomes, revived)
  BY ZenonT(40), <1>1, <1>10, <1>13, <1>14, EnqueueTxn
<1>16. lockedIn(y) \subseteq lockedIn(x) \cup L
  BY ZenonT(40), <1>2, <1>9, <1>10 DEF lockedIn
<1>17. y.dropped \subseteq x.dropped \cup {} /\ {} \cap edgesLockedElsewhere(c) = {}
  BY <1>10
<1> QED
  BY ZenonT(40), <1>1, <1>15, <1>16, <1>17, LocalStep DEF x

LEMMA NewRow ==
  ASSUME NEW s \in State, NEW k \in {"none", "held"}, NEW r, r = [NoRow EXCEPT !.state = s, !.claim = k]
  PROVE  r \in Row /\ r.state = s
<1>1. NoRow \in Row
  BY DEF NoRow, Row, State
<1> QED
  BY ZenonT(40), <1>1 DEF Row

LEMMA InsertTaskStep ==
  ASSUME Inv, NEW c \in Conn, insertTask(c)
  PROVE  Inv'
<1> DEFINE x == conn[c]
           t == Head(x.todo)
           new == [NoRow EXCEPT
                      !.state = IF x.cancel THEN "canceled"
                                ELSE IF x.unsatisfied # {} THEN "blocked" ELSE readyState(t),
                      !.claim = IF options[t].uniqueKey = NoKey THEN "none" ELSE "held"]
           N == IF new.state = "blocked" THEN {<<t, d>> : d \in x.unsatisfied} ELSE {}
           done == [x EXCEPT !.todo = Tail(@), !.pc = "read", !.unsatisfied = {}, !.cancel = FALSE]
           y == [done EXCEPT !.rows[t] = new, !.added = @ \cup (N \ edgesSeen(c))]
<1>1. /\ UNCHANGED <<tasks, edges, history>> /\ x.op = "enqueue" /\ x.pc = "insert" /\ t \notin lockedElsewhere(c)
      /\ \/ conn' = [conn EXCEPT ![c] = done]
         \/ conn' = [conn EXCEPT ![c] = Free]
         \/ row(c, t).state = "absent" /\ conn' = [conn EXCEPT ![c] = y]
  BY DEF insertTask, at
<1>2. /\ Committed(tasks, edges, outcomes, revived)
      /\ x \in Txn /\ x.dropped = {} /\ x.locked = {} /\ x.todo \in Seq(TaskID) /\ x.todo # <<>>
      /\ Writes(x, tasks) /\ Inserts(x, tasks, outcomes, revived)
      /\ x.rows \in [TaskID -> Row \cup {NoWrite}] /\ tasks \in [TaskID -> Row]
      /\ edgesSeen(c) = edges \cup x.added
      /\ \A u : row(c, u) = rowIn(x, tasks, u)
  BY <1>1, EnqueueFacts
<1>3. t \in TaskID /\ Tail(x.todo) \in Seq(TaskID)
  BY ZenonT(40), <1>2, SeqFacts
<1>4. CASE conn' = [conn EXCEPT ![c] = done]
  <2>1. /\ done \in Txn /\ done.op = "enqueue" /\ done.pc = "read" /\ done.added = x.added
        /\ done.dropped = {} /\ done.locked = {} /\ done.rows = x.rows
    BY ZenonT(40), <1>1, <1>2, <1>3 DEF Txn
  <2> HIDE DEF done, x
  <2>2. Writes(done, tasks)
    BY <1>1, <1>2, <2>1 DEF Writes
  <2>3. \A u, d : DecidedIn(done, outcomes, u, d) <=> DecidedIn(x, outcomes, u, d)
    BY <2>1 DEF DecidedIn
  <2>4. Inserts(done, tasks, outcomes, revived)
    BY ZenonT(40), <1>2, <2>1, <2>3 DEF Inserts
  <2>5. TxnInv(done, tasks, edges, outcomes, revived)
    BY ZenonT(40), <2>1, <2>2, <2>4, EnqueueTxn
  <2>6. lockedIn(done) \subseteq lockedIn(x) /\ done.dropped \subseteq x.dropped
    BY SMTT(40), <1>2, <2>1 DEF lockedIn
  <2> QED
    BY ZenonT(40), <1>1, <1>4, <2>5, <2>6, OwnStep DEF x
<1>5. CASE conn' = [conn EXCEPT ![c] = Free]
  BY ZenonT(40), <1>1, <1>5, FreeStep
<1>6. CASE row(c, t).state = "absent" /\ conn' = [conn EXCEPT ![c] = y]
  <2>1. x.rows[t] = NoWrite /\ tasks[t].state = "absent"
    BY SMTT(40), <1>2, <1>3, <1>6 DEF rowIn, Writes
  <2>2. readyState(t) \in {"aggregating", "scheduled", "pending"}
    BY DEF readyState
  <2>3. /\ new \in Row /\ new.state \in {"canceled", "blocked", "aggregating", "scheduled", "pending"}
        /\ new.state \in Started => ~x.cancel /\ x.unsatisfied = {}
        /\ new.state = "blocked" => ~x.cancel /\ x.unsatisfied # {}
        /\ new # NoWrite
    <3> DEFINE s == IF x.cancel THEN "canceled" ELSE IF x.unsatisfied # {} THEN "blocked" ELSE readyState(t)
               k == IF options[t].uniqueKey = NoKey THEN "none" ELSE "held"
    <3>1. k \in {"none", "held"} /\ s \in {"canceled", "blocked", "aggregating", "scheduled", "pending"}
      BY SMTT(40), <2>2
    <3>2. /\ s \in Started => ~x.cancel /\ x.unsatisfied = {}
          /\ s = "blocked" => ~x.cancel /\ x.unsatisfied # {}
      BY <2>2 DEF Started
    <3>3. new = [NoRow EXCEPT !.state = s, !.claim = k]
      BY Zenon
    <3> HIDE DEF new, s, k
    <3>4. new \in Row /\ new.state = s
      BY ZenonT(40), <3>1, <3>3, NewRow DEF State, Started, Terminal
    <3>5. new # NoWrite
      BY <3>4, PostgresAssumption
    <3> QED
      BY <3>1, <3>2, <3>4, <3>5
  <2>4. x.unsatisfied \subseteq deps(t)
    BY SMTT(40), <1>1, <1>2 DEF Inserts
  <2> HIDE DEF new
  <2>5. /\ N \subseteq Dependency /\ (new.state = "blocked" => \A d \in x.unsatisfied : <<t, d>> \in N)
        /\ \A u, d \in TaskID : <<u, d>> \in N => u = t
    <3> HIDE DEF x, t
    <3>1. \A d \in x.unsatisfied : <<t, d>> \in Dependency
      BY <1>3, <2>4, DepsAreTasks
    <3> QED
      BY <3>1
  <2> HIDE DEF N
  <2>6. /\ y \in Txn /\ y.op = "enqueue" /\ y.pc = "read" /\ y.added = x.added \cup (N \ edgesSeen(c))
        /\ y.dropped = {} /\ y.locked = {} /\ y.rows[t] = new /\ \A u \in TaskID \ {t} : y.rows[u] = x.rows[u]
    <3>1. done \in Txn
      BY ZenonT(40), <1>2, <1>3 DEF Txn
    <3>2. /\ done.op = "enqueue" /\ done.pc = "read" /\ done.added = x.added
          /\ done.dropped = {} /\ done.locked = {} /\ done.rows = x.rows
      BY SMTT(40), <1>1, <1>2 DEF Txn
    <3> HIDE DEF done
    <3> QED
      BY ZenonT(40), <1>2, <1>3, <2>3, <2>5, <3>1, <3>2 DEF Txn
  <2> HIDE DEF x, y, t
  <2>7. ASSUME NEW u, NEW d \in TaskID, DecidedIn(x, outcomes, u, d) PROVE DecidedIn(y, outcomes, u, d)
    BY <2>1, <2>6, <2>7 DEF DecidedIn
  <2>8. Writes(y, tasks)
    BY SMTT(40), <1>1, <1>2, <2>1, <2>3, <2>6 DEF Writes
  <2>9. Inserts(y, tasks, outcomes, revived)
    <3>1. ASSUME NEW d \in deps(t), ~Removed(outcomes, t), new.state = "blocked", d \in x.unsatisfied
          PROVE  <<t, d>> \in y.added
      <4>1. d \in TaskID /\ <<t, d>> \notin edges
        BY ZenonT(40), <1>2, <1>3, <2>1, <3>1, DepsAreTasks DEF Committed
      <4> QED
        BY ZenonT(40), <1>2, <2>5, <2>6, <3>1, <4>1
    <3>2. ASSUME NEW d \in deps(t), ~x.cancel PROVE d \in x.unsatisfied \/ DecidedIn(y, outcomes, t, d)
      <4>1. d \in TaskID
        BY ZenonT(40), <1>3, DepsAreTasks
      <4>2. d \in x.unsatisfied \/ DecidedIn(x, outcomes, t, d)
        BY <1>1, <1>2, <3>2 DEF Inserts, t
      <4> QED
        BY <2>7, <4>1, <4>2
    <3>3. ASSUME NEW u \in TaskID, y.rows[u] # NoWrite, Plain(outcomes, revived, u), NEW d \in deps(u)
          PROVE  /\ y.rows[u].state \in Started => DecidedIn(y, outcomes, u, d)
                 /\ y.rows[u].state = "blocked" /\ tasks[u].state = "absent" =>
                       <<u, d>> \in y.added \/ DecidedIn(y, outcomes, u, d)
      <4>1. d \in TaskID
        BY DepsAreTasks
      <4>2. CASE u = t
        BY SMTT(40), <2>3, <2>6, <3>1, <3>2, <3>3, <4>2 DEF Plain
      <4>3. CASE u # t
        <5>1. /\ x.rows[u].state \in Started => DecidedIn(x, outcomes, u, d)
              /\ x.rows[u].state = "blocked" /\ tasks[u].state = "absent" =>
                    <<u, d>> \in x.added \/ DecidedIn(x, outcomes, u, d)
          BY ZenonT(40), <1>2, <2>6, <3>3, <4>3 DEF Inserts
        <5> QED
          BY <2>6, <2>7, <4>1, <4>3, <5>1
      <4> QED
        BY SMTT(40), <4>2, <4>3
    <3>4. ASSUME NEW u \in TaskID, y.rows[u] # NoWrite, y.rows[u].state = "blocked", tasks[u].state = "absent",
                 ~Removed(outcomes, u)
          PROVE  \E d \in deps(u) : <<u, d>> \in y.added
      <4>1. CASE u = t
        <5>1. PICK d : d \in x.unsatisfied
          BY <2>3, <2>6, <3>4, <4>1
        <5> QED
          BY ZenonT(40), <2>4, <2>6, <3>1, <3>4, <4>1, <5>1
      <4>2. CASE u # t
        <5>1. \E d \in deps(u) : <<u, d>> \in x.added
          BY ZenonT(40), <1>2, <2>6, <3>4, <4>2 DEF Inserts
        <5> QED
          BY <2>6, <5>1
      <4> QED
        BY <4>1, <4>2
    <3>5. \A u, d \in TaskID : <<u, d>> \in y.added => y.rows[u] # NoWrite
      BY ZenonT(40), <1>2, <1>3, <2>3, <2>5, <2>6 DEF Inserts
    <3> QED
      BY ZenonT(40), <2>6, <3>3, <3>4, <3>5 DEF Inserts
  <2>10. TxnInv(y, tasks, edges, outcomes, revived)
    BY <2>6, <2>8, <2>9, EnqueueTxn
  <2>11. lockedIn(y) \subseteq lockedIn(x) \cup {t} /\ {t} \cap lockedElsewhere(c) = {}
    BY <1>1, <1>2, <2>6 DEF lockedIn
  <2>12. y.dropped \subseteq x.dropped \cup {} /\ {} \cap edgesLockedElsewhere(c) = {}
    BY <2>6
  <2> QED
    BY ZenonT(40), <1>1, <1>6, <2>10, <2>11, <2>12, LocalStep DEF x
<1> QED
  BY <1>1, <1>4, <1>5, <1>6

(***************************************************************************)
(* Transactions begin and are rolled back                                  *)
(***************************************************************************)
LEMMA BeginStep ==
  ASSUME Inv, NEW c \in Conn, NEW y, UNCHANGED <<tasks, edges, history>>,
         NEW o \in {"enqueue", "resolve", "sweep", "delete"}, NEW p \in {"read", "terminalState", "delete"},
         NEW q \in Seq(TaskID), o = "enqueue" => p = "read", o = "delete" => q # <<>> /\ p = "delete",
         y = [Free EXCEPT !.op = o, !.pc = p, !.todo = q],
         conn' = [conn EXCEPT ![c] = y]
  PROVE  Inv'
<1>1. Committed(tasks, edges, outcomes, revived)
  BY DEF Inv
<1>2. /\ o \in {"none", "enqueue", "resolve", "sweep", "delete", "purge"}
      /\ p \in {"idle", "read", "terminalState", "delete", "edges", "completed", "archived"}
      /\ o = "delete" => q # <<>> /\ (p = "delete" \/ (p = "edges" /\ Removed(outcomes, Head(q))))
  OBVIOUS
<1>3. TxnInv(y, tasks, edges, outcomes, revived) /\ lockedIn(y) = {} /\ y.dropped = {}
  BY ZenonT(40), <1>1, <1>2, BeginTxn
<1> QED
  BY ZenonT(40), <1>3, OwnStep

LEMMA ResolvingStep ==
  ASSUME Inv, NEW c \in Conn, UNCHANGED <<tasks, edges, history>>,
         NEW o \in {"resolve", "sweep"}, NEW q \in Seq(TaskID), resolving(c, q, o)
  PROVE  Inv'
<1> DEFINE y == [Free EXCEPT !.op = o, !.pc = "terminalState", !.todo = q]
<1>1. conn' = [conn EXCEPT ![c] = y]
  BY DEF resolving
<1>2. y = [Free EXCEPT !.op = o, !.pc = "terminalState", !.todo = q]
  OBVIOUS
<1> HIDE DEF y
<1> QED
  BY ZenonT(40), <1>1, <1>2, BeginStep

LEMMA BeginSteps ==
  ASSUME Inv, NEW c \in Conn,
         \/ \E b \in Seq(TaskID) \ {<<>>} : enqueueWithEdges(c, b)
         \/ \E t \in TaskID : ResolveDependents(c, t)
         \/ PromoteReadyDependents(c)
         \/ \E t \in TaskID : DeleteTask(c, t)
  PROVE  Inv'
<1>1. CASE \E b \in Seq(TaskID) \ {<<>>} : enqueueWithEdges(c, b)
  <2>1. PICK b \in Seq(TaskID) \ {<<>>} : enqueueWithEdges(c, b)
    BY <1>1
  <2> DEFINE y == [Free EXCEPT !.op = "enqueue", !.pc = "read", !.todo = b]
  <2>2. conn' = [conn EXCEPT ![c] = y] /\ UNCHANGED <<tasks, edges, history>>
    BY ZenonT(40), <2>1 DEF enqueueWithEdges
  <2>3. y = [Free EXCEPT !.op = "enqueue", !.pc = "read", !.todo = b] /\ b \in Seq(TaskID)
    OBVIOUS
  <2> HIDE DEF y
  <2> QED
    BY ZenonT(40), <2>2, <2>3, BeginStep
<1>2. CASE \E t \in TaskID : ResolveDependents(c, t)
  <2>1. PICK t \in TaskID : ResolveDependents(c, t)
    BY <1>2
  <2> DEFINE q == <<t>>
  <2>2. q \in Seq(TaskID)
    OBVIOUS
  <2> HIDE DEF q
  <2>3. resolving(c, q, "resolve") /\ UNCHANGED <<tasks, edges, history>>
    BY SMTT(40), <2>1 DEF ResolveDependents, q
  <2> QED
    BY <2>2, <2>3, ResolvingStep
<1>3. CASE PromoteReadyDependents(c)
  <2>1. PICK n \in 0..Limit : \E todo \in [1..n -> ready] : resolving(c, todo, "sweep")
    BY SMTT(40), <1>3 DEF PromoteReadyDependents
  <2>2. PICK q \in [1..n -> ready] : resolving(c, q, "sweep")
    BY SMTT(40), <2>1
  <2>3. n \in Nat
    BY <2>1, PostgresAssumption
  <2>4. q \in Seq(TaskID)
    BY SMTT(40), <2>2, <2>3 DEF ready
  <2> QED
    BY <1>3, <2>2, <2>4, ResolvingStep DEF PromoteReadyDependents
<1>4. CASE \E t \in TaskID : DeleteTask(c, t)
  <2>1. PICK t \in TaskID : DeleteTask(c, t)
    BY <1>4
  <2> DEFINE q == <<t>>
           y == [Free EXCEPT !.op = "delete", !.pc = "delete", !.todo = q]
  <2>2. q \in Seq(TaskID) /\ q # <<>>
    OBVIOUS
  <2>3. conn' = [conn EXCEPT ![c] = y] /\ UNCHANGED <<tasks, edges, history>>
    BY ZenonT(40), <2>1 DEF DeleteTask
  <2> HIDE DEF q
  <2>4. y = [Free EXCEPT !.op = "delete", !.pc = "delete", !.todo = q]
    OBVIOUS
  <2> HIDE DEF y
  <2> QED
    BY ZenonT(40), <2>2, <2>3, <2>4, BeginStep
<1> QED
  BY SMTT(40), <1>1, <1>2, <1>3, <1>4

LEMMA RollbackStep ==
  ASSUME Inv, NEW c \in Conn, Rollback(c)
  PROVE  Inv'
BY ZenonT(40), FreeStep DEF Rollback, rollback
=============================================================================
