------------------------------ MODULE Migrations ------------------------------
(***************************************************************************)
(* Schema migration at boot (internal/broker/postgres/migrate.go): nodes   *)
(* of one or two releases boot against one database, any of them may fail  *)
(* or die at any statement, and each boots again.                          *)
(*                                                                         *)
(* A migration is a number, in the order of the file names.  A transaction *)
(* works on its own copy of what it read.                                  *)
(***************************************************************************)
EXTENDS Naturals, FiniteSets

CONSTANTS
    Node,
    Files,      \* the embedded migrations of each node's release
    MaxFaults   \* bound on failures

VARIABLES
    applied,   \* conveyor_schema_migrations: how often each was committed
    lock,      \* who holds the advisory lock
    at,        \* the statement each node's migrate is at
    tx,        \* the transaction: what it read as applied, and what it adds
    faults

migrateVars == <<applied, lock, at, tx, faults>>

\* What the file names are: prefixed with a number, which orders them.
Releases == Files \in [Node -> SUBSET Nat]

Version == UNION {Files[n] : n \in Node}
NoTx == [seen |-> {}, adds |-> {}]

Init ==
    /\ \E old \in {Files[n] : n \in Node} \cup {{}} :
        applied = [v \in Version |-> IF v \in old THEN 1 ELSE 0]
    /\ lock = {}
    /\ at = [n \in Node |-> "off"]
    /\ tx = [n \in Node |-> NoTx]
    /\ faults = 0

\* Begin, with the statement timeout lifted: the wait for the lock may be long.
begin(n) ==
    /\ at[n] = "off"
    /\ at' = [at EXCEPT ![n] = "lock"]
    /\ UNCHANGED <<applied, lock, tx, faults>>

\* pg_advisory_xact_lock waits for the holder's transaction to end.
acquire(n) ==
    /\ at[n] = "lock" /\ lock = {}
    /\ lock' = {n}
    /\ at' = [at EXCEPT ![n] = "list"]
    /\ UNCHANGED <<applied, tx, faults>>

\* The version table is there, or is created, and is read.
listApplied(n) ==
    /\ at[n] = "list"
    /\ tx' = [tx EXCEPT ![n] = [seen |-> {v \in Version : applied[v] > 0}, adds |-> {}]]
    /\ at' = [at EXCEPT ![n] = "apply"]
    /\ UNCHANGED <<applied, lock, faults>>

\* The set of versions is compared, not the last of them: a release may add a
\* file between two that are applied.
missing(n) == Files[n] \ (tx[n].seen \cup tx[n].adds)

\* The first file that is not applied is executed and recorded.
applyNext(n) ==
    /\ at[n] = "apply"
    /\ \E v \in missing(n) :
           /\ \A other \in missing(n) : v <= other
           /\ tx' = [tx EXCEPT ![n].adds = @ \cup {v}]
    /\ UNCHANGED <<applied, lock, at, faults>>

\* Commit makes the migrations durable together and ends the lock.
commit(n) ==
    /\ at[n] = "apply" /\ missing(n) = {}
    /\ applied' = [v \in Version |-> applied[v] + (IF v \in tx[n].adds THEN 1 ELSE 0)]
    /\ lock' = lock \ {n}
    /\ at' = [at EXCEPT ![n] = "serving"]
    /\ tx' = [tx EXCEPT ![n] = NoTx]
    /\ UNCHANGED faults

\* Mutant: the lock is the session's, and the session goes back to the pool.
rollbackKeepingLock(n) ==
    /\ at[n] \notin {"off", "serving"} /\ faults < MaxFaults
    /\ faults' = faults + 1
    /\ at' = [at EXCEPT ![n] = "off"]
    /\ tx' = [tx EXCEPT ![n] = NoTx]
    /\ UNCHANGED <<applied, lock>>

\* A statement fails or the node dies: the transaction is rolled back, the
\* lock ends with it, and the node boots again.
rollback(n) ==
    /\ at[n] \notin {"off", "serving"} /\ faults < MaxFaults
    /\ faults' = faults + 1
    /\ lock' = lock \ {n}
    /\ at' = [at EXCEPT ![n] = "off"]
    /\ tx' = [tx EXCEPT ![n] = NoTx]
    /\ UNCHANGED applied

migrate(n) == begin(n) \/ acquire(n) \/ listApplied(n) \/ applyNext(n) \/ commit(n)

Next == \E n \in Node : migrate(n) \/ rollback(n)

\* A booting node runs, and is restarted until it is up.
Fairness == \A n \in Node : WF_migrateVars(migrate(n))

Spec == Init /\ [][Next]_migrateVars /\ Fairness

(***************************************************************************)
(* Properties                                                              *)
(***************************************************************************)
\* A migration is committed once, however many nodes boot together, and what
\* is committed is always whole releases: none is left half applied by a
\* failure.
MigratedOnceAndWhole ==
    /\ \A v \in Version : applied[v] <= 1
    /\ \A v \in Version : applied[v] = 1 =>
            \E n \in Node : v \in Files[n] /\ \A u \in Files[n] : applied[u] = 1

\* A node serves only over a schema with all of its own migrations, and no
\* later boot takes one away.
ServesItsSchema == \A n \in Node : at[n] = "serving" => \A v \in Files[n] : applied[v] = 1

\* The schema is always one that a release knows, and that its nodes can serve.
SchemaSound == MigratedOnceAndWhole /\ ServesItsSchema

\* Every node comes up, whichever failed or died half way.
EveryNodeServes == \A n \in Node : <>(at[n] = "serving")
=============================================================================
