--------------------------- MODULE ServiceProofs ----------------------------
(***************************************************************************)
(* TLAPS proofs about what a node does besides serving tasks: it migrates  *)
(* the schema, boots and stops, and encrypts payloads.  The services share *)
(* no state: a theorem is about the one instance it names, and a name that *)
(* two of them have is declared once.                                      *)
(***************************************************************************)
EXTENDS Integers, Sequences, FiniteSets, TLAPS

-----------------------------------------------------------------------------
(* Migrations *)

CONSTANTS Node, Files, MaxFaults
VARIABLES applied, lock, at, tx, faults

Migrate == INSTANCE Migrations

Version == Migrate!Version

Booting == {"off", "lock", "list", "apply", "serving"}

\* The holder of the advisory lock is the one node past it, and until its
\* transaction ends nobody else changes what it read.
MigrateInv ==
    /\ applied \in [Version -> {0, 1}]
    /\ at \in [Node -> Booting]
    /\ tx \in [Node -> [seen : SUBSET Version, adds : SUBSET Version]]
    /\ lock \subseteq Node
    /\ \A n \in Node : at[n] \in {"list", "apply"} <=> n \in lock
    /\ \A m, n \in lock : m = n
    /\ \A n \in Node : at[n] = "apply" =>
          /\ tx[n].seen = {v \in Version : applied[v] > 0}
          /\ tx[n].adds \subseteq Files[n] \ tx[n].seen
    /\ Migrate!MigratedOnceAndWhole
    /\ Migrate!ServesItsSchema

LEMMA MigrateInit ==
  ASSUME Migrate!Releases, Migrate!Init
  PROVE  MigrateInv
<1>1. PICK old \in {Files[n] : n \in Node} \cup {{}} :
          applied = [v \in Version |-> IF v \in old THEN 1 ELSE 0]
  BY DEF Migrate!Init, Version
<1>2. applied \in [Version -> {0, 1}]
  BY <1>1
<1>3. Migrate!MigratedOnceAndWhole
  <2>1. \A v \in Version : applied[v] <= 1
    BY <1>2
  <2>2. ASSUME NEW v \in Version, applied[v] = 1
        PROVE  \E n \in Node : v \in Files[n] /\ \A u \in Files[n] : applied[u] = 1
    <3>1. v \in old
      BY <1>1, <2>2
    <3>2. PICK n \in Node : old = Files[n]
      BY <1>1, <3>1
    <3>3. \A u \in Files[n] : u \in Version
      BY DEF Version, Migrate!Version
    <3> QED
      BY <1>1, <3>1, <3>2, <3>3
  <2> QED
    BY <2>1, <2>2 DEF Migrate!MigratedOnceAndWhole, Version
<1>4. /\ at = [n \in Node |-> "off"] /\ lock = {}
      /\ tx = [n \in Node |-> [seen |-> {}, adds |-> {}]]
  BY DEF Migrate!Init, Migrate!NoTx
<1>5. tx \in [Node -> [seen : SUBSET Version, adds : SUBSET Version]]
  BY <1>4
<1>6. /\ at \in [Node -> Booting] /\ \A n \in Node : at[n] = "off"
  BY <1>4 DEF Booting
<1> QED
  BY <1>2, <1>3, <1>4, <1>5, <1>6 DEF MigrateInv, Migrate!ServesItsSchema

LEMMA SameSchema ==
  ASSUME Migrate!MigratedOnceAndWhole, applied' = applied
  PROVE  Migrate!MigratedOnceAndWhole'
  BY DEF Migrate!MigratedOnceAndWhole, Migrate!Version

\* What a step of n that leaves the schema as it is has to keep.
LEMMA MigrateOwn ==
  ASSUME MigrateInv, NEW n \in Node, UNCHANGED applied,
         NEW place \in Booting, at' = [at EXCEPT ![n] = place], place = "serving" => at[n] = "serving",
         NEW t \in [seen : SUBSET Version, adds : SUBSET Version], tx' = [tx EXCEPT ![n] = t],
         place = "apply" => /\ t.seen = {v \in Version : applied[v] > 0}
                            /\ t.adds \subseteq Files[n] \ t.seen,
         \/ place \in {"list", "apply"} /\ lock' = {n} /\ lock \subseteq {n}
         \/ place \notin {"list", "apply"} /\ lock' = lock \ {n}
  PROVE  MigrateInv'
<1>1. applied' = applied /\ at \in [Node -> Booting]
      /\ tx \in [Node -> [seen : SUBSET Version, adds : SUBSET Version]]
      /\ lock \subseteq Node /\ \A m \in Node : at[m] \in {"list", "apply"} <=> m \in lock
  BY DEF MigrateInv
<1>2. at' \in [Node -> Booting] /\ at'[n] = place /\ \A m \in Node \ {n} : at'[m] = at[m]
  BY <1>1
<1>3. tx' \in [Node -> [seen : SUBSET Version, adds : SUBSET Version]]
      /\ tx'[n] = t /\ \A m \in Node \ {n} : tx'[m] = tx[m]
  BY <1>1
<1>4. lock' \subseteq Node /\ \A m, k \in lock' : m = k
  BY <1>1 DEF MigrateInv
<1>5. ASSUME NEW m \in Node PROVE at'[m] \in {"list", "apply"} <=> m \in lock'
  BY <1>1, <1>2
<1>6. ASSUME NEW m \in Node, at'[m] = "apply"
      PROVE  /\ tx'[m].seen = {v \in Version : applied[v] > 0}
             /\ tx'[m].adds \subseteq Files[m] \ tx'[m].seen
  <2>1. CASE m = n
    BY <1>2, <1>3, <1>6, <2>1
  <2>2. CASE m # n
    BY <1>2, <1>3, <1>6, <2>2 DEF MigrateInv
  <2> QED
    BY <2>1, <2>2
<1>7. Migrate!MigratedOnceAndWhole'
  BY <1>1, SameSchema DEF MigrateInv
<1>8. Migrate!ServesItsSchema'
  BY <1>1, <1>2 DEF MigrateInv, Migrate!ServesItsSchema
<1>9. applied' \in [Version -> {0, 1}]
  BY <1>1 DEF MigrateInv
<1> QED
  BY <1>1, <1>2, <1>3, <1>4, <1>5, <1>6, <1>7, <1>8, <1>9 DEF MigrateInv, Version, Migrate!Version

LEMMA MigrateCommit ==
  ASSUME MigrateInv, NEW n \in Node, Migrate!commit(n)
  PROVE  MigrateInv'
<1> DEFINE adds == tx[n].adds
<1>1. /\ at[n] = "apply" /\ Files[n] \subseteq tx[n].seen \cup adds
      /\ applied' = [v \in Version |-> applied[v] + (IF v \in adds THEN 1 ELSE 0)]
      /\ lock' = lock \ {n} /\ at' = [at EXCEPT ![n] = "serving"]
      /\ tx' = [tx EXCEPT ![n] = [seen |-> {}, adds |-> {}]]
  BY DEF Migrate!commit, Migrate!missing, Migrate!NoTx, Version
<1>2. /\ applied \in [Version -> {0, 1}] /\ at \in [Node -> Booting] /\ n \in lock /\ lock \subseteq Node
      /\ tx \in [Node -> [seen : SUBSET Version, adds : SUBSET Version]]
      /\ tx[n].seen = {v \in Version : applied[v] > 0} /\ adds \subseteq Files[n] \ tx[n].seen
      /\ \A m, k \in lock : m = k /\ \A m1 \in Node : at[m1] \in {"list", "apply"} <=> m1 \in lock
  BY <1>1 DEF MigrateInv
<1>3. \A v \in Version : applied'[v] = IF v \in adds THEN 1 ELSE applied[v]
  BY <1>1, <1>2
<1>4. applied' \in [Version -> {0, 1}]
  BY <1>1, <1>2, <1>3
<1>5. \A m \in Node : \A v \in Files[m] : v \in Version
  BY DEF Version, Migrate!Version
<1>6. \A v \in Files[n] : applied'[v] = 1
  BY <1>1, <1>2, <1>3, <1>5
<1>7. \A v \in Version : applied[v] = 1 => applied'[v] = 1
  BY <1>3
<1>8. lock' = {}
  BY <1>1, <1>2
<1>9. at' \in [Node -> Booting] /\ at'[n] = "serving" /\ \A m \in Node \ {n} : at'[m] = at[m]
  BY <1>1, <1>2 DEF Booting
<1>10. tx' \in [Node -> [seen : SUBSET Version, adds : SUBSET Version]]
  BY <1>1, <1>2
<1>11. \A m \in Node : at'[m] \notin {"list", "apply"}
  BY <1>2, <1>9
<1>12. Migrate!MigratedOnceAndWhole'
  <2>1. \A v \in Version : applied'[v] <= 1
    BY <1>4
  <2>2. ASSUME NEW v \in Version, applied'[v] = 1
        PROVE  \E m \in Node : v \in Files[m] /\ \A u \in Files[m] : applied'[u] = 1
    <3>1. CASE v \in adds
      BY <1>2, <1>6, <3>1
    <3>2. CASE v \notin adds
      <4>1. applied[v] = 1
        BY <1>3, <2>2, <3>2
      <4>2. PICK m \in Node : v \in Files[m] /\ \A u \in Files[m] : applied[u] = 1
        BY <4>1 DEF MigrateInv, Migrate!MigratedOnceAndWhole, Version
      <4> QED
        BY <1>5, <1>7, <4>2
    <3> QED
      BY <3>1, <3>2
  <2> QED
    BY <2>1, <2>2 DEF Migrate!MigratedOnceAndWhole, Version, Migrate!Version
<1>13. Migrate!ServesItsSchema'
  <2>1. ASSUME NEW m \in Node, at'[m] = "serving", NEW v \in Files[m]
        PROVE  applied'[v] = 1
    <3>1. CASE m = n
      BY <1>6, <3>1
    <3>2. CASE m # n
      BY <1>5, <1>7, <1>9, <2>1, <3>2 DEF MigrateInv, Migrate!ServesItsSchema
    <3> QED
      BY <3>1, <3>2
  <2> QED
    BY <2>1 DEF Migrate!ServesItsSchema
<1> QED
  BY <1>4, <1>8, <1>9, <1>10, <1>11, <1>12, <1>13 DEF MigrateInv, Version, Migrate!Version

LEMMA MigrateStep ==
  ASSUME Migrate!Releases, MigrateInv, [Migrate!Next]_Migrate!migrateVars
  PROVE  MigrateInv'
<1>1. ASSUME NEW n \in Node, Migrate!begin(n) PROVE MigrateInv'
  <2>1. /\ at[n] = "off" /\ at' = [at EXCEPT ![n] = "lock"] /\ UNCHANGED <<applied, lock, tx>>
        /\ tx[n] \in [seen : SUBSET Version, adds : SUBSET Version] /\ tx' = [tx EXCEPT ![n] = tx[n]]
        /\ lock' = lock \ {n}
    BY <1>1 DEF Migrate!begin, MigrateInv
  <2> QED
    BY ZenonT(40), <2>1, MigrateOwn DEF Booting
<1>2. ASSUME NEW n \in Node, Migrate!acquire(n) PROVE MigrateInv'
  <2>1. /\ at' = [at EXCEPT ![n] = "list"] /\ UNCHANGED <<applied, tx>> /\ lock = {} /\ lock' = {n}
        /\ tx[n] \in [seen : SUBSET Version, adds : SUBSET Version] /\ tx' = [tx EXCEPT ![n] = tx[n]]
    BY <1>2 DEF Migrate!acquire, MigrateInv
  <2> QED
    BY ZenonT(40), <2>1, MigrateOwn DEF Booting
<1>3. ASSUME NEW n \in Node, Migrate!listApplied(n) PROVE MigrateInv'
  <2> DEFINE t == [seen |-> {v \in Version : applied[v] > 0}, adds |-> {}]
  <2>1. /\ at' = [at EXCEPT ![n] = "apply"] /\ UNCHANGED <<applied, lock>> /\ lock = {n}
        /\ t \in [seen : SUBSET Version, adds : SUBSET Version] /\ tx' = [tx EXCEPT ![n] = t]
    BY <1>3 DEF Migrate!listApplied, MigrateInv, Version
  <2> QED
    BY ZenonT(40), <2>1, MigrateOwn DEF Booting
<1>4. ASSUME NEW n \in Node, Migrate!applyNext(n) PROVE MigrateInv'
  <2> DEFINE S == Files[n] \ (tx[n].seen \cup tx[n].adds)
  <2>1. /\ at[n] = "apply" /\ UNCHANGED <<applied, lock, at>>
        /\ \E v \in S : tx' = [tx EXCEPT ![n].adds = tx[n].adds \cup {v}]
    BY ZenonT(40), <1>4 DEF Migrate!applyNext, Migrate!missing
  <2> PICK v \in S : tx' = [tx EXCEPT ![n].adds = tx[n].adds \cup {v}]
    BY ZenonT(40), <2>1
  <2> DEFINE t == [tx[n] EXCEPT !.adds = tx[n].adds \cup {v}]
  <2>2. S \subseteq Nat /\ S \subseteq Version
    BY DEF Migrate!Releases, Version, Migrate!Version
  <2>3. /\ tx \in [Node -> [seen : SUBSET Version, adds : SUBSET Version]] /\ at \in [Node -> Booting]
        /\ tx[n].seen = {u \in Version : applied[u] > 0} /\ tx[n].adds \subseteq Files[n] \ tx[n].seen
        /\ lock = {n}
    BY <2>1 DEF MigrateInv
  <2>4. t \in [seen : SUBSET Version, adds : SUBSET Version] /\ t.adds \subseteq Files[n] \ t.seen
    BY <2>2, <2>3
  <2>5. at' = [at EXCEPT ![n] = "apply"] /\ lock' = {n}
    BY <2>1, <2>3
  <2>6. tx' = [tx EXCEPT ![n] = t] /\ t.seen = tx[n].seen
    BY <2>1, <2>3
  <2> HIDE DEF t
  <2> QED
    BY ZenonT(40), <2>1, <2>3, <2>4, <2>5, <2>6, MigrateOwn DEF Booting
<1>5. ASSUME NEW n \in Node, Migrate!rollback(n) PROVE MigrateInv'
  <2> DEFINE t == [seen |-> {}, adds |-> {}]
  <2>1. /\ at' = [at EXCEPT ![n] = "off"] /\ UNCHANGED applied /\ lock' = lock \ {n}
        /\ t \in [seen : SUBSET Version, adds : SUBSET Version] /\ tx' = [tx EXCEPT ![n] = t]
    BY <1>5 DEF Migrate!rollback, Migrate!NoTx
  <2> QED
    BY ZenonT(40), <2>1, MigrateOwn DEF Booting
<1>6. CASE UNCHANGED Migrate!migrateVars
  BY <1>6 DEF MigrateInv, Migrate!migrateVars, Version, Migrate!Version, Migrate!MigratedOnceAndWhole,
              Migrate!ServesItsSchema
<1> QED
  BY <1>1, <1>2, <1>3, <1>4, <1>5, <1>6, MigrateCommit DEF Migrate!Next, Migrate!migrate

\* However many nodes boot together and wherever they fail, each migration is
\* committed once and a release's as a whole, and a node serves only over a
\* schema that has all of its own (migrate, advisory lock and one transaction).
THEOREM SchemaAlwaysSound == ASSUME Migrate!Releases PROVE Migrate!Spec => []Migrate!SchemaSound
<1>1. Migrate!Init => MigrateInv
  BY MigrateInit
<1>2. MigrateInv /\ [Migrate!Next]_Migrate!migrateVars => MigrateInv'
  BY MigrateStep
<1>3. MigrateInv => Migrate!SchemaSound
  BY DEF MigrateInv, Migrate!SchemaSound
<1> QED
  BY <1>1, <1>2, <1>3, PTL DEF Migrate!Spec

-----------------------------------------------------------------------------
(* Lifecycle *)

CONSTANTS Session, MaxStops
VARIABLES setup, boot, running, field, closed, signaled, sessions, draining, lost, probe,
          stop, shutdown, expired, overran, errs, stops

Server == INSTANCE Lifecycle

Failed == "engine start failed"
Ended == {"metrics", "telemetry", "returned"}
EngineDown == {"http"} \cup Ended
Drained == {"engine"} \cup EngineDown

\* What Start has built, and what a request or a session needs of it.
BootInv ==
    /\ Server!NodeTypeOK
    /\ stop # "idle" => boot \in {"started", "failed"}
    /\ stop = "idle" => shutdown = "idle"
    /\ "api" \in field <=> boot = "started"
    /\ running \ {"system"} \subseteq field
    /\ "system" \in running \ field => boot = "singletons" \/ Failed \in field
    /\ boot \notin {"broker", "failed"} /\ stop = "idle" => "broker" \in running
    /\ "broker" \notin field /\ boot = "started" => shutdown # "idle"
    /\ sessions # {} => boot = "started"
    /\ probe # "none" => boot = "started"
    /\ closed \in [Server!Part -> {0, 1}]
    /\ \A p \in Server!Part : closed[p] = 1 => p \notin field /\ stop # "idle"

\* How far Stop has come: what is down by each of its steps, unless its
\* deadline passed or an error says so.
StopInv ==
    /\ stop \in {"idle", "webhook", "drain"} \cup Drained
    /\ {draining, expired, overran, errs} \subseteq BOOLEAN
    /\ expired => overran
    /\ lost # {} => overran
    /\ stop \notin {"idle", "webhook"} => draining \/ boot # "started"
    /\ stop \in Drained => sessions = {} \/ overran
    /\ "system" \notin running => sessions = {} \/ overran
    /\ shutdown = "done" => "api" \notin running /\ (probe = "none" \/ overran)
    /\ "broker" \notin field => probe # "checked" \/ overran
    /\ probe = "nil" => overran
    /\ stop \in Ended => shutdown = "done" /\ "broker" \notin running
    /\ stop \notin {"idle", "webhook"} => "webhook" \notin running
    /\ stop \in EngineDown => "system" \notin running \/ Failed \in field \/ (errs /\ overran)
    /\ stop \in {"telemetry", "returned"} => "metrics" \notin running \/ errs
    /\ stop = "returned" => "telemetry" \notin running \/ errs
    /\ Server!BrokerOutlivesEngine

NodeInv == BootInv /\ StopInv

LEMMA BuiltBoot ==
  ASSUME NodeInv, NEW step, NEW next, NEW parts, Server!built(step, next, parts),
         step \notin {"started", "failed", "singletons"}, next \in {"seed", "discovery", "tls", "telemetry", "system", "metrics", "listen", "started"},
         parts \subseteq Server!Part \ {"system"}, "api" \in parts <=> next = "started",
         step = "broker" => "broker" \in parts
  PROVE  NodeInv'
<1>1. BootInv'
  BY ZenonT(40) DEF NodeInv, BootInv, StopInv, Server!NodeTypeOK, Server!Part, Server!built, Server!stopVars, Failed
<1>2. StopInv'
  BY ZenonT(40) DEF NodeInv, BootInv, StopInv, Server!NodeTypeOK, Server!Part, Server!built, Server!stopVars, Failed,
         Server!BrokerOutlivesEngine, Drained, EngineDown, Ended
<1> QED
  BY <1>1, <1>2 DEF NodeInv

LEMMA N_systemStart ==
  ASSUME NodeInv, Server!systemStart
  PROVE  NodeInv'
<1>1. BootInv'
  BY ZenonT(40) DEF NodeInv, BootInv, StopInv, Server!NodeTypeOK, Server!Part, Server!systemStart, Server!stopVars, Failed, Drained, EngineDown, Ended
<1>2. StopInv'
  BY ZenonT(40) DEF NodeInv, BootInv, StopInv, Server!NodeTypeOK, Server!Part, Server!systemStart, Server!stopVars, Failed,
         Server!BrokerOutlivesEngine, Drained, EngineDown, Ended
<1> QED
  BY <1>1, <1>2 DEF NodeInv

LEMMA N_spawnSingletons ==
  ASSUME NodeInv, Server!spawnSingletons
  PROVE  NodeInv'
<1>1. BootInv'
  BY ZenonT(40) DEF NodeInv, BootInv, StopInv, Server!NodeTypeOK, Server!Part, Server!spawnSingletons, Server!stopVars, Failed, Drained, EngineDown, Ended
<1>2. StopInv'
  BY ZenonT(40) DEF NodeInv, BootInv, StopInv, Server!NodeTypeOK, Server!Part, Server!spawnSingletons, Server!stopVars, Failed,
         Server!BrokerOutlivesEngine, Drained, EngineDown, Ended
<1> QED
  BY <1>1, <1>2 DEF NodeInv

LEMMA N_startFails ==
  ASSUME NodeInv, Server!startFails
  PROVE  NodeInv'
<1>1. BootInv'
  BY ZenonT(40) DEF NodeInv, BootInv, StopInv, Server!NodeTypeOK, Server!Part, Server!startFails, Server!stopVars, Failed, Drained, EngineDown, Ended
<1>2. StopInv'
  BY ZenonT(40) DEF NodeInv, BootInv, StopInv, Server!NodeTypeOK, Server!Part, Server!startFails, Server!stopVars, Failed,
         Server!BrokerOutlivesEngine, Drained, EngineDown, Ended
<1> QED
  BY <1>1, <1>2 DEF NodeInv

LEMMA N_terminate ==
  ASSUME NodeInv, Server!terminate
  PROVE  NodeInv'
<1>1. BootInv'
  BY ZenonT(40) DEF NodeInv, BootInv, StopInv, Server!NodeTypeOK, Server!Part, Server!terminate, Server!stopVars, Failed, Drained, EngineDown, Ended
<1>2. StopInv'
  BY ZenonT(40) DEF NodeInv, BootInv, StopInv, Server!NodeTypeOK, Server!Part, Server!terminate, Server!stopVars, Failed,
         Server!BrokerOutlivesEngine, Drained, EngineDown, Ended
<1> QED
  BY <1>1, <1>2 DEF NodeInv

LEMMA N_processExits ==
  ASSUME NodeInv, Server!processExits
  PROVE  NodeInv'
<1>1. BootInv'
  BY ZenonT(40) DEF NodeInv, BootInv, StopInv, Server!NodeTypeOK, Server!Part, Server!processExits, Failed, Drained, EngineDown, Ended
<1>2. StopInv'
  BY ZenonT(40) DEF NodeInv, BootInv, StopInv, Server!NodeTypeOK, Server!Part, Server!processExits, Failed,
         Server!BrokerOutlivesEngine, Drained, EngineDown, Ended
<1> QED
  BY <1>1, <1>2 DEF NodeInv

LEMMA N_readyz ==
  ASSUME NodeInv, Server!readyz
  PROVE  NodeInv'
<1>1. BootInv'
  BY ZenonT(40) DEF NodeInv, BootInv, StopInv, Server!NodeTypeOK, Server!Part, Server!readyz, Server!others, Failed, Drained, EngineDown, Ended
<1>2. StopInv'
  BY ZenonT(40) DEF NodeInv, BootInv, StopInv, Server!NodeTypeOK, Server!Part, Server!readyz, Server!others, Failed,
         Server!BrokerOutlivesEngine, Drained, EngineDown, Ended
<1> QED
  BY <1>1, <1>2 DEF NodeInv

LEMMA N_Stop ==
  ASSUME NodeInv, Server!Stop
  PROVE  NodeInv'
<1>1. BootInv'
  BY ZenonT(40) DEF NodeInv, BootInv, StopInv, Server!NodeTypeOK, Server!Part, Server!Stop, Server!mayStop, Failed, Drained, EngineDown, Ended
<1>2. StopInv'
  BY ZenonT(40) DEF NodeInv, BootInv, StopInv, Server!NodeTypeOK, Server!Part, Server!Stop, Server!mayStop, Failed,
         Server!BrokerOutlivesEngine, Drained, EngineDown, Ended
<1> QED
  BY <1>1, <1>2 DEF NodeInv

LEMMA Released ==
  ASSUME NodeInv, stop # "idle", stop' # "idle", NEW part \in Server!Part, Server!release(part)
  PROVE  /\ running' = IF part \in field THEN running \ {part} ELSE running
         /\ field' = field \ {part}
         /\ closed' \in [Server!Part -> {0, 1}]
         /\ \A p \in Server!Part : closed'[p] = 1 => p \notin field' /\ stop' # "idle"
<1>1. closed \in [Server!Part -> {0, 1}] /\ \A p \in Server!Part : closed[p] = 1 => p \notin field
  BY DEF NodeInv, BootInv
<1>2. CASE part \in field
  <2>1. closed[part] = 0
    BY <1>1, <1>2
  <2>2. closed' = [closed EXCEPT ![part] = 1]
    BY <1>2, <2>1 DEF Server!release
  <2> QED
    BY <1>1, <1>2, <2>2 DEF Server!release
<1>3. CASE part \notin field
  BY <1>1, <1>3 DEF Server!release
<1> QED
  BY <1>2, <1>3

LEMMA N_stopWebhook ==
  ASSUME NodeInv, Server!stopWebhook
  PROVE  NodeInv'
<1>0. stop # "idle" /\ stop' # "idle" /\ "webhook" \in Server!Part /\ Server!release("webhook")
  BY DEF Server!stopWebhook, Server!Part
<1>r. /\ running' = IF "webhook" \in field THEN running \ {"webhook"} ELSE running
      /\ field' = field \ {"webhook"}
      /\ closed' \in [Server!Part -> {0, 1}]
      /\ \A p \in Server!Part : closed'[p] = 1 => p \notin field' /\ stop' # "idle"
  BY <1>0, Released, ZenonT(40)
<1>1. BootInv'
  BY ZenonT(40), <1>r DEF NodeInv, BootInv, StopInv, Server!NodeTypeOK, Server!Part, Server!stopWebhook, Server!stepVars, Failed, Drained, EngineDown, Ended
<1>2. StopInv'
  BY ZenonT(40) DEF NodeInv, BootInv, StopInv, Server!NodeTypeOK, Server!Part, Server!stopWebhook, Server!release, Server!stepVars, Failed,
         Server!BrokerOutlivesEngine, Drained, EngineDown, Ended
<1> QED
  BY <1>1, <1>2 DEF NodeInv

LEMMA N_drainSessions ==
  ASSUME NodeInv, Server!drainSessions
  PROVE  NodeInv'
<1>1. BootInv'
  BY ZenonT(40) DEF NodeInv, BootInv, StopInv, Server!NodeTypeOK, Server!Part, Server!drainSessions, Server!stepVars, Failed, Drained, EngineDown, Ended
<1>2. StopInv'
  BY ZenonT(40) DEF NodeInv, BootInv, StopInv, Server!NodeTypeOK, Server!Part, Server!drainSessions, Server!stepVars, Failed,
         Server!BrokerOutlivesEngine, Drained, EngineDown, Ended
<1> QED
  BY <1>1, <1>2 DEF NodeInv

LEMMA N_stopEngine ==
  ASSUME NodeInv, Server!stopEngine
  PROVE  NodeInv'
<1>0. stop # "idle" /\ stop' # "idle" /\ "system" \in Server!Part
  BY DEF Server!stopEngine, Server!Part
<1>1. BootInv'
  <2>1. CASE Server!release("system")
    <3>1. /\ running' = IF "system" \in field THEN running \ {"system"} ELSE running
          /\ field' = field \ {"system"}
          /\ closed' \in [Server!Part -> {0, 1}]
          /\ \A p \in Server!Part : closed'[p] = 1 => p \notin field' /\ stop' # "idle"
      BY <1>0, <2>1, Released, ZenonT(40)
    <3> QED
      BY ZenonT(40), <3>1 DEF NodeInv, BootInv, StopInv, Server!NodeTypeOK, Server!Part, Server!stopEngine, Server!stepVars, Failed, Drained, EngineDown, Ended
  <2>2. CASE UNCHANGED <<running, field, closed>>
    BY ZenonT(40), <1>0, <2>2 DEF NodeInv, BootInv, StopInv, Server!NodeTypeOK, Server!Part, Server!stopEngine, Server!stepVars, Failed, Drained, EngineDown, Ended
  <2> QED
    BY <2>1, <2>2 DEF Server!stopEngine
<1>2. StopInv'
  BY ZenonT(40) DEF NodeInv, BootInv, StopInv, Server!NodeTypeOK, Server!Part, Server!stopEngine, Server!release, Server!stepVars, Failed,
         Server!BrokerOutlivesEngine, Drained, EngineDown, Ended
<1> QED
  BY <1>1, <1>2 DEF NodeInv

LEMMA N_shutdownEnds ==
  ASSUME NodeInv, Server!shutdownEnds
  PROVE  NodeInv'
<1>1. BootInv'
  BY ZenonT(40) DEF NodeInv, BootInv, StopInv, Server!NodeTypeOK, Server!Part, Server!shutdownEnds, Server!stepVars, Failed, Drained, EngineDown, Ended
<1>2. StopInv'
  BY ZenonT(40) DEF NodeInv, BootInv, StopInv, Server!NodeTypeOK, Server!Part, Server!shutdownEnds, Server!stepVars, Failed,
         Server!BrokerOutlivesEngine, Drained, EngineDown, Ended
<1> QED
  BY <1>1, <1>2 DEF NodeInv

LEMMA N_closeBroker ==
  ASSUME NodeInv, Server!closeBroker
  PROVE  NodeInv'
<1>0. stop # "idle" /\ stop' # "idle" /\ "broker" \in Server!Part /\ Server!release("broker")
  BY DEF Server!closeBroker, Server!Part
<1>r. /\ running' = IF "broker" \in field THEN running \ {"broker"} ELSE running
      /\ field' = field \ {"broker"}
      /\ closed' \in [Server!Part -> {0, 1}]
      /\ \A p \in Server!Part : closed'[p] = 1 => p \notin field' /\ stop' # "idle"
  BY <1>0, Released, ZenonT(40)
<1>1. BootInv'
  BY ZenonT(40), <1>r DEF NodeInv, BootInv, StopInv, Server!NodeTypeOK, Server!Part, Server!closeBroker, Server!stepVars, Failed, Drained, EngineDown, Ended
<1>2. StopInv'
  BY ZenonT(40) DEF NodeInv, BootInv, StopInv, Server!NodeTypeOK, Server!Part, Server!closeBroker, Server!release, Server!stepVars, Failed,
         Server!BrokerOutlivesEngine, Drained, EngineDown, Ended
<1> QED
  BY <1>1, <1>2 DEF NodeInv

LEMMA N_stopMetrics ==
  ASSUME NodeInv, Server!stopMetrics
  PROVE  NodeInv'
<1>0. stop # "idle" /\ stop' # "idle" /\ "metrics" \in Server!Part
  BY DEF Server!stopMetrics, Server!stopPart, Server!Part
<1>1. BootInv'
  <2>1. CASE Server!release("metrics")
    <3>1. /\ running' = IF "metrics" \in field THEN running \ {"metrics"} ELSE running
          /\ field' = field \ {"metrics"}
          /\ closed' \in [Server!Part -> {0, 1}]
          /\ \A p \in Server!Part : closed'[p] = 1 => p \notin field' /\ stop' # "idle"
      BY <1>0, <2>1, Released, ZenonT(40)
    <3> QED
      BY ZenonT(40), <3>1 DEF NodeInv, BootInv, StopInv, Server!NodeTypeOK, Server!Part, Server!stopMetrics, Server!stopPart, Server!stepVars, Failed, Drained, EngineDown, Ended
  <2>2. CASE UNCHANGED <<running, field, closed>>
    BY ZenonT(40), <1>0, <2>2 DEF NodeInv, BootInv, StopInv, Server!NodeTypeOK, Server!Part, Server!stopMetrics, Server!stopPart, Server!stepVars, Failed, Drained, EngineDown, Ended
  <2> QED
    BY <2>1, <2>2 DEF Server!stopMetrics, Server!stopPart
<1>2. StopInv'
  BY ZenonT(40) DEF NodeInv, BootInv, StopInv, Server!NodeTypeOK, Server!Part, Server!stopMetrics, Server!stopPart, Server!release, Server!stepVars, Failed,
         Server!BrokerOutlivesEngine, Drained, EngineDown, Ended
<1> QED
  BY <1>1, <1>2 DEF NodeInv

LEMMA N_stopTelemetry ==
  ASSUME NodeInv, Server!stopTelemetry
  PROVE  NodeInv'
<1>0. stop # "idle" /\ stop' # "idle" /\ "telemetry" \in Server!Part
  BY DEF Server!stopTelemetry, Server!stopPart, Server!Part
<1>1. BootInv'
  <2>1. CASE Server!release("telemetry")
    <3>1. /\ running' = IF "telemetry" \in field THEN running \ {"telemetry"} ELSE running
          /\ field' = field \ {"telemetry"}
          /\ closed' \in [Server!Part -> {0, 1}]
          /\ \A p \in Server!Part : closed'[p] = 1 => p \notin field' /\ stop' # "idle"
      BY <1>0, <2>1, Released, ZenonT(40)
    <3> QED
      BY ZenonT(40), <3>1 DEF NodeInv, BootInv, StopInv, Server!NodeTypeOK, Server!Part, Server!stopTelemetry, Server!stopPart, Server!stepVars, Failed, Drained, EngineDown, Ended
  <2>2. CASE UNCHANGED <<running, field, closed>>
    BY ZenonT(40), <1>0, <2>2 DEF NodeInv, BootInv, StopInv, Server!NodeTypeOK, Server!Part, Server!stopTelemetry, Server!stopPart, Server!stepVars, Failed, Drained, EngineDown, Ended
  <2> QED
    BY <2>1, <2>2 DEF Server!stopTelemetry, Server!stopPart
<1>2. StopInv'
  BY ZenonT(40) DEF NodeInv, BootInv, StopInv, Server!NodeTypeOK, Server!Part, Server!stopTelemetry, Server!stopPart, Server!release, Server!stepVars, Failed,
         Server!BrokerOutlivesEngine, Drained, EngineDown, Ended
<1> QED
  BY <1>1, <1>2 DEF NodeInv

LEMMA N_deadlinePasses ==
  ASSUME NodeInv, Server!deadlinePasses
  PROVE  NodeInv'
<1>1. BootInv'
  BY ZenonT(40) DEF NodeInv, BootInv, StopInv, Server!NodeTypeOK, Server!Part, Server!deadlinePasses, Failed, Drained, EngineDown, Ended
<1>2. StopInv'
  BY ZenonT(40) DEF NodeInv, BootInv, StopInv, Server!NodeTypeOK, Server!Part, Server!deadlinePasses, Failed,
         Server!BrokerOutlivesEngine, Drained, EngineDown, Ended
<1> QED
  BY <1>1, <1>2 DEF NodeInv

LEMMA N_sessions ==
  ASSUME NodeInv, NEW s \in Session, Server!sessionOpens(s) \/ Server!sessionEnds(s)
  PROVE  NodeInv'
<1>1. CASE Server!sessionOpens(s)
  <2>1. BootInv'
    BY ZenonT(40), <1>1 DEF NodeInv, BootInv, StopInv, Server!NodeTypeOK, Server!Part, Server!sessionOpens, Server!others, Failed
  <2>2. StopInv'
    BY ZenonT(40), <1>1 DEF NodeInv, BootInv, StopInv, Server!NodeTypeOK, Server!Part, Server!sessionOpens, Server!others, Failed,
           Server!BrokerOutlivesEngine, Drained, EngineDown, Ended
  <2> QED
    BY <2>1, <2>2 DEF NodeInv
<1>2. CASE Server!sessionEnds(s)
  <2>1. BootInv'
    BY ZenonT(40), <1>2 DEF NodeInv, BootInv, StopInv, Server!NodeTypeOK, Server!Part, Server!sessionEnds, Server!messaging, Server!others, Failed
  <2>2. StopInv'
    BY ZenonT(40), <1>2 DEF NodeInv, BootInv, StopInv, Server!NodeTypeOK, Server!Part, Server!sessionEnds, Server!messaging, Server!others, Failed,
           Server!BrokerOutlivesEngine, Drained, EngineDown, Ended
  <2> QED
    BY <2>1, <2>2 DEF NodeInv
<1> QED
  BY <1>1, <1>2

\* The steps of Start, each as what it builds.
LEMMA N_Starting ==
  ASSUME NodeInv, Server!Starting
  PROVE  NodeInv'
<1>1. CASE Server!buildBroker
  BY <1>1, BuiltBoot DEF Server!buildBroker, Server!Part
<1>2. CASE Server!seedWebhookWorkers
  BY <1>2, BuiltBoot DEF Server!seedWebhookWorkers, Server!Part
<1>3. CASE Server!buildDiscovery
  BY <1>3, BuiltBoot DEF Server!buildDiscovery, Server!Part
<1>4. CASE Server!buildClusterTLS
  BY <1>4, BuiltBoot DEF Server!buildClusterTLS, Server!Part
<1>5. CASE Server!newTelemetry
  <2> DEFINE parts == IF setup.metrics THEN {"telemetry"} ELSE {}
  <2>1. parts \subseteq Server!Part \ {"system"} /\ "api" \notin parts
    BY DEF Server!Part
  <2>2. Server!built("telemetry", "system", parts)
    BY <1>5 DEF Server!newTelemetry
  <2> QED
    BY <2>1, <2>2, BuiltBoot
<1>6. CASE Server!startWebhook
  <2> DEFINE parts == IF setup.events THEN {"webhook"} ELSE {}
  <2>1. parts \subseteq Server!Part \ {"system"} /\ "api" \notin parts
    BY DEF Server!Part
  <2>2. Server!built("webhook", "metrics", parts)
    BY <1>6 DEF Server!startWebhook
  <2> QED
    BY <2>1, <2>2, BuiltBoot
<1>7. CASE Server!startMetricsServer
  <2> DEFINE parts == IF setup.metrics THEN {"metrics"} ELSE {}
  <2>1. parts \subseteq Server!Part \ {"system"} /\ "api" \notin parts
    BY DEF Server!Part
  <2>2. Server!built("metrics", "listen", parts)
    BY <1>7 DEF Server!startMetricsServer
  <2> QED
    BY <2>1, <2>2, BuiltBoot
<1>8. CASE Server!serve
  BY <1>8, BuiltBoot DEF Server!serve, Server!Part
<1>9. CASE Server!systemStart
  BY <1>9, N_systemStart
<1>10. CASE Server!spawnSingletons
  BY <1>10, N_spawnSingletons
<1> QED
  BY <1>1, <1>2, <1>3, <1>4, <1>5, <1>6, <1>7, <1>8, <1>9, <1>10 DEF Server!Starting

LEMMA N_init ==
  ASSUME Server!Init
  PROVE  NodeInv
<1>1. BootInv
  BY DEF Server!Init, BootInv, Server!NodeTypeOK, Server!Part, Failed
<1>2. StopInv
  BY ZenonT(40) DEF Server!Init, StopInv, Server!BrokerOutlivesEngine, Drained, EngineDown, Ended
<1> QED
  BY <1>1, <1>2 DEF NodeInv

LEMMA N_step ==
  ASSUME NodeInv, [Server!Next]_Server!nodeVars
  PROVE  NodeInv'
<1>1. CASE Server!Starting
  BY <1>1, N_Starting
<1>2. CASE Server!startFails
  BY <1>2, N_startFails
<1>3. CASE Server!terminate
  BY <1>3, N_terminate
<1>4. CASE Server!processExits
  BY <1>4, N_processExits
<1>5. CASE \E s \in Session : Server!sessionOpens(s) \/ Server!sessionEnds(s)
  BY <1>5, N_sessions
<1>6. CASE Server!readyz
  BY <1>6, N_readyz
<1>7. CASE Server!Stop
  BY <1>7, N_Stop
<1>8. CASE Server!Stopping
  BY <1>8, N_stopWebhook, N_drainSessions, N_stopEngine, N_shutdownEnds, N_closeBroker, N_stopMetrics,
     N_stopTelemetry DEF Server!Stopping
<1>9. CASE Server!deadlinePasses
  BY <1>9, N_deadlinePasses
<1>10. CASE UNCHANGED Server!nodeVars
  <2>1. BootInv'
    BY ZenonT(40), <1>10 DEF Server!nodeVars, NodeInv, BootInv, Server!NodeTypeOK
  <2>2. StopInv'
    BY ZenonT(40), <1>10 DEF Server!nodeVars, NodeInv, StopInv, Server!BrokerOutlivesEngine
  <2> QED
    BY <2>1, <2>2 DEF NodeInv
<1> QED
  BY <1>1, <1>2, <1>3, <1>4, <1>5, <1>6, <1>7, <1>8, <1>9, <1>10 DEF Server!Next

\* The shutdown order of Server.Stop, for any sessions, any number of Stops
\* and of failed steps: a session is cut off, a request served through a
\* cleared field, or the broker closed under the engine only when a deadline
\* passed (or the engine's own Start had failed), a Stop that reports no error
\* leaves nothing running, and nothing is closed twice.
THEOREM StopAlwaysOrderly == Server!Spec => []Server!StopIsOrderly
<1>1. Server!Init => NodeInv
  BY N_init
<1>2. NodeInv /\ [Server!Next]_Server!nodeVars => NodeInv'
  BY N_step
<1>3. NodeInv => Server!StopIsOrderly
  <2> SUFFICES ASSUME NodeInv PROVE Server!StopIsOrderly
    OBVIOUS
  <2>1. Server!NodeTypeOK /\ Server!DrainedBeforeEngineStops /\ Server!ProbesALiveField /\ Server!BrokerOutlivesEngine
    BY DEF NodeInv, BootInv, StopInv, Server!DrainedBeforeEngineStops, Server!ProbesALiveField
  <2>2. Server!StoppedHoldsNothing
    BY ZenonT(40) DEF NodeInv, BootInv, StopInv, Server!NodeTypeOK, Server!Part, Server!StoppedHoldsNothing, Failed, Drained, EngineDown, Ended
  <2>3. Server!ClosedOnce
    BY DEF NodeInv, BootInv, Server!ClosedOnce
  <2> QED
    BY <2>1, <2>2, <2>3 DEF Server!StopIsOrderly
<1> QED
  BY <1>1, <1>2, <1>3, PTL DEF Server!Spec

-----------------------------------------------------------------------------
(* Encryption at rest *)

CONSTANTS Task, Cron, KeyID, Config, Payload, MaxRetry, MaxRotations, MaxSeals
VARIABLES ring, held, rows, cron, handed, rotations, seals

Crypt == INSTANCE Encryption

\* A text sealed under a key, and the ways a payload may be stored.
SealedBy(k, nonce, text) == Crypt!Encrypt([active |-> k, keys |-> {k}], nonce, text)
Sealed(c, text, K) == \E k \in K, nonce \in 0..MaxSeals : c = SealedBy(k, nonce, text)

\* Every ring opens what any ring seals.
RingInv ==
    /\ ring \in [Node -> [active : KeyID, keys : SUBSET KeyID]]
    /\ \A m, n \in Node : ring[m].active \in ring[n].keys
    /\ seals \in 0..MaxSeals

\* The keys every ring holds.
Common == {k \in KeyID : \A n \in Node : k \in ring[n].keys}

RowState == {"absent", "pending", "active", "completed", "archived"}

\* A row is sealed under one of the keys K, and its lease was answered.
RowOK(t, row, K) ==
    /\ DOMAIN row = {"state", "payload", "retried", "result"}
    /\ row.state \in RowState
    /\ row.payload = <<>> \/ Sealed(row.payload, Payload[t], K)
    /\ row.state # "absent" => (row.payload = <<>> <=> Payload[t] = <<>>)
    /\ row.result = <<>> \/ Sealed(row.result, <<"result">>, KeyID)

RowInv == DOMAIN rows = Task /\ \A t \in Task : RowOK(t, rows[t], Common)

EntryOK(c, bytes, K) == bytes = <<>> \/ (Payload[c] # <<>> /\ Sealed(bytes, Payload[c], K))

EntryInv == DOMAIN cron = Cron /\ \A c \in Cron : EntryOK(c, cron[c], Common)

AboveInv ==
    /\ held = [x \in Task \cup Cron |-> Payload[x]]
    /\ DOMAIN handed = Task \cup Cron
    /\ Crypt!PlaintextAbove

CryptInv == RingInv /\ RowInv /\ EntryInv /\ AboveInv

\* What a ring sealed under one of its keys is not empty, names the key, and
\* opens to the text under every ring that holds the key.
LEMMA SealOpens ==
  ASSUME Crypt!Keyrings, NEW k \in KeyID, NEW nonce, NEW text
  PROVE  LET c == SealedBy(k, nonce, text)
         IN  /\ c # <<>> /\ c[Len(c)].key = k
             /\ \A r : k \in r.keys => Crypt!Decrypt(r, c) = text
<1> DEFINE s == Crypt!seal(k, nonce, text, Crypt!encodeHeader(k))
           Letter == Crypt!Byte \cup {1, Len(k), nonce, s}
           h == Crypt!encodeHeader(k)
           c == SealedBy(k, nonce, text)
<1>1. k \in Seq(Letter) /\ k # <<>> /\ Len(k) \in Nat /\ Len(k) > 0
  BY DEF Crypt!Keyrings
<1>2. h = <<1, Len(k)>> \o k
  BY DEF Crypt!encodeHeader, Crypt!schemeVersion
<1>3. c = h \o <<nonce, s>>
  BY DEF SealedBy, Crypt!Encrypt
<1>4. s.key = k /\ s.nonce = nonce /\ s.text = text /\ s.aad = h
  BY DEF Crypt!seal
<1>5. <<1, Len(k)>> \in Seq(Letter) /\ <<nonce, s>> \in Seq(Letter)
  OBVIOUS
<1> HIDE DEF s, h, c
<1> HIDE DEF Letter
<1>6. /\ h \in Seq(Letter) /\ Len(h) = Len(k) + 2 /\ h[1] = 1 /\ h[2] = Len(k)
      /\ \A i \in 1..Len(k) : h[i + 2] = k[i]
  BY <1>1, <1>2, <1>5
<1>7. /\ c \in Seq(Letter) /\ Len(c) = Len(k) + 4 /\ c[Len(k) + 3] = nonce /\ c[Len(k) + 4] = s
      /\ \A i \in 1..Len(h) : c[i] = h[i]
  BY <1>1, <1>3, <1>5, <1>6
<1>8. c[1] = 1 /\ c[2] = Len(k)
  BY <1>1, <1>6, <1>7
<1>9. SubSeq(c, 3, 2 + Len(k)) = k
  <2> DEFINE q == SubSeq(c, 3, 2 + Len(k))
  <2>1. q \in Seq(Letter) /\ Len(q) = Len(k) /\ \A i \in 1..Len(k) : q[i] = c[i + 2]
    BY <1>1, <1>7
  <2>2. \A i \in 1..Len(k) : q[i] = k[i]
    BY <1>1, <1>6, <1>7, <2>1
  <2> HIDE DEF q
  <2>3. q = k
    BY <1>1, <2>1, <2>2
  <2> QED
    BY <2>3 DEF q
<1>10. SubSeq(c, 1, 2 + Len(k)) = h
  <2> DEFINE q == SubSeq(c, 1, 2 + Len(k))
  <2>1. q \in Seq(Letter) /\ Len(q) = Len(h) /\ \A i \in 1..Len(h) : q[i] = c[i]
    BY <1>1, <1>6, <1>7
  <2> HIDE DEF q
  <2>2. q = h
    BY <1>6, <1>7, <2>1
  <2> QED
    BY <2>2 DEF q
<1> DEFINE rest == SubSeq(c, 2 + Len(k) + 1, Len(c))
<1>11. Len(rest) = 2 /\ rest[1] = nonce /\ rest[2] = s /\ rest # <<>>
  BY <1>1, <1>7
<1>12. Crypt!decodeHeader(c) = [error |-> FALSE, keyID |-> k, headerLen |-> 2 + Len(k)]
  <2>1. ~(Len(c) < 2 \/ c[1] # 1 \/ Len(c) < 2 + c[2])
    BY <1>1, <1>7, <1>8
  <2>2. SubSeq(c, 3, 2 + c[2]) = k /\ 2 + c[2] = 2 + Len(k)
    BY <1>8, <1>9
  <2> QED
    BY Zenon, <2>1, <2>2 DEF Crypt!decodeHeader, Crypt!schemeVersion
<1> HIDE DEF rest
<1>13. ASSUME NEW r, k \in r.keys PROVE Crypt!Decrypt(r, c) = text
  <2> DEFINE d == Crypt!decodeHeader(c)
  <2>1. d.error = FALSE /\ d.keyID = k /\ d.headerLen = 2 + Len(k)
    BY <1>12
  <2>2. SubSeq(c, d.headerLen + 1, Len(c)) = rest /\ SubSeq(c, 1, d.headerLen) = h
    BY <1>10, <2>1 DEF rest
  <2> HIDE DEF d
  <2> QED
    BY ZenonT(40), <1>4, <1>11, <1>13, <2>1, <2>2 DEF Crypt!Decrypt, d
<1>14. c # <<>> /\ c[Len(c)].key = k
  BY <1>1, <1>4, <1>7
<1> QED
  BY <1>13, <1>14 DEF c

\* A stored payload opens to the plaintext under every ring.
LEMMA Opens ==
  ASSUME Crypt!Keyrings, NEW n \in Node, NEW c, NEW text,
         c = <<>> <=> text = <<>>, c = <<>> \/ Sealed(c, text, Common)
  PROVE  Crypt!openEnvelope(n, c) = text
<1>1. CASE c = <<>>
  BY <1>1 DEF Crypt!openEnvelope
<1>2. CASE c # <<>>
  <2>1. PICK k \in Common, nonce \in 0..MaxSeals : c = SealedBy(k, nonce, text)
    BY <1>2 DEF Sealed
  <2>2. k \in KeyID /\ k \in ring[n].keys
    BY DEF Common
  <2>3. Crypt!Decrypt(ring[n], SealedBy(k, nonce, text)) = text
    BY <2>2, SealOpens
  <2> QED
    BY <1>2, <2>1, <2>3 DEF Crypt!openEnvelope
<1> QED
  BY <1>1, <1>2

\* What a node seals, every node opens.
LEMMA Seals ==
  ASSUME Crypt!Keyrings, RingInv, NEW n \in Node, NEW text, Crypt!sealing
  PROVE  LET c == Crypt!sealEnvelope(n, text)
         IN  /\ c = <<>> <=> text = <<>>
             /\ c = <<>> \/ Sealed(c, text, Common)
             /\ seals' \in 0..MaxSeals
<1> DEFINE k == ring[n].active
           c == Crypt!sealEnvelope(n, text)
<1>1. k \in Common /\ seals \in 0..MaxSeals /\ seals' \in 0..MaxSeals
  BY DEF RingInv, Common, Crypt!sealing, Crypt!Keyrings
<1>2. CASE text = <<>>
  BY <1>1, <1>2 DEF Crypt!sealEnvelope
<1>3. CASE text # <<>>
  <2>1. c = SealedBy(k, seals, text)
    BY <1>3 DEF Crypt!sealEnvelope, Crypt!Encrypt, SealedBy
  <2>2. SealedBy(k, seals, text) # <<>>
    BY <1>1, SealOpens DEF Common
  <2>3. Sealed(c, text, Common)
    BY <1>1, <2>1 DEF Sealed
  <2> QED
    BY <1>1, <1>3, <2>1, <2>2, <2>3
<1> QED
  BY <1>2, <1>3

LEMMA RowMoves ==
  ASSUME NEW t \in Task, NEW row, NEW K, RowOK(t, row, K), row.state # "absent",
         NEW new, NEW state \in RowState, NEW retried,
         new = [row EXCEPT !.state = state] \/ new = [row EXCEPT !.state = state, !.retried = retried]
  PROVE  RowOK(t, new, K)
<1>1. /\ DOMAIN new = {"state", "payload", "retried", "result"}
      /\ new.state = state /\ new.payload = row.payload /\ new.result = row.result
  BY ZenonT(40) DEF RowOK
<1> QED
  BY <1>1 DEF RowOK

\* Rows that are put while the rings stay as they are.
LEMMA RowsPut ==
  ASSUME RowInv, UNCHANGED ring, NEW T, DOMAIN rows' = Task,
         \A t \in Task : t \in T => RowOK(t, rows'[t], Common),
         \A t \in Task : t \notin T => rows'[t] = rows[t]
  PROVE  RowInv'
<1>1. Common' = Common
  BY DEF Common
<1>2. \A t \in Task : RowOK(t, rows'[t], Common)
  BY DEF RowInv
<1> HIDE DEF Common
<1>3. ASSUME NEW t \in Task PROVE RowOK(t, rows[t], Common)'
  BY ZenonT(40), <1>1, <1>2, <1>3 DEF RowOK, Sealed, SealedBy
<1> QED
  BY <1>3 DEF RowInv

LEMMA SameRings ==
  ASSUME RingInv, UNCHANGED ring, seals' \in 0..MaxSeals
  PROVE  RingInv'
  BY DEF RingInv

LEMMA SameEntries ==
  ASSUME EntryInv, UNCHANGED <<ring, cron>>
  PROVE  EntryInv'
<1>1. Common' = Common
  BY DEF Common
<1> HIDE DEF Common
<1> QED
  BY ZenonT(40), <1>1 DEF EntryInv, EntryOK, Sealed, SealedBy

LEMMA SameRows ==
  ASSUME RowInv, UNCHANGED <<ring, rows>>
  PROVE  RowInv'
  BY RowsPut DEF RowInv

LEMMA SameAbove ==
  ASSUME AboveInv, UNCHANGED <<held, handed>>
  PROVE  AboveInv'
  BY DEF AboveInv, Crypt!PlaintextAbove

\* An answer of the texts that were enqueued.
LEMMA Given ==
  ASSUME AboveInv, UNCHANGED held, NEW T, NEW answers, Crypt!gives(answers, T),
         \A x \in T : answers.opened[x] = Payload[x]
  PROVE  AboveInv'
<1>1. CASE answers.error
  <2>1. handed' = handed
    BY <1>1 DEF Crypt!gives
  <2> QED
    BY <2>1, SameAbove
<1>2. CASE ~answers.error
  <2>1. handed' = [x \in DOMAIN handed |-> IF x \in T THEN handed[x] \cup {answers.opened[x]} ELSE handed[x]]
    BY <1>2 DEF Crypt!gives
  <2> QED
    BY <2>1 DEF AboveInv, Crypt!PlaintextAbove
<1> QED
  BY <1>1, <1>2

\* Stored payloads open, so no answer is an error.
LEMMA OpensAll ==
  ASSUME Crypt!Keyrings, CryptInv, NEW n \in Node, NEW T, T \subseteq Task,
         \A t \in T : rows[t].state # "absent"
  PROVE  /\ Crypt!openEnvelopes(n, T).error = FALSE
         /\ \A t \in T : Crypt!openEnvelopes(n, T).opened[t] = Payload[t]
<1> DEFINE opened == [t \in T |-> Crypt!openEnvelope(n, rows[t].payload)]
<1>1. ASSUME NEW t \in T PROVE opened[t] = Payload[t] /\ ~Crypt!failed(opened[t])
  <2>1. /\ rows[t].payload = <<>> <=> Payload[t] = <<>>
        /\ rows[t].payload = <<>> \/ Sealed(rows[t].payload, Payload[t], Common)
    BY DEF CryptInv, RowInv, RowOK
  <2>2. Crypt!openEnvelope(n, rows[t].payload) = Payload[t]
    BY <2>1, Opens
  <2>3. ~Crypt!failed(Payload[t])
    BY DEF Crypt!Keyrings
  <2> QED
    BY <2>2, <2>3
<1>2. Crypt!openEnvelopes(n, T) = [error |-> \E t \in T : Crypt!failed(opened[t]), opened |-> opened]
  BY DEF Crypt!openEnvelopes
<1> HIDE DEF opened
<1>3. (\E t \in T : Crypt!failed(opened[t])) = FALSE
  BY <1>1
<1> QED
  BY <1>1, <1>2, <1>3

LEMMA CryptEnqueue ==
  ASSUME Crypt!Keyrings, CryptInv, NEW n \in Node, NEW T, T \subseteq Task, Crypt!EnqueueBatch(n, T)
  PROVE  CryptInv'
<1>1. UNCHANGED <<ring, held, cron, handed>> /\ Crypt!sealing
  BY DEF Crypt!EnqueueBatch
<1>2. RingInv'
  <2>1. seals' \in 0..MaxSeals
    BY <1>1, Seals DEF CryptInv
  <2> QED
    BY <1>1, <2>1, SameRings DEF CryptInv
<1>3. EntryInv' /\ AboveInv'
  BY <1>1, SameEntries, SameAbove DEF CryptInv
<1>4. RowInv'
  <2>1. CASE rows' = rows
    BY <1>1, <2>1, SameRows DEF CryptInv
  <2>2. CASE rows' = Crypt!stored(T, n)
    <3>1. ASSUME NEW t \in T PROVE RowOK(t, rows'[t], Common)
      <4> DEFINE c == Crypt!sealEnvelope(n, held[t])
                 new == [state |-> "pending", payload |-> c, retried |-> 0, result |-> <<>>]
      <4>1. rows'[t] = new
        BY ZenonT(40), <2>2, <3>1 DEF Crypt!stored, Crypt!NoRow
      <4>2. held[t] = Payload[t]
        BY <3>1 DEF CryptInv, AboveInv
      <4>3. /\ c = <<>> <=> Payload[t] = <<>>
            /\ c = <<>> \/ Sealed(c, Payload[t], Common)
        BY <1>1, <4>2, Seals DEF CryptInv
      <4> HIDE DEF c
      <4>4. /\ DOMAIN new = {"state", "payload", "retried", "result"}
            /\ new.state = "pending" /\ new.payload = c /\ new.result = <<>>
        OBVIOUS
      <4> HIDE DEF new
      <4> QED
        BY <4>1, <4>3, <4>4 DEF RowOK, RowState
    <3>2. DOMAIN rows' = Task /\ \A t \in Task : t \notin T => rows'[t] = rows[t]
      BY ZenonT(40), <2>2 DEF Crypt!stored
    <3> QED
      BY <1>1, <3>1, <3>2, RowsPut DEF CryptInv
  <2> QED
    BY <2>1, <2>2 DEF Crypt!EnqueueBatch
<1> QED
  BY <1>2, <1>3, <1>4 DEF CryptInv

LEMMA CryptLease ==
  ASSUME Crypt!Keyrings, CryptInv, NEW n \in Node, NEW T, T \subseteq Task, Crypt!Lease(n, T)
  PROVE  CryptInv'
<1>1. UNCHANGED <<ring, held, cron, seals>> /\ \A t \in T : rows[t].state = "pending"
  BY DEF Crypt!Lease
<1> DEFINE answers == Crypt!openEnvelopes(n, T)
<1>2. answers.error = FALSE /\ \A t \in T : answers.opened[t] = Payload[t]
  BY ZenonT(40), <1>1, OpensAll
<1>3. Crypt!gives(answers, T)
  BY DEF Crypt!Lease
<1>4. rows' = [t \in Task |-> IF t \in T THEN [rows[t] EXCEPT !.state = "active"] ELSE rows[t]]
  BY <1>2 DEF Crypt!Lease
<1> HIDE DEF answers
<1>5. RingInv' /\ EntryInv'
  BY <1>1, SameRings, SameEntries DEF CryptInv, RingInv
<1>6. AboveInv'
  BY <1>1, <1>2, <1>3, Given DEF CryptInv
<1>7. ASSUME NEW t \in T PROVE RowOK(t, rows'[t], Common)
  <2>1. RowOK(t, rows[t], Common) /\ rows[t].state # "absent" /\ "active" \in RowState
    BY <1>1 DEF CryptInv, RowInv, RowState
  <2>2. rows'[t] = [rows[t] EXCEPT !.state = "active"]
    BY <1>4
  <2> QED
    BY ZenonT(40), <2>1, <2>2, RowMoves
<1>8. RowInv'
  BY <1>1, <1>4, <1>7, RowsPut DEF CryptInv
<1> QED
  BY <1>5, <1>6, <1>8 DEF CryptInv

\* A completed row keeps its payload, and its result is sealed.
LEMMA RowCompletes ==
  ASSUME Crypt!Keyrings, RingInv, Crypt!sealing, NEW n \in Node, NEW t \in Task,
         NEW row, RowOK(t, row, Common), row.state = "active",
         NEW result \in {<<>>, <<"result">>}, NEW new,
         new = [row EXCEPT !.state = "completed", !.result = Crypt!sealEnvelope(n, result)]
  PROVE  RowOK(t, new, Common)
<1> DEFINE c == Crypt!sealEnvelope(n, result)
<1>1. c = <<>> \/ Sealed(c, <<"result">>, KeyID)
  <2>1. /\ c = <<>> <=> result = <<>>
        /\ c = <<>> \/ Sealed(c, result, Common)
    BY Seals
  <2>2. Common \subseteq KeyID
    BY DEF Common
  <2> HIDE DEF c
  <2> QED
    BY <2>1, <2>2 DEF Sealed
<1> HIDE DEF c
<1>2. new = [row EXCEPT !.state = "completed", !.result = c]
  BY DEF c
<1>3. /\ DOMAIN new = {"state", "payload", "retried", "result"}
      /\ new.state = "completed" /\ new.payload = row.payload /\ new.result = c
  BY ZenonT(40), <1>2 DEF RowOK
<1> QED
  BY <1>1, <1>3 DEF RowOK, RowState

LEMMA CryptAck ==
  ASSUME Crypt!Keyrings, CryptInv, NEW n \in Node,
         \/ \E t \in Task : Crypt!Ack(n, t)
         \/ \E T \in SUBSET Task : Crypt!AckBatch(n, T)
  PROVE  CryptInv'
<1>1. UNCHANGED <<ring, held, cron, handed>> /\ Crypt!sealing
  BY ZenonT(40) DEF Crypt!Ack, Crypt!AckBatch
<1>2. RingInv'
  <2>1. seals' \in 0..MaxSeals
    BY <1>1, Seals DEF CryptInv
  <2> QED
    BY <1>1, <2>1, SameRings DEF CryptInv
<1>3. EntryInv' /\ AboveInv'
  BY <1>1, SameEntries, SameAbove DEF CryptInv
<1>4. PICK T \in SUBSET Task, result \in {<<>>, <<"result">>} :
        /\ \A t \in T : rows[t].state = "active"
        /\ DOMAIN rows' = Task
        /\ \A t \in T : rows'[t] = [rows[t] EXCEPT !.state = "completed",
                                                   !.result = Crypt!sealEnvelope(n, result)]
        /\ \A t \in Task : t \notin T => rows'[t] = rows[t]
  <2>1. CASE \E t \in Task : Crypt!Ack(n, t)
    <3>1. PICK t \in Task : Crypt!Ack(n, t)
      BY <2>1
    <3>2. PICK result \in {<<>>, <<"result">>} :
            rows' = [rows EXCEPT ![t].state = "completed", ![t].result = Crypt!sealEnvelope(n, result)]
      BY ZenonT(40), <3>1 DEF Crypt!Ack
    <3>3. rows[t].state = "active" /\ DOMAIN rows = Task
      BY <3>1 DEF Crypt!Ack, CryptInv, RowInv
    <3>4. /\ DOMAIN rows' = Task /\ \A u \in Task : u # t => rows'[u] = rows[u]
          /\ rows'[t] = [rows[t] EXCEPT !.state = "completed", !.result = Crypt!sealEnvelope(n, result)]
      BY <3>2, <3>3
    <3>5. {t} \in SUBSET Task
      OBVIOUS
    <3> QED
      BY ZenonT(40), <3>3, <3>4, <3>5
  <2>2. CASE \E T \in SUBSET Task : Crypt!AckBatch(n, T)
    <3>1. PICK T \in SUBSET Task : Crypt!AckBatch(n, T)
      BY <2>2
    <3>2. /\ \A t \in T : rows[t].state = "active"
          /\ rows' = [t \in Task |-> IF t \in T THEN [rows[t] EXCEPT !.state = "completed",
                                                       !.result = Crypt!sealEnvelope(n, <<"result">>)]
                                     ELSE rows[t]]
      BY ZenonT(40), <3>1 DEF Crypt!AckBatch
    <3>3. /\ DOMAIN rows' = Task /\ \A t \in Task : t \notin T => rows'[t] = rows[t]
          /\ \A t \in T : rows'[t] = [rows[t] EXCEPT !.state = "completed",
                                                     !.result = Crypt!sealEnvelope(n, <<"result">>)]
      BY ZenonT(40), <3>2
    <3>4. <<"result">> \in {<<>>, <<"result">>}
      OBVIOUS
    <3> QED
      BY ZenonT(40), <3>2, <3>3, <3>4
  <2> QED
    BY ZenonT(40), <2>1, <2>2
<1>5. ASSUME NEW t \in T PROVE RowOK(t, rows'[t], Common)
  <2>1. RowOK(t, rows[t], Common) /\ rows[t].state = "active"
    BY ZenonT(40), <1>4 DEF CryptInv, RowInv
  <2>2. rows'[t] = [rows[t] EXCEPT !.state = "completed", !.result = Crypt!sealEnvelope(n, result)]
    BY ZenonT(40), <1>4
  <2> QED
    BY ZenonT(40), <1>1, <2>1, <2>2, RowCompletes DEF CryptInv
<1>6. RowInv'
  BY ZenonT(40), <1>1, <1>4, <1>5, RowsPut DEF CryptInv
<1> QED
  BY <1>2, <1>3, <1>6 DEF CryptInv

LEMMA OneOf ==
  ASSUME NEW S, NEW x \in S
  PROVE  {x} \subseteq S
OBVIOUS

\* Reads: GetTask, ListTasks, ListCronEntries.
LEMMA CryptReads ==
  ASSUME Crypt!Keyrings, CryptInv, NEW n \in Node,
         \/ \E t \in Task : Crypt!GetTask(n, t)
         \/ Crypt!ListTasks(n)
         \/ \E C \in SUBSET Cron : Crypt!ListCronEntries(n, C)
  PROVE  CryptInv'
<1>1. UNCHANGED <<ring, held, rows, cron, seals>>
  BY ZenonT(40) DEF Crypt!GetTask, Crypt!ListTasks, Crypt!ListCronEntries
<1>2. RingInv' /\ EntryInv' /\ RowInv'
  BY <1>1, SameRings, SameEntries, SameRows DEF CryptInv, RingInv
<1>3. ASSUME NEW T, T \subseteq Task, \A t \in T : rows[t].state # "absent",
             Crypt!gives(Crypt!openEnvelopes(n, T), T)
      PROVE  AboveInv'
  <2>1. \A t \in T : Crypt!openEnvelopes(n, T).opened[t] = Payload[t]
    BY ZenonT(40), <1>3, OpensAll
  <2> QED
    BY <1>1, <1>3, <2>1, Given DEF CryptInv
<1>4. CASE \E t \in Task : Crypt!GetTask(n, t)
  <2>1. PICK t \in Task : rows[t].state # "absent" /\ Crypt!gives(Crypt!openEnvelopes(n, {t}), {t})
    BY ZenonT(40), <1>4 DEF Crypt!GetTask
  <2> DEFINE T == {t}
  <2>2. T \subseteq Task
    BY ZenonT(40), OneOf
  <2>3. Crypt!gives(Crypt!openEnvelopes(n, T), T) /\ \A u \in T : rows[u].state # "absent"
    BY ZenonT(40), <2>1
  <2> HIDE DEF T
  <2>4. AboveInv'
    BY <1>3, <2>2, <2>3
  <2> QED
    BY ZenonT(40), <1>2, <2>4 DEF CryptInv
<1>5. CASE Crypt!ListTasks(n)
  <2> DEFINE T == {t \in Task : rows[t].state # "absent"}
  <2>1. Crypt!gives(Crypt!openEnvelopes(n, T), T)
    BY <1>5 DEF Crypt!ListTasks
  <2>2. T \subseteq Task /\ \A t \in T : rows[t].state # "absent"
    OBVIOUS
  <2> HIDE DEF T
  <2> QED
    BY <1>2, <1>3, <2>1, <2>2 DEF CryptInv
<1>6. CASE \E C \in SUBSET Cron : Crypt!ListCronEntries(n, C)
  <2>1. PICK C \in SUBSET Cron : /\ C \subseteq {c \in Cron : cron[c] # <<>>}
                                 /\ Crypt!gives(Crypt!openCronEntries(n, C), C)
    BY <1>6 DEF Crypt!ListCronEntries
  <2> DEFINE opened == [c \in C |-> Crypt!openEnvelope(n, cron[c])]
  <2>2. ASSUME NEW c \in C PROVE opened[c] = Payload[c]
    <3>1. cron[c] # <<>> /\ Payload[c] # <<>> /\ Sealed(cron[c], Payload[c], Common)
      BY <2>1 DEF CryptInv, EntryInv, EntryOK
    <3>2. Crypt!openEnvelope(n, cron[c]) = Payload[c]
      BY <3>1, Opens
    <3> QED
      BY <3>2
  <2>3. Crypt!openCronEntries(n, C).opened = opened
    BY DEF Crypt!openCronEntries
  <2> HIDE DEF opened
  <2>4. \A c \in C : Crypt!openCronEntries(n, C).opened[c] = Payload[c]
    BY <2>2, <2>3
  <2>5. AboveInv'
    BY <1>1, <2>1, <2>4, Given DEF CryptInv
  <2> QED
    BY <1>2, <2>5 DEF CryptInv
<1> QED
  BY <1>4, <1>5, <1>6

LEMMA CryptUpsert ==
  ASSUME Crypt!Keyrings, CryptInv, NEW n \in Node, NEW e \in Cron, Crypt!UpsertCronEntry(n, e)
  PROVE  CryptInv'
<1> DEFINE c == Crypt!sealEnvelope(n, held[e])
<1>1. /\ UNCHANGED <<ring, held, rows, handed>> /\ Crypt!sealing
      /\ cron' = [cron EXCEPT ![e] = c]
  BY DEF Crypt!UpsertCronEntry
<1>2. held[e] = Payload[e]
  BY DEF CryptInv, AboveInv
<1>3. EntryOK(e, c, Common) /\ seals' \in 0..MaxSeals
  BY <1>1, <1>2, Seals DEF CryptInv, EntryOK
<1> HIDE DEF c
<1>4. RingInv' /\ RowInv' /\ AboveInv'
  BY <1>1, <1>3, SameRings, SameRows, SameAbove DEF CryptInv
<1>5. EntryInv'
  <2>1. Common' = Common
    BY <1>1 DEF Common
  <2>2. DOMAIN cron' = Cron /\ \A d \in Cron : EntryOK(d, cron'[d], Common)
    BY <1>1, <1>3 DEF CryptInv, EntryInv
  <2> HIDE DEF Common
  <2> QED
    BY ZenonT(40), <2>1, <2>2 DEF EntryInv, EntryOK, Sealed, SealedBy
<1> QED
  BY <1>4, <1>5 DEF CryptInv

\* A lease ends, or a settled row is deleted.
LEMMA CryptDelegate ==
  ASSUME Crypt!Keyrings, CryptInv, NEW t \in Task, Crypt!delegate(t) \/ Crypt!DeleteTask(t)
  PROVE  CryptInv'
<1>1. UNCHANGED <<ring, cron, seals>>
  BY DEF Crypt!delegate, Crypt!DeleteTask
<1>2. RingInv' /\ EntryInv'
  BY <1>1, SameRings, SameEntries DEF CryptInv, RingInv
<1>3. DOMAIN rows = Task /\ RowOK(t, rows[t], Common)
  BY DEF CryptInv, RowInv
<1>4. ASSUME NEW new, rows' = [rows EXCEPT ![t] = new], RowOK(t, new, Common)
      PROVE  RowInv'
  <2>1. DOMAIN rows' = Task /\ rows'[t] = new /\ \A u \in Task : u \notin {t} => rows'[u] = rows[u]
    BY <1>3, <1>4
  <2>2. \A u \in Task : u \in {t} => RowOK(u, rows'[u], Common)
    BY <1>4, <2>1
  <2> QED
    BY ZenonT(40), <1>1, <2>1, <2>2, RowsPut DEF CryptInv
<1>5. CASE Crypt!delegate(t)
  <2>1. UNCHANGED <<held, handed>> /\ rows[t].state = "active"
    BY <1>3, <1>5 DEF Crypt!delegate, RowOK, RowState
  <2> DEFINE new == IF rows[t].retried >= MaxRetry THEN [rows[t] EXCEPT !.state = "archived"]
                    ELSE [rows[t] EXCEPT !.state = "pending", !.retried = rows[t].retried + 1]
  <2>2. rows' = [rows EXCEPT ![t] = new]
    BY <1>5 DEF Crypt!delegate
  <2>3. "archived" \in RowState /\ "pending" \in RowState /\ rows[t].state # "absent"
    BY <2>1 DEF RowState
  <2>4. RowOK(t, new, Common)
    BY ZenonT(40), <1>3, <2>3, RowMoves
  <2> HIDE DEF new
  <2> QED
    BY ZenonT(40), <1>2, <1>4, <2>1, <2>2, <2>4, SameAbove DEF CryptInv
<1>6. CASE Crypt!DeleteTask(t)
  <2> DEFINE new == [state |-> "absent", payload |-> <<>>, retried |-> 0, result |-> <<>>]
  <2>1. rows' = [rows EXCEPT ![t] = new]
    BY <1>6 DEF Crypt!DeleteTask, Crypt!NoRow
  <2>2. RowOK(t, new, Common)
    BY DEF RowOK, RowState
  <2> HIDE DEF new
  <2>3. RowInv'
    BY ZenonT(40), <1>4, <2>1, <2>2
  <2>4. held' = [held EXCEPT ![t] = Payload[t]] /\ handed' = [handed EXCEPT ![t] = {}]
    BY <1>6 DEF Crypt!DeleteTask
  <2>5. held' = held
    BY ZenonT(40), <2>4 DEF CryptInv, AboveInv
  <2>6. AboveInv'
    BY ZenonT(40), <2>4, <2>5 DEF CryptInv, AboveInv, Crypt!PlaintextAbove
  <2> QED
    BY <1>2, <2>3, <2>6 DEF CryptInv
<1> QED
  BY <1>5, <1>6

LEMMA RingOf ==
  ASSUME Crypt!Keyrings, NEW config \in Config, Crypt!NewAESGCM(config.active, config.keys) # Crypt!InvalidKey
  PROVE  LET r == Crypt!NewAESGCM(config.active, config.keys)
         IN  /\ r \in [active : KeyID, keys : SUBSET KeyID]
             /\ r.active = config.active /\ r.active \in r.keys
             /\ r.keys = {config.keys[i].id : i \in DOMAIN config.keys}
<1> DEFINE ids == {config.keys[i].id : i \in DOMAIN config.keys}
<1>1. ids \subseteq KeyID
  BY DEF Crypt!Keyrings
<1>2. /\ Crypt!NewAESGCM(config.active, config.keys) = [active |-> config.active, keys |-> ids]
      /\ config.active \in ids
  BY ZenonT(40) DEF Crypt!NewAESGCM
<1> HIDE DEF ids
<1>3. [active |-> config.active, keys |-> ids] \in [active : KeyID, keys : SUBSET KeyID]
  BY <1>1, <1>2
<1>4. /\ [active |-> config.active, keys |-> ids].active = config.active
      /\ [active |-> config.active, keys |-> ids].keys = ids
  OBVIOUS
<1> QED
  BY ZenonT(40), <1>2, <1>3, <1>4 DEF ids

\* A ring that keeps the keys in use still opens every stored payload.
LEMMA CryptRotate ==
  ASSUME Crypt!Keyrings, CryptInv, NEW n \in Node, NEW config \in Config, Crypt!rotate(n, config)
  PROVE  CryptInv'
<1> DEFINE r == Crypt!NewAESGCM(config.active, config.keys)
<1>1. UNCHANGED <<held, rows, cron, handed, seals>>
  BY DEF Crypt!rotate
<1>2. AboveInv'
  BY <1>1, SameAbove DEF CryptInv
<1>3. CASE r = Crypt!InvalidKey
  <2>1. UNCHANGED ring
    BY ZenonT(40), <1>3 DEF Crypt!rotate
  <2> QED
    BY <1>1, <1>2, <2>1, SameRings, SameEntries, SameRows DEF CryptInv, RingInv
<1>4. CASE r # Crypt!InvalidKey
  <2>1. /\ r \in [active : KeyID, keys : SUBSET KeyID]
        /\ r.active = config.active /\ r.active \in r.keys
        /\ r.keys = {config.keys[i].id : i \in DOMAIN config.keys}
    BY <1>4, RingOf
  <2>2. /\ \A m \in Node \ {n} : config.active \in ring[m].keys
        /\ {ring[m].active : m \in Node \ {n}} \cup Crypt!sealedUnder
               \subseteq {config.keys[i].id : i \in DOMAIN config.keys}
        /\ ring' = [ring EXCEPT ![n] = r]
    BY ZenonT(40), <1>4 DEF Crypt!rotate
  <2> HIDE DEF r
  <2>3. /\ \A m \in Node \ {n} : r.active \in ring[m].keys /\ ring[m].active \in r.keys
        /\ Crypt!sealedUnder \subseteq r.keys
    BY ZenonT(40), <2>1, <2>2
  <2>4. RingInv'
    <3>1. ring' \in [Node -> [active : KeyID, keys : SUBSET KeyID]]
      BY <2>1, <2>2 DEF CryptInv, RingInv
    <3>2. \A l, m \in Node : ring'[l].active \in ring'[m].keys
      BY <2>1, <2>2, <2>3 DEF CryptInv, RingInv
    <3> QED
      BY <1>1, <3>1, <3>2 DEF CryptInv, RingInv
  <2>5. ASSUME NEW k \in Common, k \in Crypt!sealedUnder PROVE k \in Common'
    BY <2>2, <2>3, <2>5 DEF Common, CryptInv, RingInv
  <2>6. ASSUME NEW t \in Task, rows[t].payload # <<>>, Sealed(rows[t].payload, Payload[t], Common)
        PROVE  Sealed(rows[t].payload, Payload[t], Common')
    <3>1. PICK k \in Common, nonce \in 0..MaxSeals : rows[t].payload = SealedBy(k, nonce, Payload[t])
      BY <2>6 DEF Sealed
    <3>2. rows[t].payload[Len(rows[t].payload)].key = k
      BY <3>1, SealOpens DEF Common
    <3>3. k \in Crypt!sealedUnder
      BY <2>6, <3>2 DEF Crypt!sealedUnder
    <3> QED
      BY <2>5, <3>1, <3>3 DEF Sealed
  <2>7. ASSUME NEW c \in Cron, cron[c] # <<>>, Sealed(cron[c], Payload[c], Common)
        PROVE  Sealed(cron[c], Payload[c], Common')
    <3>1. PICK k \in Common, nonce \in 0..MaxSeals : cron[c] = SealedBy(k, nonce, Payload[c])
      BY <2>7 DEF Sealed
    <3>2. cron[c][Len(cron[c])].key = k
      BY <3>1, SealOpens DEF Common
    <3>3. k \in Crypt!sealedUnder
      BY <2>7, <3>2 DEF Crypt!sealedUnder
    <3> QED
      BY <2>5, <3>1, <3>3 DEF Sealed
  <2> HIDE DEF Common
  <2>8. RowInv'
    <3>1. ASSUME NEW t \in Task PROVE RowOK(t, rows[t], Common')
      BY <2>6 DEF CryptInv, RowInv, RowOK
    <3>2. \A t \in Task : RowOK(t, rows[t], Common)'
      BY ZenonT(40), <1>1, <3>1 DEF RowOK, Sealed, SealedBy
    <3> QED
      BY <1>1, <3>2 DEF CryptInv, RowInv
  <2>9. EntryInv'
    <3>1. ASSUME NEW c \in Cron PROVE EntryOK(c, cron[c], Common')
      BY <2>7 DEF CryptInv, EntryInv, EntryOK
    <3>2. \A c \in Cron : EntryOK(c, cron[c], Common)'
      BY ZenonT(40), <1>1, <3>1 DEF EntryOK, Sealed, SealedBy
    <3> QED
      BY <1>1, <3>2 DEF CryptInv, EntryInv
  <2> QED
    BY <1>2, <2>4, <2>8, <2>9 DEF CryptInv
<1> QED
  BY <1>3, <1>4

LEMMA CryptInit ==
  ASSUME Crypt!Keyrings, Crypt!Init
  PROVE  CryptInv
<1>1. PICK c \in Config : /\ Crypt!NewAESGCM(c.active, c.keys) # Crypt!InvalidKey
                          /\ ring = [n \in Node |-> Crypt!NewAESGCM(c.active, c.keys)]
  BY DEF Crypt!Init
<1> DEFINE r == Crypt!NewAESGCM(c.active, c.keys)
           row == [state |-> "absent", payload |-> <<>>, retried |-> 0, result |-> <<>>]
<1>2. r \in [active : KeyID, keys : SUBSET KeyID] /\ r.active \in r.keys
  BY <1>1, RingOf
<1> HIDE DEF r
<1>3. RingInv
  <2>1. seals = 0 /\ ring = [n \in Node |-> r]
    BY <1>1 DEF Crypt!Init, r
  <2> QED
    BY <1>2, <2>1 DEF RingInv, Crypt!Keyrings
<1>4. RowInv
  <2>1. rows = [t \in Task |-> row]
    BY DEF Crypt!Init, Crypt!NoRow
  <2>2. \A t \in Task : RowOK(t, row, Common)
    BY DEF RowOK, RowState
  <2> HIDE DEF row
  <2> QED
    BY <2>1, <2>2 DEF RowInv
<1>5. EntryInv
  BY DEF Crypt!Init, EntryInv, EntryOK
<1>6. AboveInv
  BY DEF Crypt!Init, AboveInv, Crypt!PlaintextAbove
<1> QED
  BY <1>3, <1>4, <1>5, <1>6 DEF CryptInv

LEMMA CryptStep ==
  ASSUME Crypt!Keyrings, CryptInv, [Crypt!Next]_Crypt!cryptVars
  PROVE  CryptInv'
<1>1. ASSUME NEW n \in Node, NEW t \in Task, Crypt!Enqueue(n, t) PROVE CryptInv'
  <2>1. {t} \subseteq Task /\ Crypt!EnqueueBatch(n, {t})
    BY ZenonT(40), <1>1 DEF Crypt!Enqueue, Crypt!EnqueueBatch
  <2> QED
    BY <2>1, CryptEnqueue
<1>2. ASSUME NEW n \in Node, NEW T \in SUBSET Task,
             Crypt!EnqueueBatch(n, T) \/ Crypt!Lease(n, T) \/ Crypt!LeaseGroup(n, T)
      PROVE  CryptInv'
  BY <1>2, CryptEnqueue, CryptLease DEF Crypt!LeaseGroup
<1>3. CASE UNCHANGED Crypt!cryptVars
  <2>1. UNCHANGED <<ring, held, rows, cron, handed, seals>>
    BY <1>3 DEF Crypt!cryptVars
  <2> QED
    BY <2>1, SameRings, SameEntries, SameRows, SameAbove DEF CryptInv, RingInv
<1> QED
  BY <1>1, <1>2, <1>3, CryptAck, CryptReads, CryptUpsert, CryptDelegate, CryptRotate DEF Crypt!Next

LEMMA CryptHolds == CryptInv => Crypt!PayloadsProtected
<1> SUFFICES ASSUME CryptInv PROVE Crypt!PayloadsProtected
  OBVIOUS
<1>1. ASSUME NEW c, NEW text, NEW K, K \subseteq KeyID, text # <<>>, Sealed(c, text, K)
      PROVE  Crypt!sealedOnce(c, text)
  BY ZenonT(40), <1>1 DEF Sealed, SealedBy, Crypt!sealedOnce
<1>2. Crypt!sealedOnce(<<>>, <<>>) /\ Common \subseteq KeyID /\ <<"result">> # <<>>
  BY DEF Crypt!sealedOnce, Common
<1>3. ASSUME NEW t \in Task, rows[t].state # "absent"
      PROVE  /\ Crypt!sealedOnce(rows[t].payload, Payload[t])
             /\ Crypt!sealedOnce(rows[t].result, <<>>) \/ Crypt!sealedOnce(rows[t].result, <<"result">>)
  <2>1. /\ rows[t].payload = <<>> <=> Payload[t] = <<>>
        /\ rows[t].payload = <<>> \/ Sealed(rows[t].payload, Payload[t], Common)
        /\ rows[t].result = <<>> \/ Sealed(rows[t].result, <<"result">>, KeyID)
    BY <1>3 DEF CryptInv, RowInv, RowOK
  <2> QED
    BY <1>1, <1>2, <2>1
<1>4. \A c \in Cron : cron[c] # <<>> => Crypt!sealedOnce(cron[c], Payload[c])
  BY <1>1, <1>2 DEF CryptInv, EntryInv, EntryOK
<1>5. Crypt!SealedAtRest
  BY <1>3, <1>4 DEF Crypt!SealedAtRest
<1>6. Crypt!CryptTypeOK /\ Crypt!LeaseIsAnswered
  BY DEF CryptInv, RingInv, RowInv, RowOK, RowState, Crypt!CryptTypeOK, Crypt!LeaseIsAnswered
<1> QED
  BY <1>5, <1>6 DEF Crypt!PayloadsProtected, CryptInv, AboveInv

\* Whatever fails or is retried while nodes restart with rotated keyrings that
\* keep the keys in use, the storage engine holds every payload and result
\* sealed exactly once, callers are given the plaintext that was enqueued, and
\* no lease is lost to a payload that does not open (sealEnvelope,
\* openEnvelopes, encryptedBroker.Lease), for every set of nodes, tasks, keys
\* and keyrings.
THEOREM PayloadsAlwaysProtected ==
  ASSUME Crypt!Keyrings PROVE Crypt!Spec => []Crypt!PayloadsProtected
<1>1. Crypt!Init => CryptInv
  BY CryptInit
<1>2. CryptInv /\ [Crypt!Next]_Crypt!cryptVars => CryptInv'
  BY CryptStep
<1> QED
  BY <1>1, <1>2, CryptHolds, PTL DEF Crypt!Spec
=============================================================================
