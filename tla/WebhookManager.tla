---------------------------- MODULE WebhookManager ----------------------------
(***************************************************************************)
(* Webhook registrations and the singleton that keeps one gateway actor    *)
(* running per active registration (internal/actors/webhook_gateway.go),   *)
(* with the admin handlers that change registrations and the service that  *)
(* verifies endpoint callbacks (server/api).                               *)
(*                                                                         *)
(* Reconciling, the turns of a gateway, and the goroutine that drains and  *)
(* stops it interleave freely.  A nudge of an admin handler is one more    *)
(* reconcile turn of a manager that may take one at any time, so it has no *)
(* step of its own.  A gateway is the record [worker, draining]; its       *)
(* deliveries are the subject of module WebhookGateway.                    *)
(***************************************************************************)
EXTENDS Naturals, Sequences, FiniteSets

CONSTANTS
  Name,          \* registration names
  Request,       \* upsert requests: [queues, concurrency, secrets, timeout, paused]
  MaxChanges,    \* bound: admin calls
  MaxDeaths      \* bound: gateways that die, and moves of the manager

VARIABLES
  workers,       \* the persisted registrations by name
  gateways,      \* the live gateway actors, by incarnation <<name, number>>
  spawned,       \* how many were spawned under each name
  updates,       \* updateRegistration messages waiting at each incarnation
  children,      \* the manager's map from name to incarnation
  stopping,      \* names whose child is draining
  stops,         \* the goroutines of stopChild: [name, child, phase]
  confirmed,     \* gatewayStopped messages waiting at the manager
  listed,        \* names the queue grains hold as a gateway
  undrained,     \* names whose last drain did not answer
  changes, deaths

store == <<workers, changes>>
manager == <<children, stopping, stops, confirmed, undrained>>
actors == <<gateways, spawned, updates, listed, deaths>>
vars == <<store, manager, actors>>

exists(name) == name \in DOMAIN workers

Init ==
  /\ workers = << >> /\ changes = 0
  /\ gateways = << >> /\ spawned = [n \in Name |-> 0] /\ updates = << >> /\ listed = {} /\ deaths = 0
  /\ children = << >> /\ stopping = {} /\ stops = {} /\ confirmed = {} /\ undrained = {}

without(f, d) == [x \in DOMAIN f \ {d} |-> f[x]]
with(f, d, v) == [x \in DOMAIN f \union {d} |-> IF x = d THEN v ELSE f[x]]

-------------------------------------------------------------------------------
(* The admin handlers.                                                      *)

webhookSecretLimit == 2

\* webhookWorkerFromRequest: what a registration must satisfy to be stored.
webhookWorkerFromRequest(r) ==
  /\ DOMAIN r.queues # {} /\ \A q \in DOMAIN r.queues : r.queues[q] > 0
  /\ r.concurrency >= 1
  /\ Len(r.secrets) \in 1..webhookSecretLimit
  /\ \A i \in DOMAIN r.secrets : r.secrets[i] # ""
  /\ r.timeout >= 0

admin == changes < MaxChanges /\ changes' = changes + 1

UpsertWebhookWorker(name, r) ==
  /\ admin /\ webhookWorkerFromRequest(r)
  /\ workers' = with(workers, name, r)
  /\ UNCHANGED <<manager, actors>>

\* setWebhookWorkerPaused, of PauseWebhookWorker and ResumeWebhookWorker.
setWebhookWorkerPaused(name, paused) ==
  /\ admin /\ exists(name)
  /\ workers' = [workers EXCEPT ![name].paused = paused]
  /\ UNCHANGED <<manager, actors>>

DeleteWebhookWorker(name) ==
  /\ admin
  /\ workers' = without(workers, name)
  /\ UNCHANGED <<manager, actors>>

-------------------------------------------------------------------------------
(* The manager.                                                             *)

alive(i) == i \in DOMAIN gateways

\* The registrations that should have a gateway.
desired == {n \in Name : exists(n) /\ ~workers[n].paused /\ workers[n].secrets # << >>}

\* The children reconcile stops: unwanted, or dead.
unwanted == {n \in DOMAIN children : n \notin desired \/ ~alive(children[n])}

\* The registrations that get a fresh child: none running, none draining.
spawnable == desired \ (DOMAIN children \union stopping \union unwanted)

\* Mutant: a running child is not told of a changed registration.
refreshedNone == {}

\* The children told of their latest registration.
refreshed == (desired \intersect DOMAIN children) \ unwanted

\* reconcile, after ListWebhookWorkers answered: stop unwanted children, refresh
\* the running ones, spawn the missing ones (PostStart lists a spawned one with
\* its queue grains).  A failed listing leaves everything to the next turn.
reconcile ==
  LET fresh == {<<n, spawned[n] + 1>> : n \in spawnable}
      told == {children[n] : n \in refreshed}
      child(i) == [worker |-> workers[i[1]], draining |-> FALSE]
  IN  /\ stopping' = stopping \union unwanted
      /\ stops' = stops \union {[child |-> children[n], phase |-> "drain"] : n \in unwanted}
      /\ children' = [n \in (DOMAIN children \ unwanted) \union spawnable |->
                        IF n \in spawnable THEN <<n, spawned[n] + 1>> ELSE children[n]]
      /\ spawned' = [n \in Name |-> IF n \in spawnable THEN spawned[n] + 1 ELSE spawned[n]]
      /\ gateways' = [i \in DOMAIN gateways \union fresh |->
                        IF i \in fresh THEN child(i) ELSE gateways[i]]
      /\ updates' = [i \in DOMAIN updates \union fresh |->
                       CASE i \in fresh -> << >>
                         [] /\ i \in told /\ alive(i)
                            /\ updates[i] = << >> \/ updates[i][Len(updates[i])] # workers[i[1]]
                              -> Append(updates[i], workers[i[1]])
                         [] OTHER -> updates[i]]
      /\ listed' = listed \union {i[1] : i \in fresh}
      /\ undrained' = undrained \ spawnable
      /\ UNCHANGED <<store, confirmed, deaths>>

\* The goroutine of stopChild asks for the drain.  A dead child is skipped, and
\* a drain that times out leaves its tasks to lease expiry.
askDrain(s) ==
  /\ s \in stops /\ s.phase = "drain"
  /\ \/ /\ alive(s.child)
        /\ gateways' = [gateways EXCEPT ![s.child].draining = TRUE]
        /\ stops' = (stops \ {s}) \union {[s EXCEPT !.phase = "drained"]}
        /\ UNCHANGED undrained
     \/ /\ stops' = (stops \ {s}) \union {[s EXCEPT !.phase = "shutdown"]}
        /\ undrained' = undrained \union {s.child[1]}
        /\ UNCHANGED gateways
  /\ UNCHANGED <<store, children, stopping, confirmed, spawned, updates, listed, deaths>>

\* unregisterGateway: the drained child leaves the grains before it is stopped.
unregisterGateway(s) ==
  /\ s \in stops /\ s.phase = "drained"
  /\ listed' = listed \ {s.child[1]}
  /\ stops' = (stops \ {s}) \union {[s EXCEPT !.phase = "shutdown"]}
  /\ UNCHANGED <<store, children, stopping, confirmed, undrained, gateways, spawned, updates,
                 deaths>>

\* Shutdown, and gatewayStopped to the manager.
shutdown(s) ==
  /\ s \in stops /\ s.phase = "shutdown"
  /\ gateways' = without(gateways, s.child)
  /\ updates' = without(updates, s.child)
  /\ stops' = stops \ {s}
  /\ confirmed' = confirmed \union {s.child[1]}
  /\ UNCHANGED <<store, children, stopping, undrained, spawned, listed, deaths>>

\* gatewayStopped: the name may be used again.
gatewayStopped(n) ==
  /\ n \in confirmed
  /\ confirmed' = confirmed \ {n}
  /\ stopping' = stopping \ {n}
  /\ UNCHANGED <<store, children, stops, undrained, actors>>

\* The node of the manager is lost: its children and goroutines die with it, and
\* PreStart on the next host starts from empty maps.
managerMoves ==
  /\ deaths < MaxDeaths
  /\ deaths' = deaths + 1
  /\ gateways' = << >> /\ updates' = << >>
  /\ children' = << >> /\ stopping' = {} /\ stops' = {} /\ confirmed' = {}
  /\ undrained' = undrained \union {i[1] : i \in DOMAIN gateways}
  /\ UNCHANGED <<store, spawned, listed>>

-------------------------------------------------------------------------------
(* The gateways, as the manager sees them.                                  *)

\* apply: the next registration snapshot in the mailbox.
apply(i) ==
  /\ alive(i) /\ updates[i] # << >>
  /\ gateways' = [gateways EXCEPT ![i].worker = Head(updates[i])]
  /\ updates' = [updates EXCEPT ![i] = Tail(@)]
  /\ UNCHANGED <<store, manager, spawned, listed, deaths>>

\* registerTick: announce again, unless draining.
registerTick(i) ==
  /\ alive(i) /\ ~gateways[i].draining
  /\ listed' = listed \union {i[1]}
  /\ UNCHANGED <<store, manager, gateways, spawned, updates, deaths>>

\* A gateway actor stops on its own.
childDies(i) ==
  /\ alive(i) /\ deaths < MaxDeaths
  /\ deaths' = deaths + 1
  /\ gateways' = without(gateways, i) /\ updates' = without(updates, i)
  /\ undrained' = undrained \union {i[1]}
  /\ UNCHANGED <<store, children, stopping, stops, confirmed, spawned, listed>>

\* MintLeaseToken: a delivery carries a token under the newest secret the
\* gateway knows.
MintLeaseToken(i) == [name |-> i[1], secret |-> gateways[i].worker.secrets[1]]

\* verify: a callback's token must be signed by a secret the registration has
\* now.
verify(token) ==
  /\ exists(token.name)
  /\ \E k \in DOMAIN workers[token.name].secrets : workers[token.name].secrets[k] = token.secret

Next ==
  \/ \E n \in Name : \E r \in Request : UpsertWebhookWorker(n, r)
  \/ \E n \in Name : \E b \in BOOLEAN : setWebhookWorkerPaused(n, b)
  \/ \E n \in Name : DeleteWebhookWorker(n) \/ gatewayStopped(n)
  \/ reconcile \/ managerMoves
  \/ \E s \in stops : askDrain(s) \/ unregisterGateway(s) \/ shutdown(s)
  \/ \E i \in DOMAIN gateways : apply(i) \/ registerTick(i) \/ childDies(i)

-------------------------------------------------------------------------------
(* Properties.                                                              *)

\* Type invariant: the maps name the same actors, and what is stored is valid.
ManagerTypeOK ==
  /\ DOMAIN gateways = DOMAIN updates /\ DOMAIN children \subseteq Name
  /\ stopping \union confirmed \union listed \union undrained \subseteq Name
  /\ \A s \in stops : s.phase \in {"drain", "drained", "shutdown"}
  /\ \A n \in Name : exists(n) => /\ DOMAIN workers[n].queues # {}
                                  /\ Len(workers[n].secrets) \in 1..webhookSecretLimit

\* No two gateways of one registration are alive: a name is not spawned while
\* its predecessor drains (stopping), so a re-created registration never shares
\* its queues' credits with its own predecessor.
OneGatewayPerName ==
  \A i, j \in DOMAIN gateways : i[1] = j[1] => i = j

\* A name whose gateway was drained and stopped is not listed by any queue grain:
\* "a deleted or paused registration is never leased another task" (stopChild,
\* unregisterGateway, draining).
StoppedIsUnlisted ==
  \A n \in listed : n \in undrained \/ \E i \in DOMAIN gateways : i[1] = n

\* Every name that drains has its drain under way or its confirmation in the
\* mailbox, so no registration is locked out for good (stopping, gatewayStopped).
StoppingIsOwned ==
  \A n \in stopping : n \in confirmed \/ \E s \in stops : s.child[1] = n

\* No registration has two gateways, a dead listing or an abandoned drain.
GatewaysOwned == ManagerTypeOK /\ OneGatewayPerName /\ StoppedIsUnlisted /\ StoppingIsOwned

\* The manager's ticks recur, its goroutines run and mailboxes are worked off.
Fairness ==
  /\ WF_vars(reconcile)
  /\ \A n \in Name : WF_vars(gatewayStopped(n))
  /\ WF_vars(\E s \in stops : askDrain(s) \/ unregisterGateway(s) \/ shutdown(s))
  /\ WF_vars(\E i \in DOMAIN gateways : apply(i))

Spec == Init /\ [][Next]_vars /\ Fairness

\* The registration's gateway runs its latest snapshot, or there is none, and the
\* tokens it mints verify.
converged(n) ==
  LET own == {i \in DOMAIN gateways : i[1] = n}
  IN  /\ n \in desired => \E i \in own : ~gateways[i].draining /\ gateways[i].worker = workers[n]
      /\ n \notin desired => own = {}
      /\ \A i \in own : verify(MintLeaseToken(i))

\* Once the registrations stop changing, every active one has a gateway with its
\* latest snapshot and every other one has none, through pauses, deletions,
\* deaths and moves of the manager, and secrets rotated away are no longer
\* signed with (reconcile, apply, verify).
Converges == \A n \in Name : <>[]converged(n)
===============================================================================
