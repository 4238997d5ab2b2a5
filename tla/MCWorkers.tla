------------------------------ MODULE MCWorkers -------------------------------
(***************************************************************************)
(* Workers for model checking: the worker session with the Go SDK, the     *)
(* webhook gateway, the shares that workers are given of a queue, and the  *)
(* encryption of payloads at rest and in the SDK.  They share no state, so *)
(* each behaviour picks one scenario, which fixes the component that moves *)
(* and what it meets; between them the scenarios take every action.        *)
(***************************************************************************)
EXTENDS WorkerSession, TLC

VARIABLES
  scenario,
  hookRows, hookLeased, hookGrain, hookMailbox, hookRequests, hookRegistration, hookInflight,
  hookAsync, hookBatchStates, hookBreaker, hookMode, hookTypeOpen, hookDeferred, hookDraining,
  hookRunning, hookStarts, hookBeats, hookResolving, hookForgotten,
  slots, weights, accumulators, picks, always,
  ring, heldPayload, stored, cron, handed, cryptFaults, rotations, seals,
  task, sealedWire, ran, failure, tries, codecSeals

hookVars == <<hookRows, hookLeased, hookGrain, hookMailbox, hookRequests, hookRegistration,
              hookInflight, hookAsync, hookBatchStates, hookBreaker, hookMode, hookTypeOpen,
              hookDeferred, hookDraining, hookRunning, hookStarts, hookBeats, hookResolving,
              hookForgotten>>
shareVars == <<slots, weights, accumulators, picks, always>>
cryptVars == <<ring, heldPayload, stored, cron, handed, cryptFaults, rotations, seals>>
codecVars == <<task, sealedWire, ran, failure, tries, codecSeals>>

\* A worker the server accepts; one it refuses for a queue name or a version;
\* ones NewWorker does not build.
accepted == [sdk |-> 2, required |-> 0, concurrency |-> 1, queues |-> "q" :> 1]
MCOptions == {accepted, [accepted EXCEPT !.queues = "?" :> 1], [accepted EXCEPT !.sdk = 1],
              [accepted EXCEPT !.required = 4], [accepted EXCEPT !.concurrency = 0],
              [accepted EXCEPT !.queues = "q" :> 0]}

MCHookQueueOf == 1 :> 1 @@ 2 :> 1
MCRegistration == {[queues |-> 1 :> 1, concurrency |-> 2],
                   [queues |-> (1 :> 2 @@ 2 :> 1), concurrency |-> 1]}

Hook == INSTANCE WebhookGateway WITH
  Task <- {1, 2}, Queue <- {1, 2}, queueOf <- MCHookQueueOf, Registration <- MCRegistration,
  MaxRetry <- 1, MaxLeases <- 3, MaxBeats <- 1, MaxStarts <- 1, BrokerFails <- TRUE,
  rows <- hookRows, leased <- hookLeased, grain <- hookGrain, mailbox <- hookMailbox,
  requests <- hookRequests, registration <- hookRegistration, inflight <- hookInflight,
  async <- hookAsync, batchStates <- hookBatchStates, breaker <- hookBreaker, mode <- hookMode,
  typeOpen <- hookTypeOpen, deferred <- hookDeferred, draining <- hookDraining,
  running <- hookRunning, starts <- hookStarts, beats <- hookBeats, resolving <- hookResolving,
  forgotten <- hookForgotten

MCWeights == [1..1 -> 1..2] \cup [1..2 -> 1..4] \cup [1..3 -> 1..2]

Share == INSTANCE Shares WITH
  Concurrency <- {2, 8}, Weights <- MCWeights, MaxPicks <- 5, concurrency <- slots

Keys == INSTANCE Keyring
KeyIDs == {<<"a">>, <<"b", "b">>}
key(id) == [id |-> id, secret |-> 32]
keyring(id, ids) == [active |-> id, keys |-> [i \in DOMAIN ids |-> key(ids[i])]]

\* Rings before, while and after a key is rotated, and one with a duplicate id.
Crypt == INSTANCE Encryption WITH
  Node <- {"n1", "n2"}, Task <- {"t", "u"}, Cron <- {"c"}, KeyID <- KeyIDs,
  Config <- {keyring(<<"a">>, <<<<"a">>>>), keyring(<<"a">>, <<<<"a">>, <<"b", "b">>>>),
             keyring(<<"b", "b">>, <<<<"a">>, <<"b", "b">>>>),
             keyring(<<"b", "b">>, <<<<"b", "b">>>>), keyring(<<"b", "b">>, <<<<"a">>, <<"a">>>>)},
  Payload <- "t" :> <<"p">> @@ "u" :> <<"q">> @@ "c" :> <<"r">>,
  MaxRetry <- 0, MaxFaults <- 1, MaxRotations <- 2, MaxSeals <- 2,
  held <- heldPayload, rows <- stored, faults <- cryptFaults

ASSUME KeyringsAssumption == Crypt!Keyrings

\* A client and a worker with a keyring, and ones without.
Codec == INSTANCE SdkCodec WITH
  Task <- {"t", "u"}, Client <- {"c1", "c2"}, Worker <- {"w1", "w2"},
  RingOf <- "c1" :> [active |-> <<"a">>, keys |-> {<<"a">>}] @@ "c2" :> Keys!InvalidKey
            @@ "w1" :> [active |-> <<"b", "b">>, keys |-> KeyIDs] @@ "w2" :> Keys!InvalidKey,
  Payload <- "t" :> <<"p">> @@ "u" :> <<>>, MaxTries <- 3, MaxSeals <- 3,
  wire <- sealedWire, seals <- codecSeals

\* The scenarios: a session that serves single tasks and a batch; one whose task
\* is redelivered or canceled; a worker that reconnects; a hook that delivers
\* singles and a batch, one whose endpoint fails, one that is redelivered the
\* same task, one that is changed and restarted; shares; encryption.
Hooks == {"batches", "breakers", "redelivery", "lifecycle"}
Sessions == {"serve", "lapse", "reconnect"}

MCInit ==
  /\ scenario \in Sessions \union Hooks \union {"shares", "encryption", "codec"}
  /\ Share!Init /\ (scenario # "shares" => slots = 2 /\ weights = [i \in 1..1 |-> 1])
  /\ Crypt!Init /\ (scenario # "encryption" => ring["n1"].keys = {<<"a">>})
  /\ Codec!Init /\ Init /\ Hook!Init
  /\ scenario # "reconnect" => contract = accepted
  /\ scenario # "lifecycle" => hookRegistration = [queues |-> 1 :> 1, concurrency |-> 2]

sessionStep ==
  /\ Next
  /\ scenario # "reconnect" => current' < 2
  /\ scenario # "lapse" => beats' = 0
  /\ scenario = "serve" => faults' = 0 /\ ~(canceled' /\ draining')
  /\ scenario = "lapse" => ~canceled' /\ rows'["b"] = rows["b"] /\ (draining' => beats' = 0)
  /\ scenario = "reconnect" => ~draining' /\ rows'["b"] = rows["b"]

alone(t) == hookRows'[t] = hookRows[t]

hookStep ==
  /\ Hook!Next
  /\ scenario # "lifecycle" => hookStarts' = 0 /\ hookRunning' /\ ~hookDraining'
                              /\ hookRegistration' = hookRegistration
  /\ scenario = "batches" =>
       /\ hookBeats' = 0 /\ hookLeased' <= 2 /\ hookBreaker'.state = "Closed" /\ ~hookTypeOpen'
       /\ hookRows'[2].retried = 0 /\ ~hookRows'[2].expired /\ ~hookInflight'[2].canceled
  /\ scenario = "breakers" => hookBeats' = 0 /\ hookLeased' <= 2
       /\ \A m \in hookMailbox' : ~m.batch
       /\ \A t \in {1, 2} : /\ ~hookRows'[t].expired /\ ~hookInflight'[t].canceled
                            /\ hookAsync'[t] = hookAsync[t] /\ hookRows'[t].state # "archived"
       /\ hookRows'[2].retried = 0
  /\ scenario = "redelivery" => alone(2) /\ hookBreaker'.state = "Closed" /\ ~hookTypeOpen'
  /\ scenario = "lifecycle" => alone(2) /\ hookLeased' <= 2 /\ hookBeats' = 0 /\ ~hookTypeOpen'
       /\ hookAsync'[1] = hookAsync[1]

MCNext ==
  /\ UNCHANGED scenario
  /\ IF scenario \in Sessions THEN sessionStep ELSE UNCHANGED vars
  /\ IF scenario \in Hooks THEN hookStep ELSE UNCHANGED hookVars
  /\ IF scenario = "shares" THEN Share!Next ELSE UNCHANGED shareVars
  /\ IF scenario = "encryption" THEN Crypt!Next ELSE UNCHANGED cryptVars
  /\ IF scenario = "codec" THEN Codec!Next ELSE UNCHANGED codecVars

MCSpec == MCInit /\ [][MCNext]_<<vars, hookVars, shareVars, cryptVars, codecVars, scenario>>

-------------------------------------------------------------------------------
(* The properties of the instances, under their own names.                  *)

\* The grains hold the capacity the gateway means to announce, no slot is lost, a
\* batch waits for exactly its unresolved members, only final rows are resolved, a
\* drained gateway stays quiet, and the answer of a canceled delivery ends its
\* task (WebhookGateway).
DeliveriesAccounted == [][Hook!DeliveriesAccountedStep]_hookVars

\* splitCapacity and selectWeightedGateway give every queue and every gateway its
\* weighted share, to within one (Shares).
SharesProportional == scenario = "shares" => Share!SharesProportional

\* Payloads are sealed exactly once at rest and plain above the wrapper, across
\* key rotations (Encryption), and a handler only runs on the plaintext its
\* client was given (SdkCodec).
PayloadsProtected ==
  /\ scenario = "encryption" => Crypt!PayloadsProtected
  /\ scenario = "codec" => Codec!HandlersSeePlaintext
===============================================================================
