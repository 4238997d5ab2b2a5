------------------------------ MODULE Encryption ------------------------------
(***************************************************************************)
(* Encryption at rest: the broker wrapper that seals payloads and results  *)
(* (internal/broker/encrypted/encrypted.go) with a Keyring.                *)
(*                                                                         *)
(* Nodes restart with new keyrings while tasks sealed under older keys are *)
(* stored.  The wrapped broker may refuse a call; the caller then retries  *)
(* with the envelope it holds.                                             *)
(***************************************************************************)
EXTENDS Naturals, Sequences, FiniteSets, Keyring

CONSTANTS
    Node, Task, Cron,
    KeyID,      \* key ids, non-empty sequences
    Config,     \* keyrings a node may be given: [active, keys]
    Payload,    \* payload of each task and cron entry, <<>> for none
    MaxRetry,   \* reclaimed leases before a task is archived
    MaxFaults, MaxRotations, MaxSeals  \* bounds

Byte == UNION {{k[i] : i \in DOMAIN k} : k \in KeyID}

\* The keys of a configuration are known, and no payload reads as an error.
Keyrings ==
    /\ KeyID \subseteq Seq(Byte) \ {<<>>}
    /\ \A c \in Config : {c.keys[i].id : i \in DOMAIN c.keys} \subseteq KeyID
    /\ \A x \in Task \cup Cron : ~failed(Payload[x])
    /\ MaxSeals \in Nat

VARIABLES
    ring,       \* each node's AESGCM: [active, keys]
    held,       \* the envelope or entry the caller of a task holds
    rows,       \* the wrapped broker's rows
    cron,       \* the wrapped broker's cron payloads
    handed,     \* what the callers above were given: sets of payloads
    faults, rotations, seals

cryptVars == <<ring, held, rows, cron, handed, faults, rotations, seals>>

(***************************************************************************)
(* Sealing and opening envelopes                                           *)
(***************************************************************************)
\* sealEnvelope seals a clone; an empty payload stays empty.
sealEnvelope(n, payload) == IF payload = <<>> THEN <<>> ELSE Encrypt(ring[n], seals, payload)

openEnvelope(n, payload) == IF payload = <<>> THEN <<>> ELSE Decrypt(ring[n], payload)

\* openEnvelopes: one envelope that does not open fails them all.
openEnvelopes(n, T) ==
    LET opened == [t \in T |-> openEnvelope(n, rows[t].payload)]
    IN  [error |-> \E t \in T : failed(opened[t]), opened |-> opened]

NoRow == [state |-> "absent", payload |-> <<>>, retried |-> 0, result |-> <<>>]

Init ==
    /\ \E c \in Config : /\ NewAESGCM(c.active, c.keys) # InvalidKey
                         /\ ring = [n \in Node |-> NewAESGCM(c.active, c.keys)]
    /\ held = [x \in Task \cup Cron |-> Payload[x]]
    /\ rows = [t \in Task |-> NoRow]
    /\ cron = [c \in Cron |-> <<>>]
    /\ handed = [x \in Task \cup Cron |-> {}]
    /\ faults = 0 /\ rotations = 0 /\ seals = 0

sealing == seals < MaxSeals /\ seals' = seals + 1

stored(T, n) == [t \in Task |-> IF t \in T THEN [NoRow EXCEPT !.state = "pending",
                                                 !.payload = sealEnvelope(n, held[t])]
                                ELSE rows[t]]

\* Mutant: the caller's envelope is sealed in place.
EnqueueInPlace(n, t) ==
    /\ rows[t].state = "absent" /\ sealing
    /\ held' = [held EXCEPT ![t] = sealEnvelope(n, held[t])]
    /\ \/ rows' = stored({t}, n) /\ UNCHANGED faults
       \/ faults < MaxFaults /\ faults' = faults + 1 /\ UNCHANGED rows
    /\ UNCHANGED <<ring, cron, handed, rotations>>

\* Enqueue: the inner broker is given the sealed clone, and may refuse it.
Enqueue(n, t) ==
    /\ rows[t].state = "absent" /\ sealing
    /\ \/ rows' = stored({t}, n) /\ UNCHANGED faults
       \/ faults < MaxFaults /\ faults' = faults + 1 /\ UNCHANGED rows
    /\ UNCHANGED <<ring, held, cron, handed, rotations>>

\* EnqueueBatch seals every member before the inner broker sees any.
EnqueueBatch(n, T) ==
    /\ \A t \in T : rows[t].state = "absent"
    /\ sealing
    /\ \/ rows' = stored(T, n) /\ UNCHANGED faults
       \/ faults < MaxFaults /\ faults' = faults + 1 /\ UNCHANGED rows
    /\ UNCHANGED <<ring, held, cron, handed, rotations>>

gives(answers, T) ==
    handed' = IF answers.error THEN handed
              ELSE [x \in DOMAIN handed |-> IF x \in T THEN handed[x] \cup {answers.opened[x]} ELSE handed[x]]

\* Lease: the inner broker grants the leases, then the payloads are opened.  A
\* failure to open loses the answer and not the leases.
Lease(n, T) ==
    /\ T # {} /\ \A t \in T : rows[t].state = "pending"
    /\ rows' = [t \in Task |-> IF t \in T
                               THEN [rows[t] EXCEPT
                                       !.state = IF openEnvelopes(n, T).error THEN "orphaned" ELSE "active"]
                               ELSE rows[t]]
    /\ gives(openEnvelopes(n, T), T)
    /\ UNCHANGED <<ring, held, cron, faults, rotations, seals>>

\* The members of a group, the same way.
LeaseGroup(n, T) == Lease(n, T)

\* Ack seals a result, if there is one.
Ack(n, t) ==
    /\ rows[t].state = "active" /\ sealing
    /\ \E result \in {<<>>, <<"result">>} :
          rows' = [rows EXCEPT ![t].state = "completed", ![t].result = sealEnvelope(n, result)]
    /\ UNCHANGED <<ring, held, cron, handed, faults, rotations>>

\* AckBatch seals every member's result first; a failure acks none.
AckBatch(n, T) ==
    /\ Cardinality(T) > 1 /\ \A t \in T : rows[t].state = "active"
    /\ sealing
    /\ rows' = [t \in Task |-> IF t \in T THEN [rows[t] EXCEPT !.state = "completed",
                                                !.result = sealEnvelope(n, <<"result">>)]
                               ELSE rows[t]]
    /\ UNCHANGED <<ring, held, cron, handed, faults, rotations>>

GetTask(n, t) ==
    /\ rows[t].state # "absent"
    /\ gives(openEnvelopes(n, {t}), {t})
    /\ UNCHANGED <<ring, held, rows, cron, faults, rotations, seals>>

\* ListTasks: one record that does not open fails the listing.
ListTasks(n) ==
    /\ LET T == {t \in Task : rows[t].state # "absent"} IN gives(openEnvelopes(n, T), T)
    /\ UNCHANGED <<ring, held, rows, cron, faults, rotations, seals>>

UpsertCronEntry(n, c) ==
    /\ sealing
    /\ cron' = [cron EXCEPT ![c] = sealEnvelope(n, held[c])]
    /\ UNCHANGED <<ring, held, rows, handed, faults, rotations>>

\* openCronEntries: one entry that does not open fails the listing.
openCronEntries(n, C) ==
    LET opened == [c \in C |-> openEnvelope(n, cron[c])]
    IN  [error |-> \E c \in C : failed(opened[c]), opened |-> opened]

\* ListCronEntries and ListDueCronEntries.
ListCronEntries(n, C) ==
    /\ C \subseteq {c \in Cron : cron[c] # <<>>}
    /\ gives(openCronEntries(n, C), C)
    /\ UNCHANGED <<ring, held, rows, cron, faults, rotations, seals>>

\* Methods that carry no payload reach the inner broker as they are: a lease
\* that ends (Fail, Release, Archive, ReapExpiredLeases) keeps the row's bytes.
delegate(t) ==
    /\ rows[t].state \in {"active", "orphaned"}
    /\ rows' = [rows EXCEPT ![t] = IF rows[t].retried >= MaxRetry THEN [rows[t] EXCEPT !.state = "archived"]
                                   ELSE [rows[t] EXCEPT !.state = "pending", !.retried = @ + 1]]
    /\ UNCHANGED <<ring, held, cron, handed, faults, rotations, seals>>

\* DeleteTask; the id may then be enqueued anew.
DeleteTask(t) ==
    /\ rows[t].state \in {"completed", "archived"}
    /\ rows' = [rows EXCEPT ![t] = NoRow]
    /\ held' = [held EXCEPT ![t] = Payload[t]]
    /\ handed' = [handed EXCEPT ![t] = {}]
    /\ UNCHANGED <<ring, cron, faults, rotations, seals>>

(***************************************************************************)
(* Key rotation (external): a node restarts with a ring that still holds   *)
(* every key some node seals under or some row was sealed under, and seals *)
(* under a key every node holds.                                           *)
(***************************************************************************)
sealedUnder == {rows[t].payload[Len(rows[t].payload)].key : t \in {t \in Task : rows[t].payload # <<>>}}
               \cup {cron[c][Len(cron[c])].key : c \in {c \in Cron : cron[c] # <<>>}}

rotate(n, config) ==
    LET r == NewAESGCM(config.active, config.keys)
    IN  /\ rotations < MaxRotations
        /\ rotations' = rotations + 1
        /\ IF r = InvalidKey THEN UNCHANGED ring
           ELSE /\ \A m \in Node \ {n} : config.active \in ring[m].keys
                /\ {ring[m].active : m \in Node \ {n}} \cup sealedUnder
                       \subseteq {config.keys[i].id : i \in DOMAIN config.keys}
                /\ ring' = [ring EXCEPT ![n] = r]
        /\ UNCHANGED <<held, rows, cron, handed, faults, seals>>

Next ==
    \/ \E n \in Node, t \in Task : Enqueue(n, t) \/ Ack(n, t) \/ GetTask(n, t)
    \/ \E n \in Node, T \in SUBSET Task : EnqueueBatch(n, T) \/ Lease(n, T) \/ LeaseGroup(n, T) \/ AckBatch(n, T)
    \/ \E n \in Node : ListTasks(n) \/ \E c \in Config : rotate(n, c)
    \/ \E n \in Node, c \in Cron : UpsertCronEntry(n, c)
    \/ \E n \in Node, C \in SUBSET Cron : ListCronEntries(n, C)
    \/ \E t \in Task : delegate(t) \/ DeleteTask(t)

Spec == Init /\ [][Next]_cryptVars

(***************************************************************************)
(* Properties                                                              *)
(***************************************************************************)
\* Type invariant: a ring holds its active key (NewAESGCM).
CryptTypeOK ==
    /\ \A n \in Node : ring[n].active \in ring[n].keys /\ ring[n].keys \subseteq KeyID
    /\ \A t \in Task : rows[t].state \in {"absent", "pending", "active", "orphaned", "completed", "archived"}

sealedOnce(c, text) ==
    IF text = <<>> THEN c = <<>> ELSE \E k \in KeyID, nonce \in 0 .. MaxSeals :
        c = Encrypt([active |-> k, keys |-> {k}], nonce, text)

\* The storage engine holds each payload, cron payload and result sealed
\* exactly once, however often a call was retried and whatever the callers
\* were given ("the wrapped broker sees only ciphertext", sealEnvelope on a
\* clone, openEnvelope on a clone).
SealedAtRest ==
    /\ \A t \in Task : rows[t].state # "absent" =>
          sealedOnce(rows[t].payload, Payload[t])
          /\ (sealedOnce(rows[t].result, <<>>) \/ sealedOnce(rows[t].result, <<"result">>))
    /\ \A c \in Cron : cron[c] # <<>> => sealedOnce(cron[c], Payload[c])

\* Callers above the broker are only ever given the plaintext that was
\* enqueued, across restarts with rotated keyrings.
PlaintextAbove == \A x \in Task \cup Cron : handed[x] \subseteq {Payload[x]}

\* As long as rings are rotated without dropping a key in use, every lease the
\* inner broker grants is answered: no task is held by a lease whose holder
\* was told of an error, to lapse and lose a retry with every other task of
\* the call (Lease, openEnvelopes).
LeaseIsAnswered == \A t \in Task : rows[t].state # "orphaned"

\* Payloads are sealed below the wrapper and plain above it, and no lease is lost
\* to it.
PayloadsProtected == CryptTypeOK /\ SealedAtRest /\ PlaintextAbove /\ LeaseIsAnswered
=============================================================================
