------------------------------- MODULE SdkCodec -------------------------------
(***************************************************************************)
(* End-to-end encryption in the Go SDK (sdks/go/encryption.go, client.go,  *)
(* worker.go, group.go): a client with an encryptor seals and marks what   *)
(* it enqueues, a worker opens what is marked.  Clients and workers with   *)
(* and without encryptors share a queue, a task is enqueued again after a  *)
(* failed call, and is redelivered after a failed execution.               *)
(***************************************************************************)
EXTENDS Naturals, Sequences, FiniteSets, Keyring

CONSTANTS
    Task, Client, Worker,
    RingOf,     \* the encryptor of each client and worker, InvalidKey for none
    Payload,    \* payload of each task
    MaxTries, MaxSeals  \* bounds

VARIABLES
    task,    \* the Task each client holds: payload and marker
    wire,    \* the envelope the server stores
    ran,     \* payloads the handlers ran on
    failure, \* how the last execution of a task failed
    tries, seals

codecVars == <<task, wire, ran, failure, tries, seals>>

NotStored == [payload |-> <<>>, marked |-> FALSE, stored |-> FALSE]

Init ==
    /\ task = [t \in Task |-> [payload |-> Payload[t], marked |-> FALSE]]
    /\ wire = [t \in Task |-> NotStored]
    /\ ran = [t \in Task |-> {}]
    /\ failure = [t \in Task |-> "none"]
    /\ tries = 0 /\ seals = 0

\* buildEnqueueRequest seals a copy, the marker goes to a copy of the
\* metadata; the call may fail.
Enqueue(c, t) ==
    LET sealed == RingOf[c] # InvalidKey /\ task[t].payload # <<>>
        payload == IF sealed THEN Encrypt(RingOf[c], seals, task[t].payload) ELSE task[t].payload
    IN  /\ ~wire[t].stored /\ seals < MaxSeals
        /\ seals' = seals + 1
        /\ \/ wire' = [wire EXCEPT ![t] = [payload |-> payload, marked |-> sealed \/ task[t].marked, stored |-> TRUE]]
           \/ UNCHANGED wire
        /\ UNCHANGED <<task, ran, failure, tries>>

\* openEnvelope: marked payloads are opened, or the execution fails.
openEnvelope(w, envelope) ==
    IF ~envelope.marked THEN envelope.payload
    ELSE IF RingOf[w] = InvalidKey THEN <<UnknownKey>>
    ELSE Decrypt(RingOf[w], envelope.payload)

\* execute and executeBatch: a member that does not open fails its batch, and
\* the server redelivers each member from the stored envelope.
execute(w, T) ==
    LET opened == [t \in T |-> openEnvelope(w, wire[t])]
        fails == \E t \in T : failed(opened[t])
    IN  /\ T # {} /\ \A t \in T : wire[t].stored
        /\ tries < MaxTries
        /\ tries' = tries + 1
        /\ ran' = IF fails THEN ran ELSE [t \in Task |-> IF t \in T THEN ran[t] \cup {opened[t]} ELSE ran[t]]
        /\ failure' = [t \in Task |-> IF t \notin T THEN failure[t] ELSE IF fails THEN "failed" ELSE "none"]
        /\ UNCHANGED <<task, wire, seals>>

Next ==
    \/ \E c \in Client, t \in Task : Enqueue(c, t)
    \/ \E w \in Worker, T \in SUBSET Task : execute(w, T)

Spec == Init /\ [][Next]_codecVars

(***************************************************************************)
(* Properties                                                              *)
(***************************************************************************)
\* A handler only ever runs on the plaintext its client was given: never on a
\* ciphertext, whatever encryptors the clients and workers have and however
\* often a task is enqueued or delivered again (openEnvelope,
\* withEncryptionMarker).
HandlersSeePlaintext == \A t \in Task : ran[t] \subseteq {Payload[t]}
=============================================================================
