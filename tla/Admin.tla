-------------------------------- MODULE Admin --------------------------------
(***************************************************************************)
(* Changes to a queue's settings: the AdminService handlers                *)
(* (server/api/admin_service.go), the rows they persist and the copy the   *)
(* live queue grain works from (internal/actors/queue_grain.go).           *)
(*                                                                         *)
(* A handler is a goroutine: it persists the change, then tells the grain  *)
(* and waits until the grain has handled the message.  Handlers of         *)
(* different requests interleave.  The grain is activated by the first     *)
(* tell, reading the three settings one after the other, and passivates    *)
(* when idle.  A tell may time out, its message handled later or never.    *)
(***************************************************************************)
EXTENDS Integers, Sequences, FiniteSets

CONSTANTS
    Call,              \* requests in progress
    RateLimit,         \* rate limits a request may ask for
    MaxActive,         \* concurrency limits a request may ask for
    Invalid,           \* a value validation refuses
    Absent,            \* no override
    RateLimitEnabled,  \* Settings.RateLimitEnabled
    DefaultRateLimit,  \* Settings.RateLimitRatePerSec and RateLimitBurst
    MaxFaults          \* bound on the failures of a behaviour

VARIABLES
    stored,      \* the persisted settings
    live,        \* the grain's fields
    activation,  \* "down", the setting OnActivate reads next, or "up"
    inbox,       \* the grain's mailbox
    calls,       \* each request: its change, where its handler is, its answer
    faults,      \* failures so far
    told,        \* settings with a failure some caller was told of
    overlapped   \* settings two requests changed at the same time

adminVars == <<stored, live, activation, inbox, calls, faults, told, overlapped>>

\* No request is mistaken for the absence of one.
Requests == Absent \notin Call /\ MaxFaults \in Nat

Setting == {"paused", "rateLimit", "maxActive"}

Values(f) ==
    CASE f = "paused" -> BOOLEAN
      [] f = "rateLimit" -> RateLimit \cup {Absent}
      [] f = "maxActive" -> MaxActive \cup {Absent}

Idle == [setting |-> "paused", value |-> FALSE, at |-> "idle"]

Init ==
    /\ stored = [paused |-> FALSE, rateLimit |-> Absent, maxActive |-> Absent]
    /\ live = stored
    /\ activation = "down"
    /\ inbox = <<>>
    /\ calls = [c \in Call |-> Idle]
    /\ faults = 0
    /\ told = {}
    /\ overlapped = {}

(***************************************************************************)
(* What a setting means to the grain                                       *)
(***************************************************************************)
\* buildLimiter of the override, or of the server's default; the kill switch
\* leaves the queue unlimited.
limiterOf(override) ==
    IF ~RateLimitEnabled THEN Absent
    ELSE IF override = Absent THEN DefaultRateLimit ELSE override

effective(f, value) == IF f = "rateLimit" THEN limiterOf(value) ELSE value

(***************************************************************************)
(* The handlers                                                            *)
(***************************************************************************)
changing(f) == {c \in Call : calls[c].setting = f /\ calls[c].at \in {"persist", "tell", "wait"}}

at(c, place) == calls' = [calls EXCEPT ![c].at = place]

\* A request arrives.  The validation of its value answers at once.
request(c, f, value) ==
    /\ calls[c].at \in {"idle", "OK", "Internal", "InvalidArgument"}
    /\ calls' = [calls EXCEPT ![c] =
                    [setting |-> f, value |-> value,
                     at |-> IF value = Invalid THEN "InvalidArgument" ELSE "persist"]]
    /\ overlapped' = IF value # Invalid /\ changing(f) \ {c} # {} THEN overlapped \cup {f} ELSE overlapped
    /\ UNCHANGED <<stored, live, activation, inbox, faults, told>>

PauseQueue(c) == request(c, "paused", TRUE)
ResumeQueue(c) == request(c, "paused", FALSE)
SetQueueRateLimit(c, limit) == request(c, "rateLimit", limit)
DeleteQueueRateLimit(c) == request(c, "rateLimit", Absent)
SetQueueConcurrencyLimit(c, maxActive) == request(c, "maxActive", maxActive)
DeleteQueueConcurrencyLimit(c) == request(c, "maxActive", Absent)

\* taskLog.SetQueuePaused, SetQueueRateLimit, DeleteQueueRateLimit, ...
persist(c) ==
    /\ calls[c].at = "persist"
    /\ stored' = [stored EXCEPT ![calls[c].setting] = calls[c].value]
    /\ at(c, "tell")
    /\ UNCHANGED <<live, activation, inbox, faults, told, overlapped>>

persistFails(c) ==
    /\ calls[c].at = "persist" /\ faults < MaxFaults
    /\ faults' = faults + 1
    /\ at(c, "Internal")
    /\ UNCHANGED <<stored, live, activation, inbox, told, overlapped>>

\* engine.TellQueue: DrainQueue, ResumeQueue, RateLimitChanged or
\* ConcurrencyLimitChanged, with the values of the request.
tellQueue(c) ==
    /\ calls[c].at = "tell"
    /\ inbox' = Append(inbox, [call |-> c, setting |-> calls[c].setting, value |-> calls[c].value])
    /\ activation' = IF activation = "down" THEN "paused" ELSE activation
    /\ at(c, "wait")
    /\ told' = IF activation = "down" THEN {} ELSE told
    /\ overlapped' = IF activation = "down"
                     THEN {f \in overlapped : changing(f) # {}} ELSE overlapped
    /\ UNCHANGED <<stored, live, faults>>

\* The tell fails, or its deadline passes with the message still queued: the
\* caller is told that the change is persisted but not in effect.
tellFails(c) ==
    /\ calls[c].at \in {"tell", "wait"} /\ faults < MaxFaults
    /\ faults' = faults + 1
    /\ at(c, "Internal")
    /\ inbox' = [i \in DOMAIN inbox |-> IF inbox[i].call = c THEN [inbox[i] EXCEPT !.call = Absent] ELSE inbox[i]]
    /\ told' = told \cup {calls[c].setting}
    /\ UNCHANGED <<stored, live, activation, overlapped>>

(***************************************************************************)
(* The grain                                                               *)
(***************************************************************************)
\* OnActivate: the pause flag, loadRateLimit, loadConcurrencyLimit.
OnActivate ==
    /\ activation \in Setting
    /\ live' = [live EXCEPT ![activation] = effective(activation, stored[activation])]
    /\ activation' = CASE activation = "paused" -> "rateLimit"
                       [] activation = "rateLimit" -> "maxActive"
                       [] OTHER -> "up"
    /\ UNCHANGED <<stored, inbox, calls, faults, told, overlapped>>

\* Activation fails on a read, or the grain's node dies: every tell that waits
\* for the grain fails.
grainLost ==
    /\ activation # "down" /\ faults < MaxFaults
    /\ faults' = faults + 1
    /\ activation' = "down"
    /\ inbox' = <<>>
    /\ calls' = [c \in Call |-> IF calls[c].at = "wait" THEN [calls[c] EXCEPT !.at = "Internal"] ELSE calls[c]]
    /\ told' = told \cup {calls[c].setting : c \in {d \in Call : calls[d].at = "wait"}}
    /\ UNCHANGED <<stored, live, overlapped>>

\* The caller of m, unless it gave up waiting, gets its answer.
reply(m, answer) ==
    calls' = IF m.call = Absent THEN calls ELSE [calls EXCEPT ![m.call].at = answer]

\* Mutant: the grain takes the flag over without persisting it again.
setPausedInMemory(m) == live' = [live EXCEPT !.paused = m.value] /\ UNCHANGED stored

\* setPaused: the flag is persisted once more before the grain acts on it.
setPaused(m) ==
    /\ stored' = [stored EXCEPT !.paused = m.value]
    /\ live' = [live EXCEPT !.paused = m.value]

\* applyRateLimitChange, applyConcurrencyLimitChange: the values ride in the
\* message, the broker is not read.
applyLimitChange(m) ==
    /\ live' = [live EXCEPT ![m.setting] = effective(m.setting, m.value)]
    /\ UNCHANGED stored

OnReceive ==
    /\ activation = "up" /\ inbox # <<>>
    /\ LET m == Head(inbox)
       IN /\ IF m.setting = "paused" THEN setPaused(m) ELSE applyLimitChange(m)
          /\ reply(m, "OK")
    /\ inbox' = Tail(inbox)
    /\ UNCHANGED <<activation, faults, told, overlapped>>

\* Persisting the pause flag fails inside the grain: the tell returns the error.
setPausedFails ==
    /\ activation = "up" /\ inbox # <<>> /\ faults < MaxFaults
    /\ Head(inbox).setting = "paused"
    /\ faults' = faults + 1
    /\ reply(Head(inbox), "Internal")
    /\ inbox' = Tail(inbox)
    /\ told' = told \cup {"paused"}
    /\ UNCHANGED <<stored, live, activation, overlapped>>

\* The grain passivates when idle.
OnDeactivate ==
    /\ activation = "up" /\ inbox = <<>>
    /\ activation' = "down"
    /\ UNCHANGED <<stored, live, inbox, calls, faults, told, overlapped>>

Next ==
    \/ \E c \in Call : \/ PauseQueue(c) \/ ResumeQueue(c)
                       \/ DeleteQueueRateLimit(c) \/ DeleteQueueConcurrencyLimit(c)
                       \/ \E limit \in RateLimit \cup {Invalid} : SetQueueRateLimit(c, limit)
                       \/ \E n \in MaxActive \cup {Invalid} : SetQueueConcurrencyLimit(c, n)
                       \/ persist(c) \/ persistFails(c) \/ tellQueue(c) \/ tellFails(c)
    \/ OnActivate \/ grainLost \/ OnReceive \/ setPausedFails \/ OnDeactivate

Spec == Init /\ [][Next]_adminVars

(***************************************************************************)
(* Properties                                                              *)
(***************************************************************************)
AdminTypeOK ==
    /\ stored \in [paused : Values("paused"), rateLimit : Values("rateLimit"), maxActive : Values("maxActive")]
    /\ activation \in {"down", "up"} \cup Setting
    /\ faults \in 0..MaxFaults
    /\ {told, overlapped} \subseteq SUBSET Setting

quiet(f) == activation = "up" /\ changing(f) = {} /\ ~\E i \in DOMAIN inbox : inbox[i].setting = f

\* A pause or resume leaves the live dispatcher and the persisted flag in
\* agreement, however requests overlap (queue_grain.go, setPaused persists the
\* flag again), unless a caller was told that it did not take effect.
PauseAgrees == quiet("paused") /\ "paused" \notin told => live.paused = stored.paused

\* A rate or concurrency limit that was changed by one request at a time is the
\* one the live dispatcher enforces, across activations and passivations, unless
\* a caller was told otherwise (admin_service.go, SetQueueRateLimit,
\* SetQueueConcurrencyLimit and their deletions).
LimitsAgree ==
    \A f \in {"rateLimit", "maxActive"} :
        quiet(f) /\ f \notin told \cup overlapped => live[f] = effective(f, stored[f])

\* The live grain works under the settings that are stored, unless a caller was
\* told that a change did not take effect.
SettingsAgree == AdminTypeOK /\ PauseAgrees /\ LimitsAgree
==============================================================================
