------------------------------ MODULE Scheduler ------------------------------
(***************************************************************************)
(* Cron: the scheduler singleton's materialization pass                    *)
(* (internal/actors/scheduler.go, internal/cron/cron.go), the broker's     *)
(* cron entries and the AdminService handlers that change them.            *)
(*                                                                         *)
(* A pass lists the due entries and then works on its copies, one broker   *)
(* call at a time, while handlers change the entries.  The singleton may   *)
(* be relocated in the middle of a pass: the pass of the old host runs on  *)
(* beside the new host's, or dies with its node.  The promotion half of a  *)
(* tick is in Maintenance.                                                 *)
(***************************************************************************)
EXTENDS Integers, Sequences, FiniteSets

CONSTANTS
    Host,        \* nodes the singleton may be placed on
    EntryID,     \* cron entry ids, numbers so that they have an order
    Period,      \* valid specs: an entry fires at the multiples of its period
    Invalid,     \* a spec, queue or option set that validation refuses
    Absent,      \* no entry
    UniqueTTL,   \* how long a slot's uniqueness claim lives
    MaxTime, MaxChanges, MaxFaults, MaxMoves  \* bounds

\* Ids are ordered, a spec recurs, and time is counted.
Timetable ==
    /\ EntryID \subseteq Nat
    /\ Period \subseteq Nat \ {0}
    /\ UniqueTTL \in Nat /\ MaxTime \in Nat \ {0}

ASSUME TimetableAssumption == Timetable

VARIABLES
    now,
    cronEntries,  \* the persisted entries
    fired,        \* the tasks materialized so far
    host,         \* where the singleton is placed
    pass,         \* what each node's scheduler is doing
    answer,       \* how the last admin request was answered
    changes, faults, moves

cronVars == <<now, cronEntries, fired, host, pass, answer, changes, faults, moves>>

Zero == 0  \* time.Time{}: the entry is not armed

IdlePass == [at |-> "idle", now |-> Zero, due |-> {}]

CronInit ==
    /\ now = 1
    /\ cronEntries = [id \in EntryID |-> Absent]
    /\ fired = <<>>
    /\ host \in Host
    /\ pass = [h \in Host |-> IdlePass]
    /\ answer = "none"
    /\ changes = 0 /\ faults = 0 /\ moves = 0

(***************************************************************************)
(* internal/cron                                                           *)
(***************************************************************************)
\* The first time the spec fires strictly after an instant.
NextFire(spec, after) == ((after \div spec) + 1) * spec

\* Deterministic in the entry and the slot, whichever scheduler fires it.
UniqueKey(id, slot, at) == <<id, slot>>

MaterializeTask(entry, at) ==
    [entry |-> entry.id, slot |-> entry.nextRunAt,
     uniqueKey |-> UniqueKey(entry.id, entry.nextRunAt, at),
     uniqueExpiresAt |-> now + UniqueTTL, open |-> TRUE]

\* uniqueKeyClaimed: an incomplete task holds the key, and its claim lives.
uniqueKeyClaimed(key) ==
    \E i \in DOMAIN fired : /\ fired[i].uniqueKey = key /\ fired[i].open
                            /\ fired[i].uniqueExpiresAt > now

(***************************************************************************)
(* The pass                                                                *)
(***************************************************************************)
isDue(id) ==
    /\ cronEntries[id] # Absent /\ ~cronEntries[id].paused
    /\ cronEntries[id].nextRunAt <= now

\* ListDueCronEntries: copies of the due entries, which entryOf takes in the
\* order of their ids.
ListDueCronEntries ==
    {[id |-> id, spec |-> cronEntries[id].spec, nextRunAt |-> cronEntries[id].nextRunAt] :
        id \in {id \in EntryID : isDue(id)}}

\* Mutant: the cursor is stored whatever it holds.
UpdateCronNextRunBlindly(id, expected, next) ==
    IF cronEntries[id] = Absent THEN cronEntries
    ELSE [cronEntries EXCEPT ![id].nextRunAt = next]

\* UpdateCronNextRun, a compare-and-set on the cursor.
UpdateCronNextRun(id, expected, next) ==
    IF cronEntries[id] = Absent \/ cronEntries[id].nextRunAt # expected THEN cronEntries
    ELSE [cronEntries EXCEPT ![id].nextRunAt = next]

\* Only the node that hosts the singleton is ticked.
materializeCron(h) ==
    /\ host = h /\ pass[h].at = "idle"
    /\ ListDueCronEntries # {}
    /\ pass' = [pass EXCEPT ![h] = [at |-> "entry", now |-> now, due |-> ListDueCronEntries]]
    /\ UNCHANGED <<now, cronEntries, fired, host, answer, changes, faults, moves>>

\* The entry in hand: the first by id of those left.
entryOf(h) == CHOOSE e \in pass[h].due : \A other \in pass[h].due : e.id <= other.id

\* The pass with its first entry dealt with.
nextEntry(h) ==
    IF pass[h].due = {entryOf(h)} THEN IdlePass
    ELSE [pass[h] EXCEPT !.at = "entry", !.due = @ \ {entryOf(h)}]

\* A broker call of the pass fails: the entry is left to a later tick.
passFails(h) ==
    /\ pass[h].at # "idle" /\ faults < MaxFaults
    /\ faults' = faults + 1
    /\ pass' = [pass EXCEPT ![h] = nextEntry(h)]
    /\ UNCHANGED <<now, cronEntries, fired, host, answer, changes, moves>>

\* An entry without a cursor is armed and does not fire.
armCron(h) ==
    /\ pass[h].at = "entry" /\ entryOf(h).nextRunAt = Zero
    /\ cronEntries' = UpdateCronNextRun(entryOf(h).id, Zero, NextFire(entryOf(h).spec, pass[h].now))
    /\ pass' = [pass EXCEPT ![h] = nextEntry(h)]
    /\ UNCHANGED <<now, fired, host, answer, changes, faults, moves>>

\* fireCron: enqueue the slot.  A duplicate is success.
fireCron(h) ==
    /\ pass[h].at = "entry" /\ entryOf(h).nextRunAt # Zero
    /\ LET task == MaterializeTask(entryOf(h), pass[h].now)
       IN  IF uniqueKeyClaimed(task.uniqueKey) THEN UNCHANGED fired
           ELSE fired' = Append(fired, task)
    /\ pass' = [pass EXCEPT ![h].at = "advance"]
    /\ UNCHANGED <<now, cronEntries, host, answer, changes, faults, moves>>

\* Mutant: the cursor moves to the slot after the fired one.
advanceOneSlot(h) ==
    /\ pass[h].at = "advance"
    /\ cronEntries' = UpdateCronNextRun(entryOf(h).id, entryOf(h).nextRunAt, entryOf(h).nextRunAt)
    /\ pass' = [pass EXCEPT ![h] = nextEntry(h)]
    /\ UNCHANGED <<now, fired, host, answer, changes, faults, moves>>

\* fireCron: move the cursor past the time of the pass.
advance(h) ==
    /\ pass[h].at = "advance"
    /\ cronEntries' = UpdateCronNextRun(entryOf(h).id, entryOf(h).nextRunAt,
                                        NextFire(entryOf(h).spec, pass[h].now))
    /\ pass' = [pass EXCEPT ![h] = nextEntry(h)]
    /\ UNCHANGED <<now, fired, host, answer, changes, faults, moves>>

(***************************************************************************)
(* Relocation, time and workers (external)                                 *)
(***************************************************************************)
\* The cluster places the singleton on another node while the old host, cut
\* off, is still in a pass.
relocate(h) ==
    /\ moves < MaxMoves /\ host # h
    /\ moves' = moves + 1
    /\ host' = h
    /\ UNCHANGED <<now, cronEntries, fired, pass, answer, changes, faults>>

\* A node dies in the middle of a pass.
nodeDies(h) ==
    /\ moves < MaxMoves /\ pass[h].at # "idle"
    /\ moves' = moves + 1
    /\ pass' = [pass EXCEPT ![h] = IdlePass]
    /\ \E other \in Host : host' = other
    /\ UNCHANGED <<now, cronEntries, fired, answer, changes, faults>>

passes ==
    /\ now < MaxTime
    /\ now' = now + 1
    /\ UNCHANGED <<cronEntries, fired, host, pass, answer, changes, faults, moves>>

completes(i) ==
    /\ fired[i].open
    /\ fired' = [fired EXCEPT ![i].open = FALSE]
    /\ UNCHANGED <<now, cronEntries, host, pass, answer, changes, faults, moves>>

(***************************************************************************)
(* The admin handlers                                                      *)
(***************************************************************************)
answered(code) == answer' = code /\ changes < MaxChanges /\ changes' = changes + 1

\* A valid entry replaces the stored one and is not armed.
UpsertCron(id, spec, paused) ==
    /\ IF spec = Invalid THEN answered("InvalidArgument") /\ UNCHANGED cronEntries
       ELSE /\ answered("OK")
            /\ cronEntries' = [cronEntries EXCEPT ![id] =
                                  [spec |-> spec, paused |-> paused, nextRunAt |-> Zero]]
    /\ UNCHANGED <<now, fired, host, pass, faults, moves>>

setCronPaused(id, paused) ==
    /\ IF cronEntries[id] = Absent THEN answered("NotFound") /\ UNCHANGED cronEntries
       ELSE answered("OK") /\ cronEntries' = [cronEntries EXCEPT ![id].paused = paused]
    /\ UNCHANGED <<now, fired, host, pass, faults, moves>>

PauseCron(id) == setCronPaused(id, TRUE)
ResumeCron(id) == setCronPaused(id, FALSE)

\* Deleting an absent entry succeeds.
DeleteCron(id) ==
    /\ answered("OK")
    /\ cronEntries' = [cronEntries EXCEPT ![id] = Absent]
    /\ UNCHANGED <<now, fired, host, pass, faults, moves>>

tick(h) == materializeCron(h) \/ armCron(h) \/ fireCron(h) \/ advance(h)

Admins ==
    \E id \in EntryID :
        \/ \E spec \in Period \cup {Invalid}, paused \in BOOLEAN : UpsertCron(id, spec, paused)
        \/ PauseCron(id) \/ ResumeCron(id) \/ DeleteCron(id)

CronNext ==
    \/ \E h \in Host : tick(h) \/ passFails(h) \/ relocate(h) \/ nodeDies(h)
    \/ passes
    \/ \E i \in DOMAIN fired : completes(i)
    \/ Admins

\* Ticks recur on the placed node (scheduleTicks), and a pass runs on.
CronFairness == \A h \in Host : WF_cronVars(tick(h))

CronSpec == CronInit /\ [][CronNext]_cronVars /\ CronFairness

(***************************************************************************)
(* Properties                                                              *)
(***************************************************************************)
\* Type invariant: stored entries are valid, and a pass has an entry in hand.
CronTypeOK ==
    /\ now \in 1 .. MaxTime
    /\ \A id \in EntryID : cronEntries[id] # Absent =>
          /\ cronEntries[id].spec \in Period /\ cronEntries[id].paused \in BOOLEAN
          /\ cronEntries[id].nextRunAt \in Nat
    /\ host \in Host
    /\ \A h \in Host : pass[h].at \in {"idle", "entry", "advance"}
                       /\ (pass[h].at # "idle" <=> pass[h].due # {})
    /\ answer \in {"none", "OK", "NotFound", "InvalidArgument"}

\* However two schedulers race for a slot across a relocation, at most one
\* incomplete task of the slot holds a live claim (UniqueKey, fireCron).
OneLiveTaskPerSlot ==
    \A i, j \in DOMAIN fired :
        /\ fired[i].entry = fired[j].entry /\ fired[i].slot = fired[j].slot
        /\ fired[i].open /\ fired[j].open
        /\ fired[i].uniqueExpiresAt > now /\ fired[j].uniqueExpiresAt > now
        => i = j

\* The cursor of an armed entry leaves a slot only forward, only for a time
\* the pass had not reached, and only once a task for the slot exists: a crash,
\* a failed call or a stale scheduler neither skips a due slot nor moves the
\* cursor backward (fireCron).
SlotFiresBeforeAdvanceStep ==
    \A id \in EntryID :
        LET old == cronEntries[id]
            new == cronEntries'[id]
        IN  /\ old # Absent /\ new # Absent
            /\ old.nextRunAt # Zero /\ new.nextRunAt \notin {Zero, old.nextRunAt}
            => /\ new.nextRunAt > old.nextRunAt
               /\ \E i \in DOMAIN fired : fired[i].entry = id /\ fired[i].slot = old.nextRunAt

\* No slot is skipped, taken back or held by two live tasks.
SlotsKeptStep == (CronTypeOK /\ OneLiveTaskPerSlot)' /\ SlotFiresBeforeAdvanceStep
SlotsKept == [][SlotsKeptStep]_cronVars

\* Every due slot is dealt with: the entry is armed past the current time, or
\* paused, deleted or changed, whatever failures and relocations came before.
DueFires == \A id \in EntryID : []<>(~isDue(id))

=============================================================================
