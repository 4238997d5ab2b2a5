----------------------------- MODULE TaskAdmin ------------------------------
(***************************************************************************)
(* The AdminService handlers that act on single tasks                      *)
(* (server/api/admin_service.go): cancel, delete, run, reschedule,         *)
(* archive, their batch forms, and paging through ListTasks.  A handler    *)
(* makes several broker calls and tells; other handlers, the queue grains, *)
(* the scheduler and the reaper move the rows in between.                  *)
(***************************************************************************)
EXTENDS Integers, FiniteSets, FiniteSetsExt, Sequences, SequencesExt

CONSTANTS
    Handler,    \* the calls that may be in progress
    Request,    \* what they may ask: an op, its ids, and for a reschedule its time
    TaskID,     \* task ids, numbers in the order of the ids
    Queue,      \* queue names
    Waiting,    \* tasks with blocked dependents
    PageLimit,  \* the page size of the listing
    MaxChanges, \* how often the rest of the system moves a row
    Absent      \* no row, no token

VARIABLES
    rows,      \* the task log: a queue and a state per id
    fresh,     \* ids never used so far
    handlers,  \* each call: its request, the item it is at, its results
    owed,      \* tasks made due by a handler and not yet woken for
    listing,   \* a caller reading page after page: the token and what it has seen
    steady,    \* rows that have been in the listing's scope since it began
    changes    \* moves made by the rest of the system

taskAdminVars == <<rows, fresh, handlers, owed, listing, steady, changes>>

Terminal == {"completed", "archived", "canceled"}
Startable == {"scheduled", "pending", "blocked", "aggregating"}
State == Startable \cup Terminal \cup {"active", "retry"}
Row == [queue : Queue, state : State]

Idle == [request |-> Absent, index |-> 1, at |-> "idle", queue |-> Absent, results |-> <<>>]

Init ==
    /\ rows \in [TaskID -> [queue : Queue, state : {"scheduled", "pending", "archived"}] \cup {Absent}]
    /\ fresh = {id \in TaskID : rows[id] = Absent}
    /\ handlers = [h \in Handler |-> Idle]
    /\ owed = {}
    /\ listing = [token |-> Absent, at |-> "idle", seen |-> <<>>]
    /\ steady = {}
    /\ changes = 0

exists(id) == rows[id] # Absent
moveTo(id, state) == rows' = [rows EXCEPT ![id].state = state]

\* A row that changes leaves the scope of a listing of one state, or of all.
keptSteady == steady' = {id \in steady : rows'[id] = rows[id]}

(***************************************************************************)
(* The broker's guards: which rows an operation accepts                    *)
(***************************************************************************)
cancelable(id) == rows[id].state \in {"scheduled", "pending", "retry", "aggregating", "blocked"}
deletable(id) == rows[id].state # "active"
runnable(id) == rows[id].state \in {"scheduled", "pending", "retry", "archived"}
reschedulable(id) == rows[id].state \in {"scheduled", "pending", "retry"}
archivable(id) == rows[id].state \in {"scheduled", "pending", "retry", "blocked"}

(***************************************************************************)
(* A call                                                                  *)
(***************************************************************************)
call(h, r) ==
    /\ handlers[h].at = "idle"
    /\ handlers' = [handlers EXCEPT ![h] = [Idle EXCEPT !.request = r, !.at = r.op]]
    /\ UNCHANGED <<rows, fresh, owed, listing, steady, changes>>

task(h) == handlers[h].request.ids[handlers[h].index]
batch(h) == Len(handlers[h].request.ids) > 1

goto(h, at) == handlers' = [handlers EXCEPT ![h].at = at]

\* batchTasks: an item's result is recorded and the next one begins; with the
\* last one the call is answered.
done(h, code) ==
    LET r == handlers[h].request
    IN handlers' = [handlers EXCEPT ![h].results = Append(@, code), ![h].queue = Absent,
                        ![h].index = IF @ < Len(r.ids) THEN @ + 1 ELSE @,
                        ![h].at = IF handlers[h].index < Len(r.ids) THEN r.op ELSE "answered"]

\* requireTaskID, and ErrTaskNotFound of every operation.
missing(h, op) ==
    /\ handlers[h].at = op /\ ~exists(task(h))
    /\ done(h, "NotFound")
    /\ UNCHANGED <<rows, fresh, owed, listing, steady, changes>>

refuse(h, op, ok) ==
    /\ handlers[h].at = op /\ exists(task(h)) /\ ~ok
    /\ done(h, "FailedPrecondition")
    /\ UNCHANGED <<rows, fresh, owed, listing, steady, changes>>

CancelTask(h) ==
    /\ handlers[h].at = "cancel" /\ exists(task(h))
    /\ IF cancelable(task(h))
       THEN moveTo(task(h), "canceled") /\ done(h, "OK")
       ELSE UNCHANGED rows /\ (IF batch(h) THEN done(h, "FailedPrecondition") ELSE goto(h, "cancelActive"))
    /\ owed' = owed \ {id \in {task(h)} : rows' # rows}
    /\ keptSteady /\ UNCHANGED <<fresh, listing, changes>>

\* cancelActive reads the row again.
cancelActive(h) ==
    /\ handlers[h].at = "cancelActive"
    /\ IF exists(task(h)) /\ rows[task(h)].state = "active"
       THEN goto(h, "frame") ELSE done(h, "FailedPrecondition")
    /\ UNCHANGED <<rows, fresh, owed, listing, steady, changes>>

\* The tell, which may fail; the executing worker ends the attempt later, if
\* the grain still knows of it.
tellCancelActive(h, delivered) ==
    /\ handlers[h].at = "frame"
    /\ done(h, IF delivered THEN "OK" ELSE "FailedPrecondition")
    /\ UNCHANGED <<rows, fresh, owed, listing, steady, changes>>

DeleteTask(h) ==
    /\ handlers[h].at = "delete" /\ exists(task(h))
    /\ deletable(task(h)) /\ task(h) \notin Waiting
    /\ rows' = [rows EXCEPT ![task(h)] = Absent]
    /\ done(h, "OK")
    /\ owed' = owed \ {task(h)}
    /\ keptSteady /\ UNCHANGED <<fresh, listing, changes>>

\* runTask reads the queue, makes the task due, and wakes the queue it read.
getQueue(h) ==
    /\ handlers[h].at = "run" /\ exists(task(h)) /\ handlers[h].queue = Absent
    /\ handlers' = [handlers EXCEPT ![h].queue = rows[task(h)].queue, ![h].at = "runNow"]
    /\ UNCHANGED <<rows, fresh, owed, listing, steady, changes>>

runTask(h) ==
    /\ handlers[h].at = "runNow" /\ exists(task(h)) /\ runnable(task(h))
    /\ moveTo(task(h), "pending")
    /\ owed' = owed \cup {task(h)}
    /\ goto(h, "wake")
    /\ keptSteady /\ UNCHANGED <<fresh, listing, changes>>

\* TellQueue(TaskEnqueued): best-effort, a lost one is left to the reaper.
wakeQueue(h) ==
    /\ handlers[h].at = "wake"
    /\ owed' = {id \in owed : rows[id].queue # handlers[h].queue}
    /\ done(h, "OK")
    /\ UNCHANGED <<rows, fresh, listing, steady, changes>>

\* rescheduleTask: a task whose new time has come by the time the clock is read
\* again needs a wake-up, the others wait for the scheduler.
RescheduleTask(h, passed) ==
    /\ handlers[h].at = "reschedule" /\ exists(task(h)) /\ reschedulable(task(h))
    /\ handlers[h].request.due => passed
    /\ moveTo(task(h), IF handlers[h].request.due THEN "pending" ELSE "scheduled")
    /\ owed' = IF handlers[h].request.due THEN owed \cup {task(h)} ELSE owed \ {task(h)}
    /\ IF passed THEN goto(h, "lookup") ELSE done(h, "OK")
    /\ keptSteady /\ UNCHANGED <<fresh, listing, changes>>

lookup(h) ==
    /\ handlers[h].at = "lookup"
    /\ IF exists(task(h))
       THEN handlers' = [handlers EXCEPT ![h].queue = rows[task(h)].queue, ![h].at = "wake"]
       ELSE done(h, "OK")
    /\ UNCHANGED <<rows, fresh, owed, listing, steady, changes>>

ArchiveTask(h) ==
    /\ handlers[h].at = "archive" /\ exists(task(h)) /\ archivable(task(h))
    /\ moveTo(task(h), "archived")
    /\ done(h, "OK")
    /\ owed' = owed \ {task(h)}
    /\ keptSteady /\ UNCHANGED <<fresh, listing, changes>>

\* adminTaskError: what an operation answers for a row it does not accept.
adminTaskError(h) ==
    \/ \E op \in {"cancel", "delete", "run", "runNow", "reschedule", "archive"} : missing(h, op)
    \/ refuse(h, "delete", deletable(task(h)) /\ task(h) \notin Waiting)
    \/ refuse(h, "runNow", runnable(task(h)))
    \/ refuse(h, "reschedule", reschedulable(task(h)))
    \/ refuse(h, "archive", archivable(task(h)))

CallStep(h) ==
    \/ CancelTask(h) \/ cancelActive(h) \/ \E b \in BOOLEAN : tellCancelActive(h, b)
    \/ DeleteTask(h) \/ ArchiveTask(h)
    \/ getQueue(h) \/ runTask(h) \/ wakeQueue(h)
    \/ \E b \in BOOLEAN : RescheduleTask(h, b)
    \/ lookup(h) \/ adminTaskError(h)

(***************************************************************************)
(* ListTasks, page after page                                              *)
(***************************************************************************)
\* Mutant: the token's own task is listed again.
afterTokenInclusive(token) == {id \in TaskID : exists(id) /\ (token = Absent \/ id <= token)}

afterToken(token) == {id \in TaskID : exists(id) /\ (token = Absent \/ id < token)}

startListing ==
    /\ listing.at = "idle"
    /\ listing' = [token |-> Absent, at |-> "reading", seen |-> <<>>]
    /\ steady' = {id \in TaskID : exists(id)}
    /\ UNCHANGED <<rows, fresh, handlers, owed, changes>>

\* The newest first; a full page names its last task as the next token, an
\* underfull one ends the listing.
ListTasks ==
    /\ listing.at = "reading"
    /\ LET matched == SetToSortSeq(afterToken(listing.token), >)
           records == SubSeq(matched, 1, Min({Len(matched), PageLimit}))
           full == Len(records) = PageLimit
       IN listing' = [token |-> IF full THEN Last(records) ELSE Absent,
                      at |-> IF full THEN "reading" ELSE "over",
                      seen |-> listing.seen \o records]
    /\ UNCHANGED <<rows, fresh, handlers, owed, steady, changes>>

(***************************************************************************)
(* The rest of the system                                                  *)
(***************************************************************************)
Follows(from) ==
    CASE from \in {"scheduled", "retry"} -> {"pending"}
      [] from = "pending" -> {"active"}
      [] from = "active" -> {"completed", "retry", "archived"}
      [] OTHER -> {}

proceed(id) ==
    /\ exists(id) /\ changes < MaxChanges
    /\ \E s \in Follows(rows[id].state) : moveTo(id, s)
    /\ owed' = owed \ {id}
    /\ changes' = changes + 1
    /\ keptSteady /\ UNCHANGED <<fresh, handlers, listing>>

appear(id) ==
    /\ id \in fresh /\ changes < MaxChanges
    /\ \E q \in Queue, s \in Startable : rows' = [rows EXCEPT ![id] = [queue |-> q, state |-> s]]
    /\ fresh' = fresh \ {id}
    /\ changes' = changes + 1
    /\ UNCHANGED <<handlers, owed, listing, steady>>

purge(id) ==
    /\ exists(id) /\ rows[id].state \in Terminal /\ changes < MaxChanges
    /\ rows' = [rows EXCEPT ![id] = Absent]
    /\ changes' = changes + 1
    /\ keptSteady /\ UNCHANGED <<fresh, handlers, owed, listing>>

Rest == \E id \in TaskID : proceed(id) \/ appear(id) \/ purge(id)

Next ==
    \/ \E h \in Handler : CallStep(h) \/ \E r \in Request : call(h, r)
    \/ startListing \/ ListTasks
    \/ Rest

(***************************************************************************)
(* Properties                                                              *)
(***************************************************************************)
TaskAdminTypeOK ==
    /\ rows \in [TaskID -> Row \cup {Absent}]
    /\ owed \subseteq {id \in TaskID : exists(id)} /\ fresh \cap owed = {}
    /\ \A h \in Handler : handlers[h].request # Absent =>
           /\ handlers[h].index \in 1..Len(handlers[h].request.ids)
           /\ Len(handlers[h].results) = handlers[h].index - (IF handlers[h].at = "answered" THEN 0 ELSE 1)

\* A task that RunTask or RescheduleTask made due, and that nothing else has
\* moved since, is about to be woken by a handler, which holds its queue or has
\* yet to look it up (admin_service.go, runTask and rescheduleTask).
DueIsWoken ==
    \A id \in owed : \E h \in Handler :
        \/ handlers[h].at = "wake" /\ handlers[h].queue = rows[id].queue
        \/ handlers[h].at = "lookup" /\ task(h) = id

\* A caller that follows the page tokens to the end has seen every task whose
\* row stood unchanged since the first page, and no task twice, whatever was
\* enqueued, moved or purged between the pages (admin_service.go, ListTasks).
PagesComplete ==
    /\ IsInjective(listing.seen)
    /\ listing.at = "over" => steady \subseteq ToSet(listing.seen)

\* No task is forgotten by an operator's call: neither one it made due nor one
\* it lists, though others move the rows between its broker calls.
NoTaskForgotten == TaskAdminTypeOK /\ DueIsWoken /\ PagesComplete
=============================================================================
