------------------------------ MODULE MCGroups ------------------------------
(***************************************************************************)
(* An instance of Batches and one of GroupSweeper, side by side: a         *)
(* behaviour follows one scenario, of one of the two.                      *)
(***************************************************************************)
EXTENDS Batches

CONSTANTS g1, g2, t1, t2, m1, m2, m3, ga, AnyGroup, NoConfig

VARIABLES scenario, age, groupConfigs, sinceTick, missed, fired

sweeperVars == <<age, groupConfigs, sinceTick, missed, fired>>
mcVars == <<groupVars, sweeperVars, scenario>>

Fast == [maxSize |-> 2, maxDelay |-> 1, gracePeriod |-> 1]
Slow == [maxSize |-> 4, maxDelay |-> 3, gracePeriod |-> 3]

Sweeper == INSTANCE GroupSweeper WITH
    Member <- {m1, m2, m3}, Group <- {ga}, groupOf <- [m \in {m1, m2, m3} |-> ga],
    Config <- {Fast, Slow}, settings <- Slow, Interval <- 1, MaxMissed <- 1, MaxAge <- 9

Equal == [t \in Task |-> 0]
NoKeys == [t \in Task |-> NoKey]
TwoOne == [g \in Gateway |-> IF g = g1 THEN 2 ELSE 1]

(***************************************************************************)
(* A lease id matters only through the places that refer to it.  The id of *)
(* a lease cycle is kept as whether the row still has it; that of a group  *)
(* is replaced by the list of its places.                                  *)
(***************************************************************************)
mark(S, lease) == {<<t, activeRow(t, lease)>> : t \in S}

cycleView(c) == [c EXCEPT !.leaseID = 0, !.tasks = mark(c.tasks, c.leaseID)]

messageView(m) ==
    CASE m.kind = "ExecuteTask" -> <<m.task, activeRow(m.task, m.leaseID)>>
      [] m.kind = "ExecuteBatch" -> <<m.members>>
      [] OTHER -> <<m>>

entryView(t, entry) ==
    IF entry = NoEntry THEN <<>>
    ELSE <<entry.cancelRequested, activeRow(t, entry.leaseID), entry.leaseID \in GroupLease>>

membersUnder(S, b) == {c.members : c \in {d \in S : d.leaseID = b}}

groupLeaseView(b) ==
    <<{t \in Member : tasks[t].leaseID = b}, {t \in Member : <<t, b>> \in releasing},
      {<<c.members, c.called>> : c \in {d \in groupLeases : d.leaseID = b}},
      [g \in Gateway |-> <<{i \in DOMAIN mailbox[g] : mailbox[g][i].kind = "ExecuteBatch" /\ mailbox[g][i].leaseID = b},
                           {t \in tracked(g) : inflight[g][t].leaseID = b},
                           membersUnder(batches[g], b), membersUnder(batchRunning[g], b)>>]>>

View ==
    <<[t \in Task |-> <<tasks[t].state, tasks[t].retried>>], queuePaused, grain,
      mark(turn.todo, turn.leaseID), mark(turn.undeliverable, turn.leaseID), turn.dispatched, idle,
      [v \in {cycleView(c) : c \in cycles} |-> Cardinality({c \in cycles : cycleView(c) = v})],
      {<<r[1], activeRow(r[1], r[2])>> : r \in releasing},
      status, [g \in Gateway |-> [i \in DOMAIN mailbox[g] |-> messageView(mailbox[g][i])]],
      [g \in Gateway |-> [t \in Task |-> entryView(t, inflight[g][t])]], running, reports,
      fires, batchReports, {groupLeaseView(b) : b \in GroupLease}, sweeperVars, scenario>>

(***************************************************************************)
(* The scenarios: leases lapse at any time, and a member that lapsed may   *)
(* be redelivered on its own; or the session of g2 ends, or the queue is   *)
(* paused; or pipes, tells and the grain's node fail; or the sweeper       *)
(* decides when a group is due.                                            *)
(***************************************************************************)
SessionsOf == [lapses |-> {g1}, redelivered |-> {g1}, sessions |-> Gateway, failures |-> {g1}]
OutcomesOf ==
    [lapses |-> {"SUCCESS"}, redelivered |-> {"SUCCESS"}, sessions |-> {"SUCCESS", "RELEASED"}, failures |-> {"SUCCESS"}]
lapsing == scenario \in {"lapses", "redelivered"}

\* The worker of a lapsing batch reports every member; others report any.
listed(b) == IF scenario = "sessions" THEN SUBSET b.members ELSE {b.members}

Deliver(g) ==
    \/ /\ PostStart(g) \/ dispatch(g) \/ \E t \in Task : \E o \in OutcomesOf[scenario] : result(g, t, o)
       /\ UNCHANGED batchVars
    \/ dispatchBatch(g) \/ recordBatchCompletion(g)
    \/ \E t \in Task : batchHeartbeat(g, t)
    \/ \E b \in batchRunning[g] : \E S \in listed(b) :
           \E outcomes \in [S -> OutcomesOf[scenario]] : batchResult(g, b, outcomes)

\* Wake-ups come while something waits.
Wake == waiting # {} /\ TasksAvailable

ReapAbandoned == \E t \in Task : batchPlaces(t, tasks[t].leaseID) = {} /\ Reap(t)

BatchesNext ==
    \/ GroupStep
    \/ (Wake \/ GrainStep \/ PipedStep) /\ UNCHANGED batchVars
    \/ \E g \in SessionsOf[scenario] : Deliver(g)
    \/ lapsing /\ \E t \in Task : Reap(t) /\ UNCHANGED batchVars
    \/ ~lapsing /\ ReapAbandoned /\ UNCHANGED batchVars
    \/ scenario = "sessions" /\ status[g2] \in {"new", "up"} /\ PauseStep /\ UNCHANGED batchVars
    \/ scenario = "sessions" /\ ~queuePaused /\ GroupSessionEnd(g2)
    \/ scenario = "failures" /\ GroupFailure

GroupsInit ==
    /\ GroupInit /\ Sweeper!Init
    /\ scenario \in {"lapses", "sessions", "failures", "sweeper"}

GroupsNext ==
    /\ IF scenario = "sweeper" THEN Sweeper!Next /\ UNCHANGED groupVars
       ELSE BatchesNext /\ UNCHANGED sweeperVars
    /\ scenario' = IF scenario = "lapses" /\ queued(g1)' # {} THEN "redelivered" ELSE scenario

GroupsSpec == GroupsInit /\ [][GroupsNext]_mcVars

\* The credit properties, as long as a session is not sent a task on its own
\* that it still runs in a batch.
held == scenario \in {"sessions", "lapses"}
HeldBatchCreditsConserved == held => BatchCreditsConserved
HeldBatchSettlesWhole == held => BatchSettlesWhole

\* A member's wait is bounded, and a group's own override decides when it fires
\* (GroupSweeper).
FiresOnTime == [][Sweeper!FiresOnTimeStep]_sweeperVars

=============================================================================
