------------------------------ MODULE Batches -------------------------------
(***************************************************************************)
(* Aggregation groups (internal/actors/group.go) on top of the dispatch of *)
(* one queue: a fired group is leased as a whole, sent to a session as one *)
(* batch that costs one credit, and answered by one batch result.          *)
(*                                                                         *)
(* The members of the one group modelled start as aggregating rows, which  *)
(* no ordinary lease claims.  A member that is released, retried or reaped *)
(* comes back as an ordinary pending row, so a task may be delivered in a  *)
(* batch and later on its own, to the same session; that is why this       *)
(* module extends Dispatch instead of standing beside it.                  *)
(***************************************************************************)
EXTENDS Dispatch

CONSTANTS
    Member,        \* the tasks of the group
    BatchGateway,  \* gateways whose session advertises the group's type
    MaxSize,       \* the effective max size, carried on FireGroup
    GroupLease     \* lease ids for groups, apart from those of lease cycles

VARIABLES
    fires,         \* FireGroup messages on their way to the grain
    groupLeases,   \* LeaseGroup calls piped and not yet handled
    batches,       \* Gateway.batches
    batchRunning,  \* batches each worker has yet to report
    batchReports   \* BatchCompleted reports on their way to the grain

batchVars == <<fires, groupLeases, batches, batchRunning, batchReports>>
groupVars == <<vars, batchVars>>

ASSUME BatchAssumption ==
    /\ Member \subseteq Task
    /\ BatchGateway \subseteq Gateway
    /\ MaxSize \in Nat \ {0}
    /\ GroupLease \cap (LeaseID \cup {NoLease}) = {}

Batch == [leaseID : GroupLease, members : SUBSET Member]
ExecuteBatch == [kind : {"ExecuteBatch"}, leaseID : GroupLease, members : SUBSET Member]

aggregating == {t \in Member : tasks[t].state = "aggregating"}

batchMessages(g) == {mailbox[g][i] : i \in {j \in DOMAIN mailbox[g] : mailbox[g][j].kind = "ExecuteBatch"}}

groupLeasesInUse ==
    {tasks[t].leaseID : t \in Member} \cup {c.leaseID : c \in groupLeases}
        \cup {r[2] : r \in releasing}
        \cup {inflight[p[1]][p[2]].leaseID :
                 p \in {q \in Gateway \X Member : inflight[q[1]][q[2]] # NoEntry}}
        \cup UNION {{m.leaseID : m \in batchMessages(g) \cup batches[g] \cup batchRunning[g]} : g \in Gateway}

NewGroupLease == CHOOSE id \in GroupLease : id \notin groupLeasesInUse

(***************************************************************************)
(* The grain                                                               *)
(***************************************************************************)
\* The sweeper finds the group due and tells the grain; one message on its way
\* stands for any number.  (When a group is due: module GroupSweeper.)
sweep ==
    /\ aggregating # {}
    /\ fires = 0
    /\ fires' = 1
    /\ UNCHANGED <<vars, groupLeases, batches, batchRunning, batchReports>>

\* The tell fails; the next sweep fires the group again.
loseFire ==
    /\ fires > 0
    /\ fires' = fires - 1
    /\ UNCHANGED <<vars, groupLeases, batches, batchRunning, batchReports>>

\* pickBatchGateway: a registered, batch-capable gateway with a credit left.
batchEligible == eligible \cap BatchGateway

\* OnReceive of FireGroup: pipes a lease of the group unless the queue is
\* paused or no gateway can take the batch.
fireGroup ==
    /\ idle /\ fires > 0
    /\ fires' = fires - 1
    /\ IF grain.paused \/ batchEligible = {}
       THEN UNCHANGED groupLeases
       ELSE /\ GroupLease \ groupLeasesInUse # {}
            /\ groupLeases' = groupLeases \cup {[leaseID |-> NewGroupLease, members |-> {}, called |-> FALSE]}
    /\ UNCHANGED <<vars, batches, batchRunning, batchReports>>

\* The piped broker call: claims up to MaxSize aggregating members.
LeaseGroup(c) ==
    /\ ~c.called
    /\ \E S \in SUBSET aggregating :
           /\ Cardinality(S) = Min({MaxSize, Cardinality(aggregating)})
           /\ tasks' = [t \in Task |-> IF t \in S
                                       THEN [tasks[t] EXCEPT !.state = "active", !.leaseID = c.leaseID]
                                       ELSE tasks[t]]
           /\ groupLeases' = (groupLeases \ {c}) \cup {[c EXCEPT !.members = S, !.called = TRUE]}
    /\ UNCHANGED <<queuePaused, grainVars, gatewayVars, fires, batches, batchRunning, batchReports>>

\* The broker call fails: the result carries an error and no member.
LeaseGroupFails(c) ==
    /\ ~c.called
    /\ groupLeases' = (groupLeases \ {c}) \cup {[c EXCEPT !.called = TRUE]}
    /\ UNCHANGED <<vars, fires, batches, batchRunning, batchReports>>

\* OnReceive of StatusFailure for the pipe of a finished group lease: its
\* members wait for their lease to lapse, and the guard of lease cycles, which
\* the group lease never took, is cleared.
groupPipeFails(c) ==
    /\ idle /\ c.called
    /\ groupLeases' = groupLeases \ {c}
    /\ grain' = [grain EXCEPT !.leasing = FALSE]
    /\ UNCHANGED <<brokerVars, turn, cycles, releasing, gatewayVars, fires, batches, batchRunning, batchReports>>

\* Mutant: a queue paused meanwhile releases the batch and dispatches it too.
finishGroupLeaseFallingThrough(c) ==
    /\ idle /\ c.called
    /\ groupLeases' = groupLeases \ {c}
    /\ releasing' = IF grain.paused THEN releasing \cup {<<t, c.leaseID>> : t \in c.members} ELSE releasing
    /\ \E g \in batchEligible :
           /\ mailbox' = [mailbox EXCEPT ![g] = Append(@,
                     [kind |-> "ExecuteBatch", leaseID |-> c.leaseID, members |-> c.members])]
           /\ grain' = [grain EXCEPT !.credits[g] = @ - 1]
    /\ UNCHANGED <<brokerVars, turn, cycles, status, inflight, running, reports,
                   fires, batches, batchRunning, batchReports>>

\* finishGroupLease: sends the batch to a gateway picked anew, for one credit;
\* releases it when the queue was paused meanwhile, no gateway has a credit
\* left, or the gateway's actor is gone.
finishGroupLease(c) ==
    /\ idle /\ c.called
    /\ groupLeases' = groupLeases \ {c}
    /\ LET release == releasing' = releasing \cup {<<t, c.leaseID>> : t \in c.members} IN
       \/ /\ c.members = {}
          /\ UNCHANGED <<grain, releasing, mailbox>>
       \/ /\ c.members # {} /\ (grain.paused \/ batchEligible = {})
          /\ release /\ UNCHANGED <<grain, mailbox>>
       \/ /\ c.members # {} /\ ~grain.paused
          /\ \E g \in batchEligible :
                 IF status[g] = "stopped"
                 THEN grain' = removeGateway(grain, g) /\ release /\ UNCHANGED mailbox
                 ELSE /\ mailbox' = [mailbox EXCEPT ![g] = Append(@,
                            [kind |-> "ExecuteBatch", leaseID |-> c.leaseID, members |-> c.members])]
                      /\ grain' = [grain EXCEPT !.credits[g] = @ - 1]
                      /\ UNCHANGED releasing
    /\ UNCHANGED <<brokerVars, turn, cycles, status, inflight, running, reports,
                   fires, batches, batchRunning, batchReports>>

\* A finished batch returns its one credit, whatever its size.
recordBatchCompletion(g) ==
    /\ idle /\ batchReports[g] > 0
    /\ batchReports' = [batchReports EXCEPT ![g] = @ - 1]
    /\ maybeLease(refill(grain, g), cycles)
    /\ UNCHANGED <<brokerVars, turn, releasing, gatewayVars, fires, groupLeases, batches, batchRunning>>

\* TellGrain fails: the report is logged and gone.
loseBatchReport(g) ==
    /\ batchReports[g] > 0
    /\ batchReports' = [batchReports EXCEPT ![g] = @ - 1]
    /\ UNCHANGED <<vars, fires, groupLeases, batches, batchRunning>>

(***************************************************************************)
(* The gateway and its worker                                              *)
(***************************************************************************)
track(g, S, lease) ==
    [inflight EXCEPT ![g] = [t \in Task |-> IF t \in S THEN [leaseID |-> lease, cancelRequested |-> FALSE] ELSE @[t]]]

untrack(g, S) ==
    [inflight EXCEPT ![g] = [t \in Task |-> IF t \in S THEN NoEntry ELSE @[t]]]

\* dispatchBatch: tracks every member, in place of an earlier delivery of the
\* same task, and sends the batch; releaseBatch when the stream is broken.
dispatchBatch(g) ==
    /\ next(g, "ExecuteBatch")
    /\ LET m == Head(mailbox[g])
           b == [leaseID |-> m.leaseID, members |-> m.members] IN
       IF status[g] = "up"
       THEN /\ inflight' = track(g, m.members, m.leaseID)
            /\ batches' = [batches EXCEPT ![g] = @ \cup {b}]
            /\ batchRunning' = [batchRunning EXCEPT ![g] = @ \cup {b}]
            /\ UNCHANGED tasks
       ELSE /\ inflight' = untrack(g, m.members)
            /\ tasks' = ReleaseAll({<<t, m.leaseID>> : t \in m.members})
            /\ UNCHANGED <<batches, batchRunning>>
    /\ mailbox' = [mailbox EXCEPT ![g] = Tail(@)]
    /\ UNCHANGED <<queuePaused, grainVars, status, running, reports, fires, groupLeases, batchReports>>

\* The members a result for the batch under lease settles.
settled(g, lease) ==
    {t \in UNION {b.members : b \in {c \in batches[g] : c.leaseID = lease}} : inflight[g][t] # NoEntry}

\* The row of t after its outcome; a member the worker omitted is released.
memberRow(g, t, outcomes) ==
    applyOutcome(t, inflight[g][t], IF t \in DOMAIN outcomes THEN outcomes[t] ELSE "RELEASED")[t]

\* batchResult: the batch is found through the first listed member the gateway
\* knows (workers list them in any order), every member it still tracks is
\* settled under the lease tracked for it, and one completion is reported.  A
\* result that lists no known member is dropped.
batchResult(g, b, outcomes) ==
    /\ status[g] = "up"
    /\ b \in batchRunning[g]
    /\ batchRunning' = [batchRunning EXCEPT ![g] = @ \ {b}]
    /\ LET known == {t \in DOMAIN outcomes : inflight[g][t] # NoEntry} IN
       \/ /\ known = {}
          /\ UNCHANGED <<tasks, inflight, batches, batchReports>>
       \/ \E t \in known :
              LET lease == inflight[g][t].leaseID
                  S == settled(g, lease) IN
              /\ tasks' = [u \in Task |-> IF u \in S THEN memberRow(g, u, outcomes) ELSE tasks[u]]
              /\ inflight' = untrack(g, S)
              /\ batches' = [batches EXCEPT ![g] = {c \in @ : c.leaseID # lease}]
              /\ batchReports' = [batchReports EXCEPT ![g] = @ + 1]
    /\ UNCHANGED <<queuePaused, grainVars, status, mailbox, running, reports, fires, groupLeases>>

\* The worker of g executes t, on its own or in a batch.
executing(g, t) == running[g][t] > 0 \/ \E b \in batchRunning[g] : t \in b.members

\* Mutant: a batch that loses its last member goes without its refund.
refundSinglesOnly(g, t) ==
    LET batch == {b \in batches[g] : b.leaseID = inflight[g][t].leaseID} IN
    IF batch # {} THEN UNCHANGED <<batches, reports>>
    ELSE UNCHANGED batches /\ tellQueueGrain(GatewayCredit(g))

\* Mutant: the first lost member takes the batch's bookkeeping with it.
refundForgetting(g, t) ==
    LET batch == {b \in batches[g] : b.leaseID = inflight[g][t].leaseID} IN
    /\ batches' = [batches EXCEPT ![g] = @ \ batch]
    /\ IF \E b \in batch : \E u \in b.members \ {t} : inflight[g][u] # NoEntry
       THEN UNCHANGED reports
       ELSE tellQueueGrain(GatewayCredit(g))

\* refundLostLease: the credit of a batch returns with its last tracked member.
refundLostLease(g, t) ==
    LET batch == {b \in batches[g] : b.leaseID = inflight[g][t].leaseID} IN
    IF \E b \in batch : \E u \in b.members \ {t} : inflight[g][u] # NoEntry
    THEN UNCHANGED <<batches, reports>>
    ELSE /\ batches' = [batches EXCEPT ![g] = @ \ batch]
         /\ tellQueueGrain(GatewayCredit(g))

\* heartbeat for a task whose lease is lost.
batchHeartbeat(g, t) ==
    /\ status[g] = "up"
    /\ executing(g, t)
    /\ inflight[g][t] # NoEntry
    /\ ~activeRow(t, inflight[g][t].leaseID)
    /\ inflight' = untrack(g, {t})
    /\ refundLostLease(g, t)
    /\ UNCHANGED <<brokerVars, grainVars, status, mailbox, running, fires, groupLeases, batchRunning, batchReports>>

\* The ends of a session (CloseStream, drain, Stop, the death of a node) and
\* of a grain's activation, for the state this module adds.
batchStreamCloses(g) ==
    /\ CloseStream(g)
    /\ batchRunning' = [batchRunning EXCEPT ![g] = {}]
    /\ UNCHANGED <<fires, groupLeases, batches, batchReports>>

batchDrain(g) ==
    /\ drain(g)
    /\ batches' = [batches EXCEPT ![g] = {}]
    /\ UNCHANGED <<fires, groupLeases, batchRunning, batchReports>>

batchShutdown(g) ==
    /\ Stop(g) \/ NodeDeath(g)
    /\ batches' = [batches EXCEPT ![g] = {}]
    /\ batchRunning' = [batchRunning EXCEPT ![g] = {}]
    /\ UNCHANGED <<fires, groupLeases, batchReports>>

batchActivate ==
    /\ OnActivate
    /\ \E lost \in SUBSET {c \in groupLeases : c.called} : groupLeases' = groupLeases \ lost
    /\ UNCHANGED <<fires, batches, batchRunning, batchReports>>

(***************************************************************************)
(* The specification                                                       *)
(***************************************************************************)
GroupInit ==
    /\ tasks = [t \in Task |-> [state |-> CASE t \in Late -> "absent"
                                            [] t \in Member \ Late -> "aggregating"
                                            [] OTHER -> "waiting",
                                leaseID |-> NoLease, retried |-> 0]]
    /\ queuePaused = FALSE
    /\ grain = activated(FALSE)
    /\ turn = Idle
    /\ cycles = {}
    /\ releasing = {}
    /\ status = [g \in Gateway |-> "new"]
    /\ mailbox = [g \in Gateway |-> <<>>]
    /\ inflight = [g \in Gateway |-> [t \in Task |-> NoEntry]]
    /\ running = [g \in Gateway |-> [t \in Task |-> 0]]
    /\ reports = [m \in Report |-> 0]
    /\ fires = 0
    /\ groupLeases = {}
    /\ batches = [g \in Gateway |-> {}]
    /\ batchRunning = [g \in Gateway |-> {}]
    /\ batchReports = [g \in Gateway |-> 0]

\* The members are enqueued with a group: the rows are aggregating.
EnqueueMember(t) ==
    /\ t \in Member /\ tasks[t].state = "absent"
    /\ tasks' = [tasks EXCEPT ![t].state = "aggregating"]
    /\ UNCHANGED <<queuePaused, grainVars, gatewayVars, batchVars>>

\* The steps that deliver tasks, alone and in batches.
SingleStep(g) ==
    /\ UNCHANGED batchVars
    /\ \/ PostStart(g) \/ dispatch(g)
       \/ \E t \in Task : \E o \in Outcome : result(g, t, o)

BatchStep(g) ==
    \/ dispatchBatch(g) \/ recordBatchCompletion(g)
    \/ \E t \in Task : batchHeartbeat(g, t)
    \/ \E b \in batchRunning[g] : \E S \in SUBSET b.members :
           \E outcomes \in [S -> Outcome] : batchResult(g, b, outcomes)

GroupStep ==
    \/ sweep \/ fireGroup
    \/ \E c \in groupLeases : LeaseGroup(c) \/ finishGroupLease(c)
    \/ \E t \in Task : EnqueueMember(t)

GroupFailure ==
    \/ loseFire \/ batchActivate
    \/ \E c \in groupLeases : LeaseGroupFails(c) \/ groupPipeFails(c)
    \/ \E g \in Gateway : loseBatchReport(g)

GroupSessionEnd(g) ==
    \/ batchStreamCloses(g) \/ batchDrain(g) \/ batchShutdown(g)
    \/ unregisterGateway(g) /\ UNCHANGED batchVars

GroupNext ==
    \/ GroupStep \/ GroupFailure
    \/ (TasksAvailable \/ GrainStep \/ PipedStep \/ PauseStep) /\ UNCHANGED batchVars
    \/ \E g \in Gateway : SingleStep(g) \/ BatchStep(g) \/ GroupSessionEnd(g)
    \/ \E t \in Task : Reap(t) /\ UNCHANGED batchVars

GroupSpec == GroupInit /\ [][GroupNext]_groupVars

(***************************************************************************)
(* Properties                                                              *)
(***************************************************************************)
\* Every variable holds a value of its kind.
GroupTypeOK ==
    /\ tasks \in [Task -> [state : RowState, leaseID : LeaseID \cup GroupLease \cup {NoLease}, retried : 0..MaxRetry]]
    /\ fires \in 0..1
    /\ groupLeases \subseteq [leaseID : GroupLease, members : SUBSET Member, called : BOOLEAN]
    /\ batches \in [Gateway -> SUBSET Batch]
    /\ batchRunning \in [Gateway -> SUBSET Batch]
    /\ batchReports \in [Gateway -> Nat]

\* Where the delivery of t under lease is, batches included.
batchPlaces(t, lease) ==
    places(t, lease)
        \cup {<<"groupLease", c>> : c \in {d \in groupLeases : d.leaseID = lease /\ t \in d.members}}
        \cup {<<"batch", g>> : g \in {h \in Gateway :
                  \E m \in batchMessages(h) : m.leaseID = lease /\ t \in m.members}}

\* The lease of a member is held in one place: firing a group twice, pausing
\* or losing the gateway during its lease, and redelivering its members one by
\* one never hand the same lease to two owners.
MemberDeliveredOnce ==
    \A t \in Task : tasks[t].state = "active" =>
        Cardinality(batchPlaces(t, tasks[t].leaseID)) <= 1

\* Deliveries of g that hold a credit: tasks on their own and batches.
singles(g) == {t \in tracked(g) : inflight[g][t].leaseID \in LeaseID}
heldBatches(g) == {inflight[g][t].leaseID : t \in tracked(g)} \cap GroupLease

owed(g) ==
    Cardinality(queued(g)) + Cardinality(batchMessages(g)) + Cardinality(singles(g))
        + Cardinality(heldBatches(g)) + refunds(g) + batchReports[g]

\* A batch is one slot whatever its size: as long as leases lapse only when no
\* one holds them, what a session holds, has left and is owed stays within its
\* capacity, whichever members its worker reports, omits or loses.
BatchCreditsBounded ==
    \A g \in Gateway : status[g] = "up" => grain.credits[g] + owed(g) <= capacity[g]

\* The credit of a batch returns once its last tracked member is gone
\* (gateway.go, refundLostLease): a session that holds nothing, runs nothing
\* and is owed nothing has all its credits.
BatchCreditReturns ==
    \A g \in grain.gateways :
        /\ status[g] = "up" /\ owed(g) = 0
        /\ batchRunning[g] = {} /\ \A t \in Task : running[g][t] = 0
        => grain.credits[g] = capacity[g]

\* The one credit of a batch is neither spent twice nor lost.
BatchCreditsConserved == GroupTypeOK /\ BatchCreditsBounded /\ BatchCreditReturns

\* Members of one batch settle together: a gateway that has applied a batch's
\* result, or refunded the batch, tracks no member of it any more, so none is
\* left behind for whom no result will come.
BatchSettlesWhole ==
    \A g \in Gateway : \A t \in tracked(g) :
        inflight[g][t].leaseID \in GroupLease =>
            \E b \in batches[g] : b.leaseID = inflight[g][t].leaseID /\ t \in b.members

=============================================================================
