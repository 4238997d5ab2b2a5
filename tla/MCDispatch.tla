----------------------------- MODULE MCDispatch -----------------------------
(***************************************************************************)
(* Instances of Dispatch: which of its steps a run takes, and the values   *)
(* of its constants.                                                       *)
(***************************************************************************)
EXTENDS Dispatch

CONSTANTS t1, t2, g1, g2, k1

Equal == [t \in Task |-> 0]
OneKey == [t \in Task |-> k1]
One == [g \in Gateway |-> 1]
TwoOne == [g \in Gateway |-> IF g = g1 THEN 2 ELSE 1]

(***************************************************************************)
(* A lease id matters only through whether it is the one the row has: a    *)
(* lapsed id never becomes current again.  LeaseView, the VIEW of the      *)
(* safety runs, keeps that bit of every reference and forgets the ids.     *)
(***************************************************************************)
mark(S, lease) == {<<t, activeRow(t, lease)>> : t \in S}

cycleView(c) == [c EXCEPT !.leaseID = 0, !.tasks = mark(c.tasks, c.leaseID)]

messageView(m) ==
    IF m.kind = "ExecuteTask"
    THEN <<m.task, activeRow(m.task, m.leaseID)>>
    ELSE <<m>>

entryView(t, entry) ==
    IF entry = NoEntry THEN <<>> ELSE <<entry.cancelRequested, activeRow(t, entry.leaseID)>>

LeaseView ==
    <<[t \in Task |-> <<tasks[t].state, tasks[t].retried>>], queuePaused, grain,
      mark(turn.todo, turn.leaseID), mark(turn.undeliverable, turn.leaseID), turn.dispatched, idle,
      [v \in {cycleView(c) : c \in cycles} |-> Cardinality({c \in cycles : cycleView(c) = v})],
      {<<r[1], activeRow(r[1], r[2])>> : r \in releasing},
      status, [g \in Gateway |-> [i \in DOMAIN mailbox[g] |-> messageView(mailbox[g][i])]],
      [g \in Gateway |-> [t \in Task |-> entryView(t, inflight[g][t])]], running, reports>>

(***************************************************************************)
(* A behaviour follows one scenario from its first step to its last.       *)
(***************************************************************************)
VARIABLE scenario

mcVars == <<vars, scenario>>

ScenarioView == <<LeaseView, scenario>>

\* The sessions a scenario opens and the outcomes its workers report.
SessionsOf == [leases |-> Gateway, cancel |-> {g1}, sessions |-> Gateway, failures |-> {g1}, live |-> Gateway]
OutcomesOf ==
    [leases |-> {"SUCCESS", "RELEASED"}, cancel |-> Outcome, sessions |-> {"SUCCESS", "RETRY"},
     failures |-> {"SUCCESS", "RETRY"}, live |-> {"SUCCESS"}]

\* The steps that deliver tasks.
Flow ==
    \/ TasksAvailable \/ GrainStep \/ PipedStep \/ \E t \in Task : Enqueue(t)
    \/ \E g \in SessionsOf[scenario] :
           \/ PostStart(g) \/ dispatch(g)
           \/ \E t \in Task : heartbeat(g, t) \/ \E o \in OutcomesOf[scenario] : result(g, t, o)

\* Leases lapse at any time, whatever the gateways do; operators cancel tasks,
\* one cancel on its way at a time.
LeaseNext ==
    /\ UNCHANGED scenario
    /\ \/ Flow \/ \E t \in Task : Reap(t)
       \/ /\ scenario = "cancel"
          /\ \/ \E t \in Task : /\ \A i \in DOMAIN mailbox[g1] : mailbox[g1][i].kind # "CancelActive"
                                /\ CancelActive(t)
             \/ cancelActive(g1)

LeaseInit == Init /\ scenario \in {"leases", "cancel"}
LeaseSpec == LeaseInit /\ [][LeaseNext]_mcVars

\* Heartbeats arrive in time: a lease lapses only when no one holds it.
ReapAbandoned == \E t \in Task : places(t, tasks[t].leaseID) = {} /\ Reap(t)

\* The session of g2 ends or its node dies; or the grain moves, its broker
\* calls and its pipes fail, reports are lost, the worker opens slots, and its
\* queue is paused and resumed, with at most two lease cycles at a time.
FailureNext ==
    /\ UNCHANGED scenario
    /\ \/ Flow \/ ReapAbandoned
       \/ /\ scenario = "sessions"
          /\ \/ CloseStream(g2) \/ drain(g2) \/ unregisterGateway(g2) \/ Stop(g2)
             \/ NodeDeath(g2) \/ register(g2)
       \/ /\ scenario = "failures"
          /\ \/ register(g1) \/ PauseStep
             \/ reports[GatewayCredit(g1)] = 0 /\ credit(g1)
             \/ \E c \in cycles : LeaseFails(c)
             \/ \E r \in releasing : releaseFails(r)
             \/ \E m \in Report : LoseReport(m)
             \/ Cardinality(cycles) <= 1 /\ (OnActivate \/ \E lost \in SUBSET cycles : StatusFailure(lost))

FailureInit == Init /\ scenario \in {"sessions", "failures"}
FailureSpec == FailureInit /\ [][FailureNext]_mcVars

\* No credit is lost for good though sessions end, registrations arrive late
\* and nodes die: gateway.go refills one credit for each delivery it drops.
SessionCreditsReturn == scenario = "sessions" => CreditsReturn

LiveNext ==
    /\ UNCHANGED scenario
    /\ \/ Flow \/ ReapAbandoned
       \/ CloseStream(g2) \/ drain(g2) \/ unregisterGateway(g2) \/ Stop(g2) \/ NodeDeath(g2)

\* A lease that claims t when no Release is under way.
claim(t) ==
    /\ releasing = {} /\ tasks[t].state = "waiting"
    /\ \E c \in cycles : Lease(c)
    /\ tasks'[t].state = "active"

\* The reaper wakes the queue on every tick and reclaims what lapsed; actors
\* and goroutines run; a report waits in the grain's mailbox for the turn
\* under way to end, hence strong fairness; handlers return.  Rows of equal
\* priority are leased in the order of their due times, and a released row goes
\* behind those that waited, so a row that leases keep finding among the highest
\* priorities is claimed in the end.
LiveInit == Init /\ scenario = "live"
LiveSpec ==
    /\ LiveInit /\ [][LiveNext]_mcVars
    /\ SF_vars(TasksAvailable)
    /\ \A t \in Task : WF_vars(Enqueue(t))
    /\ WF_vars(\E c \in cycles : Lease(c))
    /\ \A t \in Task : /\ SF_vars(claim(t))
                       /\ WF_vars(\E r \in releasing : r[1] = t /\ releaseLeased(r))
    /\ SF_vars(\E c \in cycles : finishLeaseCycle(c))
    /\ WF_vars(endLeaseCycle \/ \E t \in Task : holdBack(t) \/ \E g \in Gateway : tellGateway(t, g))
    /\ \A g \in Gateway :
           /\ WF_vars(PostStart(g)) /\ WF_vars(dispatch(g)) /\ SF_vars(registerGateway(g))
           /\ \A t \in Task : WF_vars(result(g, t, "SUCCESS")) /\ SF_vars(recordCompletion(g, t))
    /\ WF_vars(ReapAbandoned)
    /\ WF_vars(drain(g2)) /\ SF_vars(unregisterGateway(g2)) /\ WF_vars(Stop(g2))

=============================================================================
