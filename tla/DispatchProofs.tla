--------------------------- MODULE DispatchProofs ---------------------------
(* TLAPS proofs about Dispatch, for every value of its constants. *)
EXTENDS Dispatch, TLAPS

Message == Execute \cup Control

-----------------------------------------------------------------------------
(* The actions by kind *)

GrainAction ==
    \/ TasksAvailable \/ DrainQueue \/ ResumeQueue \/ endLeaseCycle \/ OnActivate
    \/ \E c \in cycles : finishLeaseCycle(c)
    \/ \E t \in Task : holdBack(t)
    \/ \E lost \in SUBSET cycles : StatusFailure(lost)

ReceiveAction(g) ==
    registerGateway(g) \/ addCredits(g) \/ \E t \in Task : recordCompletion(g, t)

PipedAction ==
    \/ \E c \in cycles : Lease(c) \/ LeaseFails(c)
    \/ \E r \in releasing : releaseLeased(r) \/ releaseFails(r)

GatewayAction(g) ==
    \/ PostStart(g) \/ register(g) \/ dispatch(g) \/ cancelActive(g) \/ credit(g)
    \/ \E t \in Task : heartbeat(g, t) \/ \E o \in Outcome : result(g, t, o)
    \/ CloseStream(g) \/ drain(g) \/ unregisterGateway(g) \/ Stop(g) \/ NodeDeath(g)

OtherAction ==
    \/ \E m \in Report : LoseReport(m)
    \/ \E t \in Task : CancelActive(t) \/ Enqueue(t) \/ Reap(t)

LEMMA NextCases ==
  ASSUME Next
  PROVE  \/ GrainAction \/ PipedAction \/ OtherAction
         \/ \E g \in Gateway : \/ ReceiveAction(g) \/ GatewayAction(g)
                              \/ \E t \in Task : tellGateway(t, g)
  BY ZenonT(40) DEF Next, GrainStep, PipedStep, GatewayStep, SessionEnd, PauseStep, CancelStep, Failure,
                    GrainAction, PipedAction, OtherAction, ReceiveAction, GatewayAction

-----------------------------------------------------------------------------
(* Sequences and minima *)

LEMMA AppendFacts ==
  ASSUME NEW s \in Seq(Message), NEW m \in Message
  PROVE  /\ Append(s, m) \in Seq(Message)
         /\ DOMAIN Append(s, m) = DOMAIN s \cup {Len(s) + 1}
         /\ Len(s) + 1 \notin DOMAIN s
         /\ Append(s, m)[Len(s) + 1] = m
         /\ \A i \in DOMAIN s : Append(s, m)[i] = s[i]
  OBVIOUS

LEMMA TailFacts ==
  ASSUME NEW s \in Seq(Message), s # <<>>
  PROVE  /\ Tail(s) \in Seq(Message)
         /\ 1 \in DOMAIN s /\ Head(s) = s[1] /\ Head(s) \in Message
         /\ \A i \in DOMAIN Tail(s) : i + 1 \in DOMAIN s /\ Tail(s)[i] = s[i + 1] /\ i + 1 # 1
         /\ \A i, j \in DOMAIN Tail(s) : i + 1 = j + 1 => i = j
  OBVIOUS

LEMMA MinFacts ==
  ASSUME NEW a \in Nat, NEW b \in Nat
  PROVE  Min({a, b}) \in Nat
  BY DEF Min

-----------------------------------------------------------------------------
(* The shape of the variables *)

\* The last thing a handler does keeps what it was given.
LEMMA MaybeLeaseFacts ==
  ASSUME NEW gr, NEW others, maybeLease(gr, others)
  PROVE  /\ grain' = gr \/ grain' = [gr EXCEPT !.leasing = TRUE]
         /\ \/ cycles' = others
            \/ \E limit : /\ NewID \in LeaseID /\ NewID \notin inUse
                          /\ cycles' = others \cup
                                 {[leaseID |-> NewID, limit |-> limit, tasks |-> {},
                                   called |-> FALSE, lost |-> FALSE]}
<1>1. CASE gr.paused \/ gr.leasing \/ totalCredits(gr.credits) = 0
  BY <1>1 DEF maybeLease
<1>2. CASE ~(gr.paused \/ gr.leasing \/ totalCredits(gr.credits) = 0)
  <2>1. LeaseID \ inUse # {} /\ grain' = [gr EXCEPT !.leasing = TRUE]
    BY <1>2 DEF maybeLease
  <2>2. NewID \in LeaseID /\ NewID \notin inUse
    BY <2>1 DEF NewID
  <2>3. \E limit : cycles' = others \cup
                 {[leaseID |-> NewID, limit |-> limit, tasks |-> {},
                   called |-> FALSE, lost |-> FALSE]}
    BY <1>2 DEF maybeLease
  <2> QED
    BY Zenon, <2>1, <2>2, <2>3
<1> QED
  BY Zenon, <1>1, <1>2

LEMMA IdleType ==
  Idle \in TurnType /\ Idle.leaseID = NoLease /\ Idle.todo \cup Idle.undeliverable = {}
  BY DEF Idle, TurnType

\* Handlers of the grain and the piped lease call keep the cycles' shape.
LEMMA MaybeLeaseShape ==
  ASSUME NEW gr \in GrainType, \A c \in cycles : c \in Cycle({c.limit}),
         maybeLease(gr, cycles)
  PROVE  grain' \in GrainType /\ \A c \in cycles' : c \in Cycle({c.limit})
<1>1. [gr EXCEPT !.leasing = TRUE] \in GrainType
  BY Zenon DEF GrainType
<1>2. grain' \in GrainType
  BY Zenon, <1>1, MaybeLeaseFacts
<1>3. ASSUME NEW limit, NEW id \in LeaseID
      PROVE  LET c == [leaseID |-> id, limit |-> limit, tasks |-> {},
                       called |-> FALSE, lost |-> FALSE]
             IN  c \in Cycle({c.limit})
  BY DEF Cycle
<1>4. CASE cycles' = cycles
  BY <1>2, <1>4
<1>5. CASE cycles' # cycles
  <2>1. PICK limit : /\ NewID \in LeaseID
                     /\ cycles' = cycles \cup
                           {[leaseID |-> NewID, limit |-> limit, tasks |-> {},
                             called |-> FALSE, lost |-> FALSE]}
    BY Zenon, <1>5, MaybeLeaseFacts
  <2> QED
    BY <1>2, <1>3, <2>1
<1> QED
  BY <1>4, <1>5

LEMMA LostShape ==
  ASSUME NEW c, c \in Cycle({c.limit})
  PROVE  LET d == [c EXCEPT !.lost = TRUE] IN d \in Cycle({d.limit})
  BY Zenon DEF Cycle

\* A lease-scoped call leaves well-formed rows.
LEMMA SettleType ==
  ASSUME Shaped, NEW t \in Task, NEW lease, NEW state \in RowState, NEW retried \in 0..MaxRetry
  PROVE  settle(t, lease, state, retried) \in [Task -> Row]
<1>1. [state |-> state, leaseID |-> NoLease, retried |-> retried] \in Row
  BY DEF Row
<1> QED
  BY <1>1 DEF settle, Shaped

LEMMA ReleaseType ==
  ASSUME Shaped, NEW t \in Task, NEW lease
  PROVE  Release(t, lease) \in [Task -> Row]
<1>1. tasks[t].retried \in 0..MaxRetry /\ "waiting" \in RowState
  BY DEF Shaped, Row, RowState
<1> QED
  BY <1>1, SettleType DEF Release

LEMMA ReleaseAllType ==
  ASSUME Shaped, NEW D
  PROVE  ReleaseAll(D) \in [Task -> Row]
<1>1. \A t \in Task : tasks[t] \in Row
  BY DEF Shaped
<1>2. \A t \in Task : [tasks[t] EXCEPT !.state = "waiting", !.leaseID = NoLease] \in Row
  BY Zenon, <1>1 DEF Row, RowState
<1> QED
  BY Zenon, <1>1, <1>2 DEF ReleaseAll

LEMMA OutcomeType ==
  ASSUME Shaped, NEW t \in Task, NEW entry, NEW outcome
  PROVE  applyOutcome(t, entry, outcome) \in [Task -> Row]
<1>1. /\ tasks[t].retried \in 0..MaxRetry
      /\ tasks[t].retried < MaxRetry => tasks[t].retried + 1 \in 0..MaxRetry
      /\ {"completed", "waiting", "archived"} \subseteq RowState
  BY DispatchAssumption DEF Shaped, Row, RowState
<1> QED
  BY <1>1, SettleType, ReleaseType DEF applyOutcome

LEMMA CountsType ==
  ASSUME NEW f \in [Key -> Int], NEW k
  PROVE  [f EXCEPT ![k] = @ - 1] \in [Key -> Int] /\ [f EXCEPT ![k] = @ + 1] \in [Key -> Int]
<1>1. ASSUME NEW j \in Key
      PROVE  [f EXCEPT ![k] = @ - 1][j] \in Int /\ [f EXCEPT ![k] = @ + 1][j] \in Int
  OBVIOUS
<1> QED
  BY Zenon, <1>1

LEMMA RefillType ==
  ASSUME NEW gr \in GrainType, NEW g \in Gateway
  PROVE  refill(gr, g) \in GrainType
<1>1. gr.credits[g] + 1 \in Nat /\ capacity[g] \in Nat
  BY DispatchAssumption DEF GrainType
<1>2. Min({gr.credits[g] + 1, capacity[g]}) \in Nat
  BY <1>1, MinFacts
<1>3. [gr EXCEPT !.credits[g] = Min({@ + 1, capacity[g]})] \in GrainType
  BY <1>2 DEF GrainType
<1> QED
  BY <1>3 DEF refill

LEMMA ReleaseKeyType ==
  ASSUME NEW gr \in GrainType, NEW t \in Task
  PROVE  releaseConcurrencyKey(gr, t) \in GrainType
<1> DEFINE counts == [gr.activeByKey EXCEPT ![concurrencyKey[t]] = @ - 1]
           slots == gr.inFlightKey \ {t}
<1>1. counts \in [Key -> Int] /\ slots \subseteq Task
  BY CountsType DEF GrainType
<1>2. [gr EXCEPT !.inFlightKey = slots, !.activeByKey = counts] \in GrainType
  <2> HIDE DEF counts, slots
  <2> QED
    BY Zenon, <1>1 DEF GrainType
<1>3. [gr EXCEPT !.inFlightKey = @ \ {t}, !.activeByKey[concurrencyKey[t]] = @ - 1] =
        [gr EXCEPT !.inFlightKey = slots, !.activeByKey = counts]
  BY DEF GrainType
<1> QED
  BY <1>2, <1>3 DEF releaseConcurrencyKey

LEMMA RemoveGatewayType ==
  ASSUME NEW gr \in GrainType, NEW g \in Gateway
  PROVE  removeGateway(gr, g) \in GrainType
  BY Zenon DEF removeGateway, GrainType

LEMMA DispatchedType ==
  ASSUME Shaped, NEW t \in Task, NEW g \in eligible
  PROVE  dispatched(t, g) \in GrainType
<1>1. grain \in GrainType /\ g \in Gateway /\ grain.credits[g] - 1 \in Nat
  BY DEF Shaped, eligible, GrainType
<1> DEFINE credits == [grain.credits EXCEPT ![g] = @ - 1]
           counts == IF concurrencyKey[t] = NoKey \/ holdsSlot(t) THEN grain.activeByKey
                     ELSE [grain.activeByKey EXCEPT ![concurrencyKey[t]] = @ + 1]
           slots == IF concurrencyKey[t] = NoKey THEN grain.inFlightKey
                    ELSE grain.inFlightKey \cup {t}
<1>2. credits \in [Gateway -> Nat] /\ slots \subseteq Task
  BY <1>1 DEF GrainType
<1>3. counts \in [Key -> Int]
  BY <1>1, CountsType DEF GrainType
<1>4. dispatched(t, g) = [grain EXCEPT !.credits = credits, !.activeByKey = counts,
                                       !.inFlightKey = slots]
  <2>1. CASE concurrencyKey[t] = NoKey
    BY <1>1, <2>1 DEF dispatched, GrainType
  <2>2. CASE concurrencyKey[t] # NoKey /\ holdsSlot(t)
    BY <1>1, <2>2 DEF dispatched, GrainType
  <2>3. CASE concurrencyKey[t] # NoKey /\ ~holdsSlot(t)
    BY <1>1, <2>3 DEF dispatched, GrainType
  <2> QED
    BY <2>1, <2>2, <2>3
<1> HIDE DEF credits, counts, slots
<1>5. [grain EXCEPT !.credits = credits, !.activeByKey = counts, !.inFlightKey = slots] \in GrainType
  BY Zenon, <1>1, <1>2, <1>3 DEF GrainType
<1> QED
  BY <1>4, <1>5

\* What the grain's handlers leave alone keeps its shape.
LEMMA GrainFrame ==
  ASSUME Shaped, UNCHANGED <<brokerVars, gatewayVars>>,
         grain' \in GrainType, turn' \in TurnType,
         turn'.leaseID = NoLease => turn'.todo \cup turn'.undeliverable = {},
         \A c \in cycles' : c \in Cycle({c.limit}), releasing' \subseteq Task \X LeaseID
  PROVE  Shaped'
  BY DEF Shaped, brokerVars, gatewayVars

LEMMA ReceivedFacts ==
  ASSUME Shaped, NEW m \in Report, received(m)
  PROVE  /\ reports' \in [Report -> Nat]
         /\ UNCHANGED <<brokerVars, turn, releasing, status, mailbox, inflight, running>>
  BY DEF received, Shaped

LEMMA ReceivedShape ==
  ASSUME Shaped, NEW m \in Report, received(m), NEW gr \in GrainType, maybeLease(gr, cycles)
  PROVE  Shaped'
<1>1. grain' \in GrainType /\ \A c \in cycles' : c \in Cycle({c.limit})
  BY MaybeLeaseShape DEF Shaped
<1> QED
  BY <1>1, ReceivedFacts DEF Shaped, brokerVars

LEMMA ReportType ==
  ASSUME NEW g \in Gateway, NEW t \in Task
  PROVE  /\ RegisterGateway(g) \in Report /\ GatewayCredit(g) \in Report
         /\ TaskCompleted(g, t) \in Report
  BY DEF Report, RegisterGateway, GatewayCredit, TaskCompleted

LEMMA ReceivingShape ==
  ASSUME Shaped, NEW g \in Gateway,
         ReceiveAction(g)
  PROVE  Shaped'
<1>1. grain \in GrainType
  BY DEF Shaped
<1>2. CASE registerGateway(g)
  <2> DEFINE gr == IF g \in grain.gateways THEN grain
                   ELSE [grain EXCEPT !.gateways = @ \cup {g}, !.credits[g] = capacity[g]]
  <2>1. capacity[g] \in Nat
    BY DispatchAssumption
  <2>2. gr \in GrainType
    BY Zenon, <1>1, <2>1 DEF GrainType
  <2>3. RegisterGateway(g) \in Report
    BY DEF Report, RegisterGateway
  <2>4. received(RegisterGateway(g)) /\ maybeLease(gr, cycles)
    BY <1>2 DEF registerGateway
  <2> HIDE DEF gr
  <2> QED
    BY <2>2, <2>3, <2>4, ReceivedShape
<1>3. CASE addCredits(g)
  <2>1. refill(grain, g) \in GrainType
    BY <1>1, RefillType
  <2>2. GatewayCredit(g) \in Report
    BY DEF Report, GatewayCredit
  <2> QED
    BY <1>3, <2>1, <2>2, ReceivedShape DEF addCredits
<1>4. CASE \E t \in Task : recordCompletion(g, t)
  <2> PICK t \in Task : recordCompletion(g, t)
    BY <1>4
  <2>1. releaseConcurrencyKey(refill(grain, g), t) \in GrainType
    BY <1>1, RefillType, ReleaseKeyType
  <2> QED
    BY <2>1, ReportType, ReceivedShape DEF recordCompletion
<1> QED
  BY <1>2, <1>3, <1>4 DEF ReceiveAction

\* Marking the uncalled of the lost cycles keeps the cycles' shape.
LEMMA LoseCyclesShape ==
  ASSUME Shaped, NEW lost, lost \subseteq cycles,
         cycles' = (cycles \ lost) \cup {[c EXCEPT !.lost = TRUE] : c \in {d \in lost : ~d.called}}
  PROVE  \A c \in cycles' : c \in Cycle({c.limit})
  BY Zenon, LostShape DEF Shaped

LEMMA GrainShape ==
  ASSUME Shaped,
         GrainAction
  PROVE  Shaped'
<1>1. /\ grain \in GrainType /\ releasing \subseteq Task \X LeaseID
      /\ turn \in TurnType /\ (turn.leaseID = NoLease => turn.todo \cup turn.undeliverable = {})
      /\ \A c \in cycles : c \in Cycle({c.limit})
      /\ queuePaused \in BOOLEAN
  BY DEF Shaped
<1>2. CASE TasksAvailable
  BY <1>1, <1>2, MaybeLeaseShape DEF TasksAvailable, Shaped, brokerVars, gatewayVars
<1>3. CASE DrainQueue
  <2>1. [grain EXCEPT !.paused = TRUE] \in GrainType
    BY Zenon, <1>1 DEF GrainType
  <2> QED
    BY <1>1, <1>3, <2>1 DEF DrainQueue, Shaped, gatewayVars
<1>4. CASE ResumeQueue
  <2>1. [grain EXCEPT !.paused = FALSE] \in GrainType
    BY Zenon, <1>1 DEF GrainType
  <2>2. grain' \in GrainType /\ \A c \in cycles' : c \in Cycle({c.limit})
    BY <1>1, <1>4, <2>1, MaybeLeaseShape DEF ResumeQueue
  <2> QED
    BY Zenon, <1>1, <1>4, <2>2 DEF ResumeQueue, Shaped, gatewayVars
<1>5. CASE endLeaseCycle
  <2>1. grain' \in GrainType /\ \A c \in cycles' : c \in Cycle({c.limit})
    BY <1>1, <1>5, MaybeLeaseShape DEF endLeaseCycle
  <2>2. turn.undeliverable # {} => turn.leaseID \in LeaseID
    BY <1>1 DEF TurnType
  <2>3. releasing' \subseteq Task \X LeaseID
    BY <1>1, <1>5, <2>2 DEF endLeaseCycle, TurnType
  <2> QED
    BY <1>5, <2>1, <2>3, IdleType, GrainFrame DEF endLeaseCycle
<1>6. CASE OnActivate
  <2>1. grain' \in GrainType
    BY <1>1, <1>6 DEF OnActivate, activated, GrainType
  <2>2. \A c \in cycles' : c \in Cycle({c.limit})
    BY Zenon, <1>6, LoseCyclesShape DEF OnActivate
  <2> QED
    BY <1>1, <1>6, <2>1, <2>2, IdleType, GrainFrame DEF OnActivate
<1>7. CASE \E c \in cycles : finishLeaseCycle(c)
  <2> PICK c \in cycles : finishLeaseCycle(c)
    BY <1>7
  <2>1. [grain EXCEPT !.leasing = FALSE] \in GrainType
    BY Zenon, <1>1 DEF GrainType
  <2>2. c.leaseID \in LeaseID /\ c.tasks \subseteq Task
    BY <1>1 DEF Cycle
  <2> DEFINE loop == [Idle EXCEPT !.leaseID = c.leaseID, !.todo = c.tasks]
  <2>3. loop \in TurnType /\ loop.leaseID # NoLease
    BY Zenon, <2>2, DispatchAssumption DEF Idle, TurnType
  <2>4. turn' \in {turn, Idle, loop}
    BY DEF finishLeaseCycle
  <2> HIDE DEF loop
  <2>5. turn' \in TurnType /\ (turn'.leaseID = NoLease => turn'.todo \cup turn'.undeliverable = {})
    BY <1>1, <2>3, <2>4, IdleType
  <2>6. releasing' \subseteq Task \X LeaseID
    <3>1. releasing' = releasing \/ releasing' = releasing \cup {<<t, c.leaseID>> : t \in c.tasks}
      BY DEF finishLeaseCycle
    <3> QED
      BY <1>1, <2>2, <3>1
  <2> QED
    BY <1>1, <2>1, <2>5, <2>6, GrainFrame DEF finishLeaseCycle
<1>8. CASE \E t \in Task : holdBack(t)
  <2> PICK t \in Task : holdBack(t)
    BY <1>8
  <2>1. turn' = [turn EXCEPT !.todo = @ \ {t}, !.undeliverable = @ \cup {t}] /\ t \in turn.todo
    BY DEF holdBack
  <2>2. turn' \in TurnType /\ (turn'.leaseID = NoLease => turn'.todo \cup turn'.undeliverable = {})
    BY Zenon, <1>1, <2>1 DEF TurnType
  <2> QED
    BY <1>1, <2>2, GrainFrame DEF holdBack
<1>9. CASE \E lost \in SUBSET cycles : StatusFailure(lost)
  <2>1. [grain EXCEPT !.leasing = FALSE] \in GrainType
    BY Zenon, <1>1 DEF GrainType
  <2>2. \A c \in cycles' : c \in Cycle({c.limit})
    BY Zenon, <1>9, LoseCyclesShape DEF StatusFailure
  <2> QED
    BY <1>1, <1>9, <2>1, <2>2, GrainFrame DEF StatusFailure
<1> QED
  BY <1>2, <1>3, <1>4, <1>5, <1>6, <1>7, <1>8, <1>9 DEF GrainAction

LEMMA TellGatewayShape ==
  ASSUME Shaped, NEW t \in Task, NEW g \in Gateway, tellGateway(t, g)
  PROVE  Shaped'
<1>1. /\ grain \in GrainType /\ turn \in TurnType
      /\ turn.leaseID = NoLease => turn.todo \cup turn.undeliverable = {}
      /\ mailbox \in [Gateway -> Seq(Message)]
  BY DEF Shaped, Message
<1>2. turn.leaseID \in LeaseID /\ t \in turn.todo /\ g \in eligible
  BY <1>1 DEF tellGateway, TurnType
<1>3. CASE status[g] # "stopped"
  <2> DEFINE m == [kind |-> "ExecuteTask", task |-> t, leaseID |-> turn.leaseID]
  <2>1. m \in Message
    BY <1>2 DEF Message, Execute
  <2>2. mailbox' = [mailbox EXCEPT ![g] = Append(@, m)]
    BY <1>3 DEF tellGateway
  <2>3. mailbox' \in [Gateway -> Seq(Message)]
    <3> HIDE DEF m
    <3> QED
      BY <1>1, <2>1, <2>2, AppendFacts
  <2>4. turn' = [turn EXCEPT !.todo = @ \ {t}, !.dispatched = TRUE]
    BY <1>3 DEF tellGateway
  <2>5. turn' \in TurnType /\ (turn'.leaseID = NoLease => turn'.todo \cup turn'.undeliverable = {})
    BY Zenon, <1>1, <2>4 DEF TurnType
  <2>6. grain' \in GrainType
    BY <1>2, <1>3, DispatchedType DEF tellGateway
  <2> QED
    BY <2>3, <2>5, <2>6 DEF tellGateway, Shaped, brokerVars, Message
<1>4. CASE status[g] = "stopped"
  <2>1. turn' = [turn EXCEPT !.todo = @ \ {t}, !.undeliverable = @ \cup {t}] /\ mailbox' = mailbox
    BY <1>4 DEF tellGateway
  <2>2. turn' \in TurnType /\ turn'.leaseID = turn.leaseID
    BY ZenonT(40), <1>1, <2>1 DEF TurnType
  <2>3. grain' \in GrainType
    BY <1>1, <1>4, RemoveGatewayType DEF tellGateway
  <2> QED
    BY <1>2, <2>1, <2>2, <2>3, DispatchAssumption DEF tellGateway, Shaped, brokerVars
<1> QED
  BY <1>3, <1>4

\* What the gateways' steps leave alone keeps its shape.
LEMMA GatewayFrame ==
  ASSUME Shaped, UNCHANGED <<queuePaused, grainVars>>, tasks' \in [Task -> Row],
         status' \in [Gateway -> {"new", "up", "closed", "drained", "unregistered", "stopped"}],
         mailbox' \in [Gateway -> Seq(Message)],
         inflight' \in [Gateway -> [Task -> Entry \cup {NoEntry}]],
         running' \in [Gateway -> [Task -> Nat]], reports' \in [Report -> Nat]
  PROVE  Shaped'
  BY DEF Shaped, grainVars, Message

LEMMA TellType ==
  ASSUME Shaped, NEW m \in Report, tellQueueGrain(m)
  PROVE  reports' \in [Report -> Nat]
  BY DEF Shaped, tellQueueGrain

LEMMA PipedShape ==
  ASSUME Shaped,
         PipedAction
  PROVE  Shaped'
<1>1. /\ tasks \in [Task -> Row] /\ releasing \subseteq Task \X LeaseID
      /\ \A c \in cycles : c \in Cycle({c.limit})
  BY DEF Shaped
<1>2. CASE \E c \in cycles : Lease(c)
  <2> PICK c \in cycles : Lease(c)
    BY <1>2
  <2>1. PICK S \in SUBSET Task :
           /\ tasks' = [t \in Task |-> IF t \in S
                                       THEN [tasks[t] EXCEPT !.state = "active", !.leaseID = c.leaseID]
                                       ELSE tasks[t]]
           /\ cycles' = (cycles \ {c}) \cup
                            (IF c.lost THEN {} ELSE {[c EXCEPT !.tasks = S, !.called = TRUE]})
    BY Zenon DEF Lease, claimable, waiting
  <2>2. \A t \in Task : [tasks[t] EXCEPT !.state = "active", !.leaseID = c.leaseID] \in Row
    <3>1. c.leaseID \in LeaseID
      BY SMTT(40), <1>1 DEF Cycle
    <3> TAKE t \in Task
    <3>2. tasks[t] \in Row
      BY SMTT(40), <1>1
    <3> QED
      BY Zenon, <3>1, <3>2 DEF Row, RowState
  <2>3. tasks' \in [Task -> Row]
    BY Zenon, <1>1, <2>1, <2>2
  <2> DEFINE d == [c EXCEPT !.tasks = S, !.called = TRUE]
  <2>4. d \in Cycle({d.limit})
    BY Zenon, <1>1 DEF Cycle
  <2> HIDE DEF d
  <2>5. cycles' \subseteq cycles \cup {d}
    BY Zenon, <2>1 DEF d
  <2>6. \A x \in cycles' : x \in Cycle({x.limit})
    BY Zenon, <1>1, <2>4, <2>5
  <2> QED
    BY ZenonT(40), <2>3, <2>6 DEF Lease, Shaped, gatewayVars
<1>3. CASE \E c \in cycles : LeaseFails(c)
  <2> PICK c \in cycles : LeaseFails(c)
    BY <1>3
  <2> DEFINE d == [c EXCEPT !.called = TRUE]
  <2>1. d \in Cycle({d.limit})
    BY Zenon, <1>1 DEF Cycle
  <2>2. cycles' \subseteq cycles \cup {d}
    BY DEF LeaseFails
  <2> HIDE DEF d
  <2>3. \A x \in cycles' : x \in Cycle({x.limit})
    BY Zenon, <1>1, <2>1, <2>2
  <2> QED
    BY <2>3 DEF LeaseFails, Shaped, gatewayVars, brokerVars
<1>4. CASE \E r \in releasing : releaseLeased(r)
  <2> PICK r \in releasing : releaseLeased(r)
    BY <1>4
  <2>1. r[1] \in Task
    BY <1>1
  <2>2. tasks' \in [Task -> Row]
    BY <2>1, ReleaseType DEF releaseLeased
  <2> QED
    BY <1>1, <2>2 DEF releaseLeased, Shaped, gatewayVars
<1>5. CASE \E r \in releasing : releaseFails(r)
  BY <1>1, <1>5 DEF releaseFails, Shaped, gatewayVars, brokerVars
<1> QED
  BY <1>2, <1>3, <1>4, <1>5 DEF PipedAction

LEMMA GatewayShape ==
  ASSUME Shaped, NEW g \in Gateway,
         GatewayAction(g)
  PROVE  Shaped'
<1>1. /\ tasks \in [Task -> Row] /\ mailbox \in [Gateway -> Seq(Message)]
      /\ status \in [Gateway -> {"new", "up", "closed", "drained", "unregistered", "stopped"}]
      /\ inflight \in [Gateway -> [Task -> Entry \cup {NoEntry}]]
      /\ running \in [Gateway -> [Task -> Nat]]
      /\ reports \in [Report -> Nat]
  BY DEF Shaped, Message
<1>2. RegisterGateway(g) \in Report /\ GatewayCredit(g) \in Report
  BY DEF Report, RegisterGateway, GatewayCredit
<1>3. ASSUME NEW kind, next(g, kind)
      PROVE  /\ mailbox[g] \in Seq(Message) /\ mailbox[g] # <<>>
             /\ Tail(mailbox[g]) \in Seq(Message) /\ Head(mailbox[g]) \in Message
  BY <1>1, <1>3, TailFacts DEF next
<1>4. CASE PostStart(g)
  <2>1. reports' \in [Report -> Nat]
    BY <1>2, <1>4, TellType DEF PostStart
  <2> QED
    BY <1>1, <1>4, <2>1, GatewayFrame DEF PostStart, brokerVars
<1>5. CASE register(g) \/ credit(g)
  <2>1. reports' \in [Report -> Nat]
    BY <1>2, <1>5, TellType DEF register, credit
  <2> QED
    BY <1>1, <1>5, <2>1, GatewayFrame DEF register, credit, brokerVars
<1>6. CASE dispatch(g)
  <2> DEFINE m == Head(mailbox[g])
  <2>1. m \in Message /\ m.kind = "ExecuteTask" /\ Tail(mailbox[g]) \in Seq(Message)
    BY <1>3, <1>6 DEF dispatch, next
  <2>2. m.task \in Task /\ m.leaseID \in LeaseID
    BY <2>1 DEF Message, Execute, Control
  <2>3. CASE status[g] = "up"
    <3>1. /\ inflight' = [inflight EXCEPT ![g][m.task] = [leaseID |-> m.leaseID, cancelRequested |-> FALSE]]
          /\ running' = [running EXCEPT ![g][m.task] = @ + 1]
          /\ tasks' = tasks /\ mailbox' = [mailbox EXCEPT ![g] = Tail(@)]
          /\ UNCHANGED <<queuePaused, grainVars, status, reports>>
      BY <1>6, <2>3 DEF dispatch
    <3> HIDE DEF m
    <3>2. inflight' \in [Gateway -> [Task -> Entry \cup {NoEntry}]]
      BY <1>1, <2>2, <3>1 DEF Entry
    <3>3. running' \in [Gateway -> [Task -> Nat]]
      BY <1>1, <2>2, <3>1
    <3>4. mailbox' \in [Gateway -> Seq(Message)]
      BY <1>1, <2>1, <3>1
    <3> QED
      BY SMTT(40), <1>1, <3>1, <3>2, <3>3, <3>4, GatewayFrame
  <2>4. CASE status[g] # "up"
    <3>1. /\ inflight' = [inflight EXCEPT ![g][m.task] = NoEntry]
          /\ tasks' = Release(m.task, m.leaseID) /\ mailbox' = [mailbox EXCEPT ![g] = Tail(@)]
          /\ UNCHANGED <<queuePaused, grainVars, status, running, reports>>
      BY <1>6, <2>4 DEF dispatch
    <3> HIDE DEF m
    <3>2. tasks' \in [Task -> Row]
      BY <2>2, <3>1, ReleaseType
    <3>3. inflight' \in [Gateway -> [Task -> Entry \cup {NoEntry}]]
      BY <1>1, <2>2, <3>1
    <3>4. mailbox' \in [Gateway -> Seq(Message)]
      BY <1>1, <2>1, <3>1
    <3> QED
      BY <1>1, <3>1, <3>2, <3>3, <3>4, GatewayFrame
  <2> QED
    BY <2>3, <2>4
<1>7. CASE cancelActive(g)
  <2> DEFINE t == Head(mailbox[g]).task
  <2>1. Head(mailbox[g]) \in Message /\ Tail(mailbox[g]) \in Seq(Message)
        /\ Head(mailbox[g]).kind = "CancelActive"
    BY <1>3, <1>7 DEF cancelActive, next
  <2>2. t \in Task
    BY <2>1 DEF Message, Execute, Control
  <2>3. /\ inflight' = IF inflight[g][t] = NoEntry THEN inflight
                       ELSE [inflight EXCEPT ![g][t].cancelRequested = TRUE]
        /\ mailbox' = [mailbox EXCEPT ![g] = Tail(@)]
        /\ UNCHANGED <<brokerVars, grainVars, status, running, reports>>
    BY <1>7 DEF cancelActive
  <2> HIDE DEF t
  <2>4. inflight[g][t] # NoEntry =>
           [inflight[g][t] EXCEPT !.cancelRequested = TRUE] \in Entry
    <3>1. inflight[g][t] \in Entry \cup {NoEntry}
      BY <1>1, <2>2
    <3> QED
      BY Zenon, <3>1 DEF Entry
  <2>5. inflight' \in [Gateway -> [Task -> Entry \cup {NoEntry}]]
    BY <1>1, <2>2, <2>3, <2>4
  <2>6. mailbox' \in [Gateway -> Seq(Message)]
    BY <1>1, <2>1, <2>3
  <2> QED
    BY SMTT(40), <1>1, <2>3, <2>5, <2>6, GatewayFrame DEF brokerVars
<1>8. CASE \E t \in Task : heartbeat(g, t)
  <2> PICK t \in Task : heartbeat(g, t)
    BY <1>8
  <2>1. reports' \in [Report -> Nat]
    BY <1>2, TellType DEF heartbeat
  <2>2. inflight' \in [Gateway -> [Task -> Entry \cup {NoEntry}]]
    BY <1>1 DEF heartbeat
  <2> QED
    BY <1>1, <2>1, <2>2, GatewayFrame DEF heartbeat, brokerVars
<1>9. CASE \E t \in Task : \E o \in Outcome : result(g, t, o)
  <2> PICK t \in Task, o \in Outcome : result(g, t, o)
    BY <1>9
  <2>1. running' \in [Gateway -> [Task -> Nat]]
    BY <1>1 DEF result
  <2>2. tasks' \in [Task -> Row]
    BY <1>1, OutcomeType DEF result
  <2>3. inflight' \in [Gateway -> [Task -> Entry \cup {NoEntry}]]
    <3>1. inflight' = inflight \/ inflight' = [inflight EXCEPT ![g][t] = NoEntry]
      BY DEF result
    <3>2. [inflight EXCEPT ![g][t] = NoEntry] \in [Gateway -> [Task -> Entry \cup {NoEntry}]]
      BY <1>1
    <3> QED
      BY Zenon, <1>1, <3>1, <3>2
  <2>4. reports' \in [Report -> Nat]
    BY <1>1, ReportType, TellType DEF result
  <2> QED
    BY <1>1, <2>1, <2>2, <2>3, <2>4, GatewayFrame DEF result
<1>10. CASE CloseStream(g)
  <2> DEFINE m == [kind |-> "drainSession"]
  <2>1. m \in Message
    BY DEF Message, Control
  <2>2. mailbox' = [mailbox EXCEPT ![g] = Append(@, m)]
    BY <1>10 DEF CloseStream
  <2>3. mailbox' \in [Gateway -> Seq(Message)]
    <3> HIDE DEF m
    <3> QED
      BY <1>1, <2>1, <2>2, AppendFacts
  <2>4. running' \in [Gateway -> [Task -> Nat]]
    BY <1>1, <1>10 DEF CloseStream
  <2>5. status' \in [Gateway -> {"new", "up", "closed", "drained", "unregistered", "stopped"}]
    BY SMTT(40), <1>1, <1>10 DEF CloseStream
  <2> QED
    BY <1>1, <1>10, <2>3, <2>4, <2>5, GatewayFrame DEF CloseStream, brokerVars
<1>11. CASE drain(g)
  <2>1. tasks' \in [Task -> Row]
    BY <1>11, ReleaseAllType DEF drain
  <2>2. mailbox' \in [Gateway -> Seq(Message)]
    BY <1>1, <1>3, <1>11 DEF drain
  <2>3. inflight' \in [Gateway -> [Task -> Entry \cup {NoEntry}]]
    BY <1>1, <1>11 DEF drain
  <2>4. status' \in [Gateway -> {"new", "up", "closed", "drained", "unregistered", "stopped"}]
    BY SMTT(40), <1>1, <1>11 DEF drain
  <2> QED
    BY SMTT(40), <1>1, <1>11, <2>1, <2>2, <2>3, <2>4, GatewayFrame DEF drain
<1>12. CASE unregisterGateway(g)
  <2>1. grain' \in GrainType
    BY <1>12, RemoveGatewayType DEF unregisterGateway, Shaped
  <2> QED
    BY SMTT(40), <1>12, <2>1 DEF unregisterGateway, Shaped, brokerVars
<1>13. CASE Stop(g) \/ NodeDeath(g)
  <2>1. Shutdown(g)
    BY <1>13 DEF Stop, NodeDeath
  <2>2. mailbox' \in [Gateway -> Seq(Message)]
    BY <1>1, <2>1 DEF Shutdown
  <2>3. inflight' \in [Gateway -> [Task -> Entry \cup {NoEntry}]]
    BY <1>1, <2>1 DEF Shutdown
  <2>4. running' \in [Gateway -> [Task -> Nat]]
    BY <1>1, <2>1 DEF Shutdown
  <2> QED
    BY <1>1, <2>1, <2>2, <2>3, <2>4, GatewayFrame DEF Shutdown, brokerVars
<1> QED
  BY SMTT(40), <1>4, <1>5, <1>6, <1>7, <1>8, <1>9, <1>10, <1>11, <1>12, <1>13 DEF GatewayAction

LEMMA OtherShape ==
  ASSUME Shaped,
         OtherAction
  PROVE  Shaped'
<1>1. /\ tasks \in [Task -> Row] /\ mailbox \in [Gateway -> Seq(Message)]
      /\ status \in [Gateway -> {"new", "up", "closed", "drained", "unregistered", "stopped"}]
      /\ inflight \in [Gateway -> [Task -> Entry \cup {NoEntry}]]
      /\ running \in [Gateway -> [Task -> Nat]]
      /\ reports \in [Report -> Nat]
  BY DEF Shaped, Message
<1>2. CASE \E m \in Report : LoseReport(m)
  <2>1. reports' \in [Report -> Nat]
    BY <1>1, <1>2 DEF LoseReport
  <2> QED
    BY <1>1, <1>2, <2>1, GatewayFrame DEF LoseReport, brokerVars
<1>3. CASE \E t \in Task : CancelActive(t)
  <2> PICK t \in Task : CancelActive(t)
    BY <1>3
  <2> DEFINE m == [kind |-> "CancelActive", task |-> t]
  <2>1. m \in Message
    BY DEF Message, Control
  <2>2. mailbox' = [g \in Gateway |-> IF g \in grain.gateways /\ status[g] # "stopped"
                                       THEN Append(mailbox[g], m) ELSE mailbox[g]]
    BY DEF CancelActive
  <2> HIDE DEF m
  <2>3. mailbox' \in [Gateway -> Seq(Message)]
    BY <1>1, <2>1, <2>2, AppendFacts
  <2> QED
    BY <1>1, <2>3, GatewayFrame DEF CancelActive, brokerVars
<1>4. CASE \E t \in Task : Enqueue(t)
  <2> PICK t \in Task : Enqueue(t)
    BY <1>4
  <2>1. [tasks[t] EXCEPT !.state = "waiting"] \in Row
    <3>1. tasks[t] \in Row
      BY <1>1
    <3> QED
      BY <3>1 DEF Row, RowState
  <2>2. tasks' \in [Task -> Row]
    BY <1>1, <2>1 DEF Enqueue
  <2> QED
    BY <1>1, <2>2, GatewayFrame DEF Enqueue, gatewayVars
<1>5. CASE \E t \in Task : Reap(t)
  <2> PICK t \in Task : Reap(t)
    BY <1>5
  <2> DEFINE row == tasks[t]
             archived == [row EXCEPT !.state = "archived", !.leaseID = NoLease]
             retry == [row EXCEPT !.state = "waiting", !.leaseID = NoLease, !.retried = @ + 1]
  <2>1. row \in Row
    BY <1>1
  <2>2. archived \in Row
    BY Zenon, <2>1 DEF Row, RowState
  <2>3. ~(row.retried >= MaxRetry) => retry \in Row
    <3>1. row.retried \in 0..MaxRetry /\ MaxRetry \in Nat
      BY <2>1, DispatchAssumption DEF Row
    <3>2. ~(row.retried >= MaxRetry) => row.retried + 1 \in 0..MaxRetry
      BY <3>1
    <3> QED
      BY Zenon, <2>1, <3>2 DEF Row, RowState
  <2>4. tasks' = [tasks EXCEPT ![t] = IF row.retried >= MaxRetry THEN archived ELSE retry]
    BY DEF Reap
  <2> HIDE DEF row, archived, retry
  <2>5. tasks' \in [Task -> Row]
    BY <1>1, <2>2, <2>3, <2>4
  <2> QED
    BY <1>1, <2>5, GatewayFrame DEF Reap, gatewayVars
<1> QED
  BY <1>2, <1>3, <1>4, <1>5 DEF OtherAction

LEMMA ShapedStep == Shaped /\ [Next]_vars => Shaped'
<1> SUFFICES ASSUME Shaped, [Next]_vars PROVE Shaped'
  OBVIOUS
<1>1. CASE Next
  BY SMTT(40), <1>1, NextCases, GrainShape, ReceivingShape, TellGatewayShape, PipedShape, GatewayShape, OtherShape
<1>2. CASE UNCHANGED vars
  BY <1>2 DEF vars, brokerVars, grainVars, gatewayVars, Shaped
<1> QED
  BY <1>1, <1>2

\* Every variable keeps a value of its kind, whatever gateways, sessions, pipes
\* and operators do and in whatever order.
THEOREM ShapeKept == Spec => []Shaped
<1>1. Init => Shaped
  <2> SUFFICES ASSUME Init PROVE Shaped
    OBVIOUS
  <2>1. grain \in GrainType
    BY DEF Init, activated, GrainType
  <2>2. tasks \in [Task -> Row]
    <3>1. \A t \in Task : [state |-> IF t \in Late THEN "absent" ELSE "waiting",
                           leaseID |-> NoLease, retried |-> 0] \in Row
      BY DispatchAssumption DEF Row, RowState
    <3> QED
      BY <3>1 DEF Init
  <2>3. mailbox \in [Gateway -> Seq(Execute \cup Control)]
    BY DEF Init
  <2>4. /\ inflight \in [Gateway -> [Task -> Entry \cup {NoEntry}]]
        /\ running \in [Gateway -> [Task -> Nat]]
        /\ reports \in [Report -> Nat]
    BY DEF Init
  <2> QED
    BY Zenon, <2>1, <2>2, <2>3, <2>4, IdleType DEF Init, Shaped
<1> QED
  BY <1>1, ShapedStep, PTL DEF Spec

-----------------------------------------------------------------------------
(* Operator cancels *)

LEMMA FewerDiffers ==
  ASSUME NEW n \in Nat, NEW m, m < n
  PROVE  m # n
OBVIOUS

\* An execution ends on a session that stays up only by a result of its worker.
LEMMA ResultOnly ==
  ASSUME Shaped, Next, NEW g \in Gateway, NEW t \in Task,
         running'[g][t] < running[g][t], status'[g] = "up"
  PROVE  \E o \in Outcome : result(g, t, o)
<1>1. /\ running \in [Gateway -> [Task -> Nat]] /\ mailbox[g] \in Seq(Message)
      /\ DOMAIN status = Gateway
  BY SMTT(40) DEF Shaped, Message
<1>2. running' # running
  <2>1. running[g][t] \in Nat
    BY <1>1
  <2>2. running'[g][t] # running[g][t]
    BY Zenon, <2>1, FewerDiffers
  <2> QED
    BY Zenon, <2>2
<1>3. ~(GrainAction \/ PipedAction \/ OtherAction)
  BY ZenonT(40), <1>2 DEF GrainAction, TasksAvailable, DrainQueue, ResumeQueue, endLeaseCycle, OnActivate, finishLeaseCycle,
         holdBack, StatusFailure, PipedAction, Lease, LeaseFails, releaseLeased, releaseFails,
         OtherAction, LoseReport, CancelActive, Enqueue, Reap, gatewayVars
<1>4. ASSUME NEW h \in Gateway
      PROVE  ~ReceiveAction(h) /\ ~\E u \in Task : tellGateway(u, h)
  BY ZenonT(40), <1>2 DEF ReceiveAction, registerGateway, addCredits, recordCompletion, received, tellGateway
<1>5. PICK h \in Gateway : GatewayAction(h)
  BY SMTT(40), <1>3, <1>4, NextCases
<1>6. CASE PostStart(h) \/ register(h) \/ cancelActive(h) \/ credit(h) \/ drain(h) \/ unregisterGateway(h)
           \/ \E u \in Task : heartbeat(h, u)
  BY ZenonT(40), <1>2, <1>6 DEF PostStart, register, cancelActive, credit, drain, unregisterGateway, heartbeat
<1>7. CASE dispatch(h)
  <2> DEFINE u == Head(mailbox[h]).task
  <2>1. running' = [running EXCEPT ![h][u] = @ + 1]
    BY <1>2, <1>7 DEF dispatch
  <2> HIDE DEF u
  <2>2. running'[g][t] = running[g][t] \/ running'[g][t] = running[g][t] + 1
    BY <1>1, <2>1
  <2> QED
    BY SMTT(40), <1>1, <2>2
<1>8. CASE CloseStream(h)
  BY <1>1, <1>8 DEF CloseStream
<1>9. CASE Stop(h) \/ NodeDeath(h)
  <2>1. /\ status' = [status EXCEPT ![h] = "stopped"]
        /\ running' = [running EXCEPT ![h] = [u \in Task |-> 0]]
    BY <1>9 DEF Stop, NodeDeath, Shutdown
  <2> QED
    BY <1>1, <2>1
<1>10. CASE \E u \in Task, o \in Outcome : result(h, u, o)
  <2> PICK u \in Task, o \in Outcome : result(h, u, o)
    BY <1>10
  <2>1. running' = [running EXCEPT ![h][u] = @ - 1]
    BY DEF result
  <2>2. h = g /\ u = t
    BY <1>1, <2>1
  <2> QED
    BY <2>2
<1> QED
  BY ZenonT(40), <1>5, <1>6, <1>7, <1>8, <1>9, <1>10 DEF GatewayAction

\* Once a delivery is marked as canceled, no report of its worker makes the task
\* waiting again.
THEOREM CancelAlwaysSticks == Spec => CancelSticks
<1>1. ASSUME Shaped, [Next]_vars, NEW g \in Gateway, NEW t \in Task,
             inflight[g][t] # NoEntry, running'[g][t] < running[g][t], status'[g] = "up",
             inflight[g][t].cancelRequested
      PROVE  tasks'[t].state # "waiting" \/ tasks[t].state = "waiting"
  <2>1. running' # running
    <3>1. running[g][t] \in Nat
      BY ZenonT(40), <1>1 DEF Shaped
    <3>2. running'[g][t] # running[g][t]
      BY Zenon, <1>1, <3>1, FewerDiffers
    <3> QED
      BY Zenon, <3>2
  <2>2. Next
    BY <1>1, <2>1 DEF vars, gatewayVars
  <2>3. PICK o \in Outcome : result(g, t, o)
    BY Zenon, <1>1, <2>2, ResultOnly
  <2>4. tasks' = applyOutcome(t, inflight[g][t], o)
    BY <1>1, <2>3 DEF result
  <2>5. \E state \in {"completed", "archived"} :
           tasks' = settle(t, inflight[g][t].leaseID, state, tasks[t].retried)
    BY <1>1, <2>4 DEF applyOutcome
  <2> QED
    BY SMTT(40), <1>1, <2>5 DEF settle, Shaped
<1>2. Shaped /\ [Next]_vars =>
         [\A g \in Gateway : \A t \in Task :
             inflight[g][t] # NoEntry /\ running'[g][t] < running[g][t] /\ status'[g] = "up"
                 => (inflight[g][t].cancelRequested => tasks'[t].state # "waiting"
                                                           \/ tasks[t].state = "waiting")]_vars
  BY <1>1
<1> QED
  BY <1>2, ShapeKept, PTL DEF Spec, CancelSticks

-----------------------------------------------------------------------------
(* The pause *)

\* maybeLease takes the pause flag over.
LEMMA WakePause ==
  ASSUME NEW gr \in GrainType, maybeLease(gr, cycles)
  PROVE  grain'.paused = gr.paused
<1>1. [gr EXCEPT !.leasing = TRUE].paused = gr.paused
  BY DEF GrainType
<1> QED
  BY Zenon, <1>1, MaybeLeaseFacts

LEMMA PauseStays ==
  ASSUME Shaped, PauseInv, [Next]_vars
  PROVE  PauseInv'
<1>1. grain \in GrainType /\ queuePaused = grain.paused /\ (grain.paused => turn = Idle)
  BY DEF Shaped, PauseInv, idle
<1> SUFFICES queuePaused' = grain'.paused /\ (grain'.paused => turn' = Idle)
  BY DEF PauseInv, idle
<1>2. CASE UNCHANGED <<queuePaused, turn>> /\ grain'.paused = grain.paused
  BY <1>1, <1>2
<1>3. CASE GrainAction
  <2>1. CASE TasksAvailable
    BY <1>1, <1>2, <2>1, WakePause DEF TasksAvailable, brokerVars
  <2>2. CASE DrainQueue
    BY <1>1, <2>2 DEF DrainQueue, GrainType, idle
  <2>3. CASE ResumeQueue
    <3> DEFINE gr == [grain EXCEPT !.paused = FALSE]
    <3>1. gr \in GrainType /\ gr.paused = FALSE
      BY ZenonT(40), <1>1 DEF GrainType
    <3>2. maybeLease(gr, cycles) /\ queuePaused' = FALSE
      BY <2>3 DEF ResumeQueue
    <3> HIDE DEF gr
    <3> QED
      BY Zenon, <3>1, <3>2, WakePause
  <2>4. CASE endLeaseCycle
    <3>1. grain'.paused = grain.paused
      BY <1>1, <2>4, WakePause DEF endLeaseCycle
    <3> QED
      BY <1>1, <2>4, <3>1 DEF endLeaseCycle, brokerVars
  <2>5. CASE OnActivate
    BY <2>5 DEF OnActivate, activated, brokerVars
  <2>6. CASE \E c \in cycles : finishLeaseCycle(c)
    <3>1. grain'.paused = grain.paused /\ queuePaused' = queuePaused /\ (grain.paused => turn' = turn)
      BY <1>1, <2>6 DEF finishLeaseCycle, GrainType, brokerVars
    <3> QED
      BY <1>1, <3>1
  <2>7. CASE \E t \in Task : holdBack(t)
    <3>1. turn # Idle /\ grain' = grain /\ queuePaused' = queuePaused
      BY <2>7, IdleType DEF holdBack, brokerVars
    <3> QED
      BY <1>1, <3>1
  <2>8. CASE \E lost \in SUBSET cycles : StatusFailure(lost)
    BY SMTT(40), <1>1, <1>2, <2>8 DEF StatusFailure, GrainType, brokerVars
  <2> QED
    BY SMTT(40), <1>3, <2>1, <2>2, <2>3, <2>4, <2>5, <2>6, <2>7, <2>8 DEF GrainAction
<1>4. ASSUME NEW g \in Gateway, ReceiveAction(g)
      PROVE  UNCHANGED <<queuePaused, turn>> /\ grain'.paused = grain.paused
  <2>1. UNCHANGED <<queuePaused, turn>>
    BY <1>4 DEF ReceiveAction, registerGateway, addCredits, recordCompletion, received, brokerVars
  <2>2. refill(grain, g) \in GrainType /\ refill(grain, g).paused = grain.paused
    BY Zenon, <1>1, RefillType DEF refill, GrainType
  <2>3. CASE registerGateway(g)
    <3> DEFINE gr == IF g \in grain.gateways THEN grain
                     ELSE [grain EXCEPT !.gateways = @ \cup {g}, !.credits[g] = capacity[g]]
    <3>1. gr \in GrainType /\ gr.paused = grain.paused
      BY ZenonT(40), <1>1, DispatchAssumption DEF GrainType
    <3>2. maybeLease(gr, cycles)
      BY <2>3 DEF registerGateway
    <3> HIDE DEF gr
    <3> QED
      BY <2>1, <3>1, <3>2, WakePause
  <2>4. CASE addCredits(g)
    BY <2>1, <2>2, <2>4, WakePause DEF addCredits
  <2>5. CASE \E t \in Task : recordCompletion(g, t)
    <3> PICK t \in Task : recordCompletion(g, t)
      BY <2>5
    <3> DEFINE gr == releaseConcurrencyKey(refill(grain, g), t)
    <3>1. gr \in GrainType
      BY <2>2, ReleaseKeyType
    <3>2. gr.paused = refill(grain, g).paused
      BY <2>2 DEF releaseConcurrencyKey, GrainType
    <3>3. maybeLease(gr, cycles)
      BY DEF recordCompletion
    <3> HIDE DEF gr
    <3> QED
      BY <2>1, <2>2, <3>1, <3>2, <3>3, WakePause
  <2> QED
    BY <1>4, <2>3, <2>4, <2>5 DEF ReceiveAction
<1>5. ASSUME NEW g \in Gateway, NEW t \in Task, tellGateway(t, g)
      PROVE  ~grain.paused /\ grain'.paused = grain.paused /\ queuePaused' = queuePaused
  <2>1. turn # Idle
    BY <1>5, IdleType DEF tellGateway
  <2>2. /\ dispatched(t, g).paused = grain.paused
        /\ removeGateway(grain, g).paused = grain.paused
    BY SMTT(40), <1>1 DEF dispatched, removeGateway, GrainType
  <2> QED
    BY <1>1, <1>5, <2>1, <2>2 DEF tellGateway, brokerVars
<1>6. PipedAction \/ OtherAction => UNCHANGED <<queuePaused, turn, grain>>
  BY ZenonT(40) DEF PipedAction, OtherAction, Lease, LeaseFails, releaseLeased, releaseFails, LoseReport,
         CancelActive, Enqueue, Reap, grainVars, brokerVars
<1>7. ASSUME NEW g \in Gateway, GatewayAction(g)
      PROVE  UNCHANGED <<queuePaused, turn>> /\ (grain' = grain \/ grain' = removeGateway(grain, g))
  BY Zenon, <1>7 DEF GatewayAction, PostStart, register, dispatch, cancelActive, credit, heartbeat, result,
              CloseStream, drain, unregisterGateway, Stop, NodeDeath, Shutdown, grainVars, brokerVars
<1>8. \A g \in Gateway : removeGateway(grain, g).paused = grain.paused
  BY SMTT(40), <1>1 DEF removeGateway, GrainType
<1>9. CASE Next
  BY ZenonT(40), <1>1, <1>2, <1>3, <1>4, <1>5, <1>6, <1>7, <1>8, <1>9, NextCases
<1>10. CASE UNCHANGED vars
  BY SMTT(40), <1>2, <1>10 DEF vars, grainVars, brokerVars
<1> QED
  BY <1>9, <1>10

\* How a step other than the loop's changes a mailbox.
LEMMA QuietBoxes ==
  ASSUME Shaped, [Next]_vars, ~\E g \in Gateway, t \in Task : tellGateway(t, g), NEW g \in Gateway
  PROVE  \/ mailbox'[g] = mailbox[g]
         \/ mailbox[g] # <<>> /\ mailbox'[g] = Tail(mailbox[g])
         \/ mailbox'[g] = <<>>
         \/ \E m \in Control : mailbox'[g] = Append(mailbox[g], m)
<1>1. mailbox = [h \in Gateway |-> mailbox[h]]
  BY ZenonT(40) DEF Shaped
<1>2. GrainAction \/ PipedAction => UNCHANGED mailbox
  BY Zenon DEF GrainAction, TasksAvailable, DrainQueue, ResumeQueue, endLeaseCycle, OnActivate, finishLeaseCycle,
         holdBack, StatusFailure, PipedAction, Lease, LeaseFails, releaseLeased, releaseFails, gatewayVars
<1>3. ASSUME NEW h \in Gateway, ReceiveAction(h)
      PROVE  UNCHANGED mailbox
  BY SMTT(40), <1>3 DEF ReceiveAction, registerGateway, addCredits, recordCompletion, received
<1>4. CASE OtherAction
  <2>1. CASE \E t \in Task : CancelActive(t)
    <3> PICK t \in Task : CancelActive(t)
      BY SMTT(40), <2>1
    <3>1. [kind |-> "CancelActive", task |-> t] \in Control
      BY SMTT(40) DEF Control
    <3> QED
      BY <3>1 DEF CancelActive
  <2>2. CASE ~\E t \in Task : CancelActive(t)
    BY ZenonT(40), <1>4, <2>2 DEF OtherAction, LoseReport, Enqueue, Reap, gatewayVars
  <2> QED
    BY ZenonT(40), <2>1, <2>2
<1>5. ASSUME NEW h \in Gateway, GatewayAction(h)
      PROVE  \/ UNCHANGED mailbox
             \/ mailbox[h] # <<>> /\ mailbox' = [mailbox EXCEPT ![h] = Tail(@)]
             \/ mailbox' = [mailbox EXCEPT ![h] = <<>>]
             \/ mailbox' = [mailbox EXCEPT ![h] = Append(@, [kind |-> "drainSession"])]
  <2>1. CASE dispatch(h) \/ cancelActive(h) \/ drain(h)
    BY ZenonT(40), <2>1 DEF dispatch, cancelActive, drain, next
  <2>2. CASE CloseStream(h) \/ Stop(h) \/ NodeDeath(h)
    BY SMTT(40), <2>2 DEF CloseStream, Stop, NodeDeath, Shutdown
  <2>3. CASE PostStart(h) \/ register(h) \/ credit(h) \/ unregisterGateway(h)
             \/ \E t \in Task : heartbeat(h, t) \/ \E o \in Outcome : result(h, t, o)
    BY <2>3 DEF PostStart, register, credit, unregisterGateway, heartbeat, result
  <2> QED
    BY SMTT(40), <1>5, <2>1, <2>2, <2>3 DEF GatewayAction
<1>6. [kind |-> "drainSession"] \in Control
  BY DEF Control
<1>7. ASSUME NEW h \in Gateway, GatewayAction(h)
      PROVE  \/ mailbox'[g] = mailbox[g]
             \/ mailbox[g] # <<>> /\ mailbox'[g] = Tail(mailbox[g])
             \/ mailbox'[g] = <<>>
             \/ mailbox'[g] = Append(mailbox[g], [kind |-> "drainSession"])
  BY SMTT(40), <1>1, <1>5, <1>7
<1>8. CASE Next
  BY ZenonT(40), <1>2, <1>3, <1>4, <1>6, <1>7, <1>8, NextCases
<1>9. CASE UNCHANGED vars
  BY <1>9 DEF vars, gatewayVars
<1> QED
  BY SMTT(40), <1>8, <1>9
=============================================================================
