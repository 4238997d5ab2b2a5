------------------------ MODULE DispatchLeaseProofs -------------------------
(* A lease has one owner, a slot one occupant, and a paused queue hands nothing *)
(* out: proofs about Dispatch.                                                  *)
EXTENDS DispatchProofs, FiniteSetTheorems

-----------------------------------------------------------------------------
(* One holder per lease *)

\* Nothing that t's delivery under lease was not held by holds it afterwards.
Kept(t, lease) ==
    /\ claimed(t, lease)' => claimed(t, lease)
    /\ inTurn(t, lease)' => inTurn(t, lease)
    /\ inRelease(t, lease)' => inRelease(t, lease)
    /\ \A g \in Gateway : inBox(g, t, lease)' => inBox(g, t, lease)
    /\ \A g \in Gateway : inFlight(g, t, lease)' => inFlight(g, t, lease)

LEMMA KeptHolder ==
  ASSUME NEW t, NEW lease, OneHolder(t, lease), Kept(t, lease)
  PROVE  OneHolder(t, lease)'
  BY Zenon DEF OneHolder, Kept

\* A step that keeps every holder and disturbs neither the cycles, the loop nor
\* the mailboxes keeps the invariant.
LEMMA KeptLeases ==
  ASSUME LeaseInv, CyclesDistinct', (turn.todo \cap turn.undeliverable)' = {},
         \A g \in Gateway : BoxedOnce(g)',
         \A t \in Task, lease \in LeaseID : Kept(t, lease)
  PROVE  LeaseInv'
  BY KeptHolder DEF LeaseInv

\* An id that is not in use has no holder.
LEMMA FreshUnheld ==
  ASSUME Shaped, NEW id, id \notin inUse
  PROVE  /\ \A c \in cycles : c.leaseID # id
         /\ turn.leaseID # id
         /\ \A t \in Task : /\ ~claimed(t, id) /\ ~inTurn(t, id) /\ ~inRelease(t, id)
                            /\ \A g \in Gateway : ~inBox(g, t, id) /\ ~inFlight(g, t, id)
<1>1. \A c \in cycles : c.leaseID # id
  BY DEF inUse
<1>2. turn.leaseID # id
  BY DEF inUse
<1>3. \A t \in Task : ~inRelease(t, id)
  <2> SUFFICES ASSUME NEW t \in Task, <<t, id>> \in releasing PROVE FALSE
    BY DEF inRelease
  <2>1. <<t, id>>[2] \in {r[2] : r \in releasing}
    BY Zenon
  <2> QED
    BY <2>1 DEF inUse
<1>4. \A t \in Task, g \in Gateway : ~inBox(g, t, id)
  <2> SUFFICES ASSUME NEW t \in Task, NEW g \in Gateway, NEW i \in DOMAIN mailbox[g],
                      mailbox[g][i].kind = "ExecuteTask", mailbox[g][i].leaseID = id
               PROVE  FALSE
    BY DEF inBox, boxedAt
  <2>1. id \in boxedIDs(g)
    BY DEF boxedIDs
  <2> QED
    BY <2>1 DEF inUse
<1>5. \A t \in Task, g \in Gateway : ~inFlight(g, t, id)
  <2> SUFFICES ASSUME NEW t \in Task, NEW g \in Gateway, inflight[g][t] # NoEntry,
                      inflight[g][t].leaseID = id
               PROVE  FALSE
    BY DEF inFlight
  <2>1. id \in trackedIDs(g)
    BY DEF trackedIDs
  <2> QED
    BY <2>1 DEF inUse
<1> QED
  BY <1>1, <1>2, <1>3, <1>4, <1>5 DEF claimed, inTurn

\* What maybeLease does to the cycles: at most one more, under a fresh id.
LEMMA MaybeLeaseClaims ==
  ASSUME Shaped, CyclesDistinct, NEW gr, maybeLease(gr, cycles)
  PROVE  /\ CyclesDistinct'
         /\ \A t \in Task, lease \in LeaseID : claimed(t, lease)' =>
               claimed(t, lease) \/ lease \notin inUse
<1>1. CASE cycles' = cycles
  BY <1>1 DEF CyclesDistinct, claimed
<1>2. CASE cycles' # cycles
  <2>1. PICK limit : /\ NewID \in LeaseID /\ NewID \notin inUse
                     /\ cycles' = cycles \cup
                           {[leaseID |-> NewID, limit |-> limit, tasks |-> {},
                             called |-> FALSE, lost |-> FALSE]}
    BY Zenon, <1>2, MaybeLeaseFacts
  <2> DEFINE new == [leaseID |-> NewID, limit |-> limit, tasks |-> {}, called |-> FALSE, lost |-> FALSE]
  <2>2. \A c \in cycles : c.leaseID # NewID
    BY <2>1, FreshUnheld
  <2>3. new.leaseID = NewID /\ new.tasks = {} /\ cycles' = cycles \cup {new}
    BY <2>1
  <2> HIDE DEF new
  <2>4. CyclesDistinct'
    BY <2>2, <2>3 DEF CyclesDistinct
  <2>5. ASSUME NEW t \in Task, NEW lease \in LeaseID, claimed(t, lease)'
        PROVE  claimed(t, lease) \/ lease \notin inUse
    <3>1. PICK c \in cycles' : c.leaseID = lease /\ (~c.called \/ t \in c.tasks)
      BY <2>5 DEF claimed
    <3>2. CASE c \in cycles
      BY <3>1, <3>2 DEF claimed
    <3>3. CASE c = new
      BY <2>1, <2>3, <3>1, <3>3
    <3> QED
      BY <2>3, <3>2, <3>3
  <2> QED
    BY <2>4, <2>5
<1> QED
  BY <1>1, <1>2

\* A wake-up, a report and a resumption leave the holders alone, apart from a new
\* cycle.
LEMMA WakeLeases ==
  ASSUME Shaped, LeaseInv, NEW gr, maybeLease(gr, cycles), UNCHANGED <<turn, releasing, mailbox, inflight>>
  PROVE  LeaseInv'
<1>1. CyclesDistinct'
  BY MaybeLeaseClaims DEF LeaseInv
<1>2. ASSUME NEW t \in Task, NEW lease \in LeaseID
      PROVE  OneHolder(t, lease)'
  <2>1. /\ inTurn(t, lease)' <=> inTurn(t, lease)
        /\ inRelease(t, lease)' <=> inRelease(t, lease)
        /\ \A g \in Gateway : /\ inBox(g, t, lease)' <=> inBox(g, t, lease)
                              /\ inFlight(g, t, lease)' <=> inFlight(g, t, lease)
    BY DEF inTurn, inRelease, inBox, boxedAt, inFlight
  <2>2. CASE lease \notin inUse
    <3>1. /\ ~inTurn(t, lease) /\ ~inRelease(t, lease)
          /\ \A g \in Gateway : ~inBox(g, t, lease) /\ ~inFlight(g, t, lease)
      BY <2>2, FreshUnheld
    <3> QED
      BY Zenon, <2>1, <3>1 DEF OneHolder
  <2>3. CASE lease \in inUse
    <3>1. claimed(t, lease)' => claimed(t, lease)
      BY <2>3, MaybeLeaseClaims DEF LeaseInv
    <3>2. OneHolder(t, lease)
      BY DEF LeaseInv
    <3> QED
      BY Zenon, <2>1, <3>1, <3>2, KeptHolder DEF Kept
  <2> QED
    BY <2>2, <2>3
<1>3. \A g \in Gateway : BoxedOnce(g)'
  BY DEF LeaseInv, BoxedOnce
<1> QED
  BY <1>1, <1>2, <1>3 DEF LeaseInv

\* Cycles that claim no more than the ones they replace, a loop that is cut short
\* and Release calls that are gone leave every holder its own.
LEMMA CyclesLeases ==
  ASSUME Shaped, LeaseInv, UNCHANGED <<mailbox, inflight>>,
         releasing' \subseteq releasing, turn' = turn \/ turn' = Idle,
         \A d \in cycles' : \E c \in cycles :
             /\ d.leaseID = c.leaseID
             /\ ~d.called => ~c.called /\ d.tasks = {}
             /\ c.called => d.tasks \subseteq c.tasks,
         \A d, e \in cycles' : d.leaseID = e.leaseID => d = e
  PROVE  LeaseInv'
<1>1. CyclesDistinct'
  BY DEF CyclesDistinct
<1>2. (turn.todo \cap turn.undeliverable)' = {}
  BY IdleType DEF LeaseInv
<1>3. \A g \in Gateway : BoxedOnce(g)'
  BY DEF LeaseInv, BoxedOnce
<1>4. ASSUME NEW t \in Task, NEW lease \in LeaseID
      PROVE  Kept(t, lease)
  <2>1. claimed(t, lease)' => claimed(t, lease)
    BY DEF claimed
  <2>2. inTurn(t, lease)' => inTurn(t, lease)
    BY IdleType, DispatchAssumption DEF inTurn
  <2>3. inRelease(t, lease)' => inRelease(t, lease)
    BY DEF inRelease
  <2> QED
    BY <2>1, <2>2, <2>3 DEF Kept, inBox, boxedAt, inFlight
<1> QED
  BY <1>1, <1>2, <1>3, <1>4, KeptLeases

\* One cycle replaced by its answer, or gone.
LEMMA AnsweredLeases ==
  ASSUME Shaped, LeaseInv, UNCHANGED <<mailbox, inflight, turn, releasing>>,
         NEW c \in cycles, ~c.called, NEW d, d.leaseID = c.leaseID, d.called,
         cycles' = (cycles \ {c}) \cup (IF c.lost THEN {} ELSE {d})
  PROVE  LeaseInv'
<1>1. \A e \in cycles' : e = d \/ (e \in cycles /\ e # c)
  OBVIOUS
<1>2. \A e \in cycles' : \E b \in cycles :
         /\ e.leaseID = b.leaseID
         /\ ~e.called => ~b.called /\ e.tasks = {}
         /\ b.called => e.tasks \subseteq b.tasks
  BY <1>1 DEF LeaseInv, CyclesDistinct
<1>3. \A e, f \in cycles' : e.leaseID = f.leaseID => e = f
  BY <1>1 DEF LeaseInv, CyclesDistinct
<1> QED
  BY <1>2, <1>3, CyclesLeases

\* Piped results that are lost.
LEMMA LostLeases ==
  ASSUME Shaped, LeaseInv, UNCHANGED <<mailbox, inflight>>,
         releasing' \subseteq releasing, turn' = turn \/ turn' = Idle,
         NEW lost, lost \subseteq cycles,
         cycles' = (cycles \ lost) \cup {[c EXCEPT !.lost = TRUE] : c \in {d \in lost : ~d.called}}
  PROVE  LeaseInv'
<1>1. \A d \in cycles' : \E c \in cycles :
         /\ d.leaseID = c.leaseID /\ d.called = c.called /\ d.tasks = c.tasks
         /\ IF d \in cycles /\ d \notin lost THEN c = d
            ELSE c \in lost /\ d = [c EXCEPT !.lost = TRUE]
  <2> SUFFICES ASSUME NEW d \in cycles', ~(d \in cycles /\ d \notin lost)
               PROVE  \E c \in cycles :
                         /\ d.leaseID = c.leaseID /\ d.called = c.called /\ d.tasks = c.tasks
                         /\ c \in lost /\ d = [c EXCEPT !.lost = TRUE]
    OBVIOUS
  <2>1. PICK c \in lost : d = [c EXCEPT !.lost = TRUE]
    OBVIOUS
  <2>2. c \in Cycle({c.limit})
    BY DEF Shaped
  <2>3. d.leaseID = c.leaseID /\ d.called = c.called /\ d.tasks = c.tasks
    BY <2>1, <2>2 DEF Cycle
  <2> QED
    BY Zenon, <2>1, <2>3
<1>2. \A d \in cycles' : \E c \in cycles :
         /\ d.leaseID = c.leaseID
         /\ ~d.called => ~c.called /\ d.tasks = {}
         /\ c.called => d.tasks \subseteq c.tasks
  BY <1>1 DEF LeaseInv, CyclesDistinct
<1>3. \A d, e \in cycles' : d.leaseID = e.leaseID => d = e
  <2> SUFFICES ASSUME NEW d \in cycles', NEW e \in cycles', d.leaseID = e.leaseID
               PROVE  d = e
    OBVIOUS
  <2>1. PICK b \in cycles : /\ d.leaseID = b.leaseID
                            /\ IF d \in cycles /\ d \notin lost THEN b = d
                               ELSE b \in lost /\ d = [b EXCEPT !.lost = TRUE]
    BY <1>1
  <2>2. PICK c \in cycles : /\ e.leaseID = c.leaseID
                            /\ IF e \in cycles /\ e \notin lost THEN c = e
                               ELSE c \in lost /\ e = [c EXCEPT !.lost = TRUE]
    BY <1>1
  <2>3. b = c
    BY Zenon, <2>1, <2>2 DEF LeaseInv, CyclesDistinct
  <2> QED
    BY Zenon, <2>1, <2>2, <2>3
<1> QED
  BY <1>2, <1>3, CyclesLeases

\* A cycle's batch moves to the loop, or to the Release calls of a paused queue.
LEMMA FinishLeases ==
  ASSUME Shaped, LeaseInv, NEW c \in cycles, finishLeaseCycle(c)
  PROVE  LeaseInv'
<1>1. c \in Cycle({c.limit}) /\ c.called /\ cycles' = cycles \ {c} /\ turn = Idle
      /\ UNCHANGED <<mailbox, inflight>>
  BY DEF Shaped, finishLeaseCycle, idle, gatewayVars
<1>2. CyclesDistinct'
  BY <1>1 DEF LeaseInv, CyclesDistinct
<1>3. (turn.todo \cap turn.undeliverable)' = {}
  <2>1. CASE turn' = Idle
    BY <2>1, IdleType
  <2>2. CASE turn' # Idle
    BY Zenon, <1>1, <2>2 DEF finishLeaseCycle, Idle
  <2> QED
    BY <2>1, <2>2
<1>4. \A g \in Gateway : BoxedOnce(g)'
  BY <1>1 DEF LeaseInv, BoxedOnce
<1>5. ASSUME NEW t \in Task, NEW lease \in LeaseID
      PROVE  OneHolder(t, lease)'
  <2>1. OneHolder(t, lease)
    BY DEF LeaseInv
  <2>2. ~inTurn(t, lease)
    BY <1>1, DispatchAssumption, IdleType DEF inTurn
  <2>3. \A g \in Gateway : /\ inBox(g, t, lease)' => inBox(g, t, lease)
                           /\ inFlight(g, t, lease)' => inFlight(g, t, lease)
    BY <1>1 DEF inBox, boxedAt, inFlight
  <2>4. inTurn(t, lease)' => lease = c.leaseID /\ t \in c.tasks
    <3>1. CASE turn' = Idle
      BY <3>1, DispatchAssumption, IdleType DEF inTurn
    <3>2. CASE turn' # Idle
      <4>1. turn' = [Idle EXCEPT !.leaseID = c.leaseID, !.todo = c.tasks]
        BY <1>1, <3>2 DEF finishLeaseCycle
      <4> QED
        BY <4>1 DEF inTurn, Idle
    <3> QED
      BY <3>1, <3>2
  <2>5. inRelease(t, lease)' => inRelease(t, lease) \/ (lease = c.leaseID /\ t \in c.tasks)
    BY DEF finishLeaseCycle, inRelease
  <2>6. ~(inTurn(t, lease)' /\ inRelease(t, lease)' /\ ~inRelease(t, lease))
    <3>1. CASE grain.paused
      BY <2>2, <3>1 DEF finishLeaseCycle, inTurn
    <3>2. CASE ~grain.paused
      BY <3>2 DEF finishLeaseCycle, inRelease
    <3> QED
      BY <3>1, <3>2
  <2>7. claimed(t, lease)' => claimed(t, lease)
    BY <1>1 DEF claimed
  <2>8. CASE lease = c.leaseID /\ t \in c.tasks
    <3>1. claimed(t, lease) /\ ~claimed(t, lease)'
      BY <1>1, <2>8 DEF claimed, LeaseInv, CyclesDistinct
    <3> QED
      BY ZenonT(40), <2>1, <2>3, <2>6, <3>1 DEF OneHolder
  <2>9. CASE ~(lease = c.leaseID /\ t \in c.tasks)
    BY Zenon, <2>1, <2>3, <2>4, <2>5, <2>7, <2>9, KeptHolder DEF Kept
  <2> QED
    BY <2>8, <2>9
<1> QED
  BY <1>2, <1>3, <1>4, <1>5 DEF LeaseInv

\* A task stays with the loop when it finds no gateway.
LEMMA HeldBackLeases ==
  ASSUME Shaped, LeaseInv, NEW t \in turn.todo, UNCHANGED <<cycles, releasing, mailbox, inflight>>,
         turn' = [turn EXCEPT !.todo = @ \ {t}, !.undeliverable = @ \cup {t}]
  PROVE  LeaseInv'
<1>1. /\ turn'.todo = turn.todo \ {t} /\ turn'.undeliverable = turn.undeliverable \cup {t}
      /\ turn'.leaseID = turn.leaseID
  BY DEF Shaped, TurnType
<1>2. CyclesDistinct' /\ (turn.todo \cap turn.undeliverable)' = {} /\ \A g \in Gateway : BoxedOnce(g)'
  BY <1>1 DEF LeaseInv, CyclesDistinct, BoxedOnce
<1>3. \A u \in Task, lease \in LeaseID : Kept(u, lease)
  BY <1>1 DEF Kept, claimed, inTurn, inRelease, inBox, boxedAt, inFlight
<1> QED
  BY <1>2, <1>3, KeptLeases

\* What the loop could not deliver moves to the Release calls.
LEMMA EndLeases ==
  ASSUME Shaped, LeaseInv, endLeaseCycle
  PROVE  LeaseInv'
<1>1. /\ turn' = Idle /\ UNCHANGED <<mailbox, inflight>>
      /\ releasing' = releasing \cup {<<t, turn.leaseID>> : t \in turn.undeliverable}
      /\ cycles' = cycles \/ maybeLease(grain, cycles)
  BY DEF endLeaseCycle, gatewayVars
<1>2. /\ CyclesDistinct'
      /\ \A t \in Task, lease \in LeaseID : claimed(t, lease)' => claimed(t, lease) \/ lease \notin inUse
  <2>1. CASE cycles' = cycles
    BY <2>1 DEF LeaseInv, CyclesDistinct, claimed
  <2>2. CASE maybeLease(grain, cycles)
    BY <2>2, MaybeLeaseClaims DEF LeaseInv
  <2> QED
    BY <1>1, <2>1, <2>2
<1>3. (turn.todo \cap turn.undeliverable)' = {} /\ \A g \in Gateway : BoxedOnce(g)'
  BY <1>1, IdleType DEF LeaseInv, BoxedOnce
<1>4. ASSUME NEW t \in Task, NEW lease \in LeaseID
      PROVE  OneHolder(t, lease)'
  <2>1. OneHolder(t, lease)
    BY DEF LeaseInv
  <2>2. ~inTurn(t, lease)'
    BY <1>1, DispatchAssumption, IdleType DEF inTurn
  <2>3. \A g \in Gateway : /\ inBox(g, t, lease)' => inBox(g, t, lease)
                           /\ inFlight(g, t, lease)' => inFlight(g, t, lease)
    BY <1>1 DEF inBox, boxedAt, inFlight
  <2>4. inRelease(t, lease)' => inRelease(t, lease) \/ inTurn(t, lease)
    BY <1>1 DEF inRelease, inTurn
  <2>5. CASE lease \in inUse
    BY Zenon, <1>2, <2>1, <2>2, <2>3, <2>4, <2>5 DEF OneHolder
  <2>6. CASE lease \notin inUse
    <3>1. /\ ~inTurn(t, lease) /\ ~inRelease(t, lease)
          /\ \A g \in Gateway : ~inBox(g, t, lease) /\ ~inFlight(g, t, lease)
      BY <2>6, FreshUnheld
    <3> QED
      BY ZenonT(40), <2>2, <2>3, <2>4, <3>1 DEF OneHolder
  <2> QED
    BY <2>5, <2>6
<1> QED
  BY <1>2, <1>3, <1>4 DEF LeaseInv

\* A delivery moves from the loop to a mailbox.
LEMMA TellLeases ==
  ASSUME Shaped, LeaseInv, NEW t \in Task, NEW g \in Gateway, tellGateway(t, g)
  PROVE  LeaseInv'
<1>1. t \in turn.todo /\ UNCHANGED <<cycles, releasing, inflight>>
  BY SMTT(40) DEF tellGateway
<1>2. CASE status[g] = "stopped"
  BY ZenonT(40), <1>1, <1>2, HeldBackLeases DEF tellGateway
<1>3. CASE status[g] # "stopped"
  <2> DEFINE m == [kind |-> "ExecuteTask", task |-> t, leaseID |-> turn.leaseID]
             box == Append(mailbox[g], m)
             last == Len(mailbox[g]) + 1
  <2>1. turn.leaseID \in LeaseID
    BY <1>1 DEF Shaped, TurnType
  <2>2. m \in Message /\ m.kind = "ExecuteTask" /\ m.task = t /\ m.leaseID = turn.leaseID
    BY <2>1 DEF Message, Execute
  <2>3. mailbox[g] \in Seq(Message)
    BY DEF Shaped, Message
  <2>4. /\ turn'.todo = turn.todo \ {t} /\ turn'.undeliverable = turn.undeliverable
        /\ turn'.leaseID = turn.leaseID
    BY ZenonT(40), <1>3 DEF tellGateway, Shaped, TurnType
  <2>5. mailbox' = [mailbox EXCEPT ![g] = box]
    BY <1>3 DEF tellGateway
  <2> HIDE DEF m
  <2>6. /\ DOMAIN box = DOMAIN mailbox[g] \cup {last}
        /\ last \notin DOMAIN mailbox[g]
        /\ box[last] = m
        /\ \A i \in DOMAIN mailbox[g] : box[i] = mailbox[g][i]
    BY <2>2, <2>3, AppendFacts
  <2> HIDE DEF box, last
  <2>7. mailbox'[g] = box /\ \A h \in Gateway : h # g => mailbox'[h] = mailbox[h]
    BY <2>5 DEF Shaped
  <2>8. ASSUME NEW u \in Task, NEW lease \in LeaseID, NEW h \in Gateway, inBox(h, u, lease)'
        PROVE  inBox(h, u, lease) \/ (h = g /\ u = t /\ lease = turn.leaseID)
    <3>1. PICK i \in DOMAIN mailbox'[h] : /\ mailbox'[h][i].kind = "ExecuteTask"
                                         /\ mailbox'[h][i].task = u /\ mailbox'[h][i].leaseID = lease
      BY <2>8 DEF inBox, boxedAt
    <3>2. CASE i \in DOMAIN mailbox[h] /\ mailbox'[h][i] = mailbox[h][i]
      BY <3>1, <3>2 DEF inBox, boxedAt
    <3>3. CASE h = g /\ i = last
      BY <2>2, <2>6, <2>7, <3>1, <3>3
    <3> QED
      BY <2>6, <2>7, <3>1, <3>2, <3>3
  <2>9. inTurn(t, turn.leaseID) /\ OneHolder(t, turn.leaseID)
    BY <1>1, <2>1 DEF inTurn, LeaseInv
  <2>10. \A h \in Gateway : BoxedOnce(h)'
    <3> SUFFICES ASSUME NEW h \in Gateway PROVE BoxedOnce(h)'
      OBVIOUS
    <3>1. CASE h # g
      BY SMTT(40), <2>7, <3>1 DEF LeaseInv, BoxedOnce
    <3>2. CASE h = g
      <4>1. ~inBox(g, t, turn.leaseID)
        BY Zenon, <2>9 DEF OneHolder
      <4>2. \A i \in DOMAIN mailbox[g] :
               ~(mailbox[g][i].kind = "ExecuteTask" /\ mailbox[g][i].task = t
                   /\ mailbox[g][i].leaseID = turn.leaseID)
        BY <4>1 DEF inBox, boxedAt
      <4>3. BoxedOnce(g)
        BY DEF LeaseInv
      <4> QED
        BY <2>2, <2>6, <2>7, <3>2, <4>2, <4>3 DEF BoxedOnce
    <3> QED
      BY <3>1, <3>2
  <2>11. ASSUME NEW u \in Task, NEW lease \in LeaseID
         PROVE  OneHolder(u, lease)'
    <3>1. /\ claimed(u, lease)' => claimed(u, lease)
          /\ inRelease(u, lease)' => inRelease(u, lease)
          /\ inTurn(u, lease)' => inTurn(u, lease)
          /\ \A h \in Gateway : inFlight(h, u, lease)' => inFlight(h, u, lease)
      BY <1>1, <2>4 DEF claimed, inRelease, inTurn, inFlight
    <3>2. CASE u = t /\ lease = turn.leaseID
      <4>1. ~inTurn(u, lease)'
        BY <1>1, <2>4, <3>2 DEF LeaseInv, inTurn
      <4>2. \A h \in Gateway : inBox(h, u, lease)' => h = g
        BY Zenon, <2>8, <2>9, <3>2 DEF OneHolder
      <4> QED
        BY ZenonT(40), <2>9, <3>1, <3>2, <4>1, <4>2 DEF OneHolder
    <3>3. CASE ~(u = t /\ lease = turn.leaseID)
      <4>1. OneHolder(u, lease)
        BY DEF LeaseInv
      <4> QED
        BY Zenon, <2>8, <3>1, <3>3, <4>1, KeptHolder DEF Kept
    <3> QED
      BY <3>2, <3>3
  <2>12. CyclesDistinct' /\ (turn.todo \cap turn.undeliverable)' = {}
    BY SMTT(40), <1>1, <2>4 DEF LeaseInv, CyclesDistinct
  <2> QED
    BY <2>10, <2>11, <2>12 DEF LeaseInv
<1> QED
  BY <1>2, <1>3

\* What a gateway does to its own mailbox and inflight map, when nothing joins.
LEMMA GatewayKeeps ==
  ASSUME Shaped, LeaseInv, UNCHANGED <<turn, cycles, releasing>>, NEW g \in Gateway,
         \A h \in Gateway : h # g => mailbox'[h] = mailbox[h] /\ inflight'[h] = inflight[h],
         BoxedOnce(g)',
         \A t \in Task, lease \in LeaseID : inBox(g, t, lease)' => inBox(g, t, lease),
         \A t \in Task, lease \in LeaseID : inFlight(g, t, lease)' => inFlight(g, t, lease)
  PROVE  LeaseInv'
<1>1. CyclesDistinct' /\ (turn.todo \cap turn.undeliverable)' = {}
  BY SMTT(40) DEF LeaseInv, CyclesDistinct
<1>2. \A h \in Gateway : BoxedOnce(h)'
  BY ZenonT(40) DEF LeaseInv, BoxedOnce
<1>3. ASSUME NEW t \in Task, NEW lease \in LeaseID
      PROVE  Kept(t, lease)
  <2>1. \A h \in Gateway : h # g => (inBox(h, t, lease)' => inBox(h, t, lease))
                                     /\ (inFlight(h, t, lease)' => inFlight(h, t, lease))
    BY DEF inBox, boxedAt, inFlight
  <2>2. /\ claimed(t, lease)' => claimed(t, lease)
        /\ inRelease(t, lease)' => inRelease(t, lease)
        /\ inTurn(t, lease)' => inTurn(t, lease)
    BY Zenon DEF claimed, inRelease, inTurn
  <2> QED
    BY Zenon, <2>1, <2>2 DEF Kept
<1> QED
  BY SMTT(40), <1>1, <1>2, <1>3, KeptLeases

\* Taking the first message of a mailbox.
LEMMA TailKeeps ==
  ASSUME Shaped, LeaseInv, NEW g \in Gateway, mailbox[g] # <<>>, mailbox'[g] = Tail(mailbox[g])
  PROVE  /\ BoxedOnce(g)'
         /\ \A t \in Task, lease \in LeaseID : inBox(g, t, lease)' => inBox(g, t, lease)
         /\ \A t \in Task, lease \in LeaseID : inBox(g, t, lease)' => ~boxedAt(g, 1, t, lease)
<1>1. mailbox[g] \in Seq(Message) /\ BoxedOnce(g)
  BY DEF Shaped, Message, LeaseInv
<1> DEFINE s == mailbox[g]
<1>2. /\ 1 \in DOMAIN s
      /\ \A i \in DOMAIN Tail(s) : i + 1 \in DOMAIN s /\ Tail(s)[i] = s[i + 1] /\ i + 1 # 1
      /\ \A i, j \in DOMAIN Tail(s) : i + 1 = j + 1 => i = j
  BY <1>1, TailFacts
<1> DEFINE next1(i) == i + 1
<1>3. /\ 1 \in DOMAIN mailbox[g]
      /\ \A i \in DOMAIN mailbox'[g] : /\ next1(i) \in DOMAIN mailbox[g]
                                       /\ mailbox'[g][i] = mailbox[g][next1(i)] /\ next1(i) # 1
      /\ \A i, j \in DOMAIN mailbox'[g] : next1(i) = next1(j) => i = j
  BY <1>2
<1> HIDE DEF s, next1
<1>4. BoxedOnce(g)'
  <2> SUFFICES ASSUME NEW i \in DOMAIN mailbox'[g], NEW j \in DOMAIN mailbox'[g],
                      mailbox'[g][i].kind = "ExecuteTask", mailbox'[g][j].kind = "ExecuteTask",
                      mailbox'[g][i].task = mailbox'[g][j].task,
                      mailbox'[g][i].leaseID = mailbox'[g][j].leaseID
               PROVE  i = j
    BY DEF BoxedOnce
  <2>1. next1(i) = next1(j)
    BY ZenonT(40), <1>1, <1>3 DEF BoxedOnce
  <2> QED
    BY ZenonT(40), <1>3, <2>1
<1>5. ASSUME NEW t \in Task, NEW lease \in LeaseID, inBox(g, t, lease)'
      PROVE  inBox(g, t, lease) /\ ~boxedAt(g, 1, t, lease)
  <2>1. PICK i \in DOMAIN mailbox'[g] : boxedAt(g, i, t, lease)'
    BY SMTT(40), <1>5 DEF inBox
  <2>2. boxedAt(g, next1(i), t, lease)
    BY SMTT(40), <1>3, <2>1 DEF boxedAt
  <2>3. ~boxedAt(g, 1, t, lease)
    BY Zenon, <1>1, <1>3, <2>1, <2>2 DEF boxedAt, BoxedOnce
  <2> QED
    BY <1>3, <2>1, <2>2, <2>3 DEF inBox
<1> QED
  BY Zenon, <1>4, <1>5

\* A delivery moves from the mailbox to the inflight map, or is released.
LEMMA DispatchLeases ==
  ASSUME Shaped, LeaseInv, NEW g \in Gateway, dispatch(g)
  PROVE  LeaseInv'
<1> DEFINE m == Head(mailbox[g])
<1>1. /\ mailbox[g] # <<>> /\ m.kind = "ExecuteTask"
      /\ mailbox' = [mailbox EXCEPT ![g] = Tail(@)]
      /\ UNCHANGED <<turn, cycles, releasing>>
  BY SMTT(40) DEF dispatch, next, grainVars
<1>2. /\ mailbox'[g] = Tail(mailbox[g])
      /\ \A h \in Gateway : h # g => mailbox'[h] = mailbox[h]
  BY SMTT(40), <1>1 DEF Shaped
<1>3. mailbox[g] \in Seq(Message)
  BY DEF Shaped, Message
<1>4. m \in Message /\ m = mailbox[g][1] /\ 1 \in DOMAIN mailbox[g]
  BY <1>1, <1>3, TailFacts
<1>5. m.task \in Task /\ m.leaseID \in LeaseID
  BY <1>1, <1>4 DEF Message, Execute, Control
<1>6. /\ BoxedOnce(g)'
      /\ \A t \in Task, lease \in LeaseID : inBox(g, t, lease)' => inBox(g, t, lease)
      /\ \A t \in Task, lease \in LeaseID : inBox(g, t, lease)' => ~boxedAt(g, 1, t, lease)
  BY <1>1, <1>2, TailKeeps
<1>7. boxedAt(g, 1, m.task, m.leaseID) /\ inBox(g, m.task, m.leaseID)
  BY SMTT(40), <1>1, <1>4 DEF boxedAt, inBox
<1>8. inflight \in [Gateway -> [Task -> Entry \cup {NoEntry}]]
  BY Zenon DEF Shaped
<1>9. CASE status[g] = "up"
  <2> DEFINE entry == [leaseID |-> m.leaseID, cancelRequested |-> FALSE]
  <2>1. inflight' = [inflight EXCEPT ![g][m.task] = entry] /\ entry.leaseID = m.leaseID
    BY <1>9 DEF dispatch
  <2> HIDE DEF entry, m
  <2>2. /\ \A h \in Gateway : h # g => inflight'[h] = inflight[h]
        /\ \A t \in Task : t # m.task => inflight'[g][t] = inflight[g][t]
        /\ inflight'[g][m.task] = entry
    BY SMTT(40), <1>5, <1>8, <2>1
  <2>3. CyclesDistinct' /\ (turn.todo \cap turn.undeliverable)' = {}
    BY SMTT(40), <1>1 DEF LeaseInv, CyclesDistinct
  <2>4. \A h \in Gateway : BoxedOnce(h)'
    BY ZenonT(40), <1>2, <1>6 DEF LeaseInv, BoxedOnce
  <2>5. ASSUME NEW t \in Task, NEW lease \in LeaseID
        PROVE  OneHolder(t, lease)'
    <3>1. OneHolder(t, lease)
      BY ZenonT(40) DEF LeaseInv
    <3>2. \A h \in Gateway : h # g => (inBox(h, t, lease)' => inBox(h, t, lease))
                                       /\ (inFlight(h, t, lease)' => inFlight(h, t, lease))
      BY ZenonT(40), <1>2, <2>2 DEF inBox, boxedAt, inFlight
    <3>3. /\ claimed(t, lease)' => claimed(t, lease)
          /\ inRelease(t, lease)' => inRelease(t, lease)
          /\ inTurn(t, lease)' => inTurn(t, lease)
      BY <1>1 DEF claimed, inRelease, inTurn
    <3>4. CASE t = m.task /\ lease = m.leaseID
      <4>1. ~inBox(g, t, lease)' /\ inBox(g, t, lease)
        BY Zenon, <1>6, <1>7, <3>4
      <4>2. \A h \in Gateway : ~inBox(h, t, lease)'
        BY Zenon, <3>1, <3>2, <4>1 DEF OneHolder
      <4>3. \A h \in Gateway : inFlight(h, t, lease)' => h = g
        BY Zenon, <3>1, <3>2, <4>1 DEF OneHolder
      <4>4. ~claimed(t, lease)' /\ ~inRelease(t, lease)' /\ ~inTurn(t, lease)'
        BY Zenon, <3>1, <3>3, <4>1 DEF OneHolder
      <4> QED
        BY Zenon, <4>2, <4>3, <4>4 DEF OneHolder
    <3>5. CASE ~(t = m.task /\ lease = m.leaseID)
      <4>1. inFlight(g, t, lease)' => inFlight(g, t, lease)
        BY SMTT(40), <2>1, <2>2, <3>5 DEF inFlight
      <4> QED
        BY ZenonT(40), <1>6, <3>1, <3>2, <3>3, <4>1, KeptHolder DEF Kept
    <3> QED
      BY <3>4, <3>5
  <2> QED
    BY SMTT(40), <2>3, <2>4, <2>5 DEF LeaseInv
<1>10. CASE status[g] # "up"
  <2>1. inflight' = [inflight EXCEPT ![g][m.task] = NoEntry]
    BY <1>10 DEF dispatch
  <2> HIDE DEF m
  <2>2. /\ \A h \in Gateway : h # g => inflight'[h] = inflight[h]
        /\ \A t \in Task : t # m.task => inflight'[g][t] = inflight[g][t]
        /\ inflight'[g][m.task] = NoEntry
    BY SMTT(40), <1>5, <1>8, <2>1
  <2>3. \A t \in Task, lease \in LeaseID : inFlight(g, t, lease)' => inFlight(g, t, lease)
    BY SMTT(40), <2>2 DEF inFlight
  <2> QED
    BY ZenonT(40), <1>1, <1>2, <1>6, <2>2, <2>3, GatewayKeeps
<1> QED
  BY SMTT(40), <1>9, <1>10

\* The other steps of a gateway take a message, mark a delivery or drop it.
LEMMA TakenLeases ==
  ASSUME Shaped, LeaseInv, UNCHANGED <<turn, cycles, releasing>>, NEW g \in Gateway,
         \/ mailbox' = mailbox
         \/ mailbox[g] # <<>> /\ mailbox' = [mailbox EXCEPT ![g] = Tail(@)]
         \/ mailbox' = [mailbox EXCEPT ![g] = <<>>],
         \A h \in Gateway : h # g => inflight'[h] = inflight[h],
         \A t \in Task : \/ inflight'[g][t] = NoEntry
                         \/ /\ inflight[g][t] # NoEntry
                            /\ inflight'[g][t].leaseID = inflight[g][t].leaseID
  PROVE  LeaseInv'
<1>1. /\ \A h \in Gateway : h # g => mailbox'[h] = mailbox[h]
      /\ \/ mailbox'[g] = mailbox[g]
         \/ mailbox[g] # <<>> /\ mailbox'[g] = Tail(mailbox[g])
         \/ mailbox'[g] = <<>>
  BY ZenonT(40) DEF Shaped
<1>2. /\ BoxedOnce(g)'
      /\ \A t \in Task, lease \in LeaseID : inBox(g, t, lease)' => inBox(g, t, lease)
  <2>1. CASE mailbox'[g] = mailbox[g]
    BY SMTT(40), <2>1 DEF LeaseInv, BoxedOnce, inBox, boxedAt
  <2>2. CASE mailbox[g] # <<>> /\ mailbox'[g] = Tail(mailbox[g])
    BY ZenonT(40), <2>2, TailKeeps
  <2>3. CASE mailbox'[g] = <<>>
    BY <2>3 DEF BoxedOnce, inBox
  <2> QED
    BY SMTT(40), <1>1, <2>1, <2>2, <2>3
<1>3. \A t \in Task, lease \in LeaseID : inFlight(g, t, lease)' => inFlight(g, t, lease)
  BY DEF inFlight
<1> QED
  BY ZenonT(40), <1>1, <1>2, <1>3, GatewayKeeps

\* A message that is not a delivery joins a mailbox.
LEMMA ControlKeeps ==
  ASSUME Shaped, LeaseInv, NEW g \in Gateway, NEW m \in Control,
         mailbox'[g] = Append(mailbox[g], m)
  PROVE  /\ BoxedOnce(g)'
         /\ \A t \in Task, lease \in LeaseID : inBox(g, t, lease)' => inBox(g, t, lease)
<1>1. mailbox[g] \in Seq(Message) /\ BoxedOnce(g) /\ m \in Message
  BY DEF Shaped, Message, LeaseInv
<1>2. m.kind # "ExecuteTask"
  BY DEF Control
<1> DEFINE last == Len(mailbox[g]) + 1
<1>3. /\ DOMAIN mailbox'[g] = DOMAIN mailbox[g] \cup {last}
      /\ mailbox'[g][last] = m
      /\ \A i \in DOMAIN mailbox[g] : mailbox'[g][i] = mailbox[g][i]
  BY <1>1, AppendFacts
<1> HIDE DEF last
<1>4. \A i \in DOMAIN mailbox'[g] : mailbox'[g][i].kind = "ExecuteTask" =>
         i \in DOMAIN mailbox[g] /\ mailbox'[g][i] = mailbox[g][i]
  BY <1>2, <1>3
<1>5. BoxedOnce(g)'
  BY ZenonT(40), <1>1, <1>4 DEF BoxedOnce
<1>6. \A t \in Task, lease \in LeaseID : inBox(g, t, lease)' => inBox(g, t, lease)
  BY Zenon, <1>4 DEF inBox, boxedAt
<1> QED
  BY SMTT(40), <1>5, <1>6

LEMMA SameLeases ==
  ASSUME LeaseInv, UNCHANGED <<turn, cycles, releasing, mailbox, inflight>>
  PROVE  LeaseInv'
<1>1. CyclesDistinct' /\ (turn.todo \cap turn.undeliverable)' = {} /\ \A g \in Gateway : BoxedOnce(g)'
  BY DEF LeaseInv, CyclesDistinct, BoxedOnce
<1>2. \A t \in Task, lease \in LeaseID : Kept(t, lease)
  BY DEF Kept, claimed, inTurn, inRelease, inBox, boxedAt, inFlight
<1> QED
  BY SMTT(40), <1>1, <1>2, KeptLeases

LEMMA GrainLeases ==
  ASSUME Shaped, LeaseInv, GrainAction
  PROVE  LeaseInv'
<1>1. CASE TasksAvailable
  BY <1>1, WakeLeases DEF TasksAvailable, gatewayVars
<1>2. CASE DrainQueue
  BY <1>2, SameLeases DEF DrainQueue, gatewayVars
<1>3. CASE ResumeQueue
  BY <1>3, WakeLeases DEF ResumeQueue, gatewayVars
<1>4. CASE endLeaseCycle
  BY <1>4, EndLeases
<1>5. CASE OnActivate
  <2>1. PICK lost \in SUBSET cycles :
           cycles' = (cycles \ lost) \cup {[c EXCEPT !.lost = TRUE] : c \in {d \in lost : ~d.called}}
    BY ZenonT(40), <1>5 DEF OnActivate
  <2>2. releasing' \subseteq releasing /\ turn' = Idle /\ UNCHANGED <<mailbox, inflight>>
    BY <1>5 DEF OnActivate, gatewayVars
  <2> QED
    BY Zenon, <2>1, <2>2, LostLeases
<1>6. CASE \E c \in cycles : finishLeaseCycle(c)
  BY <1>6, FinishLeases
<1>7. CASE \E t \in Task : holdBack(t)
  <2> PICK t \in Task : holdBack(t)
    BY <1>7
  <2>1. t \in turn.todo
    BY DEF holdBack
  <2> QED
    BY Zenon, <2>1, HeldBackLeases DEF holdBack, gatewayVars
<1>8. CASE \E lost \in SUBSET cycles : StatusFailure(lost)
  BY <1>8, LostLeases DEF StatusFailure, gatewayVars
<1> QED
  BY <1>1, <1>2, <1>3, <1>4, <1>5, <1>6, <1>7, <1>8 DEF GrainAction

LEMMA ReceivingLeases ==
  ASSUME Shaped, LeaseInv, NEW g \in Gateway, ReceiveAction(g)
  PROVE  LeaseInv'
<1>1. /\ UNCHANGED <<turn, releasing, mailbox, inflight>>
      /\ \E gr : maybeLease(gr, cycles)
  BY DEF ReceiveAction, registerGateway, addCredits, recordCompletion, received
<1> QED
  BY <1>1, WakeLeases

LEMMA PipedLeases ==
  ASSUME Shaped, LeaseInv, PipedAction
  PROVE  LeaseInv'
<1>1. CASE \E c \in cycles : Lease(c)
  <2> PICK c \in cycles : Lease(c)
    BY <1>1
  <2>1. PICK S \in claimable(c.limit) :
           cycles' = (cycles \ {c}) \cup (IF c.lost THEN {} ELSE {[c EXCEPT !.tasks = S, !.called = TRUE]})
    BY Zenon DEF Lease
  <2> DEFINE d == [c EXCEPT !.tasks = S, !.called = TRUE]
  <2>2. d.leaseID = c.leaseID /\ d.called
    BY SMTT(40) DEF Shaped, Cycle
  <2>3. ~c.called /\ UNCHANGED <<mailbox, inflight, turn, releasing>>
    BY Zenon DEF Lease, gatewayVars
  <2> HIDE DEF d
  <2> QED
    BY Zenon, <2>1, <2>2, <2>3, AnsweredLeases DEF d
<1>2. CASE \E c \in cycles : LeaseFails(c)
  <2> PICK c \in cycles : LeaseFails(c)
    BY <1>2
  <2> DEFINE d == [c EXCEPT !.called = TRUE]
  <2>1. cycles' = (cycles \ {c}) \cup (IF c.lost THEN {} ELSE {d})
    BY DEF LeaseFails
  <2>2. d.leaseID = c.leaseID /\ d.called
    BY DEF Shaped, Cycle
  <2>3. ~c.called /\ UNCHANGED <<mailbox, inflight, turn, releasing>>
    BY DEF LeaseFails, gatewayVars
  <2> HIDE DEF d
  <2> QED
    BY <2>1, <2>2, <2>3, AnsweredLeases
<1>3. CASE \E r \in releasing : releaseLeased(r) \/ releaseFails(r)
  <2>1. releasing' \subseteq releasing /\ UNCHANGED <<turn, cycles, mailbox, inflight>>
    BY <1>3 DEF releaseLeased, releaseFails, gatewayVars
  <2>2. cycles' = (cycles \ {}) \cup {[c EXCEPT !.lost = TRUE] : c \in {d \in {} : ~d.called}}
    BY <2>1
  <2> QED
    BY ZenonT(40), <2>1, <2>2, LostLeases
<1> QED
  BY <1>1, <1>2, <1>3 DEF PipedAction

LEMMA GatewayLeases ==
  ASSUME Shaped, LeaseInv, NEW g \in Gateway, GatewayAction(g)
  PROVE  LeaseInv'
<1>1. inflight \in [Gateway -> [Task -> Entry \cup {NoEntry}]] /\ mailbox[g] \in Seq(Message)
  BY Zenon DEF Shaped, Message
<1>2. CASE PostStart(g) \/ register(g) \/ credit(g) \/ unregisterGateway(g)
  BY <1>2, SameLeases DEF PostStart, register, credit, unregisterGateway, grainVars
<1>3. CASE dispatch(g)
  BY <1>3, DispatchLeases
<1>4. CASE cancelActive(g)
  <2> DEFINE t == Head(mailbox[g]).task
  <2>1. /\ UNCHANGED <<turn, cycles, releasing>> /\ mailbox[g] # <<>>
        /\ mailbox' = [mailbox EXCEPT ![g] = Tail(@)]
        /\ inflight' = IF inflight[g][t] = NoEntry THEN inflight
                       ELSE [inflight EXCEPT ![g][t].cancelRequested = TRUE]
    BY <1>4 DEF cancelActive, next, grainVars
  <2>2. t \in Task
    <3>1. Head(mailbox[g]) \in Message /\ Head(mailbox[g]).kind = "CancelActive"
      BY <1>1, <1>4, <2>1, TailFacts DEF cancelActive, next
    <3> QED
      BY <3>1 DEF Message, Execute, Control
  <2> HIDE DEF t
  <2>3. \A h \in Gateway : h # g => inflight'[h] = inflight[h]
    BY SMTT(40), <1>1, <2>1
  <2>4. ASSUME NEW u \in Task
        PROVE  \/ inflight'[g][u] = NoEntry
               \/ inflight[g][u] # NoEntry /\ inflight'[g][u].leaseID = inflight[g][u].leaseID
    <3>1. CASE u # t \/ inflight[g][t] = NoEntry
      BY <1>1, <2>1, <3>1
    <3>2. CASE u = t /\ inflight[g][t] # NoEntry
      <4>1. inflight[g][t] \in Entry
        BY <1>1, <2>2, <3>2
      <4>2. inflight'[g][t] = [inflight[g][t] EXCEPT !.cancelRequested = TRUE]
        BY ZenonT(40), <1>1, <2>1, <2>2, <3>2
      <4> QED
        BY <3>2, <4>1, <4>2 DEF Entry
    <3> QED
      BY <3>1, <3>2
  <2> QED
    BY Zenon, <2>1, <2>3, <2>4, TakenLeases
<1>5. CASE \E t \in Task : heartbeat(g, t) \/ \E o \in Outcome : result(g, t, o)
  <2> PICK t \in Task : heartbeat(g, t) \/ \E o \in Outcome : result(g, t, o)
    BY <1>5
  <2>1. /\ UNCHANGED <<turn, cycles, releasing, mailbox>>
        /\ inflight' = inflight \/ inflight' = [inflight EXCEPT ![g][t] = NoEntry]
    BY DEF heartbeat, result, grainVars
  <2>2. /\ \A h \in Gateway : h # g => inflight'[h] = inflight[h]
        /\ \A u \in Task : inflight'[g][u] = NoEntry \/ inflight'[g][u] = inflight[g][u]
    BY <1>1, <2>1
  <2>3. \A u \in Task : \/ inflight'[g][u] = NoEntry
                        \/ inflight[g][u] # NoEntry /\ inflight'[g][u].leaseID = inflight[g][u].leaseID
    BY ZenonT(40), <2>2
  <2> QED
    BY <2>1, <2>2, <2>3, TakenLeases
<1>6. CASE CloseStream(g)
  <2>1. /\ UNCHANGED <<turn, cycles, releasing, inflight>>
        /\ mailbox' = [mailbox EXCEPT ![g] = Append(@, [kind |-> "drainSession"])]
    BY <1>6 DEF CloseStream, grainVars
  <2>2. [kind |-> "drainSession"] \in Control
    BY SMTT(40) DEF Control
  <2>3. /\ \A h \in Gateway : h # g => mailbox'[h] = mailbox[h] /\ inflight'[h] = inflight[h]
        /\ mailbox'[g] = Append(mailbox[g], [kind |-> "drainSession"])
        /\ \A t \in Task, lease \in LeaseID : inFlight(g, t, lease)' => inFlight(g, t, lease)
    BY ZenonT(40), <2>1 DEF Shaped, inFlight
  <2> QED
    BY SMTT(40), <2>1, <2>2, <2>3, ControlKeeps, GatewayKeeps
<1>7. CASE drain(g)
  <2>1. /\ UNCHANGED <<turn, cycles, releasing>> /\ mailbox[g] # <<>>
        /\ mailbox' = [mailbox EXCEPT ![g] = Tail(@)]
        /\ inflight' = [inflight EXCEPT ![g] = [t \in Task |-> NoEntry]]
    BY Zenon, <1>7 DEF drain, next, grainVars
  <2>2. /\ \A h \in Gateway : h # g => inflight'[h] = inflight[h]
        /\ \A t \in Task : inflight'[g][t] = NoEntry
    BY <1>1, <2>1
  <2> QED
    BY Zenon, <2>1, <2>2, TakenLeases
<1>8. CASE Stop(g) \/ NodeDeath(g)
  <2>1. /\ UNCHANGED <<turn, cycles, releasing>>
        /\ mailbox' = [mailbox EXCEPT ![g] = <<>>]
        /\ inflight' = [inflight EXCEPT ![g] = [t \in Task |-> NoEntry]]
    BY <1>8 DEF Stop, NodeDeath, Shutdown, grainVars
  <2>2. /\ \A h \in Gateway : h # g => inflight'[h] = inflight[h]
        /\ \A t \in Task : inflight'[g][t] = NoEntry
    BY <1>1, <2>1
  <2> QED
    BY ZenonT(40), <2>1, <2>2, TakenLeases
<1> QED
  BY SMTT(40), <1>2, <1>3, <1>4, <1>5, <1>6, <1>7, <1>8 DEF GatewayAction

LEMMA OtherLeases ==
  ASSUME Shaped, LeaseInv, OtherAction
  PROVE  LeaseInv'
<1>1. CASE (\E m \in Report : LoseReport(m)) \/ (\E t \in Task : Enqueue(t) \/ Reap(t))
  BY ZenonT(40), <1>1, SameLeases DEF LoseReport, Enqueue, Reap, grainVars, gatewayVars
<1>2. CASE \E t \in Task : CancelActive(t)
  <2> PICK t \in Task : CancelActive(t)
    BY <1>2
  <2> DEFINE m == [kind |-> "CancelActive", task |-> t]
  <2>1. UNCHANGED <<turn, cycles, releasing, inflight>>
    BY DEF CancelActive, grainVars
  <2>2. m \in Control
    BY DEF Control
  <2>3. \A g \in Gateway : mailbox'[g] = mailbox[g] \/ mailbox'[g] = Append(mailbox[g], m)
    BY SMTT(40) DEF CancelActive
  <2> HIDE DEF m
  <2>4. ASSUME NEW g \in Gateway
        PROVE  /\ BoxedOnce(g)'
               /\ \A u \in Task, lease \in LeaseID : inBox(g, u, lease)' => inBox(g, u, lease)
    <3>1. CASE mailbox'[g] = mailbox[g]
      BY <3>1 DEF LeaseInv, BoxedOnce, inBox, boxedAt
    <3>2. CASE mailbox'[g] = Append(mailbox[g], m)
      BY SMTT(40), <2>2, <3>2, ControlKeeps
    <3> QED
      BY SMTT(40), <2>3, <3>1, <3>2
  <2>5. CyclesDistinct' /\ (turn.todo \cap turn.undeliverable)' = {}
    BY ZenonT(40), <2>1 DEF LeaseInv, CyclesDistinct
  <2>6. \A u \in Task, lease \in LeaseID : Kept(u, lease)
    BY ZenonT(40), <2>1, <2>4 DEF Kept, claimed, inTurn, inRelease, inFlight
  <2> QED
    BY SMTT(40), <2>4, <2>5, <2>6, KeptLeases
<1> QED
  BY <1>1, <1>2 DEF OtherAction

LEMMA LeaseStep ==
  ASSUME Shaped, LeaseInv, [Next]_vars
  PROVE  LeaseInv'
<1>1. CASE Next
  BY SMTT(40), <1>1, NextCases, GrainLeases, PipedLeases, OtherLeases, ReceivingLeases, GatewayLeases, TellLeases
<1>2. CASE UNCHANGED vars
  BY <1>2, SameLeases DEF vars, grainVars, gatewayVars
<1> QED
  BY <1>1, <1>2

LEMMA AtMostOne ==
  ASSUME NEW S, \A p, q \in S : p = q
  PROVE  Cardinality(S) <= 1
<1>1. CASE S = {}
  BY <1>1, FS_EmptySet
<1>2. CASE S # {}
  <2>1. PICK p : p \in S
    BY <1>2
  <2>2. S = {p}
    BY <2>1
  <2>3. Cardinality({p}) = 1
    BY Zenon, FS_Singleton
  <2> QED
    BY <2>2, <2>3
<1> QED
  BY <1>1, <1>2

\* One holder is one place.
LEMMA HeldOnce ==
  ASSUME Shaped, LeaseInv
  PROVE  DeliveredOnce
<1> SUFFICES ASSUME NEW t \in Task, NEW lease \in LeaseID \cup {NoLease}
             PROVE  Cardinality(places(t, lease)) <= 1
  BY SMTT(40) DEF DeliveredOnce, Shaped, Row
<1> DEFINE C == {<<"cycle", c>> : c \in {d \in cycles : d.leaseID = lease /\ t \in d.tasks}}
           T == {<<"turn">> : u \in {v \in {turn} : v.leaseID = lease /\ t \in v.todo \cup v.undeliverable}}
           R == {<<"releasing", r>> : r \in releasing \cap {<<t, lease>>}}
           B(g) == {<<"mailbox", g, i>> : i \in {j \in queued(g) :
                        mailbox[g][j].task = t /\ mailbox[g][j].leaseID = lease}}
           F == {<<"inflight", g>> : g \in {h \in Gateway :
                        inflight[h][t] # NoEntry /\ inflight[h][t].leaseID = lease}}
<1>1. /\ C # {} => claimed(t, lease)
      /\ \A p, q \in C : p = q
  BY DEF claimed, LeaseInv, CyclesDistinct
<1>2. /\ T # {} => inTurn(t, lease)
      /\ \A p, q \in T : p = q
  BY DEF inTurn
<1>3. /\ R # {} => inRelease(t, lease)
      /\ \A p, q \in R : p = q
  BY SMTT(40) DEF inRelease
<1>4. ASSUME NEW g \in Gateway
      PROVE  /\ B(g) # {} => inBox(g, t, lease)
             /\ \A p, q \in B(g) : p = q
  <2>1. BoxedOnce(g)
    BY SMTT(40) DEF LeaseInv
  <2>2. \A i, j \in {k \in queued(g) : mailbox[g][k].task = t /\ mailbox[g][k].leaseID = lease} : i = j
    BY <2>1 DEF queued, BoxedOnce
  <2>3. B(g) # {} => inBox(g, t, lease)
    BY DEF queued, inBox, boxedAt
  <2> QED
    BY <2>2, <2>3
<1>5. /\ \A p \in F : \E g \in Gateway : p = <<"inflight", g>> /\ inFlight(g, t, lease)
  BY SMTT(40) DEF inFlight
<1>6. places(t, lease) = C \cup T \cup R \cup F \cup UNION {B(g) : g \in Gateway}
  BY DEF places
<1> HIDE DEF C, T, R, B, F
<1>7. CASE lease = NoLease
  <2>1. C = {} /\ T = {} /\ R = {}
    BY SMTT(40), <1>1, <1>2, <1>3, <1>7, DispatchAssumption
       DEF claimed, inTurn, inRelease, Shaped, Cycle
  <2>2. \A g \in Gateway : ~inBox(g, t, lease)
    <3> SUFFICES ASSUME NEW g \in Gateway, NEW i \in DOMAIN mailbox[g], boxedAt(g, i, t, lease)
                 PROVE  FALSE
      BY SMTT(40) DEF inBox
    <3>1. mailbox[g] \in Seq(Message)
      BY DEF Shaped, Message
    <3>2. mailbox[g][i] \in Message
      BY SMTT(40), <3>1
    <3> QED
      BY <1>7, <3>2, DispatchAssumption DEF boxedAt, Message, Execute, Control
  <2>3. F = {}
    BY SMTT(40), <1>5, <1>7, DispatchAssumption DEF inFlight, Shaped, Entry
  <2>4. places(t, lease) = {}
    BY SMTT(40), <1>4, <1>6, <2>1, <2>2, <2>3
  <2> QED
    BY SMTT(40), <2>4, FS_EmptySet
<1>8. CASE lease \in LeaseID
  <2>1. OneHolder(t, lease)
    BY <1>8 DEF LeaseInv
  <2>2. /\ claimed(t, lease) => T = {} /\ R = {}
        /\ inTurn(t, lease) => R = {}
    BY Zenon, <1>2, <1>3, <2>1 DEF OneHolder
  <2>3. /\ claimed(t, lease) \/ inTurn(t, lease) \/ inRelease(t, lease) =>
              F = {} /\ \A g \in Gateway : B(g) = {}
        /\ F # {} => \A g \in Gateway : B(g) = {}
        /\ \A g, h \in Gateway : B(g) # {} /\ B(h) # {} => g = h
        /\ \A p, q \in F : p = q
    BY ZenonT(40), <1>4, <1>5, <2>1 DEF OneHolder
  <2>4. \A p, q \in UNION {B(g) : g \in Gateway} : p = q
    BY <1>4, <2>3
  <2>5. \/ places(t, lease) = C
        \/ places(t, lease) = T
        \/ places(t, lease) = R
        \/ places(t, lease) = UNION {B(g) : g \in Gateway}
        \/ places(t, lease) = F
    <3>1. \/ (UNION {B(g) : g \in Gateway}) = {}
          \/ C = {} /\ T = {} /\ R = {} /\ F = {}
      <4> SUFFICES ASSUME NEW g \in Gateway, B(g) # {}
                   PROVE  C = {} /\ T = {} /\ R = {} /\ F = {}
        OBVIOUS
      <4> QED
        BY Zenon, <1>1, <1>2, <1>3, <2>3
    <3>2. F = {} \/ (C = {} /\ T = {} /\ R = {})
      BY Zenon, <1>1, <1>2, <1>3, <2>3
    <3>3. (C = {} \/ (T = {} /\ R = {})) /\ (T = {} \/ R = {})
      BY Zenon, <1>1, <1>2, <2>2
    <3> DEFINE U == UNION {B(g) : g \in Gateway}
    <3>4. U = {} \/ (C = {} /\ T = {} /\ R = {} /\ F = {})
      BY Zenon, <3>1
    <3>5. places(t, lease) = C \cup T \cup R \cup F \cup U
      BY Zenon, <1>6
    <3> HIDE DEF U
    <3>6. \/ places(t, lease) = C \/ places(t, lease) = T \/ places(t, lease) = R
          \/ places(t, lease) = U \/ places(t, lease) = F
      BY <3>2, <3>3, <3>4, <3>5
    <3> QED
      BY <3>6 DEF U
  <2>6. \A p, q \in places(t, lease) : p = q
    BY Zenon, <1>1, <1>2, <1>3, <2>3, <2>4, <2>5
  <2> QED
    BY <2>6, AtMostOne
<1> QED
  BY SMTT(40), <1>7, <1>8

\* A lease of a task has one owner in every reachable state: the cycle that
\* claimed it, the grain's loop, a Release call, one mailbox or one inflight map.
THEOREM LeasesHeldOnce == Spec => []DeliveredOnce
<1>1. Init => LeaseInv
  <2> SUFFICES ASSUME Init PROVE LeaseInv
    OBVIOUS
  <2>1. CyclesDistinct /\ turn.todo \cap turn.undeliverable = {}
    BY SMTT(40), IdleType DEF Init, CyclesDistinct
  <2>2. \A g \in Gateway : BoxedOnce(g)
    BY DEF Init, BoxedOnce
  <2>3. ASSUME NEW t \in Task, NEW lease \in LeaseID
        PROVE  OneHolder(t, lease)
    <3>1. ~claimed(t, lease) /\ ~inRelease(t, lease)
      BY DEF Init, claimed, inRelease
    <3>2. ~inTurn(t, lease)
      BY IdleType, DispatchAssumption DEF Init, inTurn
    <3>3. \A g \in Gateway : ~inBox(g, t, lease) /\ ~inFlight(g, t, lease)
      BY DEF Init, inBox, inFlight
    <3> QED
      BY Zenon, <3>1, <3>2, <3>3 DEF OneHolder
  <2> QED
    BY <2>1, <2>2, <2>3 DEF LeaseInv
<1>2. Shaped /\ LeaseInv /\ [Next]_vars => LeaseInv'
  BY LeaseStep
<1>3. Shaped /\ LeaseInv => DeliveredOnce
  BY HeldOnce
<1> QED
  BY <1>1, <1>2, <1>3, ShapeKept, PTL DEF Spec

-----------------------------------------------------------------------------
(* The keyed semaphore *)

\* The tasks of U with concurrency key k.
keyed(U, k) == {t \in U : concurrencyKey[t] = k}

\* SlotInv of a grain.
SlotsOf(gr) ==
    /\ \A k \in Key :
          /\ gr.activeByKey[k] = Cardinality(keyed(gr.inFlightKey, k))
          /\ concurrencyLimit > 0 => gr.activeByKey[k] <= concurrencyLimit
    /\ \A t \in gr.inFlightKey : concurrencyKey[t] # NoKey

LEMMA SlotsOfGrain == SlotInv <=> SlotsOf(grain)
  BY DEF SlotInv, SlotsCounted, SlotsOf, keyed

LEMMA SameSlots ==
  ASSUME NEW gr, SlotsOf(gr), NEW new, new.activeByKey = gr.activeByKey, new.inFlightKey = gr.inFlightKey
  PROVE  SlotsOf(new)
  BY SMTT(40) DEF SlotsOf

\* The number of slots with key k after t takes one or gives one back.
LEMMA SlotCount ==
  ASSUME NEW S \in SUBSET Task, NEW t \in Task, NEW k
  PROVE  /\ Cardinality(keyed(S, k)) \in Nat
         /\ concurrencyKey[t] # k => keyed(S \cup {t}, k) = keyed(S, k) /\ keyed(S \ {t}, k) = keyed(S, k)
         /\ concurrencyKey[t] = k /\ t \notin S =>
               Cardinality(keyed(S \cup {t}, k)) = Cardinality(keyed(S, k)) + 1
         /\ concurrencyKey[t] = k /\ t \in S =>
               Cardinality(keyed(S \ {t}, k)) = Cardinality(keyed(S, k)) - 1
<1>1. IsFiniteSet(keyed(S, k))
  <2>1. keyed(S, k) \in SUBSET Task
    BY DEF keyed
  <2> QED
    BY <2>1, FS_Subset, DispatchAssumption
<1>2. Cardinality(keyed(S, k)) \in Nat
  BY <1>1, FS_CardinalityType
<1>3. keyed(S \cup {t}, k) = IF concurrencyKey[t] = k THEN keyed(S, k) \cup {t} ELSE keyed(S, k)
  BY DEF keyed
<1>4. keyed(S \ {t}, k) = IF concurrencyKey[t] = k THEN keyed(S, k) \ {t} ELSE keyed(S, k)
  BY DEF keyed
<1>5. concurrencyKey[t] = k => (t \in keyed(S, k) <=> t \in S)
  BY DEF keyed
<1>6. /\ t \notin keyed(S, k) => Cardinality(keyed(S, k) \cup {t}) = Cardinality(keyed(S, k)) + 1
      /\ t \in keyed(S, k) => Cardinality(keyed(S, k) \ {t}) = Cardinality(keyed(S, k)) - 1
  BY Zenon, <1>1, FS_AddElement, FS_RemoveElement
<1> QED
  BY SMTT(40), <1>2, <1>3, <1>4, <1>5, <1>6

\* A completion gives back the slot of its task, if the task holds one.
LEMMA ReleasedSlots ==
  ASSUME NEW gr \in GrainType, SlotsOf(gr), NEW t \in Task
  PROVE  SlotsOf(releaseConcurrencyKey(gr, t))
<1>1. CASE t \notin gr.inFlightKey
  BY SMTT(40), <1>1 DEF releaseConcurrencyKey
<1>2. CASE t \in gr.inFlightKey
  <2> DEFINE new == releaseConcurrencyKey(gr, t)
  <2>1. concurrencyKey[t] \in Key /\ gr.inFlightKey \in SUBSET Task /\ gr.activeByKey \in [Key -> Int]
    BY <1>2, DispatchAssumption DEF SlotsOf, GrainType
  <2>2. /\ new.inFlightKey = gr.inFlightKey \ {t}
        /\ new.activeByKey = [gr.activeByKey EXCEPT ![concurrencyKey[t]] = @ - 1]
    BY SMTT(40), <1>2 DEF releaseConcurrencyKey, GrainType
  <2> HIDE DEF new
  <2>3. ASSUME NEW k \in Key
        PROVE  /\ new.activeByKey[k] = Cardinality(keyed(new.inFlightKey, k))
               /\ concurrencyLimit > 0 => new.activeByKey[k] <= concurrencyLimit
    <3> DEFINE before == Cardinality(keyed(gr.inFlightKey, k))
               after == Cardinality(keyed(gr.inFlightKey \ {t}, k))
    <3>1. before \in Nat /\ after = IF concurrencyKey[t] = k THEN before - 1 ELSE before
      BY ZenonT(40), <1>2, <2>1, SlotCount
    <3>2. gr.activeByKey[k] = before /\ (concurrencyLimit > 0 => before <= concurrencyLimit)
      BY DEF SlotsOf
    <3>3. new.activeByKey[k] = IF k = concurrencyKey[t] THEN gr.activeByKey[k] - 1 ELSE gr.activeByKey[k]
      BY <2>1, <2>2
    <3>4. Cardinality(keyed(new.inFlightKey, k)) = after
      BY <2>2
    <3> HIDE DEF before, after
    <3> QED
      BY <3>1, <3>2, <3>3, <3>4, DispatchAssumption
  <2>4. \A u \in new.inFlightKey : concurrencyKey[u] # NoKey
    BY SMTT(40), <2>2 DEF SlotsOf
  <2> QED
    BY <2>3, <2>4 DEF SlotsOf, new
<1> QED
  BY <1>1, <1>2

\* A dispatch takes a slot for its task, unless the task holds one or has no key.
LEMMA TakenSlots ==
  ASSUME Shaped, SlotsOf(grain), NEW t \in Task, NEW g \in Gateway, ~saturated(t)
  PROVE  SlotsOf(dispatched(t, g))
<1> DEFINE new == dispatched(t, g)
<1>1. grain \in GrainType /\ grain.inFlightKey \in SUBSET Task /\ grain.activeByKey \in [Key -> Int]
  BY SMTT(40) DEF Shaped, GrainType
<1>2. /\ new.inFlightKey = IF concurrencyKey[t] = NoKey THEN grain.inFlightKey ELSE grain.inFlightKey \cup {t}
      /\ new.activeByKey = IF concurrencyKey[t] = NoKey \/ holdsSlot(t) THEN grain.activeByKey
                           ELSE [grain.activeByKey EXCEPT ![concurrencyKey[t]] = @ + 1]
  <2>1. CASE concurrencyKey[t] = NoKey
    BY <1>1, <2>1 DEF dispatched, GrainType
  <2>2. CASE concurrencyKey[t] # NoKey /\ holdsSlot(t)
    BY <1>1, <2>2 DEF dispatched, GrainType
  <2>3. CASE concurrencyKey[t] # NoKey /\ ~holdsSlot(t)
    BY SMTT(40), <1>1, <2>3 DEF dispatched, GrainType
  <2> QED
    BY Zenon, <2>1, <2>2, <2>3
<1> HIDE DEF new
<1>3. CASE concurrencyKey[t] = NoKey
  <2>1. new.activeByKey = grain.activeByKey /\ new.inFlightKey = grain.inFlightKey
    BY <1>2, <1>3
  <2>2. SlotsOf(new)
    BY Zenon, <2>1, SameSlots
  <2> QED
    BY ZenonT(40), <2>2 DEF new
<1>4. CASE concurrencyKey[t] # NoKey /\ t \in grain.inFlightKey
  <2>1. grain.inFlightKey \cup {t} = grain.inFlightKey
    BY ZenonT(40), <1>4
  <2> QED
    BY ZenonT(40), <1>2, <1>4, <2>1, SameSlots DEF new, holdsSlot
<1>5. CASE concurrencyKey[t] # NoKey /\ t \notin grain.inFlightKey
  <2>1. concurrencyKey[t] \in Key
    BY SMTT(40), <1>5, DispatchAssumption
  <2>2. /\ new.inFlightKey = grain.inFlightKey \cup {t}
        /\ new.activeByKey = [grain.activeByKey EXCEPT ![concurrencyKey[t]] = @ + 1]
    BY SMTT(40), <1>2, <1>5 DEF holdsSlot
  <2>3. concurrencyLimit > 0 => grain.activeByKey[concurrencyKey[t]] < concurrencyLimit
    BY SMTT(40), <1>1, <1>5, <2>1, DispatchAssumption DEF saturated, holdsSlot
  <2>4. ASSUME NEW k \in Key
        PROVE  /\ new.activeByKey[k] = Cardinality(keyed(new.inFlightKey, k))
               /\ concurrencyLimit > 0 => new.activeByKey[k] <= concurrencyLimit
    <3> DEFINE before == Cardinality(keyed(grain.inFlightKey, k))
               after == Cardinality(keyed(grain.inFlightKey \cup {t}, k))
    <3>1. before \in Nat /\ after = IF concurrencyKey[t] = k THEN before + 1 ELSE before
      BY Zenon, <1>1, <1>5, SlotCount
    <3>2. grain.activeByKey[k] = before /\ (concurrencyLimit > 0 => before <= concurrencyLimit)
      BY SMTT(40) DEF SlotsOf
    <3>3. new.activeByKey[k] = IF k = concurrencyKey[t] THEN grain.activeByKey[k] + 1 ELSE grain.activeByKey[k]
      BY SMTT(40), <1>1, <2>1, <2>2
    <3>4. Cardinality(keyed(new.inFlightKey, k)) = after
      BY SMTT(40), <2>2
    <3> HIDE DEF before, after
    <3> QED
      BY SMTT(40), <2>3, <3>1, <3>2, <3>3, <3>4, DispatchAssumption
  <2>5. \A u \in new.inFlightKey : concurrencyKey[u] # NoKey
    BY <1>5, <2>2 DEF SlotsOf
  <2> QED
    BY ZenonT(40), <2>4, <2>5 DEF SlotsOf, new
<1> QED
  BY SMTT(40), <1>3, <1>4, <1>5

LEMMA WakeSlots ==
  ASSUME NEW gr \in GrainType, SlotsOf(gr), maybeLease(gr, cycles)
  PROVE  SlotsOf(grain')
<1>1. LET new == [gr EXCEPT !.leasing = TRUE]
      IN  new.activeByKey = gr.activeByKey /\ new.inFlightKey = gr.inFlightKey
  BY DEF GrainType
<1>2. grain'.activeByKey = gr.activeByKey /\ grain'.inFlightKey = gr.inFlightKey
  BY ZenonT(40), <1>1, MaybeLeaseFacts
<1> QED
  BY <1>2, SameSlots

LEMMA SlotStep ==
  ASSUME Shaped, SlotInv, [Next]_vars
  PROVE  SlotInv'
<1>1. grain \in GrainType /\ SlotsOf(grain)
  BY SMTT(40), SlotsOfGrain DEF Shaped
<1> SUFFICES SlotsOf(grain')
  BY DEF SlotInv, SlotsCounted, SlotsOf, keyed
<1>2. CASE grain' = grain
  BY SMTT(40), <1>1, <1>2
<1>3. CASE GrainAction
  <2>1. CASE TasksAvailable
    BY SMTT(40), <1>1, <2>1, WakeSlots DEF TasksAvailable
  <2>2. CASE ResumeQueue
    <3> DEFINE gr == [grain EXCEPT !.paused = FALSE]
    <3>1. gr \in GrainType /\ gr.activeByKey = grain.activeByKey /\ gr.inFlightKey = grain.inFlightKey
      BY Zenon, <1>1 DEF GrainType
    <3>2. maybeLease(gr, cycles)
      BY <2>2 DEF ResumeQueue
    <3> HIDE DEF gr
    <3> QED
      BY SMTT(40), <1>1, <3>1, <3>2, SameSlots, WakeSlots
  <2>3. CASE endLeaseCycle
    BY SMTT(40), <1>1, <2>3, WakeSlots DEF endLeaseCycle
  <2>4. CASE OnActivate
    <3>1. grain'.inFlightKey = {} /\ grain'.activeByKey = [k \in Key |-> 0]
      BY <2>4 DEF OnActivate, activated
    <3>2. \A k \in Key : keyed(grain'.inFlightKey, k) = {}
      BY <3>1 DEF keyed
    <3>3. Cardinality({}) = 0
      BY FS_EmptySet
    <3> QED
      BY <3>1, <3>2, <3>3, DispatchAssumption DEF SlotsOf
  <2>5. CASE DrainQueue \/ (\E c \in cycles : finishLeaseCycle(c))
             \/ (\E lost \in SUBSET cycles : StatusFailure(lost))
    <3>1. \/ grain' = [grain EXCEPT !.paused = TRUE]
          \/ grain' = [grain EXCEPT !.leasing = FALSE]
      BY Zenon, <2>5 DEF DrainQueue, finishLeaseCycle, StatusFailure
    <3>2. grain'.activeByKey = grain.activeByKey /\ grain'.inFlightKey = grain.inFlightKey
      BY <1>1, <3>1 DEF GrainType
    <3> QED
      BY SMTT(40), <1>1, <3>2, SameSlots
  <2>6. CASE \E t \in Task : holdBack(t)
    BY <1>2, <2>6 DEF holdBack
  <2> QED
    BY SMTT(40), <1>3, <2>1, <2>2, <2>3, <2>4, <2>5, <2>6 DEF GrainAction
<1>4. ASSUME NEW g \in Gateway, ReceiveAction(g)
      PROVE  SlotsOf(grain')
  <2>1. refill(grain, g) \in GrainType
    BY <1>1, RefillType
  <2>2. SlotsOf(refill(grain, g))
    <3>1. /\ refill(grain, g).activeByKey = grain.activeByKey
          /\ refill(grain, g).inFlightKey = grain.inFlightKey
      BY <1>1 DEF refill, GrainType
    <3> QED
      BY <1>1, <3>1, SameSlots
  <2>3. CASE registerGateway(g)
    <3> DEFINE gr == IF g \in grain.gateways THEN grain
                     ELSE [grain EXCEPT !.gateways = @ \cup {g}, !.credits[g] = capacity[g]]
    <3>1. gr \in GrainType /\ gr.activeByKey = grain.activeByKey /\ gr.inFlightKey = grain.inFlightKey
      BY Zenon, <1>1, DispatchAssumption DEF GrainType
    <3>2. maybeLease(gr, cycles)
      BY <2>3 DEF registerGateway
    <3> HIDE DEF gr
    <3> QED
      BY <1>1, <3>1, <3>2, SameSlots, WakeSlots
  <2>4. CASE addCredits(g)
    BY SMTT(40), <2>1, <2>2, <2>4, WakeSlots DEF addCredits
  <2>5. CASE \E t \in Task : recordCompletion(g, t)
    <3> PICK t \in Task : recordCompletion(g, t)
      BY <2>5
    <3>1. /\ releaseConcurrencyKey(refill(grain, g), t) \in GrainType
          /\ SlotsOf(releaseConcurrencyKey(refill(grain, g), t))
      BY <2>1, <2>2, ReleaseKeyType, ReleasedSlots
    <3> QED
      BY <3>1, WakeSlots DEF recordCompletion
  <2> QED
    BY <1>4, <2>3, <2>4, <2>5 DEF ReceiveAction
<1>5. ASSUME NEW g \in Gateway, NEW t \in Task, tellGateway(t, g)
      PROVE  SlotsOf(grain')
  <2>1. CASE grain' = dispatched(t, g)
    BY <1>1, <1>5, <2>1, TakenSlots DEF tellGateway
  <2>2. CASE grain' = removeGateway(grain, g)
    BY Zenon, <1>1, <2>2, SameSlots DEF removeGateway, GrainType
  <2> QED
    BY <1>5, <2>1, <2>2 DEF tellGateway
<1>6. ASSUME NEW g \in Gateway, unregisterGateway(g)
      PROVE  SlotsOf(grain')
  BY ZenonT(40), <1>1, <1>6, SameSlots DEF unregisterGateway, removeGateway, GrainType
<1>7. PipedAction \/ OtherAction => grain' = grain
  BY ZenonT(40) DEF PipedAction, OtherAction, Lease, LeaseFails, releaseLeased, releaseFails, LoseReport,
         CancelActive, Enqueue, Reap, grainVars
<1>8. ASSUME NEW g \in Gateway, GatewayAction(g)
      PROVE  grain' = grain \/ unregisterGateway(g)
  BY Zenon, <1>8 DEF GatewayAction, PostStart, register, dispatch, cancelActive, credit, heartbeat, result,
              CloseStream, drain, Stop, NodeDeath, Shutdown, grainVars
<1>9. CASE Next
  BY SMTT(40), <1>2, <1>3, <1>4, <1>5, <1>6, <1>7, <1>8, <1>9, NextCases
<1>10. CASE UNCHANGED vars
  BY <1>2, <1>10 DEF vars, grainVars
<1> QED
  BY SMTT(40), <1>9, <1>10

\* Whatever fails, the keyed semaphore counts the tasks that hold its slots and
\* never exceeds the queue's limit.
THEOREM SlotsAlwaysCounted == Spec => []SlotsCounted
<1>1. Init => SlotInv
  <2> SUFFICES ASSUME Init PROVE SlotsOf(grain)
    BY SMTT(40), SlotsOfGrain
  <2>1. grain.inFlightKey = {} /\ grain.activeByKey = [k \in Key |-> 0]
    BY SMTT(40) DEF Init, activated
  <2>2. \A k \in Key : keyed(grain.inFlightKey, k) = {}
    BY <2>1 DEF keyed
  <2>3. Cardinality({}) = 0
    BY FS_EmptySet
  <2> QED
    BY <2>1, <2>2, <2>3, DispatchAssumption DEF SlotsOf
<1>2. Shaped /\ SlotInv /\ [Next]_vars => SlotInv'
  BY SlotStep
<1>3. SlotInv => SlotsCounted
  BY DEF SlotInv
<1> QED
  BY <1>1, <1>2, <1>3, ShapeKept, PTL DEF Spec

\* A lease has one owner and a slot one occupant, across crashes of the grain and
\* of gateways, lost results and lost reports.
THEOREM OwnershipAlwaysExact == Spec => []OwnershipExact
<1>1. DeliveredOnce /\ SlotsCounted => OwnershipExact
  BY DEF OwnershipExact
<1> QED
  BY <1>1, LeasesHeldOnce, SlotsAlwaysCounted, PTL

-----------------------------------------------------------------------------
(* The pause *)

\* None of the changes of QuietBoxes adds a delivery.
LEMMA QueuedShrinks ==
  ASSUME Shaped, NEW g \in Gateway,
         \/ mailbox'[g] = mailbox[g]
         \/ mailbox[g] # <<>> /\ mailbox'[g] = Tail(mailbox[g])
         \/ mailbox'[g] = <<>>
         \/ \E m \in Control : mailbox'[g] = Append(mailbox[g], m)
  PROVE  Cardinality(queued(g)') <= Cardinality(queued(g))
<1>1. mailbox[g] \in Seq(Message)
  BY DEF Shaped, Message
<1>2. IsFiniteSet(queued(g))
  <2>1. queued(g) \in SUBSET (1..Len(mailbox[g])) /\ Len(mailbox[g]) \in Int /\ 1 \in Int
    BY <1>1 DEF queued
  <2>2. IsFiniteSet(1..Len(mailbox[g]))
    BY <2>1, FS_Interval
  <2> QED
    BY Zenon, <2>1, <2>2, FS_Subset
<1>3. Cardinality(queued(g)) \in Nat
  BY <1>2, FS_CardinalityType
<1>4. CASE mailbox'[g] = mailbox[g]
  <2>1. queued(g)' = queued(g)
    BY <1>4 DEF queued
  <2> QED
    BY <1>3, <2>1
<1>5. CASE mailbox[g] # <<>> /\ mailbox'[g] = Tail(mailbox[g])
  <2> DEFINE f == [i \in queued(g)' |-> i + 1]
  <2>1. \A i \in DOMAIN Tail(mailbox[g]) : /\ i + 1 \in DOMAIN mailbox[g]
                                           /\ Tail(mailbox[g])[i] = mailbox[g][i + 1]
        /\ \A j \in DOMAIN Tail(mailbox[g]) : i + 1 = j + 1 => i = j
    BY <1>1, <1>5, TailFacts
  <2>2. \A i \in queued(g)' : i + 1 \in queued(g)
    BY SMTT(40), <1>5, <2>1 DEF queued
  <2>3. \A i, j \in queued(g)' : i + 1 = j + 1 => i = j
    BY <1>5, <2>1 DEF queued
  <2>4. f \in Injection(queued(g)', queued(g))
    BY <2>2, <2>3 DEF Injection, IsInjective
  <2> QED
    BY <1>2, <2>4, FS_Injection
<1>6. CASE mailbox'[g] = <<>>
  <2>1. queued(g)' = {}
    BY SMTT(40), <1>6 DEF queued
  <2>2. Cardinality({}) = 0
    BY FS_EmptySet
  <2> QED
    BY <1>3, <2>1, <2>2
<1>7. CASE \E m \in Control : mailbox'[g] = Append(mailbox[g], m)
  <2> PICK m \in Control : mailbox'[g] = Append(mailbox[g], m)
    BY <1>7
  <2>1. m \in Message /\ m.kind # "ExecuteTask"
    BY SMTT(40) DEF Message, Control
  <2> DEFINE last == Len(mailbox[g]) + 1
  <2>2. /\ DOMAIN mailbox'[g] = DOMAIN mailbox[g] \cup {last}
        /\ mailbox'[g][last] = m
        /\ \A i \in DOMAIN mailbox[g] : mailbox'[g][i] = mailbox[g][i]
    BY SMTT(40), <1>1, <2>1, AppendFacts
  <2> HIDE DEF last
  <2>3. queued(g)' = queued(g)
    BY <2>1, <2>2 DEF queued
  <2> QED
    BY SMTT(40), <1>3, <2>3
<1> QED
  BY SMTT(40), <1>4, <1>5, <1>6, <1>7

\* While the queue is paused no mailbox gains a delivery, whatever lease cycle,
\* crash or activation the pause overtakes.
THEOREM PauseHolds == Spec => PausedQueueHolds
<1>1. Init => PauseInv
  <2> SUFFICES ASSUME Init PROVE PauseInv
    OBVIOUS
  <2>1. grain.paused = FALSE /\ queuePaused = FALSE
    BY Zenon DEF Init, activated
  <2> QED
    BY ZenonT(40), <2>1 DEF PauseInv
<1>2. Shaped /\ PauseInv /\ [Next]_vars => PauseInv'
  BY PauseStays
<1>3. Shaped /\ PauseInv /\ [Next]_vars =>
         [queuePaused => \A g \in Gateway : Cardinality(queued(g)') <= Cardinality(queued(g))]_vars
  <2> SUFFICES ASSUME Shaped, PauseInv, [Next]_vars, queuePaused, NEW g \in Gateway
               PROVE  Cardinality(queued(g)') <= Cardinality(queued(g))
    OBVIOUS
  <2>1. turn.todo = {}
    BY IdleType DEF PauseInv, idle
  <2>2. ~\E h \in Gateway, t \in Task : tellGateway(t, h)
    BY SMTT(40), <2>1 DEF tellGateway
  <2> QED
    BY Zenon, <2>2, QuietBoxes, QueuedShrinks
<1> QED
  BY <1>1, <1>2, <1>3, ShapeKept, PTL DEF Spec, PausedQueueHolds
=============================================================================
