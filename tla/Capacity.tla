------------------------------- MODULE Capacity -------------------------------
(***************************************************************************)
(* The arithmetic of dispatch capacity, shared by the two gateway kinds    *)
(* and their queue grains: how a worker's concurrency is split across the  *)
(* queues it serves (splitCapacity), and how a grain keeps the credits it  *)
(* may spend on one gateway (gatewayCredits).                              *)
(*                                                                         *)
(* A queue name is a number: only the order of names matters here.  A      *)
(* gateway the grain does not know is the entry of capacity zero, because  *)
(* registering either grants exactly the announced capacity.               *)
(***************************************************************************)
EXTENDS Integers, FiniteSetsExt

least(a, b) == IF a < b THEN a ELSE b

\* max(weights[queue], 1): a missing or non-positive weight counts as one.
neutral(weight) == IF weight < 1 THEN 1 ELSE weight

\* splitCapacity: one slot reserved per queue, the rest by weight, and what the
\* division leaves over to the largest remainders, ties by queue name.
splitCapacity(concurrency, weights) ==
  LET queues == DOMAIN weights
      spare == concurrency - Cardinality(queues)
      total == MapThenSumSet(LAMBDA q : neutral(weights[q]), queues)
      product(q) == spare * neutral(weights[q])
      base(q) == product(q) \div total
      remainder(q) == product(q) % total
      leftover == spare - MapThenSumSet(LAMBDA q : base(q), queues)
      ahead(q) == {p \in queues : \/ remainder(p) > remainder(q)
                                  \/ remainder(p) = remainder(q) /\ p < q}
  IN  [q \in queues |->
         IF spare <= 0 THEN 1
         ELSE 1 + base(q) + (IF Cardinality(ahead(q)) < leftover THEN 1 ELSE 0)]

\* registerGateway: a shrink clamps the credits, a growth grants the difference,
\* a steady re-registration changes nothing.
registered(entry, capacity) ==
  [capacity |-> capacity,
   credits |->
     CASE capacity < entry.capacity -> least(entry.credits, capacity)
       [] capacity > entry.capacity ->
            least(entry.credits + capacity - entry.capacity, capacity)
       [] OTHER -> entry.credits]

\* addCredits, recordCompletion and recordBatchCompletion: returned credits
\* never lift the entry above its capacity.
refilled(entry, credits) ==
  [entry EXCEPT !.credits = least(@ + credits, entry.capacity)]

Unregistered == [capacity |-> 0, credits |-> 0]

-------------------------------------------------------------------------------
(* Smooth weighted round-robin over the gateways the grain may use.         *)

\* selectWeightedGateway: each eligible gateway, in registration order, adds its
\* weight to its accumulator; the first to hold the largest is selected and pays
\* the eligible total.  eligible is a set of positions of the sequence.
selected(accumulators, weights, eligible) ==
  LET raised(i) == accumulators[i] + weights[i]
  IN  CHOOSE i \in eligible :
        \A j \in eligible : raised(i) > raised(j) \/ (raised(i) = raised(j) /\ i <= j)

\* Mutant: the winner pays the weight of every registered gateway.
selectWeightedGatewayPayingAll(accumulators, weights, eligible) ==
  LET winner == selected(accumulators, weights, eligible)
      total == MapThenSumSet(LAMBDA i : weights[i], DOMAIN weights)
  IN  [i \in DOMAIN accumulators |->
         accumulators[i] + (IF i \in eligible THEN weights[i] ELSE 0)
                         - (IF i = winner THEN total ELSE 0)]

selectWeightedGateway(accumulators, weights, eligible) ==
  LET winner == selected(accumulators, weights, eligible)
      total == MapThenSumSet(LAMBDA i : weights[i], eligible)
  IN  [i \in DOMAIN accumulators |->
         accumulators[i] + (IF i \in eligible THEN weights[i] ELSE 0)
                         - (IF i = winner THEN total ELSE 0)]
===============================================================================
