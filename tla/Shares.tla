-------------------------------- MODULE Shares --------------------------------
(***************************************************************************)
(* The shares of a worker and of a queue: a worker's concurrency split     *)
(* across its queues (splitCapacity), and the dispatches of a queue        *)
(* spread over its gateways by weight (selectWeightedGateway) while        *)
(* gateways run out of credits and get them back.                          *)
(***************************************************************************)
EXTENDS Capacity, Sequences

CONSTANTS
    Concurrency,   \* the concurrencies a worker may announce
    Weights,       \* the weights of its queues, or of a queue's gateways
    MaxPicks       \* bound on the dispatches

VARIABLES
    concurrency,
    weights,
    accumulators,
    picks,         \* how often each gateway was selected
    always         \* every gateway had credits at every selection so far

shareVars == <<concurrency, weights, accumulators, picks, always>>

Init ==
    /\ concurrency \in Concurrency
    /\ weights \in Weights
    /\ accumulators = [i \in DOMAIN weights |-> 0]
    /\ picks = [i \in DOMAIN weights |-> 0]
    /\ always = TRUE

sum(f) == MapThenSumSet(LAMBDA i : f[i], DOMAIN f)

\* One dispatch among the gateways that hold a credit.
dispatch(eligible) ==
    /\ sum(picks) < MaxPicks
    /\ accumulators' = selectWeightedGateway(accumulators, weights, eligible)
    /\ picks' = [picks EXCEPT ![selected(accumulators, weights, eligible)] = @ + 1]
    /\ always' = (always /\ eligible = DOMAIN weights)
    /\ UNCHANGED <<concurrency, weights>>

Next == \E eligible \in (SUBSET DOMAIN weights) \ {{}} : dispatch(eligible)

Spec == Init /\ [][Next]_shareVars

(***************************************************************************)
(* Properties                                                              *)
(***************************************************************************)
\* splitCapacity hands out exactly the worker's concurrency, at least one slot
\* to each queue, and every queue is within one slot of its weighted share.
SplitIsProportional ==
    LET split == splitCapacity(concurrency, weights)
        spare == concurrency - Cardinality(DOMAIN weights)
        total == sum(weights)
    IN  /\ sum(split) = concurrency + (IF spare < 0 THEN -spare ELSE 0)
        /\ \A q \in DOMAIN weights :
             /\ split[q] >= 1
             /\ spare > 0 => LET off == (split[q] - 1) * total - spare * weights[q]
                             IN  -total < off /\ off < total

\* The accumulators sum to zero whichever gateways were eligible, so a gateway
\* that was left out comes back with no debt and no credit of its own making.
AccumulatorsSumToZero == sum(accumulators) = 0

\* While every gateway has credits, each is selected within one dispatch of its
\* weighted share of the dispatches so far.
SelectionIsProportional ==
    always => \A i \in DOMAIN weights :
        LET off == picks[i] * sum(weights) - sum(picks) * weights[i]
        IN  -sum(weights) < off /\ off < sum(weights)

\* Workers and queues get their weighted shares, to within one.
SharesProportional == SplitIsProportional /\ AccumulatorsSumToZero /\ SelectionIsProportional
===============================================================================
