------------------------------- MODULE Throttle -------------------------------
(***************************************************************************)
(* The dispatch rate of one queue: a token bucket kept by the queue grain  *)
(* (internal/actors/queue_grain.go), read when a lease cycle starts and    *)
(* spent when it completes, while an operator may change the limit and the *)
(* grain may be activated anew in between.                                 *)
(*                                                                         *)
(* The bucket is a set of at most one limiter; without one the queue is    *)
(* unlimited.  Tokens are whole: a tick is the time one refill takes.      *)
(***************************************************************************)
EXTENDS Integers

CONSTANTS
    Limit,       \* the rate and burst pairs that may be set
    Default,     \* the server's own pair
    LeaseMax,    \* LeaseBatchMax
    MaxTicks, MaxChanges

VARIABLES
    limiter,     \* the token bucket
    cycle,       \* the lease cycle in flight: its limit, and whether it read this bucket
    spent,       \* dispatches that count against this bucket
    allowed,     \* what the bucket has held since it was built
    ticks, changes

rateVars == <<limiter, cycle, spent, allowed, ticks, changes>>

\* A rate and a burst are numbers of any sign, which buildLimiter tells apart.
Numbers == Limit \cup {Default} \subseteq [rate : Int, burst : Int] /\ LeaseMax \in Int

smaller(a, b) == IF a < b THEN a ELSE b

\* buildLimiter: a full bucket, or none when the limit is unset or invalid.
buildLimiter(l) ==
    IF l.rate <= 0 \/ l.burst < 1 THEN {}
    ELSE {[rate |-> l.rate, burst |-> l.burst, tokens |-> l.burst]}

\* Activation and a change both start a bucket afresh; a cycle in flight goes on.
rebuilt(l) ==
    /\ limiter' = buildLimiter(l)
    /\ cycle' = {[c EXCEPT !.metered = FALSE] : c \in cycle}
    /\ spent' = 0
    /\ allowed' = IF limiter' = {} THEN 0 ELSE l.burst

RateInit ==
    /\ limiter = buildLimiter(Default)
    /\ cycle = {}
    /\ spent = 0
    /\ allowed = IF limiter = {} THEN 0 ELSE Default.burst
    /\ ticks = 0 /\ changes = 0

\* A rate that is not positive clears the override: the default applies.
applyRateLimitChange(l) ==
    /\ changes < MaxChanges
    /\ changes' = changes + 1
    /\ rebuilt(IF l.rate <= 0 THEN Default ELSE l)
    /\ UNCHANGED ticks

\* A grain that passivated loads the override, or the default, again.
loadRateLimit(override) ==
    /\ changes < MaxChanges
    /\ changes' = changes + 1
    /\ \E l \in override \cup (IF override = {} THEN {Default} ELSE {}) : rebuilt(l)
    /\ UNCHANGED ticks

refill ==
    /\ ticks < MaxTicks
    /\ ticks' = ticks + 1
    /\ limiter' = {[l EXCEPT !.tokens = smaller(@ + l.rate, l.burst)] : l \in limiter}
    /\ allowed' = IF limiter = {} THEN 0 ELSE allowed + (CHOOSE l \in limiter : TRUE).rate
    /\ UNCHANGED <<cycle, spent, changes>>

\* maybeLease: no cycle in flight, credits to spend, and the bucket not drained;
\* the cycle leases no more than the bucket holds.
maybeLease(credits) ==
    /\ cycle = {}
    /\ \A l \in limiter : l.tokens > 0
    /\ LET limit == smaller(credits, LeaseMax)
       IN  cycle' = {[limit |-> IF limiter = {} THEN limit
                               ELSE smaller(limit, (CHOOSE l \in limiter : TRUE).tokens),
                      metered |-> TRUE]}
    /\ UNCHANGED <<limiter, spent, allowed, ticks, changes>>

\* ReserveN takes its tokens, or none when it asks for more than the burst.
ReserveN(l, n) == IF n > l.burst THEN l ELSE [l EXCEPT !.tokens = @ - n]

\* Mutant: the reservation is not clamped to the burst.
finishLeaseCycleUnclamped(dispatched) ==
    \E c \in cycle :
        /\ dispatched <= c.limit
        /\ cycle' = {}
        /\ limiter' = {ReserveN(l, dispatched) : l \in limiter}
        /\ spent' = IF limiter = {} THEN 0
                    ELSE spent + (IF c.metered THEN dispatched
                                  ELSE smaller(dispatched, (CHOOSE l \in limiter : TRUE).burst))
        /\ UNCHANGED <<allowed, ticks, changes>>

\* finishLeaseCycle spends a token per dispatched task, clamped to the burst of
\* the bucket that is there now.
finishLeaseCycle(dispatched) ==
    \E c \in cycle :
        /\ dispatched <= c.limit
        /\ cycle' = {}
        /\ limiter' = {ReserveN(l, smaller(dispatched, l.burst)) : l \in limiter}
        /\ spent' = IF limiter = {} THEN 0
                    ELSE spent + (IF c.metered THEN dispatched
                                  ELSE smaller(dispatched, (CHOOSE l \in limiter : TRUE).burst))
        /\ UNCHANGED <<allowed, ticks, changes>>

RateNext ==
    \/ \E l \in Limit : applyRateLimitChange(l) \/ loadRateLimit({l})
    \/ loadRateLimit({})
    \/ refill
    \/ \E credits \in 1..LeaseMax + 1 : maybeLease(credits)
    \/ \E dispatched \in 0..LeaseMax : finishLeaseCycle(dispatched)

RateSpec == RateInit /\ [][RateNext]_rateVars

(***************************************************************************)
(* Properties                                                              *)
(***************************************************************************)
\* "The reservation never waits" (finishLeaseCycle): whatever changes while a
\* cycle is in flight, no reservation drives a bucket below zero, so none
\* delays the cycles after it.
ReservationNeverWaits == \A l \in limiter : l.tokens >= 0

\* A bucket admits no more than its burst and its refills.  A cycle leased
\* before the bucket was built counts up to the burst: what it leased beyond is
\* the one excess a change allows.
RateHolds == limiter # {} => spent <= allowed

\* A queue dispatches within its rate, and a reservation never costs a later cycle.
ThrottleHolds == ReservationNeverWaits /\ RateHolds
===============================================================================
