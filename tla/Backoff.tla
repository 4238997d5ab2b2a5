------------------------------- MODULE Backoff --------------------------------
(***************************************************************************)
(* Retry spacing: the options a producer sets in the SDK, the policy they  *)
(* become on the wire, the strategy a gateway resolves from it and from    *)
(* the server's default, and the delay of each retry of one task           *)
(* (internal/backoff, sdks/go/client.go, internal/actors/gateway.go).      *)
(*                                                                         *)
(* A duration is a signed integer of Width bits, 64 in the code.           *)
(***************************************************************************)
EXTENDS Integers

CONSTANTS
    Width,      \* bits of a duration
    Duration,   \* the durations that may be named, all below 2^(Width - 2): 146 years
    MaxRetry    \* bound on the retries of the task

VARIABLES
    server,    \* the server's default strategy
    options,   \* what the producer asked for
    retried,   \* failures so far
    delay      \* the delay before the latest retry

retryVars == <<server, options, retried, delay>>

Kind == {"exponential", "linear", "fixed"}
Strategy == [kind : Kind, base : Duration, max : Duration]

wrapped(n) == LET low == n % 2^Width IN IF low >= 2^(Width - 1) THEN low - 2^Width ELSE low
lesser(a, b) == IF a < b THEN a ELSE b

\* The default passes validateRetryBackoff: a known kind, a positive base and a
\* cap no smaller.
validateRetryBackoff(s) == s.kind \in Kind /\ s.base > 0 /\ s.max >= s.base

\* retryPolicyToProto: no policy when nothing is overridden, and no field for a
\* duration that is not positive.
retryPolicyToProto(o) ==
    IF o.kind = "default" /\ o.base <= 0 /\ o.max <= 0 THEN {}
    ELSE {[kind |-> IF o.kind = "default" THEN "unspecified" ELSE o.kind,
           base |-> IF o.base > 0 THEN o.base ELSE 0,
           max |-> IF o.max > 0 THEN o.max ELSE 0]}

\* retryStrategyFor: each field left unset falls back to the default's.
retryStrategyFor(default, policy) ==
    IF policy = {} THEN default
    ELSE LET p == CHOOSE p \in policy : TRUE
         IN  [kind |-> IF p.kind \in Kind THEN p.kind ELSE default.kind,
              base |-> IF p.base > 0 THEN p.base ELSE default.base,
              max |-> IF p.max > 0 THEN p.max ELSE default.max]

\* Mutant: the product is bounded once it is computed.
scaledThenBounded(s, factor) ==
    IF s.base <= 0 \/ factor <= 0 THEN s.max
    ELSE lesser(wrapped(s.base * factor), s.max)

\* scaled tests the factor against the cap before it multiplies.
scaled(s, factor) ==
    IF s.base <= 0 \/ factor <= 0 \/ factor > s.max \div s.base THEN s.max
    ELSE s.base * factor

\* The exponential ceiling shifts in Width bits and keeps what is positive and
\* below the cap.
ceiling(s, n) ==
    CASE s.kind = "linear" -> scaled(s, n + 1)
      [] s.kind = "fixed" -> lesser(s.base, s.max)
      [] OTHER ->
           LET shifted == wrapped(s.base * 2^n)
           IN  IF n < Width - 2 /\ shifted > 0 /\ shifted < s.max THEN shifted ELSE s.max

\* The delays Delay may return: the ceiling itself when fixed, else any below it.
Delay(s, n) ==
    LET top == ceiling(s, n)
    IN  IF top <= 0 THEN {0} ELSE IF s.kind = "fixed" THEN {top} ELSE 0..(top - 1)

strategy == retryStrategyFor(server, retryPolicyToProto(options))

Init ==
    /\ server \in {s \in Strategy : validateRetryBackoff(s)}
    /\ options \in [kind : Kind \cup {"default"}, base : Duration, max : Duration]
    /\ retried = 0
    /\ delay = 0

\* A failed attempt waits its delay, of which the extremes are enough, and is
\* retried.
retry ==
    /\ retried < MaxRetry
    /\ delay' \in Delay(strategy, retried) \cap {0, ceiling(strategy, retried) - 1,
                                                  ceiling(strategy, retried)}
    /\ retried' = retried + 1
    /\ UNCHANGED <<server, options>>

Next == retry

Spec == Init /\ [][Next]_retryVars

(***************************************************************************)
(* Properties                                                              *)
(***************************************************************************)
growth(kind, n) == CASE kind = "exponential" -> 2^n [] kind = "linear" -> n + 1 [] OTHER -> 1

\* Whatever the producer overrides, a retry waits no longer than the cap that
\* applies to the task and, once the base is below the cap, no longer than the
\* growth of its kind gives.
DelayWithinGrowth ==
    LET cap == IF options.max > 0 THEN options.max ELSE server.max
        base == IF options.base > 0 THEN options.base ELSE server.base
        kind == IF options.kind = "default" THEN server.kind ELSE options.kind
    IN  retried > 0 => delay \in 0..lesser(base * growth(kind, retried - 1), cap)

\* Where the growth of a kind fits the width of a duration, and for the linear
\* and fixed kinds even where it does not, the ceiling is exactly the growth
\* bounded by the cap: an overflow never shortens it.
CeilingIsExact ==
    LET s == strategy
        grown == s.base * growth(s.kind, retried)
    IN  s.kind # "exponential" \/ grown < 2^(Width - 1) =>
            ceiling(s, retried) = lesser(grown, s.max)

\* The delay of a retry follows the policy in force for its task, at any width.
DelayFollowsPolicy == DelayWithinGrowth /\ CeilingIsExact
=============================================================================
