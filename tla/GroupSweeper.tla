---------------------------- MODULE GroupSweeper ----------------------------
(***************************************************************************)
(* When an aggregation group fires: the GroupSweeper actor (group.go) with *)
(* the group statistics and overrides it reads from the broker.            *)
(*                                                                         *)
(* One queue.  Time is the age of each aggregating member and of the last  *)
(* sweep tick, in units; an age stops counting at MaxAge, above every      *)
(* threshold.  A FireGroup message is handled within the unit in which it  *)
(* is sent, or lost; a sweep that fails, or loses its messages, is one     *)
(* missed pass.  (What the grain does with the message: module Batches.)   *)
(***************************************************************************)
EXTENDS Integers, FiniteSetsExt

CONSTANTS
    Member,     \* task ids
    Group,      \* group names
    groupOf,    \* the group of each member
    AnyGroup,   \* "", the group of a queue-wide override
    Config,     \* thresholds: max size, max delay, grace period
    settings,   \* the server's global thresholds, one of Config
    NoConfig,   \* no override
    Interval,   \* Settings.GroupSweepInterval
    MaxMissed,  \* bound: passes in a row that may be missed
    MaxAge      \* bound: ages are counted up to here

VARIABLES
    age,           \* of each member in the log, by its enqueue time; or Absent
    groupConfigs,  \* the broker's overrides
    sinceTick,     \* units since the last GroupSweepTick
    missed,        \* passes missed in a row
    fired          \* FireGroup messages on their way: group and limit

vars == <<age, groupConfigs, sinceTick, missed, fired>>

Absent == -1

aggregating(g) == {m \in Member : groupOf[m] = g /\ age[m] # Absent}

\* GroupStats: one entry for each group with an aggregating member.
GroupStats ==
    {[group |-> g, count |-> Cardinality(aggregating(g)),
      oldest |-> Max({age[m] : m \in aggregating(g)}),
      newest |-> Min({age[m] : m \in aggregating(g)})] : g \in {h \in Group : aggregating(h) # {}}}

\* The group's own override wins, then the queue-wide one, then the server's.
effectiveGroupConfig(g, overrides) ==
    CASE overrides[g] # NoConfig -> overrides[g]
      [] overrides[g] = NoConfig /\ overrides[AnyGroup] # NoConfig -> overrides[AnyGroup]
      [] OTHER -> settings

\* Mutant: every new member restarts the delay.
groupDueByNewest(stat, config) ==
    \/ stat.count >= config.maxSize
    \/ stat.newest >= config.maxDelay
    \/ stat.newest >= config.gracePeriod

groupDue(stat, config) ==
    \/ stat.count >= config.maxSize
    \/ stat.oldest >= config.maxDelay
    \/ stat.newest >= config.gracePeriod

NoOverrides == [g \in Group \cup {AnyGroup} |-> NoConfig]

\* The messages of one pass over the overrides it read.
due(overrides) ==
    {[group |-> s.group, limit |-> effectiveGroupConfig(s.group, overrides).maxSize] :
        s \in {r \in GroupStats : groupDue(r, effectiveGroupConfig(r.group, overrides))}}

\* sweep: fires every due group; overrides that cannot be read fall back to the
\* global thresholds.
sweep ==
    /\ sinceTick = Interval
    /\ sinceTick' = 0
    /\ missed' = 0
    /\ \E overrides \in {groupConfigs, NoOverrides} : fired' = fired \cup due(overrides)
    /\ UNCHANGED <<age, groupConfigs>>

\* GroupStats fails: the pass is skipped, the next tick retries.
sweepFails ==
    /\ sinceTick = Interval
    /\ missed < MaxMissed
    /\ sinceTick' = 0
    /\ missed' = missed + 1
    /\ UNCHANGED <<age, groupConfigs, fired>>

\* The grain takes the oldest members, up to the limit the message carries.
LeaseGroup(m) ==
    /\ m \in fired
    /\ \E S \in SUBSET aggregating(m.group) :
           /\ Cardinality(S) = Min({m.limit, Cardinality(aggregating(m.group))})
           /\ \A x \in S : \A y \in aggregating(m.group) \ S : age[x] >= age[y]
           /\ age' = [x \in Member |-> IF x \in S THEN Absent ELSE age[x]]
    /\ fired' = fired \ {m}
    /\ UNCHANGED <<groupConfigs, sinceTick, missed>>

Enqueue(m) ==
    /\ age[m] = Absent
    /\ age' = [age EXCEPT ![m] = 0]
    /\ UNCHANGED <<groupConfigs, sinceTick, missed, fired>>

\* SetGroupConfig and DeleteGroupConfig, for one group or for the queue.
SetGroupConfig(g, config) ==
    /\ groupConfigs[g] # config
    /\ groupConfigs' = [groupConfigs EXCEPT ![g] = config]
    /\ UNCHANGED <<age, sinceTick, missed, fired>>

Tick ==
    /\ sinceTick < Interval
    /\ fired = {}
    /\ sinceTick' = sinceTick + 1
    /\ age' = [m \in Member |-> IF age[m] = Absent THEN Absent ELSE Min({age[m] + 1, MaxAge})]
    /\ UNCHANGED <<groupConfigs, missed, fired>>

Init ==
    /\ age = [m \in Member |-> Absent]
    /\ groupConfigs = NoOverrides
    /\ sinceTick = 0
    /\ missed = 0
    /\ fired = {}

Next ==
    \/ sweep \/ sweepFails \/ Tick
    \/ \E m \in fired : LeaseGroup(m)
    \/ \E m \in Member : Enqueue(m)
    \/ \E g \in Group \cup {AnyGroup} : \E c \in Config \cup {NoConfig} : SetGroupConfig(g, c)

Spec == Init /\ [][Next]_vars

(***************************************************************************)
(* Properties                                                              *)
(***************************************************************************)
\* The thresholds that may have been in force for a member that waits, and the
\* batches the members of the model may fill.
LongestDelay == Max({c.maxDelay : c \in Config})
Batches == LET size == Min({c.maxSize : c \in Config}) IN (Cardinality(Member) + size - 1) \div size

\* A steady stream of members never holds back the first of them: however
\* members arrive, overrides change or cannot be read, a member waits no longer
\* than the longest delay in use plus, for each batch it may have to wait for,
\* one interval and the passes that may be missed.
WaitBounded ==
    \A m \in Member : age[m] <= LongestDelay + Batches * Interval * (1 + MaxMissed)

\* A group's own override decides when it fires: while the group has reached no
\* threshold of it, nor a global one (for the passes that cannot read the
\* overrides), no pass fires the group, whatever the queue-wide override says.
OwnOverrideStep ==
    \A g \in Group :
        /\ groupConfigs[g] # NoConfig
        /\ \A s \in GroupStats : s.group = g => ~groupDue(s, groupConfigs[g]) /\ ~groupDue(s, settings)
        => \A f \in fired' \ fired : f.group # g

\* A group fires in time and not before it is due (sweep, groupDue,
\* effectiveGroupConfig).
FiresOnTimeStep == WaitBounded' /\ OwnOverrideStep
=============================================================================
