--------------------------- MODULE MCMemoryBroker ---------------------------
(***************************************************************************)
(* Small instances of MemoryBroker for TLC.  A behaviour follows one       *)
(* scenario from its first step to its last: the envelopes clients enqueue,*)
(* the operations called on them, and how far the clock and the leases go. *)
(***************************************************************************)
EXTENDS MemoryBroker, Sequences

VARIABLE scenario

mcVars == <<vars, scenario>>

\* An envelope with every option at its default.
Plain(t) ==
    [id |-> t, queue |-> "q", group |-> NoGroup, priority |-> 4, processAt |-> NoTime,
     expiresAt |-> NoTime, retention |-> 0, maxRetry |-> 1, uniqueKey |-> NoKey,
     uniqueTtl |-> 0, dependsOn |-> NoDeps]

On(d, policy) == [t \in TaskID |-> IF t = d THEN policy ELSE "NONE"]
Grouped(t) == [Plain(t) EXCEPT !.group = "g"]
Keyed(t, ttl) == [Plain(t) EXCEPT !.uniqueKey = "k", !.uniqueTtl = ttl]

\* Dependencies: 2 waits for 1, and 3 for 2 or for both.
DepsEnvelopes ==
    {Plain(1)}
    \cup {[Plain(2) EXCEPT !.dependsOn = On(1, p)] : p \in {"BLOCK", "CASCADE_CANCEL"}}
    \cup {[Plain(3) EXCEPT !.dependsOn = On(2, "CASCADE_CANCEL")],
          [Plain(3) EXCEPT !.dependsOn =
              [t \in TaskID |-> IF t = 1 THEN "CONTINUE" ELSE On(2, "CONTINUE")[t]]]}

EnvelopesOf ==
    [leases |-> {[Plain(1) EXCEPT !.expiresAt = 3], [Plain(1) EXCEPT !.processAt = 2]},
     unique |-> {Keyed(t, 1) : t \in TaskID} \cup {Keyed(3, 0), Plain(2)},
     group |-> {Grouped(1), Grouped(2), [Grouped(2) EXCEPT !.expiresAt = 2]},
     revive |-> DepsEnvelopes,
     remove |-> DepsEnvelopes]

BatchesOf ==
    [leases |-> {},
     unique |-> {<<Keyed(1, 1), Keyed(2, 1)>>, <<Keyed(1, 1), Keyed(1, 1)>>, <<Plain(2), Keyed(3, 0)>>},
     group |-> {<<Grouped(1), Grouped(2)>>},
     revive |-> {},
     remove |-> {}]

LastTick == [leases |-> 4, unique |-> 2, group |-> 3, revive |-> 1, remove |-> 2]
LastLease == [leases |-> 3, unique |-> 1, group |-> 2, revive |-> 3, remove |-> 1]

AllEnvelopes == UNION {EnvelopesOf[s] : s \in DOMAIN EnvelopesOf}
AllBatches == UNION {BatchesOf[s] : s \in DOMAIN BatchesOf}

\* What every scenario does: enqueue, claim, let time pass.
Common ==
    \/ \E e \in EnvelopesOf[scenario] : Enqueue(e)
    \/ \E b \in BatchesOf[scenario] : EnqueueBatch(b)
    \/ leaseSeq < LastLease[scenario] /\ Leasing
    \/ now < LastTick[scenario] /\ Tick

Settling == \E t \in TaskID : \E lease \in grants[t] : Ack(t, lease) \/ Archive(t, lease)

\* The operations that move the tasks of a dependency graph to their outcomes.
Graph ==
    \/ Settling
    \/ \E limit \in Limits : PromoteReadyDependents(limit) \/ ArchiveExpired(limit)
    \/ \E t \in TaskID : ResolveDependents(t) \/ CancelTask(t)

\* One task through every operation; unique keys; groups.
LeaseNext ==
    /\ UNCHANGED scenario
    /\ \/ ~sweep.held /\ Common
       \/ ~sweep.held /\ scenario = "leases" /\ (LeaseHolders \/ Maintenance \/ Operators)
       \/ ~sweep.held /\ scenario = "group" /\ (LeaseHolders \/ \E limit \in Limits : ArchiveExpired(limit))
       \/ /\ ~sweep.held /\ scenario = "unique"
          /\ \/ Settling
             \/ \E limit \in Limits : PurgeTerminal(limit)
             \/ \E t \in TaskID : CancelTask(t) \/ DeleteTask(t) \/ RunTaskNow(t)
       \/ sweep.held /\ (SweepResolve \/ SweepBackstop)

LeaseInit == New /\ scenario \in {"leases", "unique", "group"}
LeaseSpec == LeaseInit /\ [][LeaseNext]_mcVars

\* A dependency graph whose tasks operators dead-letter and run again, or
\* whose rows are purged and deleted while others depend on them.
DepsNext ==
    /\ UNCHANGED scenario
    /\ \/ ~sweep.held /\ (Common \/ Graph)
       \/ ~sweep.held /\ scenario = "revive" /\ \E t \in TaskID : RunTaskNow(t) \/ ArchiveTask(t)
       \/ /\ ~sweep.held /\ scenario = "remove"
          /\ \/ \E t \in TaskID : DeleteTask(t)
             \/ \E limit \in Limits : PurgeTerminal(limit)
       \/ sweep.held /\ (SweepResolve \/ SweepBackstop)

DepsInit == New /\ scenario \in {"revive", "remove"}
DepsSpec == DepsInit /\ [][DepsNext]_mcVars

\* Liveness: the graph moves and the reaper sweeps, but no gateway asks for a
\* resolution.
LiveNext ==
    /\ UNCHANGED scenario
    /\ \/ ~sweep.held /\ (Common \/ Settling \/ \E limit \in Limits : PromoteReadyDependents(limit))
       \/ sweep.held /\ (SweepResolve \/ SweepBackstop)

LiveInit == New /\ scenario = "revive"
=============================================================================
