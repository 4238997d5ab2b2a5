-------------------------- MODULE MCPostgresBroker --------------------------
(***************************************************************************)
(* Small instances of PostgresBroker for TLC.  A behaviour follows one     *)
(* scenario: the calls that enqueue, and the operations on what they wrote.*)
(***************************************************************************)
EXTENDS PostgresBroker, TLC

VARIABLE scenario

mcVars == <<vars, scenario>>

Opt(deps) ==
    [dependsOn |-> deps, uniqueKey |-> NoKey, uniqueTtl |-> FALSE,
     group |-> FALSE, delayed |-> FALSE, expires |-> FALSE]

\* 3 waits for 1 and 2; 4 and 5 share a key, and 5, of a group, waits for 1.
Graph ==
    [t \in TaskID |->
        CASE t = 1 -> [Opt(<<>>) EXCEPT !.expires = TRUE]
          [] t = 2 -> Opt(<<>>)
          [] t = 3 -> [Opt((1 :> "CASCADE_CANCEL") @@ (2 :> "CONTINUE")) EXCEPT !.delayed = TRUE]
          [] t = 4 -> [Opt(<<>>) EXCEPT !.uniqueKey = "k", !.uniqueTtl = TRUE]
          [] t = 5 -> [Opt(1 :> "BLOCK") EXCEPT !.uniqueKey = "k", !.group = TRUE]]

Calls ==
    [fanin |-> {<<1>>, <<2>>, <<3>>},
     operators |-> {<<1>>, <<5>>},
     unique |-> {<<4>>, <<5>>, <<1, 4>>},
     remove |-> {<<1>>, <<5>>},
     purge |-> {<<1>>, <<5>>}]

\* How many transactions are open at a time.
Open == [fanin |-> 2, operators |-> 1, unique |-> 1, remove |-> 2, purge |-> 2]

Connections == Permutations(Conn)

ScenarioStep ==
    /\ UNCHANGED scenario
    /\ \/ Enqueueing(Calls[scenario]) \/ Resolution \/ \E c \in Conn : Rollback(c)
       \/ \E t \in TaskID : Lease(t) \/ Ack(t) \/ CancelTask(t)
       \/ scenario = "operators" /\ (Execution \/ Operators)
       \/ scenario = "fanin" /\ \E t \in TaskID : Archive(t)
       \/ scenario = "remove" /\ Deletion
       \/ scenario \in {"remove", "purge"} /\ Purging
       \/ /\ scenario = "unique"
          /\ \/ \E t \in TaskID : Lapse(t) \/ RunTaskNow(t) \/ ArchiveTask(t)
             \/ \E S \in SUBSET TaskID : LeaseGroup(S) \/ AckBatch(S)
    /\ Cardinality({c \in Conn : conn'[c] # Free}) <= Open[scenario]

SafeInit == Init /\ scenario \in {"fanin", "operators", "unique", "remove"}
SafeSpec == SafeInit /\ [][ScenarioStep]_mcVars

PurgeInit == Init /\ scenario = "purge"
PurgeSpec == PurgeInit /\ [][ScenarioStep]_mcVars
=============================================================================
