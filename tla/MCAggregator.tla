---------------------------- MODULE MCAggregator ----------------------------
(* Aggregation for TLC; the configurations give the constants.             *)
EXTENDS Aggregator, TLC

\* Nothing in the module distinguishes nodes.
NodeSymmetry == Permutations(Node)

\* Two prices, and none.
SomeMissing == {-1, 2, 5}

\* At most three messages wait at a time, two after a restart.
FewInFlight == Cardinality(msgs) <= IF \E n \in Node : restarts[n] > 0 THEN 2 ELSE 3

\* One process is restarted, after at most two changes of leadership; three changes
\* only as long as no batch is stored.
FewEvents ==
    /\ Cardinality({n \in Node : restarts[n] > 0}) <= 1
    /\ changes <= 2 \/ \A n \in Node : restarts[n] = 0 /\ saved[n] = {}

==============================================================================
