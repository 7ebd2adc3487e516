------------------------------- MODULE MCRaft -------------------------------
(* Leader election for TLC; the configurations give the constants.         *)
EXTENDS Raft

\* Elections of nodes 1, 2 (and 3).
TwoAndOne == <<2, 1>>
OneEach == <<1, 1>>
FirstTwo == <<1, 1, 0>>

\* Bound on the messages in flight, for the run with three elections.
FewInFlight == Cardinality(msgs) <= 2

\* One of the processes is restarted, the other sees both of its lives.
OneRestarts == Cardinality({n \in Node : incarnation[n] > 0}) <= 1

=============================================================================
