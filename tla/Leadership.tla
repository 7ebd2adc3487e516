----------------------------- MODULE Leadership -----------------------------
(***************************************************************************)
(* What leader election (node/pkg/raft) promises to the package that uses  *)
(* it, the aggregator: which node each node names as its leader            *)
(* (GetLeader), and at which nodes a leader loop is running that calls     *)
(* LeaderJob.  It does not promise a single leader, nor that a node that   *)
(* lost its leadership stops calling LeaderJob.                            *)
(***************************************************************************)
EXTENDS Naturals

CONSTANTS
    Node,         \* host ids
    None          \* the empty host id

VARIABLES
    leaderID,     \* the leader each node names
    leading,      \* the nodes in the leader role
    driving,      \* the nodes at which some leader loop is running
    led           \* the nodes that were ever elected

leadershipVars == <<leaderID, leading, driving, led>>

Init ==
    /\ leaderID = [n \in Node |-> None]
    /\ leading = {} /\ driving = {} /\ led = {}

\* becomeLeader
Win(n) ==
    /\ leaderID' = [leaderID EXCEPT ![n] = n]
    /\ leading' = leading \cup {n}
    /\ driving' = driving \cup {n}
    /\ led' = led \cup {n}

\* A heartbeat makes n follow p, which was elected once but may lead no more.
Follow(n, p) ==
    /\ p \in led \ {n}
    /\ leaderID' = [leaderID EXCEPT ![n] = p]
    /\ leading' = leading \ {n}
    /\ UNCHANGED <<driving, led>>

\* A leader starts an election of its own and still names itself.
StepAside(n) ==
    /\ n \in leading
    /\ leading' = leading \ {n}
    /\ UNCHANGED <<leaderID, driving, led>>

\* The last leader loop returns, some time after its node stopped leading.
Retire(n) ==
    /\ n \in driving \ leading
    /\ driving' = driving \ {n}
    /\ UNCHANGED <<leaderID, leading, led>>

\* The process is restarted.
Forget(n) ==
    /\ leaderID' = [leaderID EXCEPT ![n] = None]
    /\ leading' = leading \ {n}
    /\ driving' = driving \ {n}
    /\ UNCHANGED led

Next ==
    \E n \in Node :
        \/ Win(n) \/ StepAside(n) \/ Retire(n) \/ Forget(n)
        \/ \E p \in Node : Follow(n, p)

Spec == Init /\ [][Next]_leadershipVars

=============================================================================
