-------------------------------- MODULE Raft --------------------------------
(***************************************************************************)
(* Leader election among the oracle nodes (node/pkg/raft).  One instance   *)
(* runs per price feed; it elects the node that triggers the rounds of     *)
(* that feed.  There is no replicated log: the only messages are           *)
(* heartbeats, vote requests and vote replies on a gossip topic.           *)
(*                                                                         *)
(* Every message is handled in a goroutine of its own, so messages reach a *)
(* node in any order, and a message that is never delivered is a lost one. *)
(* The handlers hold the mutex from their first read to their last write   *)
(* and are therefore single actions.  Three things run outside of it and   *)
(* are modelled as steps of their own: the election timer's tick, received *)
(* by Run before startElection takes the lock; the leader loop, which      *)
(* reads the Resign channel and the tickers unlocked each time it enters   *)
(* its select; and the messages between publication and handling.          *)
(***************************************************************************)
EXTENDS Integers, Sequences, FiniteSets

CONSTANTS
    Node,                 \* host ids, ordered as the code orders the id strings
    PeerCounts,           \* values SubscribersCount() may return
    MaxMissedHeartbeats,  \* types.go: 2
    MaxElections,         \* bound on the elections each node starts; then its timer rests
    MaxRestarts           \* bound on the process restarts of a node

None == 0                 \* the empty host id ""

ASSUME NodeAssumption == Node \subseteq Nat \ {None}
ASSUME BoundAssumption ==
    /\ MaxMissedHeartbeats \in Nat
    /\ MaxElections \in [Node -> Nat]
    /\ MaxRestarts \in Nat
    /\ PeerCounts \subseteq Nat

VARIABLES
    raft,         \* the fields of each node's Raft object that the mutex guards
    due,          \* Run has received a timer tick, startElection waits for the lock
    loops,        \* the leader loops of each node, oldest first
    closed,       \* the closed Resign channels of each node
    stopped,      \* the stopped ticker pairs of each node
    buffered,     \* the last ticks left in the channels of stopped tickers
    msgs,         \* messages published and not handled yet, one per receiver
    elections,    \* history: how many elections each node started
    incarnation,  \* history: how often each process was restarted
    granted,      \* history: every vote granted
    counted,      \* history: the votes counted in each node's current candidacy
    led           \* history: the nodes that were ever elected

historyVars == <<elections, incarnation, granted, counted, led>>
vars == <<raft, due, loops, closed, stopped, buffered, msgs, historyVars>>

RoleType == {"leader", "candidate", "follower"}

\* ran: LastElectionTime is not zero; timer: ElectionTimer is running; resign: the
\* Resign channel by number, None for nil.  Channels and tickers are numbered by
\* the leader loop they were made for.
RaftState ==
    [role : RoleType, votedFor : Nat, leaderID : Nat, votesReceived : Nat,
     term : Nat, missedHeartbeats : Nat, ran : BOOLEAN, timer : BOOLEAN,
     resign : Nat]

\* A loop is about to enter its select ("loop"), blocked in it on the channel
\* and the tickers it read ("wait"), or has returned ("done").
LoopState == [pc : {"loop", "wait", "done"}, resign : Nat, tickers : Nat]

AtLoopTop == [pc |-> "loop", resign |-> None, tickers |-> 0]
Returned == [pc |-> "done", resign |-> None, tickers |-> 0]

Tick == {"heartbeat", "leaderJob"}

Vote == [voter : Node, incarnation : Nat, term : Nat, candidate : Node]

Heartbeats == [type : {"heartbeat"}, from : Node, to : Node, term : Nat]
RequestVotes == [type : {"requestVote"}, from : Node, to : Node, term : Nat]
\* A granting reply.  The code sends {voteGranted, leaderID} only; "vote" is
\* history and no handler reads it.
ReplyVotes == [type : {"replyVote"}, from : Node, to : Node, vote : Vote]
Message == Heartbeats \cup RequestVotes \cup ReplyVotes

-----------------------------------------------------------------------------
(* Publishing.                                                             *)

\* The heartbeats of n, one per peer; a node ignores its own.
sendHeartbeat(n, t) ==
    {[type |-> "heartbeat", from |-> n, to |-> p, term |-> t] : p \in Node \ {n}}

\* The vote requests of n; its own reaches it too.
sendRequestVote(n, t) ==
    {[type |-> "requestVote", from |-> n, to |-> p, term |-> t] : p \in Node}

\* The reply that carries a granted vote to its candidate.  A refusal is not
\* put on the network: whoever receives it does nothing with it.
sendReplyVote(vote) ==
    [type |-> "replyVote", from |-> vote.voter, to |-> vote.candidate, vote |-> vote]

-----------------------------------------------------------------------------
(* The steps a handler takes under the mutex, as functions of the state.   *)

\* The channel NewRaftNode makes is never closed and never waited on, hence None.
NewRaftNode ==
    [role |-> "follower", votedFor |-> None, leaderID |-> None,
     votesReceived |-> 0, term |-> 0, missedHeartbeats |-> 0,
     ran |-> FALSE, timer |-> FALSE, resign |-> None]

\* Stops, drains and resets the timer: it runs afterwards, whatever it did before.
startElectionTimer(s) == [s EXCEPT !.timer = TRUE]

\* Mutant of ResignLeader: the role is left as it is.
ResignLeaderKeepsRole(s) ==
    IF s.resign = None THEN s
    ELSE startElectionTimer([s EXCEPT !.resign = None, !.leaderID = None])

\* The close of the channel is in the action, which owns "closed".
ResignLeader(s) ==
    IF s.resign = None THEN s
    ELSE startElectionTimer([s EXCEPT !.resign = None, !.role = "follower",
                                      !.leaderID = None])

\* Mutant of setLeaderState: the leader does not name itself.
setLeaderStateUnnamed(s, n, loop) ==
    [s EXCEPT !.resign = loop, !.timer = FALSE, !.term = @ + 1, !.role = "leader"]

\* The timer is stopped but its channel is not drained: "due" survives.
setLeaderState(s, n, loop) ==
    [s EXCEPT !.resign = loop, !.timer = FALSE, !.term = @ + 1,
              !.role = "leader", !.leaderID = n]

\* Mutant of Candidacy: the votes of the last election stay.
CandidacyKeepsVotes(s, n) ==
    [s EXCEPT !.term = @ + 1, !.role = "candidate",
              !.votedFor = n, !.missedHeartbeats = 0, !.ran = TRUE]

\* The next term, a candidate with its own vote given to itself.
Candidacy(s, n) ==
    [s EXCEPT !.term = @ + 1, !.votesReceived = 0, !.role = "candidate",
              !.votedFor = n, !.missedHeartbeats = 0, !.ran = TRUE]

OneMissed(s) == [s EXCEPT !.missedHeartbeats = @ + 1]

OneVote(s) == [s EXCEPT !.votesReceived = @ + 1]

Init ==
    /\ raft = [n \in Node |-> startElectionTimer(NewRaftNode)]
    /\ due = [n \in Node |-> FALSE]
    /\ loops = [n \in Node |-> <<>>]
    /\ closed = [n \in Node |-> {}]
    /\ stopped = [n \in Node |-> {}]
    /\ buffered = [n \in Node |-> {}]
    /\ msgs = {}
    /\ elections = [n \in Node |-> 0]
    /\ incarnation = [n \in Node |-> 0]
    /\ granted = {}
    /\ counted = [n \in Node |-> {}]
    /\ led = {}

-----------------------------------------------------------------------------
(* The election timer.                                                     *)

\* The timer ticks and Run receives the tick.
ElectionTimerTicks(n) ==
    /\ elections[n] < MaxElections[n]
    /\ raft[n].timer /\ ~due[n]
    /\ raft' = [raft EXCEPT ![n].timer = FALSE]
    /\ due' = [due EXCEPT ![n] = TRUE]
    /\ UNCHANGED <<loops, closed, stopped, buffered, msgs, historyVars>>

\* startElection, with the two early returns: too few missed heartbeats, and an
\* election less than CooldownPeriod ago (the clock is not modelled: once an
\* election was run the period may or may not be over).  The role is not looked at.
MissHeartbeat(n) ==
    /\ due[n]
    /\ raft[n].missedHeartbeats < MaxMissedHeartbeats
    /\ raft' = [raft EXCEPT ![n] = startElectionTimer(OneMissed(@))]
    /\ due' = [due EXCEPT ![n] = FALSE]
    /\ UNCHANGED <<loops, closed, stopped, buffered, msgs, historyVars>>

SkipElection(n) ==
    /\ due[n]
    /\ raft[n].missedHeartbeats >= MaxMissedHeartbeats
    /\ raft[n].ran
    /\ raft' = [raft EXCEPT ![n] = startElectionTimer(@)]
    /\ due' = [due EXCEPT ![n] = FALSE]
    /\ UNCHANGED <<loops, closed, stopped, buffered, msgs, historyVars>>

startElection(n) ==
    /\ due[n]
    /\ raft[n].missedHeartbeats >= MaxMissedHeartbeats
    /\ elections[n] < MaxElections[n]
    /\ raft' = [raft EXCEPT ![n] = startElectionTimer(Candidacy(@, n))]
    /\ due' = [due EXCEPT ![n] = FALSE]
    /\ msgs' = msgs \cup sendRequestVote(n, raft[n].term + 1)
    /\ elections' = [elections EXCEPT ![n] = @ + 1]
    /\ counted' = [counted EXCEPT ![n] = {}]
    /\ UNCHANGED <<loops, closed, stopped, buffered, incarnation, granted, led>>

-----------------------------------------------------------------------------
(* The message handlers.  m is a message whose receiver handles it now.    *)

\* Mutant of Resigns: the tie of two leaders is not broken.
ResignsToLaterTerm(s, m) == s.role = "leader" /\ m.term > s.term

\* A leader gives up its role for a heartbeat of a later term, or of its own
\* term from a larger host id.
Resigns(s, m) ==
    /\ s.role = "leader"
    /\ \/ m.term > s.term
       \/ m.term = s.term /\ m.to < m.from

\* The sender becomes the node's leader, unless the heartbeat is of an earlier
\* term or loses the tie against the node's own leadership.
Follows(s, m) ==
    \/ m.term > s.term
    \/ m.term = s.term /\ (s.role # "leader" \/ m.to < m.from)

\* The state after a heartbeat.  Every heartbeat clears the missed ones, stale
\* or not; in an equal term a candidate follows the sender and stays candidate.
AfterHeartbeat(s, m) ==
    LET heard == [s EXCEPT !.missedHeartbeats = 0,
                           !.timer = IF s.role = "follower" THEN TRUE ELSE @]
        yielded == IF Resigns(s, m) THEN ResignLeader(heard) ELSE heard
    IN  IF m.term > s.term
        THEN [yielded EXCEPT !.term = m.term, !.role = "follower", !.leaderID = m.from]
        ELSE IF Follows(s, m) THEN [yielded EXCEPT !.leaderID = m.from] ELSE yielded

handleHeartbeat(m) ==
    LET n == m.to IN
    /\ m.type = "heartbeat"
    /\ raft' = [raft EXCEPT ![n] = AfterHeartbeat(@, m)]
    /\ closed' = [closed EXCEPT ![n] = IF Resigns(raft[n], m)
                                       THEN @ \cup ({raft[n].resign} \ {None}) ELSE @]
    /\ msgs' = msgs \ {m}
    /\ UNCHANGED <<due, loops, stopped, buffered, historyVars>>

\* Mutant of AfterTerm: a request of the same term frees the vote, too.
AfterTermFreesVote(s, t) == [s EXCEPT !.term = t, !.role = "follower", !.votedFor = None]

\* A request of a later term makes the node a follower of that term with its
\* vote free.
AfterTerm(s, t) ==
    IF t > s.term THEN [s EXCEPT !.term = t, !.role = "follower", !.votedFor = None]
    ELSE s

\* A candidate that sees a rival of its own term gives up.
YieldsToRival(s, m) == s.role = "candidate" /\ m.from # m.to

\* The vote is granted to the first candidate of the term that asks.
GrantsVote(s, m) == ~YieldsToRival(s, m) /\ s.votedFor \in {None, m.from}

\* A leader ignores a request, whatever its term, and anyone refuses an old one.
IgnoreRequestVote(m) ==
    /\ m.type = "requestVote"
    /\ raft[m.to].role = "leader" \/ m.term < raft[m.to].term
    /\ msgs' = msgs \ {m}
    /\ UNCHANGED <<raft, due, loops, closed, stopped, buffered, historyVars>>

\* handleRequestVote when it refuses: a rival's request, or a vote given away.
RefuseVote(m) ==
    LET n == m.to
        s == AfterTerm(raft[n], m.term)
    IN  /\ m.type = "requestVote"
        /\ raft[n].role # "leader" /\ m.term >= raft[n].term
        /\ ~GrantsVote(s, m)
        /\ raft' = [raft EXCEPT
                      ![n] = IF YieldsToRival(s, m) THEN [s EXCEPT !.role = "follower"]
                             ELSE s]
        /\ msgs' = msgs \ {m}
        /\ UNCHANGED <<due, loops, closed, stopped, buffered, historyVars>>

\* handleRequestVote when it grants.
GrantVote(m) ==
    LET n == m.to
        s == AfterTerm(raft[n], m.term)
        vote == [voter |-> n, incarnation |-> incarnation[n], term |-> s.term,
                 candidate |-> m.from]
    IN  /\ m.type = "requestVote"
        /\ raft[n].role # "leader" /\ m.term >= raft[n].term
        /\ GrantsVote(s, m)
        /\ raft' = [raft EXCEPT ![n] = startElectionTimer([s EXCEPT !.votedFor = m.from])]
        /\ msgs' = (msgs \ {m}) \cup {sendReplyVote(vote)}
        /\ granted' = granted \cup {vote}
        /\ UNCHANGED <<due, loops, closed, stopped, buffered, elections, incarnation, counted, led>>

\* Votes needed when SubscribersCount() is peers, the node itself not among them.
VotesNeeded(peers) == (peers + 1) \div 2

\* handleReplyVote of a node that is no candidate (any more).
IgnoreReplyVote(m) ==
    /\ m.type = "replyVote"
    /\ raft[m.to].role # "candidate"
    /\ msgs' = msgs \ {m}
    /\ UNCHANGED <<raft, due, loops, closed, stopped, buffered, historyVars>>

\* handleReplyVote of a candidate, with becomeLeader when the votes suffice.
\* The reply carries no term: a vote cast for an earlier election counts.
handleReplyVote(m, peers) ==
    LET n == m.to
        s == OneVote(raft[n])
        elected == s.votesReceived >= VotesNeeded(peers)
        loop == Len(loops[n]) + 1
    IN  /\ m.type = "replyVote"
        /\ raft[n].role = "candidate"
        /\ raft' = [raft EXCEPT ![n] = IF elected THEN setLeaderState(s, n, loop) ELSE s]
        /\ loops' = [loops EXCEPT
                       ![n] = IF elected
                              THEN Append(@, AtLoopTop)
                              ELSE @]
        /\ counted' = [counted EXCEPT ![n] = @ \cup {m.vote}]
        /\ led' = IF elected THEN led \cup {n} ELSE led
        /\ msgs' = msgs \ {m}
        /\ UNCHANGED <<due, closed, stopped, buffered, elections, incarnation, granted>>

-----------------------------------------------------------------------------
(* The goroutine of becomeLeader: loop i of node n.                        *)

\* The loop evaluates the operands of its select and blocks in it.
EnterSelect(n, i) ==
    /\ loops[n][i].pc = "loop"
    /\ loops' = [loops EXCEPT ![n][i] = [pc |-> "wait", resign |-> raft[n].resign,
                                         tickers |-> Len(loops[n])]]
    /\ UNCHANGED <<raft, due, closed, stopped, buffered, msgs, historyVars>>

\* case <-r.Resign: the tickers stopped are the node's current ones.  Stop leaves
\* a tick that is already in a ticker's channel; one is recorded only if some other
\* loop is there to read it.
LoopResigns(n, i, last) ==
    LET current == Len(loops[n])
        others == {j \in DOMAIN loops[n] \ {i} : loops[n][j].pc # "done"}
    IN  /\ loops[n][i].pc = "wait"
        /\ loops[n][i].resign \in closed[n]
        /\ current \in stopped[n] \/ others = {} => last = {}
        /\ loops' = [loops EXCEPT ![n][i] = Returned]
        /\ stopped' = [stopped EXCEPT ![n] = @ \cup {current}]
        /\ buffered' = [buffered EXCEPT ![n] = @ \cup (last \X {current})]
        /\ UNCHANGED <<raft, due, closed, msgs, historyVars>>

\* Loop i receives a tick of the tickers it waits on and goes back to its top.
ReceiveTick(n, i, tick) ==
    LET tickers == loops[n][i].tickers IN
    /\ loops[n][i].pc = "wait"
    /\ tickers \notin stopped[n] \/ <<tick, tickers>> \in buffered[n]
    /\ loops' = [loops EXCEPT ![n][i] = AtLoopTop]
    /\ buffered' = [buffered EXCEPT ![n] = @ \ {<<tick, tickers>>}]
    /\ UNCHANGED <<raft, due, closed, stopped, historyVars>>

\* case <-r.HeartbeatTicker.C: publishes the node's current term.
HeartbeatTick(n, i) ==
    /\ ReceiveTick(n, i, "heartbeat")
    /\ msgs' = msgs \cup sendHeartbeat(n, raft[n].term)

\* case <-r.LeaderJobTicker.C: starts LeaderJob in a goroutine.
LeaderJobTick(n, i) ==
    /\ ReceiveTick(n, i, "leaderJob")
    /\ UNCHANGED msgs

\* The process ends and starts again: nothing is kept on disk, and what was
\* still to be delivered to the old process is lost.
Restart(n) ==
    /\ incarnation[n] < MaxRestarts
    /\ raft' = [raft EXCEPT ![n] = startElectionTimer(NewRaftNode)]
    /\ due' = [due EXCEPT ![n] = FALSE]
    /\ loops' = [loops EXCEPT ![n] = <<>>]
    /\ closed' = [closed EXCEPT ![n] = {}]
    /\ stopped' = [stopped EXCEPT ![n] = {}]
    /\ buffered' = [buffered EXCEPT ![n] = {}]
    /\ msgs' = {m \in msgs : m.to # n}
    /\ incarnation' = [incarnation EXCEPT ![n] = @ + 1]
    /\ counted' = [counted EXCEPT ![n] = {}]
    /\ UNCHANGED <<elections, granted, led>>

Handle(m) ==
    \/ handleHeartbeat(m)
    \/ IgnoreRequestVote(m) \/ RefuseVote(m) \/ GrantVote(m)
    \/ IgnoreReplyVote(m) \/ \E peers \in PeerCounts : handleReplyVote(m, peers)

TimerStep(n) ==
    \/ ElectionTimerTicks(n) \/ MissHeartbeat(n) \/ SkipElection(n) \/ startElection(n)

LoopStep(n, i) ==
    \/ EnterSelect(n, i) \/ \E last \in SUBSET Tick : LoopResigns(n, i, last)
    \/ HeartbeatTick(n, i) \/ LeaderJobTick(n, i)

Next ==
    \/ \E m \in msgs : Handle(m)
    \/ \E n \in Node : TimerStep(n) \/ Restart(n)
    \/ \E n \in Node : \E i \in DOMAIN loops[n] : LoopStep(n, i)

Spec == Init /\ [][Next]_vars

\* The scheduler runs the newest leader loop of a node and its heartbeat ticker
\* ticks, and of the heartbeats published again and again the network delivers
\* some.
Fairness ==
    /\ \A n \in Node :
         /\ WF_vars(loops[n] # <<>> /\ EnterSelect(n, Len(loops[n])))
         /\ SF_vars(loops[n] # <<>> /\ HeartbeatTick(n, Len(loops[n])))
    /\ \A n \in Node : \A p \in Node \ {n} :
         SF_vars(\E m \in msgs \cap sendHeartbeat(p, raft[p].term) :
                   m.to = n /\ handleHeartbeat(m))

FairSpec == Spec /\ Fairness

-----------------------------------------------------------------------------
(* Properties.                                                             *)

\* Every variable has its type.
TypeOK ==
    /\ raft \in [Node -> RaftState]
    /\ due \in [Node -> BOOLEAN]
    /\ loops \in [Node -> Seq(LoopState)]
    /\ closed \in [Node -> SUBSET Nat]
    /\ stopped \in [Node -> SUBSET Nat]
    /\ buffered \in [Node -> SUBSET (Tick \X Nat)]
    /\ msgs \subseteq Message
    /\ elections \in [Node -> Nat]
    /\ incarnation \in [Node -> Nat]
    /\ granted \subseteq Vote
    /\ counted \in [Node -> SUBSET Vote]
    /\ led \subseteq Node

\* A process grants at most one candidate its vote in a term, whatever the order
\* in which requests, heartbeats and its own elections reach it (VotedFor in
\* handleRequestVote, startElection, handleHeartbeat).
VoteOncePerTerm ==
    \A v, w \in granted :
        v.voter = w.voter /\ v.incarnation = w.incarnation /\ v.term = w.term
            => v.candidate = w.candidate

\* A vote is not forgotten while it can matter: until its process is restarted or
\* moves to a later term, VotedFor names the candidate the vote was given to.
VotesRemembered ==
    \A v \in granted :
        LET s == raft[v.voter] IN
        \/ v.incarnation < incarnation[v.voter]
        \/ v.incarnation = incarnation[v.voter] /\ v.term < s.term
        \/ v.incarnation = incarnation[v.voter] /\ v.term = s.term
               /\ v.candidate = s.votedFor

\* What a leader was elected with: as many different granted votes, all of them
\* given to itself, as VotesReceived says (handleReplyVote counts no vote twice,
\* and none given to another candidate), although some may be of earlier elections.
\* A candidate that was restarted asks again in terms it has used and is an
\* exception: a voter grants the same vote twice and both replies count.
VotesAreGranted ==
    \A n \in Node :
        /\ incarnation[n] = 0 => raft[n].votesReceived = Cardinality(counted[n])
        /\ counted[n] \subseteq {v \in granted : v.candidate = n}

\* A leader can resign and is driven by a running loop: its Resign channel exists
\* and is open, and its newest loop has not returned and does not wait on a closed
\* channel (setLeaderState, ResignLeader and the loop of becomeLeader).
LeaderIsDriven ==
    \A n \in Node : raft[n].role = "leader" =>
        /\ raft[n].resign # None
        /\ raft[n].resign \notin closed[n]
        /\ LET newest == loops[n][Len(loops[n])] IN
           newest.pc # "done" /\ newest.resign \notin closed[n]

\* Leadership as the users of the package see it: whom each node names, who
\* leads, and where a leader loop is running.
leaderIDs == [n \in Node |-> raft[n].leaderID]
leaders == {n \in Node : raft[n].role = "leader"}
driven == {n \in Node : \E i \in DOMAIN loops[n] : loops[n][i].pc # "done"}

L == INSTANCE Leadership WITH
        leaderID <- leaderIDs, leading <- leaders, driving <- driven

\* Raft implements Leadership: in particular a node only ever names a node that
\* was elected (handleHeartbeat, setLeaderState), names itself while it leads, and
\* no leader is left without a running loop.
ImplementsLeadership == L!Spec

\* Two leaders of one term do not last: the heartbeat of the larger host id makes
\* the other resign (handleHeartbeat, equal terms), unless one of them moves to
\* another term before, or the late return of an earlier leader loop stops the
\* tickers of the larger one's new leadership.
SplitBrainHeals ==
    \A n, p \in Node : n < p =>
        LET Split == /\ raft[n].role = "leader" /\ raft[p].role = "leader"
                     /\ raft[n].term = raft[p].term
        IN  Split ~> ~Split \/ Len(loops[p]) \in stopped[p]

\* raft_test.go, "All nodes except leader should be followers", asserted as soon
\* as the terms agree: in a state where all nodes are in one term, no two lead.
SameTermOneLeader ==
    (\A n, p \in Node : raft[n].term = raft[p].term)
        => Cardinality({n \in Node : raft[n].role = "leader"}) <= 1

=============================================================================
