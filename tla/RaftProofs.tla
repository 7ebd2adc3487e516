----------------------------- MODULE RaftProofs -----------------------------
(* Proofs about leader election, for any set of nodes and any bounds.      *)
EXTENDS Raft, FiniteSetTheorems, TLAPS

(***************************************************************************)
(* The functions the handlers are built from keep the type of a node's     *)
(* state, and say what they do to the fields the proofs are about.         *)
(***************************************************************************)

\* startElectionTimer touches the timer only.
LEMMA TimerLemma ==
    ASSUME NEW s \in RaftState
    PROVE  /\ startElectionTimer(s) \in RaftState
           /\ startElectionTimer(s).term = s.term
           /\ startElectionTimer(s).votedFor = s.votedFor
           /\ startElectionTimer(s).role = s.role
           /\ startElectionTimer(s).leaderID = s.leaderID
           /\ startElectionTimer(s).resign = s.resign
           /\ startElectionTimer(s).votesReceived = s.votesReceived
BY Zenon DEF startElectionTimer, RaftState

\* ResignLeader leaves term, vote and votes alone.
LEMMA ResignLemma ==
    ASSUME NEW s \in RaftState
    PROVE  /\ ResignLeader(s) \in RaftState
           /\ ResignLeader(s).term = s.term
           /\ ResignLeader(s).votedFor = s.votedFor
           /\ ResignLeader(s).votesReceived = s.votesReceived
<1> DEFINE r == [s EXCEPT !.resign = None, !.role = "follower", !.leaderID = None]
<1>1. /\ r \in RaftState /\ r.term = s.term /\ r.votedFor = s.votedFor
      /\ r.votesReceived = s.votesReceived
  BY Zenon DEF RaftState, RoleType, None
<1>2. CASE s.resign = None
  BY <1>2 DEF ResignLeader
<1>3. CASE s.resign # None
  BY <1>1, <1>3, TimerLemma, Zenon DEF ResignLeader
<1> QED BY <1>2, <1>3

\* A heartbeat keeps the vote and the votes and never lowers the term.
LEMMA HeartbeatLemma ==
    ASSUME NEW s \in RaftState, NEW m \in Heartbeats
    PROVE  /\ AfterHeartbeat(s, m) \in RaftState
           /\ AfterHeartbeat(s, m).term >= s.term
           /\ AfterHeartbeat(s, m).votedFor = s.votedFor
           /\ AfterHeartbeat(s, m).votesReceived = s.votesReceived
<1> DEFINE h == [s EXCEPT !.missedHeartbeats = 0,
                          !.timer = IF s.role = "follower" THEN TRUE ELSE @]
           y == IF Resigns(s, m) THEN ResignLeader(h) ELSE h
<1>1. /\ h \in RaftState /\ h.term = s.term /\ h.votedFor = s.votedFor
      /\ h.votesReceived = s.votesReceived
  BY Zenon DEF RaftState
<1> HIDE DEF h
<1>2. /\ y \in RaftState /\ y.term = s.term /\ y.votedFor = s.votedFor
      /\ y.votesReceived = s.votesReceived
  BY <1>1, ResignLemma
<1> HIDE DEF y
<1>3. m.term \in Nat /\ m.from \in Nat
  BY NodeAssumption, Zenon DEF Heartbeats
<1>4. AfterHeartbeat(s, m) =
        IF m.term > s.term
        THEN [y EXCEPT !.term = m.term, !.role = "follower", !.leaderID = m.from]
        ELSE IF Follows(s, m) THEN [y EXCEPT !.leaderID = m.from] ELSE y
  BY DEF AfterHeartbeat, y, h
<1> DEFINE a == [y EXCEPT !.term = m.term, !.role = "follower", !.leaderID = m.from]
           b == [y EXCEPT !.leaderID = m.from]
<1>5. /\ a \in RaftState /\ a.term = m.term /\ a.votedFor = y.votedFor
      /\ a.votesReceived = y.votesReceived
  BY <1>2, <1>3, Zenon DEF RaftState, RoleType
<1>6. /\ b \in RaftState /\ b.term = y.term /\ b.votedFor = y.votedFor
      /\ b.votesReceived = y.votesReceived
  BY <1>2, <1>3 DEF RaftState
<1>7. s.term \in Nat
  BY DEF RaftState
<1>8. AfterHeartbeat(s, m) = IF m.term > s.term THEN a ELSE IF Follows(s, m) THEN b ELSE y
  BY <1>4
<1> QED BY <1>2, <1>3, <1>5, <1>6, <1>7, <1>8

\* Seeing a term t: the state is of t or a later term, and its vote is free
\* if the term changed.
LEMMA AfterTermLemma ==
    ASSUME NEW s \in RaftState, NEW t \in Nat, t >= s.term
    PROVE  /\ AfterTerm(s, t) \in RaftState
           /\ AfterTerm(s, t).term = t
           /\ AfterTerm(s, t).votesReceived = s.votesReceived
           /\ t = s.term => AfterTerm(s, t) = s
           /\ t > s.term => AfterTerm(s, t).votedFor = None
<1> DEFINE r == [s EXCEPT !.term = t, !.role = "follower", !.votedFor = None]
<1>1. r \in RaftState /\ r.term = t /\ r.votedFor = None /\ r.votesReceived = s.votesReceived
  BY Zenon DEF RaftState, RoleType, None
<1>2. s.term \in Nat
  BY DEF RaftState
<1>3. AfterTerm(s, t) = IF t > s.term THEN r ELSE s
  BY DEF AfterTerm
<1> QED BY <1>1, <1>2, <1>3

\* The steps that count up keep the type.
LEMMA CountingLemma ==
    ASSUME NEW s \in RaftState
    PROVE  /\ OneVote(s) \in RaftState /\ OneMissed(s) \in RaftState
           /\ OneVote(s).term = s.term /\ OneMissed(s).term = s.term
           /\ OneVote(s).votedFor = s.votedFor /\ OneMissed(s).votedFor = s.votedFor
           /\ OneVote(s).votesReceived = s.votesReceived + 1
           /\ OneMissed(s).votesReceived = s.votesReceived
<1>1. s.votesReceived + 1 \in Nat /\ s.missedHeartbeats + 1 \in Nat
  BY DEF RaftState
<1> DEFINE v == s.votesReceived + 1
           h == s.missedHeartbeats + 1
<1> HIDE DEF v, h
<1>2. LET r == [s EXCEPT !.votesReceived = v] IN
      r \in RaftState /\ r.term = s.term /\ r.votedFor = s.votedFor /\ r.votesReceived = v
  BY <1>1 DEF RaftState, v
<1>3. LET r == [s EXCEPT !.missedHeartbeats = h] IN
      /\ r \in RaftState /\ r.term = s.term /\ r.votedFor = s.votedFor
      /\ r.votesReceived = s.votesReceived
  BY <1>1 DEF RaftState, h
<1> QED BY <1>2, <1>3 DEF v, h, OneVote, OneMissed

\* A new leader names itself and is one term later.
LEMMA LeaderStateLemma ==
    ASSUME NEW s \in RaftState, NEW n \in Node, NEW l \in Nat
    PROVE  /\ setLeaderState(s, n, l) \in RaftState
           /\ setLeaderState(s, n, l).term = s.term + 1
           /\ setLeaderState(s, n, l).votedFor = s.votedFor
           /\ setLeaderState(s, n, l).votesReceived = s.votesReceived
<1> DEFINE t == s.term + 1
           r == [s EXCEPT !.resign = l, !.timer = FALSE, !.term = t,
                          !.role = "leader", !.leaderID = n]
<1>1. t \in Nat
  BY DEF RaftState
<1>2. setLeaderState(s, n, l) = r
  BY DEF setLeaderState
<1> HIDE DEF t
<1>3. /\ r \in RaftState /\ r.term = t /\ r.votedFor = s.votedFor
      /\ r.votesReceived = s.votesReceived
  BY <1>1, NodeAssumption, Zenon DEF RaftState, RoleType
<1> QED BY <1>2, <1>3 DEF t

\* A candidate votes for itself in a new term.
LEMMA CandidacyLemma ==
    ASSUME NEW s \in RaftState, NEW n \in Node
    PROVE  /\ Candidacy(s, n) \in RaftState
           /\ Candidacy(s, n).term = s.term + 1
           /\ Candidacy(s, n).votedFor = n
           /\ Candidacy(s, n).votesReceived = 0
<1> DEFINE t == s.term + 1
           r == [s EXCEPT !.term = t, !.votesReceived = 0,
                          !.role = "candidate", !.votedFor = n,
                          !.missedHeartbeats = 0, !.ran = TRUE]
<1>1. t \in Nat
  BY DEF RaftState
<1>2. Candidacy(s, n) = r
  BY DEF Candidacy
<1> HIDE DEF t
<1>3. r \in RaftState /\ r.term = t /\ r.votedFor = n /\ r.votesReceived = 0
  BY <1>1, NodeAssumption, Zenon DEF RaftState, RoleType
<1> QED BY <1>2, <1>3 DEF t

\* Replacing one leader loop keeps a sequence of leader loops.
LEMMA LoopUpdate ==
    ASSUME NEW q \in Seq(LoopState), NEW i \in DOMAIN q, NEW l \in LoopState
    PROVE  /\ [q EXCEPT ![i] = l] \in Seq(LoopState)
           /\ Len([q EXCEPT ![i] = l]) = Len(q)
OBVIOUS

\* A new process is a follower whose timer runs.
LEMMA FreshNode ==
    /\ startElectionTimer(NewRaftNode) \in RaftState
    /\ startElectionTimer(NewRaftNode).role = "follower"
<1>1. NewRaftNode \in RaftState /\ NewRaftNode.role = "follower"
  BY DEF NewRaftNode, RaftState, RoleType, None
<1> QED BY <1>1, TimerLemma

\* The two loop states that hold no channel are loop states.
LEMMA LoopStates ==
    AtLoopTop \in LoopState /\ Returned \in LoopState
BY DEF AtLoopTop, Returned, LoopState, None

-----------------------------------------------------------------------------
(* Type correctness.                                                       *)

\* A message is of one of the three kinds, and its type tells which.
LEMMA MessageKinds ==
    ASSUME NEW m \in Message
    PROVE  /\ m.to \in Node /\ m.from \in Node
           /\ m.type = "heartbeat" => m \in Heartbeats /\ m.term \in Nat
           /\ m.type = "requestVote" => m \in RequestVotes /\ m.term \in Nat
           /\ m.type = "replyVote" => m \in ReplyVotes /\ m.vote \in Vote
BY DEF Message, Heartbeats, RequestVotes, ReplyVotes

\* Every message handler keeps the types.
LEMMA HandleType ==
    ASSUME TypeOK, NEW m \in msgs, Handle(m)
    PROVE  TypeOK'
<1> USE DEF TypeOK, historyVars
<1> DEFINE n == m.to
<1>0. m \in Message /\ n \in Node /\ m.from \in Node /\ raft[n] \in RaftState
  BY MessageKinds
<1>1. CASE handleHeartbeat(m)
  <2>1. m \in Heartbeats
    BY <1>0, <1>1, MessageKinds DEF handleHeartbeat
  <2>2. raft[n].resign \in Nat
    BY <1>0 DEF RaftState
  <2>3. raft' \in [Node -> RaftState]
    BY <1>0, <1>1, <2>1, HeartbeatLemma DEF handleHeartbeat
  <2>4. closed' \in [Node -> SUBSET Nat]
    BY <1>0, <1>1, <2>2 DEF handleHeartbeat
  <2> QED BY <1>1, <2>3, <2>4 DEF handleHeartbeat
<1>2. CASE IgnoreRequestVote(m)
  BY <1>2 DEF IgnoreRequestVote
<1>3. CASE RefuseVote(m)
  <2> DEFINE s == AfterTerm(raft[n], m.term)
  <2>1. s \in RaftState
    BY <1>0, <1>3, MessageKinds, AfterTermLemma DEF RefuseVote
  <2>2. [s EXCEPT !.role = "follower"] \in RaftState
    BY <2>1, Zenon DEF RaftState, RoleType
  <2> HIDE DEF s
  <2>3. raft' \in [Node -> RaftState]
    BY <1>0, <1>3, <2>1, <2>2 DEF RefuseVote, s
  <2> QED BY <1>3, <2>3 DEF RefuseVote
<1>4. CASE GrantVote(m)
  <2> DEFINE s == AfterTerm(raft[n], m.term)
             vote == [voter |-> n, incarnation |-> incarnation[n], term |-> s.term,
                      candidate |-> m.from]
  <2>1. s \in RaftState /\ s.term \in Nat
    BY <1>0, <1>4, MessageKinds, AfterTermLemma DEF GrantVote
  <2>2. [s EXCEPT !.votedFor = m.from] \in RaftState
    BY <1>0, <2>1, NodeAssumption, Zenon DEF RaftState
  <2>3. vote \in Vote
    BY <1>0, <2>1 DEF Vote
  <2>4. sendReplyVote(vote) \in Message
    BY <2>3 DEF sendReplyVote, Message, ReplyVotes, Vote
  <2> HIDE DEF s
  <2>5. raft' \in [Node -> RaftState]
    BY <1>0, <1>4, <2>2, TimerLemma DEF GrantVote, s
  <2>6. msgs' \subseteq Message /\ granted' \subseteq Vote
    BY <1>4, <2>3, <2>4 DEF GrantVote, s
  <2> QED BY <1>4, <2>5, <2>6 DEF GrantVote
<1>5. CASE IgnoreReplyVote(m)
  BY <1>5 DEF IgnoreReplyVote
<1>6. ASSUME NEW peers \in PeerCounts, handleReplyVote(m, peers)
      PROVE  TypeOK'
  <2> DEFINE s == OneVote(raft[n])
  <2>1. s \in RaftState
    BY <1>0, CountingLemma
  <2>2. Len(loops[n]) + 1 \in Nat
    BY <1>0
  <2> HIDE DEF s
  <2>3. setLeaderState(s, n, Len(loops[n]) + 1) \in RaftState
    BY <1>0, <2>1, <2>2, LeaderStateLemma
  <2>4. raft' \in [Node -> RaftState]
    BY <1>0, <1>6, <2>1, <2>3 DEF handleReplyVote, s
  <2>5. Append(loops[n], AtLoopTop) \in Seq(LoopState)
    BY <1>0, LoopStates
  <2>6. loops' \in [Node -> Seq(LoopState)]
    BY <1>0, <1>6, <2>5 DEF handleReplyVote
  <2>7. m.vote \in Vote
    BY <1>0, <1>6, MessageKinds DEF handleReplyVote
  <2>8. counted' \in [Node -> SUBSET Vote]
    BY <1>0, <1>6, <2>7 DEF handleReplyVote
  <2> QED BY <1>6, <2>4, <2>6, <2>8 DEF handleReplyVote
<1> QED BY <1>1, <1>2, <1>3, <1>4, <1>5, <1>6 DEF Handle

\* So do the steps of the election timer.
LEMMA TimerStepType ==
    ASSUME TypeOK, NEW n \in Node, TimerStep(n)
    PROVE  TypeOK'
<1> USE DEF TypeOK, historyVars
<1>0. raft[n] \in RaftState
  OBVIOUS
<1>1. CASE ElectionTimerTicks(n)
  <2>1. [raft[n] EXCEPT !.timer = FALSE] \in RaftState
    BY <1>0, Zenon DEF RaftState
  <2> QED BY <1>1, <2>1 DEF ElectionTimerTicks
<1>2. CASE MissHeartbeat(n)
  <2>1. OneMissed(raft[n]) \in RaftState
    BY <1>0, CountingLemma
  <2>2. raft' \in [Node -> RaftState]
    BY <1>2, <2>1, TimerLemma DEF MissHeartbeat
  <2> QED BY <1>2, <2>2 DEF MissHeartbeat
<1>3. CASE SkipElection(n)
  BY <1>0, <1>3, TimerLemma DEF SkipElection
<1>4. CASE startElection(n)
  <2>2. raft' \in [Node -> RaftState]
    BY <1>0, <1>4, CandidacyLemma, TimerLemma DEF startElection
  <2>3. raft[n].term + 1 \in Nat
    BY <1>0 DEF RaftState
  <2>4. \A t \in Nat : sendRequestVote(n, t) \subseteq Message
    BY DEF sendRequestVote, Message, RequestVotes
  <2>5. msgs' \subseteq Message
    BY <1>4, <2>3, <2>4 DEF startElection
  <2>6. elections' \in [Node -> Nat]
    BY <1>4 DEF startElection
  <2> QED BY <1>4, <2>2, <2>5, <2>6 DEF startElection
<1> QED BY <1>1, <1>2, <1>3, <1>4 DEF TimerStep

\* So do the steps of a leader loop.
LEMMA LoopStepType ==
    ASSUME TypeOK, NEW n \in Node, NEW i \in DOMAIN loops[n], LoopStep(n, i)
    PROVE  TypeOK'
<1> USE DEF TypeOK, historyVars
<1>0. loops[n] \in Seq(LoopState) /\ raft[n] \in RaftState /\ Len(loops[n]) \in Nat
  OBVIOUS
<1>1. CASE EnterSelect(n, i)
  <2>1. [pc |-> "wait", resign |-> raft[n].resign, tickers |-> Len(loops[n])] \in LoopState
    BY <1>0 DEF LoopState, RaftState
  <2>2. loops' \in [Node -> Seq(LoopState)]
    BY <1>0, <1>1, <2>1, LoopUpdate DEF EnterSelect
  <2> QED BY <1>1, <2>2 DEF EnterSelect
<1>2. ASSUME NEW last \in SUBSET Tick, LoopResigns(n, i, last)
      PROVE  TypeOK'
  <2>1. loops' \in [Node -> Seq(LoopState)]
    BY <1>0, <1>2, LoopStates, LoopUpdate DEF LoopResigns
  <2>2. last \X {Len(loops[n])} \subseteq Tick \X Nat
    BY <1>0
  <2>3. buffered' \in [Node -> SUBSET (Tick \X Nat)]
    BY <1>2, <2>2 DEF LoopResigns
  <2> QED BY <1>0, <1>2, <2>1, <2>3 DEF LoopResigns
<1>3. ASSUME NEW tick, ReceiveTick(n, i, tick), msgs' \subseteq Message
      PROVE  TypeOK'
  <2>1. loops' \in [Node -> Seq(LoopState)]
    BY <1>0, <1>3, LoopStates, LoopUpdate DEF ReceiveTick
  <2>2. buffered' \in [Node -> SUBSET (Tick \X Nat)]
    BY <1>3 DEF ReceiveTick
  <2> QED BY <1>3, <2>1, <2>2 DEF ReceiveTick
<1>4. CASE HeartbeatTick(n, i)
  <2>1. sendHeartbeat(n, raft[n].term) \subseteq Message
    BY <1>0 DEF sendHeartbeat, Message, Heartbeats, RaftState
  <2> QED BY <1>3, <1>4, <2>1, Zenon DEF HeartbeatTick
<1>5. CASE LeaderJobTick(n, i)
  BY <1>3, <1>5 DEF LeaderJobTick
<1> QED BY <1>1, <1>2, <1>4, <1>5 DEF LoopStep

\* So does a restart.
LEMMA RestartType ==
    ASSUME TypeOK, NEW n \in Node, Restart(n)
    PROVE  TypeOK'
BY FreshNode DEF TypeOK, historyVars, Restart

\* Every reachable state has the types of the declarations in types.go.
THEOREM TypeCorrect == Spec => []TypeOK
<1>1. Init => TypeOK
  BY FreshNode DEF Init, TypeOK, historyVars
<1>2. TypeOK /\ [Next]_vars => TypeOK'
  <2> SUFFICES ASSUME TypeOK, [Next]_vars PROVE TypeOK'
    OBVIOUS
  <2>1. CASE UNCHANGED vars
    BY <2>1 DEF vars, historyVars, TypeOK
  <2> QED
    BY <2>1, HandleType, TimerStepType, LoopStepType, RestartType DEF Next
<1> QED BY <1>1, <1>2, PTL DEF Spec

-----------------------------------------------------------------------------
(***************************************************************************)
(* One vote per term.  VoteOncePerTerm is not inductive by itself: that a  *)
(* second request of a term is refused depends on VotedFor still naming    *)
(* the first candidate, which is what VotesRemembered adds.                *)
(***************************************************************************)

VoteInv == VotesRemembered /\ VoteOncePerTerm

\* Node p is in a later term than before, or in the same with the same vote.
VoteKept(p) ==
    \/ raft'[p].term > raft[p].term
    \/ raft'[p].term = raft[p].term /\ raft'[p].votedFor = raft[p].votedFor

\* Steps in which no process restarts, no vote is granted and every node keeps
\* its vote preserve the invariant.
LEMMA KeptVotes ==
    ASSUME TypeOK, TypeOK', VoteInv,
           UNCHANGED <<granted, incarnation>>,
           \A p \in Node : VoteKept(p)
    PROVE  VoteInv'
<1>1. VotesRemembered'
  <2> SUFFICES ASSUME NEW v \in granted
               PROVE  LET s == raft'[v.voter] IN
                      \/ v.incarnation < incarnation[v.voter]
                      \/ v.incarnation = incarnation[v.voter] /\ v.term < s.term
                      \/ v.incarnation = incarnation[v.voter] /\ v.term = s.term
                             /\ v.candidate = s.votedFor
    BY DEF VotesRemembered
  <2>1. v.voter \in Node /\ v.term \in Nat
    BY DEF TypeOK, Vote
  <2>2. raft[v.voter].term \in Nat /\ raft'[v.voter].term \in Nat
    BY <2>1, Zenon DEF TypeOK, RaftState
  <2>3. VoteKept(v.voter)
    BY <2>1
  <2> QED BY <2>1, <2>2, <2>3 DEF VoteInv, VotesRemembered, VoteKept
<1>2. VoteOncePerTerm'
  BY DEF VoteInv, VoteOncePerTerm
<1> QED BY <1>1, <1>2 DEF VoteInv

\* Changing the state of one node to one that keeps the vote keeps every vote.
LEMMA OneNodeKept ==
    ASSUME TypeOK, NEW n \in Node, NEW s \in RaftState,
           raft' = [raft EXCEPT ![n] = s],
           \/ s.term > raft[n].term
           \/ s.term = raft[n].term /\ s.votedFor = raft[n].votedFor
    PROVE  \A p \in Node : VoteKept(p)
BY Zenon DEF TypeOK, VoteKept, RaftState

\* Granting a vote: the node's vote was free in this term, or this candidate's.
LEMMA GrantKeepsVotes ==
    ASSUME TypeOK, VoteInv, NEW m \in msgs, GrantVote(m)
    PROVE  VoteInv'
<1> DEFINE n == m.to
           s == AfterTerm(raft[n], m.term)
           u == [s EXCEPT !.votedFor = m.from]
           vote == [voter |-> n, incarnation |-> incarnation[n], term |-> s.term,
                    candidate |-> m.from]
<1>0. /\ n \in Node /\ m.from \in Node /\ m.from \in Nat /\ m.term \in Nat
      /\ raft[n] \in RaftState /\ raft[n].term \in Nat /\ incarnation[n] \in Nat
  BY MessageKinds, NodeAssumption, Zenon DEF TypeOK, RaftState, GrantVote
<1>1. m.term >= raft[n].term
  BY DEF GrantVote
<1>2. /\ s \in RaftState /\ s.term = m.term
      /\ m.term = raft[n].term => s = raft[n]
      /\ m.term > raft[n].term => s.votedFor = None
  BY <1>0, <1>1, AfterTermLemma
<1>3. s.votedFor \in {None, m.from}
  BY DEF GrantVote, GrantsVote
<1> HIDE DEF s
<1>4. u \in RaftState /\ u.term = m.term /\ u.votedFor = m.from
  BY <1>0, <1>2 DEF RaftState
<1> HIDE DEF u
<1>5. raft' = [raft EXCEPT ![n] = startElectionTimer(u)]
  BY DEF GrantVote, s, u
<1>6. raft'[n].term = m.term /\ raft'[n].votedFor = m.from
  BY <1>0, <1>4, <1>5, TimerLemma DEF TypeOK
<1>7. \A p \in Node \ {n} : raft'[p] = raft[p]
  BY <1>5 DEF TypeOK
<1>8. granted' = granted \cup {vote} /\ incarnation' = incarnation
  BY DEF GrantVote, s
<1>9. ASSUME NEW v \in granted, v.voter = n, v.incarnation = incarnation[n],
             v.term = m.term
      PROVE  v.candidate = m.from
  <2>1. v.candidate \in Node /\ v.candidate # None /\ v.term \in Nat
    BY NodeAssumption DEF TypeOK, Vote
  <2>2. v.term = raft[n].term /\ v.candidate = raft[n].votedFor
    BY <1>0, <1>1, <1>9 DEF VoteInv, VotesRemembered
  <2> QED BY <1>2, <1>3, <1>9, <2>1, <2>2
<1>10. VoteOncePerTerm'
  <2> SUFFICES ASSUME NEW v \in granted', NEW w \in granted',
                      v.voter = w.voter, v.incarnation = w.incarnation, v.term = w.term
               PROVE  v.candidate = w.candidate
    BY DEF VoteOncePerTerm
  <2>1. vote.voter = n /\ vote.incarnation = incarnation[n] /\ vote.term = m.term
        /\ vote.candidate = m.from
    BY <1>2
  <2> QED BY <1>8, <1>9, <2>1 DEF VoteInv, VoteOncePerTerm
<1>11. VotesRemembered'
  <2> SUFFICES ASSUME NEW v \in granted'
               PROVE  LET r == raft'[v.voter] IN
                      \/ v.incarnation < incarnation[v.voter]
                      \/ v.incarnation = incarnation[v.voter] /\ v.term < r.term
                      \/ v.incarnation = incarnation[v.voter] /\ v.term = r.term
                             /\ v.candidate = r.votedFor
    BY <1>8 DEF VotesRemembered
  <2>1. CASE v = vote
    BY <1>2, <1>6, <2>1
  <2>2. CASE v \in granted /\ v.voter # n
    BY <1>7, <2>2 DEF TypeOK, Vote, VoteInv, VotesRemembered
  <2>3. CASE v \in granted /\ v.voter = n
    <3>1. v.term \in Nat /\ v.incarnation \in Nat
      BY <2>3 DEF TypeOK, Vote
    <3>2. CASE v.incarnation < incarnation[n]
      BY <2>3, <3>2
    <3>3. CASE v.incarnation = incarnation[n] /\ v.term <= raft[n].term
      <4>1. CASE v.term < m.term
        BY <1>6, <2>3, <3>3, <4>1
      <4>2. CASE v.term = m.term
        BY <1>6, <1>9, <2>3, <3>3, <4>2
      <4> QED BY <1>0, <1>1, <3>1, <3>3, <4>1, <4>2
    <3> QED BY <1>0, <2>3, <3>1, <3>2, <3>3 DEF VoteInv, VotesRemembered
  <2> QED BY <1>8, <2>1, <2>2, <2>3
<1> QED BY <1>10, <1>11 DEF VoteInv

\* A restart forgets the votes of earlier incarnations only.
LEMMA RestartKeepsVotes ==
    ASSUME TypeOK, VoteInv, NEW n \in Node, Restart(n)
    PROVE  VoteInv'
<1>1. /\ granted' = granted
      /\ incarnation' = [incarnation EXCEPT ![n] = incarnation[n] + 1]
      /\ \A p \in Node \ {n} : raft'[p] = raft[p]
  BY DEF Restart, TypeOK
<1>2. VotesRemembered'
  <2> SUFFICES ASSUME NEW v \in granted
               PROVE  LET r == raft'[v.voter] IN
                      \/ v.incarnation < incarnation'[v.voter]
                      \/ v.incarnation = incarnation'[v.voter] /\ v.term < r.term
                      \/ v.incarnation = incarnation'[v.voter] /\ v.term = r.term
                             /\ v.candidate = r.votedFor
    BY <1>1 DEF VotesRemembered
  <2>1. v.voter \in Node /\ v.incarnation \in Nat /\ incarnation[v.voter] \in Nat
    BY DEF TypeOK, Vote
  <2>2. CASE v.voter = n
    <3>1. v.incarnation <= incarnation[n]
      BY <2>1, <2>2 DEF VoteInv, VotesRemembered
    <3> QED BY <1>1, <2>1, <2>2, <3>1 DEF TypeOK
  <2>3. CASE v.voter # n
    BY <1>1, <2>1, <2>3 DEF TypeOK, VoteInv, VotesRemembered
  <2> QED BY <2>2, <2>3
<1>3. VoteOncePerTerm'
  BY <1>1 DEF VoteInv, VoteOncePerTerm
<1> QED BY <1>2, <1>3 DEF VoteInv

\* A process never grants two candidates its vote in one term, in any
\* interleaving of requests, heartbeats, elections and restarts.
THEOREM OneVotePerTerm == Spec => []VoteOncePerTerm
<1>1. Init => VoteInv
  BY DEF Init, VoteInv, VotesRemembered, VoteOncePerTerm
<1>2. TypeOK /\ TypeOK' /\ VoteInv /\ [Next]_vars => VoteInv'
  <2> SUFFICES ASSUME TypeOK, TypeOK', VoteInv, [Next]_vars PROVE VoteInv'
    OBVIOUS
  <2>1. ASSUME NEW m \in msgs, Handle(m) PROVE VoteInv'
    <3> DEFINE n == m.to
    <3>0. m \in Message /\ n \in Node /\ raft[n] \in RaftState /\ raft[n].term \in Nat
      BY MessageKinds DEF TypeOK, RaftState
    <3>1. CASE handleHeartbeat(m)
      <4> DEFINE s == AfterHeartbeat(raft[n], m)
      <4>1. s \in RaftState /\ s.term >= raft[n].term /\ s.votedFor = raft[n].votedFor
        BY <3>0, <3>1, MessageKinds, HeartbeatLemma DEF handleHeartbeat
      <4>2. raft' = [raft EXCEPT ![n] = s]
        BY <3>1 DEF handleHeartbeat
      <4>3. s.term > raft[n].term \/ s.term = raft[n].term
        BY <3>0, <4>1 DEF RaftState
      <4> HIDE DEF s
      <4>4. \A p \in Node : VoteKept(p)
        BY <3>0, <4>1, <4>2, <4>3, OneNodeKept, Zenon
      <4> QED BY <3>1, <4>4, KeptVotes DEF handleHeartbeat, historyVars
    <3>2. CASE IgnoreRequestVote(m)
      BY <3>2, KeptVotes DEF IgnoreRequestVote, historyVars, VoteKept
    <3>3. CASE RefuseVote(m)
      <4> DEFINE s == AfterTerm(raft[n], m.term)
                 u == IF YieldsToRival(s, m) THEN [s EXCEPT !.role = "follower"] ELSE s
      <4>1. m.term \in Nat /\ m.term >= raft[n].term
        BY <3>0, <3>3, MessageKinds DEF RefuseVote
      <4>2. /\ s \in RaftState
            /\ s.term > raft[n].term \/ s = raft[n]
        BY <3>0, <4>1, AfterTermLemma
      <4> HIDE DEF s
      <4>3. u \in RaftState /\ u.term = s.term /\ u.votedFor = s.votedFor
        BY <4>2 DEF RaftState, RoleType
      <4>4. raft' = [raft EXCEPT ![n] = u]
        BY <3>3 DEF RefuseVote, s
      <4> HIDE DEF u
      <4>5. \A p \in Node : VoteKept(p)
        BY <3>0, <4>2, <4>3, <4>4, OneNodeKept, Zenon
      <4> QED BY <3>3, <4>5, KeptVotes DEF RefuseVote, historyVars
    <3>4. CASE GrantVote(m)
      BY <3>4, GrantKeepsVotes
    <3>5. CASE IgnoreReplyVote(m)
      BY <3>5, KeptVotes DEF IgnoreReplyVote, historyVars, VoteKept
    <3>6. ASSUME NEW peers \in PeerCounts, handleReplyVote(m, peers) PROVE VoteInv'
      <4> DEFINE s == OneVote(raft[n])
                 l == Len(loops[n]) + 1
                 e == s.votesReceived >= VotesNeeded(peers)
                 u == IF e THEN setLeaderState(s, n, l) ELSE s
      <4>1. s \in RaftState /\ s.term = raft[n].term /\ s.votedFor = raft[n].votedFor
        BY <3>0, CountingLemma
      <4>2. l \in Nat
        BY <3>0 DEF TypeOK
      <4>3. raft' = [raft EXCEPT ![n] = u]
        BY <3>6 DEF handleReplyVote
      <4> HIDE DEF s, l, e
      <4>4. u \in RaftState /\ (u.term = s.term + 1 \/ u.term = s.term)
            /\ u.votedFor = s.votedFor
        BY <3>0, <4>1, <4>2, LeaderStateLemma, Zenon
      <4> HIDE DEF u
      <4>5. \/ u.term > raft[n].term
            \/ u.term = raft[n].term /\ u.votedFor = raft[n].votedFor
        BY <3>0, <4>1, <4>4
      <4>6. \A p \in Node : VoteKept(p)
        BY <3>0, <4>3, <4>4, <4>5, OneNodeKept, Zenon
      <4> QED BY <3>6, <4>6, KeptVotes DEF handleReplyVote
    <3> QED BY <2>1, <3>1, <3>2, <3>3, <3>4, <3>5, <3>6 DEF Handle
  <2>2. ASSUME NEW n \in Node, TimerStep(n) PROVE VoteInv'
    <3>0. raft[n] \in RaftState /\ raft[n].term \in Nat
      BY DEF TypeOK, RaftState
    <3>1. CASE ElectionTimerTicks(n)
      <4> DEFINE s == [raft[n] EXCEPT !.timer = FALSE]
      <4>1. s \in RaftState /\ s.term = raft[n].term /\ s.votedFor = raft[n].votedFor
        BY <3>0, Zenon DEF RaftState
      <4>2. raft' = [raft EXCEPT ![n] = s]
        BY <3>1 DEF ElectionTimerTicks
      <4> HIDE DEF s
      <4>3. \A p \in Node : VoteKept(p)
        BY <4>1, <4>2, OneNodeKept, Zenon
      <4> QED BY <3>1, <4>3, KeptVotes DEF ElectionTimerTicks, historyVars
    <3>2. CASE MissHeartbeat(n)
      <4>1. \A p \in Node : VoteKept(p)
        BY <3>0, <3>2, CountingLemma, TimerLemma, OneNodeKept, Zenon DEF MissHeartbeat
      <4> QED BY <3>2, <4>1, KeptVotes DEF MissHeartbeat, historyVars
    <3>3. CASE SkipElection(n)
      <4>1. \A p \in Node : VoteKept(p)
        BY <3>0, <3>3, TimerLemma, OneNodeKept, Zenon DEF SkipElection
      <4> QED BY <3>3, <4>1, KeptVotes DEF SkipElection, historyVars
    <3>4. CASE startElection(n)
      <4> DEFINE s == startElectionTimer(Candidacy(raft[n], n))
      <4>2. s \in RaftState /\ s.term = raft[n].term + 1
        BY <3>0, CandidacyLemma, TimerLemma
      <4>3. raft' = [raft EXCEPT ![n] = s]
        BY <3>4 DEF startElection
      <4> HIDE DEF s
      <4>4. s.term > raft[n].term
        BY <3>0, <4>2
      <4>1. \A p \in Node : VoteKept(p)
        BY <4>2, <4>3, <4>4, OneNodeKept, Zenon
      <4> QED BY <3>4, <4>1, KeptVotes DEF startElection
    <3> QED BY <2>2, <3>1, <3>2, <3>3, <3>4 DEF TimerStep
  <2>3. ASSUME NEW n \in Node, NEW i \in DOMAIN loops[n], LoopStep(n, i) PROVE VoteInv'
    <3>1. UNCHANGED <<raft, granted, incarnation>>
      BY <2>3 DEF LoopStep, EnterSelect, LoopResigns, ReceiveTick, HeartbeatTick, LeaderJobTick,
                    historyVars
    <3> QED BY <3>1, KeptVotes DEF VoteKept
  <2>4. CASE UNCHANGED vars
    BY <2>4, KeptVotes DEF vars, historyVars, VoteKept
  <2> QED BY <2>1, <2>2, <2>3, <2>4, RestartKeepsVotes DEF Next
<1>3. VoteInv => VoteOncePerTerm
  BY DEF VoteInv
<1> QED BY <1>1, <1>2, <1>3, TypeCorrect, PTL DEF Spec

-----------------------------------------------------------------------------
(***************************************************************************)
(* The votes that are counted.  That a candidate counts no vote twice      *)
(* depends on the requests: one that is still to be handled has not been   *)
(* granted, because the terms a process asks in only grow until it is      *)
(* restarted.                                                              *)
(***************************************************************************)

\* A process that was not restarted has asked in its own and earlier terms only,
\* and the request a voter still has to handle is one it has granted no vote for.
RequestsAreNew ==
    /\ \A v \in granted :
         incarnation[v.candidate] = 0 => v.term <= raft[v.candidate].term
    /\ \A m \in msgs :
         m.type = "requestVote" /\ incarnation[m.from] = 0 =>
            /\ m.term <= raft[m.from].term
            /\ \A v \in granted :
                 ~(v.voter = m.to /\ v.candidate = m.from /\ v.term = m.term)

\* A reply on its way carries a granted vote to its candidate, which has not
\* counted it.
RepliesAreNew ==
    \A m \in msgs : m.type = "replyVote" =>
        /\ m.vote \in granted /\ m = sendReplyVote(m.vote)
        /\ incarnation[m.to] = 0 => m.vote \notin counted[m.to]

CountInv ==
    /\ RequestsAreNew /\ RepliesAreNew /\ VotesAreGranted
    /\ \A n \in Node : IsFiniteSet(counted[n])

\* Steps that only publish or handle messages of other kinds, and in which no
\* process restarts or counts a vote, keep the counts.
LEMMA QuietCount ==
    ASSUME TypeOK, TypeOK', CountInv,
           UNCHANGED <<granted, counted, incarnation>>,
           \A p \in Node : /\ raft'[p].votesReceived = raft[p].votesReceived
                           /\ raft'[p].term >= raft[p].term,
           \A m \in msgs' \ msgs : m.type = "heartbeat"
    PROVE  CountInv'
<1>0. \A p \in Node : raft[p].term \in Nat /\ raft'[p].term \in Nat
  BY DEF TypeOK, RaftState
<1>1. \A v \in granted : v.candidate \in Node /\ v.term \in Nat
  BY DEF TypeOK, Vote
<1>2. \A m \in msgs : m.type = "requestVote" => m.from \in Node /\ m.term \in Nat
  BY MessageKinds DEF TypeOK
<1>3. RequestsAreNew'
  BY <1>0, <1>1, <1>2 DEF CountInv, RequestsAreNew
<1>4. RepliesAreNew'
  BY DEF CountInv, RepliesAreNew
<1>5. VotesAreGranted' /\ \A n \in Node : IsFiniteSet(counted[n])'
  BY DEF CountInv, VotesAreGranted
<1> QED BY <1>3, <1>4, <1>5 DEF CountInv

\* Changing the state of one node, the term not lowered and the votes kept.
LEMMA OneNodeCounts ==
    ASSUME TypeOK, NEW n \in Node, NEW s \in RaftState,
           raft' = [raft EXCEPT ![n] = s],
           s.term >= raft[n].term, s.votesReceived = raft[n].votesReceived
    PROVE  \A p \in Node : /\ raft'[p].votesReceived = raft[p].votesReceived
                           /\ raft'[p].term >= raft[p].term
<1>1. \A p \in Node : raft[p].term \in Nat
  BY Zenon DEF TypeOK, RaftState
<1>2. \A p \in Node : raft'[p] = IF p = n THEN s ELSE raft[p]
  BY DEF TypeOK
<1> QED BY <1>1, <1>2

\* A granted vote is a new one, for a candidate that was not restarted.
LEMMA GrantCounts ==
    ASSUME TypeOK, TypeOK', CountInv, NEW m \in msgs, GrantVote(m)
    PROVE  CountInv'
<1> DEFINE n == m.to
           s == AfterTerm(raft[n], m.term)
           u == [s EXCEPT !.votedFor = m.from]
           vote == [voter |-> n, incarnation |-> incarnation[n], term |-> m.term,
                    candidate |-> m.from]
           reply == sendReplyVote(vote)
<1>0. /\ n \in Node /\ m.from \in Node /\ m.from \in Nat /\ m.term \in Nat
      /\ raft[n] \in RaftState /\ raft[n].term \in Nat /\ m \in RequestVotes
      /\ m.type = "requestVote" /\ m.term >= raft[n].term
  BY MessageKinds, NodeAssumption, Zenon DEF TypeOK, RaftState, GrantVote
<1>1. s \in RaftState /\ s.term = m.term /\ s.votesReceived = raft[n].votesReceived
  BY <1>0, AfterTermLemma
<1>2. /\ raft' = [raft EXCEPT ![n] = startElectionTimer(u)]
      /\ msgs' = (msgs \ {m}) \cup {reply} /\ granted' = granted \cup {vote}
      /\ UNCHANGED <<counted, incarnation>>
  BY <1>1 DEF GrantVote
<1> HIDE DEF s
<1>3. u \in RaftState /\ u.term = m.term /\ u.votesReceived = raft[n].votesReceived
  BY <1>0, <1>1 DEF RaftState
<1> HIDE DEF u
<1>4. \A p \in Node : /\ raft'[p].votesReceived = raft[p].votesReceived
                      /\ raft'[p].term >= raft[p].term
  <2> DEFINE w == startElectionTimer(u)
  <2>1. w \in RaftState /\ w.term >= raft[n].term /\ w.votesReceived = raft[n].votesReceived
    BY <1>0, <1>3, TimerLemma
  <2>2. raft' = [raft EXCEPT ![n] = w]
    BY <1>2
  <2> HIDE DEF w
  <2> QED BY <1>0, <2>1, <2>2, OneNodeCounts, Zenon
<1>5. /\ vote.voter = n /\ vote.term = m.term /\ vote.candidate = m.from
      /\ reply.type = "replyVote" /\ reply.vote = vote /\ reply.to = m.from
  BY DEF sendReplyVote
<1>6. incarnation[m.from] = 0 => vote \notin granted /\ m.term <= raft[m.from].term
  BY <1>0, <1>5 DEF CountInv, RequestsAreNew
<1>7. \A k \in msgs : k.type = "requestVote" => k \in RequestVotes
  BY MessageKinds DEF TypeOK
<1>8. \A k \in msgs \ {m} :
        k.type = "requestVote" => ~(k.from = m.from /\ k.to = n /\ k.term = m.term)
  BY <1>0, <1>7 DEF RequestVotes
<1> HIDE DEF vote, reply
<1>9. RequestsAreNew'
  <2>0. \A p \in Node : raft[p].term \in Nat /\ raft'[p].term \in Nat
    BY Zenon DEF TypeOK, RaftState
  <2>1. \A v \in granted : v.candidate \in Node /\ v.term \in Nat
    BY DEF TypeOK, Vote
  <2>2. \A k \in RequestVotes : k.from \in Node /\ k.term \in Nat
    BY DEF RequestVotes
  <2>3. ASSUME NEW v \in granted', incarnation'[v.candidate] = 0
        PROVE  v.term <= raft'[v.candidate].term
    <3>1. CASE v \in granted
      BY <1>2, <1>4, <2>0, <2>1, <2>3, <3>1 DEF CountInv, RequestsAreNew
    <3>2. CASE v = vote
      BY <1>0, <1>2, <1>4, <1>5, <1>6, <2>0, <2>3, <3>2
    <3> QED BY <1>2, <3>1, <3>2
  <2>4. ASSUME NEW k \in msgs', k.type = "requestVote", incarnation'[k.from] = 0
        PROVE  /\ k.term <= raft'[k.from].term
               /\ \A v \in granted' : ~(v.voter = k.to /\ v.candidate = k.from /\ v.term = k.term)
    <3>1. k \in msgs \ {m} /\ k \in RequestVotes
      BY <1>2, <1>5, <1>7, <2>4
    <3>2. k.term <= raft[k.from].term
          /\ \A v \in granted : ~(v.voter = k.to /\ v.candidate = k.from /\ v.term = k.term)
      BY <1>2, <2>4, <3>1 DEF CountInv, RequestsAreNew
    <3>3. k.term <= raft'[k.from].term
      BY <1>4, <2>0, <2>2, <3>1, <3>2
    <3> QED BY <1>2, <1>5, <1>8, <2>4, <3>1, <3>2, <3>3
  <2> QED BY <2>3, <2>4 DEF RequestsAreNew
<1>10. RepliesAreNew'
  <2> SUFFICES ASSUME NEW k \in msgs', k.type = "replyVote"
               PROVE  /\ k.vote \in granted' /\ k = sendReplyVote(k.vote)
                      /\ incarnation'[k.to] = 0 => k.vote \notin counted'[k.to]
    BY DEF RepliesAreNew
  <2>1. CASE k \in msgs
    BY <1>2, <2>1 DEF CountInv, RepliesAreNew
  <2>2. CASE k = reply
    <3>1. incarnation[m.from] = 0 => vote \notin counted[m.from]
      BY <1>0, <1>6 DEF CountInv, VotesAreGranted
    <3> QED BY <1>2, <1>5, <2>2, <3>1 DEF reply
  <2> QED BY <1>2, <2>1, <2>2
<1>11. VotesAreGranted' /\ \A p \in Node : IsFiniteSet(counted[p])'
  BY <1>2, <1>4 DEF CountInv, VotesAreGranted
<1> QED BY <1>9, <1>10, <1>11 DEF CountInv

\* A candidate that counts a vote has not counted it before.
LEMMA ReplyCounts ==
    ASSUME TypeOK, TypeOK', CountInv, NEW m \in msgs,
           NEW peers \in PeerCounts, handleReplyVote(m, peers)
    PROVE  CountInv'
<1> DEFINE n == m.to
           s == OneVote(raft[n])
           l == Len(loops[n]) + 1
           u == IF s.votesReceived >= VotesNeeded(peers) THEN setLeaderState(s, n, l) ELSE s
<1>0. /\ n \in Node /\ raft[n] \in RaftState /\ raft[n].term \in Nat /\ l \in Nat
      /\ m.type = "replyVote" /\ raft[n].votesReceived \in Nat
  <2>1. n \in Node /\ raft[n] \in RaftState /\ loops[n] \in Seq(LoopState)
    BY MessageKinds DEF TypeOK
  <2>2. m.type = "replyVote"
    BY DEF handleReplyVote
  <2> QED BY <2>1, <2>2 DEF RaftState
<1>1. /\ s \in RaftState /\ s.term = raft[n].term
      /\ s.votesReceived = raft[n].votesReceived + 1
  BY <1>0, CountingLemma
<1>2. /\ raft' = [raft EXCEPT ![n] = u] /\ msgs' = msgs \ {m}
      /\ counted' = [counted EXCEPT ![n] = counted[n] \cup {m.vote}]
      /\ UNCHANGED <<granted, incarnation>>
  BY DEF handleReplyVote
<1> HIDE DEF s, l
<1>3. /\ u.term >= raft[n].term /\ u.votesReceived = raft[n].votesReceived + 1
  <2>1. /\ setLeaderState(s, n, l).term = s.term + 1
        /\ setLeaderState(s, n, l).votesReceived = s.votesReceived
    BY <1>0, <1>1, LeaderStateLemma, Zenon
  <2> QED BY <1>0, <1>1, <2>1
<1> HIDE DEF u
<1>4. /\ \A p \in Node \ {n} : raft'[p] = raft[p] /\ counted'[p] = counted[p]
      /\ raft'[n] = u /\ counted'[n] = counted[n] \cup {m.vote}
  BY <1>0, <1>2 DEF TypeOK
<1>5. /\ m.vote \in granted /\ m = sendReplyVote(m.vote) /\ m.vote.candidate = n
      /\ incarnation[n] = 0 => m.vote \notin counted[n]
  BY <1>0 DEF CountInv, RepliesAreNew, sendReplyVote
<1>6. RequestsAreNew'
  <2>0. \A p \in Node : raft[p].term \in Nat /\ raft'[p].term \in Nat
    BY Zenon DEF TypeOK, RaftState
  <2>1. \A p \in Node : raft'[p].term >= raft[p].term
    BY <1>3, <1>4, <2>0
  <2>2. \A v \in granted : v.candidate \in Node /\ v.term \in Nat
    BY DEF TypeOK, Vote
  <2>3. \A k \in msgs : k.type = "requestVote" => k.from \in Node /\ k.term \in Nat
    BY MessageKinds DEF TypeOK
  <2> QED BY <1>2, <2>0, <2>1, <2>2, <2>3 DEF CountInv, RequestsAreNew
<1>7. RepliesAreNew'
  <2> SUFFICES ASSUME NEW k \in msgs', k.type = "replyVote"
               PROVE  /\ k.vote \in granted' /\ k = sendReplyVote(k.vote)
                      /\ incarnation'[k.to] = 0 => k.vote \notin counted'[k.to]
    BY DEF RepliesAreNew
  <2>1. /\ k \in msgs /\ k # m /\ k.to \in Node
        /\ k.vote \in granted /\ k = sendReplyVote(k.vote)
        /\ incarnation[k.to] = 0 => k.vote \notin counted[k.to]
    BY <1>2, MessageKinds DEF TypeOK, CountInv, RepliesAreNew
  <2>2. k.vote # m.vote
    BY <1>5, <2>1
  <2> QED BY <1>2, <1>4, <2>1, <2>2
<1>8. ASSUME NEW p \in Node
      PROVE  /\ incarnation'[p] = 0 => raft'[p].votesReceived = Cardinality(counted'[p])
             /\ counted'[p] \subseteq {v \in granted' : v.candidate = p}
             /\ IsFiniteSet(counted'[p])
  <2>1. CASE p = n
    <3>1. /\ IsFiniteSet(counted[n]) /\ counted[n] \subseteq {v \in granted : v.candidate = n}
          /\ incarnation[n] = 0 => raft[n].votesReceived = Cardinality(counted[n])
      BY <1>0 DEF CountInv, VotesAreGranted
    <3>2. /\ IsFiniteSet(counted[n] \cup {m.vote})
          /\ m.vote \notin counted[n] =>
                Cardinality(counted[n] \cup {m.vote}) = Cardinality(counted[n]) + 1
      BY <3>1, FS_AddElement, Zenon
    <3> QED BY <1>2, <1>3, <1>4, <1>5, <2>1, <3>1, <3>2, Zenon
  <2>2. CASE p # n
    BY <1>2, <1>4, <2>2 DEF CountInv, VotesAreGranted
  <2> QED BY <2>1, <2>2
<1> QED BY <1>6, <1>7, <1>8 DEF CountInv, VotesAreGranted

\* A new candidacy starts without votes and asks in a term it has not asked in.
LEMMA ElectionCounts ==
    ASSUME TypeOK, TypeOK', CountInv, NEW n \in Node, startElection(n)
    PROVE  CountInv'
<1> DEFINE s == startElectionTimer(Candidacy(raft[n], n))
           t == raft[n].term + 1
<1>0. raft[n] \in RaftState /\ raft[n].term \in Nat /\ t \in Nat
  <2>1. raft[n] \in RaftState
    BY DEF TypeOK
  <2> QED BY <2>1 DEF RaftState
<1>1. s \in RaftState /\ s.term = t /\ s.votesReceived = 0
  BY <1>0, CandidacyLemma, TimerLemma
<1>2. /\ raft' = [raft EXCEPT ![n] = s] /\ msgs' = msgs \cup sendRequestVote(n, t)
      /\ counted' = [counted EXCEPT ![n] = {}]
      /\ UNCHANGED <<granted, incarnation>>
  BY DEF startElection
<1> HIDE DEF s
<1>3. /\ \A p \in Node \ {n} : raft'[p] = raft[p] /\ counted'[p] = counted[p]
      /\ raft'[n] = s /\ counted'[n] = {}
  BY <1>2 DEF TypeOK
<1>4. \A k \in sendRequestVote(n, t) : k.type = "requestVote" /\ k.from = n /\ k.term = t
  BY DEF sendRequestVote
<1>5. \A p \in Node : raft[p].term \in Nat /\ raft'[p].term \in Nat /\ raft'[p].term >= raft[p].term
  <2>1. \A p \in Node : raft[p].term \in Nat /\ raft'[p].term \in Nat
    BY Zenon DEF TypeOK, RaftState
  <2> QED BY <1>1, <1>3, <2>1
<1> HIDE DEF t
<1>6. RequestsAreNew'
  <2>1. \A v \in granted : v.candidate \in Node /\ v.term \in Nat
    BY Zenon DEF TypeOK, Vote
  <2>2. \A k \in msgs : k.type = "requestVote" => k.from \in Node /\ k.term \in Nat
    BY MessageKinds DEF TypeOK
  <2>3. ASSUME NEW v \in granted', incarnation'[v.candidate] = 0
        PROVE  v.term <= raft'[v.candidate].term
    BY <1>2, <1>5, <2>1, <2>3 DEF CountInv, RequestsAreNew
  <2>4. ASSUME NEW k \in msgs', k.type = "requestVote", incarnation'[k.from] = 0
        PROVE  /\ k.term <= raft'[k.from].term
               /\ \A v \in granted' : ~(v.voter = k.to /\ v.candidate = k.from /\ v.term = k.term)
    <3>1. CASE k \in msgs
      BY <1>2, <1>5, <2>2, <2>4, <3>1 DEF CountInv, RequestsAreNew
    <3>2. CASE k \in sendRequestVote(n, t)
      <4>1. k.from = n /\ k.term = t /\ raft'[n].term = t /\ incarnation[n] = 0
        BY <1>1, <1>2, <1>3, <1>4, <2>4, <3>2
      <4>2. \A v \in granted : v.candidate = n => v.term <= raft[n].term
        BY <4>1 DEF CountInv, RequestsAreNew
      <4>3. \A v \in granted : v.candidate = n => v.term # t
        BY <1>0, <2>1, <4>2 DEF t
      <4> QED BY <1>0, <1>2, <4>1, <4>3
    <3> QED BY <1>2, <3>1, <3>2
  <2> QED BY <2>3, <2>4 DEF RequestsAreNew
<1>7. RepliesAreNew'
  <2> SUFFICES ASSUME NEW k \in msgs', k.type = "replyVote"
               PROVE  /\ k.vote \in granted' /\ k = sendReplyVote(k.vote)
                      /\ incarnation'[k.to] = 0 => k.vote \notin counted'[k.to]
    BY DEF RepliesAreNew
  <2>1. k \in msgs /\ k.to \in Node
    BY <1>2, <1>4, MessageKinds DEF TypeOK
  <2> QED BY <1>2, <1>3, <2>1 DEF CountInv, RepliesAreNew
<1>8. ASSUME NEW p \in Node
      PROVE  /\ incarnation'[p] = 0 => raft'[p].votesReceived = Cardinality(counted'[p])
             /\ counted'[p] \subseteq {v \in granted' : v.candidate = p}
             /\ IsFiniteSet(counted'[p])
  <2>1. CASE p = n
    BY <1>1, <1>3, <2>1, FS_EmptySet
  <2>2. CASE p # n
    BY <1>2, <1>3, <2>2 DEF CountInv, VotesAreGranted
  <2> QED BY <2>1, <2>2
<1> QED BY <1>6, <1>7, <1>8 DEF CountInv, VotesAreGranted

\* A restarted candidate counts anew, and nothing is promised of its count.
LEMMA RestartCounts ==
    ASSUME TypeOK, TypeOK', CountInv, NEW n \in Node, Restart(n)
    PROVE  CountInv'
<1>1. /\ \A p \in Node \ {n} : /\ raft'[p] = raft[p] /\ counted'[p] = counted[p]
                               /\ incarnation'[p] = incarnation[p]
      /\ counted'[n] = {} /\ incarnation'[n] # 0
      /\ msgs' \subseteq msgs /\ \A k \in msgs' : k.to # n
      /\ granted' = granted
  BY DEF Restart, TypeOK
<1>2. RequestsAreNew'
  <2>1. \A v \in granted : v.candidate \in Node
    BY DEF TypeOK, Vote
  <2>2. \A k \in msgs : k.from \in Node
    BY MessageKinds DEF TypeOK
  <2> QED BY <1>1, <2>1, <2>2 DEF CountInv, RequestsAreNew
<1>3. RepliesAreNew'
  <2>1. \A k \in msgs : k.to \in Node
    BY MessageKinds DEF TypeOK
  <2> QED BY <1>1, <2>1 DEF CountInv, RepliesAreNew
<1>4. ASSUME NEW p \in Node
      PROVE  /\ incarnation'[p] = 0 => raft'[p].votesReceived = Cardinality(counted'[p])
             /\ counted'[p] \subseteq {v \in granted' : v.candidate = p}
             /\ IsFiniteSet(counted'[p])
  BY <1>1, FS_EmptySet, Zenon DEF CountInv, VotesAreGranted
<1> QED BY <1>2, <1>3, <1>4 DEF CountInv, VotesAreGranted

\* The handlers that count no vote and grant none keep the counts.
LEMMA HandleCounts ==
    ASSUME TypeOK, TypeOK', CountInv, NEW m \in msgs, Handle(m)
    PROVE  CountInv'
<1> DEFINE n == m.to
<1>0. m \in Message /\ n \in Node /\ raft[n] \in RaftState
  BY MessageKinds DEF TypeOK
<1>1. CASE handleHeartbeat(m)
  <2> DEFINE s == AfterHeartbeat(raft[n], m)
  <2>1. m \in Heartbeats
    BY <1>0, <1>1, MessageKinds DEF handleHeartbeat
  <2>2. s \in RaftState /\ s.term >= raft[n].term /\ s.votesReceived = raft[n].votesReceived
    BY <1>0, <2>1, HeartbeatLemma
  <2>3. /\ raft' = [raft EXCEPT ![n] = s] /\ msgs' \subseteq msgs
        /\ UNCHANGED <<granted, counted, incarnation>>
    BY <1>1 DEF handleHeartbeat, historyVars
  <2> HIDE DEF s
  <2>4. \A p \in Node : /\ raft'[p].votesReceived = raft[p].votesReceived
                        /\ raft'[p].term >= raft[p].term
    BY <1>0, <2>2, <2>3, OneNodeCounts, Zenon
  <2> QED BY <2>3, <2>4, QuietCount
<1>2. CASE IgnoreRequestVote(m) \/ IgnoreReplyVote(m)
  <2>1. UNCHANGED <<raft, granted, counted, incarnation>> /\ msgs' \subseteq msgs
    BY <1>2 DEF IgnoreRequestVote, IgnoreReplyVote, historyVars
  <2>2. \A p \in Node : raft[p].term \in Nat
    BY Zenon DEF TypeOK, RaftState
  <2>3. \A p \in Node : /\ raft'[p].votesReceived = raft[p].votesReceived
                        /\ raft'[p].term >= raft[p].term
    BY <2>1, <2>2
  <2> QED BY <2>1, <2>3, QuietCount
<1>3. CASE RefuseVote(m)
  <2> DEFINE s == AfterTerm(raft[n], m.term)
             u == IF YieldsToRival(s, m) THEN [s EXCEPT !.role = "follower"] ELSE s
  <2>1. m.term \in Nat /\ m.term >= raft[n].term
    BY <1>0, <1>3, MessageKinds DEF RefuseVote
  <2>2. s \in RaftState /\ s.term = m.term /\ s.votesReceived = raft[n].votesReceived
    BY <1>0, <2>1, AfterTermLemma
  <2> HIDE DEF s
  <2>3. u \in RaftState /\ u.term = m.term /\ u.votesReceived = raft[n].votesReceived
    BY <2>2 DEF RaftState, RoleType
  <2>4. /\ raft' = [raft EXCEPT ![n] = u] /\ msgs' \subseteq msgs
        /\ UNCHANGED <<granted, counted, incarnation>>
    BY <1>3 DEF RefuseVote, historyVars, s
  <2> HIDE DEF u
  <2>5. u.term >= raft[n].term
    BY <2>1, <2>3
  <2>6. \A p \in Node : /\ raft'[p].votesReceived = raft[p].votesReceived
                        /\ raft'[p].term >= raft[p].term
    BY <1>0, <2>3, <2>4, <2>5, OneNodeCounts, Zenon
  <2> QED BY <2>4, <2>6, QuietCount
<1> QED BY <1>1, <1>2, <1>3, GrantCounts, ReplyCounts DEF Handle

\* So do the steps of the election timer, a new candidacy included.
LEMMA TimerCounts ==
    ASSUME TypeOK, TypeOK', CountInv, NEW n \in Node, TimerStep(n)
    PROVE  CountInv'
<1>0. raft[n] \in RaftState /\ raft[n].term \in Nat
  BY DEF TypeOK, RaftState
<1>1. ASSUME NEW s \in RaftState, raft' = [raft EXCEPT ![n] = s],
             s.term = raft[n].term, s.votesReceived = raft[n].votesReceived,
             UNCHANGED <<granted, counted, incarnation, msgs>>
      PROVE  CountInv'
  <2>1. s.term >= raft[n].term
    BY <1>0, <1>1
  <2>2. \A p \in Node : /\ raft'[p].votesReceived = raft[p].votesReceived
                        /\ raft'[p].term >= raft[p].term
    BY <1>1, <2>1, OneNodeCounts, Zenon
  <2> QED BY <1>1, <2>2, QuietCount
<1>2. CASE ElectionTimerTicks(n)
  <2> DEFINE s == [raft[n] EXCEPT !.timer = FALSE]
  <2>1. s \in RaftState /\ s.term = raft[n].term /\ s.votesReceived = raft[n].votesReceived
    BY <1>0, Zenon DEF RaftState
  <2>2. raft' = [raft EXCEPT ![n] = s] /\ UNCHANGED <<granted, counted, incarnation, msgs>>
    BY <1>2 DEF ElectionTimerTicks, historyVars
  <2> HIDE DEF s
  <2> QED BY <1>1, <2>1, <2>2, Zenon
<1>3. CASE MissHeartbeat(n)
  <2> DEFINE s == startElectionTimer(OneMissed(raft[n]))
  <2>1. s \in RaftState /\ s.term = raft[n].term /\ s.votesReceived = raft[n].votesReceived
    BY <1>0, CountingLemma, TimerLemma
  <2>2. raft' = [raft EXCEPT ![n] = s] /\ UNCHANGED <<granted, counted, incarnation, msgs>>
    BY <1>3 DEF MissHeartbeat, historyVars
  <2> HIDE DEF s
  <2> QED BY <1>1, <2>1, <2>2, Zenon
<1>4. CASE SkipElection(n)
  <2> DEFINE s == startElectionTimer(raft[n])
  <2>1. s \in RaftState /\ s.term = raft[n].term /\ s.votesReceived = raft[n].votesReceived
    BY <1>0, TimerLemma
  <2>2. raft' = [raft EXCEPT ![n] = s] /\ UNCHANGED <<granted, counted, incarnation, msgs>>
    BY <1>4 DEF SkipElection, historyVars
  <2> HIDE DEF s
  <2> QED BY <1>1, <2>1, <2>2, Zenon
<1> QED BY <1>2, <1>3, <1>4, ElectionCounts DEF TimerStep

\* What a node counts are different votes, all granted to it and as many as
\* VotesReceived says, until its process is restarted.
THEOREM CountedAreGranted == Spec => []VotesAreGranted
<1>1. Init => CountInv
  <2> SUFFICES ASSUME Init PROVE CountInv
    OBVIOUS
  <2>1. \A n \in Node : raft[n].votesReceived = 0 /\ counted[n] = {}
    BY DEF Init, startElectionTimer, NewRaftNode
  <2> QED BY <2>1, FS_EmptySet
        DEF Init, CountInv, RequestsAreNew, RepliesAreNew, VotesAreGranted
<1>2. TypeOK /\ TypeOK' /\ CountInv /\ [Next]_vars => CountInv'
  <2> SUFFICES ASSUME TypeOK, TypeOK', CountInv, [Next]_vars PROVE CountInv'
    OBVIOUS
  <2>0. \A p \in Node : raft[p].term \in Nat
    BY Zenon DEF TypeOK, RaftState
  <2>1. ASSUME NEW n \in Node, NEW i \in DOMAIN loops[n], LoopStep(n, i) PROVE CountInv'
    <3>1. UNCHANGED <<raft, granted, counted, incarnation>>
      BY <2>1 DEF LoopStep, EnterSelect, LoopResigns, ReceiveTick, HeartbeatTick, LeaderJobTick,
                    historyVars
    <3>2. \A m \in msgs' \ msgs : m.type = "heartbeat"
      BY <2>1 DEF LoopStep, EnterSelect, LoopResigns, HeartbeatTick, LeaderJobTick, sendHeartbeat
    <3> QED BY <2>0, <3>1, <3>2, QuietCount
  <2>2. CASE UNCHANGED vars
    <3>1. UNCHANGED <<raft, msgs, granted, counted, incarnation>>
      BY <2>2 DEF vars, historyVars
    <3>2. \A p \in Node : /\ raft'[p].votesReceived = raft[p].votesReceived
                          /\ raft'[p].term >= raft[p].term
      BY <2>0, <3>1
    <3> QED BY <3>1, <3>2, QuietCount, Zenon
  <2> QED BY <2>1, <2>2, HandleCounts, TimerCounts, RestartCounts DEF Next
<1>3. CountInv => VotesAreGranted
  BY DEF CountInv
<1> QED BY <1>1, <1>2, <1>3, TypeCorrect, PTL DEF Spec

=============================================================================
