------------------------ MODULE RaftLeadershipProofs ------------------------
(***************************************************************************)
(* Leader election implements Leadership, and a leader is always driven by *)
(* a running loop that a resignation can still stop.                       *)
(***************************************************************************)
EXTENDS RaftProofs

-----------------------------------------------------------------------------
(* What the handlers do to role, leader and Resign channel.                *)

\* ResignLeader does nothing without a channel and steps down with one.
LEMMA ResignFields ==
    ASSUME NEW s \in RaftState
    PROVE  /\ s.resign = None => ResignLeader(s) = s
           /\ s.resign # None => /\ ResignLeader(s).resign = None
                                 /\ ResignLeader(s).role = "follower"
                                 /\ ResignLeader(s).leaderID = None
<1> DEFINE r == [s EXCEPT !.resign = None, !.role = "follower", !.leaderID = None]
<1>1. /\ r \in RaftState
      /\ r.resign = None /\ r.role = "follower" /\ r.leaderID = None
  BY Zenon DEF RaftState, RoleType, None
<1>2. s.resign # None => ResignLeader(s) = startElectionTimer(r)
  BY DEF ResignLeader
<1> HIDE DEF r
<1>3. s.resign = None => ResignLeader(s) = s
  BY DEF ResignLeader
<1> QED BY <1>1, <1>2, <1>3, TimerLemma

\* A heartbeat either makes the node follow its sender, no leader any more, or
\* changes neither role nor leader; the channel goes exactly when a leader resigns.
LEMMA HeartbeatFields ==
    ASSUME NEW s \in RaftState, NEW m \in Heartbeats,
           s.role = "leader" => s.resign # None
    PROVE  LET a == AfterHeartbeat(s, m) IN
           /\ Follows(s, m) => a.leaderID = m.from /\ a.role # "leader"
           /\ ~Follows(s, m) => a.leaderID = s.leaderID /\ a.role = s.role
           /\ Resigns(s, m) => a.resign = None
           /\ ~Resigns(s, m) => a.resign = s.resign
           /\ a.role = "leader" => s.role = "leader" /\ ~Resigns(s, m) /\ ~Follows(s, m)
<1> DEFINE h == [s EXCEPT !.missedHeartbeats = 0,
                          !.timer = IF s.role = "follower" THEN TRUE ELSE @]
           y == IF Resigns(s, m) THEN ResignLeader(h) ELSE h
           a == [y EXCEPT !.term = m.term, !.role = "follower", !.leaderID = m.from]
           b == [y EXCEPT !.leaderID = m.from]
<1>1. /\ h \in RaftState /\ h.role = s.role /\ h.leaderID = s.leaderID
      /\ h.resign = s.resign
  BY Zenon DEF RaftState
<1>2. AfterHeartbeat(s, m) = IF m.term > s.term THEN a ELSE IF Follows(s, m) THEN b ELSE y
  BY DEF AfterHeartbeat
<1> HIDE DEF h
<1>3. /\ y \in RaftState
      /\ Resigns(s, m) => y.resign = None /\ y.role = "follower"
      /\ ~Resigns(s, m) => y.resign = s.resign /\ y.role = s.role /\ y.leaderID = s.leaderID
  BY <1>1, ResignFields, ResignLemma DEF Resigns
<1> HIDE DEF y
<1>4. /\ a.role = "follower" /\ a.leaderID = m.from /\ a.resign = y.resign
      /\ b.role = y.role /\ b.leaderID = m.from /\ b.resign = y.resign
  BY <1>3 DEF RaftState
<1> HIDE DEF a, b
<1>5. s.term \in Nat /\ m.term \in Nat
  BY DEF RaftState, Heartbeats
<1>6. /\ m.term > s.term => Follows(s, m)
      /\ Resigns(s, m) => Follows(s, m)
      /\ Follows(s, m) /\ ~(m.term > s.term) /\ s.role = "leader" => Resigns(s, m)
  BY <1>5 DEF Follows, Resigns
<1>7. CASE m.term > s.term
  BY <1>2, <1>3, <1>4, <1>6, <1>7
<1>8. CASE ~(m.term > s.term) /\ Follows(s, m)
  BY <1>2, <1>3, <1>4, <1>6, <1>8
<1>9. CASE ~(m.term > s.term) /\ ~Follows(s, m)
  BY <1>2, <1>3, <1>6, <1>9
<1> QED BY <1>7, <1>8, <1>9

\* Only setLeaderState makes a leader, with a channel and itself as leader.
LEMMA LeaderStateFields ==
    ASSUME NEW s \in RaftState, NEW n \in Node, NEW l \in Nat
    PROVE  /\ setLeaderState(s, n, l).role = "leader"
           /\ setLeaderState(s, n, l).leaderID = n
           /\ setLeaderState(s, n, l).resign = l
BY DEF setLeaderState, RaftState

\* The other steps of a handler leave leader and channel alone and make no leader.
LEMMA OtherFields ==
    ASSUME NEW s \in RaftState, NEW n \in Node, NEW t \in Nat
    PROVE  /\ Candidacy(s, n).role = "candidate"
           /\ Candidacy(s, n).leaderID = s.leaderID /\ Candidacy(s, n).resign = s.resign
           /\ OneVote(s).role = s.role /\ OneMissed(s).role = s.role
           /\ OneVote(s).leaderID = s.leaderID /\ OneMissed(s).leaderID = s.leaderID
           /\ OneVote(s).resign = s.resign /\ OneMissed(s).resign = s.resign
           /\ AfterTerm(s, t).role \in {"follower", s.role}
           /\ AfterTerm(s, t).leaderID = s.leaderID /\ AfterTerm(s, t).resign = s.resign
BY DEF Candidacy, OneVote, OneMissed, AfterTerm, RaftState

-----------------------------------------------------------------------------
(***************************************************************************)
(* The inductive invariant.  Resign channels are numbered by loop, so the  *)
(* open channel of a leader is the number of its newest loop, which is     *)
(* waiting on it or will when it next enters its select; every closed      *)
(* channel belongs to a loop that exists.                                  *)
(***************************************************************************)

Steerable(s, q, c) ==
    /\ c \subseteq 1..Len(q)
    /\ s.resign # None =>
         /\ s.resign = Len(q) /\ s.resign \notin c
         /\ q[Len(q)].pc # "done" /\ q[Len(q)].resign \in {None, s.resign}
    /\ s.role = "leader" => s.resign # None

NodeInv(n) ==
    /\ Steerable(raft[n], loops[n], closed[n])
    /\ raft[n].role = "leader" => raft[n].leaderID = n
    /\ loops[n] # <<>> => n \in led

MsgInv == \A m \in msgs : m.type = "heartbeat" => m.from \in led \ {m.to}

DriveInv == (\A n \in Node : NodeInv(n)) /\ MsgInv

LeadershipStep == L!Next \/ UNCHANGED L!leadershipVars

\* The invariant implies that leaders are driven.
LEMMA DrivenLeaders == ASSUME TypeOK, DriveInv PROVE LeaderIsDriven
<1> SUFFICES ASSUME NEW n \in Node, raft[n].role = "leader"
             PROVE  /\ raft[n].resign # None
                    /\ raft[n].resign \notin closed[n]
                    /\ loops[n][Len(loops[n])].pc # "done"
                    /\ loops[n][Len(loops[n])].resign \notin closed[n]
  BY DEF LeaderIsDriven
<1>1. Steerable(raft[n], loops[n], closed[n]) /\ None \notin 1..Len(loops[n])
  BY DEF DriveInv, NodeInv, None
<1> QED BY <1>1 DEF Steerable

\* A step that leaves leader, channel and leadership of one node as they are, and
\* everything else about leadership, preserves the invariant and is a stutter.
LEMMA SameLeader ==
    ASSUME TypeOK, DriveInv, NEW n \in Node, NEW s \in RaftState,
           raft' = [raft EXCEPT ![n] = s], UNCHANGED <<loops, closed, led>>,
           s.leaderID = raft[n].leaderID, s.resign = raft[n].resign,
           s.role = "leader" <=> raft[n].role = "leader",
           \A m \in msgs' : m.type = "heartbeat" => m \in msgs
    PROVE  DriveInv' /\ LeadershipStep
<1>1. \A p \in Node : /\ raft'[p].leaderID = raft[p].leaderID
                      /\ raft'[p].resign = raft[p].resign
                      /\ raft'[p].role = "leader" <=> raft[p].role = "leader"
  BY DEF TypeOK
<1>2. leaderIDs' = leaderIDs /\ leaders' = leaders /\ driven' = driven
  BY <1>1 DEF leaderIDs, leaders, driven
<1>3. UNCHANGED L!leadershipVars
  BY <1>2 DEF L!leadershipVars
<1>4. \A p \in Node : NodeInv(p)'
  BY <1>1 DEF DriveInv, NodeInv, Steerable
<1>5. MsgInv'
  BY DEF DriveInv, MsgInv
<1> QED BY <1>3, <1>4, <1>5 DEF DriveInv, LeadershipStep

\* A step that changes nothing about leadership.
LEMMA SameAll ==
    ASSUME TypeOK, DriveInv, UNCHANGED <<raft, loops, closed, led>>,
           \A m \in msgs' : m.type = "heartbeat" => m \in msgs
    PROVE  DriveInv' /\ LeadershipStep
BY DEF DriveInv, NodeInv, MsgInv, LeadershipStep, L!leadershipVars, leaderIDs, leaders, driven

\* A heartbeat makes its receiver follow the sender or changes no leadership.
LEMMA HeartbeatLead ==
    ASSUME TypeOK, DriveInv, NEW m \in msgs, handleHeartbeat(m)
    PROVE  DriveInv' /\ LeadershipStep
<1> DEFINE n == m.to
           a == AfterHeartbeat(raft[n], m)
<1>1. /\ n \in Node /\ m.from \in Node /\ m \in Heartbeats /\ raft[n] \in RaftState
      /\ m.from \in led \ {n}
  BY MessageKinds DEF handleHeartbeat, TypeOK, DriveInv, MsgInv
<1>2. NodeInv(n) /\ (raft[n].role = "leader" => raft[n].resign # None)
  BY <1>1 DEF DriveInv, NodeInv, Steerable
<1>3. a \in RaftState
  BY <1>1, HeartbeatLemma
<1>4. /\ Follows(raft[n], m) => a.leaderID = m.from /\ a.role # "leader"
      /\ ~Follows(raft[n], m) => a.leaderID = raft[n].leaderID /\ a.role = raft[n].role
      /\ Resigns(raft[n], m) => a.resign = None
      /\ ~Resigns(raft[n], m) => a.resign = raft[n].resign
      /\ a.role = "leader" => /\ raft[n].role = "leader"
                              /\ ~Resigns(raft[n], m) /\ ~Follows(raft[n], m)
  BY <1>1, <1>2, HeartbeatFields
<1>5. /\ raft' = [raft EXCEPT ![n] = a]
      /\ closed' = [closed EXCEPT ![n] = IF Resigns(raft[n], m)
                                         THEN @ \cup ({raft[n].resign} \ {None}) ELSE @]
      /\ UNCHANGED <<loops, led>> /\ msgs' \subseteq msgs
  BY DEF handleHeartbeat, historyVars
<1> HIDE DEF a
<1>6. raft'[n] = a /\ \A p \in Node \ {n} : raft'[p] = raft[p] /\ closed'[p] = closed[p]
  BY <1>1, <1>5 DEF TypeOK
<1>7. NodeInv(n)'
  <2>1. Steerable(a, loops[n], closed'[n])
    <3>1. CASE Resigns(raft[n], m)
      <4>1. closed'[n] = closed[n] \cup ({raft[n].resign} \ {None})
        BY <1>1, <1>5, <3>1 DEF TypeOK
      <4>2. raft[n].resign # None => raft[n].resign \in 1..Len(loops[n])
        <5>1. raft[n].resign # None => raft[n].resign = Len(loops[n])
          BY <1>2 DEF NodeInv, Steerable
        <5>2. raft[n].resign \in Nat /\ Len(loops[n]) \in Nat
          <6>1. loops[n] \in Seq(LoopState)
            BY <1>1 DEF TypeOK
          <6> QED BY <1>1, <6>1 DEF RaftState
        <5> QED BY <5>1, <5>2 DEF None
      <4> QED BY <1>2, <1>4, <3>1, <4>1, <4>2 DEF NodeInv, Steerable
    <3>2. CASE ~Resigns(raft[n], m)
      <4>1. closed'[n] = closed[n]
        BY <1>1, <1>5, <3>2 DEF TypeOK
      <4> QED BY <1>2, <1>4, <3>2, <4>1 DEF NodeInv, Steerable
    <3> QED BY <3>1, <3>2
  <2> QED BY <1>2, <1>4, <1>5, <1>6, <2>1 DEF NodeInv
<1>8. \A p \in Node \ {n} : NodeInv(p)'
  BY <1>5, <1>6 DEF DriveInv, NodeInv
<1>9. MsgInv'
  BY <1>5 DEF DriveInv, MsgInv
<1>10. driven' = driven
  BY <1>5 DEF driven
<1>11. ASSUME Follows(raft[n], m) PROVE LeadershipStep
  <2>1. leaderIDs' = [leaderIDs EXCEPT ![n] = m.from] /\ leaders' = leaders \ {n}
    BY <1>1, <1>4, <1>6, <1>11, Zenon DEF leaderIDs, leaders
  <2>2. L!Follow(n, m.from)
    BY <1>1, <1>5, <1>10, <2>1 DEF L!Follow
  <2> QED BY <1>1, <2>2 DEF L!Next, LeadershipStep
<1>12. ASSUME ~Follows(raft[n], m) PROVE LeadershipStep
  <2>1. leaderIDs' = leaderIDs /\ leaders' = leaders
    BY <1>1, <1>4, <1>6, <1>12 DEF leaderIDs, leaders
  <2> QED BY <1>5, <1>10, <2>1 DEF LeadershipStep, L!leadershipVars
<1> QED BY <1>7, <1>8, <1>9, <1>11, <1>12 DEF DriveInv

\* Counting a vote makes the node win or changes no leadership.
LEMMA ReplyLead ==
    ASSUME TypeOK, DriveInv, NEW m \in msgs, NEW peers \in PeerCounts,
           handleReplyVote(m, peers)
    PROVE  DriveInv' /\ LeadershipStep
<1> DEFINE n == m.to
           s == OneVote(raft[n])
           l == Len(loops[n]) + 1
           u == setLeaderState(s, n, l)
<1>1. /\ n \in Node /\ raft[n] \in RaftState /\ raft[n].role = "candidate"
      /\ loops[n] \in Seq(LoopState) /\ l \in Nat
  BY MessageKinds DEF handleReplyVote, TypeOK
<1>2. /\ s \in RaftState /\ s.role = raft[n].role /\ s.leaderID = raft[n].leaderID
      /\ s.resign = raft[n].resign
  BY <1>1, CountingLemma, OtherFields
<1>3. CASE s.votesReceived >= VotesNeeded(peers)
  <2>1. /\ raft' = [raft EXCEPT ![n] = u]
        /\ loops' = [loops EXCEPT ![n] = Append(@, AtLoopTop)]
        /\ led' = led \cup {n} /\ UNCHANGED closed /\ msgs' \subseteq msgs
    BY <1>3, Zenon DEF handleReplyVote
  <2> HIDE DEF s
  <2>2. u.role = "leader" /\ u.leaderID = n /\ u.resign = l
    BY <1>1, <1>2, LeaderStateFields
  <2> HIDE DEF u
  <2>3. /\ raft'[n] = u /\ loops'[n] = Append(loops[n], AtLoopTop)
        /\ \A p \in Node \ {n} : raft'[p] = raft[p] /\ loops'[p] = loops[p]
    BY <1>1, <2>1 DEF TypeOK
  <2>4. /\ Len(loops'[n]) = l /\ loops'[n][l] = AtLoopTop /\ l \in DOMAIN loops'[n]
        /\ closed[n] \subseteq 1..Len(loops[n])
    BY <1>1, <2>3, LoopStates DEF DriveInv, NodeInv, Steerable
  <2>5. l \notin closed[n] /\ closed[n] \subseteq 1..l /\ l # None
    BY <1>1, <2>4 DEF None
  <2>6. AtLoopTop.pc # "done" /\ AtLoopTop.resign = None
    BY DEF AtLoopTop
  <2>7. NodeInv(n)'
    BY <1>1, <2>1, <2>2, <2>3, <2>4, <2>5, <2>6 DEF NodeInv, Steerable
  <2>8. \A p \in Node \ {n} : NodeInv(p)'
    BY <2>1, <2>3 DEF DriveInv, NodeInv
  <2>9. MsgInv'
    BY <2>1 DEF DriveInv, MsgInv
  <2>10. leaderIDs' = [leaderIDs EXCEPT ![n] = n] /\ leaders' = leaders \cup {n}
    BY <1>1, <2>2, <2>3, Zenon DEF leaderIDs, leaders
  <2>11. n \in driven'
    BY <1>1, <2>4, <2>6 DEF driven
  <2>12. driven' = driven \cup {n}
    BY <1>1, <2>3, <2>11 DEF driven
  <2>13. L!Win(n)
    BY <2>1, <2>10, <2>12 DEF L!Win
  <2> QED BY <1>1, <2>7, <2>8, <2>9, <2>13 DEF DriveInv, L!Next, LeadershipStep
<1>4. CASE ~(s.votesReceived >= VotesNeeded(peers))
  <2>1. /\ raft' = [raft EXCEPT ![n] = s] /\ loops' = loops
        /\ UNCHANGED <<closed, led>> /\ msgs' \subseteq msgs
    BY <1>1, <1>4, Zenon DEF handleReplyVote, TypeOK
  <2> QED BY <1>1, <1>2, <2>1, SameLeader, Zenon
<1> QED BY <1>3, <1>4

\* Every message handler.
LEMMA HandleLead ==
    ASSUME TypeOK, DriveInv, NEW m \in msgs, Handle(m)
    PROVE  DriveInv' /\ LeadershipStep
<1> DEFINE n == m.to
<1>0. /\ n \in Node /\ m.from \in Node /\ raft[n] \in RaftState
      /\ m.type = "requestVote" => m.term \in Nat
  BY MessageKinds DEF TypeOK
<1>1. CASE handleHeartbeat(m)
  BY <1>1, HeartbeatLead
<1>2. CASE IgnoreRequestVote(m)
  BY <1>2, SameAll DEF IgnoreRequestVote, historyVars
<1>3. CASE RefuseVote(m)
  <2> DEFINE s == AfterTerm(raft[n], m.term)
             u == IF YieldsToRival(s, m) THEN [s EXCEPT !.role = "follower"] ELSE s
  <2>1. /\ m.term \in Nat /\ m.term >= raft[n].term /\ raft[n].role # "leader"
        /\ raft' = [raft EXCEPT ![n] = u]
        /\ UNCHANGED <<loops, closed, led>> /\ msgs' \subseteq msgs
    BY <1>0, <1>3 DEF RefuseVote, historyVars
  <2>2. /\ s \in RaftState /\ s.role \in {"follower", raft[n].role}
        /\ s.leaderID = raft[n].leaderID /\ s.resign = raft[n].resign
    BY <1>0, <2>1, AfterTermLemma, OtherFields
  <2> HIDE DEF s
  <2>3. u \in RaftState /\ u.role # "leader"
        /\ u.leaderID = raft[n].leaderID /\ u.resign = raft[n].resign
    BY <2>1, <2>2 DEF RaftState, RoleType
  <2> HIDE DEF u
  <2> QED BY <1>0, <2>1, <2>3, SameLeader, Zenon
<1>4. CASE GrantVote(m)
  <2> DEFINE s == AfterTerm(raft[n], m.term)
             v == [s EXCEPT !.votedFor = m.from]
             u == startElectionTimer(v)
  <2>1. /\ m.term \in Nat /\ m.term >= raft[n].term /\ raft[n].role # "leader"
        /\ raft' = [raft EXCEPT ![n] = u]
        /\ UNCHANGED <<loops, closed, led>>
        /\ \A k \in msgs' : k.type = "heartbeat" => k \in msgs
    BY <1>0, <1>4 DEF GrantVote, sendReplyVote
  <2>2. /\ s \in RaftState /\ s.role \in {"follower", raft[n].role}
        /\ s.leaderID = raft[n].leaderID /\ s.resign = raft[n].resign
    BY <1>0, <2>1, AfterTermLemma, OtherFields
  <2> HIDE DEF s
  <2>3. v \in RaftState /\ v.role # "leader"
        /\ v.leaderID = raft[n].leaderID /\ v.resign = raft[n].resign
    BY <1>0, <2>1, <2>2, NodeAssumption DEF RaftState
  <2> HIDE DEF v
  <2>4. u \in RaftState /\ u.role # "leader"
        /\ u.leaderID = raft[n].leaderID /\ u.resign = raft[n].resign
    BY <2>3, TimerLemma
  <2> HIDE DEF u
  <2> QED BY <1>0, <2>1, <2>4, SameLeader, Zenon
<1>5. CASE IgnoreReplyVote(m)
  BY <1>5, SameAll DEF IgnoreReplyVote, historyVars
<1> QED BY <1>1, <1>2, <1>3, <1>4, <1>5, ReplyLead DEF Handle

\* The election timer: a leader that starts an election steps aside.
LEMMA TimerLead ==
    ASSUME TypeOK, DriveInv, NEW n \in Node, TimerStep(n)
    PROVE  DriveInv' /\ LeadershipStep
<1>0. raft[n] \in RaftState
  BY DEF TypeOK
<1>1. CASE ElectionTimerTicks(n)
  <2> DEFINE s == [raft[n] EXCEPT !.timer = FALSE]
  <2>1. /\ s \in RaftState /\ s.leaderID = raft[n].leaderID
        /\ s.resign = raft[n].resign /\ s.role = raft[n].role
    BY <1>0, Zenon DEF RaftState
  <2>2. /\ raft' = [raft EXCEPT ![n] = s]
        /\ UNCHANGED <<loops, closed, led, msgs>>
    BY <1>1 DEF ElectionTimerTicks, historyVars
  <2> HIDE DEF s
  <2> QED BY <2>1, <2>2, SameLeader, Zenon
<1>2. CASE MissHeartbeat(n)
  <2> DEFINE s == startElectionTimer(OneMissed(raft[n]))
  <2>1. /\ s \in RaftState /\ s.leaderID = raft[n].leaderID
        /\ s.resign = raft[n].resign /\ s.role = raft[n].role
    BY <1>0, CountingLemma, OtherFields, TimerLemma
  <2>2. /\ raft' = [raft EXCEPT ![n] = s]
        /\ UNCHANGED <<loops, closed, led, msgs>>
    BY <1>2 DEF MissHeartbeat, historyVars
  <2> HIDE DEF s
  <2> QED BY <2>1, <2>2, SameLeader, Zenon
<1>3. CASE SkipElection(n)
  <2> DEFINE s == startElectionTimer(raft[n])
  <2>1. /\ s \in RaftState /\ s.leaderID = raft[n].leaderID
        /\ s.resign = raft[n].resign /\ s.role = raft[n].role
    BY <1>0, TimerLemma
  <2>2. /\ raft' = [raft EXCEPT ![n] = s]
        /\ UNCHANGED <<loops, closed, led, msgs>>
    BY <1>3 DEF SkipElection, historyVars
  <2> HIDE DEF s
  <2> QED BY <2>1, <2>2, SameLeader, Zenon
<1>4. CASE startElection(n)
  <2> DEFINE s == startElectionTimer(Candidacy(raft[n], n))
  <2>1. /\ s \in RaftState /\ s.leaderID = raft[n].leaderID
        /\ s.resign = raft[n].resign /\ s.role = "candidate"
    BY <1>0, CandidacyLemma, OtherFields, TimerLemma
  <2>2. /\ raft' = [raft EXCEPT ![n] = s]
        /\ UNCHANGED <<loops, closed, led>>
        /\ \A m \in msgs' : m.type = "heartbeat" => m \in msgs
    BY <1>4 DEF startElection, sendRequestVote
  <2> HIDE DEF s
  <2>3. CASE raft[n].role # "leader"
    BY <2>1, <2>2, <2>3, SameLeader, Zenon
  <2>4. CASE raft[n].role = "leader"
    <3>1. raft'[n] = s /\ \A p \in Node \ {n} : raft'[p] = raft[p]
      BY <2>2 DEF TypeOK
    <3>2. leaderIDs' = leaderIDs /\ leaders' = leaders \ {n} /\ driven' = driven
      BY <2>1, <2>2, <3>1 DEF leaderIDs, leaders, driven
    <3>3. n \in leaders
      BY <2>4 DEF leaders
    <3>4. L!StepAside(n)
      BY <2>2, <3>2, <3>3 DEF L!StepAside
    <3>5. \A p \in Node : NodeInv(p)'
      BY <2>1, <2>2, <3>1 DEF DriveInv, NodeInv, Steerable
    <3>6. MsgInv'
      BY <2>2 DEF DriveInv, MsgInv
    <3> QED BY <3>4, <3>5, <3>6 DEF DriveInv, L!Next, LeadershipStep
  <2> QED BY <2>3, <2>4
<1> QED BY <1>1, <1>2, <1>3, <1>4 DEF TimerStep

\* A loop that goes on running changes no leadership.
LEMMA LoopGoesOn ==
    ASSUME TypeOK, DriveInv, NEW n \in Node, NEW i \in DOMAIN loops[n], NEW l \in LoopState,
           loops' = [loops EXCEPT ![n][i] = l], UNCHANGED <<raft, closed, led>>,
           loops[n][i].pc # "done", l.pc # "done",
           l.resign \in {None, raft[n].resign},
           \A m \in msgs' : m.type = "heartbeat" => m \in msgs \/ (m.from = n /\ m.to # n)
    PROVE  DriveInv' /\ LeadershipStep
<1>1. loops[n] \in Seq(LoopState) /\ Len(loops[n]) \in Nat /\ i \in 1..Len(loops[n])
  BY DEF TypeOK
<1>2. /\ loops'[n] = [loops[n] EXCEPT ![i] = l]
      /\ \A p \in Node \ {n} : loops'[p] = loops[p]
  BY DEF TypeOK
<1>3. /\ Len(loops'[n]) = Len(loops[n]) /\ DOMAIN loops'[n] = DOMAIN loops[n]
      /\ loops'[n][i] = l
      /\ \A j \in DOMAIN loops[n] \ {i} : loops'[n][j] = loops[n][j]
  BY <1>1, <1>2
<1>4. Len(loops[n]) \in DOMAIN loops[n] /\ loops[n] # <<>>
  BY <1>1
<1>5. Steerable(raft[n], loops'[n], closed[n])
  <2>1. Steerable(raft[n], loops[n], closed[n])
    BY DEF DriveInv, NodeInv
  <2>2. CASE i = Len(loops[n])
    BY <1>3, <2>1, <2>2 DEF Steerable
  <2>3. CASE i # Len(loops[n])
    BY <1>3, <1>4, <2>1, <2>3 DEF Steerable
  <2> QED BY <2>2, <2>3
<1>6. n \in led
  BY <1>4 DEF DriveInv, NodeInv
<1>7. \A p \in Node : NodeInv(p)'
  BY <1>2, <1>5, <1>6 DEF DriveInv, NodeInv
<1>8. MsgInv'
  BY <1>6 DEF DriveInv, MsgInv
<1>9. driven' = driven
  BY <1>2, <1>3 DEF driven
<1>10. leaderIDs' = leaderIDs /\ leaders' = leaders
  BY DEF leaderIDs, leaders
<1> QED BY <1>7, <1>8, <1>9, <1>10 DEF DriveInv, LeadershipStep, L!leadershipVars

\* A loop that returns: its channel is closed, so it is not the newest loop of a
\* node that can still resign, and it may be the last one only of a node that does
\* not lead.
LEMMA LoopReturns ==
    ASSUME TypeOK, DriveInv, NEW n \in Node, NEW i \in DOMAIN loops[n],
           NEW last \in SUBSET Tick, LoopResigns(n, i, last)
    PROVE  DriveInv' /\ LeadershipStep
<1>0. /\ loops[n][i].pc = "wait" /\ loops[n][i].resign \in closed[n]
      /\ loops' = [loops EXCEPT ![n][i] = Returned]
      /\ UNCHANGED <<raft, closed, led, msgs>>
  BY DEF LoopResigns, historyVars
<1>1. loops[n] \in Seq(LoopState) /\ Len(loops[n]) \in Nat /\ i \in 1..Len(loops[n])
  BY DEF TypeOK
<1>2. /\ loops'[n] = [loops[n] EXCEPT ![i] = Returned]
      /\ \A p \in Node \ {n} : loops'[p] = loops[p]
  BY <1>0 DEF TypeOK
<1>3. /\ Len(loops'[n]) = Len(loops[n]) /\ DOMAIN loops'[n] = DOMAIN loops[n]
      /\ loops'[n][i] = Returned
      /\ \A j \in DOMAIN loops[n] \ {i} : loops'[n][j] = loops[n][j]
  BY <1>1, <1>2
<1>4. Len(loops[n]) \in DOMAIN loops[n] /\ loops[n] # <<>>
  BY <1>1
<1>5. Steerable(raft[n], loops[n], closed[n]) /\ None \notin closed[n]
  <2>1. Steerable(raft[n], loops[n], closed[n])
    BY DEF DriveInv, NodeInv
  <2>2. None \notin 1..Len(loops[n])
    BY DEF None
  <2> QED BY <2>1, <2>2 DEF Steerable
<1>6. raft[n].resign # None => /\ i # Len(loops[n])
                               /\ loops[n][Len(loops[n])].pc # "done"
  BY <1>0, <1>5 DEF Steerable
<1>7. Steerable(raft[n], loops'[n], closed[n])
  BY <1>3, <1>4, <1>5, <1>6 DEF Steerable
<1>8. \A p \in Node : NodeInv(p)'
  BY <1>0, <1>2, <1>4, <1>7 DEF DriveInv, NodeInv
<1>9. MsgInv'
  BY <1>0 DEF DriveInv, MsgInv
<1>10. leaderIDs' = leaderIDs /\ leaders' = leaders
  BY <1>0 DEF leaderIDs, leaders
<1>11. n \in driven
  BY <1>0 DEF driven
<1>12. CASE n \in driven'
  <2>1. driven' = driven
    BY <1>2, <1>11, <1>12 DEF driven
  <2> QED BY <1>0, <1>8, <1>9, <1>10, <2>1 DEF DriveInv, LeadershipStep, L!leadershipVars
<1>13. CASE n \notin driven'
  <2>1. driven' = driven \ {n}
    BY <1>2, <1>11, <1>13 DEF driven
  <2>2. raft[n].resign = None
    BY <1>3, <1>4, <1>6, <1>13 DEF driven
  <2>3. n \notin leaders
    BY <1>5, <2>2 DEF Steerable, leaders
  <2>4. L!Retire(n)
    BY <1>0, <1>10, <1>11, <2>1, <2>3 DEF L!Retire
  <2> QED BY <1>8, <1>9, <2>4 DEF DriveInv, L!Next, LeadershipStep
<1> QED BY <1>12, <1>13

\* The leader loops.
LEMMA LoopLead ==
    ASSUME TypeOK, DriveInv, NEW n \in Node, NEW i \in DOMAIN loops[n], LoopStep(n, i)
    PROVE  DriveInv' /\ LeadershipStep
<1>0. raft[n].resign \in Nat /\ Len(loops[n]) \in Nat
  BY DEF TypeOK, RaftState
<1>1. CASE EnterSelect(n, i)
  <2> DEFINE l == [pc |-> "wait", resign |-> raft[n].resign, tickers |-> Len(loops[n])]
  <2>1. l \in LoopState /\ l.pc # "done" /\ l.resign = raft[n].resign
    BY <1>0 DEF LoopState
  <2>2. /\ loops' = [loops EXCEPT ![n][i] = l] /\ loops[n][i].pc # "done"
        /\ UNCHANGED <<raft, closed, led, msgs>>
    BY <1>1 DEF EnterSelect, historyVars
  <2>3. /\ l.resign \in {None, raft[n].resign}
        /\ \A m \in msgs' : m.type = "heartbeat" => m \in msgs \/ (m.from = n /\ m.to # n)
    BY <2>1, <2>2
  <2> HIDE DEF l
  <2> QED BY <2>1, <2>2, <2>3, LoopGoesOn, Zenon
<1>2. ASSUME NEW tick, ReceiveTick(n, i, tick),
             \A m \in msgs' : m.type = "heartbeat" => m \in msgs \/ (m.from = n /\ m.to # n)
      PROVE  DriveInv' /\ LeadershipStep
  <2>1. AtLoopTop \in LoopState /\ AtLoopTop.pc # "done" /\ AtLoopTop.resign = None
    BY LoopStates DEF AtLoopTop
  <2>2. /\ loops' = [loops EXCEPT ![n][i] = AtLoopTop] /\ loops[n][i].pc # "done"
        /\ UNCHANGED <<raft, closed, led>>
    BY <1>2 DEF ReceiveTick, historyVars
  <2> QED BY <1>2, <2>1, <2>2, LoopGoesOn, Zenon
<1>3. CASE HeartbeatTick(n, i)
  <2>1. \A m \in sendHeartbeat(n, raft[n].term) : m.from = n /\ m.to # n
    BY DEF sendHeartbeat
  <2>2. ReceiveTick(n, i, "heartbeat") /\ msgs' = msgs \cup sendHeartbeat(n, raft[n].term)
    BY <1>3 DEF HeartbeatTick
  <2>3. \A m \in msgs' : m.type = "heartbeat" => m \in msgs \/ (m.from = n /\ m.to # n)
    BY <2>1, <2>2
  <2> QED BY <1>2, <2>2, <2>3
<1>4. CASE LeaderJobTick(n, i)
  <2>1. ReceiveTick(n, i, "leaderJob") /\ msgs' = msgs
    BY <1>4 DEF LeaderJobTick
  <2>2. \A m \in msgs' : m.type = "heartbeat" => m \in msgs \/ (m.from = n /\ m.to # n)
    BY <2>1
  <2> QED BY <1>2, <2>1, <2>2
<1> QED BY <1>1, <1>3, <1>4, LoopReturns DEF LoopStep

\* A restart forgets the node's leadership.
LEMMA RestartLead ==
    ASSUME TypeOK, DriveInv, NEW n \in Node, Restart(n)
    PROVE  DriveInv' /\ LeadershipStep
<1> DEFINE s == startElectionTimer(NewRaftNode)
<1>1. s \in RaftState /\ s.role = "follower" /\ s.leaderID = None /\ s.resign = None
  BY FreshNode DEF startElectionTimer, NewRaftNode
<1>2. /\ raft' = [raft EXCEPT ![n] = s] /\ loops' = [loops EXCEPT ![n] = <<>>]
      /\ closed' = [closed EXCEPT ![n] = {}] /\ led' = led /\ msgs' \subseteq msgs
  BY DEF Restart
<1> HIDE DEF s
<1>3. /\ raft'[n] = s /\ loops'[n] = <<>> /\ closed'[n] = {}
      /\ \A p \in Node \ {n} : /\ raft'[p] = raft[p] /\ loops'[p] = loops[p]
                               /\ closed'[p] = closed[p]
  BY <1>2 DEF TypeOK
<1>4. NodeInv(n)'
  BY <1>1, <1>3 DEF NodeInv, Steerable
<1>5. \A p \in Node \ {n} : NodeInv(p)'
  BY <1>2, <1>3 DEF DriveInv, NodeInv
<1>6. MsgInv'
  BY <1>2 DEF DriveInv, MsgInv
<1>7. leaderIDs' = [leaderIDs EXCEPT ![n] = None] /\ leaders' = leaders \ {n}
  BY <1>1, <1>3, Zenon DEF leaderIDs, leaders
<1>8. driven' = driven \ {n}
  BY <1>3 DEF driven
<1>9. L!Forget(n)
  BY <1>2, <1>7, <1>8 DEF L!Forget
<1> QED BY <1>4, <1>5, <1>6, <1>9 DEF DriveInv, L!Next, LeadershipStep

-----------------------------------------------------------------------------

\* Every step keeps the invariant and is a step of Leadership or a stutter.
LEMMA StepLead ==
    TypeOK /\ DriveInv /\ [Next]_vars => DriveInv' /\ LeadershipStep
<1> SUFFICES ASSUME TypeOK, DriveInv, [Next]_vars PROVE DriveInv' /\ LeadershipStep
  OBVIOUS
<1>1. CASE UNCHANGED vars
  BY <1>1, SameAll DEF vars, historyVars
<1> QED BY <1>1, HandleLead, TimerLead, LoopLead, RestartLead DEF Next

\* The invariant and the abstract initial state hold initially.
LEMMA InitLead == Init => DriveInv /\ L!Init
<1> SUFFICES ASSUME Init PROVE DriveInv /\ L!Init
  OBVIOUS
<1>1. \A n \in Node : /\ raft[n].role = "follower" /\ raft[n].leaderID = None
                      /\ raft[n].resign = None /\ loops[n] = <<>> /\ closed[n] = {}
  BY DEF Init, startElectionTimer, NewRaftNode
<1>2. DriveInv
  BY <1>1 DEF Init, DriveInv, NodeInv, Steerable, MsgInv
<1>3. L!Init
  BY <1>1 DEF Init, L!Init, leaderIDs, leaders, driven
<1> QED BY <1>2, <1>3

\* A leader always has an open Resign channel and a newest loop that listens to it,
\* however elections, resignations, late loop exits and restarts interleave.
THEOREM LeadersAreDriven == Spec => []LeaderIsDriven
<1>1. Init => DriveInv
  BY InitLead
<1>2. TypeOK /\ DriveInv /\ [Next]_vars => DriveInv'
  BY StepLead
<1>3. TypeOK /\ DriveInv => LeaderIsDriven
  BY DrivenLeaders
<1> QED BY <1>1, <1>2, <1>3, TypeCorrect, PTL DEF Spec

\* Leader election implements the leadership the aggregator is built on.
THEOREM RaftImplementsLeadership == Spec => ImplementsLeadership
<1>1. Init => DriveInv /\ L!Init
  BY InitLead
<1>2. TypeOK /\ DriveInv /\ [Next]_vars => DriveInv' /\ [L!Next]_(L!leadershipVars)
  BY StepLead DEF LeadershipStep
<1> QED BY <1>1, <1>2, TypeCorrect, PTL DEF Spec, ImplementsLeadership, L!Spec

=============================================================================
