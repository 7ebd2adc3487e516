------------------------ MODULE OracleWhitelistProofs ------------------------
(***************************************************************************)
(* Proofs about the oracles of a SubmissionProxy, for any set of addresses,*)
(* any periods and any number of transactions.                             *)
(***************************************************************************)
EXTENDS OrderedProofs, ProofOrderProofs

USE SMTT(30), ZenonT(30)

\* A nonempty set of slots has a first one.
LEMMA FirstIsIn ==
    ASSUME NEW slots \in SUBSET Nat, slots # {}
    PROVE  First(slots) \in slots
  BY SmallestNat, Zenon DEF First

\* Whoever has a slot was an oracle once: an address that addOracle or updateOracle
\* accepts has none, so that slots stay distinct.
SlotsKnown == \A i \in 1..Len(oracles) : whitelist[oracles[i]].expirationTime # 0

IInv == OraclesTypeOK /\ ActiveOraclesIndexed /\ SlotsKnown

LEMMA InitIInv == OraclesInit => IInv
  BY ZeroAssumption DEF OraclesInit, IInv, OraclesTypeOK, OracleInfo, ActiveOraclesIndexed,
     SlotsKnown, Unknown, isWhitelisted

LEMMA AddIInv ==
    ASSUME IInv, NEW a \in Address, addOracle(a)
    PROVE  IInv'
<1> USE PeriodsAssumption DEF IInv, OraclesTypeOK
<1> DEFINE exp == now + expirationPeriod
<1>0. exp \in Nat /\ exp > now /\ exp # 0 /\ now' = now /\ expirationPeriod' = expirationPeriod
  BY DEF addOracle
<1>1. \A k \in 1..Len(oracles) : oracles[k] # a /\ oracles[k] \in Address
  BY DEF addOracle, SlotsKnown
<1>2. CASE FreeSlots # {}
  <2> DEFINE i == First(FreeSlots)
  <2>0. FreeSlots \in SUBSET Nat
    BY DEF FreeSlots
  <2>1. i \in 1..Len(oracles) /\ ~isWhitelisted(oracles[i])
    <3>1. i \in FreeSlots
      BY <1>2, <2>0, FirstIsIn
    <3>2. QED
      BY <3>1 DEF FreeSlots
  <2>2. /\ oracles' = [oracles EXCEPT ![i] = a]
        /\ whitelist' = [whitelist EXCEPT ![oracles[i]].index = 0,
                                          ![a] = [index |-> i - 1, expirationTime |-> exp]]
    BY <1>2 DEF addOracle
  <2> HIDE DEF i, exp
  <2>3. /\ oracles' \in Seq(Address) /\ Len(oracles') = Len(oracles)
        /\ \A k \in 1..Len(oracles) : oracles'[k] = IF k = i THEN a ELSE oracles[k]
    BY <2>1, <2>2
  <2>4. i - 1 \in Nat /\ oracles[i] # a /\ oracles[i] \in Address
    BY <2>1, <1>1
  <2>5. whitelist'[a] = [index |-> i - 1, expirationTime |-> exp]
    BY <2>2, <2>4
  <2>6. \A b \in Address : b # a =>
           /\ whitelist'[b].expirationTime = whitelist[b].expirationTime
           /\ b # oracles[i] => whitelist'[b].index = whitelist[b].index
    BY <2>2, <2>4, Zenon DEF OracleInfo
  <2>7. OraclesTypeOK'
    <3>1. whitelist' \in [Address -> OracleInfo]
      BY <2>2, <2>4, <1>0, Zenon DEF OracleInfo
    <3>2. QED
      BY <3>1, <2>3, <1>0 DEF OraclesTypeOK
  <2>8. ActiveOraclesIndexed'
    <3>1. \A k, l \in 1..Len(oracles') : oracles'[k] = oracles'[l] => k = l
      BY <2>3, <1>1 DEF ActiveOraclesIndexed
    <3>2. ASSUME NEW b \in Address, isWhitelisted(b)'
          PROVE  whitelist'[b].index \in 0..(Len(oracles') - 1) /\ oracles'[whitelist'[b].index + 1] = b
      <4>1. CASE b = a
        BY <4>1, <2>1, <2>3, <2>5
      <4>2. CASE b # a
        <5>1. isWhitelisted(b)
          BY <3>2, <4>2, <2>6, <1>0 DEF isWhitelisted
        <5>2. b # oracles[i]
          BY <5>1, <2>1
        <5>3. whitelist'[b].index = whitelist[b].index
          BY <5>2, <4>2, <2>6
        <5>4. whitelist[b].index \in 0..(Len(oracles) - 1) /\ oracles[whitelist[b].index + 1] = b
          BY <5>1 DEF ActiveOraclesIndexed
        <5>5. QED
          BY <5>2, <5>3, <5>4, <2>1, <2>3
      <4>3. QED
        BY <4>1, <4>2
    <3>3. QED
      BY <3>1, <3>2 DEF ActiveOraclesIndexed
  <2>9. SlotsKnown'
    BY <2>3, <2>5, <2>6, <1>0, <1>1 DEF SlotsKnown
  <2>10. QED
    BY <2>7, <2>8, <2>9
<1>3. CASE FreeSlots = {}
  <2> DEFINE n == Len(oracles)
  <2>1. /\ oracles' = Append(oracles, a)
        /\ whitelist' = [whitelist EXCEPT ![a] = [index |-> (n + 1) - 1, expirationTime |-> exp]]
    BY <1>3 DEF addOracle
  <2>2. n \in Nat /\ (n + 1) - 1 = n
    OBVIOUS
  <2> HIDE DEF exp
  <2>3. /\ oracles' \in Seq(Address) /\ Len(oracles') = n + 1
        /\ \A k \in 1..n : oracles'[k] = oracles[k]
        /\ oracles'[n + 1] = a
    BY <2>1
  <2>4. whitelist'[a] = [index |-> n, expirationTime |-> exp]
    BY <2>1, <2>2
  <2>5. \A b \in Address : b # a => whitelist'[b] = whitelist[b]
    BY <2>1
  <2>6. OraclesTypeOK'
    <3>1. whitelist' \in [Address -> OracleInfo]
      BY <2>1, <2>2, <1>0 DEF OracleInfo
    <3>2. QED
      BY <3>1, <2>3, <1>0 DEF OraclesTypeOK
  <2>7. ActiveOraclesIndexed'
    <3>1. ASSUME NEW k \in 1..Len(oracles'), NEW l \in 1..Len(oracles'), oracles'[k] = oracles'[l]
          PROVE  k = l
      BY <3>1, <2>2, <2>3, <1>1 DEF ActiveOraclesIndexed
    <3>2. ASSUME NEW b \in Address, isWhitelisted(b)'
          PROVE  whitelist'[b].index \in 0..(Len(oracles') - 1) /\ oracles'[whitelist'[b].index + 1] = b
      <4>1. CASE b = a
        BY <4>1, <2>2, <2>3, <2>4
      <4>2. CASE b # a
        BY <3>2, <4>2, <2>2, <2>3, <2>5, <1>0 DEF isWhitelisted, ActiveOraclesIndexed
      <4>3. QED
        BY <4>1, <4>2
    <3>3. QED
      BY <3>1, <3>2 DEF ActiveOraclesIndexed
  <2>8. SlotsKnown'
    BY <2>2, <2>3, <2>4, <2>5, <1>0, <1>1 DEF SlotsKnown
  <2>9. QED
    BY <2>6, <2>7, <2>8
<1>4. QED
  BY <1>2, <1>3

\* An active oracle has one slot, the one its index names.
LEMMA SlotOfActive ==
    ASSUME OraclesTypeOK, ActiveOraclesIndexed, NEW a \in Address, isWhitelisted(a)
    PROVE  /\ SlotsOf(a) # {}
           /\ First(SlotsOf(a)) \in 1..Len(oracles)
           /\ oracles[First(SlotsOf(a))] = a
           /\ \A k \in 1..Len(oracles) : oracles[k] = a => k = First(SlotsOf(a))
<1>1. whitelist[a].index \in 0..(Len(oracles) - 1) /\ oracles[whitelist[a].index + 1] = a
  BY DEF ActiveOraclesIndexed
<1>2. whitelist[a].index + 1 \in SlotsOf(a)
  BY <1>1 DEF SlotsOf, OraclesTypeOK
<1>3. SlotsOf(a) \in SUBSET Nat
  BY DEF SlotsOf
<1>4. First(SlotsOf(a)) \in SlotsOf(a)
  BY <1>2, <1>3, FirstIsIn
<1>5. QED
  BY <1>2, <1>4, Zenon DEF SlotsOf, ActiveOraclesIndexed

LEMMA RemoveIInv ==
    ASSUME IInv, NEW a \in Address, removeOracle(a)
    PROVE  IInv'
<1> USE DEF IInv, OraclesTypeOK
<1> DEFINE i == First(SlotsOf(a))
           n == Len(oracles)
           last == oracles[n]
<1>0. isWhitelisted(a) /\ now' = now /\ expirationPeriod' = expirationPeriod
  BY DEF removeOracle
<1>1. /\ SlotsOf(a) # {} /\ i \in 1..n /\ oracles[i] = a
      /\ \A k \in 1..n : oracles[k] = a => k = i
  BY <1>0, SlotOfActive
<1>2. /\ oracles' = SubSeq([oracles EXCEPT ![i] = last], 1, n - 1)
      /\ whitelist' = [whitelist EXCEPT ![last].index = i - 1,
                                        ![a] = [index |-> 0, expirationTime |-> now]]
  BY <1>1 DEF removeOracle, Moved
<1>3. n \in Nat /\ n >= 1 /\ n - 1 \in Nat /\ i - 1 \in Nat /\ last \in Address
  BY <1>1
<1> HIDE DEF i
<1>4. /\ oracles' \in Seq(Address) /\ Len(oracles') = n - 1
      /\ \A k \in 1..(n - 1) : oracles'[k] = IF k = i THEN last ELSE oracles[k]
  <2> DEFINE moved == [oracles EXCEPT ![i] = last]
  <2>1. moved \in Seq(Address) /\ Len(moved) = n
    BY <1>1, <1>3
  <2>2. \A k \in 1..n : moved[k] = IF k = i THEN last ELSE oracles[k]
    BY <1>1, <1>3
  <2> HIDE DEF moved
  <2>3. /\ SubSeq(moved, 1, n - 1) \in Seq(Address)
        /\ Len(SubSeq(moved, 1, n - 1)) = n - 1
        /\ \A k \in 1..(n - 1) : SubSeq(moved, 1, n - 1)[k] = moved[k]
    BY <2>1, <1>3
  <2>4. oracles' = SubSeq(moved, 1, n - 1)
    BY <1>2 DEF moved
  <2>5. QED
    BY <2>2, <2>3, <2>4, <1>3
<1>5. /\ whitelist'[a] = [index |-> 0, expirationTime |-> now]
      /\ \A b \in Address : b # a =>
            /\ whitelist'[b].expirationTime = whitelist[b].expirationTime
            /\ whitelist'[b].index = IF b = last THEN i - 1 ELSE whitelist[b].index
  BY <1>2, <1>3 DEF OracleInfo
<1>6. whitelist' \in [Address -> OracleInfo]
  BY <1>2, <1>3, Zenon DEF OracleInfo
<1>7. \A k \in 1..(n - 1) : oracles'[k] # a
  BY <1>1, <1>3, <1>4
<1>8. ActiveOraclesIndexed'
  <2>1. ASSUME NEW k \in 1..Len(oracles'), NEW l \in 1..Len(oracles'), oracles'[k] = oracles'[l]
        PROVE  k = l
    <3>1. /\ oracles'[k] = oracles[IF k = i THEN n ELSE k]
          /\ oracles'[l] = oracles[IF l = i THEN n ELSE l]
      BY <1>3, <1>4
    <3> DEFINE from(j) == IF j = i THEN n ELSE j
    <3>2. from(k) \in 1..n /\ from(l) \in 1..n
      BY <1>3, <1>4
    <3>3. oracles[from(k)] = oracles[from(l)]
      BY <2>1, <3>1, Zenon
    <3>4. from(k) = from(l)
      <4> HIDE DEF from
      <4>1. QED
        BY <3>2, <3>3 DEF ActiveOraclesIndexed
    <3>5. QED
      BY <3>4, <1>3, <1>4
  <2>2. ASSUME NEW b \in Address, isWhitelisted(b)'
        PROVE  whitelist'[b].index \in 0..(Len(oracles') - 1) /\ oracles'[whitelist'[b].index + 1] = b
    <3>1. b # a
      BY <2>2, <1>0, <1>5 DEF isWhitelisted
    <3>2. isWhitelisted(b)
      BY <2>2, <3>1, <1>0, <1>5 DEF isWhitelisted
    <3>3. whitelist[b].index \in 0..(n - 1) /\ oracles[whitelist[b].index + 1] = b
      BY <3>2 DEF ActiveOraclesIndexed
    <3>4. CASE b = last
      <4>1. i # n
        BY <3>1, <3>4, <1>1
      <4>2. whitelist'[b].index = i - 1 /\ i \in 1..(n - 1)
        BY <3>1, <3>4, <4>1, <1>1, <1>3, <1>5
      <4>3. oracles'[i] = last
        BY <4>2, <1>4
      <4>4. QED
        BY <4>2, <4>3, <3>4, <1>3, <1>4
    <3>5. CASE b # last
      <4>1. whitelist'[b].index = whitelist[b].index
        BY <3>1, <3>5, <1>5
      <4>2. whitelist[b].index + 1 # n /\ whitelist[b].index + 1 # i
        BY <3>1, <3>3, <3>5, <1>1
      <4>3. whitelist[b].index + 1 \in 1..(n - 1)
        BY <3>3, <4>2, <1>3
      <4>4. QED
        BY <3>3, <4>1, <4>2, <4>3, <1>3, <1>4
    <3>6. QED
      BY <3>4, <3>5
  <2>3. QED
    BY <2>1, <2>2 DEF ActiveOraclesIndexed
<1>9. SlotsKnown'
  <2>1. ASSUME NEW k \in 1..Len(oracles') PROVE whitelist'[oracles'[k]].expirationTime # 0
    <3>1. oracles'[k] # a /\ oracles'[k] \in Address
      BY <1>4, <1>7
    <3>2. whitelist[oracles'[k]].expirationTime # 0
      BY <1>3, <1>4 DEF SlotsKnown
    <3>3. QED
      BY <3>1, <3>2, <1>5
  <2>2. QED
    BY <2>1 DEF SlotsKnown
<1>10. QED
  BY <1>0, <1>4, <1>6, <1>8, <1>9

LEMMA UpdateIInv ==
    ASSUME IInv, NEW sender \in Address, NEW a \in Address, updateOracle(sender, a)
    PROVE  IInv'
<1> USE PeriodsAssumption DEF IInv, OraclesTypeOK
<1> DEFINE i == First(SlotsOf(sender))
           exp == now + expirationPeriod
<1>0. /\ isWhitelisted(sender) /\ now' = now /\ expirationPeriod' = expirationPeriod
      /\ exp \in Nat /\ exp > now /\ exp # 0
      /\ whitelist[a].expirationTime = 0 /\ a # sender
  BY DEF updateOracle, NotYetUsed, isWhitelisted
<1>1. /\ SlotsOf(sender) # {} /\ i \in 1..Len(oracles) /\ oracles[i] = sender
      /\ \A k \in 1..Len(oracles) : oracles[k] = sender => k = i
  BY <1>0, SlotOfActive
<1>2. /\ oracles' = [oracles EXCEPT ![i] = a]
      /\ whitelist' = [whitelist EXCEPT ![sender] = [index |-> 0, expirationTime |-> now],
                                        ![a] = [index |-> i - 1, expirationTime |-> exp]]
  BY <1>1 DEF updateOracle
<1>3. i - 1 \in Nat
  BY <1>1
<1>4. \A k \in 1..Len(oracles) : oracles[k] # a /\ oracles[k] \in Address
  BY <1>0 DEF SlotsKnown
<1> HIDE DEF i, exp
<1>5. /\ oracles' \in Seq(Address) /\ Len(oracles') = Len(oracles)
      /\ \A k \in 1..Len(oracles) : oracles'[k] = IF k = i THEN a ELSE oracles[k]
  BY <1>1, <1>2
<1>6. /\ whitelist'[a] = [index |-> i - 1, expirationTime |-> exp]
      /\ whitelist'[sender] = [index |-> 0, expirationTime |-> now]
      /\ \A b \in Address : b # a /\ b # sender => whitelist'[b] = whitelist[b]
  BY <1>0, <1>2
<1>7. whitelist' \in [Address -> OracleInfo]
  BY <1>0, <1>2, <1>3, Zenon DEF OracleInfo
<1>8. ActiveOraclesIndexed'
  <2>1. \A k, l \in 1..Len(oracles') : oracles'[k] = oracles'[l] => k = l
    BY <1>4, <1>5 DEF ActiveOraclesIndexed
  <2>2. ASSUME NEW b \in Address, isWhitelisted(b)'
        PROVE  whitelist'[b].index \in 0..(Len(oracles') - 1) /\ oracles'[whitelist'[b].index + 1] = b
    <3>1. CASE b = a
      BY <3>1, <1>1, <1>5, <1>6
    <3>2. CASE b # a
      <4>1. b # sender
        BY <2>2, <1>0, <1>6 DEF isWhitelisted
      <4>2. isWhitelisted(b) /\ whitelist'[b] = whitelist[b]
        BY <2>2, <3>2, <4>1, <1>0, <1>6 DEF isWhitelisted
      <4>3. whitelist[b].index \in 0..(Len(oracles) - 1) /\ oracles[whitelist[b].index + 1] = b
        BY <4>2 DEF ActiveOraclesIndexed
      <4>4. QED
        BY <4>1, <4>2, <4>3, <1>1, <1>5
    <3>3. QED
      BY <3>1, <3>2
  <2>3. QED
    BY <2>1, <2>2 DEF ActiveOraclesIndexed
<1>9. SlotsKnown'
  <2>1. ASSUME NEW k \in 1..Len(oracles') PROVE whitelist'[oracles'[k]].expirationTime # 0
    <3>1. CASE k = i
      BY <3>1, <1>0, <1>5, <1>6
    <3>2. CASE k # i
      <4>1. oracles'[k] = oracles[k] /\ oracles[k] # a /\ oracles[k] # sender /\ oracles[k] \in Address
        BY <3>2, <1>1, <1>4, <1>5
      <4>2. QED
        BY <4>1, <1>5, <1>6 DEF SlotsKnown
    <3>3. QED
      BY <3>1, <3>2
  <2>2. QED
    BY <2>1 DEF SlotsKnown
<1>10. QED
  BY <1>0, <1>5, <1>7, <1>8, <1>9

LEMMA NextIInv == IInv /\ [OraclesNext]_oracleVars => IInv'
<1> SUFFICES ASSUME IInv, [OraclesNext]_oracleVars PROVE IInv'
  OBVIOUS
<1>1. ASSUME NEW a \in Address, addOracle(a) PROVE IInv'
  BY <1>1, AddIInv
<1>2. ASSUME NEW a \in Address, removeOracle(a) PROVE IInv'
  BY <1>2, RemoveIInv
<1>3. ASSUME NEW sender \in Address, NEW a \in Address, updateOracle(sender, a) PROVE IInv'
  BY <1>3, UpdateIInv
<1>4. ASSUME NEW period \in Periods, setExpirationPeriod(period) PROVE IInv'
  BY <1>4 DEF setExpirationPeriod, IInv, OraclesTypeOK, ActiveOraclesIndexed, SlotsKnown, isWhitelisted
<1>5. CASE Tick
  BY <1>5 DEF Tick, IInv, OraclesTypeOK, OracleInfo, ActiveOraclesIndexed, SlotsKnown, isWhitelisted
<1>6. CASE UNCHANGED oracleVars
  BY <1>6 DEF oracleVars, IInv, OraclesTypeOK, ActiveOraclesIndexed, SlotsKnown, isWhitelisted
<1>7. QED
  BY <1>1, <1>2, <1>3, <1>4, <1>5, <1>6 DEF OraclesNext

\* The oracles' state keeps its type.
THEOREM OraclesTypeCorrect == OraclesSpec => []OraclesTypeOK
<1>1. IInv => OraclesTypeOK
  BY DEF IInv
<1>2. QED
  BY <1>1, InitIInv, NextIInv, PTL DEF OraclesSpec

\* Every active oracle has one slot and its index names it, after any sequence of
\* addOracle, removeOracle and updateOracle and the expiry of any oracles.
THEOREM OraclesIndexed == OraclesSpec => []ActiveOraclesIndexed
<1>1. IInv => ActiveOraclesIndexed
  BY DEF IInv
<1>2. QED
  BY <1>1, InitIInv, NextIInv, PTL DEF OraclesSpec

\* An oracle that expired, was removed or handed over is never active again.
THEOREM NoRevival == OraclesSpec => ExpiredStayExpired
<1> DEFINE Stays == \A a \in Address : whitelist[a].expirationTime # 0 /\ ~isWhitelisted(a)
                       => ~(whitelist'[a].expirationTime > now')
<1>1. ASSUME IInv, OraclesNext PROVE Stays
  <2> SUFFICES ASSUME NEW b \in Address, whitelist[b].expirationTime # 0, ~isWhitelisted(b)
               PROVE  ~(whitelist'[b].expirationTime > now')
    OBVIOUS
  <2> USE <1>1 DEF IInv, OraclesTypeOK, OracleInfo, isWhitelisted
  <2>1. ASSUME NEW a \in Address, addOracle(a) PROVE ~(whitelist'[b].expirationTime > now')
    <3>1. b # a /\ now' = now
      BY <2>1 DEF addOracle
    <3>2. whitelist'[b].expirationTime = whitelist[b].expirationTime
      <4>1. CASE FreeSlots # {}
        <5>1. whitelist' = [whitelist EXCEPT ![oracles[First(FreeSlots)]].index = 0,
                   ![a] = [index |-> First(FreeSlots) - 1, expirationTime |-> now + expirationPeriod]]
          BY <2>1, <4>1 DEF addOracle
        <5>2. QED
          BY <3>1, <5>1, Zenon
      <4>2. CASE FreeSlots = {}
        BY <2>1, <3>1, <4>2 DEF addOracle
      <4>3. QED
        BY <4>1, <4>2
    <3>3. QED
      BY <3>1, <3>2
  <2>2. ASSUME NEW a \in Address, removeOracle(a) PROVE ~(whitelist'[b].expirationTime > now')
    <3>1. b # a /\ now' = now
      BY <2>2 DEF removeOracle
    <3>2. whitelist'[b].expirationTime = whitelist[b].expirationTime
      <4>1. CASE SlotsOf(a) # {}
        <5>1. whitelist' = Moved(a, First(SlotsOf(a)))
          BY <2>2, <4>1 DEF removeOracle
        <5>2. QED
          BY <3>1, <5>1, Zenon DEF Moved
      <4>2. CASE SlotsOf(a) = {}
        BY <2>2, <3>1, <4>2 DEF removeOracle
      <4>3. QED
        BY <4>1, <4>2
    <3>3. QED
      BY <3>1, <3>2
  <2>3. ASSUME NEW sender \in Address, NEW a \in Address, updateOracle(sender, a)
        PROVE ~(whitelist'[b].expirationTime > now')
    <3>1. b # a /\ b # sender /\ now' = now
      BY <2>3 DEF updateOracle, NotYetUsed
    <3>2. whitelist'[b] = whitelist[b]
      BY <2>3, <3>1 DEF updateOracle
    <3>3. QED
      BY <3>1, <3>2
  <2>4. ASSUME NEW period \in Periods, setExpirationPeriod(period)
        PROVE ~(whitelist'[b].expirationTime > now')
    BY <2>4 DEF setExpirationPeriod
  <2>5. CASE Tick
    BY <2>5 DEF Tick
  <2>6. QED
    BY <2>1, <2>2, <2>3, <2>4, <2>5 DEF OraclesNext
<1>2. IInv /\ [OraclesNext]_oracleVars => [Stays]_oracleVars
  BY <1>1
<1>3. QED
  BY <1>2, InitIInv, NextIInv, PTL DEF OraclesSpec, ExpiredStayExpired

-----------------------------------------------------------------------------
(* Proofs of submissions.                                                  *)

\* Where validateProof's loop starts.
Start == [count |-> 0, last |-> 0, verdict |-> "go"]

\* g is the run of validateProof's loop over the first m signatures.
LoopOver(g, signers, required, m) ==
    g = [j \in 0..m |-> IF j = 0 THEN Start ELSE ProofTurn(signers, required, g[j - 1], j)]

\* The loop of validateProof has a run over any number of signatures.
LEMMA LoopRuns ==
    ASSUME NEW signers, NEW required, NEW n \in Nat
    PROVE  \E g : LoopOver(g, signers, required, n)
<1> DEFINE Turn(s, j) == ProofTurn(signers, required, s, j)
           Bad == {m \in Nat : ~(\E g : LoopOver(g, signers, required, m))}
<1>1. SUFFICES ASSUME Bad # {} PROVE FALSE
  OBVIOUS
<1>2. PICK m \in Bad : \A k \in Bad : m <= k
  <2>1. Bad \in SUBSET Nat
    OBVIOUS
  <2> HIDE DEF Bad
  <2>2. QED
    BY <1>1, <2>1, SmallestNat, Zenon
<1>3. CASE m = 0
  <2>1. LoopOver([j \in 0..0 |-> Start], signers, required, 0)
    BY DEF LoopOver
  <2>2. QED
    BY <1>2, <1>3, <2>1
<1>4. CASE m # 0
  <2>1. m \in Nat /\ m - 1 \in Nat /\ ~(m <= m - 1)
    BY <1>2, <1>4
  <2>2. PICK g : LoopOver(g, signers, required, m - 1)
    BY <1>2, <2>1
  <2> DEFINE h == [j \in 0..m |-> IF j = m THEN Turn(g[m - 1], m) ELSE g[j]]
  <2>3. g = [j \in 0..(m - 1) |-> IF j = 0 THEN Start ELSE Turn(g[j - 1], j)]
    BY <2>2 DEF LoopOver
  <2>4. ASSUME NEW j \in 0..m PROVE h[j] = IF j = 0 THEN Start ELSE Turn(h[j - 1], j)
    <3> HIDE DEF Turn
    <3>1. CASE j = m
      BY <1>4, <2>1, <3>1
    <3>2. CASE j # m
      <4>1. j \in 0..(m - 1) /\ (j # 0 => j - 1 \in 0..m /\ j - 1 # m)
        BY <2>1, <3>2
      <4>2. h[j] = g[j] /\ (j # 0 => h[j - 1] = g[j - 1])
        BY <3>2, <4>1
      <4>3. QED
        BY <2>3, <4>1, <4>2
    <3>3. QED
      BY <3>1, <3>2
  <2>5. h = [j \in 0..m |-> IF j = 0 THEN Start ELSE Turn(h[j - 1], j)]
    <3> HIDE DEF Turn
    <3>1. QED
      BY <2>4
  <2>6. LoopOver(h, signers, required, m)
    BY <2>5, Zenon DEF LoopOver
  <2>7. QED
    BY <1>2, <2>6
<1>5. QED
  BY <1>3, <1>4

\* ProofLoop is the end of such a run.
LEMMA LoopEnds ==
    ASSUME NEW signers, NEW required, Len(signers) \in Nat
    PROVE  \E g : /\ LoopOver(g, signers, required, Len(signers))
                  /\ ProofLoop(signers, required) = g[Len(signers)]
<1> DEFINE loop == CHOOSE g : LoopOver(g, signers, required, Len(signers))
<1>1. LoopOver(loop, signers, required, Len(signers))
  BY LoopRuns
<1>2. ProofLoop(signers, required) = loop[Len(signers)]
  BY Zenon DEF ProofLoop, LoopOver, Start
<1>3. QED
  BY <1>1, <1>2, Zenon

\* The active oracles among the first j signers.
ActiveAmong(signers, j) == {a \in {signers[i] : i \in 1..j} : isWhitelisted(a)}

\* After j signatures: the count is at most the number of different active oracles
\* among them; while the loop goes on no signer's index is beyond the last one; and
\* an accepted proof has reached the count.
Counted(signers, required, s, j) ==
    /\ s \in [count : Nat, last : Nat, verdict : {"go", "accept", "revert"}]
    /\ s.count <= Cardinality(ActiveAmong(signers, j))
    /\ s.verdict = "go" =>
          \A i \in 1..j : signers[i] # Zero => whitelist[signers[i]].index <= s.last
    /\ s.verdict = "accept" => s.count >= required /\ s.count >= 1

\* The active oracles among the signers are finitely many and only become more.
LEMMA ActiveGrow ==
    ASSUME NEW signers, NEW j \in Nat
    PROVE  /\ IsFiniteSet(ActiveAmong(signers, j))
           /\ Cardinality(ActiveAmong(signers, j)) \in Nat
           /\ Cardinality(ActiveAmong(signers, j)) <= Cardinality(ActiveAmong(signers, j + 1))
           /\ signers[j + 1] \notin {signers[i] : i \in 1..j} /\ isWhitelisted(signers[j + 1])
                => Cardinality(ActiveAmong(signers, j + 1)) = Cardinality(ActiveAmong(signers, j)) + 1
<1> DEFINE A == ActiveAmong(signers, j)
           B == ActiveAmong(signers, j + 1)
           a == signers[j + 1]
<1>1. \A k \in Nat : IsFiniteSet({signers[i] : i \in 1..k})
  <2> SUFFICES ASSUME NEW k \in Nat PROVE IsFiniteSet({signers[i] : i \in 1..k})
    BY Zenon
  <2> DEFINE f == [i \in 1..k |-> signers[i]]
             S == {signers[i] : i \in 1..k}
  <2>1. f \in Surjection(1..k, S)
    BY DEF Surjection
  <2>2. IsFiniteSet(1..k)
    BY FS_Interval
  <2> HIDE DEF f, S
  <2>3. IsFiniteSet(S)
    BY <2>1, <2>2, FS_Surjection
  <2>4. QED
    BY <2>3 DEF S
<1>2. IsFiniteSet(A) /\ IsFiniteSet(B)
  <2>1. \A k \in Nat : ActiveAmong(signers, k) \subseteq {signers[i] : i \in 1..k}
    BY DEF ActiveAmong
  <2>2. j + 1 \in Nat
    OBVIOUS
  <2>3. QED
    BY <1>1, <2>1, <2>2, FS_Subset, Zenon
<1>3. A \subseteq B
  BY DEF ActiveAmong
<1>4. ASSUME a \notin {signers[i] : i \in 1..j}, isWhitelisted(a)
      PROVE  B = A \cup {a} /\ a \notin A
  <2>1. {signers[i] : i \in 1..(j + 1)} = {signers[i] : i \in 1..j} \cup {a}
    <3>1. \A i \in 1..(j + 1) : i \in 1..j \/ i = j + 1
      OBVIOUS
    <3>2. 1..j \subseteq 1..(j + 1) /\ j + 1 \in 1..(j + 1)
      OBVIOUS
    <3>3. QED
      BY <3>1, <3>2
  <2>2. QED
    BY <1>4, <2>1 DEF ActiveAmong
<1> HIDE DEF A, B, a
<1>5. Cardinality(A) \in Nat /\ Cardinality(B) \in Nat /\ Cardinality(A) <= Cardinality(B)
  BY <1>2, <1>3, FS_CardinalityType, FS_Subset
<1>6. ASSUME a \notin {signers[i] : i \in 1..j}, isWhitelisted(a)
      PROVE  Cardinality(B) = Cardinality(A) + 1
  BY <1>2, <1>4, <1>6, FS_AddElement
<1>7. QED
  BY <1>2, <1>5, <1>6 DEF A, B, a

\* A turn of the loop keeps the count honest: a signature counts only for an active
\* oracle whose index is beyond all before it, so that no oracle counts twice.
LEMMA TurnCounts ==
    ASSUME OraclesTypeOK, NEW signers \in Seq(Address), NEW required \in Nat,
           NEW j \in Nat, j + 1 \in 1..Len(signers), NEW s, Counted(signers, required, s, j)
    PROVE  Counted(signers, required, ProofTurn(signers, required, s, j + 1), j + 1)
<1> DEFINE a == signers[j + 1]
           t == ProofTurn(signers, required, s, j + 1)
           Few == Cardinality(ActiveAmong(signers, j))
           More == Cardinality(ActiveAmong(signers, j + 1))
<1>1. a \in Address /\ whitelist[a].index \in Nat /\ isWhitelisted(a) \in BOOLEAN
  BY DEF OraclesTypeOK, OracleInfo, isWhitelisted
<1>2. /\ Few \in Nat /\ More \in Nat /\ Few <= More
      /\ a \notin {signers[i] : i \in 1..j} /\ isWhitelisted(a) => More = Few + 1
  <2>1. j + 1 \in Nat
    OBVIOUS
  <2>2. QED
    BY <2>1, ActiveGrow
<1>3. \A i \in 1..(j + 1) : i \in 1..j \/ i = j + 1
  OBVIOUS
<1>4. /\ s.count \in Nat /\ s.last \in Nat /\ s.verdict \in {"go", "accept", "revert"}
      /\ s = [count |-> s.count, last |-> s.last, verdict |-> s.verdict]
      /\ s.count <= Few
  BY DEF Counted
<1>5. CASE s.verdict # "go" \/ a = Zero
  <2>1. t = s
    BY <1>5 DEF ProofTurn
  <2>2. Counted(signers, required, s, j + 1)
    <3> HIDE DEF Few, More
    <3>1. s.count <= More
      BY <1>2, <1>4
    <3>2. s.verdict = "go" =>
             \A i \in 1..(j + 1) : signers[i] # Zero => whitelist[signers[i]].index <= s.last
      BY <1>3, <1>5 DEF Counted
    <3>3. QED
      BY <3>1, <3>2 DEF Counted, More
  <2>3. QED
    BY <2>1, <2>2
<1>6. CASE s.verdict = "go" /\ a # Zero /\ ~InOrder(j + 1, whitelist[a].index, s.last)
  <2>1. t = [count |-> s.count, last |-> s.last, verdict |-> "revert"]
    BY <1>4, <1>6 DEF ProofTurn
  <2> HIDE DEF t
  <2>2. t.count <= More
    BY <1>2, <1>4, <2>1
  <2>3. Counted(signers, required, t, j + 1)
    BY <1>4, <2>1, <2>2 DEF Counted
  <2>4. QED
    BY <2>3 DEF t
<1>7. CASE s.verdict = "go" /\ a # Zero /\ InOrder(j + 1, whitelist[a].index, s.last)
  <2> DEFINE count == s.count + IF isWhitelisted(a) THEN 1 ELSE 0
             verdict == IF isWhitelisted(a) /\ count >= required THEN "accept" ELSE "go"
  <2>1. t = [count |-> count, last |-> whitelist[a].index, verdict |-> verdict]
    BY <1>7 DEF ProofTurn
  <2>2. \A i \in 1..j : signers[i] # Zero => whitelist[signers[i]].index <= s.last
    BY <1>7 DEF Counted
  <2>3. j # 0 => whitelist[a].index > s.last
    BY <1>7 DEF InOrder
  <2>4. \A i \in 1..j : /\ signers[i] \in Address
                        /\ whitelist[signers[i]].index \in Nat
    BY DEF OraclesTypeOK, OracleInfo
  <2>5. \A i \in 1..j : signers[i] # a
    BY <1>1, <1>4, <1>7, <2>2, <2>3, <2>4
  <2>6. count \in Nat /\ count <= More /\ (isWhitelisted(a) => count >= 1)
    <3>1. a \notin {signers[i] : i \in 1..j}
      BY <2>5
    <3> HIDE DEF Few, More
    <3>2. QED
      BY <1>1, <1>2, <1>4, <3>1
  <2>7. \A i \in 1..(j + 1) : signers[i] # Zero => whitelist[signers[i]].index <= whitelist[a].index
    <3>1. \A i \in 1..j : signers[i] # Zero => whitelist[signers[i]].index <= whitelist[a].index
      BY <1>1, <1>4, <2>2, <2>3, <2>4
    <3>2. QED
      BY <1>1, <1>3, <3>1
  <2> HIDE DEF t, count
  <2>8. Counted(signers, required, t, j + 1)
    <3>1. t.count = count /\ t.last = whitelist[a].index /\ t.verdict = verdict
      BY <2>1
    <3>2. t \in [count : Nat, last : Nat, verdict : {"go", "accept", "revert"}]
      BY <1>1, <2>1, <2>6
    <3> HIDE DEF a
    <3>3. QED
      BY <2>6, <2>7, <3>1, <3>2 DEF Counted
  <2>9. QED
    BY <2>8 DEF t
<1>8. QED
  BY <1>5, <1>6, <1>7

\* The count is honest at the end of the loop, however long the proof.
LEMMA LoopCounts ==
    ASSUME OraclesTypeOK, NEW signers \in Seq(Address), NEW required \in Nat
    PROVE  Counted(signers, required, ProofLoop(signers, required), Len(signers))
<1>1. PICK g : /\ LoopOver(g, signers, required, Len(signers))
               /\ ProofLoop(signers, required) = g[Len(signers)]
  BY LoopEnds
<1> DEFINE n == Len(signers)
           Bad == {j \in 0..n : ~Counted(signers, required, g[j], j)}
<1>2. n \in Nat
  OBVIOUS
<1>3. SUFFICES ASSUME Bad # {} PROVE FALSE
  BY <1>1, <1>2
<1>4. PICK m \in Bad : \A k \in Bad : m <= k
  <2>1. Bad \in SUBSET Nat
    OBVIOUS
  <2> HIDE DEF Bad
  <2>2. QED
    BY <1>3, <2>1, SmallestNat, Zenon
<1>5. \A j \in 0..n : g[j] = IF j = 0 THEN Start ELSE ProofTurn(signers, required, g[j - 1], j)
  BY <1>1 DEF LoopOver
<1>6. CASE m = 0
  <2>1. g[0] = [count |-> 0, last |-> 0, verdict |-> "go"]
    BY <1>2, <1>5 DEF Start
  <2>2. Cardinality(ActiveAmong(signers, 0)) \in Nat
    BY ActiveGrow
  <2>3. Counted(signers, required, g[0], 0)
    BY <2>1, <2>2 DEF Counted
  <2>4. QED
    BY <1>4, <1>6, <2>3
<1>7. CASE m # 0
  <2>1. /\ m - 1 \in Nat /\ m - 1 \in 0..n /\ (m - 1) + 1 \in 1..n
        /\ (m - 1) + 1 = m /\ ~(m <= m - 1)
    BY <1>4, <1>7
  <2>2. Counted(signers, required, g[m - 1], m - 1)
    BY <1>4, <2>1
  <2>3. Counted(signers, required, ProofTurn(signers, required, g[m - 1], (m - 1) + 1), (m - 1) + 1)
    BY <2>1, <2>2, TurnCounts
  <2>4. Counted(signers, required, g[m], m)
    <3>1. m \in 0..n
      BY <1>4
    <3>2. g[m] = ProofTurn(signers, required, g[m - 1], m)
      BY <1>5, <1>7, <3>1, Zenon
    <3>3. QED
      BY <2>1, <2>3, <3>2, Zenon
  <2>5. QED
    BY <1>4, <2>4
<1>8. QED
  BY <1>6, <1>7

\* quorum rounds the threshold's share of the oracles up.
LEMMA QuorumRoundsUp ==
    ASSUME OraclesTypeOK, NEW threshold \in Nat
    PROVE  quorum(threshold) \in Nat /\ 100 * quorum(threshold) >= threshold * Len(oracles)
<1> DEFINE x == Len(oracles) * threshold
<1>1. x \in Nat /\ x = threshold * Len(oracles)
  BY DEF OraclesTypeOK
<1>2. quorum(threshold) = x \div 100 + IF x % 100 = 0 THEN 0 ELSE 1
  BY DEF quorum
<1> HIDE DEF x
<1>3. x \div 100 \in Nat /\ 100 * (x \div 100) <= x
  BY <1>1
<1>4. x % 100 # 0 => 100 * (x \div 100) + 100 >= x
  BY <1>1
<1>5. x % 100 = 0 => 100 * (x \div 100) = x
  BY <1>1
<1>6. QED
  BY <1>1, <1>2, <1>3, <1>4, <1>5

\* A proof of any length that validateProof accepts for any threshold has signatures of
\* an active oracle and of the threshold's share of all oracles.
LEMMA AcceptedHasQuorum ==
    ASSUME OraclesTypeOK, NEW proof \in Seq(Address), NEW threshold \in Nat,
           validateProof(proof, threshold) = "accept"
    PROVE  /\ Cardinality({a \in Signers(proof) : isWhitelisted(a)}) \in Nat
           /\ Cardinality({a \in Signers(proof) : isWhitelisted(a)}) >= 1
           /\ 100 * Cardinality({a \in Signers(proof) : isWhitelisted(a)}) >= threshold * Len(oracles)
<1> DEFINE s == ProofLoop(proof, quorum(threshold))
           c == Cardinality({a \in Signers(proof) : isWhitelisted(a)})
           q == quorum(threshold)
<1>1. q \in Nat /\ 100 * q >= threshold * Len(oracles)
  BY QuorumRoundsUp
<1>2. s.verdict = "accept"
  BY DEF validateProof
<1>3. Counted(proof, q, s, Len(proof))
  BY <1>1, LoopCounts
<1>4. {a \in Signers(proof) : isWhitelisted(a)} = ActiveAmong(proof, Len(proof))
  BY DEF Signers, ActiveAmong
<1>5. c \in Nat
  <2>1. Len(proof) \in Nat
    OBVIOUS
  <2>2. QED
    BY <1>4, <2>1, ActiveGrow, Zenon
<1>6. s.count \in Nat /\ s.count <= c /\ s.count >= q /\ s.count >= 1
  BY <1>2, <1>3, <1>4, Zenon DEF Counted
<1>7. threshold * Len(oracles) \in Nat
  BY DEF OraclesTypeOK
<1> HIDE DEF s, c, q
<1>8. c >= 1 /\ 100 * c >= threshold * Len(oracles)
  BY <1>1, <1>5, <1>6, <1>7
<1>9. QED
  BY <1>5, <1>8 DEF c

\* The proofs the properties are about are sequences of addresses.
LEMMA ProofsAreSequences == Proofs \subseteq Seq(Address)
<1>1. ProofLength \subseteq Nat
  BY DEF ProofLength
<1>2. \A n \in Nat : [1..n -> Address] \subseteq Seq(Address)
  OBVIOUS
<1>3. QED
  BY <1>1, <1>2, Zenon DEF Proofs

\* validateProof accepts only proofs with signatures of at least the threshold's share
\* of all oracles, every one of a different active oracle, whatever oracles came,
\* expired, handed over or left.
THEOREM AcceptedProofs == OraclesSpec => []AcceptedByEnough
<1>1. IInv => AcceptedByEnough
  <2> SUFFICES ASSUME IInv, NEW proof \in Proofs, NEW threshold \in Thresholds,
                      validateProof(proof, threshold) = "accept"
               PROVE  100 * Cardinality({a \in Signers(proof) : isWhitelisted(a)})
                          >= threshold * Len(oracles)
    BY DEF AcceptedByEnough
  <2>1. proof \in Seq(Address)
    BY ProofsAreSequences
  <2>2. threshold \in Nat
    BY DEF Thresholds
  <2>3. OraclesTypeOK
    BY DEF IInv
  <2>4. QED
    BY <2>1, <2>2, <2>3, AcceptedHasQuorum
<1>2. QED
  BY <1>1, InitIInv, NextIInv, PTL DEF OraclesSpec

-----------------------------------------------------------------------------
(* Proofs the data availability layer ordered.                             *)

\* Signatures of active oracles, in the order of their indexes.
Ascending(signers) ==
    /\ \A j \in DOMAIN signers : isWhitelisted(signers[j]) /\ signers[j] # Zero
    /\ \A j, k \in DOMAIN signers :
          j < k => whitelist[signers[j]].index < whitelist[signers[k]].index

\* Each of the first j signatures counted, unless they were enough already.
Passed(signers, required, s, j) ==
    /\ s.verdict \in {"go", "accept"}
    /\ s.verdict = "go" =>
          /\ s.count = j
          /\ j > 0 => s.last = whitelist[signers[j]].index /\ j < required

\* The next signature of an ascending proof counts.
LEMMA TurnPasses ==
    ASSUME OraclesTypeOK, NEW signers \in Seq(Address), Ascending(signers), NEW required \in Nat,
           NEW j \in Nat, j + 1 \in 1..Len(signers), NEW s, Passed(signers, required, s, j)
    PROVE  Passed(signers, required, ProofTurn(signers, required, s, j + 1), j + 1)
<1> DEFINE a == signers[j + 1]
           t == ProofTurn(signers, required, s, j + 1)
<1>1. DOMAIN signers = 1..Len(signers) /\ j + 1 \in DOMAIN signers /\ (j > 0 => j \in DOMAIN signers)
  OBVIOUS
<1>2. isWhitelisted(a) /\ a # Zero
  BY <1>1 DEF Ascending
<1>3. CASE s.verdict # "go"
  <2>1. t = s
    BY <1>3 DEF ProofTurn
  <2>2. QED
    BY <1>3, <2>1 DEF Passed
<1>4. CASE s.verdict = "go"
  <2>1. s.count = j /\ (j > 0 => s.last = whitelist[signers[j]].index)
    BY <1>4 DEF Passed
  <2>2. InOrder(j + 1, whitelist[a].index, s.last)
    <3>1. CASE j = 0
      BY <3>1 DEF InOrder
    <3>2. CASE j > 0
      <4>1. whitelist[signers[j]].index < whitelist[a].index
        BY <1>1, <3>2 DEF Ascending
      <4>2. /\ signers[j] \in Address /\ a \in Address
            /\ whitelist[signers[j]].index \in Nat /\ whitelist[a].index \in Nat
        BY <1>1, <3>2 DEF OraclesTypeOK, OracleInfo
      <4>3. QED
        BY <2>1, <3>2, <4>1, <4>2 DEF InOrder
    <3>3. QED
      BY <3>1, <3>2
  <2>3. t = [count |-> j + 1, last |-> whitelist[a].index,
             verdict |-> IF j + 1 >= required THEN "accept" ELSE "go"]
    BY <1>2, <1>4, <2>1, <2>2 DEF ProofTurn
  <2> HIDE DEF t
  <2>4. Passed(signers, required, t, j + 1)
    BY <2>3 DEF Passed
  <2>5. QED
    BY <2>4 DEF t
<1>5. QED
  BY <1>3, <1>4

\* Every signature of an ascending proof counts until they are enough.
LEMMA LoopPasses ==
    ASSUME OraclesTypeOK, NEW signers \in Seq(Address), Ascending(signers), NEW required \in Nat
    PROVE  Passed(signers, required, ProofLoop(signers, required), Len(signers))
<1>1. PICK g : /\ LoopOver(g, signers, required, Len(signers))
               /\ ProofLoop(signers, required) = g[Len(signers)]
  BY LoopEnds
<1> DEFINE n == Len(signers)
           Bad == {j \in 0..n : ~Passed(signers, required, g[j], j)}
<1>2. n \in Nat
  OBVIOUS
<1>3. SUFFICES ASSUME Bad # {} PROVE FALSE
  BY <1>1, <1>2
<1>4. PICK m \in Bad : \A k \in Bad : m <= k
  <2>1. Bad \in SUBSET Nat
    OBVIOUS
  <2> HIDE DEF Bad
  <2>2. QED
    BY <1>3, <2>1, SmallestNat, Zenon
<1>5. \A j \in 0..n : g[j] = IF j = 0 THEN Start ELSE ProofTurn(signers, required, g[j - 1], j)
  BY <1>1 DEF LoopOver
<1>6. CASE m = 0
  <2>1. g[0] = [count |-> 0, last |-> 0, verdict |-> "go"]
    BY <1>2, <1>5 DEF Start
  <2>2. Passed(signers, required, g[0], 0)
    BY <2>1 DEF Passed
  <2>3. QED
    BY <1>4, <1>6, <2>2
<1>7. CASE m # 0
  <2>1. /\ m - 1 \in Nat /\ m - 1 \in 0..n /\ (m - 1) + 1 \in 1..n
        /\ (m - 1) + 1 = m /\ ~(m <= m - 1) /\ m \in 0..n
    BY <1>4, <1>7
  <2>2. Passed(signers, required, g[m - 1], m - 1)
    BY <1>4, <2>1
  <2>3. Passed(signers, required, ProofTurn(signers, required, g[m - 1], (m - 1) + 1), (m - 1) + 1)
    BY <2>1, <2>2, TurnPasses
  <2>4. g[m] = ProofTurn(signers, required, g[m - 1], m)
    BY <1>5, <1>7, <2>1, Zenon
  <2>5. Passed(signers, required, g[m], m)
    BY <2>1, <2>3, <2>4, Zenon
  <2>6. QED
    BY <1>4, <2>5
<1>8. QED
  BY <1>6, <1>7

\* quorum asks for no more than the threshold's share of the oracles.
LEMMA QuorumIsLeast ==
    ASSUME OraclesTypeOK, NEW threshold \in Nat, NEW n \in Nat, 100 * n >= threshold * Len(oracles)
    PROVE  n >= quorum(threshold)
<1> DEFINE x == Len(oracles) * threshold
           d == x \div 100
<1>1. x \in Nat /\ 100 * n >= x
  BY DEF OraclesTypeOK
<1>2. quorum(threshold) = d + IF x % 100 = 0 THEN 0 ELSE 1
  BY DEF quorum
<1> HIDE DEF x
<1>3. d \in Nat /\ 100 * d <= x
  BY <1>1
<1>4. x % 100 # 0 => 100 * d < x
  BY <1>1
<1> HIDE DEF d
<1>5. QED
  BY <1>1, <1>2, <1>3, <1>4

\* In the order of the list, the signatures of active oracles ascend, and there are
\* as many as there are signers.
LEMMA ListOrderAscends ==
    ASSUME IInv, NEW signers \in SUBSET Address, NEW ordered \in Seq(Address),
           \A a \in signers : isWhitelisted(a) /\ a # Zero,
           FollowsList(ordered, signers, oracles, Len(oracles))
    PROVE  Ascending(ordered) /\ Cardinality(signers) = Len(ordered)
<1> DEFINE slot(a) == whitelist[a].index + 1
<1>1. DOMAIN ordered = 1..Len(ordered) /\ Len(ordered) \in Nat
  OBVIOUS
<1>2. \A k \in DOMAIN ordered : ordered[k] \in signers /\ ordered[k] \in Address
  BY DEF FollowsList
<1>3. \A a \in signers : /\ slot(a) \in 1..Len(oracles) /\ oracles[slot(a)] = a
                         /\ whitelist[a].index \in Nat
  BY DEF IInv, OraclesTypeOK, OracleInfo, ActiveOraclesIndexed
<1>4. ASSUME NEW j \in DOMAIN ordered, NEW k \in DOMAIN ordered, j < k
      PROVE  whitelist[ordered[j]].index < whitelist[ordered[k]].index
  <2>1. slot(ordered[j]) < slot(ordered[k])
    <3> HIDE DEF slot
    <3>1. QED
      BY <1>2, <1>3, <1>4, Zenon DEF FollowsList
  <2>2. whitelist[ordered[j]].index \in Nat /\ whitelist[ordered[k]].index \in Nat
    BY <1>2, <1>3
  <2>3. QED
    BY <2>1, <2>2
<1>5. Ascending(ordered)
  BY <1>2, <1>4 DEF Ascending
<1>6. ordered \in Bijection(1..Len(ordered), signers)
  <2>1. ordered \in [1..Len(ordered) -> signers]
    BY <1>1, <1>2
  <2>2. \A j, k \in 1..Len(ordered) : ordered[j] = ordered[k] => j = k
    <3>1. SUFFICES ASSUME NEW j \in 1..Len(ordered), NEW k \in 1..Len(ordered),
                          ordered[j] = ordered[k], j # k
                   PROVE  FALSE
      BY Zenon
    <3>2. j < k \/ k < j
      BY <1>1, <3>1
    <3>3. whitelist[ordered[j]].index < whitelist[ordered[j]].index
      BY <1>1, <1>4, <3>1, <3>2
    <3>4. whitelist[ordered[j]].index \in Nat
      BY <1>1, <1>2, <1>3
    <3>5. QED
      BY <3>3, <3>4
  <2>3. \A a \in signers : \E k \in 1..Len(ordered) : ordered[k] = a
    <3> HIDE DEF slot
    <3>1. QED
      BY <1>1, <1>3, Zenon DEF FollowsList
  <2>4. QED
    BY <2>1, <2>2, <2>3 DEF Bijection, Injection, Surjection, IsInjective
<1>7. Cardinality(signers) = Len(ordered)
  BY <1>1, <1>6, FS_CountingElements DEF ExistsBijection
<1>8. QED
  BY <1>5, <1>7

\* Signatures of enough active oracles are accepted in the order orderProof gives them,
\* for proofs of any length and any threshold.
LEMMA OrderedIsAccepted ==
    ASSUME IInv, NEW proof \in Seq(Address), NEW threshold \in Nat, proof # <<>>,
           \A j \in DOMAIN proof : isWhitelisted(proof[j]) /\ proof[j] # Zero,
           100 * Cardinality(Signers(proof)) >= threshold * Len(oracles)
    PROVE  /\ orderProof(proof, oracles).error = "none"
           /\ validateProof(orderProof(proof, oracles).proof, threshold) = "accept"
<1> DEFINE signers == Members(proof)
           ordered == InListOrder(signers, proof, oracles)
           q == quorum(threshold)
<1>1. /\ signers = Signers(proof) /\ signers \in SUBSET Address /\ signers # {}
      /\ \A a \in signers : isWhitelisted(a) /\ a # Zero
  BY DEF Members, Signers
<1>2. OraclesTypeOK /\ oracles \in Seq(Address) /\ Distinct(oracles)
  <2>1. DOMAIN oracles = 1..Len(oracles)
    BY DEF IInv, OraclesTypeOK
  <2>2. QED
    BY <2>1, Zenon DEF IInv, OraclesTypeOK, ActiveOraclesIndexed, Distinct
<1>3. signers \subseteq Members(oracles) /\ oracles # <<>>
  <2>1. \A a \in signers : \E i \in 1..Len(oracles) : oracles[i] = a
    <3>1. ASSUME NEW a \in signers PROVE \E i \in 1..Len(oracles) : oracles[i] = a
      <4>1. whitelist[a].index \in 0..(Len(oracles) - 1) /\ oracles[whitelist[a].index + 1] = a
        BY <1>1 DEF IInv, ActiveOraclesIndexed
      <4>2. whitelist[a].index + 1 \in 1..Len(oracles)
        BY <1>2, <4>1
      <4>3. QED
        BY <4>1, <4>2
    <3>2. QED
      BY <3>1
  <2> HIDE DEF signers
  <2>2. QED
    BY <1>1, <1>2, <2>1 DEF Members
<1>4. Garbage \notin signers
  BY <1>1, GarbageAssumption
<1>5. orderProof(proof, oracles) = [error |-> "none", proof |-> ordered]
  BY <1>3, <1>4 DEF orderProof
<1>6. ordered \in Seq(Address) /\ FollowsList(ordered, signers, oracles, Len(oracles))
  <2> HIDE DEF signers
  <2>1. QED
    BY <1>2, ListIsFollowed
<1> HIDE DEF ordered, signers
<1>7. Ascending(ordered) /\ Cardinality(signers) = Len(ordered)
  BY <1>1, <1>6, ListOrderAscends
<1>8. Len(ordered) \in Nat /\ Len(ordered) > 0
  <2>1. PICK a \in signers : TRUE
    BY <1>1
  <2>2. \E x \in 1..Len(oracles) : oracles[x] = a
    BY <1>2, <1>3, <2>1 DEF Members
  <2>3. \E k \in DOMAIN ordered : ordered[k] = a
    BY <1>6, <2>1, <2>2, Zenon DEF FollowsList
  <2>4. QED
    BY <1>6, <2>3
<1>9. q \in Nat /\ Len(ordered) >= q
  BY <1>1, <1>2, <1>7, <1>8, QuorumRoundsUp, QuorumIsLeast, Zenon
<1>10. ProofLoop(ordered, q).verdict = "accept"
  <2>1. Passed(ordered, q, ProofLoop(ordered, q), Len(ordered))
    BY <1>2, <1>6, <1>7, <1>9, LoopPasses
  <2> HIDE DEF q
  <2>2. QED
    BY <1>8, <1>9, <2>1 DEF Passed
<1>11. validateProof(ordered, threshold) = "accept"
  BY <1>3, <1>10 DEF validateProof
<1>12. QED
  BY <1>5, <1>11

\* The data availability layer and the contract fit together: what orderProof makes of
\* the signatures of enough active oracles is accepted by the contract's validateProof,
\* whatever oracles came, expired, handed over or left.
THEOREM OrderedAccepted == OraclesSpec => []OrderedProofsAccepted
<1>1. IInv => OrderedProofsAccepted
  <2> SUFFICES ASSUME IInv, NEW proof \in Proofs, NEW threshold \in Thresholds, proof # <<>>,
                      \A j \in DOMAIN proof : isWhitelisted(proof[j]) /\ proof[j] # Zero,
                      100 * Cardinality(Signers(proof)) >= threshold * Len(oracles)
               PROVE  /\ orderProof(proof, oracles).error = "none"
                      /\ validateProof(orderProof(proof, oracles).proof, threshold) = "accept"
    BY DEF OrderedProofsAccepted
  <2>1. proof \in Seq(Address)
    BY ProofsAreSequences
  <2>2. threshold \in Nat
    BY DEF Thresholds
  <2>3. QED
    BY <2>1, <2>2, OrderedIsAccepted
<1>2. QED
  BY <1>1, InitIInv, NextIInv, PTL DEF OraclesSpec

=============================================================================
