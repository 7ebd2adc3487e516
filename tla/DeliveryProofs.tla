--------------------------- MODULE DeliveryProofs ---------------------------
(***************************************************************************)
(* Proofs about the way of a submission to the chain, for any number of    *)
(* submissions, Redis servers, oracles, clients and nonces: the nonces of  *)
(* the reporter, the collector and the hub of the data availability layer. *)
(* They share no state, and each has an invariant of its own.              *)
(***************************************************************************)
EXTENDS NonceOrder, DalCollector, Hub, ProofOrderProofs

USE SMTT(30), ZenonT(30)

-----------------------------------------------------------------------------
(* The nonce manager gives consecutive nonces.                             *)

NIInv == NoncesTypeOK /\ NoncesConsecutive

\* A sequence with a positive length is not the empty one.
LEMMA LengthFacts ==
    ASSUME NEW s \in Seq(Nat), Len(s) >= 1
    PROVE  s # <<>>
  OBVIOUS

\* A new pool holds the nonces from its first one on.
LEMMA NewPoolFacts ==
    ASSUME NEW n \in Nat
    PROVE  /\ NewPool(n) \in Seq(Nat)
           /\ Len(NewPool(n)) = poolSize
           /\ NewPool(n) # <<>>
           /\ \A i \in 1..poolSize : NewPool(n)[i] = n + i - 1
  BY PoolAssumption DEF NewPool

\* Filling the pool keeps what it starts with and leaves at least two nonces in it.
LEMMA FilledFacts ==
    ASSUME NIInv
    PROVE  /\ Filled \in Seq(Nat)
           /\ Len(Filled) >= 2
           /\ \A i \in 1..Len(Filled) : Filled[i] = start + Len(given) + i - 1
<1> DEFINE n == start + Len(given)
<1>1. n \in Nat /\ Head(noncePool) = n /\ Head(noncePool) \in Nat
  BY DEF NIInv, NoncesTypeOK, NoncesConsecutive
<1>2. CASE Len(noncePool) < minimumNoncePoolSize
  <2>1. Filled = NewPool(n)
    BY <1>1, <1>2 DEF Filled, fillPool
  <2> HIDE DEF n
  <2>2. /\ NewPool(n) \in Seq(Nat)
        /\ Len(NewPool(n)) = poolSize
        /\ \A i \in 1..poolSize : NewPool(n)[i] = n + i - 1
    BY <1>1, NewPoolFacts
  <2>3. /\ Filled \in Seq(Nat)
        /\ Len(Filled) >= 2
        /\ \A i \in 1..Len(Filled) : Filled[i] = n + i - 1
    BY <2>1, <2>2, PoolAssumption
  <2> QED
    BY <2>3 DEF n
<1>3. CASE ~(Len(noncePool) < minimumNoncePoolSize)
  BY <1>3, PoolAssumption DEF Filled, NIInv, NoncesTypeOK, NoncesConsecutive
<1> QED
  BY <1>2, <1>3

\* GetNonce returns the next nonce and leaves those after it in the pool.
LEMMA GiveNIInv ==
    ASSUME NIInv, Give
    PROVE  NIInv'
<1> DEFINE n == start + Len(given)
<1>1. /\ n \in Nat /\ given \in Seq(Nat) /\ start \in Nat
      /\ \A i \in 1..Len(given) : given[i] = start + i - 1
  BY DEF NIInv, NoncesTypeOK, NoncesConsecutive
<1>2. /\ Filled \in Seq(Nat)
      /\ Len(Filled) >= 2
      /\ \A i \in 1..Len(Filled) : Filled[i] = n + i - 1
  BY FilledFacts
<1>3. /\ noncePool' = Tail(Filled)
      /\ given' = Append(given, Head(Filled))
      /\ start' = start
  BY DEF Give, GetNonce
<1> HIDE DEF n
<1>4. Head(Filled) = n
  BY <1>1, <1>2
<1>5. /\ given' \in Seq(Nat) /\ Len(given') = Len(given) + 1
      /\ \A i \in 1..Len(given') : given'[i] = start + i - 1
  BY <1>1, <1>3, <1>4 DEF n
<1>6. /\ noncePool' \in Seq(Nat) /\ noncePool' # <<>> /\ Len(noncePool') = Len(Filled) - 1
      /\ \A i \in 1..Len(noncePool') : noncePool'[i] = n + i
  <2>1. Filled # <<>> /\ Tail(Filled) \in Seq(Nat) /\ Len(Tail(Filled)) = Len(Filled) - 1
    BY <1>2
  <2>2. Tail(Filled) # <<>>
    <3>1. Tail(Filled) \in Seq(Nat) /\ Len(Tail(Filled)) >= 1
      BY <1>2, <2>1
    <3> QED
      BY <3>1, LengthFacts, Zenon
  <2>3. ASSUME NEW i \in 1..Len(Tail(Filled)) PROVE Tail(Filled)[i] = n + i
    <3>1. i + 1 \in 1..Len(Filled) /\ Tail(Filled)[i] = Filled[i + 1]
      BY <1>2, <2>1
    <3>2. Filled[i + 1] = n + (i + 1) - 1
      BY <1>2, <3>1
    <3> QED
      BY <1>1, <3>1, <3>2
  <2> QED
    BY <1>3, <2>1, <2>2, <2>3
<1>7. \A i \in 1..Len(noncePool') : noncePool'[i] = start' + Len(given') + i - 1
  BY <1>1, <1>3, <1>5, <1>6 DEF n
<1>8. start' \in Nat /\ \A i \in 1..Len(given') : given'[i] = start' + i - 1
  BY <1>1, <1>3, <1>5, Zenon
<1> QED
  BY <1>5, <1>6, <1>7, <1>8, Zenon DEF NIInv, NoncesTypeOK, NoncesConsecutive

\* After a reset the pool starts at the chain's nonce.
LEMMA StartAgainNIInv ==
    ASSUME NEW n \in Nat, StartAgain(n)
    PROVE  NIInv'
<1>1. noncePool' = NewPool(n) /\ start' = n /\ given' = <<>>
  BY DEF StartAgain, Reset
<1>2. /\ NewPool(n) \in Seq(Nat) /\ Len(NewPool(n)) = poolSize /\ NewPool(n) # <<>>
      /\ \A i \in 1..poolSize : NewPool(n)[i] = n + i - 1
  BY NewPoolFacts
<1>3. given' \in Seq(Nat) /\ Len(given') = 0
  BY <1>1
<1> QED
  BY <1>1, <1>2, <1>3 DEF NIInv, NoncesTypeOK, NoncesConsecutive

\* Whatever the pool's size, the threshold at which it is replaced and the chain's
\* nonces, GetNonce returns consecutive nonces between resets and never blocks.
THEOREM NoncesAreConsecutive == NonceSpec => []NoncesConsecutive
<1>1. ASSUME NEW n \in Nat, StartFrom(n) PROVE NIInv
  <2>1. /\ NewPool(n) \in Seq(Nat) /\ Len(NewPool(n)) = poolSize /\ NewPool(n) # <<>>
        /\ \A i \in 1..poolSize : NewPool(n)[i] = n + i - 1
    BY NewPoolFacts
  <2>2. noncePool = NewPool(n) /\ start = n /\ given = <<>> /\ given \in Seq(Nat) /\ Len(given) = 0
    BY <1>1 DEF StartFrom
  <2> QED
    BY <2>1, <2>2 DEF NIInv, NoncesTypeOK, NoncesConsecutive
<1>2. NIInv /\ [NonceNext]_nonceVars => NIInv'
  <2> SUFFICES ASSUME NIInv, [NonceNext]_nonceVars
               PROVE  NIInv'
    OBVIOUS
  <2>1. CASE Give
    BY <2>1, GiveNIInv
  <2>2. ASSUME NEW nonce \in ChainNonce, StartAgain(nonce) PROVE NIInv'
    BY <2>2, ChainNonceAssumption, StartAgainNIInv
  <2>3. CASE UNCHANGED nonceVars
    BY <2>3 DEF NIInv, NoncesTypeOK, NoncesConsecutive, nonceVars
  <2> QED
    BY <2>1, <2>2, <2>3 DEF NonceNext
<1>3. NIInv => NoncesConsecutive
  BY DEF NIInv
<1>4. NonceInit => NIInv
  BY <1>1, ChainNonceAssumption DEF NonceInit
<1> QED
  BY <1>2, <1>3, <1>4, PTL DEF NonceSpec

-----------------------------------------------------------------------------
(* The collector.  Beside the types the invariant says: which goroutines   *)
(* won the comparison with the latest time, and that no two of them have   *)
(* one submission (WonOnce); what an ordered proof carries (Carried); and  *)
(* where the newest submission is (NewestKept).                            *)

ListOK(list) == list \in Seq(Oracle) /\ Distinct(list)

\* Whatever list of oracles a goroutine holds was the contract's, or is empty.
ListsOK ==
    /\ ListOK(oracleList) /\ ListOK(cachedWhitelist)
    /\ tracker # <<>> => ListOK(tracker[1])
    /\ refreshes \in SUBSET [of : Nat, list : Seq(Seq(Oracle))]
    /\ \A r \in refreshes : r.list # <<>> => ListOK(r.list[1])

Goroutine == [source : Source, time : Nat, phase : {"new", "convert", "send", "store"}, proof : Seq(Oracle)]
Streamed == [time : Nat, proof : Seq(Oracle)]

CollectorTypeOK ==
    /\ proofs \in Seq(Proofs)
    /\ processing \in SUBSET Goroutine /\ \A x \in processing : x.time \in 1..Len(proofs)
    /\ latestTimestamp \in 0..Len(proofs)
    /\ streamed \in Seq(Streamed) /\ \A i \in DOMAIN streamed : streamed[i].time \in 1..Len(proofs)

\* A goroutine that has won the comparison is the only one of its submission.
WonOnce ==
    /\ \A x, y \in processing : x.phase # "new" /\ y.phase # "new" /\ x.time = y.time => x = y
    /\ \A x \in processing : x.phase # "new" => x.time <= latestTimestamp
    /\ \A i \in DOMAIN streamed : streamed[i].time <= latestTimestamp
    /\ \A x \in processing, i \in DOMAIN streamed :
          x.phase \in {"convert", "send"} => streamed[i].time # x.time
    /\ StreamedOnce

\* The proof has every signature of the submission, each once.
Carries(proof, time) == Members(proof) = Members(proofs[time]) /\ Distinct(proof)

Carried ==
    /\ \A x \in processing : x.phase = "send" => Carries(x.proof, x.time)
    /\ \A i \in DOMAIN streamed : Carries(streamed[i].proof, streamed[i].time)

\* The submission was streamed, was refused, or is on its way.
Accounted(time) ==
    \/ \E x \in processing : x.phase \in {"convert", "send"} /\ x.time = time
    \/ \E i \in DOMAIN streamed : streamed[i].time = time
    \/ time \in refused

NewestKept ==
    /\ latestTimestamp # 0 => Accounted(latestTimestamp)
    /\ latestTimestamp < Len(proofs) =>
          \E x \in processing : x.phase = "new" /\ x.time = Len(proofs)

CInv == ListsOK /\ CollectorTypeOK /\ WonOnce /\ Carried /\ NewestKept

\* The invariant holds when the collector starts.
LEMMA InitCInv == CollectorInit => CInv
<1> SUFFICES ASSUME CollectorInit PROVE CInv
  OBVIOUS
<1>1. ListsOK
  BY ListAssumption DEF CollectorInit, ListsOK, ListOK
<1>2. proofs = <<>> /\ processing = {} /\ latestTimestamp = 0 /\ streamed = <<>>
  BY DEF CollectorInit
<1>3. QED
  BY <1>1, <1>2 DEF CInv, CollectorTypeOK, WonOnce, StreamedOnce, Carried, NewestKept

\* Steps of the contract and of the cached list leave the submissions alone.
LEMMA DataUnchanged ==
    ASSUME CInv, UNCHANGED dataPart, ListsOK'
    PROVE  CInv'
  BY DEF CInv, dataPart, CollectorTypeOK, WonOnce, StreamedOnce, Carried, Carries, NewestKept, Accounted

\* The contract's list keeps one slot for every oracle.
LEMMA ContractLists ==
    ASSUME CInv, NEW a \in Oracle, OracleAdded(a) \/ OracleRemoved(a)
    PROVE  CInv'
<1>1. ListsOK /\ oracleList \in Seq(Oracle) /\ Distinct(oracleList)
  BY DEF CInv, ListsOK, ListOK
<1>2. UNCHANGED <<dataPart, cachedWhitelist, tracker, refreshes>>
  BY DEF OracleAdded, OracleRemoved, cachePart
<1>3. ListOK(oracleList')
  <2>1. CASE OracleAdded(a)
    <3>1. \A i \in DOMAIN oracleList : oracleList[i] # a
      BY <2>1 DEF OracleAdded, Slots
    <3>2. CASE oracleList' = Append(oracleList, a)
      BY <1>1, <3>1, <3>2 DEF ListOK, Distinct
    <3>3. CASE \E i \in DOMAIN oracleList : oracleList' = [oracleList EXCEPT ![i] = a]
      BY <1>1, <3>1, <3>3 DEF ListOK, Distinct
    <3>4. QED
      BY <2>1, <3>2, <3>3 DEF OracleAdded
  <2>2. CASE OracleRemoved(a)
    <3> DEFINE last == Len(oracleList)
    <3>1. PICK i \in Slots(a) :
             oracleList' = SubSeq([oracleList EXCEPT ![i] = oracleList[last]], 1, last - 1)
      BY <2>2, Zenon DEF OracleRemoved
    <3>2. /\ i \in 1..last /\ oracleList' \in Seq(Oracle) /\ DOMAIN oracleList' = 1..(last - 1)
          /\ \A j \in 1..(last - 1) :
                oracleList'[j] = oracleList[IF j = i THEN last ELSE j]
      BY <1>1, <3>1 DEF Slots
    <3>3. ASSUME NEW j \in 1..(last - 1), NEW k \in 1..(last - 1), oracleList'[j] = oracleList'[k]
          PROVE  j = k
      <4> DEFINE moved(l) == IF l = i THEN last ELSE l
      <4>1. moved(j) \in 1..last /\ moved(k) \in 1..last /\ (moved(j) = moved(k) => j = k)
        BY <1>1, <3>2
      <4>2. oracleList[moved(j)] = oracleList[moved(k)]
        BY <3>2, <3>3
      <4>3. DOMAIN oracleList = 1..last
        BY <1>1
      <4> HIDE DEF moved
      <4>4. QED
        BY <1>1, <4>1, <4>2, <4>3, Zenon DEF Distinct
    <3>4. QED
      BY <3>2, <3>3 DEF ListOK, Distinct
  <2>3. QED
    BY <2>1, <2>2
<1>4. ListsOK'
  BY <1>1, <1>2, <1>3 DEF ListsOK
<1>5. QED
  BY <1>2, <1>4, DataUnchanged

\* What is read from the contract and stored later is a list of the contract's.
LEMMA CacheLists ==
    ASSUME CInv,
           \/ \E r \in refreshes : RefreshReads(r) \/ RefreshFails(r) \/ RefreshStores(r)
           \/ TrackerReads \/ TrackerStores
    PROVE  CInv'
<1>1. ListsOK
  BY DEF CInv
<1>2. UNCHANGED <<dataPart, oracleList>>
  BY DEF RefreshReads, RefreshFails, RefreshStores, TrackerReads, TrackerStores, chainPart
<1>3. ListsOK'
  <2>1. ASSUME NEW r \in refreshes, RefreshReads(r) PROVE ListsOK'
    <3> DEFINE read == [r EXCEPT !.list = <<oracleList>>]
    <3>1. /\ read \in [of : Nat, list : Seq(Seq(Oracle))] /\ read.list[1] = oracleList
          /\ ListOK(oracleList)
      <4>1. r \in [of : Nat, list : Seq(Seq(Oracle))] /\ ListOK(oracleList) /\ oracleList \in Seq(Oracle)
        BY <1>1 DEF ListsOK, ListOK
      <4>2. \A S : oracleList \in S => <<oracleList>> \in Seq(S)
        OBVIOUS
      <4>3. <<oracleList>> \in Seq(Seq(Oracle))
        BY <4>1, <4>2, Zenon
      <4>4. read.list = <<oracleList>> /\ read \in [of : Nat, list : Seq(Seq(Oracle))]
        BY <4>1, <4>3, Zenon
      <4>5. QED
        BY <4>1, <4>4
    <3>2. /\ refreshes' = (refreshes \ {r}) \cup {read}
          /\ UNCHANGED <<oracleList, cachedWhitelist, tracker>>
      BY <1>2, <2>1 DEF RefreshReads
    <3> HIDE DEF read
    <3>3. QED
      BY <1>1, <3>1, <3>2 DEF ListsOK
  <2>2. ASSUME NEW r \in refreshes, RefreshFails(r) PROVE ListsOK'
    BY <1>1, <2>2 DEF RefreshFails, ListsOK, chainPart
  <2>3. ASSUME NEW r \in refreshes, RefreshStores(r) PROVE ListsOK'
    BY <1>1, <2>3 DEF RefreshStores, ListsOK, chainPart
  <2>4. CASE TrackerReads
    <3>1. ListOK(<<>>)
      BY DEF ListOK, Distinct
    <3>2. tracker' = <<oracleList>> \/ tracker' = <<<<>>>>
      BY <2>4 DEF TrackerReads
    <3>3. ListOK(tracker'[1])
      BY <1>1, <3>1, <3>2 DEF ListsOK
    <3>4. QED
      BY <1>1, <1>2, <2>4, <3>3 DEF TrackerReads, ListsOK
  <2>5. CASE TrackerStores
    BY <1>1, <1>2, <2>5 DEF TrackerStores, ListsOK
  <2>6. QED
    BY <2>1, <2>2, <2>3, <2>4, <2>5
<1>4. QED
  BY <1>2, <1>3, DataUnchanged

\* New submissions come with a goroutine for each server, and nothing before them is
\* forgotten.
LEMMA PublishCInv ==
    ASSUME CInv, NEW proof \in Proofs, Publish(proof)
    PROVE  CInv'
<1> DEFINE n == Len(proofs) + 1
           fresh == {[source |-> s, time |-> n, phase |-> "new", proof |-> <<>>] : s \in Source}
<1>1. /\ proofs' = Append(proofs, proof) /\ processing' = processing \cup fresh
      /\ UNCHANGED <<latestTimestamp, streamed, refused>>
      /\ UNCHANGED <<oracleList, cachedWhitelist, tracker, refreshes>>
  BY DEF Publish, chainPart, cachePart
<1>2. /\ proofs \in Seq(Proofs) /\ processing \in SUBSET Goroutine /\ streamed \in Seq(Streamed)
      /\ latestTimestamp \in 0..Len(proofs)
      /\ \A x \in processing : x.time \in 1..Len(proofs)
      /\ \A i \in DOMAIN streamed : streamed[i].time \in 1..Len(proofs)
  BY DEF CInv, CollectorTypeOK
<1>3. /\ proofs' \in Seq(Proofs) /\ Len(proofs') = n /\ n \in Nat /\ Len(proofs) \in Nat
      /\ \A t \in 1..Len(proofs) : t \in 1..n /\ proofs'[t] = proofs[t]
  BY <1>1, <1>2
<1>4. fresh \subseteq Goroutine /\ \A x \in fresh : x.time = n /\ x.phase = "new"
  <2>1. <<>> \in Seq(Oracle)
    OBVIOUS
  <2> HIDE DEF n
  <2>2. \A s \in Source :
           LET x == [source |-> s, time |-> n, phase |-> "new", proof |-> <<>>]
           IN  x \in Goroutine /\ x.time = n /\ x.phase = "new"
    BY <1>3, <2>1 DEF Goroutine
  <2>3. QED
    BY <2>2, Zenon
<1>5. ListsOK'
  BY <1>1 DEF CInv, ListsOK
<1> HIDE DEF fresh, n
<1>6. CollectorTypeOK'
  <2>1. n \in 1..n /\ latestTimestamp \in 0..n
    BY <1>2, <1>3 DEF n
  <2>2. QED
    BY <1>1, <1>2, <1>3, <1>4, <2>1 DEF CollectorTypeOK
<1>7. WonOnce'
  BY <1>1, <1>4 DEF CInv, WonOnce, StreamedOnce
<1>8. Carried'
  BY <1>1, <1>2, <1>3, <1>4 DEF CInv, Carried, Carries
<1>9. NewestKept'
  <2>1. \E x \in fresh : x.phase = "new" /\ x.time = n
    <3>1. PICK s \in Source : TRUE
      BY SourceAssumption
    <3>2. [source |-> s, time |-> n, phase |-> "new", proof |-> <<>>] \in fresh
      BY Zenon DEF fresh
    <3>3. QED
      BY <1>4, <3>2
  <2>2. latestTimestamp # 0 => Accounted(latestTimestamp)'
    BY <1>1 DEF CInv, NewestKept, Accounted
  <2>3. QED
    BY <1>1, <1>3, <2>1, <2>2 DEF NewestKept
<1>10. QED
  BY <1>5, <1>6, <1>7, <1>8, <1>9 DEF CInv

\* The goroutine that wins the comparison is the first of its submission; the newest
\* submission loses it to no other.
LEMMA CompareCInv ==
    ASSUME CInv, NEW x \in processing, compareAndSwapLatestTimestamp(x)
    PROVE  CInv'
<1>1. /\ UNCHANGED <<proofs, streamed, refused, oracleList, cachedWhitelist, tracker, refreshes>>
      /\ x.phase = "new"
  BY DEF compareAndSwapLatestTimestamp, chainPart, cachePart
<1>2. /\ proofs \in Seq(Proofs) /\ processing \in SUBSET Goroutine /\ streamed \in Seq(Streamed)
      /\ latestTimestamp \in 0..Len(proofs) /\ Len(proofs) \in Nat
      /\ \A y \in processing : y.time \in 1..Len(proofs)
      /\ \A i \in DOMAIN streamed : streamed[i].time \in 1..Len(proofs)
  BY DEF CInv, CollectorTypeOK
<1>3. ListsOK'
  BY <1>1 DEF CInv, ListsOK
<1>4. CASE x.time > latestTimestamp
  <2> DEFINE w == [x EXCEPT !.phase = "convert"]
  <2>1. latestTimestamp' = x.time /\ processing' = (processing \ {x}) \cup {w}
    BY <1>4 DEF compareAndSwapLatestTimestamp, After
  <2>2. w \in Goroutine /\ w.time = x.time /\ w.phase = "convert"
    BY <1>2 DEF Goroutine
  <2>3. x.time \in 1..Len(proofs) /\ x.time # 0 /\ x.time \in 0..Len(proofs)
    BY <1>2
  <2> HIDE DEF w
  <2>4. CollectorTypeOK'
    BY <1>1, <1>2, <2>1, <2>2, <2>3 DEF CollectorTypeOK
  <2>5. /\ \A y \in processing : y.phase # "new" => y.time # x.time /\ y.time <= x.time
        /\ \A i \in DOMAIN streamed : streamed[i].time # x.time /\ streamed[i].time <= x.time
    BY <1>2, <1>4 DEF CInv, WonOnce
  <2>6. WonOnce'
    BY <1>1, <2>1, <2>2, <2>3, <2>5 DEF CInv, WonOnce, StreamedOnce
  <2>7. Carried'
    BY <1>1, <2>1, <2>2 DEF CInv, Carried, Carries
  <2>8. NewestKept'
    <3>1. Accounted(latestTimestamp)'
      BY <2>1, <2>2 DEF Accounted
    <3>2. ASSUME x.time < Len(proofs)
          PROVE  \E y \in processing' : y.phase = "new" /\ y.time = Len(proofs)
      <4>1. PICK y \in processing : y.phase = "new" /\ y.time = Len(proofs)
        BY <1>2, <1>4, <3>2 DEF CInv, NewestKept
      <4>2. y # x
        BY <1>2, <3>2, <4>1
      <4>3. QED
        BY <2>1, <4>1, <4>2
    <3>3. QED
      BY <1>1, <2>1, <3>1, <3>2 DEF NewestKept
  <2>9. QED
    BY <1>3, <2>4, <2>6, <2>7, <2>8 DEF CInv
<1>5. CASE ~(x.time > latestTimestamp)
  <2>1. latestTimestamp' = latestTimestamp /\ processing' = processing \ {x}
    BY <1>5 DEF compareAndSwapLatestTimestamp, After
  <2>2. CollectorTypeOK'
    BY <1>1, <1>2, <2>1 DEF CollectorTypeOK
  <2>3. WonOnce' /\ Carried'
    BY <1>1, <2>1 DEF CInv, WonOnce, StreamedOnce, Carried, Carries
  <2>4. NewestKept'
    <3>1. latestTimestamp # 0 => Accounted(latestTimestamp)'
      BY <1>1, <2>1 DEF CInv, NewestKept, Accounted
    <3>2. \A y \in processing : latestTimestamp < Len(proofs) /\ y.time = Len(proofs) => y # x
      BY <1>2, <1>5
    <3>3. QED
      BY <1>1, <2>1, <3>1, <3>2 DEF CInv, NewestKept
  <2>5. QED
    BY <1>3, <2>2, <2>3, <2>4 DEF CInv
<1>6. QED
  BY <1>4, <1>5

\* orderProof keeps every signature of a submission whose signers the cached list has,
\* and drops the duplicates.
LEMMA OrderCarries ==
    ASSUME NEW list, ListOK(list), NEW time, orderProof(proofs[time], list).error = "none"
    PROVE  /\ orderProof(proofs[time], list).proof \in Seq(Oracle)
           /\ Carries(orderProof(proofs[time], list).proof, time)
<1> DEFINE signers == Members(proofs[time])
           ordered == InListOrder(signers, proofs[time], list)
<1>1. orderProof(proofs[time], list).proof = ordered /\ signers \subseteq Members(list)
  BY DEF orderProof
<1>2. ordered \in Seq(Oracle) /\ FollowsList(ordered, signers, list, Len(list))
  BY ListIsFollowed DEF ListOK
<1>3. DOMAIN list = 1..Len(list) /\ DOMAIN ordered = 1..Len(ordered) /\ Len(ordered) \in Nat
  BY <1>2 DEF ListOK
<1> HIDE DEF ordered, signers
<1>4. Members(ordered) = signers
  <2>1. \A k \in DOMAIN ordered : ordered[k] \in signers
    BY <1>2, Zenon DEF FollowsList
  <2>2. ASSUME NEW a \in signers PROVE \E k \in DOMAIN ordered : ordered[k] = a
    <3>1. PICK i \in DOMAIN list : list[i] = a
      BY <1>1, Zenon DEF Members
    <3>2. QED
      BY <1>2, <1>3, <3>1, Zenon DEF FollowsList
  <2>3. QED
    BY <2>1, <2>2 DEF Members
<1>5. Distinct(ordered)
  <2> SUFFICES ASSUME NEW k \in DOMAIN ordered, NEW l \in DOMAIN ordered,
                      ordered[k] = ordered[l], k < l
               PROVE  FALSE
    BY <1>3 DEF Distinct
  <2>1. PICK i \in 1..Len(list) : ordered[k] = list[i]
    BY <1>2, Zenon DEF FollowsList
  <2>2. i < i
    BY <1>2, <2>1, Zenon DEF FollowsList
  <2>3. QED
    BY <2>1, <2>2
<1>6. QED
  BY <1>1, <1>2, <1>4, <1>5 DEF Carries, signers

\* A submission is ordered or refused.
LEMMA IncomingCInv ==
    ASSUME CInv, NEW x \in processing, IncomingDataToOutgoingData(x)
    PROVE  CInv'
<1> DEFINE result == orderProof(proofs[x.time], cachedWhitelist)
<1>1. /\ UNCHANGED <<proofs, streamed, latestTimestamp, oracleList, cachedWhitelist, tracker>>
      /\ x.phase = "convert"
  BY DEF IncomingDataToOutgoingData, chainPart
<1>2. /\ proofs \in Seq(Proofs) /\ processing \in SUBSET Goroutine /\ streamed \in Seq(Streamed)
      /\ latestTimestamp \in 0..Len(proofs)
      /\ \A y \in processing : y.time \in 1..Len(proofs)
      /\ \A i \in DOMAIN streamed : streamed[i].time \in 1..Len(proofs)
  BY DEF CInv, CollectorTypeOK
<1>3. CASE result.error = "none"
  <2> DEFINE w == [x EXCEPT !.phase = "send", !.proof = result.proof]
  <2>1. processing' = (processing \ {x}) \cup {w} /\ UNCHANGED <<refused, refreshes>>
    BY <1>3 DEF IncomingDataToOutgoingData
  <2>2. result.proof \in Seq(Oracle) /\ Carries(result.proof, x.time)
    BY <1>3, OrderCarries DEF CInv, ListsOK
  <2> HIDE DEF result
  <2>3. w \in Goroutine /\ w.time = x.time /\ w.phase = "send" /\ w.proof = result.proof
    BY <1>2, <2>2, Zenon DEF Goroutine
  <2> HIDE DEF w
  <2>4. CollectorTypeOK' /\ ListsOK'
    BY <1>1, <1>2, <2>1, <2>3 DEF CInv, CollectorTypeOK, ListsOK
  <2>5. WonOnce'
    BY <1>1, <2>1, <2>3 DEF CInv, WonOnce, StreamedOnce
  <2>6. Carried'
    BY <1>1, <2>1, <2>2, <2>3 DEF CInv, Carried, Carries
  <2>7. NewestKept'
    BY <1>1, <2>1, <2>3 DEF CInv, NewestKept, Accounted
  <2>8. QED
    BY <2>4, <2>5, <2>6, <2>7 DEF CInv
<1>4. CASE result.error # "none"
  <2>1. /\ processing' = processing \ {x} /\ refused' = refused \cup {x.time}
        /\ refreshes' = refreshes \/ refreshes' = refreshes \cup {[of |-> x.time, list |-> <<>>]}
    BY <1>4 DEF IncomingDataToOutgoingData
  <2> HIDE DEF result
  <2>2. CollectorTypeOK'
    BY <1>1, <1>2, <2>1 DEF CollectorTypeOK
  <2>3. ListsOK'
    <3>1. <<>> \in Seq(Seq(Oracle)) /\ x.time \in Nat
      BY <1>2
    <3> DEFINE asked == [of |-> x.time, list |-> <<>>]
    <3>2. asked \in [of : Nat, list : Seq(Seq(Oracle))] /\ asked.list = <<>>
      BY <3>1
    <3>3. refreshes' = refreshes \/ refreshes' = refreshes \cup {asked}
      BY <2>1
    <3> HIDE DEF asked
    <3>4. QED
      BY <1>1, <3>2, <3>3 DEF CInv, ListsOK
  <2>4. WonOnce' /\ Carried'
    BY <1>1, <2>1 DEF CInv, WonOnce, StreamedOnce, Carried, Carries
  <2>5. NewestKept'
    BY <1>1, <2>1 DEF CInv, NewestKept, Accounted
  <2>6. QED
    BY <2>2, <2>3, <2>4, <2>5 DEF CInv
<1>5. QED
  BY <1>3, <1>4

\* What is put on the stream carries its proof there, and its goroutine sends no more.
LEMMA SendCInv ==
    ASSUME CInv, NEW x \in processing, Send(x)
    PROVE  CInv'
<1> DEFINE w == [x EXCEPT !.phase = "store"]
           data == [time |-> x.time, proof |-> x.proof]
           n == Len(streamed) + 1
<1>1. /\ UNCHANGED <<proofs, latestTimestamp, refused, oracleList, cachedWhitelist, tracker, refreshes>>
      /\ x.phase = "send" /\ streamed' = Append(streamed, data)
      /\ processing' = (processing \ {x}) \cup {w}
  BY DEF Send, chainPart, cachePart
<1>2. /\ proofs \in Seq(Proofs) /\ processing \in SUBSET Goroutine /\ streamed \in Seq(Streamed)
      /\ latestTimestamp \in 0..Len(proofs)
      /\ \A y \in processing : y.time \in 1..Len(proofs)
      /\ \A i \in DOMAIN streamed : streamed[i].time \in 1..Len(proofs)
  BY DEF CInv, CollectorTypeOK
<1>3. w \in Goroutine /\ w.time = x.time /\ w.phase = "store"
  BY <1>2 DEF Goroutine
<1>4. data \in Streamed /\ data.time = x.time /\ data.proof = x.proof
  BY <1>2 DEF Goroutine, Streamed
<1> HIDE DEF w, data
<1>5. /\ streamed' \in Seq(Streamed) /\ DOMAIN streamed' = 1..n /\ streamed'[n] = data /\ n \in 1..n
      /\ \A i \in DOMAIN streamed : i \in 1..n /\ i # n /\ streamed'[i] = streamed[i]
      /\ \A i \in 1..n : i \in DOMAIN streamed \/ i = n
  BY <1>1, <1>2, <1>4
<1> HIDE DEF n
<1>6. CollectorTypeOK' /\ ListsOK'
  BY <1>1, <1>2, <1>3, <1>4, <1>5 DEF CInv, CollectorTypeOK, ListsOK
<1>7. \A i \in DOMAIN streamed : streamed[i].time # x.time
  BY <1>1 DEF CInv, WonOnce
<1>8. StreamedOnce'
  BY <1>4, <1>5, <1>7 DEF CInv, WonOnce, StreamedOnce
<1>9. \A y \in processing : y.phase # "new" /\ y # x => y.time # x.time
  BY <1>1 DEF CInv, WonOnce
<1>10. WonOnce'
  BY <1>1, <1>3, <1>4, <1>5, <1>8, <1>9 DEF CInv, WonOnce
<1>11. Carried'
  BY <1>1, <1>3, <1>4, <1>5 DEF CInv, Carried, Carries
<1>12. NewestKept'
  BY <1>1, <1>3, <1>4, <1>5 DEF CInv, NewestKept, Accounted
<1>13. QED
  BY <1>6, <1>10, <1>11, <1>12 DEF CInv

\* A goroutine that ends after it has sent leaves its submission on the stream.
LEMMA StoreCInv ==
    ASSUME CInv, NEW x \in processing, Store(x)
    PROVE  CInv'
<1>1. /\ UNCHANGED <<proofs, latestTimestamp, streamed, refused>>
      /\ UNCHANGED <<oracleList, cachedWhitelist, tracker, refreshes>>
      /\ x.phase = "store" /\ processing' = processing \ {x}
  BY DEF Store, chainPart, cachePart
<1>2. ListsOK' /\ CollectorTypeOK' /\ WonOnce' /\ Carried'
  BY <1>1 DEF CInv, ListsOK, CollectorTypeOK, WonOnce, StreamedOnce, Carried, Carries
<1>3. NewestKept'
  BY <1>1 DEF CInv, NewestKept, Accounted
<1>4. QED
  BY <1>2, <1>3 DEF CInv

\* Every step of the collector, the contract, the aggregators and the hub keeps the
\* invariant.
LEMMA NextCInv == CInv /\ [CollectorNext]_collectorVars => CInv'
<1> SUFFICES ASSUME CInv, [CollectorNext]_collectorVars PROVE CInv'
  OBVIOUS
<1>1. ASSUME NEW a \in Oracle, OracleAdded(a) \/ OracleRemoved(a) PROVE CInv'
  BY <1>1, ContractLists
<1>2. ASSUME NEW proof \in Proofs, Publish(proof) PROVE CInv'
  BY <1>2, PublishCInv
<1>3. ASSUME NEW x \in processing,
             \/ compareAndSwapLatestTimestamp(x) \/ IncomingDataToOutgoingData(x)
             \/ Send(x) \/ Store(x)
      PROVE  CInv'
  BY <1>3, CompareCInv, IncomingCInv, SendCInv, StoreCInv
<1>4. CASE broadcastDataForSymbol
  <2>1. /\ UNCHANGED <<proofs, processing, latestTimestamp, streamed, refused>>
        /\ UNCHANGED <<oracleList, cachedWhitelist, tracker, refreshes>>
    BY <1>4 DEF broadcastDataForSymbol, chainPart, cachePart
  <2>2. QED
    BY <2>1 DEF CInv, ListsOK, CollectorTypeOK, WonOnce, StreamedOnce, Carried, Carries, NewestKept, Accounted
<1>5. CASE \/ \E r \in refreshes : RefreshReads(r) \/ RefreshFails(r) \/ RefreshStores(r)
           \/ TrackerReads \/ TrackerStores
  BY <1>5, CacheLists
<1>6. CASE UNCHANGED collectorVars
  <2>1. UNCHANGED dataPart /\ UNCHANGED <<oracleList, cachedWhitelist, tracker, refreshes>>
    BY <1>6 DEF collectorVars, chainPart, cachePart
  <2>2. ListsOK'
    BY <2>1 DEF CInv, ListsOK
  <2>3. QED
    BY <2>1, <2>2, DataUnchanged
<1>7. QED
  BY <1>1, <1>2, <1>3, <1>4, <1>5, <1>6 DEF CollectorNext

\* However the goroutines of the copies of submissions interleave, whatever becomes of
\* the cached list of oracles: a submission is streamed once, with all of its signatures,
\* each once, and the newest is streamed unless its proof was refused.
THEOREM SubmissionsStreamed == CollectorSpec => []CollectorStreams
<1>1. CInv => CollectorStreams
  <2> SUFFICES ASSUME CInv PROVE CollectorStreams
    OBVIOUS
  <2>1. StreamedOnce /\ SignaturesKept
    BY DEF CInv, WonOnce, Carried, Carries, SignaturesKept
  <2>2. NewestNotLost
    <3> SUFFICES ASSUME processing = {}, proofs # <<>>, Len(proofs) \notin refused
                 PROVE  \E i \in DOMAIN streamed : streamed[i].time = Len(proofs)
      BY DEF NewestNotLost
    <3>1. proofs \in Seq(Proofs) /\ latestTimestamp \in 0..Len(proofs)
      BY DEF CInv, CollectorTypeOK
    <3>2. Len(proofs) # 0 /\ ~(latestTimestamp < Len(proofs))
      BY <3>1 DEF CInv, NewestKept
    <3>3. latestTimestamp = Len(proofs) /\ latestTimestamp # 0
      BY <3>1, <3>2
    <3>4. QED
      BY <3>3 DEF CInv, NewestKept, Accounted
  <2>3. QED
    BY <2>1, <2>2 DEF CollectorStreams
<1>2. QED
  BY <1>1, InitCInv, NextCInv, PTL DEF CollectorSpec

-----------------------------------------------------------------------------
(* The hub.                                                                *)

HandlerState == {"none", "registering", "inserting", "reading", "subscribing", "unregistering", "gone"}

SymbolsOf(c) == IF c \in DOMAIN Clients THEN Clients[c] ELSE {}

\* The clients cleanup has visited are idle, or are kept with what they have: it holds
\* h.mu, so that nobody subscribes in between.
CleanupKeeps ==
    cleaning # NotRunning =>
        /\ cleaning[1] \subseteq DOMAIN Clients
        /\ \A c \in DOMAIN Clients : c \in cleaning[1] \/ IsIdle(c) \/ c \in DOMAIN kept
        /\ \A c \in DOMAIN kept : c \in DOMAIN Clients /\ kept[c] = Clients[c]

HubInv ==
    /\ handler \in [Client -> HandlerState]
    /\ subscribed \in [Client -> SUBSET Symbol]
    /\ open \in SUBSET Client
    /\ \A c \in Client : handler[c] \in {"none", "registering", "inserting"} => subscribed[c] = {}
    /\ SubscriptionsKept
    /\ CleanupKeeps


\* The invariant holds when the hub starts.
LEMMA InitHubInv == HubInit => HubInv
  BY DEF HubInit, HubInv, HandlerState, SubscriptionsKept, CleanupKeeps, NotRunning

\* Steps of a handler that does not subscribe leave the symbols alone.
LEMMA HandlerHubInv ==
    ASSUME HubInv, NEW c \in Client,
           \/ Accept(c) \/ Register(c) \/ InsertConnection(c) \/ InsertConnectionFails(c)
           \/ ReadSubscription(c) \/ ReadFails(c) \/ Unregister(c)
    PROVE  HubInv'
<1>1. UNCHANGED <<Clients, cleaning, kept, subscribed>>
  BY DEF Accept, Register, InsertConnection, InsertConnectionFails, ReadSubscription, ReadFails,
         Unregister
<1>2. PICK to \in HandlerState :
        /\ handler' = [handler EXCEPT ![c] = to]
        /\ open' \in {open, open \ {c}} \/ (open' = open \cup {c} /\ to = "registering")
        /\ to \in {"reading", "subscribing"} => handler[c] \in {"inserting", "reading"}
        /\ to \in {"none", "registering", "inserting"} => handler[c] \in {"none", "registering"}
  BY DEF HandlerState, Accept, Register, InsertConnection, InsertConnectionFails, ReadSubscription,
         ReadFails, Unregister
<1>3. to # "registering" => open' \in {open, open \ {c}}
  BY <1>2
<1>4. \A d \in Client : handler'[d] = IF d = c THEN to ELSE handler[d]
  BY <1>2 DEF HubInv
<1>5. /\ handler' \in [Client -> HandlerState] /\ open' \in SUBSET Client
      /\ subscribed' \in [Client -> SUBSET Symbol]
  BY <1>1, <1>2, <1>3 DEF HubInv
<1>6. \A d \in Client : handler'[d] \in {"none", "registering", "inserting"} => subscribed'[d] = {}
  BY <1>1, <1>2, <1>4 DEF HubInv
<1>7. SubscriptionsKept'
  <2> SUFFICES ASSUME NEW d \in open', handler'[d] \in {"reading", "subscribing"}
               PROVE  subscribed[d] \subseteq SymbolsOf(d)
    BY <1>1 DEF SubscriptionsKept, SymbolsOf
  <2>1. d \in Client
    BY <1>5
  <2>2. CASE d # c
    <3>1. d \in open /\ handler[d] \in {"reading", "subscribing"}
      BY <1>2, <1>4, <2>1, <2>2
    <3>2. QED
      BY <3>1 DEF HubInv, SubscriptionsKept, SymbolsOf
  <2>3. CASE d = c
    <3>1. handler[c] = "inserting" \/ (handler[c] = "reading" /\ c \in open)
      BY <1>2, <1>3, <1>4, <2>3
    <3>2. QED
      BY <2>3, <3>1 DEF HubInv, SubscriptionsKept, SymbolsOf
  <2>4. QED
    BY <2>2, <2>3
<1>8. CleanupKeeps'
  BY <1>1 DEF HubInv, CleanupKeeps, IsIdle
<1>9. QED
  BY <1>5, <1>6, <1>7, <1>8 DEF HubInv

\* A subscription adds to what the client has.
LEMMA SubscribeHubInv ==
    ASSUME HubInv, NEW c \in Client, NEW symbols \in SUBSET Symbol, HandleSubscription(c, symbols)
    PROVE  HubInv'
<1>1. /\ Clients' = [d \in DOMAIN Clients \cup {c} |->
                       IF d = c THEN symbols \cup SymbolsOf(c) ELSE Clients[d]]
      /\ subscribed' = [subscribed EXCEPT ![c] = @ \cup symbols]
      /\ handler' = [handler EXCEPT ![c] = "reading"] /\ handler[c] = "subscribing"
      /\ open' = open /\ cleaning' = NotRunning
  BY DEF HandleSubscription, With, SymbolsOf, Unlocked
<1>2. /\ handler' \in [Client -> HandlerState] /\ open' \in SUBSET Client
      /\ subscribed' \in [Client -> SUBSET Symbol]
  BY <1>1 DEF HubInv, HandlerState
<1>3. \A d \in Client : handler'[d] \in {"none", "registering", "inserting"} => subscribed'[d] = {}
  BY <1>1 DEF HubInv
<1>4. SubscriptionsKept'
  <2> SUFFICES ASSUME NEW d \in open, handler'[d] \in {"reading", "subscribing"}
               PROVE  subscribed'[d] \subseteq SymbolsOf(d)'
    BY <1>1 DEF SubscriptionsKept, SymbolsOf
  <2>1. d \in Client
    BY DEF HubInv
  <2>2. CASE d = c
    <3>1. subscribed[c] \subseteq SymbolsOf(c)
      BY <1>1, <2>2 DEF HubInv, SubscriptionsKept, SymbolsOf
    <3>2. SymbolsOf(c)' = symbols \cup SymbolsOf(c)
      BY <1>1 DEF SymbolsOf
    <3>3. subscribed'[c] = subscribed[c] \cup symbols
      BY <1>1 DEF HubInv
    <3>4. QED
      BY <2>2, <3>1, <3>2, <3>3
  <2>3. CASE d # c
    <3>1. SymbolsOf(d)' = SymbolsOf(d)
      BY <1>1, <2>3 DEF SymbolsOf
    <3>2. subscribed'[d] = subscribed[d] /\ handler'[d] = handler[d]
      BY <1>1, <2>1, <2>3 DEF HubInv
    <3>3. QED
      BY <3>1, <3>2 DEF HubInv, SubscriptionsKept, SymbolsOf
  <2>4. QED
    BY <2>2, <2>3
<1>5. CleanupKeeps'
  BY <1>1 DEF CleanupKeeps
<1>6. QED
  BY <1>2, <1>3, <1>4, <1>5 DEF HubInv

\* A registration that comes late takes nothing away, and a client that is removed with
\* symbols is closed.
LEMMA RegistrationHubInv ==
    ASSUME HubInv, NEW c \in Client, addClient(c) \/ removeClient(c)
    PROVE  HubInv'
<1>1. UNCHANGED <<handler, subscribed>> /\ cleaning' = NotRunning /\ open' \in SUBSET open
  BY DEF addClient, removeClient, Unlocked
<1>2. \A d \in open' : SymbolsOf(d)' = SymbolsOf(d)
  <2>1. CASE addClient(c)
    <3>1. Clients' = IF c \in DOMAIN Clients THEN Clients
                     ELSE [d \in DOMAIN Clients \cup {c} |-> IF d = c THEN {} ELSE Clients[d]]
      BY <2>1 DEF addClient, Added, With
    <3>2. QED
      BY <3>1 DEF SymbolsOf
  <2>2. CASE removeClient(c)
    <3>1. /\ Clients' = [d \in DOMAIN Clients \ {c} |-> Clients[d]]
          /\ c \in DOMAIN Clients => c \notin open'
      BY <2>2 DEF removeClient, Without
    <3>2. QED
      BY <3>1 DEF SymbolsOf
  <2>3. QED
    BY <2>1, <2>2
<1>3. SubscriptionsKept'
  BY <1>1, <1>2 DEF HubInv, SubscriptionsKept, SymbolsOf
<1>4. CleanupKeeps'
  BY <1>1 DEF CleanupKeeps
<1>5. QED
  BY <1>1, <1>3, <1>4 DEF HubInv

\* cleanup replaces the clients by those it kept, and drops only idle ones.
LEMMA CleanupHubInv ==
    ASSUME HubInv, CleanupProceeds
    PROVE  HubInv'
<1>1. UNCHANGED <<handler, subscribed, open>>
  BY DEF CleanupProceeds, CleanupBegins, CleanupVisits, CleanupEnds
<1>2. CASE CleanupBegins
  <2>1. Clients' = Clients /\ cleaning'[1] = DOMAIN Clients /\ kept' = <<>>
    BY <1>2 DEF CleanupBegins
  <2>2. QED
    BY <1>1, <2>1 DEF HubInv, SubscriptionsKept, CleanupKeeps
<1>3. ASSUME NEW c \in Client, CleanupVisits(c) PROVE HubInv'
  <2>1. /\ Clients' = Clients /\ cleaning # NotRunning /\ c \in cleaning[1]
        /\ cleaning' = <<cleaning[1] \ {c}>>
    BY <1>3 DEF CleanupVisits
  <2>2. cleaning'[1] = cleaning[1] \ {c}
    BY <2>1
  <2>3. CASE IsIdle(c)
    <3>1. kept' = kept
      BY <1>3, <2>3 DEF CleanupVisits
    <3>2. CleanupKeeps'
      BY <2>1, <2>2, <2>3, <3>1 DEF HubInv, CleanupKeeps, IsIdle
    <3>3. QED
      BY <1>1, <2>1, <3>2 DEF HubInv, SubscriptionsKept
  <2>4. CASE ~IsIdle(c)
    <3>1. kept' = [d \in DOMAIN kept \cup {c} |-> IF d = c THEN Clients[c] ELSE kept[d]]
      BY <1>3, <2>4 DEF CleanupVisits, With
    <3>2. c \in DOMAIN Clients
      BY <2>1 DEF HubInv, CleanupKeeps
    <3>3. CleanupKeeps'
      BY <2>1, <2>2, <3>1, <3>2 DEF HubInv, CleanupKeeps, IsIdle
    <3>4. QED
      BY <1>1, <2>1, <3>3 DEF HubInv, SubscriptionsKept
  <2>5. QED
    BY <2>3, <2>4
<1>4. CASE CleanupEnds
  <2>1. Clients' = kept /\ cleaning = <<{}>> /\ cleaning' = NotRunning
    BY <1>4 DEF CleanupEnds
  <2>2. /\ \A c \in DOMAIN Clients : Clients[c] = {} \/ c \in DOMAIN kept
        /\ \A c \in DOMAIN kept : c \in DOMAIN Clients /\ kept[c] = Clients[c]
    BY <2>1 DEF HubInv, CleanupKeeps, NotRunning, IsIdle
  <2>3. \A c : SymbolsOf(c)' = SymbolsOf(c)
    BY <2>1, <2>2 DEF SymbolsOf
  <2>4. SubscriptionsKept'
    BY <1>1, <2>3 DEF HubInv, SubscriptionsKept, SymbolsOf
  <2>5. QED
    BY <1>1, <2>1, <2>4 DEF HubInv, CleanupKeeps
<1>5. QED
  BY <1>2, <1>3, <1>4 DEF CleanupProceeds

\* A connected client is in the hub with everything it subscribed to, whatever clients
\* come and go, also when its first subscription overtakes its registration, and when
\* cleanup replaces the clients while a removal it asked for is on its way.
THEOREM SubscriptionsAreKept == HubSpec => []SubscriptionsKept
<1>1. HubInv /\ [HubNext]_hubVars => HubInv'
  <2> SUFFICES ASSUME HubInv, [HubNext]_hubVars PROVE HubInv'
    OBVIOUS
  <2>1. ASSUME NEW c \in Client,
               \/ Accept(c) \/ Register(c) \/ InsertConnection(c) \/ InsertConnectionFails(c)
               \/ ReadSubscription(c) \/ ReadFails(c) \/ Unregister(c)
        PROVE  HubInv'
    BY <2>1, HandlerHubInv
  <2>2. ASSUME NEW c \in Client, NEW symbols \in SUBSET Symbol, HandleSubscription(c, symbols)
        PROVE  HubInv'
    BY <2>2, SubscribeHubInv
  <2>3. CASE RegistrationProceeds
    BY <2>3, RegistrationHubInv DEF RegistrationProceeds
  <2>4. CASE CastBegins \/ CastEnds
    <3>1. UNCHANGED <<handler, open, Clients, cleaning, kept, subscribed>>
      BY <2>4 DEF CastBegins, CastEnds
    <3>2. QED
      BY <3>1 DEF HubInv, SubscriptionsKept, CleanupKeeps, IsIdle
  <2>5. CASE CleanupProceeds
    BY <2>5, CleanupHubInv
  <2>6. CASE UNCHANGED hubVars
    BY <2>6 DEF hubVars, HubInv, SubscriptionsKept, CleanupKeeps, IsIdle
  <2>7. QED
    BY <2>1, <2>2, <2>3, <2>4, <2>5, <2>6 DEF HubNext
<1>2. HubInv => SubscriptionsKept
  BY DEF HubInv
<1>3. QED
  BY <1>1, <1>2, InitHubInv, PTL DEF HubSpec

=============================================================================
