------------------------ MODULE AggregatorTypeProofs ------------------------
(***************************************************************************)
(* Type correctness of global aggregation.  First what the tables of a     *)
(* node hold: the types; the median of a finite set of reports, which is   *)
(* between two of them; a table that is locked, cleaned or added to, which *)
(* keeps the rest; and what processing a round publishes.  Then the steps: *)
(* each handler keeps the types, and is one of the steps named here        *)
(* (PriceStep, SignStep, ProofStep, or one that adds nothing).             *)
(* AggregatorProofs shows the invariant of those steps.                    *)
(***************************************************************************)
EXTENDS Aggregator, FiniteSetTheorems, WellFoundedInduction, TLAPS

\* The contexts of these proofs are large: more time than the default for each leaf.
USE SMTT(30), ZenonT(30)

Report == [from : Node, round : Round, price : Int]
Fix == [from : Node, round : Round, price : Int, ts : Nat]
Signature == [node : Node, round : Round, price : Int, ts : Nat]
Submission == [node : Node, round : Round, price : Int, ts : Nat, proofs : SUBSET Proof]

LeadersOK ==
    /\ leaderID \in [Node -> Node \cup {None}]
    /\ leading \in SUBSET led /\ driving \in SUBSET Node
    /\ led \in SUBSET Node /\ IsFiniteSet(led)

TablesOK == agg \in [Node -> Tables] /\ \A n \in Node : IsFiniteSet(agg[n].prices)

RoundsOK(rounds) == rounds \in [Node -> SUBSET Round] /\ \A n \in Node : IsFiniteSet(rounds[n])

HistoryOK ==
    /\ reported \in SUBSET Report /\ fixed \in SUBSET Fix
    /\ signed \in SUBSET Signature /\ submitted \in SUBSET Submission
    /\ forgotten \in [Node -> SUBSET Round]

TypeOK ==
    /\ LeadersOK /\ TablesOK /\ HistoryOK
    /\ msgs \in SUBSET Message /\ timers \in SUBSET Timer
    /\ RoundsOK(unsaved) /\ RoundsOK(saved) /\ RoundsOK(found)
    /\ clock \in Nat

\* What a message or an entry of a table stands for.
ReportOf(e) == [from |-> e.from, round |-> e.round, price |-> e.price]
FixOf(e) == [from |-> e.from, round |-> e.round, price |-> e.price, ts |-> e.ts]
SignatureOf(e) == [node |-> e.from, round |-> e.round, price |-> e.price, ts |-> e.ts]

-----------------------------------------------------------------------------
(* Smallest and largest numbers, and the median.                           *)

\* A nonempty set of naturals has a smallest element.
LEMMA SmallestNat ==
    ASSUME NEW S \in SUBSET Nat, S # {}
    PROVE  \E i \in S : \A j \in S : i <= j
<1>1. PICK i \in S : \A j \in S : ~(<<j, i>> \in OpToRel(<, Nat))
  BY WFMin, NatLessThanWellFounded, Zenon
<1>2. ASSUME NEW j \in S PROVE i <= j
  <2>1. ~(<<j, i>> \in {ss \in Nat \X Nat : ss[1] < ss[2]})
    BY <1>1 DEF OpToRel
  <2>2. <<j, i>> \in Nat \X Nat
    OBVIOUS
  <2>3. ~(j < i)
    BY <2>1, <2>2
  <2>4. QED
    BY <2>3
<1>3. QED
  BY <1>2

\* A finite nonempty set of naturals has a largest element: the one with most elements
\* up to it.
LEMMA LargestNat ==
    ASSUME NEW S \in SUBSET Nat, S # {}, IsFiniteSet(S)
    PROVE  \E i \in S : \A j \in S : j <= i
<1> DEFINE Upto(v) == {x \in S : x <= v}
           missing == {Cardinality(S) - Cardinality(Upto(v)) : v \in S}
<1>1. \A v : IsFiniteSet(Upto(v)) /\ Cardinality(Upto(v)) \in Nat
              /\ Cardinality(Upto(v)) <= Cardinality(S)
  <2> TAKE v
  <2>1. Upto(v) \in SUBSET S
    OBVIOUS
  <2> HIDE DEF Upto
  <2>2. QED
    BY <2>1, FS_Subset, FS_CardinalityType
<1>2. missing \in SUBSET Nat /\ missing # {}
  <2>1. Cardinality(S) \in Nat
    BY FS_CardinalityType
  <2> HIDE DEF Upto
  <2>2. \A v \in S : Cardinality(S) - Cardinality(Upto(v)) \in Nat
    BY <2>1, <1>1
  <2>3. QED
    BY <2>2, Zenon
<1>3. PICK d \in missing : \A e \in missing : d <= e
  BY <1>2, SmallestNat, Zenon
<1>4. PICK i \in S : d = Cardinality(S) - Cardinality(Upto(i))
  BY <1>3
<1>5. ASSUME NEW j \in S, ~(j <= i) PROVE FALSE
  <2>1. Upto(i) \in SUBSET Upto(j) /\ j \in Upto(j) /\ j \notin Upto(i)
    <3>1. i \in Nat /\ j \in Nat /\ i < j /\ \A x \in S : x \in Nat
      BY <1>5
    <3>2. j \in Upto(j) /\ j \notin Upto(i)
      BY <3>1
    <3>3. ASSUME NEW x \in Upto(i) PROVE x \in Upto(j)
      BY <3>1
    <3>4. QED
      BY <3>2, <3>3, Zenon
  <2>2. Cardinality(Upto(i)) <= Cardinality(Upto(j)) /\ Cardinality(Upto(i)) # Cardinality(Upto(j))
    <3> HIDE DEF Upto
    <3>1. IsFiniteSet(Upto(j))
      BY <1>1
    <3>2. QED
      BY <2>1, <3>1, FS_Subset
  <2>3. Cardinality(S) - Cardinality(Upto(j)) \in missing
    OBVIOUS
  <2>4. d <= Cardinality(S) - Cardinality(Upto(j))
    BY <2>3, <1>3
  <2>5. Cardinality(S) \in Nat
    BY FS_CardinalityType
  <2> HIDE DEF Upto, missing
  <2>6. QED
    BY <2>2, <2>4, <2>5, <1>1, <1>4
<1>6. QED
  BY <1>5

\* One of finitely many entries has the largest price.
LEMMA DearestEntry ==
    ASSUME NEW E, IsFiniteSet(E), E # {}, \A e \in E : e.price \in Nat
    PROVE  \E d \in E : \A e \in E : e.price <= d.price
<1> DEFINE prices == {e.price : e \in E}
           f == [e \in E |-> e.price]
<1>1. f \in Surjection(E, prices)
  BY DEF Surjection
<1>2. IsFiniteSet(prices)
  <2> HIDE DEF f, prices
  <2>1. QED
    BY <1>1, FS_Surjection
<1>3. prices \in SUBSET Nat /\ prices # {}
  OBVIOUS
<1>4. PICK v \in prices : \A w \in prices : w <= v
  BY <1>2, <1>3, LargestNat
<1>5. QED
  BY <1>4

\* The k-th smallest price is the price of an entry.
LEMMA NthIsAPrice ==
    ASSUME NEW E, IsFiniteSet(E), \A e \in E : e.price \in Nat,
           NEW k \in 1..Cardinality(E)
    PROVE  \E e \in E : Nth(E, k) = e.price
<1> DEFINE Upto(v) == {e \in E : e.price <= v}
           Below(v) == {e \in E : e.price < v}
           enough == {v \in {e.price : e \in E} : Cardinality(Upto(v)) >= k}
<1>0. Cardinality(E) \in Nat /\ k \in Nat
  BY FS_CardinalityType
<1>1. E # {}
  BY <1>0, FS_EmptySet
<1>2. PICK d \in E : \A e \in E : e.price <= d.price
  BY <1>1, DearestEntry
<1>3. Upto(d.price) = E
  BY <1>2
<1>4. d.price \in enough
  BY <1>0, <1>3
<1>5. enough \in SUBSET Nat /\ enough # {}
  BY <1>4, Zenon
<1>6. PICK w \in enough : \A v \in enough : w <= v
  BY <1>5, SmallestNat, Zenon
<1>7. Cardinality(Below(w)) < k
  <2>0. Below(w) \in SUBSET E
    OBVIOUS
  <2>1. IsFiniteSet(Below(w)) /\ Cardinality(Below(w)) \in Nat
    <3> HIDE DEF Below
    <3>1. QED
      BY <2>0, FS_Subset, FS_CardinalityType
  <2>2. SUFFICES ASSUME Cardinality(Below(w)) >= k PROVE FALSE
    BY <2>1, <1>0
  <2>3. Below(w) # {}
    <3> HIDE DEF Below
    <3>1. QED
      BY <2>1, <2>2, <1>0, FS_EmptySet
  <2>4. \A e \in Below(w) : e.price \in Nat
    OBVIOUS
  <2>5. PICK u \in Below(w) : \A e \in Below(w) : e.price <= u.price
    <3> HIDE DEF Below
    <3>1. QED
      BY <2>1, <2>3, <2>4, DearestEntry
  <2>6. Below(w) \in SUBSET Upto(u.price) /\ Upto(u.price) \in SUBSET E
    BY <2>5
  <2>7. Cardinality(Upto(u.price)) \in Nat /\ Cardinality(Below(w)) <= Cardinality(Upto(u.price))
    <3> HIDE DEF Below, Upto
    <3>1. IsFiniteSet(Upto(u.price))
      BY <2>6, FS_Subset
    <3>2. QED
      BY <2>6, <3>1, FS_Subset, FS_CardinalityType
  <2>8. Cardinality(Upto(u.price)) >= k
    <3> HIDE DEF Below, Upto
    <3>1. QED
      BY <2>1, <2>2, <2>7, <1>0
  <2>9. u.price \in enough
    BY <2>8, Zenon
  <2>10. w <= u.price /\ u.price < w /\ w \in Nat /\ u.price \in Nat
    BY <2>9, <2>5, <1>6, <1>5
  <2>11. QED
    BY <2>10
<1>8. w \in {e.price : e \in E} /\ Cardinality(Below(w)) < k /\ Cardinality(Upto(w)) >= k
  BY <1>6, <1>7
<1>9. Nth(E, k) \in {e.price : e \in E}
  BY <1>8, Zenon DEF Nth
<1>10. QED
  BY <1>9

\* The median of prices lies between two of them (GetInt64Med).
LEMMA MedianWithin ==
    ASSUME NEW E, IsFiniteSet(E), E # {}, \A e \in E : e.price \in Nat
    PROVE  /\ GetInt64Med(E) \in Nat
           /\ \E lo, hi \in E : lo.price <= GetInt64Med(E) /\ GetInt64Med(E) <= hi.price
<1> DEFINE n == Cardinality(E)
           a == Nth(E, n \div 2)
           b == Nth(E, n \div 2 + 1)
<1>1. n \in Nat /\ n # 0
  BY FS_CardinalityType, FS_EmptySet
<1>2. n \div 2 + 1 \in 1..n /\ (n % 2 = 0 => n \div 2 \in 1..n)
  <2> HIDE DEF n
  <2>1. QED
    BY <1>1
<1>3. PICK y \in E : b = y.price
  BY <1>2, NthIsAPrice
<1>4. CASE n % 2 = 0
  <2>1. PICK x \in E : a = x.price
    BY <1>2, <1>4, NthIsAPrice
  <2>2. GetInt64Med(E) = (a + b) \div 2
    BY <1>4 DEF GetInt64Med
  <2>3. a \in Nat /\ b \in Nat
    BY <2>1, <1>3
  <2> HIDE DEF a, b
  <2>4. CASE a <= b
    <3>1. (a + b) \div 2 \in Nat /\ a <= (a + b) \div 2 /\ (a + b) \div 2 <= b
      BY <2>3, <2>4
    <3>2. QED
      BY <3>1, <2>1, <2>2, <1>3
  <2>5. CASE b <= a
    <3>1. (a + b) \div 2 \in Nat /\ b <= (a + b) \div 2 /\ (a + b) \div 2 <= a
      BY <2>3, <2>5
    <3>2. QED
      BY <3>1, <2>1, <2>2, <1>3
  <2>6. QED
    BY <2>3, <2>4, <2>5
<1>5. CASE n % 2 # 0
  <2>1. GetInt64Med(E) = b
    BY <1>5 DEF GetInt64Med
  <2>2. b \in Nat /\ b <= b
    BY <1>3
  <2>3. QED
    BY <2>1, <2>2, <1>3
<1>6. QED
  BY <1>4, <1>5

-----------------------------------------------------------------------------
(* Tables.                                                                 *)

\* The tables r differ from s at most in the triggers and in a later round.
SameEntries(s, r) ==
    /\ r \in Tables /\ s.roundID <= r.roundID
    /\ r.prices = s.prices /\ r.pricesLocked = s.pricesLocked /\ r.fixes = s.fixes
    /\ r.proofs = s.proofs /\ r.proofsLocked = s.proofsLocked

\* What was known in s is known in r, or its round is among the lost ones.
Keeps(s, r, lost) ==
    /\ s.pricesLocked \subseteq r.pricesLocked \cup lost
    /\ s.fixes \subseteq r.fixes \cup lost
    /\ s.proofsLocked \subseteq r.proofsLocked \cup lost
    /\ \A e \in s.proofs : e \in r.proofs \/ e.round \in lost

\* In a step every node keeps what it knows, or has lost the round afterwards.
KeepsKnown ==
    \A n \in Node :
        /\ forgotten[n] \subseteq forgotten'[n]
        /\ Keeps(agg[n], agg'[n], forgotten'[n])

\* In a step no node gets a price or a proof.
AddsNothing ==
    \A n \in Node : agg'[n].prices \subseteq agg[n].prices /\ agg'[n].proofs \subseteq agg[n].proofs

RoundsGrow == \A n \in Node : agg[n].roundID <= agg'[n].roundID

\* Accepting a trigger changes the round and the triggers only.
LEMMA AcceptedTables ==
    ASSUME NEW s \in Tables, NEW m \in Message
    PROVE  /\ SameEntries(s, s)
           /\ SameEntries(s, Advanced(s, m))
           /\ SameEntries(s, [Advanced(s, m) EXCEPT !.triggers = @ \cup {m.round}])
<1> DEFINE round == IF m.from # m.to /\ m.round > s.roundID THEN m.round ELSE s.roundID
<1>1. round \in Round /\ s.roundID <= round /\ s.roundID \in Nat
  BY DEF Tables, Message, Round
<1>2. Advanced(s, m) = [s EXCEPT !.roundID = round]
  BY DEF Advanced
<1> HIDE DEF round
<1>3. SameEntries(s, s)
  BY <1>1 DEF SameEntries, Tables
<1>4. SameEntries(s, Advanced(s, m))
  BY <1>1, <1>2 DEF SameEntries, Tables
<1>5. m.round \in Round
  BY DEF Message
<1>6. SameEntries(s, [Advanced(s, m) EXCEPT !.triggers = @ \cup {m.round}])
  BY <1>1, <1>2, <1>5, Zenon DEF SameEntries, Tables
<1>7. QED
  BY <1>3, <1>4, <1>6

\* The deletion of old rounds leaves tables, with less in them, and loses nothing of
\* the rounds it keeps (leaveOnlyLast10Entries).
LEMMA LeftTables ==
    ASSUME NEW s \in Tables, NEW round \in Round
    PROVE  /\ leaveOnlyLast10Entries(s, round) \in Tables
           /\ leaveOnlyLast10Entries(s, round).roundID = s.roundID
           /\ leaveOnlyLast10Entries(s, round).prices \subseteq s.prices
           /\ leaveOnlyLast10Entries(s, round).proofs \subseteq s.proofs
           /\ Keeps(s, leaveOnlyLast10Entries(s, round), Rounds(s) \ Kept(round))
           /\ Rounds(s) \in SUBSET Round
<1> DEFINE prices == {e \in s.prices : e.round \in Kept(round)}
           proofs == {e \in s.proofs : e.round \in Kept(round)}
           r == leaveOnlyLast10Entries(s, round)
<1>1. r = [s EXCEPT !.triggers = @ \cap Kept(round),
                    !.prices = prices, !.pricesLocked = @ \cap Kept(round),
                    !.fixes = @ \cap Kept(round),
                    !.proofs = proofs, !.proofsLocked = @ \cap Kept(round)]
  BY DEF leaveOnlyLast10Entries
<1>2. /\ prices \in SUBSET Price /\ prices \subseteq s.prices
      /\ proofs \in SUBSET Proof /\ proofs \subseteq s.proofs
  BY DEF Tables
<1>3. /\ r.roundID = s.roundID /\ r.prices = prices /\ r.proofs = proofs
      /\ r.pricesLocked = s.pricesLocked \cap Kept(round)
      /\ r.fixes = s.fixes \cap Kept(round)
      /\ r.proofsLocked = s.proofsLocked \cap Kept(round)
  BY <1>1 DEF Tables
<1>4. r \in Tables
  <2> HIDE DEF prices, proofs, r
  <2>1. QED
    BY <1>1, <1>2, Zenon DEF Tables
<1>5. Keeps(s, r, Rounds(s) \ Kept(round))
  <2> HIDE DEF r
  <2>1. QED
    BY <1>3 DEF Keeps, Rounds
<1>6. Rounds(s) \in SUBSET Round
  BY DEF Rounds, Tables, Price, Proof
<1>7. QED
  BY <1>2, <1>3, <1>4, <1>5, <1>6

\* A trigger's deferred deletion, of tables s that differ little from the node's.
LEMMA ForgetStep ==
    ASSUME TypeOK, NEW m \in Message, NEW s, SameEntries(agg[m.to], s), Forget(s, m)
    PROVE  /\ TablesOK' /\ forgotten' \in [Node -> SUBSET Round]
           /\ KeepsKnown /\ AddsNothing /\ RoundsGrow
<1> DEFINE n == m.to
           r == leaveOnlyLast10Entries(s, m.round)
           lost == Rounds(s) \ Kept(m.round)
<1>0. n \in Node /\ m.round \in Round /\ s \in Tables /\ agg[n] \in Tables
  BY DEF Message, TypeOK, TablesOK, SameEntries
<1>1. /\ r \in Tables /\ r.roundID = s.roundID
      /\ r.prices \subseteq s.prices /\ r.proofs \subseteq s.proofs
      /\ Keeps(s, r, lost) /\ lost \in SUBSET Round
  BY <1>0, LeftTables, Zenon
<1>2. /\ agg' = [agg EXCEPT ![n] = r]
      /\ forgotten' = [forgotten EXCEPT ![n] = @ \cup lost]
  BY DEF Forget
<1> HIDE DEF n, r, lost
<1>3. /\ agg' \in [Node -> Tables] /\ agg'[n] = r
      /\ \A p \in Node : p # n => agg'[p] = agg[p]
  BY <1>0, <1>1, <1>2 DEF TypeOK, TablesOK
<1>4. /\ forgotten' \in [Node -> SUBSET Round] /\ forgotten'[n] = forgotten[n] \cup lost
      /\ \A p \in Node : p # n => forgotten'[p] = forgotten[p]
  BY <1>0, <1>1, <1>2 DEF TypeOK, HistoryOK
<1>5. SameEntries(agg[n], s)
  BY DEF n
<1>6. IsFiniteSet(r.prices)
  <2>1. IsFiniteSet(s.prices) /\ r.prices \in SUBSET s.prices
    BY <1>0, <1>1, <1>5 DEF SameEntries, TypeOK, TablesOK
  <2>2. QED
    BY <2>1, FS_Subset
<1>7. TablesOK'
  BY <1>3, <1>6 DEF TypeOK, TablesOK
<1>8. KeepsKnown
  BY <1>1, <1>3, <1>4, <1>5 DEF KeepsKnown, Keeps, SameEntries
<1>9. AddsNothing
  BY <1>1, <1>3, <1>5 DEF AddsNothing, SameEntries
<1>10. RoundsGrow
  BY <1>0, <1>1, <1>3, <1>5 DEF RoundsGrow, SameEntries, TypeOK, TablesOK, Tables, Round
<1>11. QED
  BY <1>4, <1>7, <1>8, <1>9, <1>10

\* The tables of one node are replaced by tables that know as much.
LEMMA ReplaceStep ==
    ASSUME TypeOK, NEW n \in Node, NEW r \in Tables, IsFiniteSet(r.prices),
           Keeps(agg[n], r, {}), agg[n].roundID <= r.roundID,
           agg' = [agg EXCEPT ![n] = r], forgotten' = forgotten
    PROVE  /\ TablesOK' /\ KeepsKnown /\ RoundsGrow
           /\ agg'[n] = r /\ \A p \in Node : p # n => agg'[p] = agg[p]
<1>1. /\ agg' \in [Node -> Tables] /\ agg'[n] = r
      /\ \A p \in Node : p # n => agg'[p] = agg[p]
  BY DEF TypeOK, TablesOK
<1>2. TablesOK'
  BY <1>1 DEF TypeOK, TablesOK
<1>3. KeepsKnown
  BY <1>1 DEF KeepsKnown, Keeps
<1>4. RoundsGrow
  BY <1>1 DEF RoundsGrow, TypeOK, TablesOK, Tables, Round
<1>5. QED
  BY <1>1, <1>2, <1>3, <1>4

\* The tables do not change.
LEMMA SameTables ==
    ASSUME TypeOK, agg' = agg, forgotten' = forgotten
    PROVE  TablesOK' /\ KeepsKnown /\ RoundsGrow /\ AddsNothing
  BY DEF KeepsKnown, Keeps, RoundsGrow, AddsNothing, TypeOK, TablesOK, Tables, Round

\* Locking a round in one of the three tables, or storing an entry, loses nothing.
LEMMA LockedTables ==
    ASSUME NEW s \in Tables, NEW round \in Round
    PROVE  /\ lockPrices(s, round) \in Tables /\ Keeps(s, lockPrices(s, round), {})
           /\ lockPrices(s, round).roundID = s.roundID /\ lockPrices(s, round).prices = s.prices
           /\ lockPrices(s, round).proofs = s.proofs /\ round \in lockPrices(s, round).pricesLocked
           /\ lockFix(s, round) \in Tables /\ Keeps(s, lockFix(s, round), {})
           /\ lockFix(s, round).roundID = s.roundID /\ lockFix(s, round).prices = s.prices
           /\ lockFix(s, round).proofs = s.proofs /\ round \in lockFix(s, round).fixes
           /\ lockProofs(s, round) \in Tables /\ Keeps(s, lockProofs(s, round), {})
           /\ lockProofs(s, round).roundID = s.roundID /\ lockProofs(s, round).prices = s.prices
           /\ lockProofs(s, round).proofs = s.proofs
           /\ round \in lockProofs(s, round).proofsLocked
<1>1. /\ lockPrices(s, round) \in Tables /\ Keeps(s, lockPrices(s, round), {})
      /\ lockPrices(s, round).roundID = s.roundID /\ lockPrices(s, round).prices = s.prices
      /\ lockPrices(s, round).proofs = s.proofs /\ round \in lockPrices(s, round).pricesLocked
  BY DEF lockPrices, Keeps, Tables
<1>2. /\ lockFix(s, round) \in Tables /\ Keeps(s, lockFix(s, round), {})
      /\ lockFix(s, round).roundID = s.roundID /\ lockFix(s, round).prices = s.prices
      /\ lockFix(s, round).proofs = s.proofs /\ round \in lockFix(s, round).fixes
  BY DEF lockFix, Keeps, Tables
<1>3. /\ lockProofs(s, round) \in Tables /\ Keeps(s, lockProofs(s, round), {})
      /\ lockProofs(s, round).roundID = s.roundID /\ lockProofs(s, round).prices = s.prices
      /\ lockProofs(s, round).proofs = s.proofs
      /\ round \in lockProofs(s, round).proofsLocked
  BY DEF lockProofs, Keeps, Tables
<1>4. QED
  BY <1>1, <1>2, <1>3

\* A table that gets a price or a proof keeps the others.
LEMMA StoredTables ==
    ASSUME NEW s \in Tables, IsFiniteSet(s.prices), NEW e \in Price, NEW d \in Proof
    PROVE  LET r == [s EXCEPT !.prices = @ \cup {e}]
               q == [s EXCEPT !.proofs = @ \cup {d}]
           IN  /\ r \in Tables /\ Keeps(s, r, {}) /\ r.roundID = s.roundID
               /\ r.prices = s.prices \cup {e} /\ r.proofs = s.proofs /\ IsFiniteSet(r.prices)
               /\ q \in Tables /\ Keeps(s, q, {}) /\ q.roundID = s.roundID
               /\ q.prices = s.prices /\ q.proofs = s.proofs \cup {d}
<1> DEFINE r == [s EXCEPT !.prices = @ \cup {e}]
           q == [s EXCEPT !.proofs = @ \cup {d}]
<1>1. IsFiniteSet(s.prices \cup {e})
  BY FS_AddElement
<1>2. /\ r \in Tables /\ Keeps(s, r, {}) /\ r.roundID = s.roundID
      /\ r.prices = s.prices \cup {e} /\ r.proofs = s.proofs
  BY DEF Keeps, Tables
<1>3. /\ q \in Tables /\ Keeps(s, q, {}) /\ q.roundID = s.roundID
      /\ q.prices = s.prices /\ q.proofs = s.proofs \cup {d}
  BY DEF Keeps, Tables
<1>4. QED
  BY <1>1, <1>2, <1>3

\* What two changes keep, both together keep.
LEMMA KeepsTwice ==
    ASSUME NEW s, NEW r, NEW q, Keeps(s, r, {}), Keeps(r, q, {})
    PROVE  Keeps(s, q, {})
  BY DEF Keeps

\* Tables that keep the reports and the round of others are as finite and as far.
LEMMA SameReports ==
    ASSUME NEW s, NEW r, IsFiniteSet(s.prices), s.roundID \in Nat,
           r.prices = s.prices, r.roundID = s.roundID
    PROVE  IsFiniteSet(r.prices) /\ s.roundID <= r.roundID
<1>1. IsFiniteSet(r.prices)
  BY Zenon
<1>2. s.roundID <= r.roundID
  OBVIOUS
<1>3. QED
  BY <1>1, <1>2

-----------------------------------------------------------------------------
(* What is published.                                                      *)

\* Publish sends one message of the given content to each subscriber.
LEMMA PublishedMessages ==
    ASSUME NEW type \in MessageType, NEW n \in Node, NEW round \in Round, NEW price \in Int,
           NEW ts \in Nat
    PROVE  /\ Publish(type, n, round, price, ts) \in SUBSET Message
           /\ \A m \in Publish(type, n, round, price, ts) :
                 /\ m.type = type /\ m.from = n /\ m.round = round
                 /\ m.price = price /\ m.ts = ts
  BY DEF Publish, Message

\* A price that is fixed by tables s: the median of prices in s.
FixedBy(f, s, n, round, ts) ==
    /\ f.from = n /\ f.round = round /\ f.ts = ts
    /\ \E lo, hi \in s.prices :
          /\ lo.round = round /\ hi.round = round
          /\ 0 <= lo.price /\ lo.price <= f.price /\ f.price <= hi.price

\* A price fixed from the reports of s is fixed from those of any tables with the same.
LEMMA FixedBySame ==
    ASSUME NEW f, NEW s, NEW r, NEW n, NEW round, NEW ts,
           FixedBy(f, s, n, round, ts), r.prices = s.prices
    PROVE  f.round = round /\ FixedBy(f, r, n, f.round, f.ts)
  BY Zenon DEF FixedBy

\* A leader with reports fixes one price, which is between two of them.
LEMMA FixedPrice ==
    ASSUME NEW s \in Tables, IsFiniteSet(s.prices), NEW n \in Node, NEW round \in Round,
           NEW ts \in Nat
    PROVE  /\ PriceFixes(s, n, round, ts) \in SUBSET Fix
           /\ \A f \in PriceFixes(s, n, round, ts) : n \in leading /\ FixedBy(f, s, n, round, ts)
           /\ \A f, g \in PriceFixes(s, n, round, ts) : f = g
<1> DEFINE E == FilterNegative(OfRound(s.prices, round))
<1>1. CASE n \in leading /\ E # {}
  <2>1. /\ E \in SUBSET s.prices
        /\ \A e \in E : e.round = round /\ e.price \in Nat
    BY DEF FilterNegative, OfRound, Tables, Price
  <2>2. IsFiniteSet(E)
    <3> HIDE DEF E
    <3>1. QED
      BY <2>1, FS_Subset
  <2>3. PriceFixes(s, n, round, ts) =
           {[from |-> n, round |-> round, price |-> GetInt64Med(E), ts |-> ts]}
    BY <1>1 DEF PriceFixes
  <2> HIDE DEF E
  <2>4. GetInt64Med(E) \in Nat
    BY <1>1, <2>1, <2>2, MedianWithin
  <2>5. PICK lo \in E, hi \in E : lo.price <= GetInt64Med(E) /\ GetInt64Med(E) <= hi.price
    BY <1>1, <2>1, <2>2, MedianWithin
  <2>6. 0 <= lo.price /\ lo \in s.prices /\ hi \in s.prices
    BY <2>1
  <2>7. QED
    BY <1>1, <2>1, <2>3, <2>4, <2>5, <2>6 DEF Fix, FixedBy
<1>2. CASE ~(n \in leading /\ E # {})
  <2>1. PriceFixes(s, n, round, ts) = {}
    BY <1>2 DEF PriceFixes
  <2>2. QED
    BY <2>1
<1>3. QED
  BY <1>1, <1>2

\* Prices are processed (processCollectedPrices): the tables become those of s with the
\* round locked, at most one price is fixed, and all new messages carry it.
LEMMA PricesProcessed ==
    ASSUME TypeOK, NEW s \in Tables, IsFiniteSet(s.prices), NEW n \in Node, NEW round \in Round,
           NEW ts \in Nat, NEW left \in SUBSET Message,
           processCollectedPrices(s, n, round, ts, left)
    PROVE  /\ agg' = [agg EXCEPT ![n] = lockPrices(s, round)]
           /\ fixed' \in SUBSET Fix /\ fixed \in SUBSET fixed'
           /\ msgs' \in SUBSET Message
           /\ \A f \in fixed' \ fixed : n \in leading /\ FixedBy(f, s, n, round, ts)
           /\ \A f, g \in fixed' \ fixed : f = g
           /\ \A m \in msgs' \ left : m.type = "priceFix" /\ FixOf(m) \in fixed'
<1> DEFINE fixes == PriceFixes(s, n, round, ts)
           Sent(f) == Publish("priceFix", n, round, f.price, ts)
<1>1. /\ fixes \in SUBSET Fix
      /\ \A f \in fixes : n \in leading /\ FixedBy(f, s, n, round, ts)
      /\ \A f, g \in fixes : f = g
  BY FixedPrice
<1>2. /\ agg' = [agg EXCEPT ![n] = lockPrices(s, round)]
      /\ fixed' = fixed \cup fixes
      /\ msgs' = left \cup UNION {Sent(f) : f \in fixes}
  BY DEF processCollectedPrices
<1> HIDE DEF fixes
<1>3. \A f \in fixes :
         /\ Sent(f) \in SUBSET Message
         /\ \A m \in Sent(f) : m.type = "priceFix" /\ FixOf(m) = f
  <2> TAKE f \in fixes
  <2>1. f.price \in Int /\ f = [from |-> n, round |-> round, price |-> f.price, ts |-> ts]
    BY <1>1 DEF Fix, FixedBy
  <2>2. "priceFix" \in MessageType
    BY DEF MessageType
  <2>3. /\ Sent(f) \in SUBSET Message
        /\ \A m \in Sent(f) : /\ m.type = "priceFix" /\ m.from = n /\ m.round = round
                              /\ m.price = f.price /\ m.ts = ts
    BY <2>1, <2>2, PublishedMessages
  <2> HIDE DEF Sent
  <2>4. QED
    BY <2>1, <2>3 DEF FixOf
<1> HIDE DEF Sent
<1>4. fixed \in SUBSET Fix
  BY DEF TypeOK, HistoryOK
<1>5. msgs' \in SUBSET Message /\ \A m \in msgs' \ left : m.type = "priceFix" /\ FixOf(m) \in fixed'
  BY <1>2, <1>3
<1>6. QED
  BY <1>1, <1>2, <1>4, <1>5

\* A submission of tables s.
SubmittedBy(d, s, n, round, price, ts) ==
    /\ d.node = n /\ d.round = round /\ d.price = price /\ d.ts = ts
    /\ d.proofs = OfRound(s.proofs, round)

\* Proofs are processed (processCollectedProofs): at most one aggregate is published,
\* with all proofs of the round.
LEMMA ProofsProcessed ==
    ASSUME TypeOK, NEW s \in Tables, NEW n \in Node, NEW round \in Round, NEW price \in Int,
           NEW ts \in Nat, processCollectedProofs(s, n, round, price, ts)
    PROVE  /\ agg' = [agg EXCEPT ![n] = lockProofs(s, round)]
           /\ submitted' \in SUBSET Submission /\ submitted \in SUBSET submitted'
           /\ RoundsOK(unsaved)'
           /\ \A d \in submitted' \ submitted : SubmittedBy(d, s, n, round, price, ts)
           /\ \A c, d \in submitted' \ submitted : c = d
<1> DEFINE data == PublishGlobalAggregateAndProof(s, n, round, price, ts)
           rounds == {d.round : d \in data}
<1>1. /\ agg' = [agg EXCEPT ![n] = lockProofs(s, round)]
      /\ submitted' = submitted \cup data
      /\ unsaved' = [unsaved EXCEPT ![n] = @ \cup rounds]
  BY DEF processCollectedProofs
<1>2. /\ data \in SUBSET Submission
      /\ \A d \in data : SubmittedBy(d, s, n, round, price, ts)
      /\ \A c, d \in data : c = d
      /\ data = {} \/ \E d : data = {d}
  <2> DEFINE d == [node |-> n, round |-> round, price |-> price,
                   ts |-> ts, proofs |-> OfRound(s.proofs, round)]
  <2>1. data = {} \/ data = {d}
    BY DEF PublishGlobalAggregateAndProof
  <2>2. OfRound(s.proofs, round) \in SUBSET Proof
    BY DEF OfRound, Tables
  <2>3. d \in Submission /\ SubmittedBy(d, s, n, round, price, ts)
    BY <2>2 DEF Submission, SubmittedBy
  <2> HIDE DEF d, data
  <2>4. QED
    BY <2>1, <2>3
<1> HIDE DEF data
<1>3. rounds \in SUBSET Round /\ (rounds = {} \/ rounds = {round})
  BY <1>2 DEF Submission, SubmittedBy
<1> HIDE DEF rounds
<1>4. RoundsOK(unsaved)'
  <2>1. unsaved[n] \in SUBSET Round /\ IsFiniteSet(unsaved[n])
    BY DEF TypeOK, RoundsOK
  <2>2. IsFiniteSet(unsaved[n] \cup rounds)
    <3>1. CASE rounds = {}
      <4>1. unsaved[n] \cup rounds = unsaved[n]
        BY <3>1
      <4>2. QED
        BY <2>1, <4>1
    <3>2. CASE rounds = {round}
      BY <2>1, <3>2, FS_AddElement
    <3>3. QED
      BY <1>3, <3>1, <3>2
  <2>3. QED
    BY <1>1, <1>3, <2>1, <2>2 DEF TypeOK, RoundsOK
<1>5. submitted \in SUBSET Submission
  BY DEF TypeOK, HistoryOK
<1>6. QED
  BY <1>1, <1>2, <1>4, <1>5

-----------------------------------------------------------------------------
(* Types.  Each step of a handler keeps what the nodes know.               *)

\* The types hold of the state every node starts in.
LEMMA InitType == Init => TypeOK
<1> SUFFICES ASSUME Init PROVE TypeOK
  OBVIOUS
<1> DEFINE fresh == NewAggregator(getLatestRoundId({}))
<1>1. fresh \in Tables /\ fresh.prices = {}
  BY DEF NewAggregator, getLatestRoundId, Tables, Round
<1>2. agg = [n \in Node |-> fresh]
  BY DEF Init
<1> HIDE DEF fresh
<1>3. TablesOK
  BY <1>1, <1>2, FS_EmptySet DEF TablesOK
<1>4. LeadersOK
  BY FS_EmptySet DEF Init, Lead!Init, LeadersOK
<1>5. HistoryOK
  BY DEF Init, HistoryOK
<1>6. RoundsOK(unsaved) /\ RoundsOK(saved) /\ RoundsOK(found)
  BY FS_EmptySet DEF Init, RoundsOK
<1>7. QED
  BY <1>3, <1>4, <1>5, <1>6 DEF Init, TypeOK

\* The leaders stay what they were where no step touches them.
LEMMA SameLeaders == ASSUME TypeOK, UNCHANGED leaderVars PROVE LeadersOK'
  BY DEF TypeOK, LeadersOK, leaderVars

\* The rounds stored, found or to be stored stay what they were where no step touches them.
LEMMA SameRounds ==
    ASSUME TypeOK
    PROVE  /\ unsaved' = unsaved => RoundsOK(unsaved)'
           /\ saved' = saved => RoundsOK(saved)'
           /\ found' = found => RoundsOK(found)'
  BY DEF TypeOK, RoundsOK

\* LeaderJob asks for the next round and publishes no price.
LEMMA LeaderJobType ==
    ASSUME TypeOK, NEW n \in Node, LeaderJob(n)
    PROVE  TypeOK' /\ KeepsKnown /\ RoundsGrow /\ AddsNothing
<1> DEFINE round == agg[n].roundID + 1
           r == [agg[n] EXCEPT !.roundID = round]
           ts == clock + 1
<1>1. agg[n] \in Tables /\ round \in Round /\ agg[n].roundID <= round /\ ts \in Nat
  BY DEF TypeOK, TablesOK, Tables, Round
<1>2. agg' = [agg EXCEPT ![n] = r] /\ msgs' = msgs \cup Publish("trigger", n, round, 0, ts)
  BY DEF LeaderJob
<1> HIDE DEF round
<1>3. /\ r \in Tables /\ r.roundID = round /\ Keeps(agg[n], r, {})
      /\ r.prices = agg[n].prices /\ r.proofs = agg[n].proofs
  BY <1>1 DEF Tables, Keeps
<1> HIDE DEF r, ts
<1>4. IsFiniteSet(r.prices)
  BY <1>3 DEF TypeOK, TablesOK
<1>5. /\ TablesOK' /\ KeepsKnown /\ RoundsGrow
      /\ agg'[n] = r /\ \A p \in Node : p # n => agg'[p] = agg[p]
  BY <1>1, <1>2, <1>3, <1>4, ReplaceStep, Zenon DEF LeaderJob
<1>6. AddsNothing
  BY <1>3, <1>5 DEF AddsNothing
<1>7. msgs' \in SUBSET Message
  BY <1>1, <1>2, PublishedMessages DEF TypeOK, MessageType
<1>8. LeadersOK'
  BY SameLeaders DEF LeaderJob
<1>9. RoundsOK(unsaved)' /\ RoundsOK(saved)' /\ RoundsOK(found)'
  BY SameRounds DEF LeaderJob, process
<1>10. HistoryOK' /\ timers' \in SUBSET Timer /\ clock' \in Nat
  BY DEF LeaderJob, TypeOK, HistoryOK
<1>11. QED
  BY <1>5, <1>6, <1>7, <1>8, <1>9, <1>10 DEF TypeOK

\* A refused trigger only forgets what was cleaned up.
LEMMA RefuseTriggerType ==
    ASSUME TypeOK, NEW m \in msgs, RefuseTrigger(m)
    PROVE  TypeOK' /\ KeepsKnown /\ RoundsGrow /\ AddsNothing
<1> DEFINE s == IF m.from = leaderID[m.to] THEN Advanced(agg[m.to], m) ELSE agg[m.to]
<1>1. m \in Message /\ agg[m.to] \in Tables
  BY DEF TypeOK, TablesOK, Message
<1>2. SameEntries(agg[m.to], s) /\ Forget(s, m)
  BY <1>1, AcceptedTables, Zenon DEF RefuseTrigger
<1>3. /\ TablesOK' /\ forgotten' \in [Node -> SUBSET Round]
      /\ KeepsKnown /\ AddsNothing /\ RoundsGrow
  <2> HIDE DEF s
  <2>1. QED
    BY <1>1, <1>2, ForgetStep
<1>4. LeadersOK'
  BY SameLeaders DEF RefuseTrigger
<1>5. RoundsOK(unsaved)' /\ RoundsOK(saved)' /\ RoundsOK(found)'
  BY SameRounds DEF RefuseTrigger, process
<1>6. /\ HistoryOK' /\ msgs' \in SUBSET Message
      /\ timers' \in SUBSET Timer /\ clock' \in Nat
  BY <1>3 DEF RefuseTrigger, TypeOK, HistoryOK, history
<1>7. QED
  BY <1>3, <1>4, <1>5, <1>6 DEF TypeOK

\* A trigger is answered by a report of the local price.
LEMMA HandleTriggerType ==
    ASSUME TypeOK, NEW m \in msgs, NEW value \in LocalValues, HandleTriggerMessage(m, value)
    PROVE  TypeOK' /\ KeepsKnown /\ RoundsGrow /\ AddsNothing
<1> DEFINE s == [Advanced(agg[m.to], m) EXCEPT !.triggers = @ \cup {m.round}]
<1>0. value \in Int
  BY ValueAssumption
<1>1. m \in Message /\ agg[m.to] \in Tables /\ m.to \in Node /\ m.round \in Round /\ m.ts \in Nat
  BY DEF TypeOK, TablesOK, Message
<1>2. SameEntries(agg[m.to], s) /\ Forget(s, m)
  BY <1>1, AcceptedTables DEF HandleTriggerMessage
<1>3. /\ TablesOK' /\ forgotten' \in [Node -> SUBSET Round]
      /\ KeepsKnown /\ AddsNothing /\ RoundsGrow
  <2> HIDE DEF s
  <2>1. QED
    BY <1>1, <1>2, ForgetStep
<1>4. LeadersOK'
  BY SameLeaders DEF HandleTriggerMessage
<1>5. RoundsOK(unsaved)' /\ RoundsOK(saved)' /\ RoundsOK(found)'
  BY SameRounds DEF HandleTriggerMessage, process
<1>6. msgs' \in SUBSET Message
  BY <1>0, <1>1, PublishedMessages DEF HandleTriggerMessage, TypeOK, MessageType
<1>7. HistoryOK' /\ timers' \in SUBSET Timer /\ clock' \in Nat
  BY <1>0, <1>1, <1>3 DEF HandleTriggerMessage, TypeOK, HistoryOK, Report
<1>8. QED
  BY <1>3, <1>4, <1>5, <1>6, <1>7 DEF TypeOK

\* The handlers that ignore their message.
LEMMA IgnoreType ==
    ASSUME TypeOK, NEW m \in msgs, IgnorePriceData(m) \/ IgnorePriceFix(m) \/ IgnoreProof(m)
    PROVE  TypeOK' /\ KeepsKnown /\ RoundsGrow /\ AddsNothing
<1>1. /\ msgs' = msgs \ {m}
      /\ UNCHANGED <<leaderVars, agg, timers, unsaved, saved, clock, process, history, forgotten>>
  BY DEF IgnorePriceData, IgnorePriceFix, IgnoreProof
<1>2. TablesOK' /\ KeepsKnown /\ RoundsGrow /\ AddsNothing
  BY <1>1, SameTables
<1>3. LeadersOK'
  BY <1>1, SameLeaders
<1>4. RoundsOK(unsaved)' /\ RoundsOK(saved)' /\ RoundsOK(found)'
  BY <1>1, SameRounds DEF process
<1>5. /\ HistoryOK' /\ msgs' \in SUBSET Message
      /\ timers' \in SUBSET Timer /\ clock' \in Nat
  BY <1>1 DEF TypeOK, HistoryOK, history
<1>6. QED
  BY <1>2, <1>3, <1>4, <1>5 DEF TypeOK

\* A step in which node n may get the given prices and fix at most one price.
PriceStep(n, entries) ==
    /\ \A p \in Node : /\ agg'[p].proofs \subseteq agg[p].proofs
                       /\ agg'[p].prices \subseteq agg[p].prices \cup entries
    /\ fixed \subseteq fixed'
    /\ \A f \in fixed' \ fixed :
          /\ n \in leading /\ f.round \in agg'[n].pricesLocked \ agg[n].pricesLocked
          /\ FixedBy(f, agg'[n], n, f.round, f.ts)
    /\ \A f, g \in fixed' \ fixed : f = g
    /\ \A m \in msgs' \ msgs : m.type = "priceFix" /\ FixOf(m) \in fixed'
    /\ \A t \in timers' \ timers : t.type = "priceData"

\* A report that arrives is stored, and may complete the round.
LEMMA HandlePriceDataType ==
    ASSUME TypeOK, NEW m \in msgs, NEW peers \in PeerCounts, HandlePriceDataMessage(m, peers)
    PROVE  /\ TypeOK' /\ KeepsKnown /\ RoundsGrow
           /\ PriceStep(m.to, {[round |-> m.round, from |-> m.from, price |-> m.price]})
<1> DEFINE n == m.to
           e == [round |-> m.round, from |-> m.from, price |-> m.price]
           s == [agg[n] EXCEPT !.prices = @ \cup {e}]
           timer == [type |-> "priceData", node |-> n, round |-> m.round, price |-> 0, ts |-> m.ts]
           count == Cardinality(OfRound(s.prices, m.round))
<1>1. /\ m \in Message /\ n \in Node /\ m.round \in Round /\ m.ts \in Nat
      /\ agg[n] \in Tables /\ IsFiniteSet(agg[n].prices) /\ agg[n].roundID \in Nat
  BY DEF TypeOK, TablesOK, Message, Tables, Round
<1>2. e \in Price /\ timer \in Timer /\ timer.type = "priceData"
  BY <1>1 DEF Price, Timer, Message
<1>3. /\ s \in Tables /\ Keeps(agg[n], s, {}) /\ s.roundID = agg[n].roundID
      /\ s.prices = agg[n].prices \cup {e} /\ s.proofs = agg[n].proofs /\ IsFiniteSet(s.prices)
  <2>1. Proof # {}
    <3>1. [round |-> m.round, from |-> n, price |-> 0, ts |-> m.ts] \in Proof
      BY <1>1 DEF Proof
    <3>2. QED
      BY <3>1
  <2>2. QED
    BY <1>1, <1>2, <2>1, StoredTables, ZenonT(30)
<1>4. /\ m.round \notin agg[n].pricesLocked
      /\ \/ /\ processCollectedPrices(s, n, m.round, m.ts, msgs \ {m})
            /\ timers' = timers
         \/ /\ agg' = [agg EXCEPT ![n] = s]
            /\ timers' = timers \cup {timer} \/ timers' = timers
            /\ msgs' = msgs \ {m}
            /\ fixed' = fixed
  BY DEF HandlePriceDataMessage
<1>5. UNCHANGED <<leaderVars, unsaved, saved, clock, process,
                  triggered, reported, signed, submitted, forgotten>>
  BY DEF HandlePriceDataMessage
<1> HIDE DEF n, e, s, timer, count
<1>6. LeadersOK' /\ RoundsOK(unsaved)' /\ RoundsOK(saved)' /\ RoundsOK(found)' /\ clock' \in Nat
  BY <1>5, SameLeaders, SameRounds DEF process, TypeOK
<1>7. CASE /\ processCollectedPrices(s, n, m.round, m.ts, msgs \ {m})
           /\ timers' = timers
  <2> DEFINE r == lockPrices(s, m.round)
           left == msgs \ {m}
  <2>1. left \in SUBSET Message /\ processCollectedPrices(s, n, m.round, m.ts, left)
    BY <1>7 DEF TypeOK
  <2> HIDE DEF left
  <2>0. s \in Tables /\ IsFiniteSet(s.prices) /\ n \in Node /\ m.round \in Round /\ m.ts \in Nat
    BY <1>1, <1>3
  <2>2. /\ agg' = [agg EXCEPT ![n] = r]
        /\ fixed' \in SUBSET Fix /\ fixed \in SUBSET fixed' /\ msgs' \in SUBSET Message
        /\ \A f \in fixed' \ fixed : n \in leading /\ FixedBy(f, s, n, m.round, m.ts)
        /\ \A f, g \in fixed' \ fixed : f = g
        /\ \A x \in msgs' \ left : x.type = "priceFix" /\ FixOf(x) \in fixed'
    BY <2>0, <2>1, PricesProcessed
  <2>3. /\ r \in Tables /\ Keeps(s, r, {}) /\ r.roundID = s.roundID
        /\ r.prices = s.prices /\ r.proofs = s.proofs /\ m.round \in r.pricesLocked
    BY <1>1, <1>3, LockedTables, Zenon
  <2> HIDE DEF r
  <2>4. Keeps(agg[n], r, {}) /\ IsFiniteSet(r.prices) /\ agg[n].roundID <= r.roundID
    <3>1. Keeps(agg[n], r, {})
      BY <1>3, <2>3, KeepsTwice, Zenon
    <3>2. IsFiniteSet(s.prices) /\ s.roundID \in Nat
      BY <1>1, <1>3, Zenon
    <3>3. IsFiniteSet(r.prices) /\ s.roundID <= r.roundID
      BY <2>3, <3>2, SameReports, Zenon
    <3>4. QED
      BY <1>3, <3>1, <3>3, Zenon
  <2>5. /\ TablesOK' /\ KeepsKnown /\ RoundsGrow
        /\ agg'[n] = r /\ \A p \in Node : p # n => agg'[p] = agg[p]
    BY <1>1, <1>5, <2>2, <2>3, <2>4, ReplaceStep, Zenon
  <2>6. HistoryOK'
    BY <1>5, <2>2 DEF TypeOK, HistoryOK
  <2>7. TypeOK'
    BY <1>6, <1>7, <2>2, <2>5, <2>6, Zenon DEF TypeOK
  <2>8. PriceStep(n, {e})
    <3>1. \A f \in fixed' \ fixed :
             /\ n \in leading /\ f.round \in agg'[n].pricesLocked \ agg[n].pricesLocked
             /\ FixedBy(f, agg'[n], n, f.round, f.ts)
      <4> SUFFICES ASSUME NEW f \in fixed' \ fixed
                   PROVE  /\ n \in leading /\ f.round \in agg'[n].pricesLocked \ agg[n].pricesLocked
                          /\ FixedBy(f, agg'[n], n, f.round, f.ts)
        BY Zenon
      <4>0. r.prices = s.prices
        BY <2>3
      <4>1. n \in leading /\ FixedBy(f, s, n, m.round, m.ts)
        BY <2>2
      <4>2. f.round = m.round /\ FixedBy(f, r, n, f.round, f.ts)
        BY <4>0, <4>1, FixedBySame, ZenonT(30)
      <4>3. QED
        BY <1>4, <2>3, <2>5, <4>1, <4>2, Zenon
    <3>2. \A p \in Node : /\ agg'[p].proofs \subseteq agg[p].proofs
                          /\ agg'[p].prices \subseteq agg[p].prices \cup {e}
      BY <1>3, <2>3, <2>5, ZenonT(30)
    <3>3. QED
      BY <1>7, <2>2, <3>1, <3>2, Zenon DEF PriceStep, left
  <2>9. QED
    BY <2>5, <2>7, <2>8 DEF n, e
<1>8. CASE /\ agg' = [agg EXCEPT ![n] = s]
           /\ timers' = timers \cup {timer} \/ timers' = timers
           /\ msgs' = msgs \ {m}
           /\ fixed' = fixed
  <2>0. agg[n].roundID <= s.roundID
    BY <1>1, <1>3
  <2>1. /\ TablesOK' /\ KeepsKnown /\ RoundsGrow
        /\ agg'[n] = s /\ \A p \in Node : p # n => agg'[p] = agg[p]
    BY <1>1, <1>3, <1>5, <1>8, <2>0, ReplaceStep, Zenon
  <2>2. HistoryOK' /\ timers' \in SUBSET Timer /\ msgs' \in SUBSET Message
    BY <1>2, <1>5, <1>8, Zenon DEF TypeOK, HistoryOK
  <2>3. TypeOK'
    BY <1>6, <2>1, <2>2 DEF TypeOK
  <2>4. PriceStep(n, {e})
    BY <1>2, <1>3, <1>8, <2>1, ZenonT(30) DEF PriceStep
  <2>5. QED
    BY <2>1, <2>3, <2>4 DEF n, e
<1>9. QED
  BY <1>4, <1>7, <1>8

\* The timeout of a round fixes a price of the reports there are.
LEMMA PriceTimeoutType ==
    ASSUME TypeOK, NEW t \in timers, NEW peers \in PeerCounts, PriceCollectionTimeout(t, peers)
    PROVE  TypeOK' /\ KeepsKnown /\ RoundsGrow /\ PriceStep(t.node, {})
<1> DEFINE n == t.node
           s == agg[n]
<1>1. /\ t \in Timer /\ n \in Node /\ t.round \in Round /\ t.ts \in Nat
      /\ s \in Tables /\ IsFiniteSet(s.prices) /\ s.roundID \in Nat
  BY DEF TypeOK, TablesOK, Timer, Tables, Round
<1>2. /\ timers' = timers \ {t}
      /\ \/ /\ processCollectedPrices(s, n, t.round, t.ts, msgs)
            /\ t.round \notin s.pricesLocked
         \/ UNCHANGED <<agg, fixed, msgs>>
      /\ UNCHANGED <<leaderVars, unsaved, saved, clock, process,
                     triggered, reported, signed, submitted, forgotten>>
  BY DEF PriceCollectionTimeout
<1> HIDE DEF n
<1>3. LeadersOK' /\ RoundsOK(unsaved)' /\ RoundsOK(saved)' /\ RoundsOK(found)' /\ clock' \in Nat
  BY <1>2, SameLeaders, SameRounds, Zenon DEF process, TypeOK
<1>4. timers' \in SUBSET Timer
  BY <1>2 DEF TypeOK
<1>5. CASE /\ processCollectedPrices(s, n, t.round, t.ts, msgs)
           /\ t.round \notin s.pricesLocked
  <2> DEFINE r == lockPrices(s, t.round)
  <2>1. msgs \in SUBSET Message
    BY DEF TypeOK
  <2>2. /\ agg' = [agg EXCEPT ![n] = r]
        /\ fixed' \in SUBSET Fix /\ fixed \in SUBSET fixed' /\ msgs' \in SUBSET Message
        /\ \A f \in fixed' \ fixed : n \in leading /\ FixedBy(f, s, n, t.round, t.ts)
        /\ \A f, g \in fixed' \ fixed : f = g
        /\ \A x \in msgs' \ msgs : x.type = "priceFix" /\ FixOf(x) \in fixed'
    BY <1>1, <1>5, <2>1, PricesProcessed, Zenon
  <2>3. /\ r \in Tables /\ Keeps(s, r, {}) /\ r.roundID = s.roundID
        /\ r.prices = s.prices /\ r.proofs = s.proofs /\ t.round \in r.pricesLocked
    BY <1>1, LockedTables, ZenonT(30)
  <2> HIDE DEF r
  <2>4. IsFiniteSet(r.prices) /\ s.roundID <= r.roundID
    BY <1>1, <2>3, SameReports, Zenon
  <2>5. /\ TablesOK' /\ KeepsKnown /\ RoundsGrow
        /\ agg'[n] = r /\ \A p \in Node : p # n => agg'[p] = agg[p]
    BY <1>1, <1>2, <2>2, <2>3, <2>4, ReplaceStep, ZenonT(30)
  <2>6. HistoryOK'
    BY <1>2, <2>2 DEF TypeOK, HistoryOK
  <2>7. TypeOK'
    BY <1>3, <1>4, <2>2, <2>5, <2>6, Zenon DEF TypeOK
  <2>8. PriceStep(n, {})
    <3>1. \A f \in fixed' \ fixed :
             /\ n \in leading /\ f.round \in agg'[n].pricesLocked \ agg[n].pricesLocked
             /\ FixedBy(f, agg'[n], n, f.round, f.ts)
      <4> SUFFICES ASSUME NEW f \in fixed' \ fixed
                   PROVE  /\ n \in leading /\ f.round \in agg'[n].pricesLocked \ agg[n].pricesLocked
                          /\ FixedBy(f, agg'[n], n, f.round, f.ts)
        OBVIOUS
      <4>0. r.prices = s.prices
        BY <2>3
      <4>1. n \in leading /\ FixedBy(f, s, n, t.round, t.ts)
        BY <2>2
      <4>2. f.round = t.round /\ FixedBy(f, r, n, f.round, f.ts)
        BY <4>0, <4>1, FixedBySame, ZenonT(30)
      <4>3. QED
        BY <1>5, <2>3, <2>5, <4>1, <4>2
    <3>2. \A p \in Node : /\ agg'[p].proofs \subseteq agg[p].proofs
                          /\ agg'[p].prices \subseteq agg[p].prices \cup {}
      BY <2>3, <2>5
    <3>3. QED
      BY <1>2, <2>2, <3>1, <3>2, ZenonT(30) DEF PriceStep
  <2>9. QED
    BY <2>5, <2>7, <2>8 DEF n
<1>6. CASE UNCHANGED <<agg, fixed, msgs>>
  <2>1. TablesOK' /\ KeepsKnown /\ RoundsGrow /\ AddsNothing
    BY <1>2, <1>6, SameTables
  <2>2. HistoryOK' /\ msgs' \in SUBSET Message
    BY <1>2, <1>6 DEF TypeOK, HistoryOK
  <2>3. TypeOK'
    BY <1>3, <1>4, <2>1, <2>2, Zenon DEF TypeOK
  <2>4. PriceStep(n, {})
    BY <1>2, <1>6, <2>1, Zenon DEF PriceStep, AddsNothing
  <2>5. QED
    BY <2>1, <2>3, <2>4 DEF n
<1>7. QED
  BY <1>2, <1>5, <1>6

\* A step in which node n may sign the price of message m.
SignStep(n, m) ==
    /\ AddsNothing /\ timers' = timers
    /\ signed \subseteq signed'
    /\ \A x \in signed' \ signed :
          /\ x = [node |-> n, round |-> m.round, price |-> m.price, ts |-> m.ts]
          /\ x.round \in agg'[n].fixes \ agg[n].fixes
    /\ \A p \in msgs' \ msgs : p.type = "proof" /\ SignatureOf(p) \in signed'

\* A fixed price is signed at most once.
LEMMA HandlePriceFixType ==
    ASSUME TypeOK, NEW m \in msgs, NEW signs \in Signs, HandlePriceFixMessage(m, signs)
    PROVE  TypeOK' /\ KeepsKnown /\ RoundsGrow /\ SignStep(m.to, m)
<1> DEFINE n == m.to
           s == agg[n]
           r == lockFix(s, m.round)
           x == [node |-> n, round |-> m.round, price |-> m.price, ts |-> m.ts]
<1>1. /\ m \in Message /\ n \in Node /\ m.round \in Round /\ m.price \in Int /\ m.ts \in Nat
      /\ s \in Tables /\ IsFiniteSet(s.prices) /\ s.roundID \in Nat
  BY ZenonT(30) DEF TypeOK, TablesOK, Message, Tables, Round
<1>2. /\ r \in Tables /\ Keeps(s, r, {}) /\ r.roundID = s.roundID
      /\ r.prices = s.prices /\ r.proofs = s.proofs /\ m.round \in r.fixes
  BY <1>1, LockedTables
<1>3. /\ m.round \notin s.fixes
      /\ agg' = [agg EXCEPT ![n] = r]
      /\ \/ /\ msgs' = (msgs \ {m}) \cup Publish("proof", n, m.round, m.price, m.ts)
            /\ signed' = signed \cup {x}
         \/ msgs' = msgs \ {m} /\ signed' = signed
  BY DEF HandlePriceFixMessage
<1>4. UNCHANGED <<leaderVars, timers, unsaved, saved, clock, process,
                  triggered, reported, fixed, submitted, forgotten>>
  BY DEF HandlePriceFixMessage
<1>5. x \in Signature
  BY <1>1 DEF Signature
<1>6. /\ Publish("proof", n, m.round, m.price, m.ts) \in SUBSET Message
      /\ \A p \in Publish("proof", n, m.round, m.price, m.ts) : p.type = "proof" /\ SignatureOf(p) = x
  <2>1. "proof" \in MessageType
    BY DEF MessageType
  <2>2. QED
    BY <1>1, <2>1, PublishedMessages DEF SignatureOf
<1> HIDE DEF n, r, x
<1>7. LeadersOK' /\ RoundsOK(unsaved)' /\ RoundsOK(saved)' /\ RoundsOK(found)' /\ clock' \in Nat
  BY <1>4, SameLeaders, SameRounds DEF process, TypeOK
<1>8. IsFiniteSet(r.prices) /\ s.roundID <= r.roundID
  BY <1>1, <1>2
<1>9. /\ TablesOK' /\ KeepsKnown /\ RoundsGrow
      /\ agg'[n] = r /\ \A p \in Node : p # n => agg'[p] = agg[p]
  BY <1>1, <1>2, <1>3, <1>4, <1>8, ReplaceStep, ZenonT(30)
<1>10. HistoryOK' /\ msgs' \in SUBSET Message /\ timers' \in SUBSET Timer
  BY <1>3, <1>4, <1>5, <1>6, Zenon DEF TypeOK, HistoryOK
<1>11. TypeOK'
  BY <1>7, <1>9, <1>10 DEF TypeOK
<1>12. AddsNothing
  BY <1>2, <1>9, Zenon DEF AddsNothing
<1>13. /\ \A y \in signed' \ signed : y = x /\ y.round \in agg'[n].fixes \ agg[n].fixes
       /\ \A p \in msgs' \ msgs : p.type = "proof" /\ SignatureOf(p) \in signed'
       /\ signed \subseteq signed'
  <2>1. x.round = m.round
    BY Zenon DEF x
  <2>2. QED
    BY <1>2, <1>3, <1>6, <1>9, <2>1
<1>14. SignStep(n, m)
  BY <1>4, <1>12, <1>13, Zenon DEF SignStep, x
<1>15. QED
  BY <1>9, <1>11, <1>14 DEF n

\* A step in which node n may get proofs and publish one aggregate, of a price and time.
ProofStep(n, entries, round, price, ts) ==
    /\ \A p \in Node : /\ agg'[p].prices \subseteq agg[p].prices
                       /\ agg'[p].proofs \subseteq agg[p].proofs \cup entries
    /\ submitted \subseteq submitted'
    /\ \A d \in submitted' \ submitted :
          /\ SubmittedBy(d, agg'[n], n, round, price, ts)
          /\ round \in agg'[n].proofsLocked \ agg[n].proofsLocked
    /\ \A c, d \in submitted' \ submitted : c = d
    /\ msgs' \subseteq msgs

\* A proof that arrives is stored, and may complete the round.
LEMMA HandleProofType ==
    ASSUME TypeOK, NEW m \in msgs, NEW peers \in PeerCounts, HandleProofMessage(m, peers)
    PROVE  LET e == [round |-> m.round, from |-> m.from, price |-> m.price, ts |-> m.ts]
           IN  /\ TypeOK' /\ KeepsKnown /\ RoundsGrow
               /\ ProofStep(m.to, {e}, m.round, m.price, m.ts)
               /\ agg'[m.to].proofs = agg[m.to].proofs \cup {e}
               /\ \A p \in Node : p # m.to => agg'[p].proofs = agg[p].proofs
               /\ \A t \in timers' \ timers :
                     /\ t.node = m.to /\ t.round = m.round
                     /\ t.price = m.price /\ t.ts = m.ts
<1> DEFINE n == m.to
           e == [round |-> m.round, from |-> m.from, price |-> m.price, ts |-> m.ts]
           s == [agg[n] EXCEPT !.proofs = @ \cup {e}]
           timer == [type |-> "proof", node |-> n, round |-> m.round, price |-> m.price,
                     ts |-> m.ts]
           count == Cardinality(OfRound(s.proofs, m.round))
<1>1. /\ m \in Message /\ n \in Node /\ m.round \in Round /\ m.price \in Int /\ m.ts \in Nat
      /\ agg[n] \in Tables /\ IsFiniteSet(agg[n].prices) /\ agg[n].roundID \in Nat
  BY Zenon DEF TypeOK, TablesOK, Message, Tables, Round
<1>2. /\ e \in Proof /\ timer \in Timer
      /\ timer.node = n /\ timer.round = m.round /\ timer.price = m.price /\ timer.ts = m.ts
  BY <1>1 DEF Proof, Timer, Message
<1>3. /\ s \in Tables /\ Keeps(agg[n], s, {}) /\ s.roundID = agg[n].roundID
      /\ s.prices = agg[n].prices /\ s.proofs = agg[n].proofs \cup {e}
  <2>1. Price # {}
    <3>1. [round |-> m.round, from |-> n, price |-> 0] \in Price
      BY <1>1 DEF Price
    <3>2. QED
      BY <3>1
  <2>2. QED
    BY <1>1, <1>2, <2>1, StoredTables, Zenon
<1>4. /\ m.round \notin agg[n].proofsLocked
      /\ \/ /\ processCollectedProofs(s, n, m.round, m.price, m.ts)
            /\ timers' = timers
         \/ /\ agg' = [agg EXCEPT ![n] = s]
            /\ timers' = timers \cup {timer} \/ timers' = timers
            /\ submitted' = submitted /\ unsaved' = unsaved
      /\ msgs' = msgs \ {m}
  BY DEF HandleProofMessage
<1>5. UNCHANGED <<leaderVars, saved, clock, process, triggered, reported, fixed, signed, forgotten>>
  BY Zenon DEF HandleProofMessage
<1> HIDE DEF n, e, s, timer, count
<1>6. /\ LeadersOK' /\ RoundsOK(saved)' /\ RoundsOK(found)' /\ clock' \in Nat
      /\ msgs' \in SUBSET Message
  BY <1>4, <1>5, SameLeaders, SameRounds, Zenon DEF process, TypeOK
<1>7. CASE /\ processCollectedProofs(s, n, m.round, m.price, m.ts)
           /\ timers' = timers
  <2> DEFINE r == lockProofs(s, m.round)
  <2>2. /\ agg' = [agg EXCEPT ![n] = r]
        /\ submitted' \in SUBSET Submission /\ submitted \in SUBSET submitted'
        /\ RoundsOK(unsaved)'
        /\ \A d \in submitted' \ submitted : SubmittedBy(d, s, n, m.round, m.price, m.ts)
        /\ \A c, d \in submitted' \ submitted : c = d
    BY <1>1, <1>3, <1>7, ProofsProcessed, Zenon
  <2>3. /\ r \in Tables /\ Keeps(s, r, {}) /\ r.roundID = s.roundID
        /\ r.prices = s.prices /\ r.proofs = s.proofs /\ m.round \in r.proofsLocked
    BY <1>1, <1>3, LockedTables, Zenon
  <2> HIDE DEF r
  <2>4. Keeps(agg[n], r, {}) /\ IsFiniteSet(r.prices) /\ agg[n].roundID <= r.roundID
    <3>1. Keeps(agg[n], r, {})
      BY <1>3, <2>3, KeepsTwice, Zenon
    <3>2. IsFiniteSet(s.prices) /\ s.roundID \in Nat
      BY <1>1, <1>3, Zenon
    <3>3. IsFiniteSet(r.prices) /\ s.roundID <= r.roundID
      BY <2>3, <3>2, SameReports, Zenon
    <3>4. QED
      BY <1>3, <3>1, <3>3, Zenon
  <2>5. /\ TablesOK' /\ KeepsKnown /\ RoundsGrow
        /\ agg'[n] = r /\ \A p \in Node : p # n => agg'[p] = agg[p]
    BY <1>1, <1>5, <2>2, <2>3, <2>4, ReplaceStep, Zenon
  <2>6. HistoryOK' /\ timers' \in SUBSET Timer
    BY <1>5, <1>7, <2>2 DEF TypeOK, HistoryOK
  <2>7. TypeOK'
    BY <1>6, <2>2, <2>5, <2>6, Zenon DEF TypeOK
  <2>8. ProofStep(n, {e}, m.round, m.price, m.ts)
    <3>1. \A d \in submitted' \ submitted :
             /\ SubmittedBy(d, agg'[n], n, m.round, m.price, m.ts)
             /\ m.round \in agg'[n].proofsLocked \ agg[n].proofsLocked
      BY <1>4, <2>2, <2>3, <2>5, Zenon DEF SubmittedBy
    <3>2. \A p \in Node : /\ agg'[p].prices \subseteq agg[p].prices
                          /\ agg'[p].proofs \subseteq agg[p].proofs \cup {e}
      BY <1>3, <2>3, <2>5, Zenon
    <3>3. QED
      BY <1>4, <2>2, <3>1, <3>2, Zenon DEF ProofStep
  <2>9. QED
    BY <1>3, <1>7, <2>3, <2>5, <2>7, <2>8, ZenonT(30) DEF n, e
<1>8. CASE /\ agg' = [agg EXCEPT ![n] = s]
           /\ timers' = timers \cup {timer} \/ timers' = timers
           /\ submitted' = submitted /\ unsaved' = unsaved
  <2>1. agg[n].roundID <= s.roundID /\ IsFiniteSet(s.prices)
    BY <1>1, <1>3
  <2>2. /\ TablesOK' /\ KeepsKnown /\ RoundsGrow
        /\ agg'[n] = s /\ \A p \in Node : p # n => agg'[p] = agg[p]
    BY <1>1, <1>3, <1>5, <1>8, <2>1, ReplaceStep, Zenon
  <2>3. HistoryOK' /\ timers' \in SUBSET Timer
    BY <1>2, <1>5, <1>8, Zenon DEF TypeOK, HistoryOK
  <2>4. TypeOK'
    BY <1>6, <1>8, <2>2, <2>3, SameRounds DEF TypeOK
  <2>5. ProofStep(n, {e}, m.round, m.price, m.ts)
    BY <1>3, <1>4, <1>8, <2>2, Zenon DEF ProofStep
  <2>6. \A t \in timers' \ timers :
           t.node = n /\ t.round = m.round /\ t.price = m.price /\ t.ts = m.ts
    BY <1>2, <1>8, Zenon
  <2>7. QED
    BY <1>3, <2>2, <2>4, <2>5, <2>6, ZenonT(30) DEF n, e
<1>9. QED
  BY <1>4, <1>7, <1>8, Zenon

\* The timeout of the proofs submits those there are.
LEMMA ProofTimeoutType ==
    ASSUME TypeOK, NEW t \in timers, NEW peers \in PeerCounts, ProofCollectionTimeout(t, peers)
    PROVE  /\ TypeOK' /\ KeepsKnown /\ RoundsGrow
           /\ ProofStep(t.node, {}, t.round, t.price, t.ts)
           /\ \A p \in Node : agg'[p].proofs = agg[p].proofs
<1> DEFINE n == t.node
           s == agg[n]
<1>1. /\ t \in Timer /\ n \in Node /\ t.round \in Round /\ t.price \in Int /\ t.ts \in Nat
      /\ s \in Tables /\ IsFiniteSet(s.prices) /\ s.roundID \in Nat
  BY DEF TypeOK, TablesOK, Timer, Tables, Round
<1>2. /\ timers' = timers \ {t} /\ msgs' = msgs
      /\ \/ /\ processCollectedProofs(s, n, t.round, t.price, t.ts)
            /\ t.round \notin s.proofsLocked
         \/ UNCHANGED <<agg, submitted, unsaved>>
      /\ UNCHANGED <<leaderVars, saved, clock, process, triggered, reported, fixed, signed, forgotten>>
  BY DEF ProofCollectionTimeout
<1> HIDE DEF n
<1>3. /\ LeadersOK' /\ RoundsOK(saved)' /\ RoundsOK(found)' /\ clock' \in Nat
      /\ msgs' \in SUBSET Message /\ timers' \in SUBSET Timer
  BY <1>2, SameLeaders, SameRounds, Zenon DEF process, TypeOK
<1>4. CASE /\ processCollectedProofs(s, n, t.round, t.price, t.ts)
           /\ t.round \notin s.proofsLocked
  <2> DEFINE r == lockProofs(s, t.round)
  <2>1. /\ agg' = [agg EXCEPT ![n] = r]
        /\ submitted' \in SUBSET Submission /\ submitted \in SUBSET submitted'
        /\ RoundsOK(unsaved)'
        /\ \A d \in submitted' \ submitted : SubmittedBy(d, s, n, t.round, t.price, t.ts)
        /\ \A c, d \in submitted' \ submitted : c = d
    BY <1>1, <1>4, ProofsProcessed, ZenonT(30)
  <2>2. /\ r \in Tables /\ Keeps(s, r, {}) /\ r.roundID = s.roundID
        /\ r.prices = s.prices /\ r.proofs = s.proofs /\ t.round \in r.proofsLocked
    BY <1>1, LockedTables, Zenon
  <2> HIDE DEF r
  <2>3. IsFiniteSet(r.prices) /\ s.roundID <= r.roundID
    BY <1>1, <2>2, SameReports, Zenon
  <2>4. /\ TablesOK' /\ KeepsKnown /\ RoundsGrow
        /\ agg'[n] = r /\ \A p \in Node : p # n => agg'[p] = agg[p]
    BY <1>1, <1>2, <2>1, <2>2, <2>3, ReplaceStep, ZenonT(30)
  <2>5. HistoryOK'
    BY <1>2, <2>1 DEF TypeOK, HistoryOK
  <2>6. TypeOK'
    BY <1>3, <2>1, <2>4, <2>5, Zenon DEF TypeOK
  <2>7. ProofStep(n, {}, t.round, t.price, t.ts)
    <3>1. \A d \in submitted' \ submitted :
             /\ SubmittedBy(d, agg'[n], n, t.round, t.price, t.ts)
             /\ t.round \in agg'[n].proofsLocked \ agg[n].proofsLocked
      BY <1>4, <2>1, <2>2, <2>4, ZenonT(30) DEF SubmittedBy
    <3>2. \A p \in Node : /\ agg'[p].prices \subseteq agg[p].prices
                          /\ agg'[p].proofs \subseteq agg[p].proofs \cup {}
      BY <2>2, <2>4
    <3>3. QED
      BY <1>2, <2>1, <3>1, <3>2, Zenon DEF ProofStep
  <2>8. QED
    BY <2>2, <2>4, <2>6, <2>7, Zenon DEF n
<1>5. CASE UNCHANGED <<agg, submitted, unsaved>>
  <2>1. TablesOK' /\ KeepsKnown /\ RoundsGrow /\ AddsNothing
    BY <1>2, <1>5, SameTables, ZenonT(30)
  <2>2. HistoryOK'
    BY <1>2, <1>5 DEF TypeOK, HistoryOK
  <2>3. TypeOK'
    BY <1>3, <1>5, <2>1, <2>2, SameRounds DEF TypeOK
  <2>4. ProofStep(n, {}, t.round, t.price, t.ts)
    BY <1>2, <1>5, <2>1, Zenon DEF ProofStep, AddsNothing
  <2>5. QED
    BY <1>5, <2>1, <2>3, <2>4 DEF n
<1>6. QED
  BY <1>2, <1>4, <1>5

\* Storing changes the database and what waits for it, no table.
LEMMA BulkInsertType ==
    ASSUME TypeOK, NEW n \in Node, NEW ok \in Stores, bulkInsert(n, ok)
    PROVE  TypeOK' /\ KeepsKnown /\ RoundsGrow /\ AddsNothing
<1>1. UNCHANGED <<leaderVars, agg, msgs, timers, clock, process, history, forgotten>>
  BY DEF bulkInsert
<1>2. TablesOK' /\ KeepsKnown /\ RoundsGrow /\ AddsNothing
  BY <1>1, SameTables
<1>3. LeadersOK' /\ RoundsOK(found)'
  BY <1>1, SameLeaders, SameRounds DEF process
<1>4. RoundsOK(unsaved)'
  BY FS_EmptySet DEF bulkInsert, TypeOK, RoundsOK
<1>5. RoundsOK(saved)'
  <2>1. /\ saved[n] \in SUBSET Round /\ IsFiniteSet(saved[n])
        /\ unsaved[n] \in SUBSET Round /\ IsFiniteSet(unsaved[n])
    BY DEF TypeOK, RoundsOK
  <2>2. IsFiniteSet(saved[n] \cup unsaved[n])
    BY <2>1, FS_Union, Zenon
  <2>3. \/ saved' = saved
        \/ saved' = [saved EXCEPT ![n] = @ \cup unsaved[n]]
    BY DEF bulkInsert
  <2>4. QED
    BY <2>1, <2>2, <2>3, Zenon DEF TypeOK, RoundsOK
<1>6. /\ HistoryOK' /\ msgs' \in SUBSET Message /\ timers' \in SUBSET Timer /\ clock' \in Nat
  BY <1>1 DEF TypeOK, HistoryOK, history
<1>7. QED
  BY <1>2, <1>3, <1>4, <1>5, <1>6 DEF TypeOK

\* An election changes no table and only adds to who has led.
LEMMA LeadershipType ==
    ASSUME TypeOK, NEW n \in Node, LeadershipChanges(n)
    PROVE  TypeOK' /\ KeepsKnown /\ RoundsGrow /\ AddsNothing /\ led \subseteq led'
<1>1. UNCHANGED <<agg, msgs, timers, unsaved, saved, clock, process, history, forgotten>>
  BY DEF LeadershipChanges
<1>2. TablesOK' /\ KeepsKnown /\ RoundsGrow /\ AddsNothing
  BY <1>1, SameTables
<1>3. LeadersOK' /\ led \subseteq led'
  <2>1. CASE Lead!Win(n)
    <3>1. IsFiniteSet(led \cup {n})
      BY FS_AddElement DEF TypeOK, LeadersOK
    <3>2. QED
      BY <2>1, <3>1 DEF Lead!Win, TypeOK, LeadersOK
  <2>2. CASE Lead!StepAside(n) \/ Lead!Retire(n)
    BY <2>2 DEF Lead!StepAside, Lead!Retire, TypeOK, LeadersOK
  <2>3. ASSUME NEW p \in Node, Lead!Follow(n, p) PROVE LeadersOK' /\ led \subseteq led'
    BY <2>3 DEF Lead!Follow, TypeOK, LeadersOK
  <2>4. QED
    BY <2>1, <2>2, <2>3 DEF LeadershipChanges
<1>4. RoundsOK(unsaved)' /\ RoundsOK(saved)' /\ RoundsOK(found)'
  BY <1>1, SameRounds DEF process
<1>5. /\ HistoryOK' /\ msgs' \in SUBSET Message /\ timers' \in SUBSET Timer /\ clock' \in Nat
  BY <1>1 DEF TypeOK, HistoryOK, history
<1>6. QED
  BY <1>2, <1>3, <1>4, <1>5 DEF TypeOK

\* A started aggregator is past all rounds of its database (getLatestRoundId).
LEMMA LatestRound ==
    ASSUME NEW rounds \in SUBSET Round, IsFiniteSet(rounds)
    PROVE  /\ getLatestRoundId(rounds) \in Round
           /\ \A r \in rounds : r < getLatestRoundId(rounds)
<1>1. CASE rounds = {}
  BY <1>1 DEF getLatestRoundId, Round
<1>2. CASE rounds # {}
  <2> DEFINE top == CHOOSE r \in rounds : \A q \in rounds : q <= r
  <2>1. \E r \in rounds : \A q \in rounds : q <= r
    BY <1>2, LargestNat DEF Round
  <2>2. top \in rounds /\ \A q \in rounds : q <= top
    BY <2>1
  <2>3. getLatestRoundId(rounds) = 1 + top
    BY <1>2 DEF getLatestRoundId
  <2> HIDE DEF top
  <2>4. top \in Nat /\ \A q \in rounds : q \in Nat
    BY <2>2 DEF Round
  <2>5. QED
    BY <2>2, <2>3, <2>4 DEF Round
<1>3. QED
  BY <1>1, <1>2

\* A restarted node has empty tables and the round after the stored ones.
LEMMA RestartType ==
    ASSUME TypeOK, NEW n \in Node, Restart(n)
    PROVE  /\ TypeOK' /\ KeepsKnown /\ AddsNothing /\ led' = led
           /\ agg'[n].roundID = getLatestRoundId(saved[n])
           /\ \A p \in Node : p # n => agg'[p] = agg[p]
<1> DEFINE latest == getLatestRoundId(saved[n])
           r == NewAggregator(latest)
<1>1. latest \in Round
  BY LatestRound, ZenonT(30) DEF TypeOK, RoundsOK
<1>2. agg' = [agg EXCEPT ![n] = r]
  BY ZenonT(30) DEF Restart
<1> HIDE DEF latest
<1>3. /\ r \in Tables /\ r.roundID = latest /\ r.prices = {} /\ r.proofs = {}
      /\ r.pricesLocked = {} /\ r.fixes = {} /\ r.proofsLocked = {}
  BY <1>1, Zenon DEF NewAggregator, Tables
<1> HIDE DEF r
<1>4. /\ agg' \in [Node -> Tables] /\ agg'[n] = r
      /\ \A p \in Node : p # n => agg'[p] = agg[p]
  BY <1>2, <1>3 DEF TypeOK, TablesOK
<1>5. TablesOK'
  BY <1>3, <1>4, FS_EmptySet, Zenon DEF TypeOK, TablesOK
<1>6. agg[n] \in Tables
  BY DEF TypeOK, TablesOK
<1>7. Rounds(agg[n]) \in SUBSET Round
  BY <1>6 DEF Rounds, Tables, Price, Proof
<1>8. /\ forgotten' \in [Node -> SUBSET Round] /\ forgotten'[n] = forgotten[n] \cup Rounds(agg[n])
      /\ \A p \in Node : p # n => forgotten'[p] = forgotten[p]
  BY <1>7, Zenon DEF Restart, TypeOK, HistoryOK
<1>9. Keeps(agg[n], r, Rounds(agg[n]))
  BY Zenon DEF Keeps, Rounds
<1>10. KeepsKnown
  BY <1>4, <1>8, <1>9 DEF KeepsKnown, Keeps
<1>11. AddsNothing
  BY <1>3, <1>4, ZenonT(30) DEF AddsNothing
<1>12. LeadersOK' /\ led' = led
  BY DEF Restart, Lead!Forget, TypeOK, LeadersOK
<1>13. RoundsOK(unsaved)' /\ RoundsOK(saved)' /\ RoundsOK(found)'
  <2>1. RoundsOK(unsaved)'
    BY FS_EmptySet, ZenonT(30) DEF Restart, TypeOK, RoundsOK
  <2>2. RoundsOK(found)'
    BY Zenon DEF Restart, TypeOK, RoundsOK
  <2>3. QED
    BY <2>1, <2>2, SameRounds DEF Restart
<1>14. /\ HistoryOK' /\ msgs' \in SUBSET Message /\ timers' \in SUBSET Timer /\ clock' \in Nat
  BY <1>8 DEF Restart, TypeOK, HistoryOK, history
<1>15. QED
  BY <1>3, <1>4, <1>5, <1>10, <1>11, <1>12, <1>13, <1>14 DEF TypeOK, latest

=============================================================================
