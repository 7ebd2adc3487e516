-------------------------- MODULE ProofOrderProofs --------------------------
(***************************************************************************)
(* What the data availability layer's validateProof returns, for a list of *)
(* any length without duplicates: the signatures of the signers in the     *)
(* list, each once and in the order of the list.  The contract's oracles   *)
(* and the collector rely on it.                                           *)
(*                                                                         *)
(* Induction over the list goes by the smallest counterexample.            *)
(***************************************************************************)
EXTENDS ProofOrder, FiniteSetTheorems, WellFoundedInduction, TLAPS

USE SMTT(30), ZenonT(30)

\* A set of naturals that is not empty has a smallest element.
LEMMA SmallestNat ==
    ASSUME NEW S \in SUBSET Nat, S # {}
    PROVE  \E i \in S : \A j \in S : i <= j
<1>1. PICK i \in S : \A j \in S : ~(<<j, i>> \in OpToRel(<, Nat))
  BY WFMin, NatLessThanWellFounded, Zenon
<1>2. ASSUME NEW j \in S PROVE i <= j
  <2>1. ~(<<j, i>> \in {ss \in Nat \X Nat : ss[1] < ss[2]})
    BY <1>1 DEF OpToRel
  <2>2. <<j, i>> \in Nat \X Nat
    OBVIOUS
  <2>3. QED
    BY <2>1, <2>2
<1>3. QED
  BY <1>2

-----------------------------------------------------------------------------
(* The loop over the list.                                                 *)

\* g is the run of the loop over the first m slots of the list.
OrderOver(g, signers, list, m) ==
    g = [i \in 0..m |-> IF i = 0 THEN <<>> ELSE OrderTurn(signers, g[i - 1], list[i])]

\* The loop has a run over any number of slots.
LEMMA OrderRuns ==
    ASSUME NEW signers, NEW list, NEW n \in Nat
    PROVE  \E g : OrderOver(g, signers, list, n)
<1> DEFINE Turn(s, i) == OrderTurn(signers, s, list[i])
           Bad == {m \in Nat : ~(\E g : OrderOver(g, signers, list, m))}
<1>1. SUFFICES ASSUME Bad # {} PROVE FALSE
  OBVIOUS
<1>2. PICK m \in Bad : \A k \in Bad : m <= k
  <2>1. Bad \in SUBSET Nat
    OBVIOUS
  <2> HIDE DEF Bad
  <2>2. QED
    BY <1>1, <2>1, SmallestNat, Zenon
<1>3. CASE m = 0
  <2>1. OrderOver([i \in 0..0 |-> <<>>], signers, list, 0)
    BY DEF OrderOver
  <2>2. QED
    BY <1>2, <1>3, <2>1
<1>4. CASE m # 0
  <2>1. m \in Nat /\ m - 1 \in Nat /\ ~(m <= m - 1)
    BY <1>2, <1>4
  <2>2. PICK g : OrderOver(g, signers, list, m - 1)
    BY <1>2, <2>1
  <2> DEFINE h == [i \in 0..m |-> IF i = m THEN Turn(g[m - 1], m) ELSE g[i]]
  <2>3. g = [i \in 0..(m - 1) |-> IF i = 0 THEN <<>> ELSE Turn(g[i - 1], i)]
    BY <2>2 DEF OrderOver
  <2>4. ASSUME NEW i \in 0..m PROVE h[i] = IF i = 0 THEN <<>> ELSE Turn(h[i - 1], i)
    <3> HIDE DEF Turn
    <3>1. CASE i = m
      BY <1>4, <2>1, <3>1
    <3>2. CASE i # m
      <4>1. i \in 0..(m - 1) /\ (i # 0 => i - 1 \in 0..m /\ i - 1 # m)
        BY <2>1, <3>2
      <4>2. h[i] = g[i] /\ (i # 0 => h[i - 1] = g[i - 1])
        BY <3>2, <4>1
      <4>3. QED
        BY <2>3, <4>1, <4>2
    <3>3. QED
      BY <3>1, <3>2
  <2>5. h = [i \in 0..m |-> IF i = 0 THEN <<>> ELSE Turn(h[i - 1], i)]
    <3> HIDE DEF Turn
    <3>1. QED
      BY <2>4
  <2>6. OrderOver(h, signers, list, m)
    BY <2>5, Zenon DEF OrderOver
  <2>7. QED
    BY <1>2, <2>6
<1>5. QED
  BY <1>3, <1>4

\* InListOrder is the end of such a run.
LEMMA OrderEnds ==
    ASSUME NEW signers, NEW proof, NEW list, Len(list) \in Nat
    PROVE  \E g : /\ OrderOver(g, signers, list, Len(list))
                  /\ InListOrder(signers, proof, list) = g[Len(list)]
<1> DEFINE loop == CHOOSE g : OrderOver(g, signers, list, Len(list))
<1>1. OrderOver(loop, signers, list, Len(list))
  BY OrderRuns
<1>2. InListOrder(signers, proof, list) = loop[Len(list)]
  BY Zenon DEF InListOrder, OrderOver
<1>3. QED
  BY <1>1, <1>2, Zenon

\* s has the signers of the first m slots of the list, in the order of the slots.
FollowsList(s, signers, list, m) ==
    /\ \A k \in DOMAIN s : s[k] \in signers /\ \E x \in 1..m : s[k] = list[x]
    /\ \A x \in 1..m : list[x] \in signers => \E k \in DOMAIN s : s[k] = list[x]
    /\ \A k, l \in DOMAIN s, x, y \in 1..m :
          k < l /\ s[k] = list[x] /\ s[l] = list[y] => x < y

\* A turn of the loop keeps the order.
LEMMA TurnOrders ==
    ASSUME NEW S, NEW list \in Seq(S), Distinct(list), NEW signers,
           NEW m \in Nat, m + 1 \in 1..Len(list),
           NEW s \in Seq(S), FollowsList(s, signers, list, m)
    PROVE  /\ OrderTurn(signers, s, list[m + 1]) \in Seq(S)
           /\ FollowsList(OrderTurn(signers, s, list[m + 1]), signers, list, m + 1)
<1> DEFINE a == list[m + 1]
           t == OrderTurn(signers, s, a)
<1>1. a \in S /\ DOMAIN list = 1..Len(list) /\ DOMAIN s = 1..Len(s) /\ Len(s) \in Nat
  OBVIOUS
<1>2. \A x \in 1..(m + 1) : x \in 1..m \/ x = m + 1
  OBVIOUS
<1>3. \A x \in 1..m : x \in 1..(m + 1) /\ list[x] # a
  BY <1>1 DEF Distinct
<1>4. CASE a \notin signers
  <2>1. t = s
    BY <1>4 DEF OrderTurn
  <2>2. \A k \in DOMAIN s : s[k] \in signers /\ \E x \in 1..(m + 1) : s[k] = list[x]
    BY <1>3 DEF FollowsList
  <2>3. \A x \in 1..(m + 1) : list[x] \in signers => \E k \in DOMAIN s : s[k] = list[x]
    BY <1>2, <1>4 DEF FollowsList
  <2>4. \A k, l \in DOMAIN s, x, y \in 1..(m + 1) :
           k < l /\ s[k] = list[x] /\ s[l] = list[y] => x < y
    BY <1>2, <1>4, <2>2, Zenon DEF FollowsList
  <2>5. QED
    BY <2>1, <2>2, <2>3, <2>4 DEF FollowsList
<1>5. CASE a \in signers
  <2> DEFINE n == Len(s) + 1
  <2>1. t = Append(s, a)
    BY <1>5 DEF OrderTurn
  <2>2. /\ t \in Seq(S) /\ DOMAIN t = 1..n /\ t[n] = a /\ n \in 1..n
        /\ \A k \in DOMAIN s : k \in 1..n /\ k < n /\ t[k] = s[k]
        /\ \A k \in 1..n : k \in DOMAIN s \/ k = n
    BY <1>1, <2>1
  <2> HIDE DEF t, n
  <2>3. \A k \in DOMAIN s : s[k] \in signers /\ s[k] # a /\ \E x \in 1..m : s[k] = list[x]
    BY <1>3 DEF FollowsList
  <2>4. \A k \in 1..n : t[k] \in signers /\ \E x \in 1..(m + 1) : t[k] = list[x]
    <3>1. m + 1 \in 1..(m + 1)
      OBVIOUS
    <3>2. QED
      BY <1>3, <1>5, <2>2, <2>3, <3>1
  <2>5. \A x \in 1..(m + 1) : list[x] \in signers => \E k \in 1..n : t[k] = list[x]
    <3>1. \A x \in 1..m : list[x] \in signers => \E k \in DOMAIN s : s[k] = list[x]
      BY DEF FollowsList
    <3>2. QED
      BY <1>2, <2>2, <3>1
  <2>6. ASSUME NEW k \in 1..n, NEW l \in 1..n, NEW x \in 1..(m + 1), NEW y \in 1..(m + 1),
               k < l, t[k] = list[x], t[l] = list[y]
        PROVE  x < y
    <3>1. k \in DOMAIN s /\ t[k] = s[k]
      BY <1>1, <2>2, <2>6 DEF n
    <3>2. x \in 1..m
      BY <1>2, <2>3, <2>6, <3>1, Zenon
    <3>3. CASE l = n
      <4>1. y = m + 1
        BY <1>2, <1>3, <2>2, <2>6, <3>3
      <4>2. QED
        BY <3>2, <4>1
    <3>4. CASE l \in DOMAIN s
      <4>1. t[l] = s[l] /\ y \in 1..m
        BY <1>2, <2>2, <2>3, <2>6, <3>4
      <4>2. QED
        BY <2>6, <3>1, <3>2, <3>4, <4>1, Zenon DEF FollowsList
    <3>5. QED
      BY <2>2, <3>3, <3>4
  <2>7. FollowsList(t, signers, list, m + 1)
    BY <2>2, <2>4, <2>5, <2>6 DEF FollowsList
  <2>8. QED
    BY <2>2, <2>7 DEF t
<1>6. QED
  BY <1>4, <1>5

\* validateProof puts the signatures of the signers that are in the list into the
\* order of the list.
LEMMA ListIsFollowed ==
    ASSUME NEW S, NEW list \in Seq(S), Distinct(list), NEW signers, NEW proof
    PROVE  /\ InListOrder(signers, proof, list) \in Seq(S)
           /\ FollowsList(InListOrder(signers, proof, list), signers, list, Len(list))
<1> DEFINE n == Len(list)
<1>1. n \in Nat
  OBVIOUS
<1>2. PICK g : /\ OrderOver(g, signers, list, n)
               /\ InListOrder(signers, proof, list) = g[n]
  BY <1>1, OrderEnds
<1> DEFINE Good(m) == g[m] \in Seq(S) /\ FollowsList(g[m], signers, list, m)
           Bad == {m \in 0..n : ~Good(m)}
<1>3. SUFFICES ASSUME Bad # {} PROVE FALSE
  BY <1>1, <1>2
<1>4. PICK m \in Bad : \A k \in Bad : m <= k
  <2>1. Bad \in SUBSET Nat
    BY <1>1
  <2> HIDE DEF Bad
  <2>2. QED
    BY <1>3, <2>1, SmallestNat, Zenon
<1>5. \A i \in 0..n : g[i] = IF i = 0 THEN <<>> ELSE OrderTurn(signers, g[i - 1], list[i])
  BY <1>2 DEF OrderOver
<1>6. CASE m = 0
  <2>1. g[0] = <<>>
    BY <1>1, <1>5
  <2>2. Good(0)
    BY <2>1 DEF FollowsList
  <2>3. QED
    BY <1>4, <1>6, <2>2
<1>7. CASE m # 0
  <2>1. /\ m - 1 \in Nat /\ m - 1 \in 0..n /\ (m - 1) + 1 \in 1..n
        /\ (m - 1) + 1 = m /\ ~(m <= m - 1) /\ m \in 0..n
    BY <1>1, <1>4, <1>7
  <2>2. Good(m - 1)
    BY <1>4, <2>1
  <2>3. /\ OrderTurn(signers, g[m - 1], list[(m - 1) + 1]) \in Seq(S)
        /\ FollowsList(OrderTurn(signers, g[m - 1], list[(m - 1) + 1]), signers, list, (m - 1) + 1)
    BY <2>1, <2>2, TurnOrders
  <2>4. g[m] = OrderTurn(signers, g[m - 1], list[m])
    BY <1>5, <1>7, <2>1, Zenon
  <2>5. Good(m)
    BY <2>1, <2>3, <2>4, Zenon
  <2>6. QED
    BY <1>4, <2>5
<1>8. QED
  BY <1>6, <1>7

=============================================================================
