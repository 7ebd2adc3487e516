------------------------ MODULE SubmissionProxyProofs -----------------------
(***************************************************************************)
(* Proofs about the SubmissionProxy, for any oracles, feeds and settings of *)
(* the owner and batches of any length.                                    *)
(***************************************************************************)
EXTENDS SubmissionProxy, OracleWhitelistProofs

USE SMTT(30), ZenonT(30)

\* What the history keeps of a submission has this type.
Entries == [hash : Hash, ts : Nat, active : Nat, needed : Nat]

\* The state keeps its type.
ProxyTypeOK ==
    /\ OraclesTypeOK
    /\ feeds \in [Hash -> Feed \cup {NoFeed}] /\ feedAddresses \in Seq(Feed)
    /\ submits \in SUBSET Feed
    /\ thresholds \in [Hash -> Percents \cup {0}] /\ defaultThreshold \in Percents
    /\ maxSubmission \in Limits /\ dataFreshness \in Freshness
    /\ lastSubmissionTimes \in [Hash -> Nat]
    /\ rounds \in [Feed -> Seq(Nat)]
    /\ accepted \in Seq(Entries)

-----------------------------------------------------------------------------
(* The loop over a batch.                                                  *)

\* Where a batch starts.
BatchStart == [last |-> lastSubmissionTimes, rounds |-> rounds, stored |-> <<>>, ok |-> TRUE]

\* g is the run of a batch's loop over its first m submissions.
BatchOver(g, function, batch, m) ==
    g = [i \in 0..m |-> IF i = 0 THEN BatchStart ELSE BatchTurn(function, g[i - 1], batch[i])]

\* The loop of submit and its variants has a run over any batch.
LEMMA BatchRuns ==
    ASSUME NEW function, NEW batch, NEW n \in Nat
    PROVE  \E g : BatchOver(g, function, batch, n)
<1> DEFINE Turn(s, i) == BatchTurn(function, s, batch[i])
           Bad == {m \in Nat : ~(\E g : BatchOver(g, function, batch, m))}
<1>1. SUFFICES ASSUME Bad # {} PROVE FALSE
  OBVIOUS
<1>2. PICK m \in Bad : \A k \in Bad : m <= k
  <2>1. Bad \in SUBSET Nat
    OBVIOUS
  <2> HIDE DEF Bad
  <2>2. QED
    BY <1>1, <2>1, SmallestNat, Zenon
<1>3. CASE m = 0
  <2>1. BatchOver([i \in 0..0 |-> BatchStart], function, batch, 0)
    BY DEF BatchOver
  <2>2. QED
    BY <1>2, <1>3, <2>1
<1>4. CASE m # 0
  <2>1. m \in Nat /\ m - 1 \in Nat /\ ~(m <= m - 1)
    BY <1>2, <1>4
  <2>2. PICK g : BatchOver(g, function, batch, m - 1)
    BY <1>2, <2>1
  <2> DEFINE h == [i \in 0..m |-> IF i = m THEN Turn(g[m - 1], m) ELSE g[i]]
  <2>3. g = [i \in 0..(m - 1) |-> IF i = 0 THEN BatchStart ELSE Turn(g[i - 1], i)]
    BY <2>2 DEF BatchOver
  <2>4. ASSUME NEW i \in 0..m PROVE h[i] = IF i = 0 THEN BatchStart ELSE Turn(h[i - 1], i)
    <3> HIDE DEF Turn
    <3>1. CASE i = m
      BY <1>4, <2>1, <3>1
    <3>2. CASE i # m
      <4>1. i \in 0..(m - 1) /\ (i # 0 => i - 1 \in 0..m /\ i - 1 # m)
        BY <2>1, <3>2
      <4>2. h[i] = g[i] /\ (i # 0 => h[i - 1] = g[i - 1])
        BY <3>2, <4>1
      <4>3. QED
        BY <2>3, <4>1, <4>2
    <3>3. QED
      BY <3>1, <3>2
  <2>5. h = [i \in 0..m |-> IF i = 0 THEN BatchStart ELSE Turn(h[i - 1], i)]
    <3> HIDE DEF Turn
    <3>1. QED
      BY <2>4
  <2>6. BatchOver(h, function, batch, m)
    BY <2>5, Zenon DEF BatchOver
  <2>7. QED
    BY <1>2, <2>6
<1>5. QED
  BY <1>3, <1>4

\* RunBatch is the end of such a run.
LEMMA BatchEnds ==
    ASSUME NEW function, NEW batch, Len(batch) \in Nat
    PROVE  \E g : /\ RunBatch(function, batch) = g[Len(batch)]
                  /\ g[0] = BatchStart
                  /\ \A i \in 1..Len(batch) : g[i] = BatchTurn(function, g[i - 1], batch[i])
<1> DEFINE loop == CHOOSE g : BatchOver(g, function, batch, Len(batch))
<1>1. BatchOver(loop, function, batch, Len(batch))
  BY BatchRuns
<1>2. RunBatch(function, batch) = loop[Len(batch)]
  BY Zenon DEF RunBatch, BatchOver, BatchStart
<1> HIDE DEF loop
<1>3. /\ loop[0] = BatchStart
      /\ \A i \in 1..Len(batch) : loop[i] = BatchTurn(function, loop[i - 1], batch[i])
  BY <1>1 DEF BatchOver
<1>4. QED
  BY <1>2, <1>3, Zenon

\* The thresholds in force are percentages.
LEMMA ThresholdIsNat ==
    ASSUME ProxyTypeOK, NEW h \in Hash
    PROVE  Threshold(h) \in Nat
<1>1. Percents \subseteq Nat
  BY OwnerAssumption
<1>2. thresholds[h] \in Percents \cup {0} /\ defaultThreshold \in Percents
  BY DEF ProxyTypeOK
<1>3. QED
  BY <1>1, <1>2, Zenon DEF Threshold

\* A batch is a sequence of submissions.
LEMMA BatchesTyped == Batches \subseteq Seq(Submission)
<1>1. Batches \subseteq Seq([hash : Hash, ts : Stamps, signers : Seq(Address)])
  BY OwnerAssumption, Zenon
<1>2. QED
  BY <1>1, Zenon DEF Submission

\* The hash, the time and the signers of a submission.
LEMMA SubmissionFields ==
    ASSUME NEW x \in Submission
    PROVE  x.hash \in Hash /\ x.ts \in Nat /\ x.signers \in Seq(Address)
<1>1. Stamps \subseteq Nat
  BY OwnerAssumption
<1>2. x.hash \in Hash /\ x.ts \in Stamps /\ x.signers \in Seq(Address)
  BY DEF Submission
<1>3. QED
  BY <1>1, <1>2, Zenon

\* Whichever function submits it, an answer is stored only when it is newer than the last
\* of its hash, of a registered feed with that name, and its proof is accepted.
LEMMA StoredIsApproved ==
    ASSUME ProxyTypeOK, NEW function \in Functions, NEW x \in Submission, NEW last \in [Hash -> Nat],
           Outcome(function, x, last) # "skip", Outcome(function, x, last) # "revert"
    PROVE  /\ last[x.hash] < x.ts
           /\ feeds[x.hash] \in Feed /\ NameHash[feeds[x.hash]] = x.hash
           /\ Verdict(x) = "accept"
<1>1. WellFormed(x) /\ ~Superseded(x, last) /\ Verdict(x) = "accept"
  <2>1. CASE function = "submit"
    BY <2>1 DEF Outcome, submitOutcome
  <2>2. CASE function = "submitStrict"
    BY <2>2 DEF Outcome, submitStrictOutcome
  <2>3. CASE function = "submitWithoutSupersedValidation"
    BY <2>3 DEF Outcome, submitWithoutSupersedOutcome
  <2>4. QED
    BY <2>1, <2>2, <2>3 DEF Functions
<1>2. x.hash \in Hash /\ x.ts \in Nat
  BY SubmissionFields
<1>3. last[x.hash] \in Nat
  BY <1>2
<1>4. QED
  BY <1>1, <1>2, <1>3 DEF ProxyTypeOK, WellFormed, Superseded

\* The loop of a batch has this state.
Running == [last : [Hash -> Nat], rounds : [Feed -> Seq(Nat)], stored : Seq(Submission), ok : BOOLEAN]

\* Answers are in the order of their times, for every feed.
Ordered(r) == \A f \in Feed : \A i, j \in DOMAIN r[f] : i < j => r[f][i] < r[f][j]

\* No feed has an answer later than the last submission for the hash of its name.
Bounded(r, last) == \A f \in Feed : \A i \in DOMAIN r[f] : r[f][i] <= last[NameHash[f]]

\* What holds after every turn of a batch's loop.
InTime(s) ==
    /\ s \in Running
    /\ Ordered(s.rounds) /\ Bounded(s.rounds, s.last)
    /\ \A i \in DOMAIN s.stored : Verdict(s.stored[i]) = "accept"

\* A turn of the loop keeps the answers in order: the feed's name ties its answers to the
\* last submission time of one hash.
LEMMA TurnInTime ==
    ASSUME ProxyTypeOK, NEW function \in Functions, NEW x \in Submission, NEW s, InTime(s)
    PROVE  InTime(BatchTurn(function, s, x))
<1> DEFINE outcome == Outcome(function, x, s.last)
           t == BatchTurn(function, s, x)
<1>0. /\ s.last \in [Hash -> Nat] /\ s.rounds \in [Feed -> Seq(Nat)]
      /\ s.stored \in Seq(Submission) /\ s.ok \in BOOLEAN
      /\ s = [last |-> s.last, rounds |-> s.rounds, stored |-> s.stored, ok |-> s.ok]
  BY DEF InTime, Running
<1>1. CASE ~s.ok \/ outcome = "skip"
  <2>1. t = s
    BY <1>1 DEF BatchTurn
  <2>2. QED
    BY <2>1
<1>2. CASE s.ok /\ outcome = "revert"
  <2>1. t = [last |-> s.last, rounds |-> s.rounds, stored |-> s.stored, ok |-> FALSE]
    BY <1>0, <1>2, Zenon DEF BatchTurn
  <2> HIDE DEF t
  <2>2. InTime(t)
    BY <1>0, <2>1 DEF InTime, Running
  <2>3. QED
    BY <2>2 DEF t
<1>3. CASE s.ok /\ outcome # "skip" /\ outcome # "revert"
  <2> DEFINE f == feeds[x.hash]
             last == [s.last EXCEPT ![x.hash] = x.ts]
             r == [s.rounds EXCEPT ![f] = Append(@, x.ts)]
             stored == Append(s.stored, x)
  <2>1. t = [last |-> last, rounds |-> r, stored |-> stored, ok |-> s.ok]
    BY <1>0, <1>3, Zenon DEF BatchTurn
  <2>2. s.last[x.hash] < x.ts /\ f \in Feed /\ NameHash[f] = x.hash /\ Verdict(x) = "accept"
    BY <1>0, <1>3, StoredIsApproved
  <2>3. x.hash \in Hash /\ x.ts \in Nat
    BY SubmissionFields
  <2>4. NameHash \in [Feed -> Hash]
    BY FeedAssumption
  <2>5. last \in [Hash -> Nat] /\ stored \in Seq(Submission) /\ r \in [Feed -> Seq(Nat)]
    BY <1>0, <2>2, <2>3
  <2>6. \A h \in Hash : s.last[h] \in Nat /\ last[h] \in Nat /\ s.last[h] <= last[h]
    BY <1>0, <2>2, <2>3
  <2>7. r[f] = Append(s.rounds[f], x.ts) /\ \A e \in Feed : e # f => r[e] = s.rounds[e]
    BY <1>0, <2>2
  <2>8. last[x.hash] = x.ts
    BY <1>0, <2>3
  <2>9. \A e \in Feed : s.rounds[e] \in Seq(Nat) /\ NameHash[e] \in Hash
    BY <1>0, <2>4
  <2> HIDE DEF f, last, r, stored
  <2>10. Ordered(r)
    <3> SUFFICES ASSUME NEW e \in Feed, NEW i \in DOMAIN r[e], NEW j \in DOMAIN r[e], i < j
                 PROVE  r[e][i] < r[e][j]
      BY DEF Ordered
    <3>1. CASE e # f
      BY <2>7, <3>1 DEF InTime, Ordered
    <3>2. CASE e = f
      <4>1. DOMAIN s.rounds[f] = 1..Len(s.rounds[f]) /\ Len(s.rounds[f]) \in Nat
        BY <2>2, <2>9
      <4>2. i \in DOMAIN s.rounds[f] /\ r[f][i] = s.rounds[f][i]
        BY <2>2, <2>3, <2>7, <2>9, <3>2, <4>1
      <4>3. CASE j \in DOMAIN s.rounds[f]
        <5>1. r[f][j] = s.rounds[f][j]
          BY <2>2, <2>3, <2>7, <2>9, <4>1, <4>3
        <5>2. QED
          BY <2>2, <3>2, <4>2, <4>3, <5>1 DEF InTime, Ordered
      <4>4. CASE j \notin DOMAIN s.rounds[f]
        <5>1. r[f][j] = x.ts
          BY <2>2, <2>3, <2>7, <2>9, <3>2, <4>1, <4>4
        <5>2. s.rounds[f][i] <= s.last[x.hash]
          BY <2>2, <4>2 DEF InTime, Bounded
        <5>3. s.rounds[f][i] \in Nat /\ s.last[x.hash] \in Nat
          BY <2>2, <2>3, <2>6, <2>9, <4>2
        <5>4. QED
          BY <2>2, <2>3, <3>2, <4>2, <5>1, <5>2, <5>3
      <4>5. QED
        BY <4>3, <4>4
    <3>3. QED
      BY <3>1, <3>2
  <2>11. Bounded(r, last)
    <3> SUFFICES ASSUME NEW e \in Feed, NEW i \in DOMAIN r[e] PROVE r[e][i] <= last[NameHash[e]]
      BY DEF Bounded
    <3>1. ASSUME i \in DOMAIN s.rounds[e], r[e][i] = s.rounds[e][i] PROVE r[e][i] <= last[NameHash[e]]
      <4>1. s.rounds[e][i] <= s.last[NameHash[e]]
        BY <3>1 DEF InTime, Bounded
      <4>2. s.rounds[e][i] \in Nat
        BY <2>9, <3>1
      <4>3. QED
        BY <2>6, <2>9, <3>1, <4>1, <4>2
    <3>2. CASE e # f
      BY <2>7, <3>1, <3>2
    <3>3. CASE e = f
      <4>1. DOMAIN s.rounds[f] = 1..Len(s.rounds[f]) /\ Len(s.rounds[f]) \in Nat
        BY <2>2, <2>9
      <4>2. CASE i \in DOMAIN s.rounds[f]
        <5>1. r[f][i] = s.rounds[f][i]
          BY <2>2, <2>3, <2>7, <2>9, <4>1, <4>2
        <5>2. QED
          BY <3>1, <3>3, <4>2, <5>1
      <4>3. CASE i \notin DOMAIN s.rounds[f]
        <5>1. r[f][i] = x.ts
          BY <2>2, <2>3, <2>7, <2>9, <3>3, <4>1, <4>3
        <5>2. QED
          BY <2>2, <2>3, <2>8, <3>3, <5>1
      <4>4. QED
        BY <4>2, <4>3
    <3>4. QED
      BY <3>2, <3>3
  <2>12. \A i \in DOMAIN stored : Verdict(stored[i]) = "accept"
    <3> SUFFICES ASSUME NEW i \in DOMAIN stored PROVE Verdict(stored[i]) = "accept"
      OBVIOUS
    <3>1. CASE i \in DOMAIN s.stored
      <4>1. stored[i] = s.stored[i]
        BY <1>0, <3>1 DEF stored
      <4>2. QED
        BY <3>1, <4>1 DEF InTime
    <3>2. CASE i \notin DOMAIN s.stored
      <4>1. stored[i] = x
        BY <1>0, <3>2 DEF stored
      <4>2. QED
        BY <2>2, <4>1
    <3>3. QED
      BY <3>1, <3>2
  <2> HIDE DEF t
  <2>13. t \in Running
    BY <1>0, <2>1, <2>5 DEF Running
  <2>14. t.rounds = r /\ t.last = last /\ t.stored = stored
    BY <2>1
  <2>15. InTime(t)
    BY <2>10, <2>11, <2>12, <2>13, <2>14, Zenon DEF InTime
  <2>16. QED
    BY <2>15 DEF t
<1>4. QED
  BY <1>1, <1>2, <1>3

\* Every turn of a batch's loop keeps the answers in order.
LEMMA RunInTime ==
    ASSUME ProxyTypeOK, Ordered(rounds), Bounded(rounds, lastSubmissionTimes),
           NEW function \in Functions, NEW batch \in Seq(Submission), NEW g, g[0] = BatchStart,
           \A i \in 1..Len(batch) : g[i] = BatchTurn(function, g[i - 1], batch[i])
    PROVE  \A i \in 0..Len(batch) : InTime(g[i])
<1> DEFINE n == Len(batch)
           Bad == {i \in 0..n : ~InTime(g[i])}
<1>1. n \in Nat
  OBVIOUS
<1>2. SUFFICES ASSUME Bad # {} PROVE FALSE
  OBVIOUS
<1>3. PICK m \in Bad : \A k \in Bad : m <= k
  <2>1. Bad \in SUBSET Nat
    BY <1>1
  <2> HIDE DEF Bad
  <2>2. QED
    BY <1>2, <2>1, SmallestNat, Zenon
<1>4. CASE m = 0
  <2>1. lastSubmissionTimes \in [Hash -> Nat] /\ rounds \in [Feed -> Seq(Nat)]
    BY DEF ProxyTypeOK
  <2>2. BatchStart \in Running
    BY <2>1 DEF BatchStart, Running
  <2>3. /\ BatchStart.rounds = rounds /\ BatchStart.last = lastSubmissionTimes
        /\ BatchStart.stored = <<>>
    BY DEF BatchStart
  <2>4. InTime(BatchStart)
    BY <2>2, <2>3 DEF InTime
  <2>5. QED
    BY <1>3, <1>4, <2>4
<1>5. CASE m # 0
  <2>1. m \in 1..n /\ m - 1 \in 0..n /\ ~(m <= m - 1)
    BY <1>1, <1>3, <1>5
  <2>2. InTime(g[m - 1])
    BY <1>3, <2>1
  <2>3. batch[m] \in Submission
    BY <2>1
  <2>4. InTime(BatchTurn(function, g[m - 1], batch[m]))
    BY <2>2, <2>3, TurnInTime
  <2>5. QED
    BY <1>3, <2>1, <2>4
<1>6. QED
  BY <1>4, <1>5

\* A batch, whichever function submits it, leaves the answers in order.
LEMMA BatchInTime ==
    ASSUME ProxyTypeOK, Ordered(rounds), Bounded(rounds, lastSubmissionTimes),
           NEW function \in Functions, NEW batch \in Seq(Submission)
    PROVE  InTime(RunBatch(function, batch))
<1>1. Len(batch) \in Nat
  OBVIOUS
<1>2. PICK g : /\ RunBatch(function, batch) = g[Len(batch)]
               /\ g[0] = BatchStart
               /\ \A i \in 1..Len(batch) : g[i] = BatchTurn(function, g[i - 1], batch[i])
  BY <1>1, BatchEnds
<1>3. \A i \in 0..Len(batch) : InTime(g[i])
  BY <1>2, RunInTime
<1>4. QED
  BY <1>1, <1>2, <1>3

-----------------------------------------------------------------------------
(* submitStrict.                                                           *)

\* What submitStrict does not refuse it stores, and so do the other functions.
LEMMA StrictAgrees ==
    ASSUME ProxyTypeOK, NEW function \in Functions, NEW x, NEW last,
           Outcome("submitStrict", x, last) # "revert"
    PROVE  /\ Outcome(function, x, last) = "store"
           /\ Outcome("submitStrict", x, last) = "store"
<1>1. Outcome("submitStrict", x, last) = submitStrictOutcome(x, last)
  BY DEF Outcome
<1>2. /\ now >= dataFreshness /\ ~Outdated(x) /\ ~Superseded(x, last) /\ WellFormed(x)
      /\ Verdict(x) = "accept" /\ Store(x) = "store"
  BY <1>1 DEF submitStrictOutcome, Store
<1>3. now \in Nat /\ dataFreshness \in Nat
  BY OwnerAssumption DEF ProxyTypeOK, OraclesTypeOK
<1>4. ~(now < dataFreshness)
  BY <1>2, <1>3
<1>5. submitStrictOutcome(x, last) = "store"
  BY <1>2 DEF submitStrictOutcome
<1>6. submitOutcome(x, last) = "store"
  BY <1>2, <1>4 DEF submitOutcome
<1>7. submitWithoutSupersedOutcome(x, last) = "store"
  BY <1>2 DEF submitWithoutSupersedOutcome
<1>8. QED
  BY <1>1, <1>5, <1>6, <1>7 DEF Outcome

\* A prefix of a batch grows by its next submission.
LEMMA PrefixGrows ==
    ASSUME NEW S, NEW seq \in Seq(S), NEW m \in 1..Len(seq)
    PROVE  SubSeq(seq, 1, m) = Append(SubSeq(seq, 1, m - 1), seq[m])
<1>1. SubSeq(seq, 1, m - 1) \in Seq(S) /\ Len(SubSeq(seq, 1, m - 1)) = m - 1
  OBVIOUS
<1>2. SubSeq(seq, 1, m) \in Seq(S) /\ Len(SubSeq(seq, 1, m)) = m
  OBVIOUS
<1>3. \A i \in 1..m : SubSeq(seq, 1, m)[i] = seq[i]
  OBVIOUS
<1>4. \A i \in 1..(m - 1) : SubSeq(seq, 1, m - 1)[i] = seq[i]
  OBVIOUS
<1>5. QED
  BY <1>1, <1>2, <1>3, <1>4

\* A batch that submitStrict takes is taken whole, and every function does the same
\* with it.
LEMMA StrictTaken ==
    ASSUME ProxyTypeOK, Ordered(rounds), Bounded(rounds, lastSubmissionTimes),
           NEW function \in Functions, NEW batch \in Seq(Submission),
           RunBatch("submitStrict", batch).ok
    PROVE  /\ RunBatch("submitStrict", batch).stored = batch
           /\ RunBatch(function, batch) = RunBatch("submitStrict", batch)
<1> DEFINE n == Len(batch)
<1>0. n \in Nat /\ "submitStrict" \in Functions
  BY DEF Functions
<1>1. PICK g : /\ RunBatch("submitStrict", batch) = g[n]
               /\ g[0] = BatchStart
               /\ \A i \in 1..n : g[i] = BatchTurn("submitStrict", g[i - 1], batch[i])
  BY <1>0, BatchEnds
<1>2. PICK k : /\ RunBatch(function, batch) = k[n]
               /\ k[0] = BatchStart
               /\ \A i \in 1..n : k[i] = BatchTurn(function, k[i - 1], batch[i])
  BY <1>0, BatchEnds
<1>3. \A i \in 0..n : InTime(g[i])
  BY <1>0, <1>1, RunInTime
<1> DEFINE Same(i) == g[i].ok => g[i].stored = SubSeq(batch, 1, i) /\ k[i] = g[i]
           Bad == {i \in 0..n : ~Same(i)}
<1>4. ASSUME Bad # {} PROVE FALSE
  <2>1. PICK m \in Bad : \A j \in Bad : m <= j
    <3>1. Bad \in SUBSET Nat
      BY <1>0
    <3> HIDE DEF Bad
    <3>2. QED
      BY <1>4, <3>1, SmallestNat, Zenon
  <2>2. CASE m = 0
    <3>1. g[0].stored = SubSeq(batch, 1, 0) /\ k[0] = g[0]
      BY <1>1, <1>2 DEF BatchStart
    <3>2. QED
      BY <2>1, <2>2, <3>1
  <2>3. CASE m # 0
    <3> DEFINE s == g[m - 1]
               x == batch[m]
    <3>1. m \in 1..n /\ m - 1 \in 0..n /\ ~(m <= m - 1) /\ g[m].ok
      BY <1>0, <2>1, <2>3
    <3>2. Same(m - 1)
      BY <2>1, <3>1
    <3>3. g[m] = BatchTurn("submitStrict", s, x) /\ k[m] = BatchTurn(function, k[m - 1], x)
      BY <1>1, <1>2, <3>1
    <3>4. InTime(s)
      BY <1>3, <3>1
    <3> HIDE DEF Same
    <3>5. s = [last |-> s.last, rounds |-> s.rounds, stored |-> s.stored, ok |-> s.ok]
      BY <3>4 DEF InTime, Running
    <3> HIDE DEF s, x
    <3>6. s.ok /\ Outcome("submitStrict", x, s.last) # "revert"
      <4>1. CASE ~s.ok
        BY <3>1, <3>3, <4>1 DEF BatchTurn
      <4>2. CASE s.ok /\ Outcome("submitStrict", x, s.last) = "revert"
        <5>1. BatchTurn("submitStrict", s, x) = [s EXCEPT !.ok = FALSE]
          BY <4>2 DEF BatchTurn
        <5>2. [s EXCEPT !.ok = FALSE].ok = FALSE
          BY <3>5
        <5>3. QED
          BY <3>1, <3>3, <5>1, <5>2, Zenon
      <4>3. QED
        BY <4>1, <4>2
    <3>7. /\ Outcome(function, x, s.last) = "store"
          /\ Outcome("submitStrict", x, s.last) = "store"
      BY <3>6, StrictAgrees, Zenon
    <3>8. s.stored = SubSeq(batch, 1, m - 1) /\ k[m - 1] = s
      BY <3>2, <3>6 DEF Same, s
    <3>9. BatchTurn(function, s, x) = BatchTurn("submitStrict", s, x)
      BY <3>6, <3>7, Zenon DEF BatchTurn
    <3>10. BatchTurn("submitStrict", s, x).stored = Append(s.stored, x)
      <4>1. BatchTurn("submitStrict", s, x)
              = [s EXCEPT !.last[x.hash] = x.ts, !.rounds[feeds[x.hash]] = Append(@, x.ts),
                          !.stored = Append(@, x)]
        BY <3>6, <3>7, Zenon DEF BatchTurn
      <4>2. QED
        BY <3>5, <4>1, Zenon
    <3>11. SubSeq(batch, 1, m) = Append(SubSeq(batch, 1, m - 1), x)
      BY <3>1, PrefixGrows DEF x
    <3>12. Same(m)
      BY <3>3, <3>8, <3>9, <3>10, <3>11 DEF Same
    <3>13. QED
      BY <2>1, <3>12
  <2>4. QED
    BY <2>2, <2>3
<1>5. Same(n)
  BY <1>0, <1>4
<1>6. SubSeq(batch, 1, n) = batch
  OBVIOUS
<1>7. QED
  BY <1>1, <1>2, <1>5, <1>6

-----------------------------------------------------------------------------
(* The list of feeds.                                                      *)

\* The hashes that are registered for a feed.
HashesOf(registered, f) == {h \in Hash : registered[h] = f}

\* An element more.
LEMMA OneMore ==
    ASSUME NEW S, NEW T, NEW x, x \notin S, T = S \cup {x}, IsFiniteSet(T)
    PROVE  /\ Cardinality(S) \in Nat /\ Cardinality(T) \in Nat
           /\ Cardinality(T) = Cardinality(S) + 1
<1>1. IsFiniteSet(S)
  BY FS_Subset
<1>2. Cardinality(S) \in Nat /\ Cardinality(T) = Cardinality(S) + 1
  BY <1>1, FS_CardinalityType, FS_AddElement
<1>3. QED
  BY <1>2

\* A list has a feed at finitely many positions.
LEMMA PositionsFinite ==
    ASSUME NEW seq \in Seq(Feed), NEW f
    PROVE  IsFiniteSet(Positions(seq, f))
<1>1. IsFiniteSet(1..Len(seq))
  BY FS_Interval
<1>2. Positions(seq, f) \subseteq 1..Len(seq)
  BY DEF Positions
<1>3. QED
  BY <1>1, <1>2, FS_Subset

\* A feed is registered for finitely many hashes.
LEMMA HashesFinite ==
    ASSUME NEW registered, NEW f
    PROVE  IsFiniteSet(HashesOf(registered, f))
<1>1. HashesOf(registered, f) \subseteq Hash
  BY DEF HashesOf
<1>2. QED
  BY <1>1, FeedAssumption, FS_Subset

\* Registering feed b for a hash that had a: one hash more for b and one less for a.
LEMMA Reregistered ==
    ASSUME NEW registered, NEW h \in Hash,
           NEW a, NEW b, registered[h] = a, a # b,
           NEW after, after[h] = b, \A k \in Hash \ {h} : after[k] = registered[k]
    PROVE  /\ Cardinality(HashesOf(registered, a)) = Cardinality(HashesOf(after, a)) + 1
           /\ Cardinality(HashesOf(after, b)) = Cardinality(HashesOf(registered, b)) + 1
           /\ \A e \in Feed : e # a /\ e # b => HashesOf(after, e) = HashesOf(registered, e)
<1>1. h \notin HashesOf(after, a) /\ HashesOf(registered, a) = HashesOf(after, a) \cup {h}
  BY DEF HashesOf
<1>2. h \notin HashesOf(registered, b) /\ HashesOf(after, b) = HashesOf(registered, b) \cup {h}
  BY DEF HashesOf
<1>3. \A e \in Feed : e # a /\ e # b => HashesOf(after, e) = HashesOf(registered, e)
  BY DEF HashesOf
<1>4. IsFiniteSet(HashesOf(registered, a)) /\ IsFiniteSet(HashesOf(after, b))
  BY HashesFinite
<1>5. Cardinality(HashesOf(registered, a)) = Cardinality(HashesOf(after, a)) + 1
  BY <1>1, <1>4, OneMore, Zenon
<1>6. Cardinality(HashesOf(after, b)) = Cardinality(HashesOf(registered, b)) + 1
  BY <1>2, <1>4, OneMore, Zenon
<1>7. QED
  BY <1>3, <1>5, <1>6, Zenon

\* A feed that is registered is in the list, and FirstOf finds it.
LEMMA FoundInList ==
    ASSUME ProxyTypeOK, FeedsListed, NEW h \in Hash, feeds[h] # NoFeed
    PROVE  /\ feeds[h] \in Feed
           /\ Positions(feedAddresses, feeds[h]) # {}
           /\ FirstOf(feedAddresses, feeds[h]) \in 1..Len(feedAddresses)
           /\ feedAddresses[FirstOf(feedAddresses, feeds[h])] = feeds[h]
<1> DEFINE f == feeds[h]
           P == Positions(feedAddresses, f)
<1>1. f \in Feed /\ feedAddresses \in Seq(Feed)
  BY DEF ProxyTypeOK
<1>2. Cardinality(P) = Cardinality(HashesOf(feeds, f))
  BY <1>1 DEF FeedsListed, HashesOf
<1>3. IsFiniteSet(HashesOf(feeds, f)) /\ h \in HashesOf(feeds, f)
  BY HashesFinite, Zenon DEF HashesOf
<1>4. P # {}
  <2>1. Cardinality(HashesOf(feeds, f)) # 0
    BY <1>3, FS_EmptySet
  <2>2. QED
    BY <1>2, <2>1, FS_EmptySet
<1>5. P = {i \in 1..Len(feedAddresses) : feedAddresses[i] = f}
  BY <1>1 DEF Positions
<1>6. FirstOf(feedAddresses, f) = First(P)
  BY DEF FirstOf
<1>7. P \in SUBSET Nat
  BY <1>1, <1>5
<1>8. First(P) \in P
  BY <1>4, <1>7, FirstIsIn
<1>9. QED
  BY <1>1, <1>5, <1>6, <1>8

\* removeFeed keeps the list: the last element fills the gap, one position of the feed
\* goes and every other feed keeps its number.
LEMMA ShrunkList ==
    ASSUME NEW seq \in Seq(Feed), NEW f \in Feed, NEW i \in 1..Len(seq), seq[i] = f
    PROVE  LET after == SubSeq([seq EXCEPT ![i] = seq[Len(seq)]], 1, Len(seq) - 1)
           IN  /\ after \in Seq(Feed)
               /\ Cardinality(Positions(seq, f)) = Cardinality(Positions(after, f)) + 1
               /\ \A e \in Feed : e # f =>
                     Cardinality(Positions(after, e)) = Cardinality(Positions(seq, e))
<1> DEFINE n == Len(seq)
           mid == [seq EXCEPT ![i] = seq[n]]
           after == SubSeq(mid, 1, n - 1)
<1>1. n \in Nat /\ n >= 1 /\ n \in 1..n /\ seq[n] \in Feed /\ DOMAIN seq = 1..n
  OBVIOUS
<1>2. mid \in Seq(Feed) /\ Len(mid) = n /\ \A k \in 1..n : mid[k] = IF k = i THEN seq[n] ELSE seq[k]
  BY <1>1
<1>3. /\ after \in Seq(Feed) /\ DOMAIN after = 1..(n - 1)
      /\ \A k \in 1..(n - 1) : after[k] = mid[k]
  <2> HIDE DEF mid
  <2>1. QED
    BY <1>1, <1>2
<1>4. \A k \in 1..(n - 1) : after[k] = IF k = i THEN seq[n] ELSE seq[k]
  <2> HIDE DEF mid, after
  <2>1. QED
    BY <1>1, <1>2, <1>3
<1> HIDE DEF n, mid, after
<1>5. \A k \in 1..n : k \in 1..(n - 1) \/ k = n
  BY <1>1
<1>6. n \notin 1..(n - 1) /\ \A k \in 1..(n - 1) : k \in 1..n
  BY <1>1
<1>7. i \in 1..n
  BY DEF n
<1>8. Cardinality(Positions(seq, f)) = Cardinality(Positions(after, f)) + 1
  <2> DEFINE x == IF seq[n] = f THEN n ELSE i
  <2>1. x \notin Positions(after, f) /\ Positions(seq, f) = Positions(after, f) \cup {x}
    <3>1. CASE seq[n] = f
      BY <1>1, <1>3, <1>4, <1>5, <1>6, <1>7, <3>1 DEF Positions
    <3>2. CASE seq[n] # f
      BY <1>1, <1>3, <1>4, <1>5, <1>6, <1>7, <3>2 DEF Positions
    <3>3. QED
      BY <3>1, <3>2
  <2> HIDE DEF x
  <2>2. QED
    BY <2>1, PositionsFinite, OneMore, Zenon
<1>9. ASSUME NEW e \in Feed, e # f
      PROVE  Cardinality(Positions(after, e)) = Cardinality(Positions(seq, e))
  <2>1. CASE seq[n] # e
    <3>1. Positions(after, e) = Positions(seq, e)
      BY <1>1, <1>3, <1>4, <1>5, <1>6, <1>7, <1>9, <2>1 DEF Positions
    <3>2. QED
      BY <3>1
  <2>2. CASE seq[n] = e
    <3> DEFINE rest == Positions(seq, e) \ {n}
    <3>1. i # n /\ i \in 1..(n - 1)
      BY <1>5, <1>7, <1>9, <2>2
    <3>2. n \notin rest /\ Positions(seq, e) = rest \cup {n}
      BY <1>1, <2>2 DEF Positions
    <3>3. i \notin rest /\ Positions(after, e) = rest \cup {i}
      BY <1>1, <1>3, <1>4, <1>5, <1>6, <1>9, <2>2, <3>1 DEF Positions
    <3> HIDE DEF rest
    <3>4. Cardinality(Positions(seq, e)) = Cardinality(rest) + 1
      BY <3>2, PositionsFinite, OneMore, Zenon
    <3>5. Cardinality(Positions(after, e)) = Cardinality(rest) + 1
      BY <1>3, <3>3, PositionsFinite, OneMore, Zenon
    <3>6. QED
      BY <3>4, <3>5
  <2>3. QED
    BY <2>1, <2>2
<1>10. QED
  BY <1>3, <1>8, <1>9, Zenon DEF after, mid, n

\* updateFeed of a registered hash replaces one position of the old feed by the new one.
LEMMA ReplacedInList ==
    ASSUME NEW seq \in Seq(Feed), NEW f \in Feed, NEW g \in Feed, f # g,
           NEW i \in 1..Len(seq), seq[i] = f, NEW after \in Seq(Feed), Len(after) = Len(seq),
           after[i] = g, \A k \in 1..Len(seq) : k # i => after[k] = seq[k]
    PROVE  /\ Cardinality(Positions(seq, f)) = Cardinality(Positions(after, f)) + 1
           /\ Cardinality(Positions(after, g)) = Cardinality(Positions(seq, g)) + 1
           /\ \A e \in Feed : e # f /\ e # g => Positions(after, e) = Positions(seq, e)
<1>1. DOMAIN after = 1..Len(seq) /\ DOMAIN seq = 1..Len(seq)
  OBVIOUS
<1>2. \A k \in 1..Len(seq) : after[k] = IF k = i THEN g ELSE seq[k]
  OBVIOUS
<1>3. i \notin Positions(after, f) /\ Positions(seq, f) = Positions(after, f) \cup {i}
  BY <1>1, <1>2 DEF Positions
<1>4. i \notin Positions(seq, g) /\ Positions(after, g) = Positions(seq, g) \cup {i}
  BY <1>1, <1>2 DEF Positions
<1>5. \A e \in Feed : e # f /\ e # g => Positions(after, e) = Positions(seq, e)
  BY <1>1, <1>2 DEF Positions
<1>6. Cardinality(Positions(seq, f)) = Cardinality(Positions(after, f)) + 1
  BY <1>3, PositionsFinite, OneMore, Zenon
<1>7. Cardinality(Positions(after, g)) = Cardinality(Positions(seq, g)) + 1
  BY <1>4, PositionsFinite, OneMore, Zenon
<1>8. QED
  BY <1>5, <1>6, <1>7, Zenon

\* updateFeed of a new hash appends its feed.
LEMMA AppendedToList ==
    ASSUME NEW seq \in Seq(Feed), NEW f \in Feed
    PROVE  LET after == Append(seq, f)
           IN  /\ after \in Seq(Feed)
               /\ Cardinality(Positions(after, f)) = Cardinality(Positions(seq, f)) + 1
               /\ \A e \in Feed : e # f => Positions(after, e) = Positions(seq, e)
<1> DEFINE after == Append(seq, f)
           n == Len(seq) + 1
<1>1. after \in Seq(Feed) /\ DOMAIN after = 1..n /\ DOMAIN seq = 1..Len(seq)
  OBVIOUS
<1>2. after[n] = f /\ \A k \in 1..Len(seq) : after[k] = seq[k]
  OBVIOUS
<1>3. /\ \A k \in 1..n : k \in 1..Len(seq) \/ k = n
      /\ n \in 1..n /\ n \notin 1..Len(seq) /\ \A k \in 1..Len(seq) : k \in 1..n
  OBVIOUS
<1> HIDE DEF after, n
<1>4. n \notin Positions(seq, f) /\ Positions(after, f) = Positions(seq, f) \cup {n}
  BY <1>1, <1>2, <1>3 DEF Positions
<1>5. \A e \in Feed : e # f => Positions(after, e) = Positions(seq, e)
  BY <1>1, <1>2, <1>3 DEF Positions
<1>6. Cardinality(Positions(after, f)) = Cardinality(Positions(seq, f)) + 1
  BY <1>1, <1>4, PositionsFinite, OneMore, Zenon
<1>7. QED
  BY <1>1, <1>5, <1>6 DEF after

\* removeFeed keeps the list of feeds in step with the registered hashes.
LEMMA RemoveListed ==
    ASSUME ProxyTypeOK, FeedsListed, NEW h \in Hash, removeFeed(h)
    PROVE  /\ feeds' \in [Hash -> Feed \cup {NoFeed}] /\ feedAddresses' \in Seq(Feed)
           /\ FeedsListed'
<1> DEFINE f == feeds[h]
           i == FirstOf(feedAddresses, f)
<1>1. feeds[h] # NoFeed /\ feeds' = [feeds EXCEPT ![h] = NoFeed]
  BY DEF removeFeed
<1>2. f \in Feed /\ Positions(feedAddresses, f) # {} /\ i \in 1..Len(feedAddresses) /\ feedAddresses[i] = f
  BY <1>1, FoundInList
<1>3. feedAddresses' = SubSeq([feedAddresses EXCEPT ![i] = feedAddresses[Len(feedAddresses)]],
                              1, Len(feedAddresses) - 1)
  BY <1>2 DEF removeFeed, Without
<1>4. feeds \in [Hash -> Feed \cup {NoFeed}] /\ feedAddresses \in Seq(Feed) /\ NoFeed \notin Feed
  BY FeedAssumption DEF ProxyTypeOK
<1>5. feeds' \in [Hash -> Feed \cup {NoFeed}]
  BY <1>1, <1>4
<1> HIDE DEF f, i
<1>6. /\ feedAddresses' \in Seq(Feed)
      /\ Cardinality(Positions(feedAddresses, f)) = Cardinality(Positions(feedAddresses', f)) + 1
      /\ \A e \in Feed : e # f =>
            Cardinality(Positions(feedAddresses', e)) = Cardinality(Positions(feedAddresses, e))
  BY <1>2, <1>3, <1>4, ShrunkList, ZenonT(30)
<1>7. /\ Cardinality(HashesOf(feeds, f)) = Cardinality(HashesOf(feeds', f)) + 1
      /\ \A e \in Feed : e # f => HashesOf(feeds', e) = HashesOf(feeds, e)
  <2>1. /\ feeds[h] = f /\ f # NoFeed
        /\ feeds'[h] = NoFeed /\ \A k \in Hash \ {h} : feeds'[k] = feeds[k]
    BY <1>1, <1>4 DEF f
  <2>2. /\ Cardinality(HashesOf(feeds, f)) = Cardinality(HashesOf(feeds', f)) + 1
        /\ \A e \in Feed : e # f /\ e # NoFeed => HashesOf(feeds', e) = HashesOf(feeds, e)
    BY <2>1, Reregistered
  <2>3. QED
    BY <1>4, <2>2, Zenon
<1>8. \A e \in Feed : Cardinality(Positions(feedAddresses, e)) = Cardinality(HashesOf(feeds, e))
  BY DEF FeedsListed, HashesOf
<1>9. Cardinality(Positions(feedAddresses', f)) \in Nat /\ Cardinality(HashesOf(feeds', f)) \in Nat
  BY <1>6, PositionsFinite, HashesFinite, FS_CardinalityType
<1>10. \A e \in Feed : Cardinality(Positions(feedAddresses', e)) = Cardinality(HashesOf(feeds', e))
  BY <1>2, <1>6, <1>7, <1>8, <1>9
<1>11. QED
  BY <1>5, <1>6, <1>10 DEF FeedsListed, HashesOf

\* updateFeed keeps the list of feeds in step with the registered hashes.
LEMMA UpdateListed ==
    ASSUME ProxyTypeOK, FeedsListed, NEW h \in Hash, NEW g \in Feed, updateFeed(h, g)
    PROVE  /\ feeds' \in [Hash -> Feed \cup {NoFeed}] /\ feedAddresses' \in Seq(Feed)
           /\ FeedsListed'
<1> DEFINE f == feeds[h]
           i == FirstOf(feedAddresses, f)
<1>1. feeds' = [feeds EXCEPT ![h] = g] /\ feedAddresses' = Listed(h, g)
  BY DEF updateFeed
<1>2. feeds \in [Hash -> Feed \cup {NoFeed}] /\ feedAddresses \in Seq(Feed) /\ NoFeed \notin Feed
  BY FeedAssumption DEF ProxyTypeOK
<1>3. feeds' \in [Hash -> Feed \cup {NoFeed}]
  BY <1>1, <1>2
<1>4. \A e \in Feed : Cardinality(Positions(feedAddresses, e)) = Cardinality(HashesOf(feeds, e))
  BY DEF FeedsListed, HashesOf
<1>5. SUFFICES /\ feedAddresses' \in Seq(Feed)
               /\ \A e \in Feed : Cardinality(Positions(feedAddresses', e))
                                    = Cardinality(HashesOf(feeds', e))
  BY <1>3 DEF FeedsListed, HashesOf
<1>6. CASE f = NoFeed
  <2>1. feedAddresses' = Append(feedAddresses, g)
    BY <1>1, <1>6 DEF Listed
  <2>2. /\ feedAddresses' \in Seq(Feed)
        /\ Cardinality(Positions(feedAddresses', g)) = Cardinality(Positions(feedAddresses, g)) + 1
        /\ \A e \in Feed : e # g => Positions(feedAddresses', e) = Positions(feedAddresses, e)
    BY <1>2, <2>1, AppendedToList
  <2>3. /\ Cardinality(HashesOf(feeds', g)) = Cardinality(HashesOf(feeds, g)) + 1
        /\ \A e \in Feed : e # g => HashesOf(feeds', e) = HashesOf(feeds, e)
    <3>1. /\ feeds[h] = NoFeed /\ NoFeed # g
          /\ feeds'[h] = g /\ \A k \in Hash \ {h} : feeds'[k] = feeds[k]
      BY <1>1, <1>2, <1>6
    <3>2. /\ Cardinality(HashesOf(feeds', g)) = Cardinality(HashesOf(feeds, g)) + 1
          /\ \A e \in Feed : e # NoFeed /\ e # g => HashesOf(feeds', e) = HashesOf(feeds, e)
      BY <3>1, Reregistered
    <3>3. QED
      BY <1>2, <3>2, Zenon
  <2>4. QED
    BY <1>4, <2>2, <2>3, Zenon
<1>7. CASE f # NoFeed /\ f = g
  <2>1. i \in 1..Len(feedAddresses) /\ feedAddresses[i] = f /\ Positions(feedAddresses, f) # {}
    BY <1>7, FoundInList
  <2>2. feedAddresses' = [feedAddresses EXCEPT ![i] = g]
    BY <1>1, <1>7, <2>1 DEF Listed
  <2>3. feedAddresses' = feedAddresses /\ feeds' = feeds
    BY <1>1, <1>2, <1>7, <2>1, <2>2
  <2>4. QED
    BY <1>2, <1>4, <2>3
<1>8. CASE f # NoFeed /\ f # g
  <2>1. /\ f \in Feed /\ i \in 1..Len(feedAddresses) /\ feedAddresses[i] = f
        /\ Positions(feedAddresses, f) # {}
    BY <1>8, FoundInList
  <2>2. feedAddresses' = [feedAddresses EXCEPT ![i] = g]
    BY <1>1, <1>8, <2>1 DEF Listed
  <2> HIDE DEF f, i
  <2>3. /\ feedAddresses' \in Seq(Feed) /\ Len(feedAddresses') = Len(feedAddresses)
        /\ feedAddresses'[i] = g
        /\ \A k \in 1..Len(feedAddresses) : k # i => feedAddresses'[k] = feedAddresses[k]
    BY <1>2, <2>1, <2>2
  <2>4. /\ Cardinality(Positions(feedAddresses, f)) = Cardinality(Positions(feedAddresses', f)) + 1
        /\ Cardinality(Positions(feedAddresses', g)) = Cardinality(Positions(feedAddresses, g)) + 1
        /\ \A e \in Feed : e # f /\ e # g => Positions(feedAddresses', e) = Positions(feedAddresses, e)
    BY <1>2, <1>8, <2>1, <2>3, ReplacedInList
  <2>5. /\ Cardinality(HashesOf(feeds, f)) = Cardinality(HashesOf(feeds', f)) + 1
        /\ Cardinality(HashesOf(feeds', g)) = Cardinality(HashesOf(feeds, g)) + 1
        /\ \A e \in Feed : e # f /\ e # g => HashesOf(feeds', e) = HashesOf(feeds, e)
    <3>1. /\ feeds[h] = f /\ f # g
          /\ feeds'[h] = g /\ \A k \in Hash \ {h} : feeds'[k] = feeds[k]
      BY <1>1, <1>2, <1>8 DEF f
    <3>2. QED
      BY <3>1, Reregistered
  <2>6. Cardinality(Positions(feedAddresses', f)) \in Nat /\ Cardinality(HashesOf(feeds', f)) \in Nat
    BY <2>3, PositionsFinite, HashesFinite, FS_CardinalityType
  <2>7. Cardinality(Positions(feedAddresses', f)) = Cardinality(HashesOf(feeds', f))
    BY <1>4, <2>1, <2>4, <2>5, <2>6
  <2>8. QED
    BY <1>4, <2>3, <2>4, <2>5, <2>7, Zenon
<1>9. QED
  BY <1>6, <1>7, <1>8

-----------------------------------------------------------------------------
(* The invariant.                                                          *)

\* The oracles' invariant, the types, and what AnswersAreApproved needs: answers in order
\* stay so because none is later than the last submission for its feed's name.
ProxyInv ==
    /\ IInv /\ ProxyTypeOK
    /\ Ordered(rounds) /\ Bounded(rounds, lastSubmissionTimes)
    /\ AcceptedWithQuorum
    /\ FeedsListed

\* A new proxy has no feeds and no answers.
LEMMA InitProxyInv == Init => ProxyInv
<1> SUFFICES ASSUME Init PROVE ProxyInv
  OBVIOUS
<1>1. IInv
  BY InitIInv DEF Init
<1>2. ProxyTypeOK
  BY <1>1, OwnerAssumption DEF IInv, Init, ProxyTypeOK
<1>3. Ordered(rounds) /\ Bounded(rounds, lastSubmissionTimes)
  BY DEF Init, Ordered, Bounded
<1>4. AcceptedWithQuorum
  BY DEF Init, AcceptedWithQuorum
<1>5. FeedsListed
  <2> SUFFICES ASSUME NEW f \in Feed
               PROVE  Cardinality(Positions(feedAddresses, f)) = Cardinality({h \in Hash : feeds[h] = f})
    BY DEF FeedsListed
  <2>1. Positions(feedAddresses, f) = {}
    BY DEF Init, Positions
  <2>2. {h \in Hash : feeds[h] = f} = {}
    BY FeedAssumption DEF Init
  <2>3. QED
    BY <2>1, <2>2
<1>6. QED
  BY <1>1, <1>2, <1>3, <1>4, <1>5 DEF ProxyInv

\* A step that changes neither the feeds nor the answers keeps the invariant.
LEMMA QuietProxy ==
    ASSUME ProxyInv, IInv', ProxyTypeOK', UNCHANGED dataVars, FeedsListed'
    PROVE  ProxyInv'
<1>1. rounds' = rounds /\ lastSubmissionTimes' = lastSubmissionTimes /\ accepted' = accepted
  BY DEF dataVars
<1>2. Ordered(rounds)' /\ Bounded(rounds, lastSubmissionTimes)'
  BY <1>1 DEF ProxyInv, Ordered, Bounded
<1>3. AcceptedWithQuorum'
  BY <1>1 DEF ProxyInv, AcceptedWithQuorum
<1>4. QED
  BY <1>2, <1>3 DEF ProxyInv

\* The oracles' invariant does not read the rest of the contract.
LEMMA OraclesStay ==
    ASSUME IInv, UNCHANGED oracleVars
    PROVE  IInv' /\ OraclesTypeOK'
<1>1. IInv'
  BY NextIInv
<1>2. QED
  BY <1>1 DEF IInv

\* The list of feeds does not read the rest of the contract.
LEMMA ListStays ==
    ASSUME FeedsListed, UNCHANGED <<feeds, feedAddresses>>
    PROVE  FeedsListed'
  BY DEF FeedsListed, Positions

\* Transactions about the oracles.
LEMMA OraclesKeep ==
    ASSUME ProxyInv, OraclesNext, UNCHANGED <<configVars, feedVars, dataVars>>
    PROVE  ProxyInv'
<1>1. IInv'
  BY NextIInv DEF ProxyInv
<1>2. FeedsListed'
  BY ListStays DEF ProxyInv, feedVars
<1>3. ProxyTypeOK'
  BY <1>1 DEF IInv, ProxyInv, ProxyTypeOK, configVars, feedVars, dataVars
<1>4. QED
  BY <1>1, <1>2, <1>3, QuietProxy

\* Transactions about the feeds.
LEMMA FeedsKeep ==
    ASSUME ProxyInv, NEW h \in Hash, NEW f \in Feed, removeFeed(h) \/ updateFeed(h, f)
    PROVE  ProxyInv'
<1>1. UNCHANGED <<oracleVars, configVars, submits, dataVars>>
  BY DEF removeFeed, updateFeed
<1>2. IInv' /\ OraclesTypeOK'
  BY <1>1, OraclesStay DEF ProxyInv
<1>3. /\ feeds' \in [Hash -> Feed \cup {NoFeed}] /\ feedAddresses' \in Seq(Feed)
      /\ FeedsListed'
  BY RemoveListed, UpdateListed DEF ProxyInv
<1>4. ProxyTypeOK'
  BY <1>1, <1>2, <1>3 DEF ProxyInv, ProxyTypeOK, configVars, dataVars
<1>5. QED
  BY <1>1, <1>2, <1>3, <1>4, QuietProxy

\* The owner's settings and the feeds' submitters.
LEMMA SettingsKeep ==
    ASSUME ProxyInv, UNCHANGED <<oracleVars, feeds, feedAddresses, dataVars>>,
           submits' \in SUBSET Feed,
           thresholds' \in [Hash -> Percents \cup {0}], defaultThreshold' \in Percents,
           maxSubmission' \in Limits, dataFreshness' \in Freshness
    PROVE  ProxyInv'
<1>1. IInv' /\ OraclesTypeOK'
  BY OraclesStay DEF ProxyInv
<1>2. FeedsListed'
  BY ListStays DEF ProxyInv
<1>3. ProxyTypeOK'
  BY <1>1 DEF ProxyInv, ProxyTypeOK, dataVars
<1>4. QED
  BY <1>1, <1>2, <1>3, QuietProxy

\* What is accepted has its quorum at that moment.
LEMMA EntryApproved ==
    ASSUME ProxyTypeOK, NEW x \in Submission, Verdict(x) = "accept"
    PROVE  Entry(x) \in Entries /\ Entry(x).active >= 1 /\ 100 * Entry(x).active >= Entry(x).needed
<1> DEFINE c == Cardinality({a \in Signers(x.signers) : isWhitelisted(a)})
           t == Threshold(x.hash)
<1>1. x.hash \in Hash /\ x.ts \in Nat /\ x.signers \in Seq(Address)
  BY SubmissionFields
<1>2. t \in Nat
  BY <1>1, ThresholdIsNat
<1>3. OraclesTypeOK /\ validateProof(x.signers, t) = "accept"
  BY DEF ProxyTypeOK, Verdict
<1>4. c \in Nat /\ c >= 1 /\ 100 * c >= t * Len(oracles)
  BY <1>1, <1>2, <1>3, AcceptedHasQuorum, Zenon
<1>6. t * Len(oracles) \in Nat
  BY <1>2, <1>3 DEF OraclesTypeOK
<1>7. Entry(x) = [hash |-> x.hash, ts |-> x.ts, active |-> c, needed |-> t * Len(oracles)]
  BY Zenon DEF Entry
<1> HIDE DEF c, t
<1>8. QED
  BY <1>1, <1>4, <1>6, <1>7 DEF Entries

\* A batch keeps the invariant, whichever function submits it and however long it is.
LEMMA BatchKeeps ==
    ASSUME ProxyInv, NEW function \in Functions, NEW batch \in Batches, SubmitBatch(function, batch)
    PROVE  ProxyInv'
<1> DEFINE run == RunBatch(function, batch)
           new == [i \in DOMAIN run.stored |-> Entry(run.stored[i])]
<1>0. ProxyTypeOK /\ batch \in Seq(Submission)
  BY BatchesTyped DEF ProxyInv
<1>1. /\ lastSubmissionTimes' = run.last /\ rounds' = run.rounds
      /\ accepted' = accepted \o new
      /\ UNCHANGED <<oracleVars, configVars, feedVars>>
  BY DEF SubmitBatch
<1>2. InTime(run)
  BY <1>0, BatchInTime DEF ProxyInv
<1> HIDE DEF run
<1>3. /\ run.last \in [Hash -> Nat] /\ run.rounds \in [Feed -> Seq(Nat)]
      /\ run.stored \in Seq(Submission)
      /\ Ordered(run.rounds) /\ Bounded(run.rounds, run.last)
      /\ \A i \in DOMAIN run.stored : Verdict(run.stored[i]) = "accept"
  BY <1>2 DEF InTime, Running
<1>4. \A i \in DOMAIN run.stored :
          /\ Entry(run.stored[i]) \in Entries /\ Entry(run.stored[i]).active >= 1
          /\ 100 * Entry(run.stored[i]).active >= Entry(run.stored[i]).needed
  <2> SUFFICES ASSUME NEW i \in DOMAIN run.stored
               PROVE  /\ Entry(run.stored[i]) \in Entries /\ Entry(run.stored[i]).active >= 1
                      /\ 100 * Entry(run.stored[i]).active >= Entry(run.stored[i]).needed
    OBVIOUS
  <2>1. run.stored[i] \in Submission
    BY <1>3
  <2>2. QED
    BY <1>0, <1>3, <2>1, EntryApproved, Zenon
<1>5. new \in Seq(Entries) /\ DOMAIN new = DOMAIN run.stored
      /\ \A i \in DOMAIN new : new[i].active >= 1 /\ 100 * new[i].active >= new[i].needed
  BY <1>3, <1>4
<1> HIDE DEF new
<1>6. accepted \in Seq(Entries)
      /\ \A i \in DOMAIN accepted : accepted[i].active >= 1 /\ 100 * accepted[i].active >= accepted[i].needed
  BY DEF ProxyInv, ProxyTypeOK, AcceptedWithQuorum
<1>7. accepted' \in Seq(Entries) /\ AcceptedWithQuorum'
  <2>1. accepted' \in Seq(Entries) /\ Len(accepted') = Len(accepted) + Len(new)
    BY <1>1, <1>5, <1>6
  <2>2. ASSUME NEW i \in DOMAIN accepted'
        PROVE  accepted'[i].active >= 1 /\ 100 * accepted'[i].active >= accepted'[i].needed
    <3>1. CASE i \in 1..Len(accepted)
      <4>1. accepted'[i] = accepted[i] /\ i \in DOMAIN accepted
        BY <1>1, <1>5, <1>6, <3>1
      <4>2. QED
        BY <1>6, <4>1
    <3>2. CASE i \notin 1..Len(accepted)
      <4>1. accepted'[i] = new[i - Len(accepted)] /\ i - Len(accepted) \in DOMAIN new
        BY <1>1, <1>5, <1>6, <2>1, <3>2
      <4>2. QED
        BY <1>5, <4>1
    <3>3. QED
      BY <3>1, <3>2
  <2>3. QED
    BY <2>1, <2>2 DEF AcceptedWithQuorum
<1>8. IInv' /\ OraclesTypeOK'
  BY <1>1, OraclesStay DEF ProxyInv
<1>9. FeedsListed'
  BY <1>1, ListStays DEF ProxyInv, feedVars
<1>10. ProxyTypeOK'
  BY <1>0, <1>1, <1>3, <1>7, <1>8 DEF ProxyTypeOK, configVars, feedVars
<1>11. Ordered(rounds)' /\ Bounded(rounds, lastSubmissionTimes)'
  BY <1>1, <1>3 DEF Ordered, Bounded
<1>12. QED
  BY <1>7, <1>8, <1>9, <1>10, <1>11 DEF ProxyInv

\* Every transaction keeps the invariant.
LEMMA NextProxyInv == ProxyInv /\ [Next]_vars => ProxyInv'
<1> SUFFICES ASSUME ProxyInv, [Next]_vars PROVE ProxyInv'
  OBVIOUS
<1>0. /\ submits \in SUBSET Feed /\ thresholds \in [Hash -> Percents \cup {0}]
      /\ defaultThreshold \in Percents /\ maxSubmission \in Limits /\ dataFreshness \in Freshness
  BY DEF ProxyInv, ProxyTypeOK
<1>1. CASE OraclesNext /\ UNCHANGED <<configVars, feedVars, dataVars>>
  BY <1>1, OraclesKeep
<1>2. ASSUME NEW h \in Hash, removeFeed(h) PROVE ProxyInv'
  <2>1. feeds[h] \in Feed
    BY <1>2 DEF removeFeed, ProxyInv, ProxyTypeOK
  <2>2. QED
    BY <1>2, <2>1, FeedsKeep
<1>3. ASSUME NEW h \in Hash, NEW f \in Feed, updateFeed(h, f) PROVE ProxyInv'
  BY <1>3, FeedsKeep
<1>4. ASSUME NEW f \in Feed, updateSubmitter(f) PROVE ProxyInv'
  <2>1. /\ UNCHANGED <<oracleVars, feeds, feedAddresses, dataVars>>
        /\ submits' \in SUBSET Feed /\ UNCHANGED configVars
    BY <1>0, <1>4 DEF updateSubmitter
  <2>2. QED
    BY <1>0, <2>1, SettingsKeep DEF configVars
<1>5. ASSUME NEW n \in Limits, setMaxSubmission(n) PROVE ProxyInv'
  BY <1>0, <1>5, SettingsKeep DEF setMaxSubmission, feedVars
<1>6. ASSUME NEW n \in Freshness, setDataFreshness(n) PROVE ProxyInv'
  BY <1>0, <1>6, SettingsKeep DEF setDataFreshness, feedVars
<1>7. ASSUME NEW p \in Percents, setDefaultProofThreshold(p) PROVE ProxyInv'
  BY <1>0, <1>7, SettingsKeep DEF setDefaultProofThreshold, feedVars
<1>8. ASSUME NEW p \in Percents, NEW h \in Hash, setProofThreshold(h, p) PROVE ProxyInv'
  <2>1. thresholds' \in [Hash -> Percents \cup {0}]
    BY <1>0, <1>8 DEF setProofThreshold
  <2>2. QED
    BY <1>0, <1>8, <2>1, SettingsKeep DEF setProofThreshold, feedVars
<1>9. ASSUME NEW batch \in Batches, NEW function \in Functions, SubmitBatch(function, batch)
      PROVE  ProxyInv'
  BY <1>9, BatchKeeps
<1>10. CASE UNCHANGED vars
  <2>1. UNCHANGED <<oracleVars, feeds, feedAddresses, dataVars>> /\ UNCHANGED <<submits, configVars>>
    BY <1>10 DEF vars, feedVars
  <2>2. QED
    BY <1>0, <2>1, SettingsKeep DEF configVars
<1>11. QED
  BY <1>1, <1>2, <1>3, <1>4, <1>5, <1>6, <1>7, <1>8, <1>9, <1>10 DEF Next

-----------------------------------------------------------------------------
(* Results.                                                                *)

\* Every feed gets its answers in the order of the times they were signed with, each
\* with a quorum of the oracles of that moment; submitStrict takes a batch whole and as
\* the other functions would; and getFeeds lists the registered feeds.
THEOREM AnswersApproved == Spec => []AnswersAreApproved
<1>1. ProxyInv => AnswersAreApproved
  <2> SUFFICES ASSUME ProxyInv PROVE AnswersAreApproved
    OBVIOUS
  <2>1. AnswersInOrder
    BY DEF ProxyInv, Ordered, AnswersInOrder
  <2>2. ASSUME NEW batch \in Batches, RunBatch("submitStrict", batch).ok,
               NEW function \in Functions
        PROVE  /\ RunBatch("submitStrict", batch).stored = batch
               /\ RunBatch(function, batch) = RunBatch("submitStrict", batch)
    <3>1. batch \in Seq(Submission)
      BY BatchesTyped
    <3>2. QED
      BY <2>2, <3>1, StrictTaken DEF ProxyInv
  <2>3. "submitStrict" \in Functions
    BY DEF Functions
  <2>4. StrictIsStrongest
    BY <2>2, <2>3, Zenon DEF StrictIsStrongest
  <2>5. QED
    BY <2>1, <2>4 DEF ProxyInv, AnswersAreApproved
<1>2. QED
  BY <1>1, InitProxyInv, NextProxyInv, PTL DEF Spec

=============================================================================
