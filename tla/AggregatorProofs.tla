-------------------------- MODULE AggregatorProofs --------------------------
(***************************************************************************)
(* Proofs about global aggregation, for any set of nodes, any local        *)
(* prices, subscriber counts and outcomes of signing and storing, any      *)
(* window and any number of rounds, elections and restarts.                *)
(*                                                                         *)
(* The inductive invariant has three parts beside the types.  Origins:     *)
(* what is in a message, a table or a timer was published by the node it   *)
(* names.  Locks: a round a node fixed, signed or submitted is locked in   *)
(* its table, or the node lost the round.  Starts: no round a process      *)
(* found in its database is after its own round.                           *)
(***************************************************************************)
EXTENDS AggregatorTypeProofs

\* The contexts of these proofs are large: more time than the default for each leaf.
USE SMTT(30), ZenonT(30)

\* Messages say what their senders published.
MessagesKnown ==
    \A m \in msgs :
        /\ m.type = "priceData" => ReportOf(m) \in reported
        /\ m.type = "priceFix" => FixOf(m) \in fixed
        /\ m.type = "proof" => SignatureOf(m) \in signed

\* Tables hold what was published, one proof of a sender and a round.
EntriesKnown ==
    \A n \in Node :
        /\ \A e \in agg[n].prices : ReportOf(e) \in reported
        /\ \A e \in agg[n].proofs : SignatureOf(e) \in signed
        /\ \A d, e \in agg[n].proofs : d.from = e.from /\ d.round = e.round => d = e

\* A proof timeout runs for a proof the node collected.
TimersKnown ==
    \A t \in timers :
        t.type = "proof" =>
            \/ t.round \in forgotten[t.node]
            \/ \E e \in agg[t.node].proofs : e.round = t.round /\ e.price = t.price /\ e.ts = t.ts

\* Fixed prices are those of nodes that were elected, and all that is signed was fixed.
FixesKnown ==
    /\ \A f \in fixed : f.from \in led
    /\ \A x \in signed : \E f \in fixed : f.round = x.round /\ f.price = x.price /\ f.ts = x.ts

Origins == MessagesKnown /\ EntriesKnown /\ TimersKnown /\ FixesKnown

\* Published rounds are locked, as long as the node knows of them.
Locks ==
    /\ \A f \in fixed : f.round \in agg[f.from].pricesLocked \cup forgotten[f.from]
    /\ \A x \in signed : x.round \in agg[x.node].fixes \cup forgotten[x.node]
    /\ \A d \in submitted : d.round \in agg[d.node].proofsLocked \cup forgotten[d.node]

\* A node fixes at most one price of a round it knows of.
FixOncePerRound ==
    \A f, g \in fixed :
        f.from = g.from /\ f.round = g.round /\ f.round \notin forgotten[f.from] => f = g

\* A process is past the rounds it found.
FoundPassed == \A n \in Node : \A r \in found[n] : r <= agg[n].roundID

-----------------------------------------------------------------------------
(* The invariant.                                                          *)

Published == SignOncePerRound /\ FixOncePerRound /\ FixWithinReports /\ ProofsOfSubmission

IInv == TypeOK /\ Origins /\ Locks /\ Published

\* Of a step that keeps what is known and in which nobody gets a price or a proof.
LEMMA TimersStay ==
    ASSUME IInv, KeepsKnown, timers' \subseteq timers
    PROVE  TimersKnown'
  BY DEF IInv, TypeOK, Origins, TimersKnown, KeepsKnown, Keeps, Timer

\* What was published once is still published once if nothing is added.
LEMMA PublishedStay ==
    ASSUME IInv, KeepsKnown, TypeOK'
    PROVE  /\ fixed' = fixed => FixOncePerRound'
           /\ signed' = signed => OncePerRound(signed)'
           /\ submitted' = submitted => OncePerRound(submitted)'
           /\ fixed' = fixed /\ reported \subseteq reported' => FixWithinReports'
           /\ submitted' = submitted /\ signed \subseteq signed' => ProofsOfSubmission'
<1>1. fixed' = fixed => FixOncePerRound'
  BY DEF IInv, Published, FixOncePerRound, KeepsKnown, TypeOK, HistoryOK, Fix
<1>2. signed' = signed => OncePerRound(signed)'
  BY DEF IInv, Published, SignOncePerRound, OncePerRound, KeepsKnown, TypeOK, HistoryOK, Signature
<1>3. submitted' = submitted => OncePerRound(submitted)'
  BY DEF IInv, Published, SignOncePerRound, OncePerRound, KeepsKnown, TypeOK, HistoryOK, Submission
<1>4. fixed' = fixed /\ reported \subseteq reported' => FixWithinReports'
  BY DEF IInv, Published, FixWithinReports
<1>5. ASSUME submitted' = submitted, signed \subseteq signed' PROVE ProofsOfSubmission'
  BY <1>5 DEF IInv, Published, ProofsOfSubmission, KeepsKnown, TypeOK, HistoryOK, Submission
<1>6. QED
  BY <1>1, <1>2, <1>3, <1>4, <1>5

\* Published rounds stay locked.
LEMMA LocksStay ==
    ASSUME IInv, KeepsKnown, TypeOK'
    PROVE  /\ \A f \in fixed : f.round \in agg'[f.from].pricesLocked \cup forgotten'[f.from]
           /\ \A x \in signed : x.round \in agg'[x.node].fixes \cup forgotten'[x.node]
           /\ \A d \in submitted : d.round \in agg'[d.node].proofsLocked \cup forgotten'[d.node]
  BY DEF IInv, Locks, KeepsKnown, Keeps, TypeOK, HistoryOK, Fix, Signature, Submission

\* A step that publishes nothing but triggers and reports.
LEMMA QuietStep ==
    ASSUME IInv, TypeOK', KeepsKnown, AddsNothing,
           fixed' = fixed, signed' = signed, submitted' = submitted,
           reported \subseteq reported', led \subseteq led', timers' \subseteq timers,
           \A m \in msgs' \ msgs :
              m.type = "trigger" \/ (m.type = "priceData" /\ ReportOf(m) \in reported')
    PROVE  IInv'
<1>1. MessagesKnown'
  BY DEF IInv, Origins, MessagesKnown
<1>2. EntriesKnown'
  BY DEF IInv, Origins, EntriesKnown, AddsNothing
<1>3. TimersKnown'
  BY TimersStay
<1>4. FixesKnown'
  BY DEF IInv, Origins, FixesKnown
<1>5. Locks'
  BY LocksStay DEF Locks
<1>6. Published'
  BY PublishedStay DEF Published, SignOncePerRound
<1>7. QED
  BY <1>1, <1>2, <1>3, <1>4, <1>5, <1>6 DEF IInv, Origins

\* A step that may fix a price.
LEMMA PriceStepKept ==
    ASSUME IInv, TypeOK', KeepsKnown, NEW n \in Node, NEW E, PriceStep(n, E),
           \A e \in E : ReportOf(e) \in reported,
           signed' = signed, submitted' = submitted, reported' = reported, led' = led
    PROVE  IInv'
<1>0. \A f \in fixed' \ fixed :
         /\ n \in leading /\ f.from = n /\ f.round \in agg'[n].pricesLocked \ agg[n].pricesLocked
         /\ \E lo, hi \in agg'[n].prices :
               /\ lo.round = f.round /\ hi.round = f.round
               /\ 0 <= lo.price /\ lo.price <= f.price /\ f.price <= hi.price
  BY DEF PriceStep, FixedBy
<1>1. MessagesKnown'
  BY DEF IInv, Origins, MessagesKnown, PriceStep
<1>2. EntriesKnown'
  BY DEF IInv, Origins, EntriesKnown, PriceStep
<1>3. TimersKnown'
  <2> SUFFICES ASSUME NEW t \in timers', t.type = "proof"
               PROVE  \/ t.round \in forgotten'[t.node]
                      \/ \E e \in agg'[t.node].proofs :
                            e.round = t.round /\ e.price = t.price /\ e.ts = t.ts
    BY DEF TimersKnown
  <2>1. t \in timers /\ t.node \in Node
    BY DEF PriceStep, IInv, TypeOK, Timer
  <2>2. QED
    BY <2>1 DEF IInv, Origins, TimersKnown, KeepsKnown, Keeps
<1>4. FixesKnown'
  <2>1. \A f \in fixed' : f.from \in led'
    BY <1>0 DEF IInv, Origins, FixesKnown, TypeOK, LeadersOK
  <2>2. fixed \subseteq fixed'
    BY DEF PriceStep
  <2>3. QED
    BY <2>1, <2>2 DEF IInv, Origins, FixesKnown
<1>5. Locks'
  BY <1>0, LocksStay DEF Locks
<1>6. FixOncePerRound'
  <2> SUFFICES ASSUME NEW f \in fixed', NEW g \in fixed', f.from = g.from, f.round = g.round,
                      f.round \notin forgotten'[f.from]
               PROVE  f = g
    BY DEF FixOncePerRound
  <2>0. f.from \in Node /\ g.from \in Node
    BY DEF TypeOK, HistoryOK, Fix
  <2>1. f.round \notin forgotten[f.from]
    BY <2>0 DEF KeepsKnown
  <2>2. CASE f \in fixed /\ g \in fixed
    BY <2>1, <2>2 DEF IInv, Published, FixOncePerRound
  <2>3. CASE f \notin fixed /\ g \notin fixed
    BY <2>3 DEF PriceStep
  <2>4. CASE f \in fixed /\ g \notin fixed
    BY <1>0, <2>1, <2>4 DEF IInv, Locks
  <2>5. CASE f \notin fixed /\ g \in fixed
    BY <1>0, <2>1, <2>5 DEF IInv, Locks
  <2>6. QED
    BY <2>2, <2>3, <2>4, <2>5
<1>7. FixWithinReports'
  <2> SUFFICES ASSUME NEW f \in fixed'
               PROVE  \E lo, hi \in reported' :
                         /\ lo.round = f.round /\ hi.round = f.round
                         /\ 0 <= lo.price /\ lo.price <= f.price /\ f.price <= hi.price
    BY DEF FixWithinReports
  <2>1. CASE f \in fixed
    BY <2>1 DEF IInv, Published, FixWithinReports
  <2>2. CASE f \notin fixed
    <3>1. PICK lo \in agg'[n].prices, hi \in agg'[n].prices :
               /\ lo.round = f.round /\ hi.round = f.round
               /\ 0 <= lo.price /\ lo.price <= f.price /\ f.price <= hi.price
      BY <1>0, <2>2
    <3>2. ReportOf(lo) \in reported' /\ ReportOf(hi) \in reported'
      BY <1>2 DEF EntriesKnown
    <3>3. /\ ReportOf(lo).round = lo.round /\ ReportOf(lo).price = lo.price
          /\ ReportOf(hi).round = hi.round /\ ReportOf(hi).price = hi.price
      BY DEF ReportOf
    <3>4. QED
      BY <3>1, <3>2, <3>3
  <2>3. QED
    BY <2>1, <2>2
<1>8. SignOncePerRound' /\ ProofsOfSubmission'
  BY PublishedStay DEF SignOncePerRound
<1>9. QED
  BY <1>1, <1>2, <1>3, <1>4, <1>5, <1>6, <1>7, <1>8 DEF IInv, Origins, Published

\* A step that may sign the price of a fix message.
LEMMA SignStepKept ==
    ASSUME IInv, TypeOK', KeepsKnown, NEW m \in msgs, m.type = "priceFix", SignStep(m.to, m),
           fixed' = fixed, submitted' = submitted, reported' = reported, led' = led
    PROVE  IInv'
<1> DEFINE n == m.to
<1>0. /\ n \in Node
      /\ \A x \in signed' \ signed :
            /\ x = [node |-> n, round |-> m.round, price |-> m.price, ts |-> m.ts]
            /\ x.node = n /\ x.round \in agg'[n].fixes \ agg[n].fixes
  BY DEF SignStep, IInv, TypeOK, Message
<1>1. MessagesKnown'
  BY DEF IInv, Origins, MessagesKnown, SignStep
<1>2. EntriesKnown'
  BY DEF IInv, Origins, EntriesKnown, SignStep, AddsNothing
<1>3. TimersKnown'
  BY TimersStay DEF SignStep
<1>4. FixesKnown'
  <2>1. FixOf(m) \in fixed
    BY DEF IInv, Origins, MessagesKnown
  <2>2. FixOf(m).round = m.round /\ FixOf(m).price = m.price /\ FixOf(m).ts = m.ts
    BY DEF FixOf
  <2>3. ASSUME NEW x \in signed' \ signed
        PROVE  \E f \in fixed : f.round = x.round /\ f.price = x.price /\ f.ts = x.ts
    <3>1. x.round = m.round /\ x.price = m.price /\ x.ts = m.ts
      BY <1>0
    <3>2. QED
      BY <2>1, <2>2, <3>1
  <2>4. QED
    BY <2>3 DEF IInv, Origins, FixesKnown
<1>5. Locks'
  BY <1>0, LocksStay DEF Locks
<1>6. OncePerRound(signed)'
  <2> SUFFICES ASSUME NEW x \in signed', NEW y \in signed', x.node = y.node, x.round = y.round,
                      x.round \notin forgotten'[x.node]
               PROVE  x = y
    BY DEF OncePerRound
  <2>0. x.node \in Node
    BY DEF TypeOK, HistoryOK, Signature
  <2>1. x.round \notin forgotten[x.node]
    BY <2>0 DEF KeepsKnown
  <2>2. CASE x \in signed /\ y \in signed
    BY <2>1, <2>2 DEF IInv, Published, SignOncePerRound, OncePerRound
  <2>3. CASE x \notin signed /\ y \notin signed
    BY <1>0, <2>3
  <2>4. CASE x \in signed /\ y \notin signed
    BY <1>0, <2>1, <2>4 DEF IInv, Locks
  <2>5. CASE x \notin signed /\ y \in signed
    BY <1>0, <2>1, <2>5 DEF IInv, Locks
  <2>6. QED
    BY <2>2, <2>3, <2>4, <2>5
<1>7. FixOncePerRound' /\ FixWithinReports' /\ ProofsOfSubmission' /\ OncePerRound(submitted)'
  <2>1. signed \subseteq signed' /\ reported \subseteq reported'
    BY DEF SignStep
  <2>2. QED
    BY <2>1, PublishedStay
<1>8. QED
  BY <1>1, <1>2, <1>3, <1>4, <1>5, <1>6, <1>7 DEF IInv, Origins, Published, SignOncePerRound

\* A step that may publish an aggregate, once its tables and timers are known to be right.
LEMMA ProofStepKept ==
    ASSUME IInv, TypeOK', KeepsKnown, EntriesKnown', TimersKnown',
           NEW n \in Node, NEW E, NEW round, NEW price, NEW ts,
           ProofStep(n, E, round, price, ts),
           \/ round \in forgotten'[n]
           \/ \E e \in agg'[n].proofs : e.round = round /\ e.price = price /\ e.ts = ts,
           fixed' = fixed, signed' = signed, reported' = reported, led' = led
    PROVE  IInv'
<1>0. \A d \in submitted' \ submitted :
         /\ d.node = n /\ d.round = round /\ d.price = price /\ d.ts = ts
         /\ d.proofs = OfRound(agg'[n].proofs, round)
         /\ round \in agg'[n].proofsLocked \ agg[n].proofsLocked
  BY DEF ProofStep, SubmittedBy
<1>1. MessagesKnown'
  BY DEF IInv, Origins, MessagesKnown, ProofStep
<1>2. FixesKnown'
  BY DEF IInv, Origins, FixesKnown
<1>3. Locks'
  BY <1>0, LocksStay DEF Locks
<1>4. OncePerRound(submitted)'
  <2> SUFFICES ASSUME NEW x \in submitted', NEW y \in submitted', x.node = y.node,
                      x.round = y.round, x.round \notin forgotten'[x.node]
               PROVE  x = y
    BY DEF OncePerRound
  <2>0. x.node \in Node
    BY DEF TypeOK, HistoryOK, Submission
  <2>1. x.round \notin forgotten[x.node]
    BY <2>0 DEF KeepsKnown
  <2>2. CASE x \in submitted /\ y \in submitted
    BY <2>1, <2>2 DEF IInv, Published, SignOncePerRound, OncePerRound
  <2>3. CASE x \notin submitted /\ y \notin submitted
    BY <2>3 DEF ProofStep
  <2>4. CASE x \in submitted /\ y \notin submitted
    BY <1>0, <2>1, <2>4 DEF IInv, Locks
  <2>5. CASE x \notin submitted /\ y \in submitted
    BY <1>0, <2>1, <2>5 DEF IInv, Locks
  <2>6. QED
    BY <2>2, <2>3, <2>4, <2>5
<1>5. ProofsOfSubmission'
  <2> SUFFICES ASSUME NEW d \in submitted'
               PROVE  /\ \A p \in d.proofs : \E x \in signed' :
                            /\ x.node = p.from /\ x.round = d.round
                            /\ x.price = p.price /\ x.ts = p.ts
                      /\ \A p, q \in d.proofs : p.from = q.from => p = q
                      /\ \/ d.round \in forgotten'[d.node]
                         \/ \E p \in d.proofs : p.price = d.price /\ p.ts = d.ts
    BY DEF ProofsOfSubmission
  <2>0. d.node \in Node
    BY DEF TypeOK, HistoryOK, Submission
  <2>1. CASE d \in submitted
    BY <2>0, <2>1 DEF IInv, Published, ProofsOfSubmission, KeepsKnown
  <2>2. CASE d \notin submitted
    <3>1. d.node = n /\ d.round = round /\ d.price = price /\ d.ts = ts
      BY <1>0, <2>2
    <3>2. \A p : p \in d.proofs <=> p \in agg'[n].proofs /\ p.round = round
      BY <1>0, <2>2 DEF OfRound
    <3>3. ASSUME NEW p \in d.proofs
          PROVE  \E x \in signed' :
                    x.node = p.from /\ x.round = d.round /\ x.price = p.price /\ x.ts = p.ts
      <4>1. p \in agg'[n].proofs /\ p.round = d.round
        BY <3>1, <3>2
      <4>2. SignatureOf(p) \in signed'
        BY <4>1 DEF EntriesKnown
      <4>3. /\ SignatureOf(p).node = p.from /\ SignatureOf(p).round = p.round
            /\ SignatureOf(p).price = p.price /\ SignatureOf(p).ts = p.ts
        BY DEF SignatureOf
      <4>4. QED
        BY <4>1, <4>2, <4>3
    <3>4. \A p, q \in d.proofs : p.from = q.from => p = q
      BY <3>2 DEF EntriesKnown
    <3>5. \/ d.round \in forgotten'[d.node]
          \/ \E p \in d.proofs : p.price = d.price /\ p.ts = d.ts
      BY <3>1, <3>2
    <3>6. QED
      BY <3>3, <3>4, <3>5
  <2>3. QED
    BY <2>1, <2>2
<1>6. OncePerRound(signed)' /\ FixOncePerRound' /\ FixWithinReports'
  BY PublishedStay
<1>7. QED
  BY <1>1, <1>2, <1>3, <1>4, <1>5, <1>6 DEF IInv, Origins, Published, SignOncePerRound

\* The invariant holds of the state every node starts in.
LEMMA InitIInv == Init => IInv /\ FoundPassed
<1> SUFFICES ASSUME Init PROVE IInv /\ FoundPassed
  OBVIOUS
<1>1. TypeOK
  BY InitType
<1>2. \A n \in Node : agg[n].prices = {} /\ agg[n].proofs = {}
  BY DEF Init, NewAggregator
<1>3. Origins
  BY <1>2 DEF Init, Origins, MessagesKnown, EntriesKnown, TimersKnown, FixesKnown
<1>4. Locks /\ Published /\ FoundPassed
  BY DEF Init, Locks, Published, SignOncePerRound, OncePerRound, FixOncePerRound,
     FixWithinReports, ProofsOfSubmission, FoundPassed
<1>5. QED
  BY <1>1, <1>3, <1>4 DEF IInv

\* Handlers of messages.
LEMMA MessageStep ==
    ASSUME IInv, NEW m \in msgs, HandleCustomMessage(m)
    PROVE  IInv' /\ RoundsGrow /\ found' = found
<1>0. TypeOK /\ m \in Message /\ m.to \in Node
  BY DEF IInv, TypeOK, Message
<1>1. CASE RefuseTrigger(m)
  <2>1. TypeOK' /\ KeepsKnown /\ RoundsGrow /\ AddsNothing
    BY <1>0, <1>1, RefuseTriggerType
  <2>2. /\ msgs' = msgs \ {m}
        /\ UNCHANGED <<leaderVars, timers, process, history>>
    BY <1>1 DEF RefuseTrigger
  <2>3. QED
    BY <2>1, <2>2, QuietStep DEF leaderVars, process, history
<1>2. ASSUME NEW value \in LocalValues, HandleTriggerMessage(m, value)
      PROVE  IInv' /\ RoundsGrow /\ found' = found
  <2>1. TypeOK' /\ KeepsKnown /\ RoundsGrow /\ AddsNothing
    BY <1>0, <1>2, HandleTriggerType
  <2>2. /\ msgs' = (msgs \ {m}) \cup Publish("priceData", m.to, m.round, value, m.ts)
        /\ reported' = reported \cup {[from |-> m.to, round |-> m.round, price |-> value]}
        /\ UNCHANGED <<leaderVars, timers, process, fixed, signed, submitted>>
    BY <1>2 DEF HandleTriggerMessage
  <2>3. "priceData" \in MessageType /\ value \in Int /\ m.round \in Round /\ m.ts \in Nat
    BY <1>0, ValueAssumption DEF MessageType, Message
  <2>4. \A x \in msgs' \ msgs : x.type = "priceData" /\ ReportOf(x) \in reported'
    BY <1>0, <2>2, <2>3, PublishedMessages DEF ReportOf
  <2>5. QED
    BY <2>1, <2>2, <2>4, QuietStep DEF leaderVars, process
<1>3. CASE IgnorePriceData(m) \/ IgnorePriceFix(m) \/ IgnoreProof(m)
  <2>1. TypeOK' /\ KeepsKnown /\ RoundsGrow /\ AddsNothing
    BY <1>0, <1>3, IgnoreType
  <2>2. /\ msgs' = msgs \ {m}
        /\ UNCHANGED <<leaderVars, timers, process, history>>
    BY <1>3 DEF IgnorePriceData, IgnorePriceFix, IgnoreProof
  <2>3. QED
    BY <2>1, <2>2, QuietStep DEF leaderVars, process, history
<1>4. ASSUME NEW peers \in PeerCounts, HandlePriceDataMessage(m, peers)
      PROVE  IInv' /\ RoundsGrow /\ found' = found
  <2> DEFINE e == [round |-> m.round, from |-> m.from, price |-> m.price]
  <2>1. TypeOK' /\ KeepsKnown /\ RoundsGrow /\ PriceStep(m.to, {e})
    BY <1>0, <1>4, HandlePriceDataType, Zenon
  <2>2. /\ m.type = "priceData"
        /\ UNCHANGED <<leaderVars, process, reported, signed, submitted>>
    BY <1>4 DEF HandlePriceDataMessage
  <2>3. ReportOf(e) = ReportOf(m)
    BY DEF ReportOf
  <2>4. \A d \in {e} : ReportOf(d) \in reported
    BY <2>2, <2>3 DEF IInv, Origins, MessagesKnown
  <2> HIDE DEF e
  <2>5. QED
    BY <1>0, <2>1, <2>2, <2>4, PriceStepKept DEF leaderVars, process
<1>5. ASSUME NEW signs \in Signs, HandlePriceFixMessage(m, signs)
      PROVE  IInv' /\ RoundsGrow /\ found' = found
  <2>1. TypeOK' /\ KeepsKnown /\ RoundsGrow /\ SignStep(m.to, m)
    BY <1>0, <1>5, HandlePriceFixType
  <2>2. /\ m.type = "priceFix"
        /\ UNCHANGED <<leaderVars, process, reported, fixed, submitted>>
    BY <1>5 DEF HandlePriceFixMessage
  <2>3. QED
    BY <2>1, <2>2, SignStepKept DEF leaderVars, process
<1>6. ASSUME NEW peers \in PeerCounts, HandleProofMessage(m, peers)
      PROVE  IInv' /\ RoundsGrow /\ found' = found
  <2> DEFINE n == m.to
             e == [round |-> m.round, from |-> m.from, price |-> m.price, ts |-> m.ts]
  <2>1. /\ TypeOK' /\ KeepsKnown /\ RoundsGrow /\ ProofStep(n, {e}, m.round, m.price, m.ts)
        /\ agg'[n].proofs = agg[n].proofs \cup {e}
        /\ \A p \in Node : p # n => agg'[p].proofs = agg[p].proofs
        /\ \A t \in timers' \ timers :
              t.node = n /\ t.round = m.round /\ t.price = m.price /\ t.ts = m.ts
    BY <1>0, <1>6, HandleProofType, Zenon
  <2>2. /\ m.type = "proof" /\ ~isReplay(agg[n].proofs, m.round, m.from)
        /\ UNCHANGED <<leaderVars, process, reported, fixed, signed>>
    BY <1>6 DEF HandleProofMessage
  <2>3. /\ e.from = m.from /\ e.round = m.round /\ e.price = m.price /\ e.ts = m.ts
        /\ SignatureOf(e) = SignatureOf(m)
    BY DEF SignatureOf
  <2>4. SignatureOf(e) \in signed
    BY <2>2, <2>3 DEF IInv, Origins, MessagesKnown
  <2>5. \A d \in agg[n].proofs : ~(d.round = e.round /\ d.from = e.from)
    BY <2>2, <2>3 DEF isReplay, OfRound
  <2> HIDE DEF e
  <2>6. EntriesKnown'
    <3> SUFFICES ASSUME NEW p \in Node
                 PROVE  /\ \A d \in agg'[p].prices : ReportOf(d) \in reported'
                        /\ \A d \in agg'[p].proofs : SignatureOf(d) \in signed'
                        /\ \A c, d \in agg'[p].proofs : c.from = d.from /\ c.round = d.round => c = d
      BY DEF EntriesKnown
    <3>1. \A d \in agg'[p].prices : ReportOf(d) \in reported'
      BY <2>1, <2>2 DEF ProofStep, IInv, Origins, EntriesKnown
    <3>2. CASE p = n
      BY <2>1, <2>2, <2>4, <2>5, <3>1, <3>2 DEF IInv, Origins, EntriesKnown
    <3>3. CASE p # n
      BY <2>1, <2>2, <3>1, <3>3 DEF IInv, Origins, EntriesKnown
    <3>4. QED
      BY <3>2, <3>3
  <2>7. TimersKnown'
    <3> SUFFICES ASSUME NEW t \in timers', t.type = "proof"
                 PROVE  \/ t.round \in forgotten'[t.node]
                        \/ \E d \in agg'[t.node].proofs :
                              d.round = t.round /\ d.price = t.price /\ d.ts = t.ts
      BY DEF TimersKnown
    <3>1. CASE t \in timers
      <4>1. t.node \in Node
        BY <1>0, <3>1 DEF TypeOK, Timer
      <4>2. QED
        BY <2>1, <3>1, <4>1 DEF IInv, Origins, TimersKnown, KeepsKnown, Keeps
    <3>2. CASE t \notin timers
      BY <2>1, <2>3, <3>2
    <3>3. QED
      BY <3>1, <3>2
  <2>8. \E d \in agg'[n].proofs : d.round = m.round /\ d.price = m.price /\ d.ts = m.ts
    BY <2>1, <2>3
  <2>9. n \in Node /\ led' = led
    BY <1>0, <2>2 DEF leaderVars
  <2> HIDE DEF n
  <2>10. IInv'
    BY <2>1, <2>2, <2>6, <2>7, <2>8, <2>9, ProofStepKept
  <2>11. QED
    BY <2>1, <2>2, <2>10 DEF process
<1>7. QED
  BY <1>1, <1>2, <1>3, <1>4, <1>5, <1>6 DEF HandleCustomMessage

\* Timeouts.
LEMMA TimeoutStep ==
    ASSUME IInv, NEW t \in timers, Timeout(t)
    PROVE  IInv' /\ RoundsGrow /\ found' = found
<1>0. TypeOK /\ t.node \in Node
  BY DEF IInv, TypeOK, Timer
<1>1. ASSUME NEW peers \in PeerCounts, PriceCollectionTimeout(t, peers)
      PROVE  IInv' /\ RoundsGrow /\ found' = found
  <2>1. TypeOK' /\ KeepsKnown /\ RoundsGrow /\ PriceStep(t.node, {})
    BY <1>0, <1>1, PriceTimeoutType
  <2>2. UNCHANGED <<leaderVars, process, reported, signed, submitted>>
    BY <1>1, Zenon DEF PriceCollectionTimeout
  <2>3. QED
    BY <1>0, <2>1, <2>2, PriceStepKept DEF leaderVars, process
<1>2. ASSUME NEW peers \in PeerCounts, ProofCollectionTimeout(t, peers)
      PROVE  IInv' /\ RoundsGrow /\ found' = found
  <2> DEFINE n == t.node
  <2>1. /\ TypeOK' /\ KeepsKnown /\ RoundsGrow /\ ProofStep(n, {}, t.round, t.price, t.ts)
        /\ \A p \in Node : agg'[p].proofs = agg[p].proofs
    BY <1>0, <1>2, ProofTimeoutType
  <2>2. /\ t.type = "proof" /\ timers' = timers \ {t}
        /\ UNCHANGED <<leaderVars, process, reported, fixed, signed>>
    BY <1>2 DEF ProofCollectionTimeout
  <2>3. EntriesKnown'
    BY <2>1, <2>2 DEF ProofStep, IInv, Origins, EntriesKnown
  <2>4. TimersKnown'
    BY <2>1, <2>2, TimersStay
  <2>5. \/ t.round \in forgotten'[n]
        \/ \E e \in agg'[n].proofs : e.round = t.round /\ e.price = t.price /\ e.ts = t.ts
    BY <1>0, <2>1, <2>2 DEF IInv, Origins, TimersKnown, KeepsKnown
  <2>6. n \in Node /\ led' = led
    BY <1>0, <2>2 DEF leaderVars
  <2> HIDE DEF n
  <2>7. IInv'
    BY <2>1, <2>2, <2>3, <2>4, <2>5, <2>6, ProofStepKept
  <2>8. QED
    BY <2>1, <2>2, <2>7 DEF process
<1>3. QED
  BY <1>1, <1>2 DEF Timeout

\* Every step keeps the invariant; only a restart takes a node's round back.
LEMMA NextIInv ==
    ASSUME IInv, [Next]_vars
    PROVE  IInv' /\ ((RoundsGrow /\ found' = found) \/ \E n \in Node : Restart(n))
<1>0. TypeOK
  BY DEF IInv
<1>1. ASSUME NEW m \in msgs, HandleCustomMessage(m) PROVE IInv' /\ RoundsGrow /\ found' = found
  BY <1>1, MessageStep
<1>2. ASSUME NEW t \in timers, Timeout(t) PROVE IInv' /\ RoundsGrow /\ found' = found
  BY <1>2, TimeoutStep
<1>3. ASSUME NEW n \in Node, LeaderJob(n) PROVE IInv' /\ RoundsGrow /\ found' = found
  <2>1. TypeOK' /\ KeepsKnown /\ RoundsGrow /\ AddsNothing
    BY <1>0, <1>3, LeaderJobType
  <2> DEFINE round == agg[n].roundID + 1
             ts == clock + 1
  <2>2. /\ msgs' = msgs \cup Publish("trigger", n, round, 0, ts)
        /\ UNCHANGED <<leaderVars, timers, process, reported, fixed, signed, submitted>>
    BY <1>3 DEF LeaderJob
  <2>3. round \in Round /\ ts \in Nat /\ "trigger" \in MessageType
    BY <1>0 DEF TypeOK, TablesOK, Tables, Round, MessageType
  <2> HIDE DEF round, ts
  <2>4. \A m \in msgs' \ msgs : m.type = "trigger"
    BY <2>2, <2>3, PublishedMessages
  <2>5. QED
    BY <2>1, <2>2, <2>4, QuietStep DEF leaderVars, process
<1>4. ASSUME NEW n \in Node, LeadershipChanges(n) PROVE IInv' /\ RoundsGrow /\ found' = found
  <2>1. TypeOK' /\ KeepsKnown /\ RoundsGrow /\ AddsNothing /\ led \subseteq led'
    BY <1>0, <1>4, LeadershipType
  <2>2. UNCHANGED <<msgs, timers, process, history>>
    BY <1>4 DEF LeadershipChanges
  <2>3. QED
    BY <2>1, <2>2, QuietStep DEF process, history
<1>5. ASSUME NEW n \in Node, NEW ok \in Stores, bulkInsert(n, ok)
      PROVE  IInv' /\ RoundsGrow /\ found' = found
  <2>1. TypeOK' /\ KeepsKnown /\ RoundsGrow /\ AddsNothing
    BY <1>0, <1>5, BulkInsertType
  <2>2. UNCHANGED <<leaderVars, msgs, timers, process, history>>
    BY <1>5 DEF bulkInsert
  <2>3. QED
    BY <2>1, <2>2, QuietStep DEF leaderVars, process, history
<1>6. ASSUME NEW n \in Node, Restart(n) PROVE IInv'
  <2>1. TypeOK' /\ KeepsKnown /\ AddsNothing /\ led' = led
    BY <1>0, <1>6, RestartType
  <2>2. msgs' \subseteq msgs /\ timers' \subseteq timers /\ UNCHANGED history
    BY <1>6 DEF Restart
  <2>3. QED
    BY <2>1, <2>2, QuietStep DEF history
<1>7. CASE UNCHANGED vars
  <2>1. TypeOK' /\ found' = found
    BY <1>0, <1>7 DEF vars, leaderVars, process, history, TypeOK, LeadersOK, TablesOK, HistoryOK, RoundsOK
  <2>2. KeepsKnown /\ RoundsGrow /\ AddsNothing
    BY <1>0, <1>7, SameTables DEF vars
  <2>3. UNCHANGED <<leaderVars, msgs, timers, history>>
    BY <1>7 DEF vars
  <2>4. QED
    BY <2>1, <2>2, <2>3, QuietStep, ZenonT(30) DEF leaderVars, history
<1>8. QED
  BY <1>1, <1>2, <1>3, <1>4, <1>5, <1>6, <1>7 DEF Next

\* A restarted process is past what it finds; no other step goes back.
LEMMA NextFound ==
    ASSUME IInv, FoundPassed, [Next]_vars
    PROVE  FoundPassed'
<1>0. TypeOK /\ TypeOK'
  BY NextIInv DEF IInv
<1>1. CASE RoundsGrow /\ found' = found
  <2> SUFFICES ASSUME NEW n \in Node, NEW r \in found'[n] PROVE r <= agg'[n].roundID
    BY DEF FoundPassed
  <2>1. r <= agg[n].roundID /\ agg[n].roundID <= agg'[n].roundID
    BY <1>1 DEF FoundPassed, RoundsGrow
  <2>2. r \in Nat /\ agg[n].roundID \in Nat /\ agg'[n].roundID \in Nat
    BY <1>0 DEF TypeOK, RoundsOK, TablesOK, Tables, Round
  <2>3. QED
    BY <2>1, <2>2
<1>2. ASSUME NEW n \in Node, Restart(n) PROVE FoundPassed'
  <2>1. /\ agg'[n].roundID = getLatestRoundId(saved[n])
        /\ \A p \in Node : p # n => agg'[p] = agg[p]
    BY <1>0, <1>2, RestartType, ZenonT(30)
  <2>2. /\ found'[n] = saved[n]
        /\ \A p \in Node : p # n => found'[p] = found[p]
    BY <1>0, <1>2, ZenonT(30) DEF Restart, TypeOK, RoundsOK
  <2>3. \A r \in saved[n] : r <= getLatestRoundId(saved[n])
    <3>1. saved[n] \in SUBSET Round /\ IsFiniteSet(saved[n])
      BY <1>0 DEF TypeOK, RoundsOK
    <3>2. /\ getLatestRoundId(saved[n]) \in Nat
          /\ \A r \in saved[n] : r < getLatestRoundId(saved[n]) /\ r \in Nat
      BY <3>1, LatestRound DEF Round
    <3>3. QED
      BY <3>2
  <2>4. QED
    BY <2>1, <2>2, <2>3 DEF FoundPassed
<1>3. QED
  BY <1>1, <1>2, NextIInv

-----------------------------------------------------------------------------
(* Results.                                                                *)

\* The types, and the invariant that the other theorems rest on, always hold.
THEOREM InvariantHolds == Spec => [](IInv /\ FoundPassed)
<1>1. IInv /\ FoundPassed /\ [Next]_vars => (IInv /\ FoundPassed)'
  BY NextIInv, NextFound
<1>2. QED
  BY InitIInv, <1>1, PTL DEF Spec

\* A node signs at most one price per round and publishes at most one submission of it,
\* as long as it knows of the round (roundPriceFixes.locked, roundProofs.locked).
THEOREM SignedOnce == Spec => []SignOncePerRound
<1>1. IInv /\ FoundPassed => SignOncePerRound
  BY DEF IInv, Published
<1>2. QED
  BY InvariantHolds, <1>1, PTL

\* A fixed price lies between two prices that nodes reported for the round, whatever
\* the number of nodes and the subscribers counted (FilterNegative, GetInt64Med).
THEOREM FixedWithinReports == Spec => []FixWithinReports
<1>1. IInv /\ FoundPassed => FixWithinReports
  BY DEF IInv, Published
<1>2. QED
  BY InvariantHolds, <1>1, PTL

\* The proofs of a published aggregate were made by their senders for that round, are of
\* different senders, and one is over the published price and time.
THEOREM SubmissionsProved == Spec => []ProofsOfSubmission
<1>1. IInv /\ FoundPassed => ProofsOfSubmission
  BY DEF IInv, Published
<1>2. QED
  BY InvariantHolds, <1>1, PTL

\* Under one leader ever, and without loss, a round has one price and one timestamp at
\* all nodes: all that is signed was fixed, by that leader and once.
LEMMA OnePrice == IInv => OneLeaderOnePrice
<1> SUFFICES ASSUME IInv, \A n \in Node : forgotten[n] = {}, Cardinality(led) <= 1,
                    NEW c \in submitted, NEW d \in submitted, c.round = d.round
             PROVE  /\ c.price = d.price /\ c.ts = d.ts
                    /\ \A p \in c.proofs : p.price = d.price /\ p.ts = d.ts
  BY ZenonT(30) DEF OneLeaderOnePrice
<1>1. \A m, n \in led : m = n
  <2>1. IsFiniteSet(led) /\ Cardinality(led) \in Nat
    BY FS_CardinalityType DEF IInv, TypeOK, LeadersOK
  <2>2. Cardinality(led) = 0 \/ Cardinality(led) = 1
    BY <2>1
  <2>3. led = {} \/ \E x : led = {x}
    BY <2>1, <2>2, FS_EmptySet, FS_Singleton
  <2>4. QED
    BY <2>3
<1>2. \A f, g \in fixed : f.round = g.round => f = g
  <2> SUFFICES ASSUME NEW f \in fixed, NEW g \in fixed, f.round = g.round PROVE f = g
    OBVIOUS
  <2>1. f.from = g.from /\ f.from \in Node
    BY <1>1 DEF IInv, Origins, FixesKnown, TypeOK, HistoryOK, Fix
  <2>2. QED
    BY <2>1 DEF IInv, Published, FixOncePerRound
<1>3. \A x, y \in signed : x.round = y.round => x.price = y.price /\ x.ts = y.ts
  BY <1>2 DEF IInv, Origins, FixesKnown
<1>4. \A s \in submitted : /\ s.node \in Node /\ s.round \notin forgotten[s.node]
                           /\ \E p \in s.proofs : p.price = s.price /\ p.ts = s.ts
  BY ZenonT(30) DEF IInv, Published, ProofsOfSubmission, TypeOK, HistoryOK, Submission
<1>5. \A s \in submitted : \A p \in s.proofs : \E x \in signed :
         x.round = s.round /\ x.price = p.price /\ x.ts = p.ts
  BY DEF IInv, Published, ProofsOfSubmission
<1>6. PICK p \in d.proofs : p.price = d.price /\ p.ts = d.ts
  BY <1>4
<1>7. PICK x \in signed : x.round = d.round /\ x.price = d.price /\ x.ts = d.ts
  BY <1>5, <1>6
<1>8. \A q \in c.proofs : q.price = d.price /\ q.ts = d.ts
  BY <1>3, <1>5, <1>7
<1>9. QED
  BY <1>4, <1>8, ZenonT(30)

\* As long as one node is the only one ever elected and no node lost anything of a round,
\* all aggregates and proofs of a round carry one price and one timestamp.
THEOREM OneLeaderAgrees == Spec => []OneLeaderOnePrice
<1>1. IInv /\ FoundPassed => OneLeaderOnePrice
  BY OnePrice
<1>2. QED
  BY InvariantHolds, <1>1, PTL

\* A node never triggers again a round that its database had when the process started
\* (getLatestRoundId).
THEOREM FoundNotRepeated == Spec => StoredRoundsNotRepeated
<1>1. IInv /\ FoundPassed /\ [Next]_vars
         => [\A n \in Node : LeaderJob(n) => agg[n].roundID + 1 \notin found[n]]_vars
  <2> SUFFICES ASSUME IInv, FoundPassed, NEW n \in Node
               PROVE  agg[n].roundID + 1 \notin found[n]
    OBVIOUS
  <2>1. agg[n].roundID \in Nat /\ \A r \in found[n] : r \in Nat /\ r <= agg[n].roundID
    BY DEF IInv, TypeOK, TablesOK, RoundsOK, Tables, Round, FoundPassed
  <2>2. QED
    BY <2>1
<1>2. QED
  BY InvariantHolds, <1>1, PTL DEF Spec, StoredRoundsNotRepeated

=============================================================================
