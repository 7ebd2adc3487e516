----------------------------- MODULE Aggregator -----------------------------
(***************************************************************************)
(* Global aggregation of one feed (node/pkg/aggregator).  A leader         *)
(* triggers rounds; every node answers a trigger with its latest local     *)
(* price; the leader fixes the median; every node signs the fixed price    *)
(* and, having collected the signatures of the round, publishes the        *)
(* aggregate with its proofs for the reporters.                            *)
(*                                                                         *)
(* Whom a node names as leader and where LeaderJob runs comes from the     *)
(* election, here as Leadership, which Raft implements.  A message is      *)
(* handled in a goroutine of its own: any order, and perhaps never.  A     *)
(* handler keeps the mutex of the one table it changes and is one action;  *)
(* the collection timeouts are separate goroutines and separate actions.   *)
(***************************************************************************)
EXTENDS Integers, FiniteSets

CONSTANTS
    Node,           \* host ids
    None,           \* the empty host id
    PeerCounts,     \* values SubscribersCount() may return
    LocalValues,    \* local aggregates a node may hold; -1 when it has none
    Signs,          \* outcomes of MakeGlobalAggregateProof: TRUE, or FALSE for an error
    Stores,         \* outcomes of storing a batch: TRUE, or FALSE for an error
    Window,         \* rounds kept by leaveOnlyLast10Entries: 10
    MaxTriggers,    \* bound on the rounds triggered by all nodes together
    MaxChanges,     \* bound on the steps of Leadership
    MaxRestarts     \* bound on the restarts of a node

ASSUME NoneAssumption == None \notin Node
ASSUME ValueAssumption ==
    /\ PeerCounts \subseteq Nat
    /\ LocalValues \subseteq Nat \cup {-1}
    /\ Signs \subseteq BOOLEAN /\ Stores \subseteq BOOLEAN
    /\ Window \in Nat \ {0}
    /\ MaxTriggers \in Nat /\ MaxChanges \in Nat /\ MaxRestarts \in Nat

VARIABLES
    leaderID, leading, driving, led,    \* Leadership
    agg,          \* the tables of each node's Aggregator
    msgs,         \* messages published and not handled yet, one per receiver
    timers,       \* collection timeouts that have not run out
    unsaved,      \* rounds each node published and the bulk writer has not stored
    saved,        \* rounds in each node's global_aggregates table
    clock,        \* the number of triggers so far; it stamps the next
    changes, restarts,                  \* history: what the bounds count
    triggered, reported, fixed, signed, submitted, \* history: what nodes published
    forgotten,    \* history: rounds of which a node has lost entries
    found         \* history: the stored rounds each process found when it started

leaderVars == <<leaderID, leading, driving, led, changes>>
process == <<restarts, found>>
history == <<triggered, reported, fixed, signed, submitted>>
vars == <<leaderVars, agg, msgs, timers, unsaved, saved, clock, process, history, forgotten>>

Lead == INSTANCE Leadership

Round == Nat
Price == [round : Round, from : Node, price : Int]
Proof == [round : Round, from : Node, price : Int, ts : Nat]

\* A set of rounds for each "locked" map, a set of entries for each pair of
\* "senders" and "prices" (or "proofs") maps.
Tables ==
    [roundID : Round, triggers : SUBSET Round,
     prices : SUBSET Price, pricesLocked : SUBSET Round, fixes : SUBSET Round,
     proofs : SUBSET Proof, proofsLocked : SUBSET Round]

MessageType == {"trigger", "priceData", "priceFix", "proof"}

\* price is 0 in a trigger, which has none.
Message == [type : MessageType, from : Node, to : Node, round : Round, price : Int, ts : Nat]

Timer == [type : {"priceData", "proof"}, node : Node, round : Round, price : Int, ts : Nat]

Publish(type, n, round, price, ts) ==
    {[type |-> type, from |-> n, to |-> p, round |-> round, price |-> price, ts |-> ts] :
        p \in Node}

NewAggregator(roundID) ==
    [roundID |-> roundID, triggers |-> {}, prices |-> {}, pricesLocked |-> {},
     fixes |-> {}, proofs |-> {}, proofsLocked |-> {}]

\* Mutant: the round of the database is ignored.
LatestRoundIgnored(rounds) == 1

\* Where a started aggregator continues: after the last round of its database.
getLatestRoundId(rounds) ==
    IF rounds = {} THEN 1
    ELSE 1 + CHOOSE r \in rounds : \A q \in rounds : q <= r

Init ==
    /\ Lead!Init
    /\ agg = [n \in Node |-> NewAggregator(getLatestRoundId({}))]
    /\ msgs = {} /\ timers = {}
    /\ unsaved = [n \in Node |-> {}] /\ saved = [n \in Node |-> {}]
    /\ clock = 0 /\ changes = 0 /\ restarts = [n \in Node |-> 0]
    /\ found = [n \in Node |-> {}]
    /\ triggered = {} /\ reported = {} /\ fixed = {} /\ signed = {} /\ submitted = {}
    /\ forgotten = [n \in Node |-> {}]

-----------------------------------------------------------------------------
(* Tables.                                                                 *)

OfRound(entries, round) == {e \in entries : e.round = round}

isReplay(entries, round, sender) == \E e \in OfRound(entries, round) : e.from = sender

\* The rounds a trigger leaves: also those after it are deleted.
Kept(round) == (round - Window + 1)..round

leaveOnlyLast10Entries(s, round) ==
    LET KeptOf(entries) == {e \in entries : e.round \in Kept(round)}
    IN  [s EXCEPT !.triggers = @ \cap Kept(round),
                  !.prices = KeptOf(@), !.pricesLocked = @ \cap Kept(round),
                  !.fixes = @ \cap Kept(round),
                  !.proofs = KeptOf(@), !.proofsLocked = @ \cap Kept(round)]

Rounds(s) ==
    s.triggers \cup s.pricesLocked \cup s.fixes \cup s.proofsLocked
        \cup {e.round : e \in s.prices} \cup {e.round : e \in s.proofs}

\* Mutant: the timeout waits for everyone.
QuorumOfAll(peers) == peers + 1

\* Enough entries to go on when the timeout ends.
Quorum(peers) == (peers + 1) \div 2

-----------------------------------------------------------------------------
(* The price the leader fixes.                                             *)

\* Mutant: a node without a price counts.
KeepNegative(entries) == entries

FilterNegative(entries) == {e \in entries : e.price >= 0}

\* The k-th smallest price, duplicates counted.
Nth(entries, k) ==
    CHOOSE v \in {e.price : e \in entries} :
        /\ Cardinality({e \in entries : e.price < v}) < k
        /\ Cardinality({e \in entries : e.price <= v}) >= k

GetInt64Med(entries) ==
    LET n == Cardinality(entries)
    IN  IF n % 2 = 0 THEN (Nth(entries, n \div 2) + Nth(entries, n \div 2 + 1)) \div 2
        ELSE Nth(entries, n \div 2 + 1)

\* What processCollectedPrices publishes, besides locking the round.
PriceFixes(s, n, round, ts) ==
    LET prices == FilterNegative(OfRound(s.prices, round))
    IN  IF n \in leading /\ prices # {}
        THEN {[from |-> n, round |-> round, price |-> GetInt64Med(prices), ts |-> ts]}
        ELSE {}

\* Mutant: a handler that does not lock the round.
NoLock(s, round) == s

lockPrices(s, round) == [s EXCEPT !.pricesLocked = @ \cup {round}]

\* The collected prices of a round are processed once: the round is locked, and a
\* leader publishes its fixed price.  left: the messages not handled yet.
processCollectedPrices(s, n, round, ts, left) ==
    LET fixes == PriceFixes(s, n, round, ts) IN
    /\ agg' = [agg EXCEPT ![n] = lockPrices(s, round)]
    /\ fixed' = fixed \cup fixes
    /\ msgs' = left \cup UNION {Publish("priceFix", n, round, f.price, ts) : f \in fixes}

\* Mutant: the proofs of every round are joined.
PublishAllProofs(s, n, round, price, ts) ==
    IF price = 0 THEN {}
    ELSE {[node |-> n, round |-> round, price |-> price,
           ts |-> ts, proofs |-> s.proofs]}

\* An aggregate is published with all proofs of the round, unless its value is 0.
PublishGlobalAggregateAndProof(s, n, round, price, ts) ==
    IF price = 0 THEN {}
    ELSE {[node |-> n, round |-> round, price |-> price,
           ts |-> ts, proofs |-> OfRound(s.proofs, round)]}

lockProofs(s, round) == [s EXCEPT !.proofsLocked = @ \cup {round}]

\* Value and timestamp are those of the proof message at hand.
processCollectedProofs(s, n, round, price, ts) ==
    LET data == PublishGlobalAggregateAndProof(s, n, round, price, ts) IN
    /\ agg' = [agg EXCEPT ![n] = lockProofs(s, round)]
    /\ submitted' = submitted \cup data
    /\ unsaved' = [unsaved EXCEPT ![n] = @ \cup {d.round : d \in data}]

-----------------------------------------------------------------------------
(* The handlers.  m is a message whose receiver handles it now.            *)

\* A leader loop's tick.
LeaderJob(n) ==
    LET round == agg[n].roundID + 1 IN
    /\ n \in driving
    /\ clock < MaxTriggers
    /\ agg' = [agg EXCEPT ![n].roundID = round]
    /\ clock' = clock + 1
    /\ msgs' = msgs \cup Publish("trigger", n, round, 0, clock + 1)
    /\ triggered' = triggered \cup {[node |-> n, round |-> round]}
    /\ UNCHANGED <<leaderVars, timers, unsaved, saved, process,
                   reported, fixed, signed, submitted, forgotten>>

\* The node's round after a trigger it accepts.
Advanced(s, m) ==
    [s EXCEPT !.roundID = IF m.from # m.to /\ m.round > @ THEN m.round ELSE @]

\* The deferred deletion happens whatever the handler decided.
Forget(s, m) ==
    /\ agg' = [agg EXCEPT ![m.to] = leaveOnlyLast10Entries(s, m.round)]
    /\ forgotten' = [forgotten EXCEPT ![m.to] = @ \cup (Rounds(s) \ Kept(m.round))]

\* HandleTriggerMessage of a sender that is not the node's leader, or of a round
\* that was triggered before.
RefuseTrigger(m) ==
    LET n == m.to
        heeded == m.from = leaderID[n]
    IN  /\ m.type = "trigger"
        /\ heeded => m.round \in agg[n].triggers
        /\ Forget(IF heeded THEN Advanced(agg[n], m) ELSE agg[n], m)
        /\ msgs' = msgs \ {m}
        /\ UNCHANGED <<leaderVars, timers, unsaved, saved, clock, process, history>>

\* HandleTriggerMessage of the leader's next round: the node reports its local value.
HandleTriggerMessage(m, value) ==
    LET n == m.to IN
    /\ m.type = "trigger"
    /\ m.from = leaderID[n]
    /\ m.round \notin agg[n].triggers
    /\ Forget([Advanced(agg[n], m) EXCEPT !.triggers = @ \cup {m.round}], m)
    /\ msgs' = (msgs \ {m}) \cup Publish("priceData", n, m.round, value, m.ts)
    /\ reported' = reported \cup {[from |-> n, round |-> m.round, price |-> value]}
    /\ UNCHANGED <<leaderVars, timers, unsaved, saved, clock, process,
                   triggered, fixed, signed, submitted>>

\* HandlePriceDataMessage of a round that is locked, or of a sender it has already.
IgnorePriceData(m) ==
    LET s == agg[m.to] IN
    /\ m.type = "priceData"
    /\ m.round \in s.pricesLocked \/ isReplay(s.prices, m.round, m.from)
    /\ msgs' = msgs \ {m}
    /\ UNCHANGED <<leaderVars, agg, timers, unsaved, saved, clock, process, history, forgotten>>

\* HandlePriceDataMessage: the last price of a round is processed at once, the
\* first one starts the timeout.
HandlePriceDataMessage(m, peers) ==
    LET n == m.to
        price == [round |-> m.round, from |-> m.from, price |-> m.price]
        s == [agg[n] EXCEPT !.prices = @ \cup {price}]
        count == Cardinality(OfRound(s.prices, m.round))
        timer == [type |-> "priceData", node |-> n, round |-> m.round, price |-> 0, ts |-> m.ts]
    IN  /\ m.type = "priceData"
        /\ m.round \notin agg[n].pricesLocked
        /\ ~isReplay(agg[n].prices, m.round, m.from)
        /\ IF count = peers + 1
           THEN /\ processCollectedPrices(s, n, m.round, m.ts, msgs \ {m})
                /\ UNCHANGED timers
           ELSE /\ agg' = [agg EXCEPT ![n] = s]
                /\ timers' = IF count = 1 THEN timers \cup {timer} ELSE timers
                /\ msgs' = msgs \ {m}
                /\ UNCHANGED fixed
        /\ UNCHANGED <<leaderVars, unsaved, saved, clock, process,
                       triggered, reported, signed, submitted, forgotten>>

\* startPriceCollectionTimeout: the timeout of timer t ends.
PriceCollectionTimeout(t, peers) ==
    LET s == agg[t.node] IN
    /\ t.type = "priceData"
    /\ timers' = timers \ {t}
    /\ IF /\ t.round \notin s.pricesLocked
          /\ Cardinality(OfRound(s.prices, t.round)) >= Quorum(peers)
       THEN processCollectedPrices(s, t.node, t.round, t.ts, msgs)
       ELSE UNCHANGED <<agg, fixed, msgs>>
    /\ UNCHANGED <<leaderVars, unsaved, saved, clock, process,
                   triggered, reported, signed, submitted, forgotten>>

\* HandlePriceFixMessage of a sender that is not the node's leader, or of a round
\* the node has signed.
IgnorePriceFix(m) ==
    /\ m.type = "priceFix"
    /\ m.from # leaderID[m.to] \/ m.round \in agg[m.to].fixes
    /\ msgs' = msgs \ {m}
    /\ UNCHANGED <<leaderVars, agg, timers, unsaved, saved, clock, process, history, forgotten>>

lockFix(s, round) == [s EXCEPT !.fixes = @ \cup {round}]

\* HandlePriceFixMessage: the round is locked before the signature is made.
HandlePriceFixMessage(m, signs) ==
    LET n == m.to IN
    /\ m.type = "priceFix"
    /\ m.from = leaderID[n]
    /\ m.round \notin agg[n].fixes
    /\ agg' = [agg EXCEPT ![n] = lockFix(@, m.round)]
    /\ IF signs
       THEN /\ msgs' = (msgs \ {m}) \cup Publish("proof", n, m.round, m.price, m.ts)
            /\ signed' = signed \cup
                              {[node |-> n, round |-> m.round, price |-> m.price, ts |-> m.ts]}
       ELSE msgs' = msgs \ {m} /\ UNCHANGED signed
    /\ UNCHANGED <<leaderVars, timers, unsaved, saved, clock, process,
                   triggered, reported, fixed, submitted, forgotten>>

\* HandleProofMessage of a round that is locked, or of a sender it has already.
IgnoreProof(m) ==
    LET s == agg[m.to] IN
    /\ m.type = "proof"
    /\ m.round \in s.proofsLocked \/ isReplay(s.proofs, m.round, m.from)
    /\ msgs' = msgs \ {m}
    /\ UNCHANGED <<leaderVars, agg, timers, unsaved, saved, clock, process, history, forgotten>>

\* HandleProofMessage: like prices, but every node publishes the result.
HandleProofMessage(m, peers) ==
    LET n == m.to
        proof == [round |-> m.round, from |-> m.from, price |-> m.price, ts |-> m.ts]
        s == [agg[n] EXCEPT !.proofs = @ \cup {proof}]
        count == Cardinality(OfRound(s.proofs, m.round))
        timer == [type |-> "proof", node |-> n, round |-> m.round, price |-> m.price,
                  ts |-> m.ts]
    IN  /\ m.type = "proof"
        /\ m.round \notin agg[n].proofsLocked
        /\ ~isReplay(agg[n].proofs, m.round, m.from)
        /\ IF count = peers + 1
           THEN /\ processCollectedProofs(s, n, m.round, m.price, m.ts)
                /\ UNCHANGED timers
           ELSE /\ agg' = [agg EXCEPT ![n] = s]
                /\ timers' = IF count = 1 THEN timers \cup {timer} ELSE timers
                /\ UNCHANGED <<submitted, unsaved>>
        /\ msgs' = msgs \ {m}
        /\ UNCHANGED <<leaderVars, saved, clock, process,
                       triggered, reported, fixed, signed, forgotten>>

\* startProofCollectionTimeout: the timeout of timer t ends.
ProofCollectionTimeout(t, peers) ==
    LET s == agg[t.node] IN
    /\ t.type = "proof"
    /\ timers' = timers \ {t}
    /\ IF /\ t.round \notin s.proofsLocked
          /\ Cardinality(OfRound(s.proofs, t.round)) >= Quorum(peers)
       THEN processCollectedProofs(s, t.node, t.round, t.price, t.ts)
       ELSE UNCHANGED <<agg, submitted, unsaved>>
    /\ UNCHANGED <<leaderVars, msgs, saved, clock, process,
                   triggered, reported, fixed, signed, forgotten>>

-----------------------------------------------------------------------------
(* The bulk writer, the election and restarts.                             *)

\* One batch: everything received so far; the copy into the table may fail, and
\* the batch is then gone.
bulkInsert(n, ok) ==
    /\ unsaved[n] # {}
    /\ unsaved' = [unsaved EXCEPT ![n] = {}]
    /\ saved' = IF ok THEN [saved EXCEPT ![n] = @ \cup unsaved[n]] ELSE saved
    /\ UNCHANGED <<leaderVars, agg, msgs, timers, clock, process, history, forgotten>>

\* A step of the election.
LeadershipChanges(n) ==
    /\ changes < MaxChanges
    /\ changes' = changes + 1
    /\ Lead!Win(n) \/ Lead!StepAside(n) \/ Lead!Retire(n) \/ \E p \in Node : Lead!Follow(n, p)
    /\ UNCHANGED <<agg, msgs, timers, unsaved, saved, clock, process, history, forgotten>>

\* The process is restarted: the tables are empty and the round is taken from the
\* database; what was on its way to the process or to its database is lost.
Restart(n) ==
    /\ restarts[n] < MaxRestarts
    /\ restarts' = [restarts EXCEPT ![n] = @ + 1]
    /\ found' = [found EXCEPT ![n] = saved[n]]
    /\ Lead!Forget(n)
    /\ agg' = [agg EXCEPT ![n] = NewAggregator(getLatestRoundId(saved[n]))]
    /\ msgs' = {m \in msgs : m.to # n}
    /\ timers' = {t \in timers : t.node # n}
    /\ unsaved' = [unsaved EXCEPT ![n] = {}]
    /\ forgotten' = [forgotten EXCEPT ![n] = @ \cup Rounds(agg[n])]
    /\ UNCHANGED <<saved, clock, changes, history>>

HandleCustomMessage(m) ==
    \/ RefuseTrigger(m) \/ \E value \in LocalValues : HandleTriggerMessage(m, value)
    \/ IgnorePriceData(m) \/ \E peers \in PeerCounts : HandlePriceDataMessage(m, peers)
    \/ IgnorePriceFix(m) \/ \E signs \in Signs : HandlePriceFixMessage(m, signs)
    \/ IgnoreProof(m) \/ \E peers \in PeerCounts : HandleProofMessage(m, peers)

Timeout(t) ==
    \E peers \in PeerCounts : PriceCollectionTimeout(t, peers) \/ ProofCollectionTimeout(t, peers)

Next ==
    \/ \E m \in msgs : HandleCustomMessage(m)
    \/ \E t \in timers : Timeout(t)
    \/ \E n \in Node :
          \/ LeaderJob(n) \/ LeadershipChanges(n) \/ Restart(n)
          \/ \E ok \in Stores : bulkInsert(n, ok)

Spec == Init /\ [][Next]_vars

\* Messages are delivered and handled, and timers run out.
Fairness ==
    /\ WF_vars(\E m \in msgs : HandleCustomMessage(m))
    /\ WF_vars(\E t \in timers : Timeout(t))

FairSpec == Spec /\ Fairness

-----------------------------------------------------------------------------
(* Properties.                                                             *)

\* No node is in two of them with the same round, unless it lost what it knew of the
\* round, to a trigger or a restart (leaveOnlyLast10Entries).
OncePerRound(records) ==
    \A x, y \in records :
        x.node = y.node /\ x.round = y.round /\ x.round \notin forgotten[x.node] => x = y

\* A node signs at most one price per round (roundPriceFixes.locked) and publishes at most
\* one submission of it to the reporters (roundProofs.locked), as long as it knows of the
\* round: of two leaders that fix prices only one gets its signature.
SignOncePerRound == OncePerRound(signed) /\ OncePerRound(submitted)

\* A fixed price lies between two prices nodes reported for that round, and never
\* comes from a node without a price (FilterNegative, GetInt64Med).
FixWithinReports ==
    \A f \in fixed : \E lo, hi \in reported :
        /\ lo.round = f.round /\ hi.round = f.round
        /\ 0 <= lo.price /\ lo.price <= f.price /\ f.price <= hi.price

\* The proofs of a published aggregate were made by their senders for that round,
\* and are of different senders (isReplay).  One of them is over the published
\* price and time, unless the node lost the round: with no subscriber left,
\* (0 + 1) / 2 proofs are enough for a timeout, none, and it publishes none.
ProofsOfSubmission ==
    \A d \in submitted :
        /\ \A p \in d.proofs : \E x \in signed :
              x.node = p.from /\ x.round = d.round /\ x.price = p.price /\ x.ts = p.ts
        /\ \A p, q \in d.proofs : p.from = q.from => p = q
        /\ d.round \in forgotten[d.node] \/ \E p \in d.proofs : p.price = d.price /\ p.ts = d.ts

\* As long as one node is the only one ever elected and no node lost anything of a
\* round, all aggregates and all proofs published for a
\* round, at all nodes, carry one price and one timestamp.
OneLeaderOnePrice ==
    (\A n \in Node : forgotten[n] = {}) /\ Cardinality(led) <= 1 =>
        \A c, d \in submitted : c.round = d.round =>
              /\ c.price = d.price /\ c.ts = d.ts
              /\ \A p \in c.proofs : p.price = d.price /\ p.ts = d.ts

\* A node never triggers again a round that its database had when the process
\* started (getLatestRoundId, and the maximum in HandleTriggerMessage).  A round
\* stored after the start is no exception the code excludes: a restarted node that
\* collects the proofs of its earlier round stores it and may trigger it again.
StoredRoundsNotRepeated ==
    [][\A n \in Node : LeaderJob(n) => agg[n].roundID + 1 \notin found[n]]_vars

\* Under a leader that all nodes follow and that stays, a round that all nodes have
\* still to hear of is published by every node, if every node has a price: the
\* timeouts and the locks let no round hang.
FollowedBy(n) == n \in leading /\ \A p \in Node : leaderID[p] = n

Starts(n, round) ==
    /\ FollowedBy(n)
    /\ \E ts \in 1..MaxTriggers : Publish("trigger", n, round, 0, ts) \subseteq msgs
    /\ \A p \in Node : round \notin Rounds(agg[p])

RoundsComplete ==
    \A n \in Node : \A round \in 2..(MaxTriggers + 1) :
        Starts(n, round) ~> \/ \A p \in Node : \E d \in submitted : d.node = p /\ d.round = round
                            \/ ~FollowedBy(n)
                            \/ \E p \in Node : round \in forgotten[p]

=============================================================================
