-------------------------- MODULE SubmissionStream --------------------------
(***************************************************************************)
(* The way of a global aggregate and its proof from the aggregator to the  *)
(* tables: published on a Redis channel with retries, forwarded by the     *)
(* goroutine that db.Subscribe starts, taken by receiveEach into a bounded *)
(* buffer and written in batches by the goroutines of the ticker.  The     *)
(* writer may be stopped and started while data are on their way: the      *)
(* channels and the buffer outlive the goroutines of a start.              *)
(*                                                                         *)
(* One config: configs share the buffer and the batches only.  A datum is  *)
(* the number of its round.                                                *)
(***************************************************************************)
EXTENDS Naturals, FiniteSets, SequencesExt

CONSTANTS
    MaxData,       \* bound on the rounds published
    MaxStarts,     \* bound on starts of the writer
    BufferSize,    \* capacity of the buffer
    MaxInserts,    \* bound on bulkInsert goroutines at work together
    MaxFailures    \* bound on failures of Redis and of the database

VARIABLES
    sending,       \* the attempts Publish has made for the newest datum, 0 when it returned
    published,     \* the data given to Publish
    starts, running,
    forwarders,    \* by start: the goroutine of db.Subscribe
    receivers,     \* by start: the goroutine receiveEach
    buffer,
    inserts,       \* the bulkInsert goroutines
    proofs,        \* the proofs table: (config_id, round) is unique
    aggregates,    \* the global_aggregates table: rows of each round
    failures,
    arrivals,      \* history: how often each datum came over the subscriptions
    harmed,        \* history: data that a failure or a stop may have lost
    refused        \* history: data whose proofs were in a batch that was not stored

streamPart == <<sending, published>>
startPart == <<starts, running, forwarders, receivers>>
storePart == <<inserts, proofs, aggregates, refused>>
streamVars == <<streamPart, startPart, buffer, storePart, failures, arrivals, harmed>>

Data == 1 .. MaxData
Starts == 1 .. starts
Tries == 3         \* one attempt, and two of retrier.Retry

StreamInit ==
    /\ sending = 0 /\ published = 0
    /\ starts = 0 /\ running = FALSE
    /\ forwarders = <<>> /\ receivers = <<>> /\ buffer = <<>>
    /\ inserts = {} /\ proofs = {} /\ aggregates = [d \in Data |-> 0]
    /\ failures = 0 /\ arrivals = [d \in Data |-> 0]
    /\ harmed = {} /\ refused = {}

\* The context of a start is cancelled by Stop; only the last start can be running.
Cancelled(g) == ~(running /\ g = starts)

-----------------------------------------------------------------------------
(* Publish.                                                                *)

Open == {g \in Starts : forwarders[g].phase = "open"}

\* The server gives the datum to every open subscription.
Arrive ==
    /\ forwarders' = [g \in Starts |->
          IF g \in Open THEN [forwarders[g] EXCEPT !.raw = Append(@, published)] ELSE forwarders[g]]
    /\ arrivals' = [arrivals EXCEPT ![published] = @ + Cardinality(Open)]
    /\ harmed' = IF Open = {} THEN harmed \cup {published} ELSE harmed

PublishGlobalAggregateAndProof ==
    /\ sending = 0 /\ published < MaxData
    /\ published' = published + 1 /\ sending' = 1
    /\ UNCHANGED <<startPart, buffer, storePart, failures, arrivals, harmed>>

Publish ==
    /\ sending > 0
    /\ Arrive
    /\ sending' = 0
    /\ UNCHANGED <<published, starts, running, receivers, buffer, storePart, failures>>

\* An error that is returned at once.
GivesUp == sending' = 0

\* A connection error: the client is made anew and the operation is tried again.
executeWithRetry == sending' = IF sending < Tries THEN sending + 1 ELSE 0

\* The answer is lost after the server acted: an i/o timeout.
PublishTimesOut ==
    /\ sending > 0 /\ failures < MaxFailures
    /\ Arrive
    /\ executeWithRetry
    /\ failures' = failures + 1
    /\ UNCHANGED <<published, starts, running, receivers, buffer, storePart>>

\* The server does not see the attempt.  An error that is not a connection error
\* ends the first attempt for good; retrier.Retry tries again whatever the error is.
PublishFails ==
    /\ sending > 0 /\ failures < MaxFailures
    /\ \/ executeWithRetry
       \/ sending = 1 /\ GivesUp
    /\ harmed' = IF sending' = 0 /\ arrivals[published] = 0 THEN harmed \cup {published} ELSE harmed
    /\ failures' = failures + 1
    /\ UNCHANGED <<published, startPart, buffer, storePart, arrivals>>

-----------------------------------------------------------------------------
(* The goroutines of a start.                                              *)

Start ==
    /\ ~running /\ starts < MaxStarts
    /\ running' = TRUE /\ starts' = starts + 1
    /\ forwarders' = Append(forwarders, [phase |-> "none", raw |-> <<>>, hand |-> 0])
    /\ receivers' = Append(receivers, [phase |-> "subscribe", hand |-> 0])
    /\ UNCHANGED <<streamPart, buffer, storePart, failures, arrivals, harmed>>

Stop ==
    /\ running
    /\ running' = FALSE
    /\ UNCHANGED <<streamPart, starts, forwarders, receivers, buffer, storePart, failures, arrivals, harmed>>

\* db.Subscribe starts its goroutine; when no client can be made it returns an error,
\* which is logged: receiveEach waits on a channel nobody fills.
Subscribe(g) ==
    /\ receivers[g].phase = "subscribe"
    /\ receivers' = [receivers EXCEPT ![g].phase = "receive"]
    /\ \/ forwarders' = [forwarders EXCEPT ![g].phase = "open"] /\ UNCHANGED failures
       \/ /\ failures < MaxFailures
          /\ failures' = failures + 1 /\ UNCHANGED forwarders
    /\ UNCHANGED <<streamPart, starts, running, buffer, storePart, arrivals, harmed>>

\* The goroutine looks at its context between messages only.
ForwarderTakes(g) ==
    /\ forwarders[g].phase = "open" /\ forwarders[g].hand = 0 /\ forwarders[g].raw # <<>>
    /\ forwarders' = [forwarders EXCEPT ![g].hand = Head(forwarders[g].raw), ![g].raw = Tail(@)]
    /\ UNCHANGED <<streamPart, starts, running, receivers, buffer, storePart, failures, arrivals, harmed>>

ForwarderEnds(g) ==
    /\ forwarders[g].phase = "open" /\ forwarders[g].hand = 0 /\ Cancelled(g)
    /\ forwarders' = [forwarders EXCEPT ![g].phase = "closed", ![g].raw = <<>>]
    /\ harmed' = harmed \cup ToSet(forwarders[g].raw)
    /\ UNCHANGED <<streamPart, starts, running, receivers, buffer, storePart, failures, arrivals>>

\* The channel belongs to the writer: a receiver may meet the forwarder of another start.
receiveEach(g, f) ==
    /\ receivers[g].phase = "receive" /\ receivers[g].hand = 0 /\ forwarders[f].hand # 0
    /\ receivers' = [receivers EXCEPT ![g].hand = forwarders[f].hand]
    /\ forwarders' = [forwarders EXCEPT ![f].hand = 0]
    /\ UNCHANGED <<streamPart, starts, running, buffer, storePart, failures, arrivals, harmed>>

\* Mutant: a full buffer drops the datum.
PutsOrDrops(g) ==
    /\ receivers[g].hand # 0
    /\ buffer' = IF Len(buffer) < BufferSize THEN Append(buffer, receivers[g].hand) ELSE buffer

Puts(g) ==
    /\ receivers[g].hand # 0 /\ Len(buffer) < BufferSize
    /\ buffer' = Append(buffer, receivers[g].hand)

receiveEachPuts(g) ==
    /\ Puts(g)
    /\ receivers' = [receivers EXCEPT ![g].hand = 0]
    /\ UNCHANGED <<streamPart, starts, running, forwarders, storePart, failures, arrivals, harmed>>

ReceiverEnds(g) ==
    /\ receivers[g].phase = "receive" /\ receivers[g].hand = 0 /\ Cancelled(g)
    /\ receivers' = [receivers EXCEPT ![g].phase = "ended"]
    /\ UNCHANGED <<streamPart, starts, running, forwarders, buffer, storePart, failures, arrivals, harmed>>

-----------------------------------------------------------------------------
(* The batches.                                                            *)

bulkInsertJob ==
    /\ running /\ Cardinality(inserts) < MaxInserts
    /\ buffer # <<>>
    /\ inserts' = inserts \cup {[start |-> starts, phase |-> "new", batch |-> <<>>]}
    /\ UNCHANGED <<streamPart, startPart, buffer, proofs, aggregates, refused, failures, arrivals, harmed>>

Drains == buffer' = <<>>

\* The goroutine drains the buffer.  With its context cancelled it may do either.
bulkInsert(i) ==
    /\ i \in inserts /\ i.phase = "new"
    /\ \/ /\ buffer # <<>>
          /\ inserts' = (inserts \ {i}) \cup {[i EXCEPT !.phase = "proofs", !.batch = buffer]}
          /\ Drains
       \/ /\ buffer = <<>> \/ Cancelled(i.start)
          /\ inserts' = inserts \ {i} /\ UNCHANGED buffer
    /\ UNCHANGED <<streamPart, startPart, proofs, aggregates, refused, failures, arrivals, harmed>>

\* COPY stores all rows or none; the table refuses a round it has or gets twice.
Accepts(batch) ==
    /\ \A d \in ToSet(batch) : d \notin proofs
    /\ IsInjective(batch)

insertRows(batch) == ToSet(batch)

AfterProofs(i) == {[i EXCEPT !.phase = "aggregates"]}

storeProofs(i) ==
    /\ i \in inserts /\ i.phase = "proofs"
    /\ \/ /\ Accepts(i.batch) /\ ~Cancelled(i.start)
          /\ proofs' = proofs \cup insertRows(i.batch)
          /\ inserts' = (inserts \ {i}) \cup {[i EXCEPT !.phase = "aggregates"]}
          /\ UNCHANGED <<refused, failures>>
       \/ /\ \/ ~Accepts(i.batch) /\ UNCHANGED failures
             \/ Cancelled(i.start) /\ UNCHANGED failures
             \/ failures < MaxFailures /\ failures' = failures + 1
          /\ refused' = refused \cup ToSet(i.batch)
          /\ inserts' = (inserts \ {i}) \cup AfterProofs(i)
          /\ UNCHANGED proofs
    /\ UNCHANGED <<streamPart, startPart, buffer, aggregates, arrivals, harmed>>

Occurrences(batch, d) == Cardinality({k \in DOMAIN batch : batch[k] = d})

storeGlobalAggregates(i) ==
    /\ i \in inserts /\ i.phase = "aggregates"
    /\ inserts' = inserts \ {i}
    /\ \/ /\ ~Cancelled(i.start)
          /\ aggregates' = [d \in Data |-> aggregates[d] + Occurrences(i.batch, d)]
          /\ UNCHANGED <<failures, harmed>>
       \/ /\ \/ Cancelled(i.start) /\ UNCHANGED failures
             \/ failures < MaxFailures /\ failures' = failures + 1
          /\ harmed' = harmed \cup ToSet(i.batch)
          /\ UNCHANGED aggregates
    /\ UNCHANGED <<streamPart, startPart, buffer, proofs, refused, arrivals>>

-----------------------------------------------------------------------------

StreamNext ==
    \/ PublishGlobalAggregateAndProof \/ Publish \/ PublishTimesOut \/ PublishFails
    \/ Start \/ Stop
    \/ \E g \in Starts :
          \/ Subscribe(g) \/ ForwarderTakes(g) \/ ForwarderEnds(g)
          \/ receiveEachPuts(g) \/ ReceiverEnds(g)
          \/ \E f \in Starts : receiveEach(g, f)
    \/ bulkInsertJob
    \/ \E i \in inserts : bulkInsert(i) \/ storeProofs(i) \/ storeGlobalAggregates(i)

-----------------------------------------------------------------------------
(* Properties.                                                             *)

OnItsWay(d) ==
    \/ sending > 0 /\ d = published
    \/ \E g \in Starts : d = forwarders[g].hand \/ d = receivers[g].hand \/ d \in ToSet(forwarders[g].raw)
    \/ d \in ToSet(buffer)
    \/ \E i \in inserts : d \in ToSet(i.batch)

\* An aggregate that was published is on its way or in its table, unless Redis, the
\* database or a stop lost it: stops and starts that overlap, a full buffer and
\* batches that run together lose nothing (receiveEach, bulkInsert).
NothingForgotten ==
    \A d \in 1 .. published : OnItsWay(d) \/ aggregates[d] > 0 \/ d \in harmed

\* A round is stored as often as it came: the retry of Publish and a subscription
\* that outlives its start can double a row, batches cannot.
RowsCameOver ==
    \A d \in Data : aggregates[d] <= arrivals[d]

\* An aggregate whose proof is missing was in a batch that held a round twice, or one
\* the table had, or that failed: proofs and aggregates are stored by two statements.
ProofsMissOnlyRefused ==
    \A d \in Data : aggregates[d] > 0 /\ d \notin proofs => d \in refused
=============================================================================
