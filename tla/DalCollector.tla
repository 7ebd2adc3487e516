---------------------------- MODULE DalCollector ----------------------------
(***************************************************************************)
(* The collector of the data availability layer.  Every submission of the  *)
(* aggregators comes from two Redis servers; a goroutine per message       *)
(* compares its time with the latest one, orders its signatures by a       *)
(* cached copy of the contract's oracles, streams it to the hub and stores *)
(* it for the REST API.  The cache is read again when an OracleAdded event *)
(* comes, or when a signer is unknown, by a goroutine each time.           *)
(*                                                                         *)
(* One symbol: symbols share nothing but the cache.                        *)
(***************************************************************************)
EXTENDS ProofOrder, Naturals

CONSTANTS
    Oracle,
    Source,           \* the Redis servers
    FirstOracles,     \* the contract's list at the start
    Proofs,           \* the signatures a submission may have
    StreamSize,       \* capacity of the outgoing stream
    MaxTime,          \* bound on submissions; a submission's number is its time
    MaxChanges,       \* bound on changes of the oracles
    MaxReadFailures   \* bound on failures to read the list

\* The contract gives every oracle one slot.  REDIS_HOST must be set, so there is a server.
ASSUME ListAssumption == FirstOracles \in Seq(Oracle) /\ Distinct(FirstOracles)
ASSUME SourceAssumption == Source # {}

VARIABLES
    oracleList,       \* the contract's list of oracles
    changes,
    addedEvents,      \* OracleAdded events on their way
    proofs,           \* the signatures of the submissions published so far
    processing,       \* the goroutines of messages
    latestTimestamp,
    cachedWhitelist,
    tracker,          \* what trackOracleAdded is about to store, if anything
    refreshes,        \* what the refreshing goroutines are about to store
    readFailures,
    outgoing,         \* the stream to the hub
    latestData,
    streamed,         \* history: everything that was put on the stream
    refused           \* history: the times of submissions whose proofs were refused

chainPart == <<oracleList, changes>>
cachePart == <<cachedWhitelist, tracker, refreshes, readFailures, addedEvents>>
dataPart == <<proofs, processing, latestTimestamp, outgoing, latestData, streamed, refused>>
collectorVars == <<chainPart, cachePart, dataPart>>

Nothing == [time |-> 0, proof |-> <<>>]

CollectorInit ==
    /\ oracleList = FirstOracles /\ changes = 0 /\ addedEvents = 0
    /\ proofs = <<>> /\ processing = {} /\ latestTimestamp = 0
    /\ cachedWhitelist = FirstOracles /\ tracker = <<>> /\ refreshes = {} /\ readFailures = 0
    /\ outgoing = <<>> /\ latestData = Nothing
    /\ streamed = <<>> /\ refused = {}

-----------------------------------------------------------------------------
(* The contract and the aggregators.                                       *)

\* The numbers of the list's slots that hold an oracle.
Slots(a) == {i \in DOMAIN oracleList : oracleList[i] = a}

\* addOracle; updateOracle emits the event as well.
OracleAdded(a) ==
    /\ changes < MaxChanges /\ Slots(a) = {}
    /\ \/ oracleList' = Append(oracleList, a)
       \/ \E i \in DOMAIN oracleList : oracleList' = [oracleList EXCEPT ![i] = a]
    /\ changes' = changes + 1 /\ addedEvents' = addedEvents + 1
    /\ UNCHANGED <<cachedWhitelist, tracker, refreshes, readFailures, dataPart>>

\* removeOracle puts the last oracle into the free slot.  Its event carries no index,
\* so the subscription cannot unpack it and skips it.
OracleRemoved(a) ==
    LET last == Len(oracleList)
    IN  /\ changes < MaxChanges
        /\ \E i \in Slots(a) :
              oracleList' = SubSeq([oracleList EXCEPT ![i] = oracleList[last]], 1, last - 1)
        /\ changes' = changes + 1
        /\ UNCHANGED <<cachePart, dataPart>>

\* Signatures of oracles of the list, in any order, published to both servers.
Publish(proof) ==
    /\ Len(proofs) < MaxTime
    /\ \A i \in DOMAIN proof : Slots(proof[i]) # {}
    /\ proofs' = Append(proofs, proof)
    /\ processing' = processing \cup
          {[source |-> s, time |-> Len(proofs) + 1, phase |-> "new", proof |-> <<>>] : s \in Source}
    /\ UNCHANGED <<chainPart, cachePart, latestTimestamp, outgoing, latestData, streamed, refused>>

-----------------------------------------------------------------------------
(* processIncomingData.                                                    *)

\* Mutant: the same time counts as new.
NotOlder(time) == time >= latestTimestamp

After(time) == time > latestTimestamp

compareAndSwapLatestTimestamp(x) ==
    /\ x \in processing /\ x.phase = "new"
    /\ IF After(x.time)
       THEN /\ latestTimestamp' = x.time
            /\ processing' = (processing \ {x}) \cup {[x EXCEPT !.phase = "convert"]}
       ELSE /\ processing' = processing \ {x}
            /\ UNCHANGED latestTimestamp
    /\ UNCHANGED <<chainPart, cachePart, proofs, outgoing, latestData, streamed, refused>>

\* A refused submission is not tried again; an unknown signer starts a refresh.
IncomingDataToOutgoingData(x) ==
    LET result == orderProof(proofs[x.time], cachedWhitelist)
    IN  /\ x \in processing /\ x.phase = "convert"
        /\ IF result.error = "none"
           THEN /\ processing' = (processing \ {x}) \cup {[x EXCEPT !.phase = "send", !.proof = result.proof]}
                /\ UNCHANGED <<refused, refreshes>>
           ELSE /\ processing' = processing \ {x}
                /\ refused' = refused \cup {x.time}
                /\ refreshes' = IF result.error = "notWhitelisted"
                                THEN refreshes \cup {[of |-> x.time, list |-> <<>>]} ELSE refreshes
        /\ UNCHANGED <<chainPart, cachedWhitelist, tracker, readFailures, addedEvents,
                       proofs, latestTimestamp, outgoing, latestData, streamed>>

Send(x) ==
    /\ x \in processing /\ x.phase = "send" /\ Len(outgoing) < StreamSize
    /\ outgoing' = Append(outgoing, [time |-> x.time, proof |-> x.proof])
    /\ streamed' = Append(streamed, [time |-> x.time, proof |-> x.proof])
    /\ processing' = (processing \ {x}) \cup {[x EXCEPT !.phase = "store"]}
    /\ UNCHANGED <<chainPart, cachePart, proofs, latestTimestamp, latestData, refused>>

Store(x) ==
    /\ x \in processing /\ x.phase = "store"
    /\ latestData' = [time |-> x.time, proof |-> x.proof]
    /\ processing' = processing \ {x}
    /\ UNCHANGED <<chainPart, cachePart, proofs, latestTimestamp, outgoing, streamed, refused>>

\* The hub takes the next data and sends it to the subscribers.
broadcastDataForSymbol ==
    /\ outgoing # <<>>
    /\ outgoing' = Tail(outgoing)
    /\ UNCHANGED <<chainPart, cachePart, proofs, processing, latestTimestamp, latestData, streamed, refused>>

-----------------------------------------------------------------------------
(* The cached list.                                                        *)

\* getAllOracles asks the contract; what it answers is stored in a later step.
RefreshReads(r) ==
    /\ r \in refreshes /\ r.list = <<>>
    /\ refreshes' = (refreshes \ {r}) \cup {[r EXCEPT !.list = <<oracleList>>]}
    /\ UNCHANGED <<chainPart, cachedWhitelist, tracker, readFailures, addedEvents, dataPart>>

RefreshFails(r) ==
    /\ r \in refreshes /\ r.list = <<>> /\ readFailures < MaxReadFailures
    /\ readFailures' = readFailures + 1
    /\ refreshes' = refreshes \ {r}
    /\ UNCHANGED <<chainPart, cachedWhitelist, tracker, addedEvents, dataPart>>

RefreshStores(r) ==
    /\ r \in refreshes /\ r.list # <<>>
    /\ cachedWhitelist' = r.list[1]
    /\ refreshes' = refreshes \ {r}
    /\ UNCHANGED <<chainPart, tracker, readFailures, addedEvents, dataPart>>

\* An event makes trackOracleAdded read the list; when that fails it has none to store.
TrackerReads ==
    /\ addedEvents > 0 /\ tracker = <<>>
    /\ \/ tracker' = <<oracleList>> /\ UNCHANGED readFailures
       \/ /\ readFailures < MaxReadFailures
          /\ readFailures' = readFailures + 1 /\ tracker' = <<<<>>>>
    /\ addedEvents' = addedEvents - 1
    /\ UNCHANGED <<chainPart, cachedWhitelist, refreshes, dataPart>>

TrackerStores ==
    /\ tracker # <<>>
    /\ cachedWhitelist' = tracker[1]
    /\ tracker' = <<>>
    /\ UNCHANGED <<chainPart, refreshes, readFailures, addedEvents, dataPart>>

-----------------------------------------------------------------------------

CollectorNext ==
    \/ \E a \in Oracle : OracleAdded(a) \/ OracleRemoved(a)
    \/ \E proof \in Proofs : Publish(proof)
    \/ \E x \in processing :
          \/ compareAndSwapLatestTimestamp(x) \/ IncomingDataToOutgoingData(x)
          \/ Send(x) \/ Store(x)
    \/ broadcastDataForSymbol
    \/ \E r \in refreshes : RefreshReads(r) \/ RefreshFails(r) \/ RefreshStores(r)
    \/ TrackerReads \/ TrackerStores

CollectorSpec == CollectorInit /\ [][CollectorNext]_collectorVars

-----------------------------------------------------------------------------
(* Properties.                                                             *)

\* A submission that comes from both servers is streamed once, whichever copy is
\* first and however its goroutines interleave with those of other submissions.
StreamedOnce ==
    \A i, j \in DOMAIN streamed : streamed[i].time = streamed[j].time => i = j

\* What is streamed carries every signature of its submission, each once.
SignaturesKept ==
    \A i \in DOMAIN streamed :
        LET proof == streamed[i].proof
            signatures == proofs[streamed[i].time]
        IN  Members(proof) = Members(signatures) /\ Distinct(proof)

\* The newest submission is not lost to an older one that overtakes it: when no
\* goroutine is left it was streamed, or its proof was refused.
NewestNotLost ==
    processing = {} /\ proofs # <<>> =>
        \/ \E i \in DOMAIN streamed : streamed[i].time = Len(proofs)
        \/ Len(proofs) \in refused

\* A submission that comes from both Redis servers is streamed once, with every
\* signature of its proof, each once; the newest is streamed unless its proof was refused.
CollectorStreams == StreamedOnce /\ SignaturesKept /\ NewestNotLost

=============================================================================
