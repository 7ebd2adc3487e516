------------------------------- MODULE MCNode -------------------------------
(* The apps of a node and the services beside it for TLC.  Each module is  *)
(* a part with state of its own, so a behaviour exercises one of them.     *)
EXTENDS FetcherApp, TLC

CONSTANTS
    Worker,         \* the requests of the admin API, and the runs of the log processor
    p1, p2,         \* the configs of the aggregator app
    r1, r2,         \* the requests of the delegator
    address, fn1, fn2   \* a contract and two functions of it

VARIABLES
    part,
    fxPair, inputs, jobs, made, bus, channel, rejected, received, rows,
    current, running, runs, done, sub, topic, signerOf, signer, writer, refresh, todo,
    refreshFailed, answered,
    contract, function, org, reporter, connected, cached, feePayer, request, edits, cutOffs, chain,
    now, expires, stored, pk, helper, date, used, calls, keys, faults, harmed,
    provider, feeds, subscribed, handling, ticks, handled, data, cache, owed,
    sending, messages, starts, receiving, forwarders, receivers, buffer, inserts, proofs,
    aggregates, errors, arrivals, spoilt, refused,
    logRows, arrived, workers, issues, processed, mishaps, retried, crossed, unrecorded, blind,
    clock, reserve, pending, job, attempts, setbacks, why,
    published, configs, feedRows, serial, http, agreed, complete, publishes, requests, changes, faulty,
    head, observed, unprocessed, active, repeatable, up, followed, command, latestJobs, stalled,
    history, events, named, submitted, outages, stops, first, givenUp, dropped

\* Prices around the quartiles' fences; none, equal and unequal volumes.
Sorted(n, values) == {s \in [1 .. n -> values] : \A i \in 1 .. n - 1 : s[i] <= s[i + 1]}
Volumes(n) == {[i \in 1 .. n |-> 0], [i \in 1 .. n |-> 1], [i \in 1 .. n |-> IF i % 2 = 0 THEN 3 ELSE 0]}
Priced(s, p) == [i \in DOMAIN s |-> [value |-> s[i], volume |-> p[i]]]
Feeds(n, values) == {Priced(s, p) : s \in Sorted(n, values), p \in Volumes(n)}
TenFeeds == {Priced(<<w, x, 10, 10, 11, 11, 12, 12, y, z>>, p) :
               w \in {1, 5, 9}, x \in {5, 9, 10}, y \in {12, 13, 19}, z \in {13, 19, 40}, p \in Volumes(10)}
FewFeeds == {<<>>, <<[value |-> 0, volume |-> 0]>>, <<[value |-> 5, volume |-> 0]>>}

L == INSTANCE LocalAggregator WITH
        Inputs <- FewFeeds \cup Feeds(4, {10, 11, 30}) \cup Feeds(6, {10, 11, 12, 16, 30})
                    \cup Feeds(7, {1, 10, 12, 30}) \cup TenFeeds,
        Streamed <- FewFeeds, BusSize <- 1, ChannelSize <- 1, MaxAggregates <- 3, feeds <- inputs

A == INSTANCE AggregatorApp WITH Config <- {p1, p2}, MaxGeneration <- 2, MaxRuns <- 2

D == INSTANCE Delegator WITH Address <- {address}, Function <- {fn1, fn2}, Request <- {r1, r2},
                             MaxEdits <- 1, MaxCutOffs <- 1

S == INSTANCE Signer WITH MaxKeys <- 3, MaxSigners <- 2, MaxTime <- 5, Period <- 4, Threshold <- 3,
                          MaxFaults <- 1

\* Pairs whose combined names are equal, or whose base starts with the other's quote.
AB == [base |-> <<"A">>, quote |-> <<"B">>]
ABA == [base |-> <<"A", "B">>, quote |-> <<"A">>]
AC == [base |-> <<"A">>, quote |-> <<"C">>]
CB == [base |-> <<"C">>, quote |-> <<"B">>]

P == INSTANCE Providers WITH FeedSets <- {<<AB, AB>>, <<ABA, AC>>, <<AB, AC, CB, ABA>>},
                             MaxTicks <- 2, Lifespan <- 1, MaxAge <- 2, sent <- ticks

T == INSTANCE SubmissionStream WITH MaxData <- 2, MaxStarts <- 2, BufferSize <- 2, MaxInserts <- 1,
                                    published <- messages, running <- receiving, failures <- errors,
                                    harmed <- spoilt

\* Two logs have the same message; the message of the third is in brackets.
I == INSTANCE LogIssues WITH Log <- {"a", "b", "c"}, Bracketed <- {"n"},
                             MessageOf <- [l \in {"a", "b", "c"} |-> IF l = "c" THEN "n" ELSE "m"],
                             MaxIssues <- 2, Attempts <- 2, MaxArrivals <- 3,
                             rows <- logRows, failures <- mishaps

R == INSTANCE Por WITH Value <- {0, 25, 45}, Unit <- 10, Deviation <- 10, AbsoluteThreshold <- 20,
                       SubmitInterval <- 1, MaxRetry <- 2, MaxRuns <- 2, MaxTime <- 4, MaxFailures <- 2,
                       contract <- reserve, runs <- attempts, failures <- setbacks

\* From the first list to the second one feed moves to another config, and the other's
\* definition changes.
FirstList == [c \in {"c1"} |-> [n \in {"f", "g"} |-> 1]]
SecondList == [c \in {"c1", "c2"} |-> IF c = "c1" THEN [n \in {"g"} |-> 2] ELSE [n \in {"f"} |-> 1]]

C == INSTANCE AdminSync WITH Lists <- {FirstList, SecondList}, MaxPublishes <- 1, MaxCalls <- 3,
                             MaxEdits <- 1, feeds <- feedRows, request <- http, calls <- requests,
                             edits <- changes, failures <- faulty

K == INSTANCE Listener WITH MaxBlock <- 3, Foreign <- {2}, Slot <- {1}, Attempts <- 2, MaxFailures <- 2,
                            MaxStops <- 1, contract <- followed, failures <- outages

-----------------------------------------------------------------------------

localPart == <<fxPair, inputs, jobs, made, bus, channel, rejected, received, rows>>
aggregatorPart == <<current, running, runs, done, sub, topic, signerOf, signer, writer, refresh, todo,
                    refreshFailed, answered>>
delegatorPart == <<contract, function, org, reporter, connected, cached, feePayer, request, edits,
                   cutOffs, chain>>
signerPart == <<now, expires, stored, pk, helper, date, used, calls, keys, faults, harmed>>
providerPart == <<provider, feeds, subscribed, handling, ticks, handled, data, cache, owed>>
streamPart == <<sending, messages, starts, receiving, forwarders, receivers, buffer, inserts, proofs,
                aggregates, errors, arrivals, spoilt, refused>>
issuePart == <<logRows, arrived, workers, issues, processed, mishaps, retried, crossed, unrecorded, blind>>
porPart == <<clock, reserve, pending, job, attempts, setbacks, why>>
adminPart == <<published, configs, feedRows, serial, http, agreed, complete, publishes, requests,
               changes, faulty>>
listenerPart == <<head, observed, unprocessed, active, repeatable, up, followed, command, latestJobs,
                  stalled, history, events, named, submitted, outages, stops, first, givenUp, dropped>>

\* A part that does not run starts in one state.  Four pairs only where the subscriptions
\* take three at a time.
NodeInit ==
    /\ part \in {"fetcher", "local", "aggregator", "delegator", "signer", "providers", "stream",
                 "issues", "por", "admin", "listener"}
    /\ FetcherInit /\ A!AggAppInit /\ S!SignerInit /\ T!StreamInit /\ I!IssueInit /\ R!PorInit
    /\ K!ListenerInit
    /\ (part # "delegator" => org = TRUE /\ reporter = "none" /\ feePayer = "") /\ D!DelegatorInit
    /\ (part # "admin" => published = FirstList) /\ C!AdminInit
    /\ IF part = "providers" THEN P!ProvidersInit /\ (Len(feeds) = 4 => provider = P!bitmart)
       ELSE provider = P!binance /\ feeds = <<AB, AB>> /\ P!ProvidersInit
    /\ IF part = "local" THEN L!LocalInit ELSE inputs = <<>> /\ fxPair = FALSE /\ L!LocalInit

NodeNext ==
    /\ UNCHANGED part
    /\ \/ /\ part = "fetcher" /\ FetcherNext
          \* a refresh overlaps with no other command
          /\ Cardinality(Busy') > 1 => \A h \in Busy' : handlers'[h].cmd # "refresh"
          /\ UNCHANGED <<localPart, aggregatorPart, delegatorPart, signerPart, providerPart,
                         streamPart, issuePart, porPart, adminPart, listenerPart>>
       \/ /\ part = "local" /\ L!LocalNext
          /\ UNCHANGED <<appVars, aggregatorPart, delegatorPart, signerPart, providerPart,
                         streamPart, issuePart, porPart, adminPart, listenerPart>>
       \/ /\ part = "aggregator" /\ A!AggAppNext
          \* after a refresh only the first config's aggregator is restarted
          /\ runs'[<<p2, 2>>] <= 1
          /\ UNCHANGED <<appVars, localPart, delegatorPart, signerPart, providerPart,
                         streamPart, issuePart, porPart, adminPart, listenerPart>>
       \/ /\ part = "delegator" /\ D!DelegatorNext
          \* requests are the same but for their name
          /\ request'[r2].at # "idle" => request'[r1].at # "idle"
          /\ UNCHANGED <<appVars, localPart, aggregatorPart, signerPart, providerPart,
                         streamPart, issuePart, porPart, adminPart, listenerPart>>
       \/ /\ part = "signer" /\ S!SignerNext
          /\ UNCHANGED <<appVars, localPart, aggregatorPart, delegatorPart, providerPart,
                         streamPart, issuePart, porPart, adminPart, listenerPart>>
       \/ /\ part = "providers" /\ P!ProvidersNext
          /\ UNCHANGED <<appVars, localPart, aggregatorPart, delegatorPart, signerPart,
                         streamPart, issuePart, porPart, adminPart, listenerPart>>
       \/ /\ part = "stream" /\ T!StreamNext
          \* either Redis fails, or the writer is restarted
          /\ starts' = 2 => errors' = 0
          /\ UNCHANGED <<appVars, localPart, aggregatorPart, delegatorPart, signerPart, providerPart,
                         issuePart, porPart, adminPart, listenerPart>>
       \/ /\ part = "issues" /\ I!IssueNext
          /\ UNCHANGED <<appVars, localPart, aggregatorPart, delegatorPart, signerPart, providerPart,
                         streamPart, porPart, adminPart, listenerPart>>
       \/ /\ part = "por" /\ R!PorNext
          /\ UNCHANGED <<appVars, localPart, aggregatorPart, delegatorPart, signerPart, providerPart,
                         streamPart, issuePart, adminPart, listenerPart>>
       \/ /\ part = "admin" /\ C!AdminNext
          /\ UNCHANGED <<appVars, localPart, aggregatorPart, delegatorPart, signerPart, providerPart,
                         streamPart, issuePart, porPart, listenerPart>>
       \/ /\ part = "listener" /\ K!ListenerNext
          \* either calls fail, or the process or the listener is stopped
          /\ stops' = 0 \/ outages' = 0
          /\ UNCHANGED <<appVars, localPart, aggregatorPart, delegatorPart, signerPart, providerPart,
                         streamPart, issuePart, porPart, adminPart>>

\* What the listener needs to get on: its process is started again, and its queues' workers
\* take the jobs that wait.
NodeFairness ==
    /\ WF_listenerPart(part = "listener" /\ (K!listenerService \/ K!CommandStep))
    /\ WF_listenerPart(part = "listener" /\ K!LatestStep(1))
    /\ WF_listenerPart(part = "listener" /\ K!HistoryStep)
    /\ WF_listenerPart(part = "listener" /\ K!EventsStep)

NodeSpec ==
    /\ NodeInit
    /\ [][NodeNext]_<<part, appVars, localPart, aggregatorPart, delegatorPart, signerPart, providerPart,
                      streamPart, issuePart, porPart, adminPart, listenerPart>>
    /\ NodeFairness

\* Fetcher app: commands that are answered were carried out; what runs has its loop; a
\* refresh loses nothing that was started.
FetcherCommands == AnswersAreTrue /\ RunningHasLoop /\ RefreshLosesNothing

\* Local aggregator: unless there are too many outliers none has any weight, the filter
\* leaves more than half of the feeds, and an aggregate that the full bus refuses is stored
\* all the same.
LocalAggregates == L!AggregateInFences /\ L!FilterKeepsMost /\ L!AggregatesKept

\* Aggregator app: no run is out of the commands' reach; what runs signs with the signer that
\* is renewed; topics are released unless a refresh failed, and only an aggregator that was
\* stopped before runs without its topic; a success answered means that everything runs.
AggregatorsAreHeld ==
    A!NoOrphanRuns /\ A!RunningUseSigner /\ A!TopicsReleased /\ A!DeafOnlyAfterRestart
        /\ A!StartedMeansRunning

\* Delegator: what the fee payer signed is the transaction the reporter signed, and the
\* tables allowed it.
SignedAsApproved == D!SignedIsReporters /\ D!SignedIsApproved

\* Signer: outside of a renewal the stored key is the one the contract knows, and the app
\* signs with it.
KeysAreKept == S!KeyIsKept /\ S!AppUsesKey

\* Providers: every pair is subscribed to and its feeds get the prices of it and no other;
\* handlers that overtake each other bring back no older price, and no volume outlives the
\* cache's lifespan.
PricesAreOwn == P!OwnPrices /\ P!AllSubscribed /\ P!LatestIsNewest /\ P!VolumesAreFresh

\* Stream: a published aggregate is on its way or stored, unless a fault lost it, as often as
\* it came; a proof is missing only where the table refused its batch.
AggregatesAreStored == T!NothingForgotten /\ T!RowsCameOver /\ T!ProofsMissOnlyRefused

\* Logs: a log gets a second issue only in the ways named there.
IssueOnce == I!IssueOnce

\* Proof of reserve: after a successful run the contract's answer is close to the value, and
\* the zero of a failed fetch is reported only when a report is due.
ReportsAreClose == R!DoneIsClose /\ R!FailedFetchOnlyWhenDue

\* Admin: after a sync the tables are what the list says, however syncs overlap, and the
\* configs that stay have kept their ids.
SyncsKeepTables == []C!SyncedTables /\ C!KeptConfigsKeepId

\* Listener: an observed block is never forgotten, and the event of every block reaches the
\* workers unless its job used up its attempts, or the listener is inactive or wedged.
ListenerDelivers == []K!BlocksKept /\ K!EventsSubmitted

=============================================================================
