----------------------------- MODULE MCStreams ------------------------------
(* The streams of a node for TLC, with what must eventually happen: feed   *)
(* data from its sources to the table, the websocket connections and the   *)
(* swap events they come from, logs on their way to logscribe, and the     *)
(* peers of the boot server.  A behaviour exercises one of them.           *)
EXTENDS FeedData

CONSTANT Node

VARIABLES
    part,
    starts, cancelled, at, attempt, IsRunning, conn, open, silent, reconnectDue, inactivity,
    failures, refused,
    swaps, fetcher, sub, logs, passing, ended, price, prices, missed, breaks,
    written, bare, waiting, loop, handlers, channel, rows, errors, lost,
    host, call, joined, resyncs, peers, doomed, connected, faults, excused

W == INSTANCE WsHelper WITH MaxStarts <- 2, Subscriptions <- 2, MaxFailures <- 4

U == INSTANCE ChainReader WITH MaxSwaps <- 4, MaxBreaks <- 3, cancelled <- ended

G == INSTANCE LogPipeline WITH MaxLogs <- 3, BufferSize <- 2, BatchSize <- 1, ChannelSize <- 1,
                               MaxFailures <- 2, buffer <- waiting, logs <- rows, failures <- errors

B == INSTANCE BootPeers WITH Attempts <- 1, MaxFaults <- 1

-----------------------------------------------------------------------------

websocketPart == <<starts, cancelled, at, attempt, IsRunning, conn, open, silent, reconnectDue,
                   inactivity, failures, refused>>
readerPart == <<swaps, fetcher, sub, logs, passing, ended, price, prices, missed, breaks>>
logPart == <<written, bare, waiting, loop, handlers, channel, rows, errors, lost>>
bootPart == <<host, call, joined, resyncs, peers, doomed, connected, faults, excused>>

StreamsInit ==
    /\ part \in {"data", "websocket", "reader", "logs", "boot"}
    /\ FeedDataInit /\ W!WsInit /\ U!ReaderInit /\ G!LogInit /\ B!BootInit

StreamsNext ==
    /\ UNCHANGED part
    /\ \/ /\ part = "data" /\ FeedDataNext
          /\ UNCHANGED <<websocketPart, readerPart, logPart, bootPart>>
       \/ /\ part = "websocket" /\ W!WsNext
          /\ UNCHANGED <<feedDataVars, readerPart, logPart, bootPart>>
       \/ /\ part = "reader" /\ U!ReaderNext
          /\ UNCHANGED <<feedDataVars, websocketPart, logPart, bootPart>>
       \/ /\ part = "logs" /\ G!LogNext
          /\ UNCHANGED <<feedDataVars, websocketPart, readerPart, bootPart>>
       \/ /\ part = "boot" /\ B!BootNext
          /\ UNCHANGED <<feedDataVars, websocketPart, readerPart, logPart>>

\* The fairness of each part, for the one that runs.
StreamsFairness ==
    /\ WF_feedDataVars(part = "data" /\ Flows)
    /\ WF_feedDataVars(part = "data" /\ Writes)
    /\ \A r \in W!Runs : WF_websocketPart(part = "websocket" /\ W!Progress(r))
    /\ WF_readerPart(part = "reader" /\ U!Follows)
    /\ WF_logPart(part = "logs" /\ G!Moves)
    /\ WF_bootPart(part = "boot" /\ B!Refreshes)
    /\ \A n \in Node : WF_bootPart(part = "boot" /\ B!Handles(n))

StreamsSpec ==
    /\ StreamsInit
    /\ [][StreamsNext]_<<part, feedDataVars, websocketPart, readerPart, logPart, bootPart>>
    /\ StreamsFairness

\* Feed data: the latest value is the newest that came, and only the first data of a feed
\* may be missing from the table.
FeedDataKept == NewestIsLatest /\ OnlyFirstsMissing

\* Websocket helper: a connection that is read from carries all subscriptions, and one
\* stays behind only when a start was refused.
ConnectionsAreUsed == W!ReadsAreSubscribed /\ W!LeaksAreRefused

\* Websocket helper: a fetcher that was not stopped is connected again and again.
Reconnects == W!Reconnects

\* Chain reader: the price is that of the newest event that was passed on, and a broken
\* subscription is made again.
SwapsAreFollowed == []U!PriceIsNewest /\ U!Resubscribes

\* Logs: no log is lost unless something failed, and every log arrives unless the consumer
\* is stuck, which only its own errors in the buffer make it.
LogsGetThrough == [](G!StuckOnlyByErrors /\ G!LogsKept) /\ G!LogsArrive

\* Peers: at rest all nodes know each other, but for syncs that overlapped, and a node that
\* is gone leaves the table.
PeersConnect == []B!MeshAtRest /\ B!DeadLeave

=============================================================================
