---------------------------- MODULE LogPipeline -----------------------------
(***************************************************************************)
(* The way of an error log from a service to the logs table: the service's *)
(* logger writes it into a bounded buffer, one loop drains the buffer and  *)
(* posts it in batches to logscribe, whose handler puts the batch on a     *)
(* channel that a ticker copies into the table.  The loop reports its own  *)
(* errors with the same logger, into the buffer only it drains.            *)
(***************************************************************************)
EXTENDS Naturals, FiniteSets, SequencesExt

CONSTANTS
    BufferSize,    \* capacity of the consumer's buffer
    BatchSize,     \* ProcessLogsBatchSize
    ChannelSize,   \* logsChannelSize
    MaxLogs,       \* bound on the service's logs; a log is its number
    MaxFailures    \* bound on failures of requests, copies and of logscribe

VARIABLES
    written,       \* the service's logs
    bare,          \* those without a message
    buffer,        \* logs; 0 is one of the loop's own
    loop,          \* the goroutine Run: phase, logs to post, batch, errors to report
    handlers,      \* batches whose handler waits for the channel
    channel,
    logs,          \* the table
    failures,
    lost           \* history: logs that a failure lost

consumerPart == <<written, bare, buffer, loop>>
logscribePart == <<handlers, channel, logs>>
logVars == <<consumerPart, logscribePart, failures, lost>>

Idle == [phase |-> "wait", todo |-> <<>>, taken |-> 0, batch |-> <<>>, errors |-> 0]

LogInit ==
    /\ written = 0 /\ bare = {} /\ buffer = <<>> /\ loop = Idle
    /\ handlers = {} /\ channel = <<>> /\ logs = {}
    /\ failures = 0 /\ lost = {}

Room == Len(buffer) < BufferSize

-----------------------------------------------------------------------------
(* The consumer.                                                           *)

\* A goroutine of the service logs an error; it waits while the buffer is full.
Write ==
    /\ written < MaxLogs /\ Room
    /\ written' = written + 1
    /\ buffer' = Append(buffer, written')
    /\ bare' \in {bare, bare \cup {written'}}
    /\ UNCHANGED <<loop, logscribePart, failures, lost>>

processBatch ==
    /\ loop.phase = "wait" /\ buffer # <<>>
    /\ loop' = [Idle EXCEPT !.phase = "extract", !.todo = buffer]
    /\ buffer' = <<>>
    /\ UNCHANGED <<written, bare, logscribePart, failures, lost>>

\* A log without a message cannot be extracted; the loop logs that, and waits for
\* room in its own buffer.
extractLogscribeEntry ==
    LET log == Head(loop.todo)
    IN  /\ loop' = [loop EXCEPT !.todo = Tail(@), !.taken = @ + 1,
                                !.batch = IF log \in bare THEN @ ELSE Append(@, log)]
        /\ IF log \in bare
           THEN Room /\ buffer' = Append(buffer, 0) /\ lost' = lost \cup {log}
           ELSE UNCHANGED <<buffer, lost>>

Extracts ==
    /\ loop.phase = "extract" /\ loop.todo # <<>> /\ loop.taken < BatchSize
    /\ extractLogscribeEntry
    /\ UNCHANGED <<written, bare, logscribePart, failures>>

AllTaken == loop.phase = "extract" /\ (loop.todo = <<>> \/ loop.taken = BatchSize)

\* Mutant: the next batch starts where this one started.
KeepsPlace(errors) ==
    loop' = [loop EXCEPT !.batch = <<>>, !.errors = @ + errors,
                         !.phase = IF loop.todo = <<>> THEN "report" ELSE "extract"]

\* An error does not keep the other batches from being posted.
NextBatch(errors) ==
    loop' = [loop EXCEPT !.batch = <<>>, !.taken = 0, !.errors = @ + errors,
                         !.phase = IF loop.todo = <<>> THEN "report" ELSE "extract"]

bulkPostLogEntries ==
    /\ AllTaken
    /\ IF loop.batch = <<>>
       THEN UNCHANGED <<handlers, channel>>
       ELSE channel' = Append(channel, loop.batch) /\ Len(channel) < ChannelSize /\ UNCHANGED handlers
    /\ NextBatch(0)
    /\ UNCHANGED <<written, bare, buffer, logs, failures, lost>>

\* The request fails, or logscribe takes it and answers too late.
PostFails ==
    /\ AllTaken /\ loop.batch # <<>> /\ failures < MaxFailures
    /\ \/ lost' = lost \cup ToSet(loop.batch) /\ UNCHANGED handlers
       \/ handlers' = handlers \cup {[batch |-> loop.batch]} /\ UNCHANGED lost
    /\ NextBatch(1)
    /\ failures' = failures + 1
    /\ UNCHANGED <<written, bare, buffer, channel, logs>>

\* Run logs each error that processBatch returns.
Reports ==
    /\ loop.phase = "report"
    /\ IF loop.errors > 0
       THEN Room /\ buffer' = Append(buffer, 0) /\ loop' = [loop EXCEPT !.errors = @ - 1]
       ELSE loop' = Idle /\ UNCHANGED buffer

Run == Reports /\ UNCHANGED <<written, bare, logscribePart, failures, lost>>

-----------------------------------------------------------------------------
(* Logscribe.                                                              *)

insertLogs(h) ==
    /\ h \in handlers /\ Len(channel) < ChannelSize
    /\ channel' = Append(channel, h.batch)
    /\ handlers' = handlers \ {h}
    /\ UNCHANGED <<consumerPart, logs, failures, lost>>

Channelled == UNION {ToSet(channel[k]) : k \in DOMAIN channel}

\* A copy that fails is not tried again.
BulkCopyLogs ==
    /\ channel # <<>>
    /\ channel' = <<>>
    /\ \/ logs' = logs \cup (Channelled \ {0}) /\ UNCHANGED <<failures, lost>>
       \/ /\ failures < MaxFailures /\ failures' = failures + 1
          /\ lost' = lost \cup Channelled /\ UNCHANGED logs
    /\ UNCHANGED <<consumerPart, handlers>>

\* Logscribe stops: what its channel and its handlers held is gone.
LogscribeRestarts ==
    /\ failures < MaxFailures /\ failures' = failures + 1
    /\ channel' = <<>> /\ handlers' = {}
    /\ lost' = lost \cup Channelled \cup UNION {ToSet(h.batch) : h \in handlers}
    /\ UNCHANGED <<consumerPart, logs>>

-----------------------------------------------------------------------------

Moves == processBatch \/ Extracts \/ bulkPostLogEntries \/ Run \/ BulkCopyLogs \/ \E h \in handlers : insertLogs(h)

LogNext == Write \/ Moves \/ PostFails \/ LogscribeRestarts

-----------------------------------------------------------------------------
(* Properties.                                                             *)

\* The loop waits for room in the buffer that only it drains.
Stuck ==
    /\ ~Room
    /\ \/ loop.phase = "report" /\ loop.errors > 0
       \/ loop.phase = "extract" /\ loop.todo # <<>> /\ loop.taken < BatchSize /\ Head(loop.todo) \in bare

\* The logger blocks itself, and with it every goroutine that logs, only after a
\* request failed or a log had no message (Run, bulkPostLogEntries).
StuckOnlyByErrors == Stuck => failures > 0 \/ bare # {}

\* A log is in one of the buffers or in the table, unless a failure lost it: an error
\* in one batch costs the other batches nothing.
LogsKept ==
    \A n \in 1 .. written :
        \/ n \in ToSet(buffer) \cup ToSet(loop.todo) \cup ToSet(loop.batch)
        \/ n \in Channelled \/ \E h \in handlers : n \in ToSet(h.batch)
        \/ n \in logs \/ n \in lost

\* Every log reaches the table or is lost by a failure, unless the loop blocks itself.
LogsArrive ==
    \A n \in 1 .. MaxLogs : written >= n ~> n \in logs \/ n \in lost \/ Stuck
=============================================================================
