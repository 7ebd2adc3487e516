------------------------------ MODULE Listener ------------------------------
(***************************************************************************)
(* The listener of a first generation service: it follows the blocks of    *)
(* the chain and gives the events of one coordinator to the workers.       *)
(* Three kinds of jobs run at the same time over queues in Redis: latest   *)
(* (repeated while the listener is active), history (one block, retried)   *)
(* and processEvent.  Behind the API two tables remember the last observed *)
(* block and the blocks that are not processed yet; with the queues they   *)
(* are what is left after a crash.                                         *)
(*                                                                         *)
(* Every block has one event of the service.  A call that fails, to the    *)
(* API, the chain or Redis, ends the job or the command it belongs to.     *)
(***************************************************************************)
EXTENDS Naturals, Bags, BagsExt, FiniteSets, FiniteSetsExt

CONSTANTS
    MaxBlock,       \* bound on the height of the chain
    Foreign,        \* blocks whose event has a foreign event before it: processFn gives nothing
    Slot,           \* latest jobs that may run at once
    Attempts,       \* of LISTENER_JOB_SETTINGS
    MaxFailures,    \* bound on the calls that fail
    MaxStops        \* bound on crashes and exits: within it a job is found stalled at most once

VARIABLES
    head,           \* the latest block of the chain; 2 at first, as block 0 is no row's
    observed,       \* observed_blocks; 0 is no row
    unprocessed,    \* unprocessed_blocks
    active,         \* the listener is in the list in Redis
    repeatable,     \* the latest queue has its repeatable job
    up,             \* the process runs
    contract,       \* State.contracts has the contract
    command,        \* clear, add or remove: its place and its locals
    latestJobs,     \* slot -> the job that runs in it
    stalled,        \* a latest job a crash interrupted
    history,        \* bag of the jobs of the history queue
    events,         \* bag of the jobs of the processEvent queue
    named,          \* blocks the history queue has a job with an id for, ended ones too
    submitted,      \* blocks whose event was added to the worker queue
    failures, stops,
    first,          \* history: the first block to be followed
    givenUp,        \* history: blocks a job has given up since the last add
    dropped         \* history: blocks given up before they were in unprocessed_blocks

tables == <<observed, unprocessed>>
queues == <<history, events, named>>
ghosts == <<first, givenUp, dropped>>
process == <<up, contract, command>>
listenerVars == <<head, tables, active, repeatable, process, latestJobs, stalled, queues, submitted,
                  failures, stops, ghosts>>

Block == 2 .. MaxBlock
NoCommand == [at |-> "none", latest |-> 0, observed |-> 0, todo |-> {}, then |-> "none"]
NoJob == [at |-> "idle", latest |-> 0, todo |-> {}]

ListenerInit ==
    /\ head = 2 /\ observed = 0 /\ unprocessed = {} /\ active = FALSE /\ repeatable = FALSE
    /\ up = FALSE /\ contract = FALSE /\ command = NoCommand
    /\ latestJobs = [s \in Slot |-> NoJob] /\ stalled = FALSE
    /\ history = EmptyBag /\ events = EmptyBag /\ named = {} /\ submitted = {}
    /\ failures = 0 /\ stops = 0 /\ first = 0 /\ givenUp = {} /\ dropped = {}

Fails == failures < MaxFailures /\ failures' = failures + 1

\* The queries of the API: a later block is never replaced, a block is recorded once.
UpsertObservedBlock(n) == observed' = IF observed < n THEN n ELSE observed
InsertUnprocessedBlocks(blocks) == unprocessed' = unprocessed \cup blocks
DeleteUnprocessedBlock(b) == unprocessed' = unprocessed \ {b}

HistoryJob(b) == [block |-> b, tries |-> 0, at |-> "wait"]
EventsJob(b) == [block |-> b, tries |-> 0, at |-> "wait"]

-----------------------------------------------------------------------------
(* Commands: clear and add when the process starts, clear when it exits,   *)
(* add and remove at the watchman's.                                       *)

Goes(at) == command' = [command EXCEPT !.at = at]

NewBlock ==
    /\ head < MaxBlock /\ head' = head + 1
    /\ UNCHANGED <<tables, active, repeatable, process, latestJobs, stalled, queues, submitted, failures,
                   stops, ghosts>>

\* The workers are made after clear.
listenerService ==
    /\ ~up /\ command = NoCommand
    /\ command' = [NoCommand EXCEPT !.at = "remove", !.then = "start"]
    /\ UNCHANGED <<head, tables, active, repeatable, up, contract, latestJobs, stalled, queues, submitted,
                   failures, stops, ghosts>>

Running(bag) == \E j \in BagToSet(bag) : j.at # "wait"

\* The workers close when their jobs have ended.
handleExit ==
    /\ up /\ command = NoCommand /\ stops < MaxStops /\ stops' = stops + 1
    /\ \A s \in Slot : latestJobs[s] = NoJob
    /\ ~Running(history) /\ ~Running(events)
    /\ up' = FALSE /\ command' = [NoCommand EXCEPT !.at = "remove", !.then = "exit"]
    /\ UNCHANGED <<head, tables, active, repeatable, contract, latestJobs, stalled, queues, submitted,
                   failures, ghosts>>

Activate ==
    /\ up /\ command = NoCommand /\ ~active
    /\ command' = [NoCommand EXCEPT !.at = "setActive"]
    /\ UNCHANGED <<head, tables, active, repeatable, up, contract, latestJobs, stalled, queues, submitted,
                   failures, stops, ghosts>>

Deactivate ==
    /\ up /\ command = NoCommand /\ active /\ repeatable /\ stops < MaxStops /\ stops' = stops + 1
    /\ command' = [NoCommand EXCEPT !.at = "remove"]
    /\ UNCHANGED <<head, tables, active, repeatable, up, contract, latestJobs, stalled, queues, submitted,
                   failures, ghosts>>

\* The process ends: the latest jobs that ran and the others go back to their queues.
Requeued(bag) ==
    LET waits(j) == [j EXCEPT !.at = "wait"]
        jobs == BagToSet(bag)
    IN  [k \in {waits(j) : j \in jobs} |->
            MapThenSumSet(LAMBDA j : bag[j], {j \in jobs : waits(j) = k})]

Dies ==
    /\ up' = FALSE /\ contract' = FALSE /\ command' = NoCommand
    /\ latestJobs' = [s \in Slot |-> NoJob]
    /\ stalled' = (stalled \/ \E s \in Slot : latestJobs[s] # NoJob)
    /\ history' = Requeued(history) /\ events' = Requeued(events)

Crash ==
    /\ up \/ command # NoCommand
    /\ stops < MaxStops /\ stops' = stops + 1
    /\ Dies
    /\ UNCHANGED <<head, tables, active, repeatable, named, submitted, failures, ghosts>>

\* remove: no repeatable job is an error, and clear, which calls it, fails with it: the
\* process does not start.
remove ==
    /\ command.at = "remove"
    /\ \/ active /\ ~repeatable /\ command' = NoCommand /\ UNCHANGED repeatable
       \/ ~active /\ Goes("unset") /\ UNCHANGED repeatable
       \/ repeatable /\ repeatable' = FALSE /\ Goes("unset")
    /\ UNCHANGED <<head, tables, active, up, contract, latestJobs, stalled, queues, submitted, failures,
                   stops, ghosts>>

unset ==
    /\ command.at = "unset"
    /\ active' = FALSE /\ contract' = FALSE
    /\ IF command.then = "start" THEN up' = TRUE /\ Goes("setActive") ELSE command' = NoCommand /\ UNCHANGED up
    /\ UNCHANGED <<head, tables, repeatable, latestJobs, stalled, queues, submitted, failures, stops, ghosts>>

setActive ==
    /\ command.at = "setActive"
    /\ active' = TRUE /\ contract' = TRUE /\ Goes("latest")
    /\ UNCHANGED <<head, tables, repeatable, up, latestJobs, stalled, queues, submitted, failures, stops, ghosts>>

latestBlockNumber ==
    /\ command.at = "latest"
    /\ command' = [command EXCEPT !.at = "observed", !.latest = head]
    /\ UNCHANGED <<head, tables, active, repeatable, up, contract, latestJobs, stalled, queues, submitted,
                   failures, stops, ghosts>>

getObservedBlock ==
    /\ command.at = "observed"
    /\ command' = [command EXCEPT !.at = "unprocessed", !.observed = observed]
    /\ UNCHANGED <<head, tables, active, repeatable, up, contract, latestJobs, stalled, queues, submitted,
                   failures, stops, ghosts>>

\* First the unprocessed blocks are due, then those since the observed one.
getUnprocessedBlocks ==
    /\ command.at = "unprocessed"
    /\ LET since == IF command.observed = 0 THEN {} ELSE command.observed + 1 .. command.latest
       IN  command' = [command EXCEPT !.at = "history",
                                      !.todo = ({1} \X unprocessed) \cup ({2} \X since)]
    /\ givenUp' = givenUp \ unprocessed
    /\ UNCHANGED <<head, tables, active, repeatable, up, contract, latestJobs, stalled, queues, submitted,
                   failures, stops, first, dropped>>

Before(x, y) == x[1] < y[1] \/ (x[1] = y[1] /\ x[2] <= y[2])

addBlockToHistoryQueue ==
    /\ command.at = "history" /\ command.todo # {}
    /\ LET x == CHOOSE y \in command.todo : \A z \in command.todo : Before(y, z)
       IN  /\ history' = BagAdd(history, HistoryJob(x[2]))
           /\ command' = [command EXCEPT !.todo = @ \ {x}]
    /\ UNCHANGED <<head, tables, active, repeatable, up, contract, latestJobs, stalled, events, named,
                   submitted, failures, stops, ghosts>>

upsertObservedBlock ==
    /\ command.at = "history" /\ command.todo = {}
    /\ UpsertObservedBlock(IF command.observed = 0 THEN command.latest - 1 ELSE command.latest)
    /\ first' = IF first = 0 THEN command.latest ELSE first
    /\ Goes("repeat")
    /\ UNCHANGED <<head, unprocessed, active, repeatable, up, contract, latestJobs, stalled, queues,
                   submitted, failures, stops, givenUp, dropped>>

addLatestJob ==
    /\ command.at = "repeat"
    /\ repeatable' = TRUE /\ command' = NoCommand
    /\ UNCHANGED <<head, tables, active, up, contract, latestJobs, stalled, queues, submitted, failures,
                   stops, ghosts>>

\* Nobody catches the error of a start: the process ends.
CommandFails ==
    /\ command # NoCommand /\ Fails
    /\ IF command.then = "start" THEN Dies
       ELSE command' = NoCommand /\ UNCHANGED <<up, contract, latestJobs, stalled, history, events>>
    /\ UNCHANGED <<head, tables, active, repeatable, named, submitted, stops, ghosts>>

CommandStep ==
    \/ remove \/ unset \/ setActive \/ latestBlockNumber \/ getObservedBlock \/ getUnprocessedBlocks
    \/ addBlockToHistoryQueue \/ upsertObservedBlock \/ addLatestJob

-----------------------------------------------------------------------------
(* latestJob.  When it fails before it has read both numbers it comes      *)
(* again, as if it had not started.                                        *)

Job(s, job) == latestJobs' = [latestJobs EXCEPT ![s] = job]
At(s, at) == up /\ latestJobs[s].at = at

LatestStarts(s) ==
    /\ At(s, "idle")
    /\ \/ repeatable /\ UNCHANGED stalled
       \/ stalled /\ stalled' = FALSE
    /\ Job(s, [NoJob EXCEPT !.at = "observed", !.latest = head])
    /\ UNCHANGED <<head, tables, active, repeatable, process, queues, submitted, failures, stops, ghosts>>

\* The blocks to scan; none as long as there is no observed block.  The observed block can
\* be ahead of the latest one, which was read before it.
Unobserved(latest) ==
    IF observed = 0 THEN {}
    ELSE (IF latest < observed THEN latest ELSE observed + 1) .. latest

LatestReads(s) ==
    /\ At(s, "observed")
    /\ LET blocks == Unobserved(latestJobs[s].latest)
       IN  Job(s, IF blocks = {} THEN NoJob
                  ELSE [latestJobs[s] EXCEPT !.at = "insert", !.todo = blocks])
    /\ UNCHANGED <<head, tables, active, repeatable, process, stalled, queues, submitted, failures, stops, ghosts>>

LatestInserts(s) ==
    /\ At(s, "insert")
    /\ InsertUnprocessedBlocks(latestJobs[s].todo)
    /\ Job(s, [latestJobs[s] EXCEPT !.at = "upsert"])
    /\ UNCHANGED <<head, observed, active, repeatable, process, stalled, queues, submitted, failures, stops, ghosts>>

LatestUpserts(s) ==
    /\ At(s, "upsert")
    /\ UpsertObservedBlock(latestJobs[s].latest)
    /\ Job(s, [latestJobs[s] EXCEPT !.at = "query"])
    /\ UNCHANGED <<head, unprocessed, active, repeatable, process, stalled, queues, submitted, failures, stops, ghosts>>

Done(s, b) == IF latestJobs[s].todo = {b} THEN NoJob ELSE [latestJobs[s] EXCEPT !.todo = @ \ {b}]

LatestQueries(s) ==
    /\ At(s, "query") /\ contract
    /\ LET b == Min(latestJobs[s].todo)
       IN  events' = BagAdd(events, EventsJob(b)) /\ Job(s, Done(s, b))
    /\ UNCHANGED <<head, tables, active, repeatable, process, stalled, history, named, submitted, failures,
                   stops, ghosts>>

\* A contract that is not active yet, or no longer, cannot be queried.
LatestFails(s) ==
    /\ up /\ latestJobs[s].at \in {"insert", "upsert", "query"}
    /\ \/ Fails
       \/ At(s, "query") /\ ~contract /\ UNCHANGED failures
    /\ Job(s, [latestJobs[s] EXCEPT !.at = "catch"])
    /\ UNCHANGED <<head, tables, active, repeatable, process, stalled, queues, submitted, stops, ghosts>>

\* A mutant: the error is caught, and the rest goes nowhere.
LatestSwallows(s) ==
    /\ At(s, "catch")
    /\ Job(s, NoJob)
    /\ UNCHANGED <<head, tables, active, repeatable, process, stalled, queues, submitted, failures, stops, ghosts>>

\* The rest goes to the history queue, which takes no second job with an id.
LatestCatches(s) ==
    /\ At(s, "catch")
    /\ LET b == Min(latestJobs[s].todo)
       IN  /\ history' = IF b \in named THEN history ELSE BagAdd(history, HistoryJob(b))
           /\ named' = named \cup {b}
           /\ Job(s, Done(s, b))
    /\ UNCHANGED <<head, tables, active, repeatable, process, stalled, events, submitted, failures, stops, ghosts>>

\* The job is repeated as any other, and begins after what is observed: what is left of this
\* one is in the table only.
LatestCatchFails(s) ==
    /\ At(s, "catch") /\ Fails
    /\ Job(s, NoJob)
    /\ givenUp' = givenUp \cup {b \in latestJobs[s].todo : b <= observed}
    /\ UNCHANGED <<head, tables, active, repeatable, process, stalled, queues, submitted, stops, first, dropped>>

LatestStep(s) ==
    \/ LatestStarts(s) \/ LatestReads(s) \/ LatestInserts(s) \/ LatestUpserts(s) \/ LatestQueries(s)
    \/ (~contract /\ LatestFails(s)) \/ LatestCatches(s)

-----------------------------------------------------------------------------
(* historyJob and processEventJob.                                         *)

Swapped(bag, j, k) == BagAdd(BagRemove(bag, j), k)

Retried(bag, j) ==
    IF j.tries + 1 < Attempts THEN Swapped(bag, j, [j EXCEPT !.tries = @ + 1, !.at = "wait"])
    ELSE BagRemove(bag, j)

GivesUp(j) == givenUp' = IF j.tries + 1 < Attempts THEN givenUp ELSE givenUp \cup {j.block}

HistoryInserts(j) ==
    /\ up /\ j.at = "wait"
    /\ InsertUnprocessedBlocks({j.block})
    /\ history' = Swapped(history, j, [j EXCEPT !.at = "query"])
    /\ UNCHANGED <<head, observed, active, repeatable, process, latestJobs, stalled, events, named, submitted,
                   failures, stops, ghosts>>

HistoryQueries(j) ==
    /\ up /\ j.at = "query" /\ contract
    /\ history' = BagRemove(history, j) /\ events' = BagAdd(events, EventsJob(j.block))
    /\ UNCHANGED <<head, tables, active, repeatable, process, latestJobs, stalled, named, submitted, failures,
                   stops, ghosts>>

HistoryFails(j) ==
    /\ up
    /\ \/ Fails
       \/ j.at = "query" /\ ~contract /\ UNCHANGED failures
    /\ history' = Retried(history, j) /\ GivesUp(j)
    /\ dropped' = IF j.tries + 1 = Attempts /\ j.block \notin unprocessed THEN dropped \cup {j.block} ELSE dropped
    /\ UNCHANGED <<head, tables, active, repeatable, process, latestJobs, stalled, events, named, submitted,
                   stops, first>>

\* processFn gives nothing for a foreign event, and the job fails before it comes to ours.
EventsSubmits(j) ==
    /\ up /\ j.at = "wait" /\ j.block \notin Foreign
    /\ submitted' = submitted \cup {j.block}
    /\ events' = Swapped(events, j, [j EXCEPT !.at = "delete"])
    /\ UNCHANGED <<head, tables, active, repeatable, process, latestJobs, stalled, history, named, failures,
                   stops, ghosts>>

EventsDeletes(j) ==
    /\ up /\ j.at = "delete"
    /\ DeleteUnprocessedBlock(j.block)
    /\ events' = BagRemove(events, j)
    /\ UNCHANGED <<head, observed, active, repeatable, process, latestJobs, stalled, history, named, submitted,
                   failures, stops, ghosts>>

EventsFails(j) ==
    /\ up
    /\ \/ Fails
       \/ j.block \in Foreign /\ UNCHANGED failures
    /\ events' = Retried(events, j) /\ GivesUp(j)
    /\ UNCHANGED <<head, tables, active, repeatable, process, latestJobs, stalled, history, named, submitted,
                   stops, first, dropped>>

HistoryStep ==
    \E j \in BagToSet(history) : HistoryInserts(j) \/ HistoryQueries(j) \/ (~contract /\ HistoryFails(j))
EventsStep ==
    \E j \in BagToSet(events) : EventsSubmits(j) \/ EventsDeletes(j) \/ (j.block \in Foreign /\ EventsFails(j))

ListenerNext ==
    \/ NewBlock \/ listenerService \/ handleExit \/ Activate \/ Deactivate \/ Crash
    \/ CommandStep \/ CommandFails
    \/ \E s \in Slot : LatestStep(s) \/ LatestFails(s) \/ LatestCatchFails(s)
    \/ HistoryStep \/ (\E j \in BagToSet(history) : HistoryFails(j))
    \/ EventsStep \/ (\E j \in BagToSet(events) : EventsFails(j))

-----------------------------------------------------------------------------
(* Properties.                                                             *)

Follows(b) == first # 0 /\ first <= b

InQueues(b) == \E j \in BagToSet(history) \cup BagToSet(events) : j.block = b

\* No block that counts as observed is forgotten, wherever a crash, an exit or a failure
\* comes: its event was given to the workers, or a job or the table still has it; only a
\* history job that never reached the table gives a block up for good (latestJob,
\* historyJob, processEventJob, add).
BlocksKept ==
    \A b \in Block : Follows(b) /\ b <= observed =>
        b \in submitted \cup unprocessed \cup dropped \/ InQueues(b)

\* In the list without a job: clear, add and remove all fail from now on.
Wedged == active /\ ~repeatable /\ command = NoCommand

Deactivated == up /\ ~active /\ command = NoCommand

\* The event of every block reaches the workers as long as a process that ended is started
\* again, unless a job used up its attempts (the block then waits for the next start), a
\* foreign event is in its way, the listener is deactivated, or a failure within add or
\* remove has left it in the list without its repeatable job.
EventsSubmitted ==
    \A b \in Block \ Foreign : Follows(b) /\ b <= head
        ~> b \in submitted \cup givenUp \/ Deactivated \/ Wedged

=============================================================================
