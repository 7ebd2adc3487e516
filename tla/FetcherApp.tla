----------------------------- MODULE FetcherApp -----------------------------
(***************************************************************************)
(* The fetcher app: commands of the admin come over the message bus, each  *)
(* is handled by a goroutine of its own, and starts, stops or rebuilds the *)
(* app's components: fetchers and local aggregators of each config, the    *)
(* writers of feed data and of local aggregates, the websocket fetcher.    *)
(* A component that runs is a goroutine, the loop, that ends when it sees  *)
(* its context cancelled.                                                  *)
(*                                                                         *)
(* A component is <<kind, config, generation>>: initialize makes new ones. *)
(* Its n-th Run has context n.  The assignments of one Run and those of    *)
(* one stop are a step each.                                               *)
(***************************************************************************)
EXTENDS Integers, Sequences, FiniteSets, SequencesExt

CONSTANTS
    Config,         \* the configs in the database
    HttpConfig,     \* those with feeds that are fetched by HTTP requests
    BusSize,        \* msgBuffer of the bus
    MaxCommands,    \* bound on commands of the admin
    MaxHandlers,    \* bound on commands under way at the same time
    MaxFailures     \* bound on failed queries and connections

VARIABLES
    inbox,          \* the bus's channel of the fetcher
    sent,           \* number of commands published
    handlers,       \* goroutines that handle a command: what is left to do
    answer,         \* the last answer to a command
    app,            \* the components the app points to
    generation,
    comp,           \* each component: isRunning, goroutines started that have not begun
                    \* its Run, the number of Runs and those that are cancelled
    loops,          \* of a component: its run, and the run whose context it waits for
    failures,
    orderly,        \* the admin waited for answers and for loops to end, and
                    \* started only what was stopped
    lost            \* a stopped writer has taken local aggregates from its channel

busVars == <<inbox, sent>>
appVars == <<inbox, sent, handlers, answer, app, generation, comp, loops, failures, orderly, lost>>

ASSUME FetcherAssumption ==
    HttpConfig \subseteq Config /\ {BusSize, MaxCommands, MaxHandlers, MaxFailures} \subseteq Nat

Lab(g) == <<"localAggregateBulkWriter", "app", g>>
Fdb(g) == <<"feedDataBulkWriter", "app", g>>
Ws == <<"websocketFetcher", "app", 0>>

Of(kind) == {o \in app : o[1] = kind}

New == [isRunning |-> FALSE, begun |-> 0, runs |-> 0, cancelled |-> {}]

\* The loops of o that see no cancelled context.
Live(o) == {l \in loops : l.of = o /\ l.sees \notin comp[o].cancelled}

\* The loops that see their context cancelled; the writer of local aggregates waits for
\* the context of the app, which is never cancelled.
Ending == {l \in loops : /\ l.of[1] # "localAggregateBulkWriter"
                         /\ l.sees \in comp[l.of].cancelled}

Busy == {h \in DOMAIN handlers : handlers[h].todo # <<>>}

Idle == inbox = <<>> /\ Busy = {} /\ \A o \in DOMAIN comp : comp[o].begun = 0

StartAll == << <<"startAll", "fetcher">>, <<"go", "localAggregateBulkWriter">>,
               <<"startAll", "localAggregator">>, <<"go", "websocketFetcher">>,
               <<"startAll", "feedDataBulkWriter">> >>

StopAll == << <<"stopWs">>, <<"stopAll", "fetcher">>, <<"stopAll", "localAggregator">>,
              <<"stopAll", "localAggregateBulkWriter">>, <<"stopAll", "feedDataBulkWriter">> >>

Initialize(configs) ==
    << <<"configs">> >>
    \o FlattenSeq([i \in DOMAIN configs |-> << <<"add", "fetcher", configs[i]>>,
                                               <<"add", "localAggregator", configs[i]>> >>])
    \o << <<"writer">>, <<"proxies">>, <<"websocketFetcher">> >>

Programs(cmd) ==
    CASE cmd = "start" -> {StartAll}
      [] cmd = "stop" -> {StopAll}
      [] cmd = "refresh" -> {StopAll \o Initialize(s) \o StartAll : s \in SetToSeqs(Config)}

\* Run has initialized the app, subscribed to the bus and started the components.
FetcherInit ==
    /\ inbox = <<>> /\ sent = 0 /\ failures = 0 /\ orderly = TRUE /\ lost = FALSE
    /\ generation = 1
    /\ app = ({"fetcher"} \X HttpConfig \X {1}) \cup ({"localAggregator"} \X Config \X {1})
                \cup {Lab(1), Fdb(1), Ws}
    /\ comp = [o \in app |-> [New EXCEPT !.isRunning = TRUE, !.runs = 1]]
    /\ loops = {[of |-> o, run |-> 1, sees |-> 1] : o \in app}
    /\ handlers = <<>>
    /\ answer = [cmd |-> "run", ok |-> TRUE]

-----------------------------------------------------------------------------
(* The bus.                                                                *)

\* The admin sends a command: dropped with an error when the channel is full.
Publish(cmd) ==
    /\ sent < MaxCommands /\ Len(inbox) + Cardinality(Busy) < MaxHandlers
    /\ sent' = sent + 1
    /\ inbox' = IF Len(inbox) < BusSize THEN Append(inbox, cmd) ELSE inbox
    /\ orderly' = (/\ orderly /\ Idle
                   /\ Ending = {}
                   /\ cmd = "start" => \A o \in app : ~comp[o].isRunning /\ Live(o) = {})
    /\ UNCHANGED <<handlers, answer, app, generation, comp, loops, failures, lost>>

\* The subscription's goroutine starts one for each command.
handleMessage ==
    /\ inbox # <<>>
    /\ inbox' = Tail(inbox)
    /\ \E p \in Programs(Head(inbox)) :
          handlers' = Append(handlers, [cmd |-> Head(inbox), todo |-> p])
    /\ UNCHANGED <<sent, answer, app, generation, comp, loops, failures, orderly, lost>>

-----------------------------------------------------------------------------
(* The steps of a goroutine h.                                             *)

At(h, op) == handlers[h].todo # <<>> /\ Head(handlers[h].todo)[1] = op

Arg(h) == Head(handlers[h].todo)[2]

\* h goes on with steps and what follows; after the last step of a command it answers.
Goes(h, steps) ==
    LET rest == steps \o Tail(handlers[h].todo) IN
    /\ handlers' = [handlers EXCEPT ![h].todo = rest]
    /\ answer' = IF rest = <<>> THEN [cmd |-> handlers[h].cmd, ok |-> TRUE] ELSE answer

\* h returns an error.
Fails(h) ==
    /\ handlers' = [handlers EXCEPT ![h].todo = <<>>]
    /\ answer' = [cmd |-> handlers[h].cmd, ok |-> FALSE]

\* startAllFetchers, startAllLocalAggregators and startFeedDataBulkWriter: one component
\* after the other, those that are running are left alone.
startAllOf(h) ==
    /\ At(h, "startAll")
    /\ \E s \in SetToSeqs(Of(Arg(h))) : Goes(h, [i \in DOMAIN s |-> <<"start", s[i]>>])
    /\ UNCHANGED <<comp, loops>>

startComponent(h) ==
    /\ At(h, "start")
    /\ Goes(h, IF comp[Arg(h)].isRunning THEN <<>> ELSE << <<"run", Arg(h)>> >>)
    /\ UNCHANGED <<comp, loops>>

\* The writer of local aggregates and the websocket fetcher are started whether or not
\* they run, and become running when the new goroutine gets to it.
startGoroutine(h) ==
    /\ At(h, "go")
    /\ Goes(h, <<>>)
    /\ LET o == CHOOSE o \in app : o[1] = Arg(h) IN comp' = [comp EXCEPT ![o].begun = @ + 1]
    /\ UNCHANGED loops

\* Run of o: a new context and a loop that waits for it; begun goroutines are left to start.
Run(o, begun) ==
    LET n == comp[o].runs + 1 IN
    /\ comp' = [comp EXCEPT ![o].isRunning = TRUE, ![o].runs = n, ![o].begun = begun]
    /\ loops' = loops \cup {[of |-> o, run |-> n, sees |-> n]}

runComponent(h) ==
    /\ At(h, "run") /\ Goes(h, <<>>)
    /\ Run(Arg(h), comp[Arg(h)].begun)

\* The components os that are running are cancelled.
Stopped(os) ==
    [o \in DOMAIN comp |->
        IF o \in os /\ comp[o].isRunning
        THEN [comp[o] EXCEPT !.isRunning = FALSE, !.cancelled = @ \cup {comp[o].runs}]
        ELSE comp[o]]

\* Marked as stopped only (a mutant).
StoppedUncancelled(os) ==
    [o \in DOMAIN comp |-> IF o \in os THEN [comp[o] EXCEPT !.isRunning = FALSE] ELSE comp[o]]

stop(os) == Stopped(os)

stopAllOf(h) ==
    /\ At(h, "stopAll")
    /\ Goes(h, <<>>)
    /\ comp' = stop(Of(Arg(h)))
    /\ UNCHANGED loops

\* The websocket fetcher has a cancel function once it was started.
stopWs(h) ==
    /\ At(h, "stopWs")
    /\ Goes(h, <<>>)
    /\ comp' = Stopped({Ws})
    /\ UNCHANGED loops

CommandStep(h) ==
    /\ \/ startAllOf(h) \/ startComponent(h) \/ startGoroutine(h) \/ runComponent(h)
       \/ stopAllOf(h) \/ stopWs(h)
    /\ UNCHANGED <<busVars, app, generation, failures, orderly, lost>>

-----------------------------------------------------------------------------
(* initialize, query by query.                                             *)

\* The components in made are new, and the app's components are members.
Makes(made, members) ==
    /\ app' = members
    /\ comp' = [o \in made \ DOMAIN comp |-> New] @@ comp

\* The lists are emptied and the writer of local aggregates, with its channel, is new.
getConfigs(h) ==
    /\ At(h, "configs") /\ Goes(h, <<>>)
    /\ generation' = generation + 1
    /\ Makes({Lab(generation + 1)},
             (app \ (Of("fetcher") \cup Of("localAggregator") \cup Of("localAggregateBulkWriter")))
                \cup {Lab(generation + 1)})

Configs(h) == getConfigs(h)

\* The config's feeds are read: without HTTP feeds it has no fetcher.
getFeeds(h) ==
    /\ At(h, "add") /\ Goes(h, <<>>)
    /\ LET c == Head(handlers[h].todo)[3]
           new == {<<Arg(h), c, generation>>}
                    \ (IF c \in HttpConfig THEN {} ELSE {<<"fetcher", c, generation>>}) IN
       Makes(new, app \cup new)
    /\ UNCHANGED generation

newFeedDataBulkWriter(h) ==
    /\ At(h, "writer") /\ Goes(h, <<>>)
    /\ Makes({Fdb(generation)}, (app \ Of("feedDataBulkWriter")) \cup {Fdb(generation)})
    /\ UNCHANGED generation

\* The proxies are read, the websocket fetcher reads its feeds and connects to the chains.
\* (Its list of providers, which grows with each refresh, is not followed here.)
getProxies(h) ==
    /\ At(h, "proxies") \/ At(h, "websocketFetcher")
    /\ Goes(h, <<>>)
    /\ UNCHANGED <<app, comp, generation>>

initialize(h) ==
    /\ Configs(h) \/ getFeeds(h) \/ newFeedDataBulkWriter(h) \/ getProxies(h)
    /\ UNCHANGED <<busVars, loops, failures, orderly, lost>>

initializeFails(h) ==
    /\ failures < MaxFailures
    /\ \E op \in {"configs", "add", "proxies", "websocketFetcher"} : At(h, op)
    /\ Fails(h)
    /\ failures' = failures + 1
    /\ UNCHANGED <<busVars, app, generation, comp, loops, orderly, lost>>

-----------------------------------------------------------------------------
(* The goroutines of components.                                           *)

GoroutineRuns(o) ==
    /\ comp[o].begun > 0
    /\ Run(o, comp[o].begun - 1)
    /\ UNCHANGED <<busVars, handlers, answer, app, generation, failures, orderly, lost>>

\* They end, here all at once: one that has ended differs from one that never ticks again
\* only for the admin, who waits for all of them.
LoopsEnd ==
    /\ Ending # {}
    /\ loops' = loops \ Ending
    /\ UNCHANGED <<busVars, handlers, answer, app, generation, comp, failures, orderly, lost>>

\* A tick, or the end of a job: the loop waits for the context its component has now,
\* also when the one it waited for was cancelled in the meantime.
LoopTicks(l) ==
    /\ l.of[1] \in {"fetcher", "localAggregator", "feedDataBulkWriter"}
    /\ l.sees # comp[l.of].runs
    /\ loops' = (loops \ {l}) \cup {[l EXCEPT !.sees = comp[l.of].runs]}
    /\ UNCHANGED <<busVars, handlers, answer, app, generation, comp, failures, orderly, lost>>

\* The job of a writer whose context is cancelled takes the aggregates of the running
\* local aggregators from the channel and cannot store them.
bulkWriterJob(l) ==
    /\ l.of \in Of("localAggregateBulkWriter") /\ l.run \in comp[l.of].cancelled
    /\ \E o \in Of("localAggregator") : Live(o) # {}
    /\ lost' = TRUE
    /\ UNCHANGED <<busVars, handlers, answer, app, generation, comp, loops, failures, orderly>>

FetcherNext ==
    \/ \E cmd \in {"start", "stop", "refresh"} : Publish(cmd)
    \/ handleMessage
    \/ \E h \in Busy : CommandStep(h) \/ initialize(h) \/ initializeFails(h)
    \/ \E o \in DOMAIN comp : GoroutineRuns(o)
    \/ LoopsEnd
    \/ \E l \in loops : LoopTicks(l) \/ bulkWriterJob(l)

-----------------------------------------------------------------------------

\* What a successful answer means once nothing else is under way: after stop nothing
\* runs, after start and refresh exactly the app's components do, with none left over
\* from before initialize.
AnswersAreTrue ==
    orderly /\ Idle /\ answer.ok =>
        \A o \in DOMAIN comp :
            Cardinality(Live(o)) = IF answer.cmd # "stop" /\ o \in app THEN 1 ELSE 0

\* Whatever the admin does: a component that says it is running has a loop, so that the
\* next start may skip it.
RunningHasLoop == \A o \in DOMAIN comp : comp[o].isRunning => Live(o) # {}

\* With an orderly admin local aggregates are lost to a stopped writer only after a start
\* command, which starts it again; a refresh makes a new one with a channel of its own.
RefreshLosesNothing ==
    orderly /\ lost => \E h \in DOMAIN handlers : handlers[h].cmd = "start"

=============================================================================
