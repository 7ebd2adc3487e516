---------------------------- MODULE AggregatorApp ----------------------------
(***************************************************************************)
(* The aggregator app of a node: commands of the admin start, stop and     *)
(* replace the aggregators of the configs, each of which runs Raft on a    *)
(* gossip topic of its own.                                                *)
(*                                                                         *)
(* The admin waits for the answer of a command before it gives the next    *)
(* one. What runs beside a command are the goroutines of the aggregators   *)
(* it stops: they leave their topic and close it some time later, and a    *)
(* host can join a topic again only once it is closed.                     *)
(***************************************************************************)
EXTENDS Integers, FiniteSets

CONSTANTS
    Config,
    MaxGeneration,    \* bound on signers made, and on aggregators made for a config
    MaxRuns           \* bound on starts of one aggregator

VARIABLES
    current,          \* a.Aggregators: the generation of a config's aggregator, 0 for none
    running,          \* isRunning of an aggregator <<config, generation>>
    runs,             \* how often it has been started
    done,             \* those of its runs whose context is cancelled
    sub,              \* the subscription goroutine of each of its runs
    topic,            \* its topic: "none", "joined" or "closed"
    signerOf,         \* the signer it was made with
    signer,           \* a.Signer, signers are numbered
    writer,           \* whether the bulk writer of global aggregates runs
    refresh,          \* the refresh under way: "no", "stopped" or "joining"
    todo,             \* the configs it has not made an aggregator for
    refreshFailed,    \* some refresh has failed
    answered          \* the last command that was answered with success

aggAppVars == <<current, running, runs, done, sub, topic, signerOf, signer, writer, refresh, todo,
                refreshFailed, answered>>

Agg == Config \X (1 .. MaxGeneration)
Joined(c) == \E g \in 1 .. MaxGeneration : topic[<<c, g>>] = "joined"
InMap == {<<c, current[c]>> : c \in {x \in Config : current[x] # 0}}

AggAppInit ==
    /\ current = [c \in Config |-> 1]
    /\ running = [a \in Agg |-> a[2] = 1]
    /\ runs = [a \in Agg |-> IF a[2] = 1 THEN 1 ELSE 0]
    /\ done = [a \in Agg |-> {}]
    /\ sub = [a \in Agg |-> [r \in 1 .. MaxRuns |-> IF a[2] = 1 /\ r = 1 THEN "new" ELSE "none"]]
    /\ topic = [a \in Agg |-> IF a[2] = 1 THEN "joined" ELSE "none"]
    /\ signerOf = [a \in Agg |-> IF a[2] = 1 THEN 1 ELSE 0]
    /\ signer = 1 /\ writer = TRUE
    /\ refresh = "no" /\ todo = {} /\ refreshFailed = FALSE /\ answered = "run"

-----------------------------------------------------------------------------
(* Starting and stopping.                                                  *)

\* Mutant: every aggregator of as is started, also those that run.
StartsAnyway(as) ==
    /\ \A a \in as : runs[a] < MaxRuns
    /\ running' = [a \in Agg |-> running[a] \/ a \in as]
    /\ runs' = [a \in Agg |-> IF a \in as THEN runs[a] + 1 ELSE runs[a]]
    /\ sub' = [a \in Agg |-> IF a \in as THEN [sub[a] EXCEPT ![runs'[a]] = "new"] ELSE sub[a]]

\* startAggregator, for those of as that do not run.
Starts(as) ==
    LET stopped == {a \in as : ~running[a]} IN
    /\ \A a \in stopped : runs[a] < MaxRuns
    /\ running' = [a \in Agg |-> running[a] \/ a \in as]
    /\ runs' = [a \in Agg |-> IF a \in stopped THEN runs[a] + 1 ELSE runs[a]]
    /\ sub' = [a \in Agg |-> IF a \in stopped THEN [sub[a] EXCEPT ![runs'[a]] = "new"]
                                              ELSE sub[a]]

\* stopAggregator, for those of as that run.
Stops(as) ==
    /\ running' = [a \in Agg |-> running[a] /\ a \notin as]
    /\ done' = [a \in Agg |-> IF a \in as /\ running[a] THEN done[a] \cup {runs[a]} ELSE done[a]]

Answer(c) == answered' = c

startAggregatorById(c) ==
    /\ refresh = "no" /\ current[c] # 0
    /\ Starts({<<c, current[c]>>}) /\ Answer("activate")
    /\ UNCHANGED <<current, done, topic, signerOf, signer, writer, refresh, todo, refreshFailed>>

stopAggregatorById(c) ==
    /\ refresh = "no" /\ current[c] # 0
    /\ Stops({<<c, current[c]>>}) /\ Answer("deactivate")
    /\ UNCHANGED <<current, runs, sub, topic, signerOf, signer, writer, refresh, todo, refreshFailed>>

StartApp ==
    /\ refresh = "no"
    /\ Starts(InMap) /\ writer' = TRUE /\ Answer("start")
    /\ UNCHANGED <<current, done, topic, signerOf, signer, refresh, todo, refreshFailed>>

StopApp ==
    /\ refresh = "no"
    /\ Stops(InMap) /\ writer' = FALSE /\ Answer("stop")
    /\ UNCHANGED <<current, runs, sub, topic, signerOf, signer, refresh, todo, refreshFailed>>

-----------------------------------------------------------------------------
(* The refresh.                                                            *)

RefreshStops ==
    /\ refresh = "no" /\ signer < MaxGeneration
    /\ writer' = FALSE /\ Stops(InMap) /\ Answer("none")
    /\ refresh' = "stopped"
    /\ UNCHANGED <<current, runs, sub, topic, signerOf, signer, todo, refreshFailed>>

\* What runs is stopped, and the map is a new one.
clearAggregators ==
    /\ current' = [c \in Config |-> 0]
    /\ Stops(InMap)

\* The configs are read, the bulk writer is a new one, and there is a new signer.
setAggregators ==
    /\ refresh = "stopped"
    /\ clearAggregators
    /\ signer' = signer + 1
    /\ refresh' = "joining" /\ todo' = {c \in Config : current'[c] = 0}
    /\ UNCHANGED <<runs, sub, topic, signerOf, writer, refreshFailed, answered>>

\* The configs cannot be read, or the signer cannot be made.
setAggregatorsFails ==
    /\ refresh = "stopped"
    /\ \/ UNCHANGED <<current, running, done>>
       \/ clearAggregators
    /\ refresh' = "no" /\ refreshFailed' = TRUE
    /\ UNCHANGED <<runs, sub, topic, signerOf, signer, writer, todo, answered>>

NewAggregator(c) ==
    /\ refresh = "joining" /\ c \in todo
    /\ ~Joined(c)
    /\ current' = [current EXCEPT ![c] = signer]
    /\ topic' = [topic EXCEPT ![<<c, signer>>] = "joined"]
    /\ signerOf' = [signerOf EXCEPT ![<<c, signer>>] = signer]
    /\ todo' = todo \ {c}
    /\ UNCHANGED <<running, runs, done, sub, signer, writer, refresh, refreshFailed, answered>>

\* The topic is still joined.
NewAggregatorFails(c) ==
    /\ refresh = "joining" /\ c \in todo
    /\ Joined(c)
    /\ refresh' = "no" /\ todo' = {} /\ refreshFailed' = TRUE
    /\ UNCHANGED <<current, running, runs, done, sub, topic, signerOf, signer, writer, answered>>

RefreshStarts ==
    /\ refresh = "joining" /\ todo = {}
    /\ Starts(InMap) /\ writer' = TRUE
    /\ refresh' = "no" /\ Answer("refresh")
    /\ UNCHANGED <<current, done, topic, signerOf, signer, todo, refreshFailed>>

-----------------------------------------------------------------------------
(* The goroutines of a run: Raft's subscribe.                              *)

subscribe(a, r) ==
    /\ sub[a][r] = "new"
    /\ sub' = [sub EXCEPT ![a][r] = IF topic[a] = "joined" THEN "on" ELSE "deaf"]
    /\ UNCHANGED <<current, running, runs, done, topic, signerOf, signer, writer, refresh, todo,
                   refreshFailed, answered>>

\* A topic with another subscription is not closed.
Closes(a, r) ==
    topic' = IF \E q \in 1 .. MaxRuns : q # r /\ sub[a][q] = "on" THEN topic
             ELSE [topic EXCEPT ![a] = "closed"]

subscriptionEnds(a, r) ==
    /\ sub[a][r] = "on" /\ r \in done[a]
    /\ sub' = [sub EXCEPT ![a][r] = "gone"]
    /\ Closes(a, r)
    /\ UNCHANGED <<current, running, runs, done, signerOf, signer, writer, refresh, todo,
                   refreshFailed, answered>>

AggAppNext ==
    \/ \E c \in Config : startAggregatorById(c) \/ stopAggregatorById(c)
                         \/ NewAggregator(c) \/ NewAggregatorFails(c)
    \/ StartApp \/ StopApp \/ RefreshStops \/ RefreshStarts
    \/ setAggregators \/ setAggregatorsFails
    \/ \E a \in Agg, r \in 1 .. MaxRuns : subscribe(a, r) \/ subscriptionEnds(a, r)

-----------------------------------------------------------------------------

\* No run is out of the commands' reach: one that is not cancelled is the only one of its
\* config, and its aggregator is in the map. (Two would vote twice in the name of one host.)
NoOrphanRuns ==
    \A a \in Agg : \A r \in 1 .. runs[a] \ done[a] :
        /\ a \in InMap /\ running[a] /\ r = runs[a]
        /\ \A b \in Agg : running[b] /\ a[1] = b[1] => a = b

\* Running aggregators sign with the signer that the admin's RENEW_SIGNER renews, also
\* after refreshes that failed half way.
RunningUseSigner == \A a \in Agg : running[a] => signerOf[a] = signer

\* As long as no refresh has failed, a joined topic belongs to an aggregator of the map or
\* has a goroutine that will close it, so that a later refresh can join it again. (A refresh
\* that fails at one config leaves the topics of others joined by aggregators that never
\* ran and that no goroutine closes.)
TopicsReleased ==
    ~refreshFailed =>
        \A a \in Agg : topic[a] = "joined" =>
            a \in InMap \/ \E r \in 1 .. MaxRuns : sub[a][r] \in {"new", "on"}

\* An aggregator that runs takes part in its topic unless it had been stopped before and
\* the subscription it had then has ended since.
DeafOnlyAfterRestart ==
    \A a \in Agg : running[a] /\ sub[a][runs[a]] \notin {"new", "on"} =>
        \E r \in 1 .. runs[a] - 1 : sub[a][r] = "gone"

\* A start or refresh that is answered with success leaves all aggregators of the map and
\* the bulk writer running; after a refresh the map has every config.
StartedMeansRunning ==
    /\ refresh = "no" /\ answered \in {"start", "refresh"} => writer /\ \A a \in InMap : running[a]
    /\ refresh = "no" /\ answered = "refresh" => \A c \in Config : current[c] = signer

=============================================================================
