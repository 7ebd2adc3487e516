------------------------------ MODULE FeedData ------------------------------
(***************************************************************************)
(* The way of prices from the exchanges into the node: the fetcher's HTTP  *)
(* requests and the websocket providers' messages become feed data, which  *)
(* go to the map of latest data and, through the dump channel and the bulk *)
(* writer, to the table feed_data.                                         *)
(*                                                                         *)
(* A datum is <<feed, timestamp>>; no two have the same timestamp.         *)
(***************************************************************************)
EXTENDS Integers, Sequences, FiniteSets, SequencesExt

CONSTANTS
    HttpFeed, WsFeed,
    BufferSize,       \* of the websocket fetcher's buffer
    DumpSize,         \* of feedDataDumpChannel
    MaxTime,          \* bound on data made
    MaxStores,        \* bound on storeFeedData goroutines at the same time
    MaxCopyFailures   \* bound on failures of BulkCopy

VARIABLES
    now,
    arriving,         \* data of message handlers that wait for room in the buffer
    buffer,
    stores,           \* goroutines of storeFeedData: their batch, and what they have not dumped
    fetching,         \* fetched data the fetcher's job has not dumped yet
    latest,           \* LatestFeedDataMap, 0 for no data
    dump, writing,    \* feedDataDumpChannel, and the batch of the bulk writer's job
    table,            \* the rows of feed_data
    failed,           \* data whose copy failed
    firsts,           \* data that were the first of their batch
    newest            \* the time of the newest datum of each feed

feedDataVars == <<now, arriving, buffer, stores, fetching, latest, dump, writing, table, failed,
                  firsts, newest>>

Feed == HttpFeed \cup WsFeed

ASSUME FeedDataAssumption ==
    /\ HttpFeed \cap WsFeed = {}
    /\ {BufferSize, DumpSize, MaxTime, MaxStores, MaxCopyFailures} \subseteq Nat

FeedDataInit ==
    /\ now = 0 /\ arriving = {} /\ buffer = <<>> /\ stores = {} /\ fetching = <<>>
    /\ latest = [f \in Feed |-> 0] /\ newest = latest
    /\ dump = <<>> /\ writing = <<>> /\ table = {} /\ failed = {} /\ firsts = {}

-----------------------------------------------------------------------------
(* The map of latest data.                                                 *)

\* Mutant: an older datum replaces a newer one, too.
SetAlways(m, d) == [m EXCEPT ![d[1]] = d[2]]

\* A datum replaces an older one, not a newer one.
Set(m, d) == IF m[d[1]] > d[2] THEN m ELSE [m EXCEPT ![d[1]] = d[2]]

SetLatestFeedData(batch) == FoldLeft(Set, latest, batch)

-----------------------------------------------------------------------------
(* The fetcher's job.                                                      *)

\* All feeds are requested at once; those whose request or reduction fails are left out.
fetcherJob ==
    /\ fetching = <<>>
    /\ \E some \in SUBSET HttpFeed \ {{}} :
          /\ now + Cardinality(some) <= MaxTime
          /\ \E s \in SetToSeqs(some) :
                LET result == [i \in DOMAIN s |-> <<s[i], now + i>>] IN
                /\ latest' = SetLatestFeedData(result)
                /\ newest' = [f \in Feed |-> IF f \in some THEN latest'[f] ELSE newest[f]]
                /\ fetching' = result
          /\ now' = now + Cardinality(some)
    /\ UNCHANGED <<arriving, buffer, stores, dump, writing, table, failed, firsts>>

\* It waits while the channel is full.
fetcherDumps ==
    /\ fetching # <<>> /\ Len(dump) < DumpSize
    /\ dump' = Append(dump, Head(fetching)) /\ fetching' = Tail(fetching)
    /\ UNCHANGED <<now, arriving, buffer, stores, latest, writing, table, failed, firsts, newest>>

-----------------------------------------------------------------------------
(* The websocket fetcher.                                                  *)

\* A provider's message; each is handled by a goroutine of its own.
Message(f) ==
    /\ now < MaxTime
    /\ now' = now + 1 /\ newest' = [newest EXCEPT ![f] = now']
    /\ arriving' = arriving \cup {<<f, now'>>}
    /\ UNCHANGED <<buffer, stores, fetching, latest, dump, writing, table, failed, firsts>>

Buffered(d) ==
    /\ d \in arriving /\ Len(buffer) < BufferSize
    /\ arriving' = arriving \ {d} /\ buffer' = Append(buffer, d)
    /\ UNCHANGED <<now, stores, fetching, latest, dump, writing, table, failed, firsts, newest>>

\* A tick: the first datum of the batch is not dumped.
storeBegins ==
    /\ buffer # <<>> /\ Cardinality(stores) < MaxStores
    /\ stores' = stores \cup {[batch |-> <<Head(buffer)>>, sending |-> <<>>]}
    /\ firsts' = firsts \cup {Head(buffer)}
    /\ buffer' = Tail(buffer)
    /\ UNCHANGED <<now, arriving, fetching, latest, dump, writing, table, failed, newest>>

storeTakes(s) ==
    /\ buffer # <<>> /\ s.sending = <<>>
    /\ stores' = (stores \ {s})
                    \cup {[batch |-> Append(s.batch, Head(buffer)), sending |-> <<Head(buffer)>>]}
    /\ buffer' = Tail(buffer)
    /\ UNCHANGED <<now, arriving, fetching, latest, dump, writing, table, failed, firsts, newest>>

storeDumps(s) ==
    /\ s.sending # <<>> /\ Len(dump) < DumpSize
    /\ dump' = Append(dump, Head(s.sending))
    /\ stores' = (stores \ {s}) \cup {[s EXCEPT !.sending = <<>>]}
    /\ UNCHANGED <<now, arriving, buffer, fetching, latest, writing, table, failed, firsts, newest>>

\* The buffer is empty.
storeEnds(s) ==
    /\ buffer = <<>> /\ s.sending = <<>>
    /\ latest' = SetLatestFeedData(s.batch)
    /\ stores' = stores \ {s}
    /\ UNCHANGED <<now, arriving, buffer, fetching, dump, writing, table, failed, firsts, newest>>

storeFeedData == storeBegins \/ \E s \in stores : storeTakes(s) \/ storeDumps(s) \/ storeEnds(s)

-----------------------------------------------------------------------------
(* The bulk writer of feed data.                                           *)

Taken ==
    /\ writing' = dump /\ dump' = <<>>
    /\ UNCHANGED <<now, arriving, buffer, stores, fetching, latest, table, failed, firsts, newest>>

\* Mutant: nothing is written after a failed copy.
JobUntilFailure == writing = <<>> /\ dump # <<>> /\ failed = {} /\ Taken

\* The job takes what the channel holds.
Job == writing = <<>> /\ dump # <<>> /\ Taken

copyFeedData ==
    /\ writing # <<>> /\ writing' = <<>>
    /\ table' = table \cup Range(writing)
    /\ UNCHANGED <<now, arriving, buffer, stores, fetching, latest, dump, failed, firsts, newest>>

copyFeedDataFails ==
    /\ writing # <<>> /\ writing' = <<>>
    /\ Cardinality(failed) < MaxCopyFailures
    /\ failed' = failed \cup Range(writing)
    /\ UNCHANGED <<now, arriving, buffer, stores, fetching, latest, dump, table, firsts, newest>>

FeedDataNext ==
    \/ fetcherJob \/ fetcherDumps
    \/ \E f \in WsFeed : Message(f)
    \/ \E d \in arriving : Buffered(d)
    \/ storeFeedData
    \/ Job \/ copyFeedData \/ copyFeedDataFails

\* Goroutines run, the tickers of storeFeedData and of the bulk writer tick.
Flows == fetcherDumps \/ (\E d \in arriving : Buffered(d)) \/ storeFeedData
Writes == Job \/ copyFeedData

-----------------------------------------------------------------------------

InFlight == arriving \cup Range(buffer) \cup UNION {Range(s.batch) : s \in stores}

\* Two goroutines of storeFeedData finish in either order and messages are buffered in any
\* order; when nothing of a feed is under way the map holds its newest datum.
NewestIsLatest ==
    \A f \in Feed : (\A d \in InFlight : d[1] # f) => latest[f] = newest[f]

\* At rest the table has all data but those whose copy failed and the first of every
\* websocket batch, which storeFeedData does not dump.
OnlyFirstsMissing ==
    InFlight = {} /\ fetching = <<>> /\ dump = <<>> /\ writing = <<>> =>
        /\ Cardinality(table \cup failed \cup firsts) = now
        /\ firsts \cap (table \cup failed) = {}

\* Every datum under way gets into the map: whatever is copied or fails, senders to the
\* full dump channel are not left waiting.
DataSettle == []<>(InFlight = {})

=============================================================================
