--------------------------- MODULE LocalAggregator ---------------------------
(***************************************************************************)
(* The local aggregate of a price: what the node makes of the latest data  *)
(* of a config's feeds, and the way of the aggregate to the aggregator and *)
(* to the table local_aggregates.                                          *)
(*                                                                         *)
(* A datum is [value, volume]. Halves and quarters are kept exact: a       *)
(* definition whose name ends in 2 or 4 is that multiple of the code's     *)
(* number, and an aggregate is a fraction [num, den].                      *)
(***************************************************************************)
EXTENDS Integers, Sequences, FiniteSets, SequencesExt, FiniteSetsExt

CONSTANTS
    Inputs,           \* the data the map of latest data may hold for the config
    Streamed,         \* those of Inputs whose streaming is followed
    BusSize, ChannelSize,
    MaxAggregates     \* bound on jobs

VARIABLES
    fxPair,           \* whether the config is a foreign exchange pair
    feeds,            \* the latest data of the config's feeds
    jobs,             \* aggregates whose job has not sent them to the channel yet
    made,             \* number of aggregates streamed
    bus, channel,     \* the aggregator's bus channel, localAggregatesChannel
    rejected,         \* aggregates the full bus has refused
    received,         \* aggregates the aggregator has taken
    rows              \* table local_aggregates and batches whose copy failed

localVars == <<fxPair, feeds, jobs, made, bus, channel, rejected, received, rows>>

Values(fs) == [i \in DOMAIN fs |-> fs[i].value]
Ascending(s) == SortSeq(s, <)
SumOver(s) == FoldLeft(+, 0, s)

-----------------------------------------------------------------------------
(* Median, quartiles and outliers.                                         *)

GetFloatMed2(s) ==
    LET n == Len(s)  t == Ascending(s) IN
    IF n % 2 = 0 THEN t[n \div 2] + t[n \div 2 + 1] ELSE 2 * t[n \div 2 + 1]

\* The quartiles are the medians of the halves, which exclude the median of an odd number.
Q1x2(s) == GetFloatMed2(SubSeq(Ascending(s), 1, Len(s) \div 2))
Q3x2(s) == GetFloatMed2(SubSeq(Ascending(s), Len(s) - Len(s) \div 2 + 1, Len(s)))

\* Whether v is more than k/2 inter-quartile ranges outside of the quartiles.
Beyond(v, k, s) ==
    LET q1 == Q1x2(s)  q3 == Q3x2(s) IN
    4 * v < 2 * q1 - k * (q3 - q1) \/ 4 * v > 2 * q3 + k * (q3 - q1)

Extreme(s) == SelectSeq(Ascending(s), LAMBDA v : Beyond(v, 6, s))
Mild(s) == SelectSeq(Ascending(s), LAMBDA v : Beyond(v, 3, s) /\ ~Beyond(v, 6, s))

-----------------------------------------------------------------------------
(* The filter.                                                             *)

MaxOutliersToRemove(n) == n \div 4

\* The outliers of o, those farthest from the median of s first.
Farthest(o, s) ==
    SortSeq(o, LAMBDA a, b : LET far(v) == (GetFloatMed2(s) - 2 * v) * (GetFloatMed2(s) - 2 * v) IN
                             far(a) > far(b) \/ (far(a) = far(b) /\ a < b))

FirstOf(o, n) == SubSeq(o, 1, IF n < Len(o) THEN n ELSE Len(o))

\* Feeds are deleted by their value.
Without(fs, vs) == SelectSeq(fs, LAMBDA f : f.value \notin Range(vs))

filterOutliers(fs) ==
    LET s == Values(fs)
        max == MaxOutliersToRemove(Len(fs))
        extremes == FirstOf(Farthest(Extreme(s), s), max)
        milds == FirstOf(Farthest(Mild(s), s), max - Len(extremes))
    IN  IF Len(fs) < 5 THEN fs ELSE Without(Without(fs, extremes), milds)

-----------------------------------------------------------------------------
(* The price.                                                              *)

calculateMedian2(fs) == IF fs = <<>> THEN 0 ELSE GetFloatMed2(Values(fs))

TotalPrice(fs) == SumOver([i \in DOMAIN fs |-> fs[i].value * fs[i].volume])
TotalVolume(fs) == SumOver([i \in DOMAIN fs |-> fs[i].volume])

\* Feeds with a volume weigh 95 of 100, the median of the others 5.
calculateAggregatedPrice(weighted, others) ==
    LET price == TotalPrice(weighted)
        volume == TotalVolume(weighted)
        median2 == calculateMedian2(others)
    IN  IF price = 0 THEN [num |-> median2, den |-> 2]
        ELSE IF median2 = 0 THEN [num |-> price, den |-> volume]
        ELSE [num |-> 38 * price + median2 * volume, den |-> 40 * volume]

processVolumeWeightedFeeds(fs) ==
    LET filtered == filterOutliers(fs) IN
    calculateAggregatedPrice(SelectSeq(filtered, LAMBDA f : f.volume > 0),
                             SelectSeq(filtered, LAMBDA f : f.volume <= 0))

processFXPricePair(fs) == [num |-> calculateMedian2(fs), den |-> 2]

processFeeds(fs) == IF fxPair THEN processFXPricePair(fs) ELSE processVolumeWeightedFeeds(fs)

-----------------------------------------------------------------------------
(* Streaming. An aggregate is known by its number.                         *)

LocalInit ==
    /\ feeds \in Inputs /\ fxPair \in BOOLEAN
    /\ jobs = {} /\ made = 0 /\ bus = <<>> /\ channel = <<>>
    /\ rejected = {} /\ received = {} /\ rows = {}

\* Mutant: an aggregate that the bus refuses is not sent to the bulk writer.
streamReturnsOnError ==
    /\ made' = made + 1
    /\ \/ Len(bus) < BusSize /\ bus' = Append(bus, made') /\ jobs' = jobs \cup {made'}
          /\ UNCHANGED rejected
       \/ Len(bus) >= BusSize /\ rejected' = rejected \cup {made'} /\ UNCHANGED <<bus, jobs>>

\* The bus refuses what it has no room for; the send to the channel is deferred.
streamLocalAggregate ==
    /\ made' = made + 1
    /\ \/ Len(bus) < BusSize /\ bus' = Append(bus, made') /\ UNCHANGED rejected
       \/ Len(bus) >= BusSize /\ rejected' = rejected \cup {made'} /\ UNCHANGED bus
    /\ jobs' = jobs \cup {made'}

\* Each tick runs a job in a goroutine of its own; an aggregate of zero is not streamed.
Job ==
    /\ feeds \in Streamed /\ made < MaxAggregates
    /\ feeds # <<>> /\ processFeeds(feeds).num # 0
    /\ streamLocalAggregate
    /\ UNCHANGED <<fxPair, feeds, channel, received, rows>>

jobSends(n) ==
    /\ n \in jobs /\ Len(channel) < ChannelSize
    /\ channel' = Append(channel, n) /\ jobs' = jobs \ {n}
    /\ UNCHANGED <<fxPair, feeds, made, bus, rejected, received, rows>>

bulkWriterTick ==
    /\ channel # <<>>
    /\ rows' = rows \cup Range(channel) /\ channel' = <<>>
    /\ UNCHANGED <<fxPair, feeds, jobs, made, bus, rejected, received>>

aggregatorTakes ==
    /\ bus # <<>>
    /\ received' = received \cup {Head(bus)} /\ bus' = Tail(bus)
    /\ UNCHANGED <<fxPair, feeds, jobs, made, channel, rejected, rows>>

\* The map of latest data changes.
FeedsChange ==
    /\ feeds \in Streamed
    /\ feeds' \in Streamed
    /\ UNCHANGED <<fxPair, jobs, made, bus, channel, rejected, received, rows>>

LocalNext ==
    Job \/ (\E n \in jobs : jobSends(n)) \/ bulkWriterTick \/ aggregatorTakes \/ FeedsChange

-----------------------------------------------------------------------------

Outliers(fs) == SelectSeq(Values(fs), LAMBDA v : Beyond(v, 3, Values(fs)))

\* When the outliers are no more than filterOutliers may remove, none has any weight: the
\* aggregate lies between the inner fences of the data. A foreign exchange pair's, a plain
\* median, always does.
AggregateInFences ==
    LET s == Values(feeds)  a == processFeeds(feeds)
        q1 == Q1x2(s)  q3 == Q3x2(s) IN
    Len(feeds) >= 5 /\ (fxPair \/ Len(Outliers(feeds)) <= MaxOutliersToRemove(Len(feeds))) =>
        /\ 4 * a.num >= a.den * (2 * q1 - 3 * (q3 - q1))
        /\ 4 * a.num <= a.den * (2 * q3 + 3 * (q3 - q1))

\* More than a quarter of the feeds is only removed where outliers have the same value; and
\* more than half of the feeds always remain.
FilterKeepsMost ==
    LET n == Len(feeds)  removed == n - Len(filterOutliers(feeds))
        o == Outliers(feeds) IN
    /\ removed > MaxOutliersToRemove(n) => Cardinality(Range(o)) < Len(o)
    /\ feeds # <<>> => 2 * removed < n

\* Every aggregate made is stored, also the ones that the full bus refuses: at rest all of
\* them have reached the table, and those not refused the aggregator.
AggregatesKept ==
    jobs = {} /\ channel = <<>> /\ bus = <<>> =>
        rows = 1 .. made /\ received = rows \ rejected

=============================================================================
