------------------------------ MODULE Providers -----------------------------
(***************************************************************************)
(* The websocket providers: how a fetcher subscribes to the pairs of its   *)
(* feeds at an exchange and turns the messages of the exchange into feed   *)
(* data. An instance follows one provider, chosen at the start.            *)
(*                                                                         *)
(* A name is a sequence of characters; upper case letters are "A", "B" and *)
(* "C". A tick is a price of a pair; its serial number stands for the      *)
(* price, and grows with the time at the exchange. A message is handled by *)
(* a goroutine of its own (wss Run), so handlers finish in any order.      *)
(***************************************************************************)
EXTENDS Integers, Sequences, FiniteSets, SequencesExt

CONSTANTS
    FeedSets,         \* the sets of feeds to look at: functions from feed ids to pairs
    MaxTicks,         \* bound on ticks sent
    Lifespan,         \* VolumeCacheLifespan
    MaxAge            \* bound on the age of a volume

-----------------------------------------------------------------------------
(* Names.                                                                  *)

Lower == [c \in {"A", "B", "C"} |-> CASE c = "A" -> "a" [] c = "B" -> "b" [] c = "C" -> "c"]
ToLower(s) == [i \in DOMAIN s |-> IF s[i] \in DOMAIN Lower THEN Lower[s[i]] ELSE s[i]]
ToUpper(s) == [i \in DOMAIN s |->
                  IF \E c \in DOMAIN Lower : Lower[c] = s[i]
                  THEN CHOOSE c \in DOMAIN Lower : Lower[c] = s[i] ELSE s[i]]
HasPrefix(s, t) == IsPrefix(t, s)

\* "A-B" becomes "B-A".
Swap(s) == LET i == CHOOSE j \in DOMAIN s : s[j] = "-" IN
           SubSeq(s, i + 1, Len(s)) \o <<"-">> \o SubSeq(s, 1, i - 1)

\* The ways to write a name, and to read it again, as sets of changes.
Write(s, how) ==
    LET sep == IF "_" \in how THEN "_" ELSE IF "/" \in how THEN "/" ELSE "-"
        t == IF "swap" \in how THEN Swap(s) ELSE s
        u == ReplaceAll(t, "-", sep)
    IN  IF "lower" \in how THEN ToLower(u) ELSE u

Read(s, how) ==
    LET t == IF "upper" \in how THEN ToUpper(s) ELSE s
        u == IF "_" \in how THEN ReplaceAll(t, "_", "-") ELSE IF "/" \in how THEN ReplaceAll(t, "/", "-") ELSE t
    IN  IF "swap" \in how THEN Swap(u) ELSE u

combinedName(p) == p.base \o p.quote
separatedName(p) == p.base \o <<"-">> \o p.quote

\* The feeds of a provider by the name of their pair.
GetWssFeedMap(feeds, name) ==
    LET NameOf(f) == IF name = "combined" THEN combinedName(feeds[f]) ELSE separatedName(feeds[f]) IN
    [k \in {NameOf(f) : f \in DOMAIN feeds} |-> {f \in DOMAIN feeds : NameOf(f) = k}]

-----------------------------------------------------------------------------
(* What a message becomes (the utils.go of the providers).                 *)
(*   shows    how the exchange writes names (external)                     *)
(*   reads    how they become keys of the feed map                         *)
(*   list     a message is "one" tick; or has several, and a bad one is    *)
(*            left out ("skips") or makes the message fail ("aborts": also *)
(*            when prices are numbers, and the message is not decoded)     *)
(*   stamp    the timestamp is the tick's ("tick"), the tick's in seconds  *)
(*            ("second"), or the time of handling ("now")                  *)
(*   volume   from the message, or from the volume cache                   *)

Ticks(shows, reads, list, stamp, volume) ==
    [shows |-> shows, reads |-> reads, list |-> list, stamp |-> stamp, volume |-> volume]

binance_TickerToFeedData           == Ticks({}, {}, "one", "tick", "message")
bingx_ResponseToFeedData           == Ticks({}, {}, "one", "tick", "message")
bitget_ResponseToFeedDataList      == Ticks({}, {}, "skips", "tick", "message")
bithumb_TickerResponseToFeedData   == Ticks({"_"}, {"_"}, "one", "second", "message")
bitmart_ResponseToFeedData         == Ticks({"_"}, {"_"}, "skips", "tick", "message")
bitstamp_TradeEventToFeedData      == Ticks({"lower"}, {"upper"}, "one", "tick", "cache")
btse_ResponseToFeedDataList        == Ticks({}, {}, "aborts", "tick", "cache")
bybit_ResponseToFeedData           == Ticks({}, {}, "one", "tick", "message")
coinbase_TickerToFeedData          == Ticks({}, {"upper"}, "one", "tick", "message")
coinex_ResponseToFeedDataList      == Ticks({}, {}, "skips", "now", "message")
coinone_DataToFeedData             == Ticks({}, {"upper"}, "one", "tick", "message")
crypto_ResponseToFeedDataList      == Ticks({"_"}, {"_"}, "skips", "tick", "message")
gateio_ResponseToFeedData          == Ticks({"_"}, {"_"}, "one", "second", "message")
gemini_TradeResponseToFeedDataList == Ticks({}, {}, "skips", "tick", "cache")
gopax_TickerToFeedData             == Ticks({}, {}, "aborts", "tick", "message")
huobi_ResponseToFeedData           == Ticks({"lower"}, {"upper"}, "one", "tick", "message")
korbit_DataToFeedData              == Ticks({"lower", "_"}, {"upper", "_"}, "one", "tick", "message")
kraken_ResponseToFeedData          == Ticks({"/"}, {"/"}, "aborts", "now", "message")
kucoin_RawDataToFeedData           == Ticks({}, {}, "one", "tick", "message")
lbank_ResponseToFeedData           == Ticks({"lower", "_"}, {"upper", "_"}, "one", "tick", "message")
mexc_ResponseToFeedDataList        == Ticks({}, {}, "aborts", "tick", "message")
okx_ResponseToFeedData             == Ticks({}, {}, "skips", "tick", "message")
orangex_TickerResponseToFeedData   == Ticks({}, {}, "one", "tick", "message")
upbit_ResponseToFeedData           == Ticks({"swap"}, {"upper", "swap"}, "one", "tick", "message")
xt_ResponseToFeedData              == Ticks({"lower", "_"}, {"upper", "_"}, "one", "tick", "message")

-----------------------------------------------------------------------------
(* The fetchers (New and handleMessage of the providers): the names they   *)
(* use, how they write them in the subscription, how many of them go into  *)
(* one subscription (0: all of them), and what they do with a message.     *)

Subscribes(names, topic, per, ticks) ==
    [names |-> names, topic |-> topic, per |-> per, ticks |-> ticks]

binance  == Subscribes("combined", {"lower"}, 0, binance_TickerToFeedData)
bingx    == Subscribes("separated", {}, 1, bingx_ResponseToFeedData)
bitget   == Subscribes("combined", {}, 0, bitget_ResponseToFeedDataList)
bithumb  == Subscribes("separated", {"_"}, 0, bithumb_TickerResponseToFeedData)
bitmart  == Subscribes("separated", {"_"}, 3, bitmart_ResponseToFeedData)
bitstamp == Subscribes("combined", {"lower"}, 1, bitstamp_TradeEventToFeedData)
btse     == Subscribes("separated", {}, 0, btse_ResponseToFeedDataList)
bybit    == Subscribes("combined", {}, 10, bybit_ResponseToFeedData)
coinbase == Subscribes("separated", {}, 0, coinbase_TickerToFeedData)
coinex   == Subscribes("combined", {}, 0, coinex_ResponseToFeedDataList)
coinone  == Subscribes("separated", {}, 1, coinone_DataToFeedData)
crypto   == Subscribes("separated", {"_"}, 0, crypto_ResponseToFeedDataList)
gateio   == Subscribes("separated", {"_"}, 0, gateio_ResponseToFeedData)
gemini   == Subscribes("combined", {}, 0, gemini_TradeResponseToFeedDataList)
gopax    == Subscribes("separated", {}, 0, gopax_TickerToFeedData)
huobi    == Subscribes("combined", {"lower"}, 1, huobi_ResponseToFeedData)
korbit   == Subscribes("separated", {"lower", "_"}, 0, korbit_DataToFeedData)
kraken   == Subscribes("separated", {"/"}, 0, kraken_ResponseToFeedData)
kucoin   == Subscribes("separated", {}, 0, kucoin_RawDataToFeedData)
lbank    == Subscribes("separated", {"lower", "_"}, 1, lbank_ResponseToFeedData)
mexc     == Subscribes("combined", {}, 0, mexc_ResponseToFeedDataList)
okx      == Subscribes("separated", {}, 0, okx_ResponseToFeedData)
orangex  == Subscribes("separated", {}, 0, orangex_TickerResponseToFeedData)
upbit    == Subscribes("separated", {"swap"}, 0, upbit_ResponseToFeedData)
xt       == Subscribes("separated", {"lower", "_"}, 1, xt_ResponseToFeedData)

\* The factories of the app.
cexFactories == {binance, bingx, bitget, bithumb, bitmart, bitstamp, btse, bybit, coinbase,
                 coinex, coinone, crypto, gateio, gemini, gopax, huobi, korbit, kraken,
                 kucoin, lbank, mexc, okx, orangex, upbit, xt}

-----------------------------------------------------------------------------

VARIABLES
    provider, feeds,
    subscribed,       \* names in the subscriptions the exchange has received
    handling,         \* messages with a running handler
    sent, handled,    \* numbers of ticks sent, and of messages handled
    data,             \* the feed data put into the buffer, in order
    cache,            \* VolumeCacheMap: the age of the entry of a feed and whose volume it is
    owed              \* feeds and good ticks of handled messages

providerVars == <<provider, feeds, subscribed, handling, sent, handled, data, cache, owed>>

NameIn(p) == IF provider.names = "combined" THEN combinedName(p) ELSE separatedName(p)
feedMap == GetWssFeedMap(feeds, provider.names)
Pairs == {feeds[f] : f \in DOMAIN feeds}

\* The pairs are subscribed to in groups of the provider's size.
Subscriptions(keys, per) ==
    LET n == Len(keys) IN
    IF per = 0 THEN {keys}
    ELSE {SubSeq(keys, i, IF i + per - 1 < n THEN i + per - 1 ELSE n) : i \in {j \in 1 .. n : (j - 1) % per = 0}}

ProvidersInit ==
    /\ provider \in cexFactories /\ feeds \in FeedSets
    /\ \E keys \in {SetToSeq(DOMAIN feedMap)} :
          subscribed = UNION {{Write(s[i], provider.topic) : i \in DOMAIN s} :
                                 s \in Subscriptions(keys, provider.per)}
    /\ handling = {} /\ sent = 0 /\ handled = 0 /\ data = <<>> /\ owed = {}
    /\ cache = [f \in DOMAIN feeds |-> [age |-> MaxAge, of |-> "none"]]

\* The exchange sends ticks of pairs subscribed to (external).
Tick(p, n, ok) == [name |-> Write(NameIn(p), provider.ticks.shows), pair |-> p, n |-> n, ok |-> ok]

Send(pairs) ==
    /\ sent + Cardinality(pairs) <= MaxTicks /\ pairs # {}
    /\ \A p \in pairs : Write(NameIn(p), provider.topic) \in subscribed
    /\ provider.ticks.list = "one" => Cardinality(pairs) = 1
    /\ \E s \in {SetToSeq(pairs)} : \E ok \in [DOMAIN s -> BOOLEAN] :
          handling' = handling \cup {[i \in DOMAIN s |-> Tick(s[i], sent + i, ok[i])]}
    /\ sent' = sent + Cardinality(pairs)
    /\ UNCHANGED <<provider, feeds, subscribed, handled, data, cache, owed>>

-----------------------------------------------------------------------------
(* A message becomes feed data.                                            *)

\* The time of handling for all (a mutant).
TimestampNow(t) == MaxTicks + handled

TimestampOf(t) ==
    CASE provider.ticks.stamp = "tick" -> t.n
      [] provider.ticks.stamp = "second" -> t.n \div 2
      [] provider.ticks.stamp = "now" -> MaxTicks + handled

\* The volume of an entry that is too old is not used.
CachedVolume(f) == IF cache[f].age > Lifespan THEN [age |-> 0, of |-> "none"] ELSE cache[f]

VolumeOf(f) == IF provider.ticks.volume = "cache" THEN CachedVolume(f) ELSE [age |-> 0, of |-> "base"]

Datum(f, t) == [feed |-> f, n |-> t.n, pair |-> t.pair, timestamp |-> TimestampOf(t), volume |-> VolumeOf(f)]

\* The feeds of a tick, none when the name is not in the map.
FeedsOf(t) ==
    LET key == Read(t.name, provider.ticks.reads) IN
    IF key \in DOMAIN feedMap THEN feedMap[key] ELSE {}

Made(t) == LET ids == SetToSeq(FeedsOf(t)) IN [i \in DOMAIN ids |-> Datum(ids[i], t)]

ToFeedData(m) ==
    IF provider.ticks.list # "skips" /\ \E i \in DOMAIN m : ~m[i].ok THEN <<>>
    ELSE FlattenSeq([i \in DOMAIN m |-> IF m[i].ok THEN Made(m[i]) ELSE <<>>])

\* The ticks of a message that are not lost with a bad one.
Expected(m) ==
    {t \in Range(m) : t.ok /\ (provider.ticks.list = "skips" \/ \A u \in Range(m) : u.ok)}

handleMessage(m) ==
    /\ m \in handling
    /\ handling' = handling \ {m} /\ handled' = handled + 1
    /\ data' = data \o ToFeedData(m)
    /\ owed' = owed \cup UNION {{<<f, t.n>> : f \in {g \in DOMAIN feeds : feeds[g] = t.pair}} :
                                  t \in Expected(m)}
    /\ UNCHANGED <<provider, feeds, subscribed, sent, cache>>

-----------------------------------------------------------------------------
(* The volume cache of bitstamp, btse and gemini, fetched every ten        *)
(* seconds.                                                                *)

bitstamp_FetchVolumes(f) == {"base"}
btse_FetchVolumes(f) == {"base"}

\* Gemini lists the volumes of both currencies; those whose currency is a prefix of the name
\* are stored, in any order.
gemini_FetchVolumes(f) ==
    {"base"} \cup {v \in {"quote"} : HasPrefix(combinedName(feeds[f]), feeds[f].quote)}

FetchedVolumes(f) ==
    CASE provider = bitstamp -> bitstamp_FetchVolumes(f)
      [] provider = btse -> btse_FetchVolumes(f)
      [] provider = gemini -> gemini_FetchVolumes(f)

\* The entries of one name are written at a time.
CacheVolumes(k) ==
    /\ provider.ticks.volume = "cache"
    /\ \E v \in UNION {FetchedVolumes(f) : f \in feedMap[k]} :
          cache' = [f \in DOMAIN feeds |-> IF f \in feedMap[k] THEN [age |-> 0, of |-> v] ELSE cache[f]]
    /\ UNCHANGED <<provider, feeds, subscribed, handling, sent, handled, data, owed>>

TimePasses ==
    /\ provider.ticks.volume = "cache" /\ \E f \in DOMAIN feeds : cache[f].age < MaxAge
    /\ cache' = [f \in DOMAIN feeds |->
                    [cache[f] EXCEPT !.age = IF @ < MaxAge THEN @ + 1 ELSE @]]
    /\ UNCHANGED <<provider, feeds, subscribed, handling, sent, handled, data, owed>>

ProvidersNext ==
    \/ \E pairs \in SUBSET Pairs : Send(pairs)
    \/ \E m \in handling : handleMessage(m)
    \/ \E k \in DOMAIN feedMap : CacheVolumes(k)
    \/ TimePasses

-----------------------------------------------------------------------------

\* A feed only gets prices of its own pair, and every good tick of a handled message reaches
\* every feed of its pair, whatever the other ticks of the message are like; but mexc gives
\* up a message with a bad price, and a message with a number that is none is not decoded.
OwnPrices ==
    /\ \A i \in DOMAIN data : feeds[data[i].feed] = data[i].pair
    /\ \A q \in owed : \E i \in DOMAIN data : data[i].feed = q[1] /\ data[i].n = q[2]

\* Every pair of the feeds is subscribed to, however they are split into groups.
AllSubscribed == \A p \in Pairs : Write(NameIn(p), provider.topic) \in subscribed

Latest(f) ==
    FoldLeft(LAMBDA d, e : IF e.feed # f \/ (d.n # 0 /\ d.timestamp > e.timestamp) THEN d ELSE e,
             [n |-> 0, timestamp |-> 0], data)

\* Handlers run in any order; where the timestamp of the exchange is used, the feed's latest
\* datum is nevertheless the newest of those handled. Providers that stamp data with the
\* time of handling or in seconds may keep an older price.
LatestIsNewest ==
    provider.ticks.stamp = "tick" =>
        \A i \in DOMAIN data : Latest(data[i].feed).n >= data[i].n

\* A volume is never older than the lifespan of the cache, and is that of the base currency
\* (gemini's may be the quote's when the name of the base begins with that of the quote).
VolumesAreFresh ==
    \A i \in DOMAIN data :
        /\ data[i].volume.age <= Lifespan
        /\ data[i].volume.of = "quote" => HasPrefix(data[i].pair.base, data[i].pair.quote)

=============================================================================
