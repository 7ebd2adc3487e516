----------------------------- MODULE ChainReader ----------------------------
(***************************************************************************)
(* Prices of a decentralised exchange: the uniswap fetcher reads the price *)
(* of a pool once from its contract and then follows the pool's Swap       *)
(* events, which the websocket chain reader takes from a subscription that *)
(* it renews whenever it breaks.                                           *)
(*                                                                         *)
(* Swaps of the pool are numbered; the number stands for the price.        *)
(***************************************************************************)
EXTENDS Integers, Sequences

CONSTANTS
    MaxSwaps, MaxBreaks    \* bounds on swaps, and on failures of the connection

VARIABLES
    swaps,            \* number of swaps of the pool so far
    fetcher,          \* uniswap run: "initial", "follows", or "gone" after an error
    sub,              \* handleSubscription: "number", "subscribe", "logs", "sends", "gone"
    logs,             \* events of the live subscription not yet taken
    passing,          \* the event processLogs offers to the fetcher's channel
    cancelled,
    price, prices,    \* the newest price put into the buffer, and how many were put there
    missed,           \* swaps that happened while there was no subscription
    breaks

readerVars == <<swaps, fetcher, sub, logs, passing, cancelled, price, prices, missed, breaks>>

ReaderInit ==
    /\ swaps = 0 /\ fetcher = "initial" /\ sub = "none" /\ logs = <<>> /\ passing = 0
    /\ cancelled = FALSE /\ price = 0 /\ prices = 0 /\ missed = {} /\ breaks = 0

\* The pool (external).
Swap ==
    /\ swaps < MaxSwaps /\ swaps' = swaps + 1
    /\ IF sub \in {"logs", "sends"} THEN logs' = Append(logs, swaps') /\ UNCHANGED missed
       ELSE missed' = missed \cup {swaps'} /\ UNCHANGED logs
    /\ UNCHANGED <<fetcher, sub, passing, cancelled, price, prices, breaks>>

Cancel ==
    /\ ~cancelled /\ cancelled' = TRUE
    /\ UNCHANGED <<swaps, fetcher, sub, logs, passing, price, prices, missed, breaks>>

-----------------------------------------------------------------------------
(* The uniswap fetcher.                                                    *)

Puts(p) == price' = p /\ prices' = prices + 1

\* getInitialPrice, then subscribeEvent.
run ==
    /\ fetcher = "initial"
    /\ Puts(swaps) /\ fetcher' = "follows" /\ sub' = "number"
    /\ UNCHANGED <<swaps, logs, passing, cancelled, missed, breaks>>

\* The feed is given up, nothing tries again.
runFails ==
    /\ fetcher = "initial" /\ breaks < MaxBreaks
    /\ fetcher' = "gone" /\ breaks' = breaks + 1
    /\ UNCHANGED <<swaps, sub, logs, passing, cancelled, price, prices, missed>>

\* readSwapEvent takes the event that processLogs offers.
readSwapEvent ==
    /\ fetcher = "follows" /\ sub = "sends"
    /\ Puts(passing) /\ passing' = 0 /\ sub' = "logs"
    /\ UNCHANGED <<swaps, fetcher, logs, cancelled, missed, breaks>>

-----------------------------------------------------------------------------
(* handleSubscription of the chain reader.                                 *)

getBlockNumber ==
    /\ sub = "number" /\ ~cancelled /\ sub' = "subscribe"
    /\ UNCHANGED <<swaps, fetcher, logs, passing, cancelled, price, prices, missed, breaks>>

SubscribeFilterLogs ==
    /\ sub = "subscribe" /\ ~cancelled
    /\ sub' = "logs" /\ logs' = <<>>
    /\ UNCHANGED <<swaps, fetcher, passing, cancelled, price, prices, missed, breaks>>

\* It ends at the first failure (a mutant).
GivesUp == sub' = "gone"

\* After a failure it waits for the retry period, or ends when the context is done.
retryWithContext == sub' = IF cancelled THEN "gone" ELSE "number"

SubscribeFails ==
    /\ sub \in {"number", "subscribe"} /\ (cancelled \/ breaks < MaxBreaks)
    /\ breaks' = IF cancelled THEN breaks ELSE breaks + 1
    /\ retryWithContext
    /\ UNCHANGED <<swaps, fetcher, logs, passing, cancelled, price, prices, missed>>

TakeNext == passing' = Head(logs) /\ logs' = Tail(logs)

\* processLogs: an event, or the end of the subscription, whichever select takes. While
\* there is neither, a cancelled context is not noticed.
processLogs ==
    /\ sub = "logs" /\ logs # <<>>
    /\ TakeNext /\ sub' = "sends"
    /\ UNCHANGED <<swaps, fetcher, cancelled, price, prices, missed, breaks>>

subscriptionBreaks ==
    /\ sub = "logs" /\ breaks < MaxBreaks /\ breaks' = breaks + 1
    /\ retryWithContext
    /\ missed' = missed \cup {logs[i] : i \in DOMAIN logs} /\ logs' = <<>>
    /\ UNCHANGED <<swaps, fetcher, passing, cancelled, price, prices>>

sendCancelled ==
    /\ sub = "sends" /\ cancelled
    /\ missed' = missed \cup {passing} \cup {logs[i] : i \in DOMAIN logs}
    /\ passing' = 0 /\ logs' = <<>>
    /\ retryWithContext
    /\ UNCHANGED <<swaps, fetcher, cancelled, price, prices, breaks>>

ReaderNext ==
    \/ Swap \/ Cancel \/ run \/ runFails \/ readSwapEvent
    \/ getBlockNumber \/ SubscribeFilterLogs \/ SubscribeFails
    \/ processLogs \/ subscriptionBreaks \/ sendCancelled

Follows == run \/ readSwapEvent \/ getBlockNumber \/ SubscribeFilterLogs \/ processLogs

-----------------------------------------------------------------------------

\* The price in the buffer only moves forward, and once no event is under way it is that of
\* the newest swap, except for swaps while no subscription was live.
PriceIsNewest ==
    fetcher = "follows" /\ logs = <<>> /\ passing = 0 =>
        \A n \in 1 .. swaps : n > price => n \in missed

\* As long as the context lives and the first read succeeded, there is a live subscription
\* again and again.
Resubscribes == []<>(cancelled \/ fetcher # "follows" \/ sub \in {"logs", "sends"})

=============================================================================
