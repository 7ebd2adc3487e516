------------------------------ MODULE WsHelper ------------------------------
(***************************************************************************)
(* The websocket helper of a provider: it dials the exchange, subscribes,  *)
(* reads until something happens to the connection, and dials again.       *)
(* Stopping the websocket fetcher cancels the context of its runs; a new   *)
(* start calls Run on the same helper.                                     *)
(***************************************************************************)
EXTENDS Integers, FiniteSets

CONSTANTS
    MaxStarts,        \* bound on starts of the websocket fetcher
    Subscriptions,    \* how many subscriptions the provider has
    MaxFailures       \* bound on failures of the network

VARIABLES
    starts,           \* number of starts so far: run r belongs to start r
    cancelled,        \* runs whose context is cancelled
    at,               \* where each run is
    attempt,          \* attempts of the retrier
    IsRunning,
    conn,             \* the current connection: open, subscriptions received, a message read
    open,             \* connections left open that are no longer current
    silent,           \* the exchange no longer sends on the current connection
    reconnectDue,     \* the ticker has fired
    inactivity,       \* the timer is armed, has fired, or is off
    failures,
    refused           \* rounds of subscriptions that failed

wsVars == <<starts, cancelled, at, attempt, IsRunning, conn, open, silent, reconnectDue,
            inactivity, failures, refused>>

Runs == 1 .. MaxStarts
Attempts == 3

WsInit ==
    /\ starts = 0 /\ cancelled = {} /\ at = [r \in Runs |-> "none"]
    /\ attempt = 0 /\ IsRunning = FALSE
    /\ conn = [open |-> FALSE, subs |-> 0, heard |-> FALSE] /\ open = 0 /\ silent = FALSE
    /\ reconnectDue = FALSE /\ inactivity = "armed" /\ failures = 0 /\ refused = 0

Goes(r, to) == at' = [at EXCEPT ![r] = to]
Fails == failures < MaxFailures /\ failures' = failures + 1

Start ==
    /\ starts < MaxStarts /\ starts' = starts + 1
    /\ Goes(starts', "run")
    /\ UNCHANGED <<cancelled, attempt, IsRunning, conn, open, silent, reconnectDue, inactivity,
                   failures, refused>>

Stop ==
    /\ starts > 0 /\ starts \notin cancelled
    /\ cancelled' = cancelled \cup {starts}
    /\ UNCHANGED <<starts, at, attempt, IsRunning, conn, open, silent, reconnectDue, inactivity,
                   failures, refused>>

-----------------------------------------------------------------------------
(* Run.                                                                    *)

Run(r) ==
    /\ at[r] = "run"
    /\ IF IsRunning THEN Goes(r, "refused") /\ UNCHANGED <<IsRunning, attempt, reconnectDue, inactivity>>
       ELSE /\ Goes(r, "dial") /\ IsRunning' = TRUE /\ attempt' = 0
            /\ reconnectDue' = FALSE /\ inactivity' = "armed"
    /\ UNCHANGED <<starts, cancelled, conn, open, silent, failures, refused>>

\* The connection replaces the current one, which nobody closes when subscribing failed.
Dial(r) ==
    /\ at[r] = "dial" /\ r \notin cancelled
    /\ open' = open + IF conn.open THEN 1 ELSE 0
    /\ conn' = [open |-> TRUE, subs |-> 0, heard |-> FALSE] /\ silent' = FALSE
    /\ Goes(r, "subscribe") /\ attempt' = 0
    /\ UNCHANGED <<starts, cancelled, IsRunning, reconnectDue, inactivity, failures, refused>>

\* With a cancelled context every dial fails. After three attempts Run sleeps, and dials
\* again: it does not look at the context here.
DialFails(r) ==
    /\ at[r] = "dial"
    /\ IF r \in cancelled THEN UNCHANGED failures ELSE Fails
    /\ attempt' = (attempt + 1) % Attempts
    /\ UNCHANGED <<starts, cancelled, at, IsRunning, conn, open, silent, reconnectDue, inactivity, refused>>

\* subscribeJob writes all subscriptions; the retrier begins with the first one again.
Subscribe(r) ==
    /\ at[r] = "subscribe" /\ r \notin cancelled
    /\ conn' = [conn EXCEPT !.subs = Subscriptions]
    /\ Goes(r, "loop")
    /\ UNCHANGED <<starts, cancelled, attempt, IsRunning, open, silent, reconnectDue, inactivity,
                   failures, refused>>

SubscribeFails(r) ==
    /\ at[r] = "subscribe"
    /\ IF r \in cancelled THEN UNCHANGED failures ELSE Fails
    /\ \E n \in 0 .. Subscriptions - 1 : n >= conn.subs /\ conn' = [conn EXCEPT !.subs = n]
    /\ attempt' = (attempt + 1) % Attempts
    /\ Goes(r, IF attempt' = 0 THEN "dial" ELSE "subscribe")
    /\ refused' = refused + IF attempt' = 0 THEN 1 ELSE 0
    /\ UNCHANGED <<starts, cancelled, IsRunning, open, silent, reconnectDue, inactivity>>

Closed == [open |-> FALSE, subs |-> 0, heard |-> FALSE]

\* The connection is not closed (a mutant).
BreaksWithoutClose(r) ==
    /\ Goes(r, "dial") /\ attempt' = 0
    /\ UNCHANGED conn

Breaks(r) ==
    /\ Goes(r, "dial") /\ attempt' = 0
    /\ conn' = Closed

\* One turn of the inner loop. What has fired is seen before the next read only, and a read
\* waits for as long as the exchange is silent.
ContextDone(r) ==
    /\ at[r] = "loop" /\ r \in cancelled
    /\ Goes(r, "returned") /\ IsRunning' = FALSE /\ conn' = Closed
    /\ UNCHANGED <<starts, cancelled, attempt, open, silent, reconnectDue, inactivity, failures, refused>>

ReconnectInterval(r) ==
    /\ at[r] = "loop" /\ reconnectDue
    /\ reconnectDue' = FALSE /\ Breaks(r)
    /\ UNCHANGED <<starts, cancelled, IsRunning, open, silent, inactivity, failures, refused>>

\* After a recent message, of this connection or of the one before, the timer is set again.
\* Otherwise the connection is dialled again, and the timer stays off.
InactivityTimer(r) ==
    /\ at[r] = "loop" /\ inactivity = "fired"
    /\ \/ inactivity' = "armed" /\ UNCHANGED <<at, attempt, conn>>
       \/ ~conn.heard /\ inactivity' = "off" /\ Breaks(r)
    /\ UNCHANGED <<starts, cancelled, IsRunning, open, silent, reconnectDue, failures, refused>>

Reads(r) ==
    /\ at[r] = "loop" /\ ~reconnectDue /\ inactivity # "fired" /\ r \notin cancelled
    /\ Goes(r, "read")
    /\ UNCHANGED <<starts, cancelled, attempt, IsRunning, conn, open, silent, reconnectDue,
                   inactivity, failures, refused>>

Message(r) ==
    /\ at[r] = "read" /\ ~silent /\ r \notin cancelled
    /\ Goes(r, "loop") /\ conn' = [conn EXCEPT !.heard = TRUE]
    /\ UNCHANGED <<starts, cancelled, attempt, IsRunning, open, silent, reconnectDue,
                   inactivity, failures, refused>>

\* Run returns on an error (a mutant).
ReadErrorReturns(r) ==
    /\ at[r] = "read"
    /\ IF r \in cancelled THEN UNCHANGED failures ELSE Fails
    /\ Goes(r, "returned") /\ IsRunning' = FALSE /\ conn' = Closed
    /\ UNCHANGED <<starts, cancelled, attempt, open, silent, reconnectDue, inactivity, refused>>

\* A read ends with an error when the connection does or the context is cancelled.
ReadError(r) ==
    /\ at[r] = "read"
    /\ IF r \in cancelled THEN UNCHANGED failures ELSE Fails
    /\ Breaks(r)
    /\ UNCHANGED <<starts, cancelled, IsRunning, open, silent, reconnectDue, inactivity, refused>>

\* The exchange and the clock.
Fires ==
    /\ IsRunning
    /\ reconnectDue' \in {reconnectDue, TRUE} /\ inactivity' \in {inactivity, IF inactivity = "armed" THEN "fired" ELSE inactivity}
    /\ UNCHANGED <<starts, cancelled, at, attempt, IsRunning, conn, open, silent, failures, refused>>

FallsSilent ==
    /\ conn.open /\ Fails /\ silent' = TRUE
    /\ UNCHANGED <<starts, cancelled, at, attempt, IsRunning, conn, open, reconnectDue, inactivity,
                   refused>>

Progress(r) ==
    \/ Run(r) \/ Dial(r) \/ Subscribe(r) \/ ContextDone(r)
    \/ ReconnectInterval(r) \/ InactivityTimer(r) \/ Reads(r) \/ Message(r)

WsNext ==
    \/ Start \/ Stop \/ Fires \/ FallsSilent
    \/ \E r \in Runs : Progress(r) \/ DialFails(r) \/ SubscribeFails(r) \/ ReadError(r)

-----------------------------------------------------------------------------

Reading(r) == at[r] \in {"loop", "read"}

\* A run reads only from a connection that has received every subscription, also after
\* rounds that failed in the middle.
ReadsAreSubscribed ==
    \A r \in Runs : Reading(r) => conn.open /\ conn.subs = Subscriptions

Unused == conn.open /\ \A r \in Runs : at[r] \notin {"subscribe", "loop", "read"}

\* A connection is left open only by a round of subscriptions that failed: every other way
\* out of the inner loop closes it.
LeaksAreRefused == open + (IF Unused THEN 1 ELSE 0) <= refused

\* A started fetcher gets back to a connection with all subscriptions whenever it has lost
\* one. Two things prevent it: Run is refused because the run of an earlier start has not
\* ended (stopped while it reads or dials, it goes on dialling with a cancelled context and
\* never ends), and an exchange that falls silent without closing the connection (the
\* inactivity timer is not looked at while a read waits).
Reconnects ==
    []<>(\/ starts = 0 \/ starts \in cancelled \/ at[starts] = "refused" \/ silent
         \/ \E r \in Runs : Reading(r))

=============================================================================
