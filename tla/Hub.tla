-------------------------------- MODULE Hub --------------------------------
(***************************************************************************)
(* The hub of the data availability layer: websocket clients register,     *)
(* subscribe to symbols and are sent the data of these symbols.  Each      *)
(* client has a handler (WSHandler), one goroutine registers and removes   *)
(* clients, one broadcasts, and a ticker removes clients without           *)
(* subscriptions.  Register and Unregister are channels without a buffer;  *)
(* h.mu guards the clients.                                                *)
(***************************************************************************)
EXTENDS Naturals, FiniteSets

CONSTANTS
    Client,           \* connections
    Symbol,
    MaxCasts          \* bound on broadcasts

VARIABLES
    handler,          \* where the handler of each connection is
    open,             \* connections that are not closed
    Clients,          \* h.Clients: the symbols of each registered connection
    registration,     \* what handleClientRegistration is doing, and for whom
    cleaning,         \* the connections cleanup has still to visit, when it runs
    kept,             \* and newClients, those it keeps
    casting,          \* whether a broadcast holds the read lock
    casts,
    subscribed        \* history: what each connection subscribed to

hubVars == <<handler, open, Clients, registration, cleaning, kept, casting, casts, subscribed>>

NotRunning == <<>>
Listening == [op |-> "listen", client |-> NotRunning]

HubInit ==
    /\ handler = [c \in Client |-> "none"] /\ open = {}
    /\ Clients = <<>>
    /\ registration = Listening
    /\ cleaning = NotRunning /\ kept = <<>>
    /\ casting = FALSE /\ casts = 0
    /\ subscribed = [c \in Client |-> {}]

\* h.mu can be locked: cleanup holds it from its first to its last step.
Unlocked == cleaning = NotRunning /\ ~casting

\* A map of clients in which c has these symbols.
With(map, c, symbols) == [d \in DOMAIN map \cup {c} |-> IF d = c THEN symbols ELSE map[d]]

\* Mutant: the client stays in the map.
WithoutNone(c) == Clients

Without(c) == [d \in DOMAIN Clients \ {c} |-> Clients[d]]

-----------------------------------------------------------------------------
(* The handler of a connection.                                            *)

Accept(c) ==
    /\ handler[c] = "none"
    /\ handler' = [handler EXCEPT ![c] = "registering"]
    /\ open' = open \cup {c}
    /\ UNCHANGED <<Clients, registration, cleaning, kept, casting, casts, subscribed>>

\* Register and Unregister: the handler goes on when the client was received.
Register(c) ==
    /\ handler[c] = "registering" /\ registration = Listening
    /\ handler' = [handler EXCEPT ![c] = "inserting"]
    /\ registration' = [op |-> "add", client |-> c]
    /\ UNCHANGED <<open, Clients, cleaning, kept, casting, casts, subscribed>>

Unregister(c) ==
    /\ handler[c] = "unregistering" /\ registration = Listening
    /\ handler' = [handler EXCEPT ![c] = "gone"]
    /\ open' = open \ {c}
    /\ registration' = [op |-> "remove", client |-> c]
    /\ UNCHANGED <<Clients, cleaning, kept, casting, casts, subscribed>>

InsertConnection(c) ==
    /\ handler[c] = "inserting"
    /\ handler' = [handler EXCEPT ![c] = "reading"]
    /\ UNCHANGED <<open, Clients, registration, cleaning, kept, casting, casts, subscribed>>

\* The database fails: the handler returns before it has deferred Unregister.
InsertConnectionFails(c) ==
    /\ handler[c] = "inserting"
    /\ handler' = [handler EXCEPT ![c] = "gone"]
    /\ open' = open \ {c}
    /\ UNCHANGED <<Clients, registration, cleaning, kept, casting, casts, subscribed>>

\* A message comes; the connection may be closed before the handler gets h.mu.
ReadSubscription(c) ==
    /\ handler[c] = "reading" /\ c \in open
    /\ handler' = [handler EXCEPT ![c] = "subscribing"]
    /\ UNCHANGED <<open, Clients, registration, cleaning, kept, casting, casts, subscribed>>

\* The symbols of the message that the hub knows, perhaps none.
HandleSubscription(c, symbols) ==
    /\ handler[c] = "subscribing"
    /\ Unlocked
    /\ Clients' = With(Clients, c, symbols \cup IF c \in DOMAIN Clients THEN Clients[c] ELSE {})
    /\ subscribed' = [subscribed EXCEPT ![c] = @ \cup symbols]
    /\ handler' = [handler EXCEPT ![c] = "reading"]
    /\ UNCHANGED <<open, registration, cleaning, kept, casting, casts>>

\* The peer leaves, or finds that its connection was closed.
ReadFails(c) ==
    /\ handler[c] = "reading"
    /\ handler' = [handler EXCEPT ![c] = "unregistering"]
    /\ UNCHANGED <<open, Clients, registration, cleaning, kept, casting, casts, subscribed>>

-----------------------------------------------------------------------------
(* handleClientRegistration.                                               *)

Added(c) == IF c \in DOMAIN Clients THEN Clients ELSE With(Clients, c, {})

addClient(c) ==
    /\ registration = [op |-> "add", client |-> c]
    /\ Unlocked
    /\ Clients' = Added(c)
    /\ registration' = Listening
    /\ UNCHANGED <<handler, open, cleaning, kept, casting, casts, subscribed>>

removeClient(c) ==
    /\ registration = [op |-> "remove", client |-> c]
    /\ Unlocked
    /\ Clients' = Without(c)
    /\ open' = IF c \in DOMAIN Clients THEN open \ {c} ELSE open
    /\ registration' = Listening
    /\ UNCHANGED <<handler, cleaning, kept, casting, casts, subscribed>>

-----------------------------------------------------------------------------
(* Broadcast and cleanup.                                                  *)

\* castSubmissionData holds the read lock until all subscribers were written to.
CastBegins ==
    /\ Unlocked /\ casts < MaxCasts
    /\ casting' = TRUE
    /\ casts' = casts + 1
    /\ UNCHANGED <<handler, open, Clients, registration, cleaning, kept, subscribed>>

CastEnds ==
    /\ casting
    /\ casting' = FALSE
    /\ UNCHANGED <<handler, open, Clients, registration, cleaning, kept, casts, subscribed>>

\* The ticker: cleanup locks h.mu and goes through the clients.
CleanupBegins ==
    /\ Unlocked
    /\ cleaning' = <<DOMAIN Clients>> /\ kept' = <<>>
    /\ UNCHANGED <<handler, open, Clients, registration, casting, casts, subscribed>>

IsIdle(c) == Clients[c] = {}

\* A client with subscriptions is kept; an idle one is sent to Unregister.
CleanupVisits(c) ==
    /\ cleaning # NotRunning /\ c \in cleaning[1]
    /\ IF IsIdle(c)
       THEN /\ registration = Listening
            /\ registration' = [op |-> "remove", client |-> c]
            /\ UNCHANGED kept
       ELSE /\ kept' = With(kept, c, Clients[c])
            /\ UNCHANGED registration
    /\ cleaning' = <<cleaning[1] \ {c}>>
    /\ UNCHANGED <<handler, open, Clients, casting, casts, subscribed>>

CleanupEnds ==
    /\ cleaning = <<{}>>
    /\ Clients' = kept /\ kept' = <<>>
    /\ cleaning' = NotRunning
    /\ UNCHANGED <<handler, open, registration, casting, casts, subscribed>>

-----------------------------------------------------------------------------

RegistrationProceeds == \E c \in Client : addClient(c) \/ removeClient(c)

CleanupProceeds == CleanupBegins \/ CleanupEnds \/ \E c \in Client : CleanupVisits(c)

HubNext ==
    \/ \E c \in Client :
          \/ Accept(c) \/ Register(c) \/ InsertConnection(c) \/ InsertConnectionFails(c)
          \/ ReadSubscription(c)
          \/ \E symbols \in SUBSET Symbol : HandleSubscription(c, symbols)
          \/ ReadFails(c) \/ Unregister(c)
    \/ RegistrationProceeds
    \/ CastBegins \/ CastEnds
    \/ CleanupProceeds

\* Writes end and the ticker ticks; a goroutine that waits for the mutex or for a
\* channel gets it in the end, since Go queues them.
HubFairness ==
    /\ SF_hubVars(RegistrationProceeds)
    /\ SF_hubVars(CleanupProceeds)
    /\ WF_hubVars(CastEnds)

HubSpec == HubInit /\ [][HubNext]_hubVars /\ HubFairness

-----------------------------------------------------------------------------
(* Properties.                                                             *)

\* A client that is connected is in the hub with everything it subscribed to, also
\* when its first subscription overtakes its registration or a cleanup passes.
SubscriptionsKept ==
    \A c \in open : handler[c] \in {"reading", "subscribing"} =>
        subscribed[c] \subseteq IF c \in DOMAIN Clients THEN Clients[c] ELSE {}

\* cleanup, which holds h.mu, waits for handleClientRegistration, which waits for h.mu.
CleanupStuck ==
    cleaning # NotRunning /\ registration # Listening /\ \E c \in cleaning[1] : IsIdle(c)

\* The hub forgets every client that is gone, unless cleanup is stuck with a client
\* to remove while another is being registered or removed: nothing else keeps the
\* handlers, the registration, the broadcast and the ticker from going on.
GoneAreForgotten ==
    \A c \in Client : handler[c] = "gone" ~> c \notin DOMAIN Clients \/ CleanupStuck

=============================================================================
