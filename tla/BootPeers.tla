----------------------------- MODULE BootPeers ------------------------------
(***************************************************************************)
(* How the nodes find each other.  A node gives its url to the boot API,   *)
(* whose handler connects to it, reads the table of peers and then inserts *)
(* the url; the node dials the peers of the answer.  A lost connection     *)
(* makes both ends ask again, several times, and the boot server deletes the *)
(* peers it cannot connect to.                                             *)
(*                                                                         *)
(* A node is a host: one that restarts has a new identity.                 *)
(***************************************************************************)
EXTENDS Naturals, FiniteSets

CONSTANTS
    Node,
    Attempts,      \* a node makes for a lost connection
    MaxFaults      \* bound on lost connections, failed dials, checks and requests

VARIABLES
    host,          \* "off", "up" or "down"
    call,          \* ConnectThroughBootApi of each node, and the handler of its request
    joined,        \* the nodes that started
    resyncs,       \* the attempts each node owes to disconnect events
    peers,         \* the table of the boot server
    doomed,        \* the row that RefreshJob is about to delete, if any
    connected,     \* pairs of connected nodes
    faults,
    excused        \* history: pairs kept apart by a fault or by handlers that overlapped

nodePart == <<host, call, joined, resyncs, connected>>
bootVars == <<nodePart, peers, doomed, faults, excused>>

NoCall == [phase |-> "none", list |-> {}]
Pairs(n) == {{n, m} : m \in Node \ {n}}
Up == {n \in Node : host[n] = "up"}
Fault == faults < MaxFaults /\ faults' = faults + 1

BootInit ==
    /\ host = [n \in Node |-> "off"] /\ call = [n \in Node |-> NoCall]
    /\ joined = {} /\ resyncs = [n \in Node |-> 0]
    /\ peers = {} /\ doomed = {} /\ connected = {}
    /\ faults = 0 /\ excused = {}

-----------------------------------------------------------------------------
(* The node.                                                               *)

\* The first call; main gives up when its retries do.
NodeStarts(n) ==
    /\ host[n] = "off"
    /\ host' = [host EXCEPT ![n] = "up"]
    /\ call' = [call EXCEPT ![n].phase = "asked"]
    /\ UNCHANGED <<joined, resyncs, connected, peers, doomed, faults, excused>>

\* The peers of the answer that are dialled: neither connected nor the node itself.
ToDial(n) == {m \in call[n].list : m # n /\ {n, m} \notin connected}

\* One peer at a time; a dial that fails, after its retries, is skipped.
ConnectPeer(n, m) ==
    /\ host[n] = "up" /\ call[n].phase = "dial" /\ m \in ToDial(n)
    /\ call' = [call EXCEPT ![n].list = @ \ {m}]
    /\ \/ /\ host[m] = "up"
          /\ connected' = connected \cup {{n, m}} /\ UNCHANGED <<faults, excused>>
       \/ host[m] = "down" /\ UNCHANGED <<connected, faults, excused>>
       \/ Fault /\ excused' = excused \cup {{n, m}} /\ UNCHANGED connected
    /\ UNCHANGED <<host, joined, resyncs, peers, doomed>>

ConnectThroughBootApi(n) ==
    /\ host[n] = "up" /\ call[n].phase = "dial" /\ ToDial(n) = {}
    /\ call' = [call EXCEPT ![n] = NoCall]
    /\ joined' = joined \cup {n}
    /\ UNCHANGED <<host, resyncs, connected, peers, doomed, faults, excused>>

\* An error answer: before it joined the node asks again, later it does not.
CallFails(n) ==
    /\ call' = [call EXCEPT ![n] = IF n \in joined THEN NoCall ELSE [NoCall EXCEPT !.phase = "asked"]]
    /\ excused' = IF n \in joined THEN excused \cup Pairs(n) ELSE excused

\* Each end of a lost connection asks again, some minutes apart.
Owe(nodes) == resyncs' = [n \in Node |-> IF n \in nodes THEN Attempts ELSE resyncs[n]]

handleDisconnectEvent(n) ==
    /\ host[n] = "up" /\ resyncs[n] > 0 /\ call[n].phase = "none"
    /\ resyncs' = [resyncs EXCEPT ![n] = @ - 1]
    /\ call' = [call EXCEPT ![n].phase = "asked"]
    /\ UNCHANGED <<host, joined, connected, peers, doomed, faults, excused>>

ConnectionLost(n, m) ==
    /\ {n, m} \in connected /\ Fault
    /\ connected' = connected \ {{n, m}}
    /\ Owe({n, m})
    /\ UNCHANGED <<host, call, joined, peers, doomed, excused>>

NodeStops(n) ==
    /\ host[n] = "up" /\ Fault
    /\ host' = [host EXCEPT ![n] = "down"]
    /\ call' = [call EXCEPT ![n] = IF @.phase \in {"asked", "dial"} THEN NoCall ELSE @]
    /\ connected' = connected \ Pairs(n)
    /\ Owe({m \in Up \ {n} : {n, m} \in connected})
    /\ UNCHANGED <<joined, peers, doomed, excused>>

-----------------------------------------------------------------------------
(* The boot server.                                                        *)

\* The handler connects to the node before it reads the table.
IsHostAlive(n) ==
    /\ call[n].phase = "asked"
    /\ \/ call' = [call EXCEPT ![n].phase = "alive"] /\ UNCHANGED <<faults, excused>>
       \/ Fault /\ CallFails(n)
    /\ UNCHANGED <<host, joined, resyncs, connected, peers, doomed>>

syncReads(n) ==
    /\ call[n].phase = "alive"
    /\ call' = [call EXCEPT ![n] = [phase |-> "read", list |-> peers]]
    /\ excused' = excused \cup {{n, m} : m \in {k \in Node \ {n} : call[k].phase = "read"}}
    /\ UNCHANGED <<host, joined, resyncs, connected, peers, doomed, faults>>

\* The insert leaves an url that is there as it is.
syncInserts(n) ==
    /\ call[n].phase = "read"
    /\ peers' = peers \cup {n}
    /\ call' = [call EXCEPT ![n] = IF host[n] = "up" THEN [@ EXCEPT !.phase = "dial"] ELSE NoCall]
    /\ UNCHANGED <<host, joined, resyncs, connected, doomed, faults, excused>>

\* Mutant: an error of the check spares the peer, whatever it is.
Spared(n) == UNCHANGED doomed

\* A peer that cannot be connected to is deleted.
Doomed(n) == doomed' = {n}

\* The job checks the rows one by one; nobody else deletes a row, so that the list it
\* read at its start is part of the table.  A peer that is alive changes nothing.
RefreshChecks(n) ==
    /\ n \in peers /\ doomed = {}
    /\ Doomed(n)
    /\ \/ host[n] = "down" /\ UNCHANGED <<faults, excused>>
       \/ host[n] = "up" /\ Fault /\ excused' = excused \cup Pairs(n)
    /\ UNCHANGED <<nodePart, peers>>

RefreshDeletes ==
    /\ doomed # {}
    /\ peers' = peers \ doomed
    /\ doomed' = {}
    /\ UNCHANGED <<nodePart, faults, excused>>

-----------------------------------------------------------------------------

Refreshes == RefreshDeletes \/ \E n \in Node : RefreshChecks(n)
Handles(n) == IsHostAlive(n) \/ syncReads(n) \/ syncInserts(n)

BootNext ==
    \/ \E n \in Node :
          \/ NodeStarts(n) \/ ConnectThroughBootApi(n) \/ handleDisconnectEvent(n) \/ NodeStops(n)
          \/ Handles(n)
          \/ \E m \in Node \ {n} : ConnectPeer(n, m) \/ ConnectionLost(n, m)
    \/ Refreshes

-----------------------------------------------------------------------------
(* Properties.                                                             *)

AtRest(n) == n \in joined \cap Up /\ call[n] = NoCall /\ resyncs[n] = 0

\* Two nodes that have started and have nothing left to do are connected, after a lost
\* connection as well, unless a fault kept them apart, or the handlers of their requests
\* overlapped: both read the table before the other was in it.
MeshAtRest ==
    \A n, m \in Node : n # m /\ AtRest(n) /\ AtRest(m) => {n, m} \in connected \cup excused

\* A node that is gone leaves the table, though its request may still be in the handler.
DeadLeave ==
    \A n \in Node : host[n] = "down" ~> n \notin peers
=============================================================================
