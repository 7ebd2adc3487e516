----------------------------- MODULE FeedRouter -----------------------------
(***************************************************************************)
(* How a reader finds a feed: the FeedRouter contract maps names to        *)
(* FeedProxy contracts, each of which has a current feed and, between      *)
(* proposeFeed and confirmFeed, a proposed one.  Transactions of the       *)
(* owners are actions; the reads are operators, a read that reverts being  *)
(* NoAddress.                                                              *)
(***************************************************************************)
EXTENDS Integers, Sequences, FiniteSets, SequencesExt

CONSTANTS
    Name,             \* feed names
    Proxy,            \* FeedProxy contracts
    Feed,             \* Feed contracts
    NoAddress,        \* address(0), none of the above
    MaxBulk           \* bound on the length of a bulk call

VARIABLES
    feedToProxies,    \* the proxy of each name
    feedNames,        \* the names in use
    feed,             \* the current feed of each proxy
    proposedFeed      \* its proposed feed

routerVars == <<feedToProxies, feedNames>>
proxyVars == <<feed, proposedFeed>>
vars == <<routerVars, proxyVars>>

Init ==
    /\ feedToProxies = [n \in Name |-> NoAddress] /\ feedNames = <<>>
    /\ feed \in [Proxy -> Feed]
    /\ proposedFeed = [p \in Proxy |-> NoAddress]

-----------------------------------------------------------------------------
(* The router.  r is the router's state inside a bulk call.                *)

Router == [proxies |-> feedToProxies, names |-> feedNames, ok |-> TRUE]

NamesAfter(r, name) ==
    IF r.proxies[name] # NoAddress THEN r.names ELSE Append(r.names, name)

updateProxy(r, name, proxy) ==
    IF proxy = NoAddress THEN [r EXCEPT !.ok = FALSE]
    ELSE [r EXCEPT !.proxies[name] = proxy, !.names = NamesAfter(r, name)]

\* The first slot of the name takes the last name, and the list loses its last slot.
RemoveName(names, name) ==
    LET slots == {i \in 1..Len(names) : names[i] = name}
        first == CHOOSE i \in slots : \A j \in slots : i <= j
    IN  IF slots = {} THEN names
        ELSE SubSeq([names EXCEPT ![first] = names[Len(names)]], 1, Len(names) - 1)

removeProxy(r, name) ==
    IF r.proxies[name] = NoAddress THEN [r EXCEPT !.ok = FALSE]
    ELSE [r EXCEPT !.proxies[name] = NoAddress, !.names = RemoveName(@, name)]

Commit(r) ==
    /\ r.ok
    /\ feedToProxies' = r.proxies /\ feedNames' = r.names
    /\ UNCHANGED proxyVars

\* pairs: names with their new proxies.
updateProxyBulk(pairs) ==
    /\ pairs # <<>>
    /\ Commit(FoldLeft(LAMBDA r, x : updateProxy(r, x[1], x[2]), Router, pairs))

removeProxyBulk(names) ==
    /\ names # <<>>
    /\ Commit(FoldLeft(LAMBDA r, name : removeProxy(r, name), Router, names))

-----------------------------------------------------------------------------
(* A proxy.                                                                *)

proposeFeed(p, f) ==
    /\ f # NoAddress
    /\ proposedFeed' = [proposedFeed EXCEPT ![p] = f]
    /\ UNCHANGED <<feed, routerVars>>

\* Mutant: any feed may be confirmed.
ConfirmsAny(p, f) == f # NoAddress

Confirms(p, f) == f = proposedFeed[p]

confirmFeed(p, f) ==
    /\ Confirms(p, f)
    /\ proposedFeed' = [proposedFeed EXCEPT ![p] = NoAddress]
    /\ feed' = [feed EXCEPT ![p] = f]
    /\ UNCHANGED routerVars

BulkSeqs(S) == UNION {[1..n -> S] : n \in 0..MaxBulk}

Next ==
    \/ \E pairs \in BulkSeqs(Name \X (Proxy \cup {NoAddress})) : updateProxyBulk(pairs)
    \/ \E names \in BulkSeqs(Name) : removeProxyBulk(names)
    \/ \E p \in Proxy, f \in Feed \cup {NoAddress} : proposeFeed(p, f) \/ confirmFeed(p, f)

Spec == Init /\ [][Next]_vars

-----------------------------------------------------------------------------
(* Properties.                                                             *)

\* What a reader of a name gets: the proxy's current feed.
Read(name) ==
    IF feedToProxies[name] = NoAddress THEN NoAddress ELSE feed[feedToProxies[name]]

\* getFeedNames lists every name that has a proxy, once, and no other, after any
\* bulk updates and removals, names repeated within a bulk included.
NamesListed ==
    /\ ToSet(feedNames) = {n \in Name : feedToProxies[n] # NoAddress}
    /\ Cardinality(ToSet(feedNames)) = Len(feedNames)

\* The feed a reader of a name gets changes only to the feed that was proposed for
\* the proxy, or because the router changes the name's proxy.
ReadersFollowProposals ==
    [][\A n \in Name :
          Read(n)' # Read(n) /\ feedToProxies'[n] = feedToProxies[n]
              => Read(n)' = proposedFeed[feedToProxies[n]]]_vars

\* The comment of confirmFeed: "The proposed feed must not be the zero address."
ConfirmedNotZero == \A p \in Proxy : feed[p] # NoAddress

=============================================================================
