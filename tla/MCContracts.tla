---------------------------- MODULE MCContracts -----------------------------
(* The v0.2 contracts for TLC.  They call each other only as the modules   *)
(* describe, so a behaviour exercises one of them: the SubmissionProxy, a  *)
(* Feed, or a FeedRouter with its FeedProxy contracts.                     *)
EXTENDS SubmissionProxy, TLC

CONSTANTS a1, a2, h1, h2, f1, f2, Name, Proxy, Reverted

VARIABLES part, answers, blockTime, feedToProxies, feedNames, feed, proposedFeed

\* Sums of both signs that do not divide evenly.
F == INSTANCE Feed WITH Answers <- {-5, 2, 4}, MaxRounds <- 4, MaxTime <- 4,
                        rounds <- answers, now <- blockTime

R == INSTANCE FeedRouter WITH NoAddress <- NoFeed, MaxBulk <- 3

\* The feeds' names.
Names == (f1 :> h1) @@ (f2 :> h2)

\* Proofs of one or both oracles in either order, and one that does not split.
SomeProofs == {<<>>, <<a1>>, <<a1, a2>>, <<a2, a1>>}

\* One submission, or two of any hashes and times.
SomeBatches ==
    LET x(h, t, p) == [hash |-> h, ts |-> t, signers |-> p] IN
    {<<x(h1, t, p)>> : t \in Stamps, p \in SomeProofs}
        \cup {<<x(h1, t, <<a1, a2>>), x(h, u, <<a1, a2>>)>> : t \in Stamps, u \in Stamps, h \in Hash}

\* Only the first feed's submitter or threshold is changed, one of them at a time.
SecondFeedPlain ==
    /\ thresholds[h2] = 0 /\ f2 \in submits
    /\ thresholds[h1] = 0 \/ f1 \in submits

-----------------------------------------------------------------------------

feedPart == <<answers, blockTime>>
routerPart == <<feedToProxies, feedNames, feed, proposedFeed>>

ContractsInit ==
    /\ part \in {"proxy", "feed", "router"}
    /\ Init /\ F!Init /\ R!Init
    /\ part # "router" => feed = [p \in Proxy |-> f1]

ContractsNext ==
    /\ UNCHANGED part
    /\ \/ part = "proxy" /\ Next /\ UNCHANGED <<feedPart, routerPart>>
       \/ part = "feed" /\ F!Next /\ UNCHANGED <<vars, routerPart>>
       \/ part = "router" /\ R!Next /\ UNCHANGED <<vars, feedPart>>

ContractsSpec == ContractsInit /\ [][ContractsNext]_<<part, vars, feedPart, routerPart>>

\* Feed: twap averages the shortest window of latest rounds that is long enough.
TwapOfShortestWindow == F!TwapOfShortestWindow

\* FeedRouter and FeedProxy: the names listed are those with a proxy, each once, and the
\* readers of a name get another feed only when it was proposed.
NamesAreFollowed == []R!NamesListed /\ R!ReadersFollowProposals

=============================================================================
