-------------------------- MODULE SubmissionProxy ---------------------------
(***************************************************************************)
(* The SubmissionProxy contract: batches of signed answers for feeds.  The *)
(* oracles are those of OracleWhitelist.  A signature is the address it    *)
(* recovers to for the submission it comes with, the zero address when it  *)
(* recovers to none; an empty sequence is a proof that splitProofs rejects.*)
(* Of a Feed contract there is the list of its answers, an answer being the*)
(* timestamp it was signed with, and whether the proxy is its submitter.   *)
(***************************************************************************)
EXTENDS OracleWhitelist

CONSTANTS
    Hash,             \* feed hashes
    Feed,             \* addresses of Feed contracts
    NoFeed,           \* address(0) in feeds
    NameHash,         \* the hash of each feed's name
    Stamps,           \* timestamps of submissions, in milliseconds
    Percents,         \* thresholds the owner may choose
    Freshness,        \* values of dataFreshness the owner may choose, in seconds
    Limits,           \* values of maxSubmission the owner may choose
    Batches,          \* the batches that are submitted
    MaxAccepted       \* bound on the accepted submissions

ASSUME FeedAssumption ==
    /\ IsFiniteSet(Hash)
    /\ NoFeed \notin Feed
    /\ NameHash \in [Feed -> Hash]
ASSUME OwnerAssumption ==
    /\ Percents \subseteq 1..100 /\ Percents # {}
    /\ Freshness \subseteq Nat /\ Limits \subseteq 1..1000
    /\ Stamps \subseteq Nat \ {0}
    /\ Batches \subseteq Seq([hash : Hash, ts : Stamps, signers : Seq(Address)])

VARIABLES
    feeds, feedAddresses, thresholds, defaultThreshold,
    maxSubmission, dataFreshness, lastSubmissionTimes,
    submits,          \* the feeds whose submitter is this proxy
    rounds,           \* the answers of each feed
    accepted          \* history: the accepted submissions

configVars == <<thresholds, defaultThreshold, maxSubmission, dataFreshness>>
feedVars == <<feeds, feedAddresses, submits>>
dataVars == <<lastSubmissionTimes, rounds, accepted>>
vars == <<oracleVars, configVars, feedVars, dataVars>>

Init ==
    /\ OraclesInit
    /\ feeds = [h \in Hash |-> NoFeed] /\ feedAddresses = <<>>
    /\ submits = Feed
    /\ thresholds = [h \in Hash |-> 0]
    /\ defaultThreshold \in Percents
    /\ maxSubmission \in Limits /\ dataFreshness \in Freshness
    /\ lastSubmissionTimes = [h \in Hash |-> 0]
    /\ rounds = [f \in Feed |-> <<>>]
    /\ accepted = <<>>

-----------------------------------------------------------------------------
(* The feeds.                                                              *)

Positions(seq, x) == {i \in DOMAIN seq : seq[i] = x}

FirstOf(seq, x) == First(Positions(seq, x))

\* The list without the first x, which its last element replaces.
Without(seq, x) ==
    SubSeq([seq EXCEPT ![FirstOf(seq, x)] = seq[Len(seq)]], 1, Len(seq) - 1)

removeFeed(h) ==
    /\ feeds[h] # NoFeed
    /\ feeds' = [feeds EXCEPT ![h] = NoFeed]
    /\ feedAddresses' = IF Positions(feedAddresses, feeds[h]) # {}
                        THEN Without(feedAddresses, feeds[h]) ELSE feedAddresses
    /\ UNCHANGED <<oracleVars, configVars, submits, dataVars>>

\* The list when f becomes the feed of hash h.
Listed(h, f) ==
    IF feeds[h] = NoFeed THEN Append(feedAddresses, f)
    ELSE IF Positions(feedAddresses, feeds[h]) # {}
    THEN [feedAddresses EXCEPT ![FirstOf(feedAddresses, feeds[h])] = f]
    ELSE feedAddresses

\* updateFeedBulk is a sequence of these.
updateFeed(h, f) ==
    /\ feeds' = [feeds EXCEPT ![h] = f]
    /\ feedAddresses' = Listed(h, f)
    /\ UNCHANGED <<oracleVars, configVars, submits, dataVars>>

\* Feed.updateSubmitter: from this proxy to another submitter, or back.
updateSubmitter(f) ==
    /\ submits' = IF f \in submits THEN submits \ {f} ELSE submits \cup {f}
    /\ UNCHANGED <<oracleVars, configVars, feeds, feedAddresses, dataVars>>

-----------------------------------------------------------------------------
(* The owner's settings.                                                   *)

setMaxSubmission(n) ==
    /\ maxSubmission' = n
    /\ UNCHANGED <<oracleVars, thresholds, defaultThreshold, dataFreshness, feedVars, dataVars>>

setDataFreshness(n) ==
    /\ dataFreshness' = n
    /\ UNCHANGED <<oracleVars, thresholds, defaultThreshold, maxSubmission, feedVars, dataVars>>

setDefaultProofThreshold(p) ==
    /\ defaultThreshold' = p
    /\ UNCHANGED <<oracleVars, thresholds, maxSubmission, dataFreshness, feedVars, dataVars>>

setProofThreshold(h, p) ==
    /\ thresholds' = [thresholds EXCEPT ![h] = p]
    /\ UNCHANGED <<oracleVars, defaultThreshold, maxSubmission, dataFreshness, feedVars, dataVars>>

-----------------------------------------------------------------------------
(* Submissions.  last is lastSubmissionTimes as the batch has it so far.   *)

Submission == [hash : Hash, ts : Stamps, signers : Seq(Address)]

Threshold(h) == IF thresholds[h] = 0 THEN defaultThreshold ELSE thresholds[h]

Outdated(x) == x.ts <= (now - dataFreshness) * 1000

Superseded(x, last) == last[x.hash] >= x.ts

\* Mutant: any registered feed will do.
RegisteredOnly(x) == feeds[x.hash] # NoFeed

\* A proof that splits, for a registered feed of that name.
WellFormed(x) ==
    /\ x.signers # <<>>
    /\ feeds[x.hash] # NoFeed
    /\ NameHash[feeds[x.hash]] = x.hash

Verdict(x) == validateProof(x.signers, Threshold(x.hash))

\* A feed refuses a proxy that is not its submitter, and the transaction reverts.
Store(x) == IF feeds[x.hash] \in submits THEN "store" ELSE "revert"

\* block.timestamp - dataFreshness is checked arithmetic.
submitOutcome(x, last) ==
    IF now < dataFreshness THEN "revert"
    ELSE IF Outdated(x) \/ Superseded(x, last) \/ ~WellFormed(x) THEN "skip"
    ELSE CASE Verdict(x) = "reject" -> "skip"
           [] Verdict(x) = "accept" -> Store(x)
           [] OTHER -> "revert"

submitStrictOutcome(x, last) ==
    IF /\ now >= dataFreshness /\ ~Outdated(x) /\ ~Superseded(x, last) /\ WellFormed(x)
       /\ Verdict(x) = "accept"
    THEN Store(x) ELSE "revert"

submitWithoutSupersedOutcome(x, last) ==
    IF Superseded(x, last) THEN "skip"
    ELSE IF now >= dataFreshness /\ ~Outdated(x) /\ WellFormed(x) /\ Verdict(x) = "accept"
    THEN Store(x) ELSE "revert"

Functions == {"submit", "submitStrict", "submitWithoutSupersedValidation"}

Outcome(function, x, last) ==
    CASE function = "submit" -> submitOutcome(x, last)
      [] function = "submitStrict" -> submitStrictOutcome(x, last)
      [] OTHER -> submitWithoutSupersedOutcome(x, last)

\* One turn of a batch's loop: the times and the feeds' answers so far, what is
\* stored, and whether nothing reverted.
BatchTurn(function, s, x) ==
    LET outcome == Outcome(function, x, s.last)
    IN  IF ~s.ok \/ outcome = "skip" THEN s
        ELSE IF outcome = "revert" THEN [s EXCEPT !.ok = FALSE]
        ELSE [s EXCEPT !.last[x.hash] = x.ts, !.rounds[feeds[x.hash]] = Append(@, x.ts),
                       !.stored = Append(@, x)]

RunBatch(function, batch) ==
    LET loop[i \in 0..Len(batch)] ==
            IF i = 0
            THEN [last |-> lastSubmissionTimes, rounds |-> rounds, stored |-> <<>>, ok |-> TRUE]
            ELSE BatchTurn(function, loop[i - 1], batch[i])
    IN  loop[Len(batch)]

\* What the history keeps of a stored submission.
Entry(x) ==
    [hash |-> x.hash, ts |-> x.ts,
     active |-> Cardinality({a \in Signers(x.signers) : isWhitelisted(a)}),
     needed |-> Threshold(x.hash) * Len(oracles)]

SubmitBatch(function, batch) ==
    LET run == RunBatch(function, batch)
    IN  /\ Len(batch) <= maxSubmission
        /\ run.ok
        /\ Len(accepted) + Len(run.stored) <= MaxAccepted
        /\ lastSubmissionTimes' = run.last
        /\ rounds' = run.rounds
        /\ accepted' = accepted \o [i \in DOMAIN run.stored |-> Entry(run.stored[i])]
        /\ UNCHANGED <<oracleVars, configVars, feedVars>>

Next ==
    \/ OraclesNext /\ UNCHANGED <<configVars, feedVars, dataVars>>
    \/ \E h \in Hash : removeFeed(h) \/ \E f \in Feed : updateFeed(h, f)
    \/ \E f \in Feed : updateSubmitter(f)
    \/ \E n \in Limits : setMaxSubmission(n)
    \/ \E n \in Freshness : setDataFreshness(n)
    \/ \E p \in Percents : setDefaultProofThreshold(p) \/ \E h \in Hash : setProofThreshold(h, p)
    \/ \E batch \in Batches, function \in Functions : SubmitBatch(function, batch)

Spec == Init /\ [][Next]_vars

-----------------------------------------------------------------------------
(* Properties.                                                             *)

\* A feed gets its answers in the order of the times they were signed with and
\* none twice, whichever function submits them, also within one batch, and also
\* when the feed is removed, registered again or registered for a wrong hash.
AnswersInOrder ==
    \A f \in Feed : \A i, j \in DOMAIN rounds[f] : i < j => rounds[f][i] < rounds[f][j]

\* What was accepted had, at that time, signatures of at least one active oracle
\* and of the threshold's share of all oracles, expired ones counted.
AcceptedWithQuorum ==
    \A i \in DOMAIN accepted :
        accepted[i].active >= 1 /\ 100 * accepted[i].active >= accepted[i].needed

\* A batch that submitStrict takes is taken whole, and the two lenient functions
\* do exactly the same with it.
StrictIsStrongest ==
    \A batch \in Batches :
        LET strict == RunBatch("submitStrict", batch) IN
        strict.ok =>
            /\ strict.stored = batch
            /\ \A function \in Functions : RunBatch(function, batch) = strict

\* getFeeds lists every registered feed once for every hash it is registered for.
FeedsListed ==
    \A f \in Feed :
        Cardinality(Positions(feedAddresses, f)) = Cardinality({h \in Hash : feeds[h] = f})

\* A feed gets its answers in the order of their times, each with a quorum of
\* signatures; submitStrict accepts no batch the other functions treat otherwise; the
\* list of feeds is the feeds of the hashes.
AnswersAreApproved == AnswersInOrder /\ AcceptedWithQuorum /\ StrictIsStrongest /\ FeedsListed

=============================================================================
