------------------------------ MODULE Reporter ------------------------------
(***************************************************************************)
(* The reporter: tickers start jobs that submit the latest aggregates of   *)
(* the data availability layer (DAL) to the SubmissionProxy contract.  A   *)
(* job splits its pairs into batches, a goroutine submits each of them     *)
(* with a nonce of its own, and a job whose transactions fail for their    *)
(* nonce or are not mined in time resets the nonces.  Jobs overlap: a tick *)
(* does not wait for the job before.                                       *)
(*                                                                         *)
(* An aggregate is its time; Price gives its value.  A transaction is its  *)
(* nonce: the chain's pool holds one of each nonce and mines them in order.*)
(***************************************************************************)
EXTENDS NonceManager, FiniteSets, TLC

CONSTANTS
    Pair,
    Regular,          \* jobs of reporters with an interval of their own: two of them
                      \* with the same pairs are two ticks of one reporter
    Deviation,        \* the job of the reporter of deviations
    Pairs,            \* the pairs of each regular job's reporter
    MAX_REPORT_BATCH_SIZE,
    ErrorsCapacity,   \* of a job's errorsChan
    Price,            \* the values of a pair's aggregates, by time
    One,              \* 10^DECIMALS, the value of the price 1
    Threshold,        \* deviationThreshold, in thousandths
    MaxFailures,      \* bound on failures that are not the reporter's
    MaxGoroutines,    \* bound on goroutines that submit at the same time
    MaxMined,         \* no job starts once so many transactions were mined
    MaxNonce          \* bound on nonces given out, higher than any that is

VARIABLES
    latest,           \* the time of the latest aggregate of each pair in the DAL
    wsData,           \* websocket messages of the DAL under way: pair and time
    latestDataMap,    \* what the websocket told of each pair, 0 for nothing
    latestSubmittedDataMap,
    jobs,
    chainNonce,       \* the nonce of the next transaction mined
    txPool,           \* transactions sent and not mined: their aggregates by nonce
    reverted,         \* nonces of transactions mined with status 0
    onchain,          \* the time of each pair's answer in the contract
    failures

\* The jobs that may run at the same time.
Job == Regular \cup {Deviation}

dataVars == <<latest, wsData, latestDataMap, latestSubmittedDataMap>>
chainVars == <<chainNonce, txPool, reverted, onchain>>
vars == <<noncePool, dataVars, jobs, chainVars, failures>>

Idle == [status |-> "idle", subs |-> <<>>, data |-> <<>>, errors |-> 0, refresh |-> FALSE, nonce |-> 0]

Init ==
    /\ noncePool = NewPool(0)
    /\ latest \in [Pair -> {0, 1}] /\ wsData = {}
    /\ latestDataMap = [p \in Pair |-> 0]
    /\ latestSubmittedDataMap = [p \in Pair |-> 0]
    /\ jobs = [j \in Job |-> Idle]
    /\ chainNonce = 0 /\ txPool = <<>> /\ reverted = {}
    /\ onchain = [p \in Pair |-> 0]
    /\ failures = 0

-----------------------------------------------------------------------------
(* The data of the DAL.                                                    *)

\* The DAL has the pair's next aggregate and tells the reporter's websocket.
NewData(p) ==
    /\ latest[p] < Len(Price[p])
    /\ latest' = [latest EXCEPT ![p] = @ + 1]
    /\ wsData' = wsData \cup {<<p, latest[p] + 1>>}
    /\ UNCHANGED <<noncePool, latestDataMap, latestSubmittedDataMap, jobs, chainVars, failures>>

\* Messages are handled by a goroutine each, in any order, or lost.
HandleWsMessage(p, t) ==
    /\ <<p, t>> \in wsData
    /\ wsData' = wsData \ {<<p, t>>}
    /\ latestDataMap' = [latestDataMap EXCEPT ![p] = t]
    /\ UNCHANGED <<noncePool, latest, latestSubmittedDataMap, jobs, chainVars, failures>>

ShouldReportDeviation(oldValue, newValue) ==
    \/ /\ oldValue # 0 /\ newValue # 0
       /\ \/ 1000 * newValue < oldValue * (1000 - Threshold)
          \/ 1000 * newValue > oldValue * (1000 + Threshold)
    \/ oldValue = 0 /\ newValue # 0 /\ 10 * newValue > One

GetDeviatingAggregates ==
    {p \in Pair :
        /\ latestSubmittedDataMap[p] # 0 /\ latestDataMap[p] # 0
        /\ ShouldReportDeviation(Price[p][latestSubmittedDataMap[p]], Price[p][latestDataMap[p]])}

-----------------------------------------------------------------------------
(* A job.                                                                  *)

\* A map's pairs come in any order: all batches are full but perhaps one.
Batches(pairs) ==
    {batches \in SUBSET (SUBSET pairs \ {{}}) :
        /\ UNION batches = pairs
        /\ \A b, c \in batches : b # c => b \cap c = {}
        /\ \A b \in batches : Cardinality(b) <= MAX_REPORT_BATCH_SIZE
        /\ Cardinality({b \in batches : Cardinality(b) < MAX_REPORT_BATCH_SIZE}) <= 1}

Goroutines == {jb \in Job \X SUBSET Pair : jb[2] \in DOMAIN jobs[jb[1]].subs}

\* The tick of a reporter: its job takes the data and starts a goroutine per batch.
report(j, data) ==
    /\ jobs[j] = Idle /\ chainNonce < MaxMined
    /\ DOMAIN data # {}
    /\ \E batches \in Batches(DOMAIN data) :
          /\ Cardinality(Goroutines) + Cardinality(batches) <= MaxGoroutines
          /\ jobs' = [jobs EXCEPT ![j] =
                        [Idle EXCEPT !.status = "submitting", !.data = data,
                                     !.subs = [b \in batches |-> [phase |-> "new", nonce |-> 0]]]]
    /\ UNCHANGED <<noncePool, dataVars, chainVars, failures>>

\* The answer of the DAL has the pairs it has data of.
regularReporterJob(j) == report(j, [p \in {q \in Pairs[j] : latest[q] # 0} |-> latest[p]])

deviationJob == report(Deviation, [p \in GetDeviatingAggregates |-> latestDataMap[p]])

\* The goroutine of batch b.
InPhase(j, b, phase) ==
    /\ jobs[j].status = "submitting" /\ b \in DOMAIN jobs[j].subs
    /\ jobs[j].subs[b].phase = phase

Goes(j, b, phase) == jobs' = [jobs EXCEPT ![j].subs[b].phase = phase]

Fails == failures < MaxFailures /\ failures' = failures + 1

\* Reset holds the mutex while it asks the chain.
MutexFree == \A j \in Job : jobs[j].status # "resetting"

TakeNonce(j, b) ==
    /\ InPhase(j, b, "new") /\ MutexFree
    /\ Head(Filled) <= MaxNonce
    /\ GetNonce
    /\ jobs' = [jobs EXCEPT ![j].subs[b] = [phase |-> "built", nonce |-> Head(Filled)]]
    /\ UNCHANGED <<dataVars, chainVars, failures>>

\* Mutant: only nonce errors ask for new nonces.
NonceErrorsOnly(error) == error = "nonce"

Room(j) == jobs[j].errors < ErrorsCapacity

ShouldRefreshNonce(error) == error \in {"nonce", "deadline"}

\* A goroutine ends with an error, which it puts into errorsChan; nobody reads the
\* channel before all are done, so without room it waits forever.
Errs(j, b, error) ==
    IF Room(j)
    THEN jobs' = [jobs EXCEPT ![j].subs[b].phase = "done", ![j].errors = @ + 1,
                              ![j].refresh = @ \/ ShouldRefreshNonce(error)]
    ELSE Goes(j, b, "blocked")

\* No transaction is made, or it does not arrive: the nonce is lost.
SubmitFails(j, b) ==
    /\ InPhase(j, b, "built")
    /\ Errs(j, b, "other") /\ Fails
    /\ UNCHANGED <<noncePool, dataVars, chainVars>>

\* The chain refuses a nonce that was used or is in its pool.
SendRefused(j, b) ==
    /\ InPhase(j, b, "built")
    /\ jobs[j].subs[b].nonce < chainNonce \/ jobs[j].subs[b].nonce \in DOMAIN txPool
    /\ Errs(j, b, "nonce")
    /\ UNCHANGED <<noncePool, dataVars, chainVars, failures>>

Send(j, b) ==
    LET nonce == jobs[j].subs[b].nonce
    IN  /\ InPhase(j, b, "built")
        /\ nonce >= chainNonce /\ nonce \notin DOMAIN txPool
        /\ txPool' = txPool @@ (nonce :> [p \in b |-> jobs[j].data[p]])
        /\ UNCHANGED <<noncePool, dataVars, chainNonce, reverted, onchain>>

SendTransaction(j, b) == Send(j, b) /\ Goes(j, b, "sent") /\ UNCHANGED failures

\* The transaction arrives but the answer does not.
SendAnswerLost(j, b) == Send(j, b) /\ Errs(j, b, "other") /\ Fails

WaitMined(j, b) ==
    /\ InPhase(j, b, "sent")
    /\ jobs[j].subs[b].nonce < chainNonce
    /\ IF jobs[j].subs[b].nonce \in reverted THEN Errs(j, b, "other") ELSE Goes(j, b, "done")
    /\ UNCHANGED <<noncePool, dataVars, chainVars, failures>>

\* PendingNonceAt: the first nonce without a transaction.
PendingNonce == CHOOSE n \in chainNonce..(chainNonce + Cardinality(DOMAIN txPool)) :
                    /\ n \notin DOMAIN txPool
                    /\ \A m \in chainNonce..(n - 1) : m \in DOMAIN txPool

\* DEFAULT_MINE_WAIT_TIME passes: a nonce before this one is missing ...
WaitTimeout(j, b) ==
    /\ InPhase(j, b, "sent")
    /\ jobs[j].subs[b].nonce > PendingNonce
    /\ Errs(j, b, "deadline")
    /\ UNCHANGED <<noncePool, dataVars, chainVars, failures>>

\* ... or the chain is slow.
MineTooSlow(j, b) ==
    /\ InPhase(j, b, "sent")
    /\ jobs[j].subs[b].nonce \in chainNonce..PendingNonce
    /\ Errs(j, b, "deadline") /\ Fails
    /\ UNCHANGED <<noncePool, dataVars, chainVars>>

\* All goroutines are done: what was to be submitted is stored as submitted.
Collect(j) ==
    /\ jobs[j].status = "submitting"
    /\ \A b \in DOMAIN jobs[j].subs : jobs[j].subs[b].phase = "done"
    /\ latestSubmittedDataMap' = [p \in Pair |-> IF p \in DOMAIN jobs[j].data THEN jobs[j].data[p]
                                                 ELSE latestSubmittedDataMap[p]]
    /\ jobs' = [jobs EXCEPT ![j] = IF jobs[j].refresh THEN [Idle EXCEPT !.status = "flush"] ELSE Idle]
    /\ UNCHANGED <<noncePool, latest, wsData, latestDataMap, chainVars, failures>>

\* Reset takes the mutex and reads the chain's nonce ...
ResetReads(j) ==
    /\ jobs[j].status = "flush" /\ MutexFree
    /\ jobs' = [jobs EXCEPT ![j].status = "resetting", ![j].nonce = PendingNonce]
    /\ UNCHANGED <<noncePool, dataVars, chainVars, failures>>

\* ... which may fail ...
ResetFails(j) ==
    /\ jobs[j].status = "flush" /\ MutexFree
    /\ jobs' = [jobs EXCEPT ![j] = Idle]
    /\ Fails
    /\ UNCHANGED <<noncePool, dataVars, chainVars>>

\* ... and then fills the pool from it.
ResetFills(j) ==
    /\ jobs[j].status = "resetting"
    /\ Reset(jobs[j].nonce)
    /\ jobs' = [jobs EXCEPT ![j] = Idle]
    /\ UNCHANGED <<dataVars, chainVars, failures>>

-----------------------------------------------------------------------------
(* The chain.                                                              *)

Without(n) == [m \in DOMAIN txPool \ {n} |-> txPool[m]]

\* submit stores the answers that are newer than the contract's.
Mine ==
    /\ chainNonce \in DOMAIN txPool
    /\ onchain' = [p \in Pair |->
                     IF p \in DOMAIN txPool[chainNonce] /\ txPool[chainNonce][p] > onchain[p]
                     THEN txPool[chainNonce][p] ELSE onchain[p]]
    /\ txPool' = Without(chainNonce)
    /\ chainNonce' = chainNonce + 1
    /\ UNCHANGED <<noncePool, dataVars, jobs, reverted, failures>>

MineReverted ==
    /\ chainNonce \in DOMAIN txPool
    /\ Fails
    /\ reverted' = reverted \cup {chainNonce}
    /\ txPool' = Without(chainNonce)
    /\ chainNonce' = chainNonce + 1
    /\ UNCHANGED <<noncePool, dataVars, jobs, onchain>>

-----------------------------------------------------------------------------

\* A goroutine's next step when nothing goes wrong that need not.
Proceeds(j, b) ==
    TakeNonce(j, b) \/ SendRefused(j, b) \/ SendTransaction(j, b) \/ WaitMined(j, b)
        \/ WaitTimeout(j, b)

Advances(j) ==
    \/ \E b \in SUBSET Pair : Proceeds(j, b)
    \/ Collect(j) \/ ResetReads(j) \/ ResetFills(j)

Next ==
    \/ \E p \in Pair : NewData(p) \/ \E t \in 1..Len(Price[p]) : HandleWsMessage(p, t)
    \/ \E j \in Regular : regularReporterJob(j)
    \/ deviationJob
    \/ \E j \in Job :
          \/ Advances(j) \/ ResetFails(j)
          \/ \E b \in SUBSET Pair : SubmitFails(j, b) \/ SendAnswerLost(j, b) \/ MineTooSlow(j, b)
    \/ Mine \/ MineReverted

\* A job's goroutines run, the regular reporters' tickers tick and the chain mines
\* what it can.
Fairness ==
    /\ \A j \in Regular : WF_vars(regularReporterJob(j))
    /\ \A j \in Job : WF_vars(Advances(j))
    /\ WF_vars(Mine)

Spec == Init /\ [][Next]_vars /\ Fairness

-----------------------------------------------------------------------------
(* Properties.                                                             *)

\* A job always ends: none of its goroutines waits forever for room in errorsChan,
\* for a nonce or for a transaction that is never mined.
JobsEnd == \A j \in Job : jobs[j] # Idle ~> jobs[j] = Idle

\* Whatever nonces were lost, used twice or reset from a stale value, and however
\* jobs overlap, reports get through again: the last aggregate of every pair gets
\* into the contract, or MaxMined transactions do.
FeedsCatchUp ==
    \A p \in Pair :
        latest[p] = Len(Price[p]) ~> onchain[p] = Len(Price[p]) \/ chainNonce >= MaxMined

=============================================================================
