-------------------------------- MODULE Por ---------------------------------
(***************************************************************************)
(* The proof of reserve reporter.  A ticker runs Execute with retries: it  *)
(* fetches the reserve, reads the contract's last answer, and when the     *)
(* answer is missing, old or off it reads the round and submits.  Time     *)
(* passes and transactions wait between the steps, and a submission whose  *)
(* receipt does not come in time is retried while it may still be mined.   *)
(*                                                                         *)
(* Values are fixed point numbers, Unit to one unit of the contract; a     *)
(* fetch that fails leaves 0, and Execute goes on with it.                 *)
(***************************************************************************)
EXTENDS Integers, Sequences

CONSTANTS
    Value,             \* the values of the reserve
    Unit,
    Deviation,         \* one part in Deviation is DEVIATION_THRESHOLD
    AbsoluteThreshold, \* ABSOLUTE_THRESHOLD, as a value
    SubmitInterval,    \* less the buffer of five seconds
    MaxRetry,
    MaxRuns, MaxTime,  \* bounds
    MaxFailures

VARIABLES
    clock,
    contract,          \* the aggregator: round, answer, updatedAt
    pending,           \* the transactions not mined yet, in the order of their nonces
    job,               \* Execute: its place, its locals, and whether a late answer came since it read one
    runs, failures,
    why                \* history: why the contract's answer was submitted

porVars == <<clock, contract, pending, job, runs, failures, why>>

Rest == [phase |-> "tick", tries |-> 0, value |-> 0, fetched |-> FALSE, answer |-> 0,
         updatedAt |-> 0, cause |-> "none", round |-> 0, late |-> FALSE]

PorInit ==
    /\ clock = 1
    /\ contract = [round |-> 0, answer |-> 0, updatedAt |-> 0]
    /\ pending = <<>> /\ job = Rest /\ runs = 0 /\ failures = 0 /\ why = [cause |-> "none", fetched |-> TRUE]

Fails == failures < MaxFailures /\ failures' = failures + 1

\* Retry starts Execute anew until the attempts are used up.
ExecuteFails ==
    /\ Fails
    /\ job' = IF job.tries + 1 < MaxRetry THEN [Rest EXCEPT !.phase = "fetch", !.tries = job.tries + 1] ELSE Rest

Run ==
    /\ job.phase = "tick" /\ runs < MaxRuns
    /\ runs' = runs + 1
    /\ job' = [Rest EXCEPT !.phase = "fetch"]
    /\ UNCHANGED <<clock, contract, pending, failures, why>>

\* The error of a fetch is logged; the value stays 0.
Fetch ==
    /\ job.phase = "fetch"
    /\ \/ \E v \in Value :
             job' = [job EXCEPT !.phase = "info", !.value = v, !.fetched = TRUE] /\ UNCHANGED failures
       \/ Fails /\ job' = [job EXCEPT !.phase = "info", !.value = 0, !.fetched = FALSE]
    /\ UNCHANGED <<clock, contract, pending, runs, why>>

GetLastInfo ==
    /\ job.phase = "info"
    /\ \/ /\ job' = [job EXCEPT !.phase = "decide", !.answer = contract.answer * Unit,
                                !.updatedAt = contract.updatedAt]
          /\ UNCHANGED failures
       \/ ExecuteFails
    /\ UNCHANGED <<clock, contract, pending, runs, why>>

\* Mutant: a value of zero is a change like another.
DeviatesFromZero(old, new) ==
    IF old # 0 THEN Deviation * new < (Deviation - 1) * old \/ Deviation * new > (Deviation + 1) * old
    ELSE new > AbsoluteThreshold

DeviationCheck(old, new) ==
    IF old # 0 /\ new # 0
    THEN Deviation * new < (Deviation - 1) * old \/ Deviation * new > (Deviation + 1) * old
    ELSE old = 0 /\ new > AbsoluteThreshold

\* Why a report is due; none when it is not.
ShouldReport ==
    IF job.updatedAt = 0 /\ job.answer = 0 THEN "first"
    ELSE IF clock - job.updatedAt > SubmitInterval THEN "heartbeat"
    ELSE IF DeviationCheck(job.answer, job.value) THEN "deviation" ELSE "none"

Decide ==
    /\ job.phase = "decide"
    /\ job' = IF ShouldReport = "none" THEN [job EXCEPT !.phase = "done"]
              ELSE [job EXCEPT !.phase = "round", !.cause = ShouldReport]
    /\ UNCHANGED <<clock, contract, pending, runs, failures, why>>

\* oracleRoundState: the round the reporter may submit to.
GetRoundID ==
    /\ job.phase = "round"
    /\ \/ job' = [job EXCEPT !.phase = "report", !.round = contract.round + 1] /\ UNCHANGED failures
       \/ ExecuteFails
    /\ UNCHANGED <<clock, contract, pending, runs, why>>

\* The fraction of the value is cut off.
report ==
    /\ job.phase = "report"
    /\ \/ /\ pending' = Append(pending, [round |-> job.round, answer |-> job.value \div Unit,
                                         cause |-> job.cause, fetched |-> job.fetched, awaited |-> TRUE])
          /\ job' = [job EXCEPT !.phase = "receipt"] /\ UNCHANGED failures
       \/ ExecuteFails /\ UNCHANGED pending
    /\ UNCHANGED <<clock, contract, runs, why>>

\* The receipt does not come in time; the transaction may still be mined.
ReceiptTimesOut ==
    /\ job.phase = "receipt"
    /\ ExecuteFails
    /\ pending' = [k \in DOMAIN pending |-> [pending[k] EXCEPT !.awaited = FALSE]]
    /\ UNCHANGED <<clock, contract, runs, why>>

\* The contract takes the submission of its next round and reverts another.  Execute
\* gets the receipt; one of a reverted transaction is an error.
Mined ==
    /\ pending # <<>>
    /\ LET tx == Head(pending)
           accepted == tx.round = contract.round + 1
       IN  /\ contract' = IF accepted THEN [round |-> tx.round, answer |-> tx.answer, updatedAt |-> clock]
                          ELSE contract
           /\ why' = IF accepted THEN [cause |-> tx.cause, fetched |-> tx.fetched] ELSE why
           /\ job' = CASE tx.awaited /\ accepted -> [job EXCEPT !.phase = "done"]
                       [] tx.awaited /\ ~accepted ->
                             IF job.tries + 1 < MaxRetry
                             THEN [Rest EXCEPT !.phase = "fetch", !.tries = job.tries + 1] ELSE Rest
                       [] OTHER -> [job EXCEPT !.late = @ \/ (accepted /\ job.phase \notin {"tick", "fetch", "info"})]
    /\ pending' = Tail(pending)
    /\ UNCHANGED <<clock, runs, failures>>

Executed ==
    /\ job.phase = "done"
    /\ job' = Rest
    /\ UNCHANGED <<clock, contract, pending, runs, failures, why>>

Tick ==
    /\ clock < MaxTime
    /\ clock' = clock + 1
    /\ UNCHANGED <<contract, pending, job, runs, failures, why>>

PorNext ==
    \/ Run \/ Fetch \/ GetLastInfo \/ Decide \/ GetRoundID \/ report \/ ReceiptTimesOut
    \/ Mined \/ Executed \/ Tick

-----------------------------------------------------------------------------
(* Properties.                                                             *)

\* The zero that stands for a failed fetch becomes the contract's answer only as the
\* first report or at the heartbeat, never because it seems to deviate.
FailedFetchOnlyWhenDue ==
    ~why.fetched => why.cause \in {"first", "heartbeat"}

Near(old, new) ==
    \/ new \div Unit = old \div Unit
    \/ Deviation * new \in (Deviation - 1) * old .. (Deviation + 1) * old
    \/ old = 0 /\ new <= AbsoluteThreshold

\* When Execute ends well with a fetched value, the contract's answer is that value to
\* a unit or within the deviation of it, unless a submission given up earlier came in
\* between.  A reserve of zero is an exception: it waits for the heartbeat.
DoneIsClose ==
    job.phase = "done" /\ job.fetched /\ job.value # 0 /\ ~job.late => Near(contract.answer * Unit, job.value)
=============================================================================
