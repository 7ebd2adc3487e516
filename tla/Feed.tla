-------------------------------- MODULE Feed --------------------------------
(***************************************************************************)
(* A Feed contract: the rounds its submitter stores, and what a reader     *)
(* gets, the time-weighted average price among it.  Round i of the         *)
(* contract is rounds[i]; a read that reverts is Reverted.                 *)
(***************************************************************************)
EXTENDS Integers, Sequences, FiniteSets

CONSTANTS
    Answers,          \* answers that are submitted; they may be negative
    Reverted,         \* the result of a call that reverts
    MaxRounds,        \* bound on the rounds
    MaxTime           \* bound on block.timestamp

VARIABLES rounds, now

vars == <<rounds, now>>

Init == rounds = <<>> /\ now = 1

\* uint64 roundId_ = latestRoundId + 1.
submit(answer) ==
    /\ Len(rounds) < MaxRounds
    /\ rounds' = Append(rounds, [answer |-> answer, updatedAt |-> now])
    /\ UNCHANGED now

Tick ==
    /\ now < MaxTime
    /\ now' = now + 1
    /\ UNCHANGED rounds

Next == Tick \/ \E answer \in Answers : submit(answer)

Spec == Init /\ [][Next]_vars

\* Signed division rounds towards zero.
Div(sum, count) == IF sum >= 0 THEN sum \div count ELSE -((-sum) \div count)

\* Mutant: the first round is never the last of a window.
StopsLate(id, enough) == id > 1 /\ enough

\* The loop ends here with an average.
Stops(id, enough) == enough

\* The loop of twap from round id on, with the sum and count of the rounds after it.
TwapLoop(interval, minCount) ==
    LET loop[id \in 1..Len(rounds)] ==
            [sum \in Int, count \in Nat |->
                LET total == sum + rounds[id].answer
                    seen == count + 1
                IN  IF Stops(id, now - rounds[id].updatedAt >= interval /\ seen >= minCount)
                    THEN Div(total, seen)
                    ELSE IF id = 1 THEN Reverted
                    ELSE loop[id - 1][total, seen]]
    IN  loop[Len(rounds)][0, 0]

\* NoDataPresent, AnswerAboveTolerance and InsufficientData revert.
twap(interval, tolerance, minCount) ==
    IF rounds = <<>> THEN Reverted
    ELSE IF tolerance > 0 /\ now - rounds[Len(rounds)].updatedAt > tolerance THEN Reverted
    ELSE TwapLoop(interval, minCount)

-----------------------------------------------------------------------------
(* Properties.                                                             *)

\* The sum of the answers of rounds first..Len(rounds).
SumFrom(first) ==
    LET sum[i \in first..(Len(rounds) + 1)] ==
            IF i = Len(rounds) + 1 THEN 0 ELSE rounds[i].answer + sum[i + 1]
    IN  sum[first]

\* twap is the average, rounded towards zero, over the latest rounds back to the
\* first one that makes them enough and reach over the interval; it reverts when
\* no round does or the latest one is older than the tolerance.
TwapOfShortestWindow ==
    \A interval, tolerance \in 0..MaxTime, minCount \in 0..(MaxRounds + 1) :
        LET n == Len(rounds)
            Enough(i) == now - rounds[i].updatedAt >= interval /\ n - i + 1 >= minCount
            starts == {i \in 1..n : Enough(i)}
            result == twap(interval, tolerance, minCount)
            stale == n > 0 /\ tolerance > 0 /\ now - rounds[n].updatedAt > tolerance
        IN  IF stale \/ starts = {} THEN result = Reverted
            ELSE LET first == CHOOSE i \in starts : \A j \in starts : j <= i
                     count == n - first + 1
                     rest == SumFrom(first) - result * count
                 IN  /\ result # Reverted
                     /\ IF SumFrom(first) >= 0 THEN rest \in 0..(count - 1)
                        ELSE -rest \in 0..(count - 1)

=============================================================================
