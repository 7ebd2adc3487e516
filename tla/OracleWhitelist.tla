--------------------------- MODULE OracleWhitelist ---------------------------
(***************************************************************************)
(* The oracles of a SubmissionProxy contract: whose signatures count, until *)
(* when, and in which slot of the list each of them is.  A transaction is  *)
(* one action; one that reverts leaves everything as it was, so a revert   *)
(* condition is a guard.  Slot i of the list has index i - 1.              *)
(***************************************************************************)
EXTENDS Integers, Sequences, FiniteSets

CONSTANTS
    Address,          \* addresses, those of the oracles among them
    Zero,             \* address(0)
    Periods,          \* expiration periods the owner may choose, in blocks' time
    MaxTime           \* bound on block.timestamp

ASSUME ZeroAssumption == Zero \in Address
ASSUME PeriodsAssumption == Periods \subseteq Nat \ {0} /\ Periods # {}
ASSUME MaxTimeAssumption == MaxTime \in Nat \ {0}

VARIABLES
    oracles,          \* the list of slots
    whitelist,        \* index and expiration time of every address
    expirationPeriod,
    now               \* block.timestamp

oracleVars == <<oracles, whitelist, expirationPeriod, now>>

OracleInfo == [index : Nat, expirationTime : Nat]

Unknown == [index |-> 0, expirationTime |-> 0]

OraclesInit ==
    /\ oracles = <<>>
    /\ whitelist = [a \in Address |-> Unknown]
    /\ expirationPeriod \in Periods
    /\ now = 1

-----------------------------------------------------------------------------
(* What the contract computes.                                             *)

isWhitelisted(a) == whitelist[a].expirationTime > now

\* The slots that hold an address; the slots addOracle may reuse.
SlotsOf(a) == {i \in 1..Len(oracles) : oracles[i] = a}
FreeSlots == {i \in 1..Len(oracles) : ~isWhitelisted(oracles[i])}

First(slots) == CHOOSE i \in slots : \A j \in slots : i <= j

\* Mutant: rounded down.
quorumFloor(threshold) == (Len(oracles) * threshold) \div 100

quorum(threshold) ==
    LET nominator == Len(oracles) * threshold
    IN  nominator \div 100 + IF nominator % 100 = 0 THEN 0 ELSE 1

\* A proof's position, its signer's index, the index before it.
InOrder(j, index, last) == j = 1 \/ index > last

\* One turn of the loop of validateProof over the addresses recovered from the
\* signatures: the count of verified signatures and the last index after j of them,
\* and the verdict "accept", "revert" (IndexesNotAscending) or "go" on.
ProofTurn(signers, required, s, j) ==
    LET a == signers[j]
        count == s.count + IF isWhitelisted(a) THEN 1 ELSE 0
    IN  IF s.verdict # "go" \/ a = Zero THEN s
        ELSE IF ~InOrder(j, whitelist[a].index, s.last) THEN [s EXCEPT !.verdict = "revert"]
        ELSE [count |-> count, last |-> whitelist[a].index,
              verdict |-> IF isWhitelisted(a) /\ count >= required THEN "accept" ELSE "go"]

ProofLoop(signers, required) ==
    LET loop[j \in 0..Len(signers)] ==
            IF j = 0 THEN [count |-> 0, last |-> 0, verdict |-> "go"]
            ELSE ProofTurn(signers, required, loop[j - 1], j)
    IN  loop[Len(signers)]

\* "accept", "reject" or "revert".
validateProof(signers, threshold) ==
    LET verdict == ProofLoop(signers, quorum(threshold)).verdict
    IN  IF oracles = <<>> \/ verdict = "go" THEN "reject" ELSE verdict

-----------------------------------------------------------------------------
(* Transactions of the owner and of oracles.                               *)

addOracle(a) ==
    LET info(i) == [index |-> i - 1, expirationTime |-> now + expirationPeriod]
        i == First(FreeSlots)
    IN  /\ a # Zero
        /\ whitelist[a].expirationTime = 0
        /\ IF FreeSlots # {}
           THEN /\ oracles' = [oracles EXCEPT ![i] = a]
                /\ whitelist' = [whitelist EXCEPT ![oracles[i]].index = 0, ![a] = info(i)]
           ELSE /\ oracles' = Append(oracles, a)
                /\ whitelist' = [whitelist EXCEPT ![a] = info(Len(oracles) + 1)]
        /\ UNCHANGED <<expirationPeriod, now>>

\* Mutant: the oracle moved to the freed slot keeps its index.
MovedUnindexed(a, i) ==
    [whitelist EXCEPT ![a] = [index |-> 0, expirationTime |-> now]]

\* The whitelist after a leaves slot i to the last oracle.
Moved(a, i) ==
    [whitelist EXCEPT ![oracles[Len(oracles)]].index = i - 1,
                      ![a] = [index |-> 0, expirationTime |-> now]]

removeOracle(a) ==
    LET i == First(SlotsOf(a))
        last == Len(oracles)
    IN  /\ isWhitelisted(a)
        /\ IF SlotsOf(a) # {}
           THEN /\ oracles' = SubSeq([oracles EXCEPT ![i] = oracles[last]], 1, last - 1)
                /\ whitelist' = Moved(a, i)
           ELSE /\ whitelist' = [whitelist EXCEPT ![a] = [index |-> 0, expirationTime |-> now]]
                /\ UNCHANGED oracles
        /\ UNCHANGED <<expirationPeriod, now>>

\* Mutant: an address that was an oracle before is accepted.
NotYetUsedWeak(a) == ~isWhitelisted(a)

NotYetUsed(a) == whitelist[a].expirationTime = 0

\* The oracle sender hands its slot to address a.
updateOracle(sender, a) ==
    LET i == First(SlotsOf(sender))
        found == SlotsOf(sender) # {}
    IN  /\ isWhitelisted(sender)
        /\ NotYetUsed(a)
        /\ oracles' = IF found THEN [oracles EXCEPT ![i] = a] ELSE oracles
        /\ whitelist' = [whitelist EXCEPT
                           ![sender] = [index |-> 0, expirationTime |-> now],
                           ![a] = [index |-> IF found THEN i - 1 ELSE @.index,
                                   expirationTime |-> now + expirationPeriod]]
        /\ UNCHANGED <<expirationPeriod, now>>

setExpirationPeriod(period) ==
    /\ expirationPeriod' = period
    /\ UNCHANGED <<oracles, whitelist, now>>

\* The next block.
Tick ==
    /\ now < MaxTime
    /\ now' = now + 1
    /\ UNCHANGED <<oracles, whitelist, expirationPeriod>>

OraclesNext ==
    \/ \E a \in Address : addOracle(a) \/ removeOracle(a)
    \/ \E sender, a \in Address : updateOracle(sender, a)
    \/ \E period \in Periods : setExpirationPeriod(period)
    \/ Tick

OraclesSpec == OraclesInit /\ [][OraclesNext]_oracleVars

-----------------------------------------------------------------------------
(* Properties.                                                             *)

\* Every variable has its type.
OraclesTypeOK ==
    /\ oracles \in Seq(Address)
    /\ whitelist \in [Address -> OracleInfo]
    /\ expirationPeriod \in Periods
    /\ now \in Nat \ {0}

\* Every active oracle has one slot and knows its index: reuse of expired slots,
\* removals that move the last oracle, and hand-overs keep list and index in step,
\* and proofs can be ordered by index.
ActiveOraclesIndexed ==
    /\ \A i, j \in 1..Len(oracles) : oracles[i] = oracles[j] => i = j
    /\ \A a \in Address : isWhitelisted(a) =>
          /\ whitelist[a].index \in 0..(Len(oracles) - 1)
          /\ oracles[whitelist[a].index + 1] = a

\* The contract's comment: "The oracles that expired cannot be reused".
ExpiredStayExpired ==
    [][\A a \in Address : whitelist[a].expirationTime # 0 /\ ~isWhitelisted(a)
          => ~(whitelist'[a].expirationTime > now')]_oracleVars

\* validateProof accepts only proofs with signatures of at least the threshold's
\* share of all oracles, every one of a different active oracle.
ProofLength == 0..3
Proofs == UNION {[1..n -> Address] : n \in ProofLength}
Signers(proof) == {proof[j] : j \in DOMAIN proof}

Thresholds == {1, 50, 51, 100}

AcceptedByEnough ==
    \A proof \in Proofs, threshold \in Thresholds :
        validateProof(proof, threshold) = "accept" =>
            100 * Cardinality({a \in Signers(proof) : isWhitelisted(a)}) >= threshold * Len(oracles)

=============================================================================
