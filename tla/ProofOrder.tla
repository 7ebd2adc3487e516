----------------------------- MODULE ProofOrder -----------------------------
(***************************************************************************)
(* How the data availability layer orders the signatures of a submission   *)
(* for the contract: by the list of oracles it read from there.  A         *)
(* signature is its signer, or Garbage when no signer can be recovered;    *)
(* an oracle signs a submission in one way only.                           *)
(***************************************************************************)
EXTENDS Naturals, Sequences, FiniteSets

CONSTANT Garbage

\* The different signers of a proof, the oracles of a list.
Members(seq) == {seq[i] : i \in DOMAIN seq}

\* No oracle is in it twice.
Distinct(seq) == \A i, j \in DOMAIN seq : seq[i] = seq[j] => i = j

\* Mutant: the signatures stay in the order they came in.
AsTheyCame(signers, proof, list) == proof

\* One turn of the loop of validateProof over the list: a's signature, if it is there.
OrderTurn(signers, tmpProofs, a) == IF a \in signers THEN Append(tmpProofs, a) ELSE tmpProofs

\* validateProof: the signatures in the order of the list.
InListOrder(signers, proof, list) ==
    LET tmpProofs[i \in 0..Len(list)] ==
            IF i = 0 THEN <<>> ELSE OrderTurn(signers, tmpProofs[i - 1], list[i])
    IN  tmpProofs[Len(list)]

\* The ordered proof, or why there is none.  getUniqueProofChunks drops duplicates.
orderProof(proof, list) ==
    LET signers == Members(proof)
    IN  IF proof = <<>> \/ Garbage \in signers THEN [error |-> "invalid", proof |-> <<>>]
        ELSE IF ~(signers \subseteq Members(list)) THEN [error |-> "notWhitelisted", proof |-> <<>>]
        ELSE [error |-> "none", proof |-> InListOrder(signers, proof, list)]

=============================================================================
