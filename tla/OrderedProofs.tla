--------------------------- MODULE OrderedProofs ----------------------------
(* The oracles of the contract and the proofs the data availability layer  *)
(* makes for them.                                                         *)
EXTENDS OracleWhitelist, ProofOrder

ASSUME GarbageAssumption == Garbage \notin Address

\* The data availability layer and the contract fit together: signatures of enough
\* active oracles, in any order and with duplicates, are accepted once orderProof
\* has put them in the order of getAllOracles, whatever slots were reused or moved.
OrderedProofsAccepted ==
    \A proof \in Proofs, threshold \in Thresholds :
        /\ proof # <<>>
        /\ \A j \in DOMAIN proof : isWhitelisted(proof[j]) /\ proof[j] # Zero
        /\ 100 * Cardinality(Signers(proof)) >= threshold * Len(oracles)
        => LET ordered == orderProof(proof, oracles)
           IN  ordered.error = "none" /\ validateProof(ordered.proof, threshold) = "accept"

=============================================================================
