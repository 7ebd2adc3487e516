------------------------- MODULE MCOracleWhitelist --------------------------
(* The oracles and the proofs made for them, for TLC.                      *)
EXTENDS OrderedProofs, TLC

\* Addresses but the zero address are alike.
AddressSymmetry == Permutations(Address \ {Zero})

=============================================================================
