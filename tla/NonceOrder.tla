----------------------------- MODULE NonceOrder -----------------------------
(* The nonce manager on its own, with a record of the nonces it gave out.  *)
EXTENDS NonceManager

CONSTANT ChainNonce   \* what the chain may answer: the wallet's pending nonces

ASSUME ChainNonceAssumption == ChainNonce \subseteq Nat

VARIABLES
    start,            \* the chain's nonce when the pool was last filled from it
    given             \* what GetNonce returned since then

nonceVars == <<noncePool, start, given>>

StartFrom(nonce) ==
    /\ noncePool = NewPool(nonce)
    /\ start = nonce
    /\ given = <<>>

NonceInit == \E nonce \in ChainNonce : StartFrom(nonce)

Give ==
    /\ GetNonce
    /\ given' = Append(given, Head(Filled))
    /\ UNCHANGED start

StartAgain(nonce) ==
    /\ Reset(nonce)
    /\ start' = nonce
    /\ given' = <<>>

NonceNext == Give \/ \E nonce \in ChainNonce : StartAgain(nonce)

NonceSpec == NonceInit /\ [][NonceNext]_nonceVars

-----------------------------------------------------------------------------

\* Every variable has its type.
NoncesTypeOK ==
    /\ noncePool \in Seq(Nat)
    /\ start \in Nat
    /\ given \in Seq(Nat)

\* Between two resets GetNonce returns the chain's nonce and those after it, each
\* once and without a gap, also where the pool is replaced, and never blocks.
NoncesConsecutive ==
    /\ \A i \in 1..Len(given) : given[i] = start + i - 1
    /\ noncePool # <<>>
    /\ \A i \in 1..Len(noncePool) : noncePool[i] = start + Len(given) + i - 1

=============================================================================
