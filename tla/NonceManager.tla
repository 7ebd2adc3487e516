---------------------------- MODULE NonceManager ----------------------------
(***************************************************************************)
(* The nonces of the reporter's wallet: a channel filled with consecutive  *)
(* nonces, read by the goroutines that submit transactions.  A call holds  *)
(* the manager's mutex, so GetNonce is one step; Reset asks the chain in   *)
(* between, and the module that uses it decides with which nonce it ends.  *)
(***************************************************************************)
EXTENDS Naturals, Sequences

CONSTANTS
    poolSize,
    minimumNoncePoolSize

\* fillPool takes a nonce from the pool it replaces, so a pool must never be read
\* to its end: the code has 100 and 10.
ASSUME PoolAssumption ==
    poolSize \in Nat \ {0, 1} /\ minimumNoncePoolSize \in Nat \ {0, 1}

VARIABLE noncePool    \* the channel's content

NewPool(nonce) == [i \in 1..poolSize |-> nonce + i - 1]

\* Mutant: the new pool starts after the nonce that was taken from the old one.
fillPoolAfter == NewPool(Head(noncePool) + 1)

\* The new pool starts at the nonce taken from the old one.
fillPool == NewPool(Head(noncePool))

Filled == IF Len(noncePool) < minimumNoncePoolSize THEN fillPool ELSE noncePool

GetNonce ==
    /\ noncePool # <<>>
    /\ noncePool' = Tail(Filled)

Reset(nonce) == noncePool' = NewPool(nonce)

=============================================================================
