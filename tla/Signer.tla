------------------------------- MODULE Signer -------------------------------
(***************************************************************************)
(* The signing key of a node: it is loaded from the database or from the   *)
(* secrets, renewed on the submission proxy contract before it expires,    *)
(* and stored again. Keys are numbered; key 1 is the one of the secrets.   *)
(*                                                                         *)
(* Every NewSigner starts a goroutine that renews the key for as long as   *)
(* the process lives, also when a refresh has made another signer since.   *)
(***************************************************************************)
EXTENDS Integers, FiniteSets

CONSTANTS
    MaxKeys, MaxSigners,  \* bounds on keys, and on signers of a process
    MaxTime,
    Period, Threshold,    \* expirationPeriod of the contract, renewThreshold
    MaxFaults             \* bound on failures and crashes

VARIABLES
    now,
    expires,          \* whitelist of the contract: when a key expires, 0 for unknown keys
    stored,           \* the row of table signer, 0 for none
    pk,               \* the key of each signer of the process, 0 for no signer
    helper,           \* the key that its chain helper signs transactions with
    date,             \* the expirationDate it has loaded, 0 for nil
    used,             \* the signer of the app
    calls,            \* calls of CheckAndUpdateSignerPK under way
    keys,             \* number of keys made
    faults,
    harmed            \* one of the faults listed at KeyIsKept has happened

signerVars == <<now, expires, stored, pk, helper, date, used, calls, keys, faults, harmed>>

SignerId == 1 .. MaxSigners

SignerInit ==
    /\ now = 1 /\ expires = [k \in 1 .. MaxKeys |-> IF k = 1 THEN now + Period ELSE 0]
    /\ stored = 0
    /\ pk = [s \in SignerId |-> 0] /\ helper = pk /\ date = pk /\ used = 0
    /\ calls = {} /\ keys = 1 /\ faults = 0 /\ harmed = FALSE

Whitelisted(k) == expires[k] > now
Fault == faults < MaxFaults /\ faults' = faults + 1

Tick ==
    /\ now < MaxTime /\ now' = now + 1
    /\ UNCHANGED <<expires, stored, pk, helper, date, used, calls, keys, faults, harmed>>

-----------------------------------------------------------------------------
(* NewSigner.                                                              *)

\* The stored key, or the one of the secrets, which is stored then.
getSignerPk(loads) == IF loads /\ stored # 0 THEN stored ELSE 1

\* With loads = FALSE the row cannot be read, and the key of the secrets replaces it.
NewSigner(s, loads) ==
    /\ pk[s] = 0 /\ \A q \in SignerId : q < s => pk[q] # 0
    /\ IF loads THEN UNCHANGED faults ELSE stored # 0 /\ Fault
    /\ pk' = [pk EXCEPT ![s] = getSignerPk(loads)]
    /\ helper' = [helper EXCEPT ![s] = getSignerPk(loads)]
    /\ date' = [date EXCEPT ![s] = 0]
    /\ stored' = getSignerPk(loads)
    /\ harmed' = (harmed \/ stored \notin {0, stored'})
    /\ used' = s
    /\ UNCHANGED <<now, expires, calls, keys>>

-----------------------------------------------------------------------------
(* CheckAndUpdateSignerPK and Renew.                                       *)

Moves(c, to) == calls' = (calls \ {c}) \cup {[c EXCEPT !.at = to]}
Returns(c) == calls' = calls \ {c}

\* By the goroutine of the signer, or by RENEW_SIGNER for the signer of the app.
CheckAndUpdateSignerPK(s) ==
    /\ pk[s] # 0 /\ Cardinality(calls) < 2
    /\ ~\E c \in calls : c.signer = s /\ c.at = "check"
    /\ calls' = calls \cup {[signer |-> s, at |-> "check", new |-> 0]}
    /\ harmed' = (harmed \/ \E c \in calls : c.signer = s)
    /\ UNCHANGED <<now, expires, stored, pk, helper, date, used, keys, faults>>

Required(s) == date[s] - now < Threshold

LoadsDate(c) ==
    /\ c.at = "check" /\ date[c.signer] = 0
    /\ date' = [date EXCEPT ![c.signer] = expires[pk[c.signer]]]
    /\ UNCHANGED <<now, expires, stored, pk, helper, used, calls, keys, faults, harmed>>

NothingToDo(c) ==
    /\ c.at = "check" /\ date[c.signer] # 0 /\ ~Required(c.signer)
    /\ Returns(c)
    /\ UNCHANGED <<now, expires, stored, pk, helper, date, used, keys, faults, harmed>>

NewPk(c) ==
    /\ c.at = "check" /\ date[c.signer] # 0 /\ Required(c.signer) /\ keys < MaxKeys
    /\ keys' = keys + 1
    /\ calls' = (calls \ {c}) \cup {[c EXCEPT !.at = "update", !.new = keys']}
    /\ UNCHANGED <<now, expires, stored, pk, helper, date, used, faults, harmed>>

\* updateOracle of the contract, sent with the key of the helper.
UpdateOracle(c) ==
    expires' = [expires EXCEPT ![helper[c.signer]] = now, ![c.new] = now + Period]

signerUpdate(c) ==
    /\ c.at = "update"
    /\ IF Whitelisted(helper[c.signer]) THEN UpdateOracle(c) /\ Moves(c, "replace")
       ELSE Returns(c) /\ UNCHANGED expires
    /\ UNCHANGED <<now, stored, pk, helper, date, used, keys, faults, harmed>>

\* The helper gives up on a transaction that is mined later.
signerUpdateTimesOut(c) ==
    /\ c.at = "update" /\ Whitelisted(helper[c.signer])
    /\ Fault /\ UpdateOracle(c) /\ Returns(c) /\ harmed' = TRUE
    /\ UNCHANGED <<now, stored, pk, helper, date, used, keys>>

\* Renew that replaces the chain helper only (a mutant).
ReplacesHelperOnly(c) ==
    /\ c.at = "replace"
    /\ Moves(c, "helper")
    /\ UNCHANGED <<now, expires, stored, pk, helper, date, used, keys, faults, harmed>>

ReplacesPk(c) ==
    /\ c.at = "replace"
    /\ pk' = [pk EXCEPT ![c.signer] = c.new]
    /\ Moves(c, "helper")
    /\ UNCHANGED <<now, expires, stored, helper, date, used, keys, faults, harmed>>

NewChainHelper(c) ==
    /\ c.at = "helper"
    /\ helper' = [helper EXCEPT ![c.signer] = c.new]
    /\ Moves(c, "date")
    /\ UNCHANGED <<now, expires, stored, pk, date, used, keys, faults, harmed>>

LoadExpiration(c) ==
    /\ c.at = "date"
    /\ date' = [date EXCEPT ![c.signer] = expires[pk[c.signer]]]
    /\ Moves(c, "store")
    /\ UNCHANGED <<now, expires, stored, pk, helper, used, keys, faults, harmed>>

Stores(c) == stored' = c.new

StoreSignerPk(c) ==
    /\ c.at = "store"
    /\ Stores(c) /\ Returns(c)
    /\ UNCHANGED <<now, expires, pk, helper, date, used, keys, faults, harmed>>

Harms(c) == harmed \/ c.at \in {"replace", "helper", "date", "store"}

\* A step fails and the call returns the error.
StepFails(c) ==
    /\ c.at # "replace" /\ Fault /\ Returns(c) /\ harmed' = Harms(c)
    /\ UNCHANGED <<now, expires, stored, pk, helper, date, used, keys>>

Crash ==
    /\ used # 0 /\ Fault
    /\ pk' = [s \in SignerId |-> 0] /\ helper' = pk' /\ date' = pk' /\ used' = 0
    /\ harmed' = (harmed \/ \E c \in calls : Harms(c))
    /\ calls' = {}
    /\ UNCHANGED <<now, expires, stored, keys>>

SignerNext ==
    \/ Tick \/ Crash
    \/ \E s \in SignerId : (\E loads \in BOOLEAN : NewSigner(s, loads)) \/ CheckAndUpdateSignerPK(s)
    \/ \E c \in calls :
          \/ LoadsDate(c) \/ NothingToDo(c) \/ NewPk(c)
          \/ signerUpdate(c) \/ signerUpdateTimesOut(c) \/ ReplacesPk(c) \/ NewChainHelper(c)
          \/ LoadExpiration(c) \/ StoreSignerPk(c) \/ StepFails(c)

-----------------------------------------------------------------------------

Renewing == \E c \in calls : c.at \in {"replace", "helper", "date", "store"}

\* The key the contract accepts.
Accepted == CHOOSE k \in 1 .. MaxKeys :
                expires[k] # 0 /\ \A q \in 1 .. MaxKeys : expires[q] <= expires[k]

\* Outside of a renewal the stored key is the one the contract knows, so that a restarted
\* node can submit. What can break this is a fault after the contract has been updated (a
\* crash, a failed step of Renew, a transaction mined after the wait), a call that begins
\* while another one renews the same signer, and a stored key that cannot be read when a
\* signer is made; a fault at any other time cannot.
KeyIsKept == stored # 0 /\ ~harmed /\ ~Renewing => stored = Accepted

\* As long as the process has made one signer only, the app signs with that key, too. (After
\* a refresh the goroutine of an earlier signer may renew the key, and the app's signer
\* keeps one that the contract no longer accepts.)
AppUsesKey == used = 1 /\ ~harmed /\ ~Renewing => pk[used] = Accepted

=============================================================================
